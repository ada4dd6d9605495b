----------------------------- MODULE MCAccounts -----------------------------
(* Two addresses and two handlers, from three beginnings: an empty         *)
(* workspace with two codes to mail, or with one and a failure; and an     *)
(* owner signed in beside a member with the second factor, two changes and *)
(* one code.  What a beginning leaves out is spent.                        *)
EXTENDS Accounts

CONSTANTS a, b

Left(codes, changes, failures) ==
  [codes |-> MaxCodes - codes, changes |-> MaxChanges - changes, failures |-> MaxFailures - failures]

Verified == [NewRow EXCEPT !.verified = TRUE]

MCInit ==
  /\ otp = {} /\ mailed = {} /\ req = [h \in Handlers |-> Idle]
  /\ issued = <<>> /\ accepted = {} /\ marred = {} /\ slipped = FALSE
  /\ \/ user = [u \in Users |-> Absent] /\ sessions = {} /\ spent \in {Left(2, 0, 0), Left(1, 0, 1)}
     \/ /\ user = (a :> [Verified EXCEPT !.role = "owner"] @@ b :> [Verified EXCEPT !.twoFactor = TRUE])
        /\ sessions = {[user |-> a, role |-> "owner"]} /\ spent = Left(1, 2, 0)

MCSpec == MCInit /\ [][Next]_vars /\ Fairness
=============================================================================
