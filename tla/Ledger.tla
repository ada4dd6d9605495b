-------------------------------- MODULE Ledger --------------------------------
(***************************************************************************)
(* What invoicing promises about logged time, with no request, statement   *)
(* or line in sight: an entry is on one invoice at a time, it is put there *)
(* only while it is on none, the invoice is one that exists, and what      *)
(* frees the time of an invoice frees all of it at once.                   *)
(***************************************************************************)
CONSTANTS Entries, Invoices, None

VARIABLES
  open,    \* the invoices that exist
  holder   \* the invoice each entry is on, or None

TypeOK ==
  /\ open \in SUBSET Invoices
  /\ holder \in [Entries -> Invoices \cup {None}]

Init == open = {} /\ holder = [e \in Entries |-> None]

Issue(i) == open' = open \cup {i} /\ UNCHANGED holder

(* Some of the time that is on no invoice goes on invoice i.               *)
Bill(i, S) ==
  /\ i \in open
  /\ \A e \in S : holder[e] = None
  /\ holder' = [e \in Entries |-> IF e \in S THEN i ELSE holder[e]]
  /\ UNCHANGED open

Freed(i) == [e \in Entries |-> IF holder[e] = i THEN None ELSE holder[e]]

Release(i) == holder' = Freed(i) /\ UNCHANGED open

Withdraw(i) == open' = open \ {i} /\ holder' = Freed(i)

(* An entry is deleted, from its invoice too.                              *)
Forget(e) == holder' = [holder EXCEPT ![e] = None] /\ UNCHANGED open

Next ==
  \/ \E i \in Invoices :
       \/ Issue(i) \/ Release(i) \/ Withdraw(i)
       \/ \E S \in SUBSET Entries : Bill(i, S)
  \/ \E e \in Entries : Forget(e)

Spec == Init /\ [][Next]_<<open, holder>>
=============================================================================
