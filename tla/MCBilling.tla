------------------------------ MODULE MCBilling ------------------------------
(* Model checking Billing: two entries of one project, two users who may   *)
(* log them, two invoices and two handlers.  Entries, invoices, users and  *)
(* handlers are interchangeable.  The minutes of two entries may add up to *)
(* more than an int32 holds, to less than either has, or to nothing.       *)
EXTENDS Billing, TLC

MCMinutes == {-1, 0, 2}

MCSymmetry == Permutations(Users) \cup Permutations(Entries)
                \cup Permutations(Invoices) \cup Permutations(Handlers)
=============================================================================
