---------------------------- MODULE MCScheduling ----------------------------
(* Model checking Scheduling: three tasks, two concurrent handlers and     *)
(* three requests, enough for two creations that close a cycle around a    *)
(* third request.                                                          *)
EXTENDS Scheduling, TLC

(* Two tasks of one day, the later of which pushes a chain behind it, and  *)
(* one without a start date.                                               *)
MCInputRows == {[start |-> 0, due |-> 1], [start |-> 2, due |-> 3],
                [start |-> NoDate, due |-> 1]}

MCInputDays == {2}

Symmetry == Permutations(Tasks) \cup Permutations(Handlers)
=============================================================================
