--------------------------- MODULE MCNormalizeLoop ---------------------------
(* Model checking NormalizeLoop on every small schedule: three tasks, any  *)
(* of them absent from the call, up to three dependencies of which each    *)
(* pair of tasks has at most one (the table's UNIQUE constraint), cycles   *)
(* included.                                                               *)
EXTENDS NormalizeLoop

(* A task of two days, one that starts after it is due (the API accepts    *)
(* that) and one without a start.                                          *)
MCLoopRows == {[start |-> 0, due |-> 2],
                [start |-> 2, due |-> 1],
                [start |-> NoDate, due |-> 1]}

Edges(types) == {d \in [pred : Tasks, succ : Tasks, type : types] : d.pred # d.succ}

OnePerPair(D) == \A d, e \in D : d.pred = e.pred /\ d.succ = e.succ => d = e

(* All four types in sets of two, finish_to_start in sets of three.        *)
MCLoopDeps ==
  {D \in {{}} \cup {{d, e} : d, e \in Edges(DepTypes)}
           \cup kSubset(3, Edges({"finish_to_start"})) : OnePerPair(D)}
=============================================================================
