---------------------------- MODULE MCReachesLoop ----------------------------
(* Model checking ReachesLoop on every graph over four tasks, cycles       *)
(* included.                                                               *)
EXTENDS ReachesLoop

Edges == {d \in [pred : Tasks, succ : Tasks, type : {"finish_to_start"}] : d.pred # d.succ}

MCInputGraphs == SUBSET Edges
=============================================================================
