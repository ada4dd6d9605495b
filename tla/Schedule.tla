------------------------------ MODULE Schedule ------------------------------
(***************************************************************************)
(* The data and the pure functions of backend/internal/schedule: the       *)
(* scheduling view of a task, the four kinds of dependency, Reaches and    *)
(* Normalize.  The modules NormalizeLoop and ReachesLoop model the loops   *)
(* the code computes the last two with; Scheduling uses the functions.     *)
(***************************************************************************)
EXTENDS Integers, FiniteSets, FiniteSetsExt

CONSTANTS
  Tasks,    \* the task ids
  NoDate,   \* a NULL start_date or due_date
  MaxSpan   \* the largest time.Duration: Time.Sub saturates there

ASSUME ScheduleAssumption ==
  /\ NoDate \notin Int
  /\ MaxSpan \in Nat \ {0}

Date == Int \cup {NoDate}
Row  == [start : Date, due : Date]

DepTypes == {"finish_to_start", "start_to_start",
             "finish_to_finish", "start_to_finish"}
Dep == [pred : Tasks, succ : Tasks, type : DepTypes]

(* toScheduleTasks: a task takes part only with both of its dates.         *)
HasDates(row) == row.start # NoDate /\ row.due # NoDate

(***************************************************************************)
(* A dependency d relates one end of its predecessor's row p, the bound,   *)
(* to one end of its successor's row t, the anchor.                        *)
(***************************************************************************)
Bound(d, p) ==
  IF d.type \in {"start_to_start", "start_to_finish"} THEN p.start ELSE p.due

Anchor(d, t) ==
  IF d.type \in {"finish_to_finish", "start_to_finish"} THEN t.due ELSE t.start

Satisfied(d, p, t) == Anchor(d, t) >= Bound(d, p)

(* time.Time.Sub for a later minus an earlier time.                        *)
Sub(a, b) == IF a - b > MaxSpan THEN MaxSpan ELSE a - b

Need(d, p, t) == IF Satisfied(d, p, t) THEN 0 ELSE Sub(Bound(d, p), Anchor(d, t))

Shifted(row, shift) == [start |-> row.start + shift, due |-> row.due + shift]

-----------------------------------------------------------------------------
(* The edges Normalize keeps: both ends are among the tasks it was given.  *)
KnownDeps(deps, ids) == {d \in deps : d.pred \in ids /\ d.succ \in ids}

Incoming(deps, t) == {d \in deps : d.succ = t}

(* What the dated predecessors of t ask of it.                             *)
Needs(t, cur, deps) ==
  {Need(d, cur[d.pred], cur[t]) : d \in {e \in Incoming(deps, t) : HasDates(cur[e.pred])}}

(* Normalize's second loop for task t, against the rows cur its            *)
(* predecessors have been given.                                           *)
Push(t, cur, deps) ==
  IF HasDates(cur[t]) THEN Shifted(cur[t], Max({0} \cup Needs(t, cur, deps))) ELSE cur[t]

(***************************************************************************)
(* Normalize: tasks are taken in topological order, each pushed as far as  *)
(* its rescheduled predecessors need; what is on or behind a cycle never   *)
(* becomes ready and keeps its row.  A round takes every task whose        *)
(* predecessors have all been taken: no topological order of them can give *)
(* another result.  The value is the rows after rescheduling.              *)
(***************************************************************************)
Takeable(taken, ids, deps) ==
  {t \in ids \ taken : \A d \in Incoming(deps, t) : d.pred \in taken}

Round(prev, ids, deps) ==
  LET ready == Takeable(prev.taken, ids, deps)
  IN  [taken |-> prev.taken \cup ready,
       cur   |-> [t \in ids |-> IF t \in ready THEN Push(t, prev.cur, deps) ELSE prev.cur[t]]]

Rounds(rows, ids, deps) ==
  LET round[n \in Nat] ==
        IF n = 0 THEN [taken |-> {}, cur |-> rows] ELSE Round(round[n - 1], ids, deps)
  IN  round

Normalize(rows, deps) ==
  LET ids == DOMAIN rows
  IN  Rounds(rows, ids, KnownDeps(deps, ids))[Cardinality(ids)].cur

-----------------------------------------------------------------------------
(* C contains, with a task, every task that depends on it.                 *)
Closed(C, deps) == \A d \in deps : d.pred \in C => d.succ \in C

(***************************************************************************)
(* Reaches: target is in every set of tasks that contains `from' and, with *)
(* a task, its successors.                                                 *)
(***************************************************************************)
Reaches(deps, from, target) ==
  \A C \in SUBSET Tasks : from \in C /\ Closed(C, deps) => target \in C

(***************************************************************************)
(* The tasks on a cycle, or behind one, are those of some set in which     *)
(* every member has a predecessor.                                         *)
(***************************************************************************)
Knotted(C, deps) == \A t \in C : \E d \in deps : d.succ = t /\ d.pred \in C

Stuck(ids, deps) == {t \in ids : \E C \in SUBSET ids : t \in C /\ Knotted(C, deps)}

Acyclic(deps) == \A C \in SUBSET Tasks : Knotted(C, deps) => C = {}

(* Every dependency between dated tasks that Normalize can order holds.    *)
Valid(rows, deps) ==
  LET ids   == DOMAIN rows
      edges == KnownDeps(deps, ids)
      stuck == Stuck(ids, edges)
  IN  \A d \in edges :
        d.succ \notin stuck /\ HasDates(rows[d.pred]) /\ HasDates(rows[d.succ])
          => Satisfied(d, rows[d.pred], rows[d.succ])
=============================================================================
