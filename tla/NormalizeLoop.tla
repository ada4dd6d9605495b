---------------------------- MODULE NormalizeLoop ----------------------------
(***************************************************************************)
(* schedule.Normalize as the two loops it is written with: Kahn's queue,   *)
(* whose first contents come out of a Go map in random order, and the pass *)
(* that pushes each task by the largest need of its incoming dependencies. *)
(*                                                                         *)
(* ready stands for queue: any of its members may come next, which covers  *)
(* the random order of the map and every order of the edges.  waiting[t]   *)
(* is the set of edges whose number the code counts down in indeg[t].      *)
(***************************************************************************)
EXTENDS Schedule, Sequences

CONSTANTS
  LoopRows,  \* the rows a task may have when Normalize is called
  LoopDeps   \* the sets of dependencies it may be called with

ASSUME LoopAssumption ==
  /\ LoopRows \subseteq Row
  /\ LoopDeps \subseteq SUBSET Dep
  /\ \A D \in LoopDeps : IsFiniteSet(D)

VARIABLES
  rows,       \* the argument: the row of each task given
  arcs,       \* the argument: all dependencies
  at,         \* "order", "push", "scan" or "done"
  ready,      \* queue
  waiting,    \* indeg
  order,
  next,       \* position in order of the task being pushed
  left,       \* incoming dependencies of that task not looked at yet
  shift,
  cur,
  saturated   \* history: dependencies whose need Time.Sub cut to MaxSpan

loopVars == <<rows, arcs, at, ready, waiting, order, next, left, shift, cur, saturated>>

ids     == DOMAIN rows
edges   == KnownDeps(arcs, ids)
ordered == {order[k] : k \in DOMAIN order}

LoopTypeOK ==
  /\ ids \subseteq Tasks
  /\ rows \in [ids -> Row]
  /\ arcs \in SUBSET Dep
  /\ at \in {"order", "push", "scan", "done"}
  /\ ready \in SUBSET ids
  /\ waiting \in [ids -> SUBSET edges]
  /\ order \in Seq(ids)
  /\ next \in Nat \ {0}
  /\ left \in SUBSET edges
  /\ shift \in Nat
  /\ cur \in [ids -> Row]
  /\ saturated \in SUBSET edges
  /\ \A i, j \in DOMAIN order : order[i] = order[j] => i = j

LoopInit ==
  /\ \E S \in SUBSET Tasks : rows \in [S -> LoopRows]
  /\ arcs \in LoopDeps
  /\ at = "order"
  /\ waiting = [t \in ids |-> Incoming(edges, t)]
  /\ ready = {t \in ids : waiting[t] = {}}
  /\ order = <<>>
  /\ next = 1
  /\ left = {}
  /\ shift = 0
  /\ cur = rows
  /\ saturated = {}

-----------------------------------------------------------------------------
(* Task t leaves the queue: the edges out of it are traversed.             *)
Released(t) == [s \in ids |-> {d \in waiting[s] : d.pred # t}]

(* Variant: a successor is queued as soon as one edge to it is traversed.  *)
ReadyOnFirst(t) == {s \in ids : Released(t)[s] # waiting[s]}

NewlyReady(t) == {s \in ids : waiting[s] # {} /\ Released(t)[s] = {}}

(* One turn of Kahn's loop: t is appended to the order, and each successor *)
(* that waits for nothing else joins the queue.                            *)
Pop(t) ==
  /\ at = "order"
  /\ t \in ready
  /\ order' = Append(order, t)
  /\ waiting' = Released(t)
  /\ ready' = (ready \ {t}) \cup NewlyReady(t)
  /\ UNCHANGED <<rows, arcs, at, next, left, shift, cur, saturated>>

StopOrdering ==
  /\ at = "order"
  /\ ready = {}
  /\ at' = "push"
  /\ UNCHANGED <<rows, arcs, ready, waiting, order, next, left, shift, cur, saturated>>

(* Variant: `continue' without going on to the next task.                  *)
PassOverStays == next

PassOver == next + 1

(* The next task of the order: passed over without both dates.             *)
StartTask ==
  /\ at = "push"
  /\ next <= Len(order)
  /\ IF HasDates(cur[order[next]])
     THEN /\ at' = "scan"
          /\ left' = Incoming(edges, order[next])
          /\ shift' = 0
          /\ UNCHANGED next
     ELSE /\ next' = PassOver
          /\ UNCHANGED <<at, left, shift>>
  /\ UNCHANGED <<rows, arcs, ready, waiting, order, cur, saturated>>

(* Variants: the last need wins; the needs add up.                         *)
Overwritten(need) == need
Accumulated(need) == shift + need

Larger(need) == IF need > shift THEN need ELSE shift

(* One turn of the loop over incoming[id].                                 *)
Consider(d) ==
  LET p == cur[d.pred]
      t == cur[d.succ]
  IN  /\ at = "scan"
      /\ d \in left
      /\ left' = left \ {d}
      /\ shift' = IF HasDates(p) THEN Larger(Need(d, p, t)) ELSE shift
      /\ saturated' = IF HasDates(p) /\ Bound(d, p) - Anchor(d, t) > MaxSpan
                      THEN saturated \cup {d}
                      ELSE saturated
      /\ UNCHANGED <<rows, arcs, at, ready, waiting, order, next, cur>>

Moved(t) == Shifted(cur[t], shift)

(* All of incoming[id] looked at: the task moves by shift.                 *)
Move(t) ==
  /\ at = "scan"
  /\ left = {}
  /\ t = order[next]
  /\ cur' = [cur EXCEPT ![t] = Moved(t)]
  /\ next' = next + 1
  /\ at' = "push"
  /\ UNCHANGED <<rows, arcs, ready, waiting, order, left, shift, saturated>>

Return ==
  /\ at = "push"
  /\ next > Len(order)
  /\ at' = "done"
  /\ UNCHANGED <<rows, arcs, ready, waiting, order, next, left, shift, cur, saturated>>

LoopNext ==
  \/ \E t \in ids : Pop(t)
  \/ StopOrdering
  \/ StartTask
  \/ \E d \in left : Consider(d)
  \/ \E t \in ids : Move(t)
  \/ Return

LoopSpec == LoopInit /\ [][LoopNext]_loopVars

(* The loops run in the caller's goroutine, which the Go runtime schedules. *)
FairLoop == LoopSpec /\ WF_loopVars(LoopNext)

-----------------------------------------------------------------------------
(* "any cycle is skipped": the order has exactly the tasks that are neither *)
(* on a cycle nor behind one (schedule.go:62-80).                           *)
OrderSkipsOnlyCycles ==
  at # "order" => ordered = ids \ Stuck(ids, edges)

(* "until every dependency constraint holds": on return each dependency    *)
(* between dated tasks of the order holds, unless Time.Sub saturated.      *)
ConstraintsHold ==
  at = "done" =>
    \A d \in edges \ saturated :
      d.succ \in ordered /\ HasDates(cur[d.pred]) /\ HasDates(cur[d.succ])
        => Satisfied(d, cur[d.pred], cur[d.succ])

(* "It never pulls a task earlier" and keeps durations: at every moment a  *)
(* dated row is its argument moved later as a whole, and an undated row is *)
(* its argument.                                                           *)
OnlyMovesLater ==
  \A t \in ids :
    IF HasDates(rows[t])
    THEN /\ cur[t].start >= rows[t].start
         /\ cur[t] = Shifted(rows[t], cur[t].start - rows[t].start)
    ELSE cur[t] = rows[t]

(* No task is pushed further than it has to be: one that moved meets a     *)
(* dependency of its own exactly, or was cut short by saturation.          *)
MovedOnlyAsNeeded ==
  at = "done" =>
    \A t \in ids : cur[t] # rows[t] =>
      \E d \in Incoming(edges, t) :
        /\ HasDates(cur[d.pred])
        /\ \/ Anchor(d, cur[t]) = Bound(d, cur[d.pred])
           \/ d \in saturated

(* The schedule returned is the least that satisfies the dependencies.     *)
LeastFeasible == ConstraintsHold /\ MovedOnlyAsNeeded

(* The two loops compute the function Normalize, in whatever order the map *)
(* hands out the tasks.                                                    *)
LoopsComputeNormalize == at = "done" => cur = Normalize(rows, arcs)

(* Normalize returns, also on a cyclic graph.                              *)
Returns == <>(at = "done")
=============================================================================
