----------------------------- MODULE ReachesLoop -----------------------------
(***************************************************************************)
(* schedule.Reaches as it is written: a depth-first search with a stack    *)
(* and a seen set, over the successors of each task.                       *)
(***************************************************************************)
EXTENDS Schedule, Sequences, SequencesExt

CONSTANT InputGraphs  \* the sets of dependencies Reaches may be called with

ASSUME GraphAssumption ==
  /\ InputGraphs \subseteq SUBSET Dep
  /\ \A D \in InputGraphs : IsFiniteSet(D)

VARIABLES graph, from, target, stack, seen, answer

searchVars == <<graph, from, target, stack, seen, answer>>

SearchTypeOK ==
  /\ graph \in SUBSET Dep
  /\ IsFiniteSet(graph)
  /\ from \in Tasks
  /\ target \in Tasks
  /\ stack \in Seq(Tasks)
  /\ seen \in SUBSET Tasks
  /\ answer \in {"searching", "yes", "no"}

SearchInit ==
  /\ graph \in InputGraphs
  /\ from \in Tasks
  /\ target \in Tasks
  /\ stack = <<from>>
  /\ seen = {}
  /\ answer = "searching"

-----------------------------------------------------------------------------
(* adj[n]: there is at most one edge for a pair of tasks, so a successor   *)
(* is listed once; their order is that of the edges.                       *)
Successors(n) == {d.succ : d \in {e \in graph : e.pred = n}}

OnTop(n) == stack # <<>> /\ n = Last(stack) /\ answer = "searching"

Found(n) ==
  /\ OnTop(n)
  /\ n = target
  /\ answer' = "yes"
  /\ stack' = Front(stack)
  /\ UNCHANGED <<graph, from, target, seen>>

(* Variant: the top of the stack is read, not taken.                       *)
SkipSeenPeeks(n) ==
  /\ OnTop(n)
  /\ n # target
  /\ n \in seen
  /\ UNCHANGED searchVars

SkipSeen(n) ==
  /\ OnTop(n)
  /\ n # target
  /\ n \in seen
  /\ stack' = Front(stack)
  /\ UNCHANGED <<graph, from, target, seen, answer>>

(* Variant: the successors take the place of the stack.                    *)
VisitForgets(n) ==
  /\ OnTop(n)
  /\ n # target
  /\ n \notin seen
  /\ seen' = seen \cup {n}
  /\ stack' \in SetToSeqs(Successors(n))
  /\ UNCHANGED <<graph, from, target, answer>>

Visit(n) ==
  /\ OnTop(n)
  /\ n # target
  /\ n \notin seen
  /\ seen' = seen \cup {n}
  /\ \E s \in SetToSeqs(Successors(n)) : stack' = Front(stack) \o s
  /\ UNCHANGED <<graph, from, target, answer>>

Exhausted ==
  /\ answer = "searching"
  /\ stack = <<>>
  /\ answer' = "no"
  /\ UNCHANGED <<graph, from, target, stack, seen>>

SearchNext ==
  \/ \E n \in Tasks : Found(n) \/ SkipSeen(n) \/ Visit(n)
  \/ Exhausted

SearchSpec == SearchInit /\ [][SearchNext]_searchVars

FairSearch == SearchSpec /\ WF_searchVars(SearchNext)

-----------------------------------------------------------------------------
(* The search answers what Reaches says, on every graph, cyclic or not:    *)
(* dependencies.go:92 relies on both directions.                           *)
SearchIsReaches ==
  answer # "searching" => (answer = "yes" <=> Reaches(graph, from, target))

(* It ends, also when the graph has a cycle.                               *)
SearchEnds == <>(answer # "searching")
=============================================================================
