----------------------------- MODULE Scheduling -----------------------------
(***************************************************************************)
(* The HTTP handlers that change task dates and dependencies, running      *)
(* concurrently against the tasks and task_dependencies tables.  No        *)
(* handler opens a transaction, so each SQL statement is a step of its own *)
(* and what a handler read may be stale when it writes.                    *)
(*                                                                         *)
(* Creating a dependency, updating a task and the bulk actions end in      *)
(* rescheduleAll: list the tasks, list the dependencies, write the dates   *)
(* of each task Normalize moved.  Any statement may fail (a lost           *)
(* connection, the request's 30 s timeout): the handler answers with an    *)
(* error and what it wrote before stays.                                   *)
(***************************************************************************)
EXTENDS Schedule, Functions

CONSTANTS
  Handlers,     \* goroutines serving requests
  NoDep,        \* no dependency is being created
  InputRows,    \* the dates a client may give a task
  InputDays,    \* the due dates a set_due_in_days rule may compute
  InputTypes,   \* the types of dependency clients ask for
  MaxRequests   \* bound on the number of requests

ASSUME SchedulingAssumption ==
  /\ NoDep \notin Dep
  /\ InputRows \subseteq Row
  /\ InputDays \subseteq Int
  /\ InputTypes \subseteq DepTypes
  /\ MaxRequests \in Nat

VARIABLES
  live,        \* ids of the rows in tasks
  used,        \* ids the sequence of tasks has handed out
  dates,       \* start_date and due_date of each task
  deps,        \* the rows of task_dependencies
  pc,          \* where each handler is
  edge,        \* the dependency a handler has checked
  snap,        \* the rows its ListTasksRaw returned
  goal,        \* the changes Normalize returned that are not written yet
  reply,       \* the outcome of its last request: "none", "ok" or "error"
  requests,    \* number of requests so far
  fresh,       \* history: no dependency was inserted since this handler's check
  quiet,       \* history: no one else wrote since this handler's ListTasksRaw
  overlapped,  \* history: a dependency was inserted on a stale check
  incident     \* history: a request failed, or dates changed without a reschedule

tables  == <<live, used, dates, deps>>
locals  == <<pc, edge, snap, goal, reply>>
history == <<fresh, quiet, overlapped, incident>>
vars    == <<tables, locals, requests, history>>

EmptyFcn == [t \in {} |-> t]

Steps == {"idle", "insert", "list_tasks", "list_deps", "write"}

OnePerPair(D) == \A d, e \in D : d.pred = e.pred /\ d.succ = e.succ => d = e

(* The constraints of the two tables and the handlers' control state.      *)
TablesOK ==
  /\ live \in SUBSET used
  /\ used \in SUBSET Tasks
  /\ deps \in SUBSET Dep
  /\ OnePerPair(deps)
  /\ \A d \in deps : d.pred \in live /\ d.succ \in live
  /\ pc \in [Handlers -> Steps]
  /\ edge \in [Handlers -> Dep \cup {NoDep}]
  /\ \A h \in Handlers : pc[h] = "insert" => edge[h] \in Dep
  /\ reply \in [Handlers -> {"none", "ok", "error"}]
  /\ requests \in 0 .. MaxRequests
  /\ fresh \in [Handlers -> BOOLEAN]
  /\ quiet \in [Handlers -> BOOLEAN]
  /\ overlapped \in BOOLEAN
  /\ incident \in BOOLEAN

TypeOK ==
  /\ TablesOK
  /\ dates \in [Tasks -> Row]
  /\ \A h \in Handlers : \A f \in {snap[h], goal[h]} :
       DOMAIN f \subseteq used /\ \A t \in DOMAIN f : f[t] \in Row

(* Tasks that were created one by one, without a dependency yet.           *)
Init ==
  /\ live \in SUBSET Tasks
  /\ used = live
  /\ dates \in [Tasks -> InputRows]
  /\ deps = {}
  /\ pc = [h \in Handlers |-> "idle"]
  /\ edge = [h \in Handlers |-> NoDep]
  /\ snap = [h \in Handlers |-> EmptyFcn]
  /\ goal = [h \in Handlers |-> EmptyFcn]
  /\ reply = [h \in Handlers |-> "none"]
  /\ requests = 0
  /\ fresh = [h \in Handlers |-> FALSE]
  /\ quiet = [h \in Handlers |-> FALSE]
  /\ overlapped = FALSE
  /\ incident = FALSE

-----------------------------------------------------------------------------
Request == requests < MaxRequests /\ requests' = requests + 1

(* A write of handler h to the tables, seen by every other handler.        *)
Disturb(h) == quiet' = [g \in Handlers |-> g = h /\ quiet[g]]

(* A request of one statement, by a handler not in Handlers.               *)
DisturbAll == quiet' = [g \in Handlers |-> FALSE]

Goto(h, step) == pc' = [pc EXCEPT ![h] = step]

Answer(h, outcome) ==
  /\ Goto(h, "idle")
  /\ reply' = [reply EXCEPT ![h] = outcome]

(* ON DELETE CASCADE on both columns of task_dependencies.                 *)
Cascade(S) == deps' = {d \in deps : d.pred \notin S /\ d.succ \notin S}

-----------------------------------------------------------------------------
(* Variant: the search goes from the predecessor to the successor.         *)
WouldCycleReversed(d) == Reaches(deps, d.pred, d.succ)

(* The cycle check of dependencies.go:92, on the dependencies as listed.   *)
WouldCycle(d) == Reaches(deps, d.succ, d.pred)

(* DependencyHandler.create up to the INSERT: the ids may name tasks that  *)
(* do not exist.  A rejected request changes nothing.                      *)
CheckDependency(h, d) ==
  /\ pc[h] = "idle"
  /\ Request
  /\ d.pred # d.succ
  /\ \A e \in deps : ~(e.pred = d.pred /\ e.succ = d.succ)
  /\ ~WouldCycle(d)
  /\ edge' = [edge EXCEPT ![h] = d]
  /\ Goto(h, "insert")
  /\ fresh' = [fresh EXCEPT ![h] = TRUE]
  /\ UNCHANGED <<tables, snap, goal, reply, quiet, overlapped, incident>>

(* CreateDependency, refused by the UNIQUE constraint or a foreign key.    *)
InsertDependency(h) ==
  LET d == edge[h]
      accepted == /\ d.pred \in live /\ d.succ \in live
                  /\ \A e \in deps : ~(e.pred = d.pred /\ e.succ = d.succ)
  IN  /\ pc[h] = "insert"
      /\ edge' = [edge EXCEPT ![h] = NoDep]
      /\ \/ /\ accepted
            /\ deps' = deps \cup {d}
            /\ Goto(h, "list_tasks")
            /\ fresh' = [g \in Handlers |-> FALSE]
            /\ overlapped' = (overlapped \/ ~fresh[h])
            /\ Disturb(h)
            /\ UNCHANGED reply
         \/ /\ ~accepted
            /\ Answer(h, "error")
            /\ UNCHANGED <<deps, fresh, overlapped, quiet>>
      /\ UNCHANGED <<live, used, dates, snap, goal, requests, incident>>

(* TaskHandler.update: both dates come from the request.                   *)
UpdateTask(h, t, row) ==
  /\ pc[h] = "idle"
  /\ Request
  /\ t \in live
  /\ dates' = [dates EXCEPT ![t] = row]
  /\ Disturb(h)
  /\ Goto(h, "list_tasks")
  /\ UNCHANGED <<live, used, deps, edge, snap, goal, reply, fresh, overlapped, incident>>

(* TaskHandler.bulk: "delete" removes S, subtasks included; S is empty for *)
(* the other actions, none of which changes dates.                         *)
Bulk(h, S) ==
  /\ pc[h] = "idle"
  /\ Request
  /\ live' = live \ S
  /\ Cascade(S)
  /\ Disturb(h)
  /\ Goto(h, "list_tasks")
  /\ UNCHANGED <<used, dates, edge, snap, goal, reply, fresh, overlapped, incident>>

-----------------------------------------------------------------------------
(* rescheduleAll                                                           *)
ListTasks(h) ==
  /\ pc[h] = "list_tasks"
  /\ snap' = [snap EXCEPT ![h] = Restrict(dates, live)]
  /\ quiet' = [quiet EXCEPT ![h] = TRUE]
  /\ Goto(h, "list_deps")
  /\ UNCHANGED <<tables, edge, goal, reply, requests, fresh, overlapped, incident>>

ListDeps(h) ==
  LET rows    == snap[h]
      new     == Normalize(rows, deps)
      changed == {t \in DOMAIN rows : new[t] # rows[t]}
  IN  /\ pc[h] = "list_deps"
      /\ snap' = [snap EXCEPT ![h] = EmptyFcn]
      /\ goal' = [goal EXCEPT ![h] = Restrict(new, changed)]
      /\ IF changed = {}
         THEN Answer(h, "ok")
         ELSE Goto(h, "write") /\ UNCHANGED reply
      /\ UNCHANGED <<tables, edge, requests, history>>

(* Variant: the loop ends with the first task.                             *)
WriteFirstOnly(h, t) ==
  /\ pc[h] = "write"
  /\ t \in DOMAIN goal[h]
  /\ dates' = IF t \in live THEN [dates EXCEPT ![t] = goal[h][t]] ELSE dates
  /\ goal' = [goal EXCEPT ![h] = EmptyFcn]
  /\ Answer(h, "ok")
  /\ Disturb(h)
  /\ UNCHANGED <<live, used, deps, edge, snap, requests, fresh, overlapped, incident>>

(* Variant: only the start is written.                                     *)
DatesWrittenStart(h, t) == [dates[t] EXCEPT !.start = goal[h][t].start]

DatesWritten(h, t) == goal[h][t]

(* SetTaskDates for one of the changes, in the order of a Go map; a task   *)
(* deleted meanwhile is not updated.                                       *)
WriteDates(h, t) ==
  LET rest == DOMAIN goal[h] \ {t}
  IN  /\ pc[h] = "write"
      /\ t \in DOMAIN goal[h]
      /\ dates' = IF t \in live THEN [dates EXCEPT ![t] = DatesWritten(h, t)] ELSE dates
      /\ goal' = [goal EXCEPT ![h] = Restrict(goal[h], rest)]
      /\ IF rest = {}
         THEN Answer(h, "ok")
         ELSE UNCHANGED <<pc, reply>>
      /\ Disturb(h)
      /\ UNCHANGED <<live, used, deps, edge, snap, requests, fresh, overlapped, incident>>

(* The statement a handler is at fails, or its request times out.          *)
Fail(h) ==
  /\ pc[h] # "idle"
  /\ Answer(h, "error")
  /\ edge' = [edge EXCEPT ![h] = NoDep]
  /\ snap' = [snap EXCEPT ![h] = EmptyFcn]
  /\ goal' = [goal EXCEPT ![h] = EmptyFcn]
  /\ incident' = TRUE
  /\ UNCHANGED <<tables, requests, fresh, quiet, overlapped>>

-----------------------------------------------------------------------------
(* Requests of one statement that bears on the schedule.                   *)

(* POST /tasks, a recurrence, an import: no reschedule follows.            *)
CreateTask(t, row) ==
  /\ Request
  /\ t \notin used
  /\ live' = live \cup {t}
  /\ used' = used \cup {t}
  /\ dates' = [dates EXCEPT ![t] = row]
  /\ DisturbAll
  /\ UNCHANGED <<deps, locals, fresh, overlapped, incident>>

(* S is a task and, ON DELETE CASCADE on parent_id, the subtasks below it. *)
DeleteTask(S) ==
  /\ Request
  /\ S # {}
  /\ live' = live \ S
  /\ Cascade(S)
  /\ DisturbAll
  /\ UNCHANGED <<used, dates, locals, fresh, overlapped, incident>>

DeleteDependency(d) ==
  /\ Request
  /\ d \in deps
  /\ deps' = deps \ {d}
  /\ DisturbAll
  /\ UNCHANGED <<live, used, dates, locals, fresh, overlapped, incident>>

(* The set_due_in_days action of an automation rule: SetTaskDueAt, after   *)
(* any reschedule of the request that triggered the rule.                  *)
AutomationSetsDue(t, day) ==
  /\ Request
  /\ t \in live
  /\ dates' = [dates EXCEPT ![t].due = day]
  /\ DisturbAll
  /\ incident' = TRUE
  /\ UNCHANGED <<live, used, deps, locals, fresh, overlapped>>

Next ==
  \/ \E h \in Handlers :
       \/ \E d \in [pred : Tasks, succ : Tasks, type : InputTypes] : CheckDependency(h, d)
       \/ InsertDependency(h)
       \/ \E t \in Tasks, row \in InputRows : UpdateTask(h, t, row)
       \/ \E S \in SUBSET live : Bulk(h, S)
       \/ ListTasks(h)
       \/ ListDeps(h)
       \/ \E t \in Tasks : WriteDates(h, t)
       \/ Fail(h)
  \/ \E t \in Tasks, row \in InputRows : CreateTask(t, row)
  \/ \E S \in SUBSET live : DeleteTask(S)
  \/ \E d \in deps : DeleteDependency(d)
  \/ \E t \in Tasks, day \in InputDays : AutomationSetsDue(t, day)

Spec == Init /\ [][Next]_vars

-----------------------------------------------------------------------------
rowsNow == Restrict(dates, live)

(* Handler h ends rescheduleAll and answers with success.                  *)
Completes(h) == pc[h] \in {"list_deps", "write"} /\ pc'[h] = "idle" /\ reply'[h] = "ok"

(* The cycle check protects the graph as long as no dependency is inserted *)
(* between the check and the insert of another one (dependencies.go:78-98): *)
(* deletions, task deletions and failures in between do no harm.           *)
CyclesNeedOverlap == ~overlapped => Acyclic(deps)

(* A reschedule during which nobody else writes leaves the whole schedule  *)
(* valid, however many tasks it had to write one by one.                   *)
UndisturbedRescheduleIsValid ==
  [][\A h \in Handlers : Completes(h) /\ quiet[h] => Valid(rowsNow', deps')]_vars

(* A reschedule nobody interferes with moves no task earlier and changes   *)
(* no duration, also when one of its writes fails halfway.                 *)
UndisturbedWritesMoveLater ==
  [][\A h \in Handlers, t \in Tasks :
       pc[h] = "write" /\ quiet[h] /\ t \in DOMAIN goal[h] /\ t \notin DOMAIN goal'[h]
         /\ t \in live /\ dates'[t] # dates[t]
       => /\ dates'[t].start > dates[t].start
          /\ dates'[t].due - dates'[t].start = dates[t].due - dates[t].start]_vars

(* "the API prevents cycles" (schedule.go:35)                              *)
DependenciesAcyclic == Acyclic(deps)

(* "keep the schedule valid" (tasks.go:563): once every request has been   *)
(* answered, none with an error, each dependency that can be ordered holds. *)
ValidAtRest ==
  (\A h \in Handlers : pc[h] = "idle") /\ ~incident => Valid(rowsNow, deps)
=============================================================================
