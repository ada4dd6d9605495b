---------------------------- MODULE TaskLifecycle ----------------------------
(***************************************************************************)
(* The life of tasks: the workflow status, the done flag beside it, the    *)
(* next occurrence a completed recurring task leaves, the customizable     *)
(* table of statuses and the automation rules that set a status.           *)
(*                                                                         *)
(* Each SQL statement is a step and may fail; a request reads first (does  *)
(* the status exist? was the task done? how many tasks have the status?)   *)
(* and writes later.  The tasks of the model are top-level ones: a subtask *)
(* is like one that does not recur.  Dates, assignees and reminders are    *)
(* left out.                                                               *)
(***************************************************************************)
EXTENDS Integers, Sequences, FiniteSets

CONSTANTS
  Handlers,    \* goroutines serving requests that take several statements
  Tasks,       \* the task ids
  Keys,        \* the keys a status may have
  Rules,       \* the automation rules of each trigger, by id
  MaxRequests  \* bound on the number of requests

Protected == {"todo", "done"}

Triggers == {"task_created", "assignee_changed", "status_changed", "task_completed"}

(* What a rule asks of the status, and the statuses its actions set.       *)
Condition == [op : {"is", "is_not"}, value : Keys]
Rule      == [when : SUBSET Condition, set : Seq(Keys)]

ASSUME LifecycleAssumption ==
  /\ Protected \subseteq Keys
  /\ Rules \in [Triggers -> Seq(Rule)]
  /\ MaxRequests \in Nat

VARIABLES
  statuses,    \* the keys in task_statuses
  live,        \* ids of the rows in tasks
  used,        \* ids the sequence of tasks has handed out
  row,         \* the row of each task; one that says nothing without it
  req,         \* the request each handler is serving
  requests,    \* number of requests so far
  bornDone,    \* history: tasks not written since they were created as done
  owed,        \* history: completions of a recurring task by setDone and
               \* setStatus, less the occurrences made for them
  quiet,       \* history: nobody else wrote since this request's first read
  overlapped,  \* history: a request wrote although someone else had written
  incident     \* history: a statement failed, or a rule set an unknown status

tables  == <<statuses, live, used, row>>
history == <<bornDone, owed, quiet, overlapped, incident>>
vars    == <<tables, req, requests, history>>

(* recurs: recurrence is not 'none'; completed: completed_at is not NULL.  *)
Row == [status : Keys, done : BOOLEAN, completed : BOOLEAN, recurs : BOOLEAN]

Places == {"idle", "create", "update", "set_done", "get_task", "set_status",
           "bulk_status", "spawn", "rules", "act", "delete_status"}

(* A request: its next statement, the task or tasks it is about, the       *)
(* status and recurrence it asks for, prior.Done, the triggers to run      *)
(* (there is one when rules run) and the statuses that each rule of the    *)
(* current one has yet to set.                                             *)
Req == {r \in [at : Places, tasks : SUBSET Tasks, key : Keys, recurs : BOOLEAN,
               prior : BOOLEAN, triggers : Seq(Triggers), acts : Seq(Seq(Keys))] :
          r.at = "rules" => r.triggers # <<>>}

Idle == [at |-> "idle", tasks |-> {}, key |-> "todo", recurs |-> FALSE,
         prior |-> FALSE, triggers |-> <<>>, acts |-> <<>>]

TypeOK ==
  /\ statuses \in SUBSET Keys
  /\ live \in SUBSET used
  /\ used \in SUBSET Tasks
  /\ row \in [Tasks -> Row]
  /\ req \in [Handlers -> Req]
  /\ requests \in 0 .. MaxRequests
  /\ bornDone \in SUBSET Tasks
  /\ owed \in [Tasks -> Int]
  /\ quiet \in [Handlers -> BOOLEAN]
  /\ overlapped \in BOOLEAN
  /\ incident \in BOOLEAN

NewTask(key, recurs) ==
  [status |-> key, done |-> FALSE, completed |-> FALSE, recurs |-> recurs]

(* Tasks just created, and a table of statuses an administrator may have   *)
(* extended or cut down.                                                   *)
Init ==
  /\ statuses \in {S \in SUBSET Keys : Protected \subseteq S}
  /\ live \in SUBSET Tasks
  /\ used = live
  /\ \E R \in SUBSET live : row = [t \in Tasks |-> NewTask("todo", t \in R)]
  /\ req = [h \in Handlers |-> Idle]
  /\ requests = 0
  /\ bornDone = {}
  /\ owed = [t \in Tasks |-> 0]
  /\ quiet = [h \in Handlers |-> FALSE]
  /\ overlapped = FALSE
  /\ incident = FALSE

-----------------------------------------------------------------------------
Request == requests < MaxRequests /\ requests' = requests + 1

(* A request of several statements arrives and makes its first read.       *)
Begin(h, r) ==
  /\ req[h] = Idle
  /\ Request
  /\ req' = [req EXCEPT ![h] = r]
  /\ quiet' = [quiet EXCEPT ![h] = TRUE]
  /\ UNCHANGED <<tables, bornDone, owed, overlapped, incident>>

(* A write of handler h, after what it read; one of no handler in Handlers *)
(* is Disturb({}).                                                         *)
Disturb(who) == quiet' = [g \in Handlers |-> g \in who /\ quiet[g]]

Write(h) ==
  /\ Disturb({h})
  /\ overlapped' = (overlapped \/ ~quiet[h])

Answer(h) == req' = [req EXCEPT ![h] = Idle]

(* The request goes on to statement at for the same tasks, with the        *)
(* triggers ts left to run; what it read before is forgotten.              *)
Goto(h, at, ts) ==
  req' = [req EXCEPT ![h] = [Idle EXCEPT !.at = at, !.tasks = req[h].tasks, !.triggers = ts]]

(* On to the rules of the triggers ts, then the answer.                    *)
Continue(h, ts) == IF ts = <<>> THEN Answer(h) ELSE Goto(h, "rules", ts)

-----------------------------------------------------------------------------
(* The statements that complete and reopen tasks.                          *)

(* Variant: completed_at is set and never cleared.                         *)
WithStatusKept(r, key) ==
  [r EXCEPT !.status = key, !.done = (key = "done"), !.completed = @ \/ key = "done"]

(* SetTaskStatus, BulkSetTaskStatus and, for these columns, UpdateTask.    *)
WithStatus(r, key) ==
  [r EXCEPT !.status = key, !.done = (key = "done"), !.completed = (key = "done")]

(* SetTaskDone and BulkSetTaskDone.                                        *)
WithDone(r, done) ==
  [r EXCEPT !.done = done, !.completed = done,
            !.status = IF done THEN "done" ELSE "todo"]

(* The rows of the tasks S that exist become those of new.                 *)
Store(S, new) ==
  /\ row' = [t \in Tasks |-> IF t \in S \cap live THEN new[t] ELSE row[t]]
  /\ bornDone' = bornDone \ S

StatusSet(key) == [t \in Tasks |-> WithStatus(row[t], key)]
DoneSet(done)  == [t \in Tasks |-> WithDone(row[t], done)]

-----------------------------------------------------------------------------
(* POST /tasks: statusExists, then CreateTask, which leaves done FALSE.    *)
CreateChecks(h, key, recurs) ==
  /\ key \in statuses
  /\ Begin(h, [Idle EXCEPT !.at = "create", !.key = key, !.recurs = recurs])

CreatedTask(t) ==
  [Idle EXCEPT !.at = "rules", !.tasks = {t}, !.triggers = <<"task_created">>]

Create(h, t) ==
  /\ req[h].at = "create"
  /\ t \notin used
  /\ live' = live \cup {t}
  /\ used' = used \cup {t}
  /\ row' = [row EXCEPT ![t] = NewTask(req[h].key, req[h].recurs)]
  /\ bornDone' = IF req[h].key = "done" THEN bornDone \cup {t} ELSE bornDone
  /\ req' = [req EXCEPT ![h] = CreatedTask(t)]
  /\ Write(h)
  /\ UNCHANGED <<statuses, requests, owed, incident>>

(* Tasks filed by an e-mail, the assistant or a form, which runs the rules: *)
(* todo, unchecked.                                                        *)
FileTask(h, t) ==
  /\ req[h] = Idle
  /\ Request
  /\ t \notin used
  /\ live' = live \cup {t}
  /\ used' = used \cup {t}
  /\ row' = [row EXCEPT ![t] = NewTask("todo", FALSE)]
  /\ \/ UNCHANGED req
     \/ req' = [req EXCEPT ![h] = CreatedTask(t)]
  /\ UNCHANGED <<statuses, history>>

(* PUT /tasks/{id}: statusExists, then UpdateTask and, if an assignee was  *)
(* added, the rules.  No occurrence is made.                               *)
UpdateChecks(h, t, key, recurs) ==
  /\ key \in statuses
  /\ Begin(h, [Idle EXCEPT !.at = "update", !.tasks = {t}, !.key = key, !.recurs = recurs])

Update(h) ==
  /\ req[h].at = "update"
  /\ req[h].tasks \subseteq live
  /\ Store(req[h].tasks,
           [t \in Tasks |-> [WithStatus(row[t], req[h].key) EXCEPT !.recurs = req[h].recurs]])
  /\ \E ts \in {<<>>, <<"assignee_changed">>} : Continue(h, ts)
  /\ Write(h)
  /\ UNCHANGED <<statuses, live, used, requests, owed, incident>>

-----------------------------------------------------------------------------
(* Variant: whoever sets done makes an occurrence.                         *)
CompletesAlways(h) == req[h].key = "done"

(* "done" is asked for and prior was not.                                  *)
Completes(h) == req[h].key = "done" /\ ~req[h].prior

(* After the write of setDone or setStatus to task t: spawnNext for a      *)
(* recurring task, then the rules.                                         *)
Completed(h, t, ts) ==
  /\ owed' = IF ~row[t].done /\ row'[t].done /\ row[t].recurs
             THEN [owed EXCEPT ![t] = @ + 1]
             ELSE owed
  /\ IF Completes(h) /\ row[t].recurs
     THEN Goto(h, "spawn", ts)
     ELSE Continue(h, ts)

(* PATCH /tasks/{id}/done: GetTask, then SetTaskDone.                      *)
SetDoneReads(h, t, done) ==
  /\ t \in live
  /\ Begin(h, [Idle EXCEPT !.at = "set_done", !.tasks = {t}, !.prior = row[t].done,
                           !.key = IF done THEN "done" ELSE "todo"])

SetDone(h, t) ==
  /\ req[h].at = "set_done"
  /\ t \in req[h].tasks \cap live
  /\ Store({t}, DoneSet(req[h].key = "done"))
  /\ Completed(h, t, <<>>)
  /\ Write(h)
  /\ UNCHANGED <<statuses, live, used, requests, incident>>

(* PATCH /tasks/{id}/status: statusExists, GetTask, SetTaskStatus.         *)
SetStatusChecks(h, t, key) ==
  /\ key \in statuses
  /\ Begin(h, [Idle EXCEPT !.at = "get_task", !.tasks = {t}, !.key = key])

GetTask(h, t) ==
  /\ req[h].at = "get_task"
  /\ t \in req[h].tasks \cap live
  /\ req' = [req EXCEPT ![h].at = "set_status", ![h].prior = row[t].done]
  /\ UNCHANGED <<tables, requests, history>>

SetStatus(h, t) ==
  LET completed == IF Completes(h) THEN <<"task_completed">> ELSE <<>>
  IN  /\ req[h].at = "set_status"
      /\ t \in req[h].tasks \cap live
      /\ Store({t}, StatusSet(req[h].key))
      /\ Completed(h, t, <<"status_changed">> \o completed)
      /\ Write(h)
      /\ UNCHANGED <<statuses, live, used, requests, incident>>

(* The task was deleted meanwhile: pgx.ErrNoRows.                          *)
NotFound(h) ==
  /\ req[h].at \in {"update", "set_done", "get_task", "set_status"}
  /\ ~(req[h].tasks \subseteq live)
  /\ Answer(h)
  /\ UNCHANGED <<tables, requests, history>>

(* spawnNext for t: a new open task, or none when the insert fails.        *)
Spawn(h, t, next) ==
  /\ req[h].at = "spawn"
  /\ t \in req[h].tasks
  /\ next \notin used
  /\ live' = live \cup {next}
  /\ used' = used \cup {next}
  /\ row' = [row EXCEPT ![next] = NewTask("todo", TRUE)]
  /\ owed' = [owed EXCEPT ![t] = @ - 1]
  /\ Continue(h, req[h].triggers)
  /\ UNCHANGED <<statuses, requests, bornDone, quiet, overlapped, incident>>

SpawnFails(h) ==
  /\ req[h].at = "spawn"
  /\ Continue(h, req[h].triggers)
  /\ incident' = TRUE
  /\ UNCHANGED <<tables, requests, bornDone, owed, quiet, overlapped>>

-----------------------------------------------------------------------------
(* Bulk actions                                                            *)
BulkDone(S, done) ==
  /\ Request
  /\ Store(S, DoneSet(done))
  /\ Disturb({})
  /\ UNCHANGED <<statuses, live, used, req, owed, overlapped, incident>>

BulkStatusChecks(h, S, key) ==
  /\ key \in statuses
  /\ Begin(h, [Idle EXCEPT !.at = "bulk_status", !.tasks = S, !.key = key])

BulkStatus(h) ==
  /\ req[h].at = "bulk_status"
  /\ Store(req[h].tasks, StatusSet(req[h].key))
  /\ Answer(h)
  /\ Write(h)
  /\ UNCHANGED <<statuses, live, used, requests, owed, incident>>

(* DELETE /tasks/{id}, and the bulk action.                                *)
Delete(S) ==
  /\ Request
  /\ live' = live \ S
  /\ row' = [t \in Tasks |-> IF t \in S THEN NewTask("todo", FALSE) ELSE row[t]]
  /\ bornDone' = bornDone \ S
  /\ UNCHANGED <<statuses, used, req, owed, quiet, overlapped, incident>>

-----------------------------------------------------------------------------
(* runAutomations                                                          *)
Matches(rule, r) ==
  \A c \in rule.when : IF c.op = "is_not" THEN r.status # c.value ELSE r.status = c.value

Exhausted(acts) == \A i \in DOMAIN acts : acts[i] = <<>>

(* ListEnabledRulesByTrigger and GetTask: all rules of the trigger are     *)
(* judged by the task as it is now.  Which of them are enabled, and match  *)
(* in the other fields, is left open.                                      *)
RunRules(h, t) ==
  LET trigger == Head(req[h].triggers)
      rest    == Tail(req[h].triggers)
  IN  /\ req[h].at = "rules"
      /\ t \in req[h].tasks
      /\ \E on \in SUBSET DOMAIN Rules[trigger] :
           LET applied(i) == i \in on /\ t \in live /\ Matches(Rules[trigger][i], row[t])
               acts == [i \in DOMAIN Rules[trigger] |->
                         IF applied(i) THEN Rules[trigger][i].set ELSE <<>>]
           IN  IF Exhausted(acts) THEN Continue(h, rest)
               ELSE req' = [req EXCEPT ![h].at = "act", ![h].triggers = rest, ![h].acts = acts]
      /\ UNCHANGED <<tables, requests, history>>

NextAct(h, i) ==
  /\ req[h].at = "act"
  /\ i \in DOMAIN req[h].acts
  /\ req[h].acts[i] # <<>>
  /\ \A j \in DOMAIN req[h].acts : j < i => req[h].acts[j] = <<>>

(* Variant: a status set by a rule is a change of status like another.     *)
AfterActRetriggers(h, i) ==
  LET left == [req[h].acts EXCEPT ![i] = Tail(@)]
  IN  IF Exhausted(left) THEN Continue(h, Append(req[h].triggers, "status_changed"))
      ELSE req' = [req EXCEPT ![h].acts = left]

AfterAct(h, i) ==
  LET left == [req[h].acts EXCEPT ![i] = Tail(@)]
  IN  IF Exhausted(left) THEN Continue(h, req[h].triggers)
      ELSE req' = [req EXCEPT ![h].acts = left]

(* One set_status action of applyAutoActions: the key is not checked, no   *)
(* trigger follows, and an error is ignored.                               *)
Act(h, i) ==
  LET key == Head(req[h].acts[i])
  IN  /\ NextAct(h, i)
      /\ Store(req[h].tasks, StatusSet(key))
      /\ Disturb({h})
      /\ incident' = (incident \/ key \notin statuses)
      /\ AfterAct(h, i)
      /\ UNCHANGED <<statuses, live, used, requests, owed, overlapped>>

ActFails(h, i) ==
  /\ NextAct(h, i)
  /\ AfterAct(h, i)
  /\ incident' = TRUE
  /\ UNCHANGED <<tables, requests, bornDone, owed, quiet, overlapped>>

-----------------------------------------------------------------------------
(* The table of statuses                                                   *)

(* POST /statuses and, for each status of it, a template.                  *)
CreateStatus(key) ==
  /\ Request
  /\ key \notin statuses
  /\ statuses' = statuses \cup {key}
  /\ UNCHANGED <<live, used, row, req, history>>

(* CountTasksWithStatus                                                    *)
TasksWith(key) == {t \in live : row[t].status = key}

(* Variant: the last task does not count.                                  *)
UnusedByMany(key) == Cardinality(TasksWith(key)) <= 1

Unused(key) == TasksWith(key) = {}

(* DELETE /statuses/{id}: GetStatus, the protected column, and the count,  *)
(* whose error does not keep the handler from going on.                    *)
DeleteStatusChecks(h, key, counted) ==
  /\ req[h] = Idle
  /\ Request
  /\ key \in statuses \ Protected
  /\ counted => Unused(key)
  /\ req' = [req EXCEPT ![h] = [Idle EXCEPT !.at = "delete_status", !.key = key]]
  /\ quiet' = [quiet EXCEPT ![h] = TRUE]
  /\ incident' = (incident \/ ~counted)
  /\ UNCHANGED <<tables, bornDone, owed, overlapped>>

DeleteStatus(h) ==
  /\ req[h].at = "delete_status"
  /\ statuses' = statuses \ ({req[h].key} \ Protected)
  /\ Answer(h)
  /\ Write(h)
  /\ UNCHANGED <<live, used, row, requests, bornDone, owed, incident>>

(* A statement fails or the 30 s are over: the request ends where it is.   *)
Fail(h) ==
  /\ req[h] # Idle
  /\ Answer(h)
  /\ incident' = TRUE
  /\ UNCHANGED <<tables, requests, bornDone, owed, quiet, overlapped>>

-----------------------------------------------------------------------------
Arrive(h) ==
  \/ \E key \in Keys, recurs \in BOOLEAN :
       \/ CreateChecks(h, key, recurs)
       \/ \E t \in live : UpdateChecks(h, t, key, recurs)
  \/ \E t \in Tasks, done \in BOOLEAN : SetDoneReads(h, t, done)
  \/ \E t \in live, key \in Keys : SetStatusChecks(h, t, key)
  \/ \E S \in (SUBSET live) \ {{}}, key \in Keys : BulkStatusChecks(h, S, key)
  \/ \E t \in Tasks : FileTask(h, t)
  \/ \E key \in Keys, counted \in BOOLEAN : DeleteStatusChecks(h, key, counted)

Serve(h) ==
  \/ \E t \in Tasks : Create(h, t) \/ SetDone(h, t) \/ GetTask(h, t) \/ SetStatus(h, t)
  \/ Update(h) \/ NotFound(h)
  \/ \E t \in Tasks, next \in Tasks : Spawn(h, t, next)
  \/ SpawnFails(h)
  \/ BulkStatus(h)
  \/ \E t \in Tasks : RunRules(h, t)
  \/ \E i \in DOMAIN req[h].acts : Act(h, i) \/ ActFails(h, i)
  \/ DeleteStatus(h)
  \/ Fail(h)

Next ==
  \/ \E h \in Handlers : Arrive(h) \/ Serve(h)
  \/ \E S \in (SUBSET live) \ {{}}, done \in BOOLEAN : BulkDone(S, done)
  \/ \E S \in (SUBSET live) \ {{}} : Delete(S)
  \/ \E key \in Keys : CreateStatus(key)

Spec == Init /\ [][Next]_vars

(* A request that has arrived is served: its goroutine runs, and each      *)
(* statement returns, with an error when the 30 s are over.                *)
FairSpec == Spec /\ \A h \in Handlers : WF_vars(Serve(h))

-----------------------------------------------------------------------------
(* The three columns that say a task is complete agree after any sequence  *)
(* of the statements that write them (tasks.sql:83-173), with the one      *)
(* exception of a task created with the status done.                       *)
CompletionConsistent ==
  \A t \in live :
    /\ row[t].completed <=> row[t].done
    /\ row[t].done => row[t].status = "done"
    /\ row[t].status = "done" /\ t \notin bornDone => row[t].done

(* Every task has a status of the table, unless requests overlapped, a     *)
(* count failed or a rule set a status that was never there: the checks of *)
(* both sides (tasks.go:515, statuses.go:199-203) fit together.            *)
StatusesKnown ==
  ~overlapped /\ ~incident => \A t \in live : row[t].status \in statuses

(* Once every request is answered, each completion of a recurring task by  *)
(* setDone or setStatus has left one new occurrence, and nothing else has: *)
(* no request that finds the task done makes a second one.                 *)
OneOccurrencePerCompletion ==
  ~overlapped /\ ~incident /\ (\A h \in Handlers : req[h] = Idle) =>
    \A t \in Tasks : owed[t] = 0

(* "Actions update the task directly and do NOT re-trigger automations, so *)
(* there is no recursion" (automation.go:139): every request is answered.  *)
RequestsEnd == \A h \in Handlers : req[h] # Idle ~> req[h] = Idle
=============================================================================
