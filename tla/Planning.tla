------------------------------ MODULE Planning ------------------------------
(***************************************************************************)
(* Who works on a task, and in which sprint (handler/tasks.go, bulk.go,    *)
(* sprints.go, the rules of automation.go that plan).  Who is assigned is  *)
(* recorded twice: assignee_id, the denormalized primary assignee, and the *)
(* rows of task_assignees.  A request writes the first in one statement    *)
(* and replaces the second row by row, dropping the errors.  Completing a  *)
(* sprint returns its unfinished tasks to the backlog in one statement and *)
(* closes it in another.  Every task of the model recurs.                  *)
(***************************************************************************)
EXTENDS Naturals

CONSTANTS
  Tasks, Sprints,  \* ids
  Users,           \* who may be assigned
  None,            \* NULL: nobody, the backlog
  Handlers,        \* goroutines that serve these requests
  Budgets          \* bounds: how many requests of each kind

VARIABLES
  task,     \* the table tasks: the primary assignee, the sprint, done
  assigned, \* task_assignees
  sprint,   \* the status of each sprint, and whether it is in the table
  worker,   \* what each handler is doing
  crossed,  \* history: tasks assigned by one request while another was at it
  dropped,  \* history: tasks for which a statement on their rows failed
  ruled,    \* history: tasks whose rows a rule changed
  strays,   \* history: tasks put or reopened in a sprint that was closed or closing
  kept,     \* history: sprints closed although returning their tasks failed
  left      \* bound: requests left, of each kind

vars == <<task, assigned, sprint, worker, crossed, dropped, ruled, strays, kept, left>>

Unused  == [state |-> "unused"]
Deleted == [state |-> "deleted"]
Present(t) == task[t] \notin {Unused, Deleted}
Row(primary, sid, done) == [state |-> "live", primary |-> primary, sprint |-> sid, done |-> done]
Idle == [at |-> "idle"]

Init ==
  /\ task = [t \in Tasks |-> Unused] /\ assigned = [t \in Tasks |-> {}]
  /\ sprint = [s \in Sprints |-> "unused"]
  /\ worker = [h \in Handlers |-> Idle]
  /\ crossed = {} /\ dropped = {} /\ ruled = {} /\ strays = {} /\ kept = {}
  /\ left \in Budgets

Request(kind) == left[kind] > 0 /\ left' = [left EXCEPT ![kind] = @ - 1]
Takes(h, kind) == worker[h] = Idle /\ Request(kind)
Goes(h, doing) == worker' = [worker EXCEPT ![h] = doing]

-----------------------------------------------------------------------------
(* Sprints.                                                                *)

Planned  == {s \in Sprints : sprint[s] \notin {"unused", "deleted"}}
Places   == Planned \cup {None}
Closing(sid) == {h \in Handlers : worker[h].at = "close" /\ worker[h].sprint = sid}
Closed(sid)  == sid # None /\ (sprint[sid] = "completed" \/ Closing(sid) # {})

(* Task t is now in sprint sid, done or not.                               *)
Strays(t, sid, done) ==
  strays' = IF Closed(sid) /\ ~done THEN strays \cup {t} ELSE strays \ {t}

CreateSprint(s, status) == sprint' = [sprint EXCEPT ![s] = status]

createSprint(s) ==
  /\ Request("sprint") /\ sprint[s] = "unused"
  /\ \E status \in {"planned", "active", "completed"} : CreateSprint(s, status)
  /\ UNCHANGED <<task, assigned, worker, crossed, dropped, ruled, strays, kept>>

SetSprintStatus(s, status) ==
  sprint' = IF sprint[s] = "deleted" THEN sprint ELSE [sprint EXCEPT ![s] = status]

start(s) ==
  /\ Request("sprint") /\ s \in Planned
  /\ SetSprintStatus(s, "active")
  /\ UNCHANGED <<task, assigned, worker, crossed, dropped, ruled, strays, kept>>

MoveDoneTasksToBacklog(s) ==
  task' = [t \in Tasks |-> IF Present(t) /\ task[t].sprint = s /\ task[t].done
                           THEN [task[t] EXCEPT !.sprint = None] ELSE task[t]]
MoveSprintTasksToBacklog(s) ==
  task' = [t \in Tasks |-> IF Present(t) /\ task[t].sprint = s /\ ~task[t].done
                           THEN [task[t] EXCEPT !.sprint = None] ELSE task[t]]

(* complete: the error of the first statement is dropped.                  *)
complete(h, s) ==
  /\ Takes(h, "sprint") /\ s \in Planned
  /\ \/ MoveSprintTasksToBacklog(s) /\ kept' = kept \ {s}
     \/ kept' = kept \cup {s} /\ UNCHANGED task
  /\ strays' = {t \in strays : task'[t].sprint # None}
  /\ Goes(h, [at |-> "close", sprint |-> s])
  /\ UNCHANGED <<assigned, sprint, crossed, dropped, ruled>>

closes(h) ==
  /\ worker[h].at = "close"
  /\ SetSprintStatus(worker[h].sprint, "completed") \/ UNCHANGED sprint
  /\ Goes(h, Idle)
  /\ UNCHANGED <<task, assigned, crossed, dropped, ruled, strays, kept, left>>

(* Its tasks stay, in no sprint.                                           *)
DeleteSprint(s) ==
  /\ sprint' = [sprint EXCEPT ![s] = "deleted"]
  /\ task' = [t \in Tasks |-> IF Present(t) /\ task[t].sprint = s THEN [task[t] EXCEPT !.sprint = None] ELSE task[t]]

deleteSprint(s) ==
  /\ Request("sprint") /\ s \in Planned
  /\ DeleteSprint(s)
  /\ UNCHANGED <<assigned, worker, crossed, dropped, ruled, strays, kept>>

SetTaskSprint(t, sid) ==
  /\ task' = [task EXCEPT ![t].sprint = sid]
  /\ Strays(t, sid, task[t].done)

setSprint(t) ==
  /\ Request("sprint") /\ Present(t)
  /\ \E sid \in Places : SetTaskSprint(t, sid)
  /\ UNCHANGED <<assigned, sprint, worker, crossed, dropped, ruled, kept>>

-----------------------------------------------------------------------------
(* Tasks.  A request about the assignees of t is at its rows from the      *)
(* statement that writes assignee_id to the last row; one that carries     *)
(* them over to the next occurrence, from the completion.                  *)

At(t) == {h \in Handlers : worker[h].at \in {"spawn", "copy", "clear", "add"}
                           /\ t \in {worker[h].task, worker[h].from} \cup worker[h].rest}

(* assignee_id of t is written by a request that will replace its rows.    *)
Crosses(h, ts) ==
  LET others == {g \in Handlers \ {h} : \E t \in ts : g \in At(t)}
  IN crossed' = IF others = {} THEN crossed
                ELSE crossed \cup ts \cup {worker[g].task : g \in others}

(* What is left to do: the rows of a task, then of the rest of the tasks,  *)
(* then the rules about a task.                                            *)
Work(at, t, ids, from, rest, rule) ==
  [at |-> at, task |-> t, ids |-> ids, all |-> ids, from |-> from, rest |-> rest, rule |-> rule]

(* The rules, or the answer.                                               *)
Then(h, rule) == Goes(h, IF rule = None THEN Idle ELSE [at |-> "rules", task |-> rule])

(* resolveAssignees: the first of the list is the primary assignee.        *)
resolveAssignees(ids) == IF ids = {} THEN {None} ELSE ids

(* A new task takes an id that no task has had, nor is about to have.      *)
Free == {n \in Tasks : task[n] = Unused /\ \A h \in Handlers : worker[h].at = "spawn" => worker[h].task # n}

CreateTask(t, primary, sid) ==
  /\ task' = [task EXCEPT ![t] = Row(primary, sid, FALSE)]
  /\ Strays(t, sid, FALSE)

create(h, t) ==
  /\ Takes(h, "task") /\ t \in Free
  /\ \E ids \in SUBSET Users, sid \in Places : \E primary \in resolveAssignees(ids) :
       /\ CreateTask(t, primary, sid)
       /\ Goes(h, Work("clear", t, ids, None, {}, t))
  /\ UNCHANGED <<assigned, sprint, crossed, dropped, ruled, kept>>

(* Tasks filed from elsewhere, for nobody and in no sprint: an email, the  *)
(* submission of a form, about whose task the rules are run, and the lists *)
(* of the AI - one INSERT per task, those that fail passed over.           *)
File(t) ==
  /\ t \in Free /\ CreateTask(t, None, None)
  /\ UNCHANGED <<assigned, sprint, crossed, dropped, ruled, kept>>

Handle(t) == Request("task") /\ File(t) /\ UNCHANGED worker

maybeCreateTaskFromForm(h, t) == File(t) /\ Then(h, t)
submitResponse(h, t) == Takes(h, "task") /\ maybeCreateTaskFromForm(h, t)

createTasks(h) ==
  /\ Takes(h, "task") /\ Goes(h, [at |-> "file"])
  /\ UNCHANGED <<task, assigned, sprint, crossed, dropped, ruled, strays, kept>>

files(h, t) == worker[h].at = "file" /\ File(t) /\ UNCHANGED <<worker, left>>

filed(h) ==
  /\ worker[h].at = "file" /\ Goes(h, Idle)
  /\ UNCHANGED <<task, assigned, sprint, crossed, dropped, ruled, strays, kept, left>>

(* The PUT of the whole task: what its client last saw, edited.            *)
UpdateTask(t, primary, sid, done) ==
  /\ task' = [task EXCEPT ![t] = Row(primary, sid, done)]
  /\ Strays(t, sid, done)

update(h, t) ==
  /\ Takes(h, "task") /\ Present(t)
  /\ \E ids \in SUBSET Users, sid \in Places, done \in BOOLEAN : \E primary \in resolveAssignees(ids) :
       /\ UpdateTask(t, primary, sid, done)
       /\ Goes(h, Work("clear", t, ids, None, {}, IF ids \subseteq assigned[t] THEN None ELSE t))
  /\ Crosses(h, {t})
  /\ UNCHANGED <<assigned, sprint, dropped, ruled, kept>>

(* The bulk action: one UPDATE for all, whose error does not keep the rows *)
(* from being replaced, task by task.                                      *)
BulkSetTaskAssignee(ts, primary) ==
  task' = [t \in Tasks |-> IF t \in ts THEN [task[t] EXCEPT !.primary = primary] ELSE task[t]]

bulkAssign(h) ==
  /\ Takes(h, "task")
  /\ \E ts \in (SUBSET {t \in Tasks : Present(t)}) \ {{}}, primary \in Users \cup {None} :
       /\ \/ BulkSetTaskAssignee(ts, primary) /\ UNCHANGED dropped
          \/ UNCHANGED task /\ dropped' = dropped \cup ts
       /\ \E t \in ts : Goes(h, Work("clear", t, {primary} \ {None}, None, ts \ {t}, None))
       /\ Crosses(h, ts)
  /\ UNCHANGED <<assigned, sprint, ruled, strays, kept>>

(* A row for a task that has gone fails its foreign key.                   *)
KeepTaskAssignees(t) == assigned' = [assigned EXCEPT ![t] = @]
ClearTaskAssignees(t) == assigned' = [assigned EXCEPT ![t] = {}]
AddTaskAssignee(t, u) == assigned' = [assigned EXCEPT ![t] = IF Present(t) THEN @ \cup {u} ELSE @]

Unless(t, done) ==
  \/ done /\ UNCHANGED dropped
  \/ dropped' = dropped \cup {t} /\ UNCHANGED assigned

(* setAssignees.                                                           *)
clears(h) ==
  /\ worker[h].at = "clear"
  /\ Unless(worker[h].task, ClearTaskAssignees(worker[h].task))
  /\ Goes(h, [worker[h] EXCEPT !.at = "add"])
  /\ UNCHANGED <<task, sprint, crossed, ruled, strays, kept, left>>

adds(h) ==
  /\ worker[h].at = "add"
  /\ \E u \in worker[h].ids :
       /\ Unless(worker[h].task, AddTaskAssignee(worker[h].task, u))
       /\ Goes(h, [worker[h] EXCEPT !.ids = @ \ {u}])
  /\ UNCHANGED <<task, sprint, crossed, ruled, strays, kept, left>>

(* On to the next task of a bulk action.                                   *)
goesOn(h) ==
  /\ worker[h].at = "add" /\ worker[h].ids = {}
  /\ LET w == worker[h] IN
     IF w.rest = {} THEN Then(h, w.rule)
     ELSE \E t \in w.rest : Goes(h, Work("clear", t, w.all, None, w.rest \ {t}, None))
  /\ UNCHANGED <<task, assigned, sprint, crossed, dropped, ruled, strays, kept, left>>

DeleteTask(t) ==
  /\ task' = [task EXCEPT ![t] = Deleted]
  /\ assigned' = [assigned EXCEPT ![t] = {}]

delete(t) ==
  /\ Request("task") /\ Present(t)
  /\ DeleteTask(t)
  /\ crossed' = crossed \cup {worker[h].task : h \in At(t)}
  /\ UNCHANGED <<sprint, worker, dropped, ruled, strays, kept>>

-----------------------------------------------------------------------------
(* Completing a task leaves its next occurrence, with the sprint and the   *)
(* primary assignee of the row the completion returned and the rows found  *)
(* later.  setStatus runs the rules on the task, setDone does not.  (Two   *)
(* requests that both find the task unfinished are TaskLifecycle's.)       *)

SetTaskDone(t, done) ==
  /\ task' = [task EXCEPT ![t].done = done]
  /\ Strays(t, task[t].sprint, done)

Finish(h, t, done, rule) ==
  /\ Takes(h, "task") /\ Present(t)
  /\ SetTaskDone(t, done)
  /\ IF done /\ ~task[t].done
     THEN \E n \in Free :
            /\ Goes(h, [at |-> "spawn", task |-> n, ids |-> {}, all |-> {}, from |-> t, rest |-> {}, rule |-> rule,
                        row |-> task[t]])
            /\ crossed' = IF At(t) = {} /\ t \notin crossed \cup dropped \cup ruled
                          THEN crossed ELSE crossed \cup {n}
     ELSE Then(h, rule) /\ UNCHANGED crossed
  /\ UNCHANGED <<assigned, sprint, dropped, ruled, kept>>

setDone(h, t)   == \E done \in BOOLEAN : Finish(h, t, done, None)
setStatus(h, t) == \E done \in BOOLEAN : Finish(h, t, done, t)

spawns(h) ==
  /\ worker[h].at = "spawn"
  /\ LET w == worker[h] IN
     \/ /\ w.row.sprint \in Places
        /\ CreateTask(w.task, w.row.primary, w.row.sprint)
        /\ Goes(h, Work("copy", w.task, {}, w.from, {}, w.rule))
     \/ Then(h, w.rule) /\ UNCHANGED <<task, strays>>
  /\ UNCHANGED <<assigned, sprint, crossed, dropped, ruled, kept, left>>

ListTaskAssignees(t) == assigned[t]

copies(h) ==
  /\ worker[h].at = "copy"
  /\ LET w == worker[h] IN
     \/ Goes(h, Work("add", w.task, ListTaskAssignees(w.from), w.from, {}, w.rule)) /\ UNCHANGED dropped
     \/ Then(h, w.rule) /\ dropped' = dropped \cup {w.task}
  /\ UNCHANGED <<task, assigned, sprint, crossed, ruled, strays, kept, left>>

(* The bulk action: nothing is spawned.                                    *)
BulkSetTaskDone(ts, done) ==
  /\ task' = [t \in Tasks |-> IF t \in ts THEN [task[t] EXCEPT !.done = done] ELSE task[t]]
  /\ strays' = IF done THEN strays \ ts ELSE strays \cup {t \in ts : Closed(task[t].sprint)}

bulkDone ==
  /\ Request("task")
  /\ \E ts \in (SUBSET {t \in Tasks : Present(t)}) \ {{}}, done \in BOOLEAN : BulkSetTaskDone(ts, done)
  /\ UNCHANGED <<assigned, sprint, worker, crossed, dropped, ruled, kept>>

(* Rules move the task to a sprint, give it a status - and nothing is      *)
(* spawned - or change its rows, but not assignee_id.                      *)
applyAutoActions(h) ==
  /\ worker[h].at = "rules"
  /\ LET t == worker[h].task IN
     \/ /\ Present(t)
        /\ \/ \E sid \in Places : SetTaskSprint(t, sid)
           \/ \E done \in BOOLEAN : SetTaskDone(t, done)
        /\ UNCHANGED <<assigned, ruled>>
     \/ /\ ClearTaskAssignees(t) \/ \E u \in Users : AddTaskAssignee(t, u)
        /\ ruled' = ruled \cup {t} \cup {worker[g].task : g \in At(t)}
        /\ UNCHANGED <<task, strays>>
  /\ UNCHANGED <<sprint, worker, crossed, dropped, kept, left>>

answers(h) ==
  /\ worker[h].at = "rules"
  /\ Goes(h, Idle)
  /\ UNCHANGED <<task, assigned, sprint, crossed, dropped, ruled, strays, kept, left>>

-----------------------------------------------------------------------------
Next ==
  \/ \E s \in Sprints : \/ createSprint(s) \/ start(s) \/ deleteSprint(s)
                        \/ \E h \in Handlers : complete(h, s)
  \/ \E t \in Tasks : \/ setSprint(t) \/ delete(t) \/ Handle(t)
                      \/ \E h \in Handlers : \/ create(h, t) \/ update(h, t) \/ setDone(h, t) \/ setStatus(h, t)
                                             \/ submitResponse(h, t) \/ files(h, t)
  \/ bulkDone
  \/ \E h \in Handlers : \/ createTasks(h) \/ filed(h)
                         \/ bulkAssign(h) \/ clears(h) \/ adds(h) \/ goesOn(h)
                         \/ spawns(h) \/ copies(h) \/ applyAutoActions(h) \/ answers(h) \/ closes(h)

Spec == Init /\ [][Next]_vars

-----------------------------------------------------------------------------
(* The two records of who is assigned agree: a task that nobody is at has  *)
(* rows if and only if it has a primary assignee, who is among them        *)
(* (migration 00023: assignee_id "stays as the denormalized primary        *)
(* assignee"; bulk.go:74).  It takes two requests at the same task, a      *)
(* dropped error, or a rule - which changes the rows alone                 *)
(* (automation.go:99,122-129) - to part them.                              *)
AssigneesAgree ==
  \A t \in Tasks \ (crossed \cup dropped \cup ruled) :
     Present(t) /\ At(t) = {}
     => IF task[t].primary = None THEN assigned[t] = {} ELSE task[t].primary \in assigned[t]

(* No unfinished task is left behind in a completed sprint: "unfinished    *)
(* tasks are returned to the backlog so the next sprint can pick them up"  *)
(* (sprints.go:177).  One that is there was put there, or reopened, once   *)
(* the sprint was closed or after its tasks had been returned and before   *)
(* it was closed; or returning them failed.                                *)
NoneLeftBehind ==
  \A t \in Tasks \ strays :
     Present(t) /\ ~task[t].done /\ task[t].sprint # None /\ task[t].sprint \notin kept
     => sprint[task[t].sprint] # "completed"
=============================================================================
