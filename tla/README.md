# Verification of the project-management back end

TLA+ models of the back end under `src/backend` (a Go server over PostgreSQL), the
TLC runs that check them on small instances, and TLAPS proofs of what matters most
for every value of the constants.

Every handler runs in a goroutine of its own and **no request uses a database
transaction**: each SQL statement commits by itself. Most errors that a unit test
does not reach come from there, so the models take one SQL statement (or one
critical section, file operation or broadcast) as a step and let everything else
happen between two of them.

Line references are to files under `src/backend/`, with `internal/` left out;
migrations and queries are the directories of those names.

## Inventory

| Component | State | Operations | What is hard | What makes it correct | Status |
|---|---|---|---|---|---|
| Schedule arithmetic, `schedule` | none (local maps) | `Normalize`, `Reaches` | iteration order of Go maps, cycles, saturating `time.Duration` | the result is the least schedule that satisfies the dependencies, whatever the order | modelled, proved |
| Dependencies and rescheduling, `handler/dependencies.go` | `tasks` (dates), `task_dependencies` | create and delete a dependency; `rescheduleAll` after updates and bulk actions | check-then-insert; computing from rows read before and written after other requests' writes | no cycle; a valid schedule once requests are answered | modelled, partly proved |
| Task life cycle, `handler/tasks.go`, `bulk.go`, `statuses.go` | status, done, completed_at, recurrence; `task_statuses` | create, update, complete, set status, bulk, delete; create and delete statuses | read `prior`, write later; several paths complete a task | the columns agree; one occurrence per completion; no task with a deleted status | modelled, proved |
| Automation, `handler/automation.go` | rules | evaluated at the end of create, update and setStatus | rules judged on one snapshot; actions that could trigger rules | rules never trigger rules; every request ends | partly: status, due date, assignee and sprint actions |
| Assignment and sprints, `tasks.go`, `bulk.go`, `sprints.go` | `assignee_id`, `task_assignees`, `sprint_id`, `sprints` | assign on every path, complete and delete a sprint, file tasks by mail, form and AI | one fact recorded in two tables; move, then close | the two records agree; nothing unfinished stays in a closed sprint | modelled, proved / sprints partly |
| Chat hub, `handler/chat_hub.go`, `chat_realtime.go` | registry under an RWMutex, one channel and two goroutines per connection | register, unregister, fan-out, presence | closing a channel others send on, full channels, callbacks outside the lock | no send on a closed channel, an exact registry, no leaked goroutine, presence settles | modelled, safety proved |
| Conversations, `handler/chat.go`, `chat_pins.go`, `chat_reactions.go` | conversations, members, messages, reactions, the upload directory | open, create, join, leave, administer; send, upload, forward, edit, pin, react, delete | check-then-insert; count admins, then change; file and row written apart | one direct message per pair; an admin; a file per attachment; clients agree with the tables | partly; proved |
| Reminder sweep, `reminder` | flags and occurrence dates of tasks, reminders, events, holidays | the half-hourly sweep | races with edits, a crash between notification and flag, midnight | told once; flagged only if told; whatever is due gets told | modelled |
| Nepali calendar and events, `nepdate`, `handler/calendar_events.go` | tables of month lengths | conversion, next occurrence | ends of months and of the table | the occurrence is the next one of its calendar | partly |
| Billing, `handler/time_entries.go`, `invoices.go` | entries, invoices, lines | timers; generate, void, delete | stop-then-start; sum and mark in two statements | time is billed once and freed; one timer per user | modelled, proved |
| Accounts, `account`, `handler/admin.go` | users, one-time codes, sessions | register, verify, login, second factor, reset, administer | count-after-insert; read-then-consume; tokens nothing revokes | one owner; a code is used once; access ends | partly; owner and codes proved |
| Decisions: `leave.go`, `timesheets.go`, `approvals.go`, `expenses.go` | one row each | ask, change, withdraw, list, decide | decisions of a row that has changed, told in a second statement | the requester knows where it stands; what is approved is what was shown | modelled, proved |
| Pages, `handler/pages.go` | pages, shares, links, versions | save, restore, move, share, delete | links rebuilt row by row; ancestors walked, then written | a tree; links are the references of the body | modelled, proved |
| Webhooks and chat providers, `handler/integrations.go` | webhooks, integrations | edit; deliver an event in a goroutine | edits between the lists and the posts | told once, to whoever wanted it | partly; proved |
| Git pushes, `handler/git.go` | repositories, commits | register, delete, receive a push | posts repeated after a failure or a lost answer | what is acknowledged is stored | modelled, proved |
| AI assistant, forms, inbound mail | tasks and pages they create | | the same tables by other doors | those of tasks and pages | partly / modelled |
| Budgets, milestones, releases, objectives, incidents, projects, templates, custom fields, comments, reports, search, Vikunja, database layer, client | | CRUD, queries, proxying | | | not modelled, see PROJECT.json |

How they interact: handlers share nothing but the database and the hub. Task
handlers end with `rescheduleAll` (update, bulk) and `runAutomations` (create,
update, setStatus); automation writes the rows of the same tasks; every chat,
presence and call handler fans out through the hub; the reminder sweep is a
goroutine of its own that reads and writes the tables the handlers do; a task
event is delivered by a goroutine that outlives the request. Time reaches an
invoice through the project of its task, so a task that moves or goes moves time.

PROJECT.json lists under `hazards` each place where this can go wrong, with its
line, and the properties that would show it. Three have no property, because the
repository says nothing that the code could be held to, or says it of a state that
the code does not distinguish; each has its note.

## Modules

    Schedule         Normalize and Reaches as functions
      NormalizeLoop  the loops of Normalize            Scheduling_proofs
      ReachesLoop    the search of Reaches             Scheduling_proofs
      Scheduling     handlers and the two tables       Scheduling_proofs
    TaskLifecycle    handlers, tasks, statuses         TaskLifecycle_proofs
    ChatHub          the hub and its goroutines        ChatHub_proofs
    Conversations    members, messages, files, clients Conversations_proofs
    Ledger           what billing promises
      Billing        entries, invoices, handlers       Billing_proofs
    NepaliDate       calendars and occurrences
      Reminders      the sweep, crashes, requests      Reminders_proofs
    Accounts         registration, codes, logins       Accounts_proofs
    Office           five parts and what they promise  Office_proofs
      Decisions      asked, shown, decided, told
      Pages          the tree and its links
      Planning       assignment and sprints
      Webhooks       events and their goroutines
      GitPushes      pushes and commits

Two abstract specifications stand above their modules. `Schedule` says what the
arithmetic returns, and `LoopsComputeNormalize` and `SearchIsReaches` that the
loops return it. `Ledger` says what invoicing promises about time with no request
in sight; `Billing` implements it under the mapping `open <-` the invoices that
exist, `holder <-` the column `invoice_id`.

In every module `Fail` or its like is an error or the 30-second timeout of a
statement, at any step at which the code has one; whether the request goes on or
is cut off is the code's. The variables called *history* record what happened -
that two requests overlapped, that a statement failed - and no action's guard
reads them: they let a property say exactly which interleavings break a promise.

### Schedule, NormalizeLoop, ReachesLoop

`time.Time` is an integer, `time.Duration` saturates at `MaxSpan` as `time.Sub` does.
`NormalizeLoop` is `schedule.go:36-131`: Kahn's queue and the pass, where every
choice that a Go map makes is an existential. `rows` and `arcs` are the arguments, `at` says which loop runs, `ready` is the code's queue, `waiting`
its map of in-degrees, `order`, `cur` and `shift` keep their names, `left` holds the
incoming edges the scan has yet to look at; an action is an iteration of a loop, and
`saturated` a history of the edges whose `Sub` was cut short. `Schedule` has
`Normalize` as rounds: each (`Round`) takes every task whose predecessors have been taken
(`Takeable`), and there are as many as tasks. `Scheduling`
uses the *functions*, one step each, so that the interleaving of handlers stays checkable.

### Scheduling

`live`, `dates` and `deps` are the tables; `pc` says which statement each handler is
about to execute, `edge`, `snap` and `goal` what it has been asked, has read and has yet
to write. `CheckDependency` and `InsertDependency` are the two halves of `create`
(`dependencies.go:52-112`); `UpdateTask` and `Bulk` begin a request that ends with
`ListTasks`, `ListDeps` and one `WriteDates` per change, in any order, as
`rescheduleAll` ranges over a map.

### TaskLifecycle

`row[t]` has the columns `status`, `done`, `completed` (completed_at is not null) and
`recurs`. `WithStatus` and `WithDone` are the two families of UPDATE statements
(`tasks.sql:119-173`). A request is a record in `req[h]`: its next statement, its tasks,
what it asked for, `prior.Done`, and the triggers and rule actions still to run.
`Completed` is the tail of `setDone` and `setStatus`: `spawnNext` and the rules.
`Rules` is a constant: for each trigger the conditions on the status, and the statuses set.

### ChatHub and Conversations

In `ChatHub` the mutex is the two sets of its holders, the registry the set of
connections of each user, a channel a sequence with a capacity and a closed flag.
A goroutine that fans out visits the connections one by one holding the read lock, in
any order; a full channel drops the event. `Announce` is the presence callback, which
runs after the lock is released.

`Conversations` sits on top: it takes the hub to deliver, so that what clients miss is
the handlers' doing. `kind` and `role` are the conversations and their members, `msg`
and `reactions` the tables, `files` the upload directory with each name free, stored
or removed, `view` what the client of each user shows. A request checks membership,
writes and broadcasts in steps of their own. `RemoveMember` and `SetMemberRole` count the
admins before they write; `OpenDM` looks for a conversation, and a later step makes one and adds its two members.

### Billing

`row` are the time entries, a running timer included, `status` and `lines` the
invoices. `StartReads`, `StopPrior` and `StartTimer` are the three statements of
`start`; `Generate` makes the invoice, sums the unbilled time by user, writes a line for each
and marks the time of the project; voiding writes the status and then releases the time. The task of an
entry is represented by its project: `MoveTask` is a task that changes project.
Minutes are any int32: `create` and the timer make them positive, `update` stores what it is given
(`time_entries.go:290-298`). `MinutesOf` is the sum, a bigint; `Groups` the users the `HAVING SUM(te.minutes) > 0` of
`UnbilledTimeByUser` leaves; `ToInt32` the conversion into the line. `MarkProjectTimeInvoiced` has no such
condition, so the time of a user that adds up to nothing or less goes on the invoice with no line.

### NepaliDate and Reminders

A calendar is its table of month lengths, a day a number; `ToAD`, `FromAD` and
`NextOccurrence` are `nepdate.go`'s, with what `time.Date` and `AddDate` do read off the
Gregorian table. `ToAD` adds up years and months in the code; here it counts the dates of the table
that come before, which is the same number and can be proved about. `Reminders` has one goroutine, `sweep`, that goes through its phases - list,
tell one row, mark it - and ends before any of them when the server crashes, keeping
what is committed; the requests change the rows meanwhile. `now` is read once, so a
sweep that began before midnight rolls events by yesterday's date. `Has` is the `WHERE id` of
the four marks: whatever the row holds by then is flagged. The histories `crossed` and
`overtaken` are what a midnight and a request made of the rows in the sweep's hands.

### Accounts

`otp` are the rows of codes, each with its place in the order of `created_at`, `mailed` those that reached their user,
`sessions` the live tokens, identified by user and role. `Register` inserts the user, counts, and makes
the first one owner; `issueOTP` deletes, inserts and mails; `checkOTP` reads, and the consumption is a
later statement. Administrators change roles and `is_active`; nothing revokes a token.

### Office: Decisions, Pages, Planning, Webhooks, GitPushes

`Office` has the variables of the five and instantiates four of them beside `GitPushes`, which it extends; its
properties are theirs. `MCOffice` runs them together and `Office_proofs` proves them one by one.

- `Decisions`: `row[i]` is a row of any of four tables, keyed by its table and id, `data`
  what the decision is about; `desk[h]` holds a timesheet about to be submitted or a
  notification about to be written. `screen` is what each user's list showed, `knows` the
  status the requester last learnt.
- `Pages`: a body is the set of pages its titles refer to. A save is read, check, snapshot,
  write, clear the links, insert them one by one; a move walks the ancestors of its target,
  each a read, and then writes. `meetingSummary` is the page the AI assistant makes.
- `Planning`: `task[t]` has the primary assignee, the sprint and done, `assigned` the join
  table. A request writes the first, then clears and adds the rows of the second; `spawns` and
  `copies` are the next occurrence, `complete` and `closes` the two statements of a sprint's
  completion. `Handle`, `submitResponse` and `createTasks` are the tasks filed by mail, form and AI.
- `Webhooks`: `courier[e]` is the goroutine of an event: it lists the webhooks, posts to
  each, lists the integrations, posts to each. `Shutdown` loses what is under way.
- `GitPushes`: `desk[h]` holds a push and the commits yet to store; the first failure ends
  the request with 500, after which the host may post the push again.

## Runs

| Run | Checks | Bounds |
|---|---|---|
| `normalize` | `Normalize` loop by loop: what it leaves unordered, that the result is least and feasible, that it is the function's, that it ends | 3 tasks, 2 dependencies of all four types or 3 finish_to_start ones, cycles included; `MaxSpan` = 2, so that shifts saturate |
| `reaches` | the search on every graph | 4 tasks, every graph and every pair |
| `scheduling` | two handlers, any statement may fail | 3 tasks, 3 requests |
| `scheduling_cycle` | the API does not prevent cycles (violation) | as above |
| `scheduling_at_rest` | the schedule need not be valid at rest (violation) | as above |
| `task_lifecycle` | completion, recurrence, statuses, rules | 2 handlers, 2 tasks, 3 statuses, 2 multi-statement requests |
| `chat_hub` | connections, pumps, senders | 2 connections, 1 sender, channels of 1 event |
| `conversations` | admins, direct messages, events, files | 2 users, 2 conversations, 2 messages, 2 files, 2 handlers, 3 requests |
| `billing` | timers, invoices, and that they implement `Ledger` | 2 users, 1 project, 2 entries, 2 invoices, 2 handlers, minutes -1, 0 or 2 of an int32 of -3 .. 2, 3 requests |
| `reminders` | the sweep, with crashes and calendars, and that it gets to everything | one row of any kind, 6 days, calendars of two years of two months, 2 requests, 1 failure or crash |
| `accounts` | owner, codes, and that access ends | 2 addresses, 2 handlers; an empty workspace with 2 codes, or with 1 and a failure; an owner signed in beside a member with the second factor, 2 changes and 1 code |
| `office` | five parts, each in the initial states that open it | see below |

The parts of `office` share the server's handlers and users and no table, so a state
opens one of them and leaves the others without budget: *decisions*, one row of one
kind (or a timesheet for each of two users), 4 turns; *pages*, 3 pages and 1 to 3 requests, from five
beginnings; *planning*, 2 or 3 tasks, 2 sprints and 2 or 3 requests, from three beginnings;
*webhooks*, 1 event, 2 webhooks, 1 provider, 3 edits; *pushes*, 1 repository, 2 pushes
with a commit in common, 4 posts. The beginnings that are not empty tables are states that requests
reach from them.

Every run's bound is a constant that the guards of arrivals name (`MaxRequests`,
`MaxTurns`, `MaxEdits`, `MaxPosts`, `Budgets`, `MaxCodes`, `MaxChanges`, `MaxFailures`, `LastDay`).
`MaxHops` is not one: it is the code's limit of 100 ancestors, which the run sets to 3.

### Why the bounds are enough

Three tasks make a chain, a fork, a join and a cycle behind
which a task waits; with three dependencies a task can have two predecessors that
push it by different amounts. Two handlers are enough for a write to fall between
another's read and write, and three requests for an edit, a dependency and a
deletion to meet. In `task_lifecycle` the rules make more changes than there are
requests: a task is completed, reopened by a rule and completed again within the
bound, and one custom status exists to be deleted under a request that assigns it. In
`chat_hub` two connections are those of one user or of two, and one slot in the channel
is enough for a full one.

Ids and handlers that nothing tells apart are symmetric in `billing`, `conversations` and `office`
(where the users are too).

In `billing` two generations compete for two entries, an entry is started and stopped, and 0
minutes are what a running timer has; of two entries the minutes add up to less than one has (2 - 1), to more than an int32
holds (4, which wraps), to nothing or to less, of one user or of each of two; `conversations` begins with nothing, with a direct
message or with a channel of an admin and a member, and a second conversation is free to forward a file to. In `reminders` the phases read
and write nothing of each other's rows, so one row of each kind in turn is all of them;
two years that trade a day make a month too short for the date, and the second is
the last, so that a repeating event runs off the table. In `accounts` two
registrations can cross, and a code can be superseded. In *decisions* four turns are ask,
decide, ask again and decide; in *pages* two moves cross, and a page can have an ancestor that neither
has read; events do not interact, so *webhooks* has one. Two pushes that share a commit on
different branches are those between which `ON CONFLICT DO NOTHING` decides.

### What they show

`Normalize` yields what the function says whatever the map order: the least schedule
that satisfies every dependency that is not on a cycle and does not saturate.
Requests that nobody else's write disturbs leave a valid schedule and never move a task
earlier. The two violations are real interleavings of the code, described under
`findings`: two cycle checks before two inserts, and a rescheduling from rows that
have changed. In `TaskLifecycle` the three columns agree with one exception, a task
*created* as done, which has the status but not the flag (`tasks.sql:84`); the
completions by setDone and setStatus each leave one occurrence as long as requests do
not overlap, and statuses stay known under the same proviso. In `ChatHub` nobody sends
on a closed channel, the registry is exact, every goroutine of a connection that ends does
end, and presence settles unless events were dropped or announcements crossed.

`Billing` implements `Ledger` whatever overlaps and fails: no statement ever moves an
entry from one invoice to another. The lines charge each user what the marked minutes of theirs add up to, one line each,
and nobody whose minutes do not add up to more than nothing, though these are marked too. What the *lines* bill is weaker: an entry can be charged on
two invoices when another request comes between the sum and the mark (`stale`) or an invoice is
un-voided (`revived`). A user can have two timers when two starts overlap.

In `Conversations` a group keeps an admin, a pair one direct message and a message its file
unless two requests were at the same thing (`raced`) or a step failed; a user removed
from a conversation misses its events. `Reminders` tells twice only what a failure or a
crash kept from being flagged, an event that a sweep begun before midnight rolled onto
the day it had, or one that was changed in the sweep's hands and comes to the day it had then; a flag means that somebody was told or that the telling failed, unless the row changed
in the sweep's hands; and everything due is dealt with. `Accounts` has one owner unless its first
registration was crossed or failed, codes work once unless a request came between check and
consumption, and once nobody changes members any more the live tokens agree with the table, in the
end: for as long as a token lasts they need not.

In `office`, a requester knows where his request stands except where the row was written between a
decision and its telling, or the telling failed; an approved timesheet has the minutes shown
unless it was submitted again after the list. The tree of pages
stays one unless a move read too little or another move passed behind it; links follow the
body but for two saves at a time and the pages the AI makes. The assignees agree unless two requests, a dropped error or a rule
(which writes the rows only) came between; a closed sprint holds unfinished tasks only
if they were put or reopened there after its tasks were returned, or returning failed. An
event is told once, to whoever wanted it all along, and a push that was acknowledged is stored.

Six statements of the repository are met with a property that names the exception rather
than with a run that must fail: "so there is only ever one" timer (`time_entries.go:202`, `OneTimer`); "minutes must be
positive" (`time_entries.go:256`, which `update` does not ask, `LinesAccountForTime`); "Keep the assignee join table in
sync" (`bulk.go:74`, `AssigneesAgree`); reminded again when reopened (`reminder.go:19-21`, which
`SetTaskStatus` does not bring about); "Snapshot the current content first so a restore can
itself be undone" (`pages.go:515`, where the error of the snapshot is dropped); and the links of a
page, which `meetingSummary` does not write (`ai.go:507`, `LinksFollowBody`).

### Fairness

`FairSpec` of each module is weak fairness of the steps of each goroutine that has
something to do, justified by the Go scheduler and by the bound of 30 s on every
request and the deadlines on every WebSocket read and write: a statement
returns, possibly with an error. `Reminders` has weak fairness of the sweep as a whole: the
process is restarted after a crash, its ticker ticks and its statements return. `Accounts` adds
that a token expires (24 hours); since a session is its user and role, a login
renews it, so expiry is only fair and never forced. No fairness is assumed of arrivals, of users, of
peers leaving or of failures, and no strong fairness anywhere: a `sync.RWMutex` keeps new
readers out once a writer waits, which `ChatHub` models (`CanRLock`), so a goroutine that waits for
the lock stays enabled once the readers have drained. The other modules have no liveness property and
no fairness.

Deadlock is not checked, since every one of these systems may stop: when nobody asks for anything
more, which is what spent bounds amount to, and, in `normalize` and `reaches`, when the function has returned.

## Proofs

All proofs are for every value of the constants; the assumptions are the ones named
in the modules (`...Assumption`), which TLC evaluates in the runs: inputs of the right type and finite sets of dependencies, natural bounds,
`MaxSpan` positive, connections and senders distinct, the protected statuses among the keys, well-formed rules,
a `None` that is nothing else, minutes that are int32s, finitely many addresses, conversations, messages and sets of users told apart
(they are rows of two tables and sets), pushes of registered repositories,
webhooks that are no providers, and calendars whose tables are finite and have the same months every year, of a day or more each.

Theorems about `Normalize` as a whole say besides that the set of tasks is finite, as the rows of a table are.

None of the properties is inductive. Each inductive invariant was checked by TLC on the run of its
module before it was proved, and each has a lemma per action.

- `Scheduling_proofs`: of the loops of `Normalize`, types; `OrderSound`; `ConstraintsHoldOnReturn`; `NeverEarlier`;
  `EarliestSchedule`, that the result is the least one. The invariant is `LoopTypeInv /\ OrderInv /\ PushInv`: `OrderInv` says
  that the order so far is closed under predecessors and that `waiting` and `ready` account for the rest,
  `PushInv` that what the pass has left behind it satisfies its dependencies and that
  the task it is working on has the largest shift asked of it so far. No property is inductive
  without it: the pass is right only because the order is.
  Of the search, `SearchIsReaches`, with the invariant that everything seen is reachable
  and that its successors are seen or on the stack. Of the handlers, the constraints of the tables; `CyclesNeedOverlap`, by the lemma that
  an edge whose ends do not reach each other makes no cycle (cycles and
  reachability are stated with closed sets, so that no induction on paths is
  needed); and `SequentialAcyclic`: with one handler the API does prevent cycles.
  Of the function `Normalize`: a recursive function has to be shown to exist before anything can be said of it, which
  `IterationExists` does from its finite beginnings, with induction over sets of numbers (`SetInduction`, from the
  library's theorem that inclusion of finite sets is well-founded). After n rounds what is taken is closed under predecessors, settled, and has n members or
  leaves only what is stuck (`RoundOK`), so in the end everything but what is stuck is settled: it is where the rows of its
  predecessors ask it to be (`NormalizeReschedules`). Two ways to settle would differ on a knot, so there is one
  (`RescheduledIsOne`), and since what the loops have passed is settled too (`ExactInv`) they compute it: `LoopsAgree`.
  Of undisturbed reschedules: `MovesLater`, since what the handler has listed is the table until it writes and what it has
  yet to write moves rows as Normalize saw them (`QuietInv`); and `QuietRescheduleIsValid`, since the rows as they
  will be when it is done are valid after each write, though the table is not (`PlanInv`). The last one supposes that no gap between dates
  exceeds what a `time.Duration` holds, 292 years (`NothingSaturates`): beyond it the code does leave dependencies violated,
  and the run's dates stay below it.
- `ChatHub_proofs`: `NoSendOnClosed` and `RegistryExact`, from `ControlOK` (where each goroutine is) and
  `LockInv` (who holds the lock, and what a holder's snapshot may contain); type correctness of the data on top.
  `PresenceIsTrue`: what a client was last told is what the registry says, once nothing is on its way. Its
  invariant follows a change from the registry to the client: an event in the hands of a connection's goroutine is its own
  announcement (`EventInv`), which is true of a user whose announcements did not cross (`TrueInv`); a connection that has not
  joined has been told nothing (`FreshInv`), and one that has is told the truth by the last event in its channel, or
  is yet to be visited by the fan-out that tells it (`ToldInv`).
- `TaskLifecycle_proofs`: type correctness; `CompletionConsistent`, inductive on top of it since each
  statement writes all columns; `StatusesKnown`, strengthened by `ReadsHold`: what a request
  has read about statuses still holds while its history says that nobody else wrote.
  `OneOccurrenceEach` counts: what a task is owed is the number of requests about to spawn its next occurrence
  (`OwedInv`), as long as nothing overlapped; and a request that was left alone completes the task it read (`PriorInv`).
- `Billing_proofs`: `LedgerKept`, the refinement: every step is a step of `Ledger` or a stutter.
  It needs only `TypeInv` and `Clean`, that no free or deleted entry is on an invoice, and so holds whatever
  overlaps. `OneTimerAtMost` rests on `TimerInv`: a user who never raced has no running timer
  once his start has stopped the one it found, and no second start in progress. `BilledOnce` rests on
  `BilledInv`, which ties what an invoice was made from to the marks on the entries while no step was stale;
  `TimeAccounted` follows each user's line, from `MakerInv` (an invoice being made has one maker, and no time yet)
  and `AccountInv`: while an invoice is made, a user's line is still to be written and is the only one, or what is written
  charges the user for the time that was read (`Charging`); the mark puts that time, and no other, on the invoice.
  It assumes of minutes only that they are int32s; of the sum, a fold, it uses that it is one of the time and 0 of none.
- `Reminders_proofs`: `NobodyToldTwice`, `FlaggedWasTold` and `StandsAtNext`. Of the calendars, `DaysGrow` (of two dates the
  later has the larger day), `CalendarFacts` (a day has one date) and `NextIsFirst`: no recurrence lies between the day asked for
  and the answer, because a day is clamped to its month and the years are tried from that of the day on; minima come
  from `LeastMember`. Of the sweep, `ListInv`: what is listed has not been told, or is excused. It is kept by what
  each row has in common with its history - a row told is flagged, or its notice is in the sweep's hands, or is excused
  (`TaskSound`, `AlarmSound`, `HolidaySound`) - and of an event (`EventSound`) what it was told for is the day it
  stands at, with the flag, or a day that the sweep has behind it (`Boundary`), to which the event cannot return.
  The proof is where the third excuse of `ToldOnce` comes from: it takes a notice of a whole year, which `calendar_events.go:218`
  allows and the run's little calendars leave out.
- `Accounts_proofs`: `OwnerIsOne`, from `OwnerInv`: before the first row there is no request about to
  count (`NobodyBefore`), no write in progress demotes or deactivates the owner (`WritesSpareOwner`),
  registrations that did not cross are apart (`RegistrationsApart`), and of those that count the users one
  at most finds itself first and one is (`OneFirst`, `SomeFirst`). Cardinalities come from the library's theorems on finite sets.
  `CodesWorkOnce` rests on `CodeInv`: codes are apart (`CodesApart`), a row is as it was issued (`RowsAsIssued`) and the newest that
  is left of its user and purpose (`RowsAreNewest`), and what a check has read still holds at the consumption unless
  another request came between (`CheckHolds`).
- `Office_proofs`, `GitPushes`: `AcknowledgedIsStored`. What a request has yet to store is a suffix of its push and
  what is before it is stored (`DeskInv`); commits are forgotten only with their repository, whose id is
  not used again, and keep the branch they first came with (`BranchInv`); so what is answered stays stored (`AnsweredInv`).
- `Webhooks`: `ToldAsSubscribed`, from `WebhooksInv`: while an end point is yet to be listed it has wanted
  the event if it does now, and does now if it has all along; once listed it is among those to post to or was posted to.
- `Decisions`: `RequestersKnow` and `ApprovedAsShown`, from `DecisionsInv`: whoever has decided and is about to tell will
  tell the status that the row has (`TellerRight`), what the requester knows agrees with a row that nobody is about to tell of
  (`Agreed`), and a screen marked current shows the data that the row has (`SheetShown`).
- `Pages`: `PagesFormATree` and `BodiesAreLinked`, from `PagesInv`. A circle that a move would close must run
  through the target's ancestors, all of which the walk has seen; `WalkOf` says that what it saw is still so, or that the
  histories know. `LinksOf` says which links a save that is half through has cleared and which it has still to make.
- `Planning`: `SprintsAreCleared` and `AssigneeIsAssigned`, from `PlanningInv`. A sprint counts as closed from the
  statement that returns its tasks (`Behind`), though its status is written later. `AgreeOf` gives each task whose records were
  not parted one writer at most, and says what that writer has still to do: the rows there and those it
  will add are those of the primary assignee; a copier has rows to copy at which nobody is.
- `Conversations_proofs`: the four properties share a knowledge of requests in progress. Each step of a handler is
  brought down to what it changes (the `...Req` and `...Row` lemmas), and `AloneInv` says that what has not been used
  is unknown and that two requests about one thing at a time are in `raced`.
  `OneDMPerPair`: the direct message of a pair is the one that has the two as members, or the one somebody is making,
  and a maker still to begin has seen none (`PairInv`). `AdminKept`: a group has an admin or is about to get its first,
  and nobody who is about to be removed or demoted is the last (`AdminInv`). `FilesKept`: a file has one owner - a message,
  a request about to post it or one about to remove it - and a stored one has some (`FileInv`). `EventsAgree`: what a client
  shows of a message is what a fresh look would, or somebody is about to tell (`ShowsRow` and its like in `EventInv`);
  what will be told is so (`TruthReq`); so once nobody is busy with a message, what is shown is so.

Only model-checked: everything about liveness (`Returns`, `SearchEnds`, `GoroutinesEnd`,
`RequestsEnd`, `DueGetsTold`, `AccessEnds`), since fairness is out of the prover's reach. Every other
property the passing runs check is a theorem.

## Not modelled, and why

Left out of every module: rendering, validation of text, the activity log and the
notifications that are written best effort and that no other component reads back. Read-only
queries have no behaviour to check. Templates, milestones, releases, objectives, incidents and so on are single statements on tables
of their own. The Flutter client reaches the back end only through the handlers. Row-level
visibility within one statement is PostgreSQL's, and taken as atomic.

Left out of the modules, by module:

- `TaskLifecycle`, `Scheduling`: baselines, the recurrence's date arithmetic, renaming and reordering statuses (which keep the key), the rules' priority, tag and comment actions.
- `Planning`: a bulk deletion is single deletions; what a double completion spawns is left to `TaskLifecycle`; every task recurs; names of sprints and the notes of the retrospective.
- `Conversations`: threads, mentions, read markers, renaming, the member list a client shows, calls. There is one emoji.
- `Billing`: rates, numbers, dates and the client's details.
- `Reminders`: the 372-day window and the `LIMIT` of the queries, the cancellation of a sweep at shutdown (a crash stands for it), muhurats, the calendar feed.
- `Accounts`: passwords (a wrong one is answered at once), allowed domains, profiles, workspace settings, the audit log, API keys.
- `Decisions`: the leave balance, which is computed for display; the `LIMIT` of the lists.
- `Pages`: titles do not change; responses to forms (rows that are only listed), the live event to open editors, the other columns.
- `Webhooks`: what the other side makes of a POST, which the code does not look at; the test delivery.
- `GitPushes`, mail and AI: the parsing of commit messages, mails and the model's answers.

## Plan

Done: everything in the tree above. Next, most important first:

1. An abstract specification of a decision (asked, shown, decided, told) that `Decisions` implements for each of its
   four tables, and of a notification told once that `Reminders` implements but for failures.
2. Threads and read markers in `Conversations`; the counts of unread messages against the messages.
3. Projects and their members, whose deletion cascades into every other table.
4. The remaining automation actions, and rules that act on a task which an earlier rule has changed.
