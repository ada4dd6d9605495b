------------------------------ MODULE Reminders ------------------------------
(***************************************************************************)
(* internal/reminder: the sweep that tells people what is due - tasks,     *)
(* reminders they set ("alarms" here), calendar events and holidays - and  *)
(* the requests that change those rows meanwhile.  The sweep is one        *)
(* goroutine: it lists what one of its queries finds, then tells and marks *)
(* row by row, each call a statement of its own whose error is dropped.    *)
(* A day is the unit of time; the sweep is started by the server, then by  *)
(* its ticker, and the server may crash at any point of it.                *)
(***************************************************************************)
EXTENDS NepaliDate

CONSTANTS
  Tasks, Alarms, Events, Holidays, Users,
  Dates,         \* the days a request may name
  RemindDays,    \* the notice a user may ask for, in days
  LastDay,       \* bound: the day the model stops at
  MaxRequests,   \* bound: requests that change a row
  MaxFailures    \* bound: statements that fail, and crashes

ASSUME RemindersAssumption ==
  LastDay \in Nat /\ Dates \cup RemindDays \cup {MaxRequests, MaxFailures} \subseteq Nat

VARIABLES
  day,        \* CURRENT_DATE, and the date of time.Now()
  task,       \* tasks: is "free" (unused id), "row" or "deleted"; the columns of the sweep
  alarm,      \* reminders
  event,      \* calendar_events
  holiday,    \* holidays
  notice,     \* users.holiday_remind_days; NoDay is NULL
  active,     \* users.status = 'active': the presence a user shows, not is_active
  heard,      \* holiday_reminders_sent
  sweep,      \* the goroutine: the phase, its `now`, the rows listed, the row being told
  told,       \* history: what was told of each row since the row was last reset
  twice,      \* history: what was told more than once
  lost,       \* history: what a failed statement or a crash kept from being told or marked
  crossed,    \* history: what was rolled although it was not past on the day of the sweep
  overtaken,  \* history: what the sweep held of a row when it was reset
  work        \* bounds: requests and failures so far

rows  == <<task, alarm, event, holiday, notice, active>>
hist  == <<told, twice, lost, crossed, overtaken>>
vars  == <<day, rows, heard, sweep, hist, work>>

Modes == {"none", "ad", "bs"}

Free == [is |-> "free"]      \* an id not used yet
Gone == [is |-> "deleted"]

TaskRow    == [is : {"row"}, due : Dates \cup {NoDay}, done : BOOLEAN, assigned : BOOLEAN, sent : BOOLEAN]
AlarmRow   == [is : {"row"}, at : Dates, sent : BOOLEAN]
EventRow   == [is : {"row"}, date : Dates, repeat : Modes, days : RemindDays \cup {NoDay},
               next : Nat, reminded : BOOLEAN]
HolidayRow == [is : {"row"}, date : Dates, public : BOOLEAN]

Item == ({"task"} \X Tasks) \cup ({"alarm"} \X Alarms) \cup ({"event"} \X Events)
          \cup ({"holiday"} \X (Users \X Holidays))

(* What the sweep lists: to be told, and to be rolled.                     *)
Notice == [item : Item, when : Nat]
Stale  == [item : {"event"} \X Events, when : Nat, repeat : Modes \ {"none"}, date : Dates]

Idle == [at |-> "down", today |-> 0, todo |-> {}, telling |-> {}]

(* Rows may have come and gone before.                                     *)
Init ==
  /\ day = 0
  /\ task \in [Tasks -> {Free, Gone}] /\ alarm \in [Alarms -> {Free, Gone}]
  /\ event \in [Events -> {Free, Gone}] /\ holiday \in [Holidays -> {Free, Gone}]
  /\ notice \in [Users -> RemindDays \cup {NoDay}] /\ active \in SUBSET Users
  /\ heard = {} /\ sweep = Idle
  /\ told = {} /\ twice = {} /\ lost = {} /\ crossed = {} /\ overtaken = {}
  /\ work = [requests |-> 0, failures |-> 0]

-----------------------------------------------------------------------------
(* The queries.                                                            *)

DueReminders ==
  {[item |-> <<"task", t>>, when |-> task[t].due] :
     t \in {x \in Tasks : /\ task[x].is = "row" /\ ~task[x].done /\ task[x].assigned
                          /\ task[x].due # NoDay /\ task[x].due <= day + 1 /\ ~task[x].sent}}

DueUserReminders ==
  {[item |-> <<"alarm", a>>, when |-> alarm[a].at] :
     a \in {x \in Alarms : alarm[x].is = "row" /\ ~alarm[x].sent /\ alarm[x].at <= day}}

StaleRepeatingEvents ==
  {[item |-> <<"event", e>>, when |-> event[e].next, repeat |-> event[e].repeat, date |-> event[e].date] :
     e \in {x \in Events : event[x].is = "row" /\ event[x].repeat # "none" /\ event[x].next < day}}

DueCalendarReminders ==
  {[item |-> <<"event", e>>, when |-> event[e].next] :
     e \in {x \in Events : /\ event[x].is = "row" /\ event[x].days # NoDay /\ ~event[x].reminded
                           /\ event[x].next <= day + event[x].days}}

(* Variant: who has been told already is not asked.                        *)
HolidaysAhead ==
  {[item |-> <<"holiday", uh>>, when |-> holiday[uh[2]].date] :
     uh \in {x \in active \X Holidays :
       /\ notice[x[1]] # NoDay /\ holiday[x[2]].is = "row" /\ holiday[x[2]].public
       /\ holiday[x[2]].date \in day .. day + notice[x[1]]}}

DueHolidayReminders ==
  {[item |-> <<"holiday", uh>>, when |-> holiday[uh[2]].date] :
     uh \in {x \in (active \X Holidays) \ heard :
       /\ notice[x[1]] # NoDay /\ holiday[x[2]].is = "row" /\ holiday[x[2]].public
       /\ holiday[x[2]].date \in day .. day + notice[x[1]]}}

Phases == {"tasks", "alarms", "roll", "events", "holidays"}

After(at) == CASE at = "tasks"  -> "alarms"
               [] at = "alarms" -> "roll"
               [] at = "roll"   -> "events"
               [] at = "events" -> "holidays"
               [] OTHER         -> "wait"

Listed(at) == CASE at = "tasks"    -> DueReminders
                [] at = "alarms"   -> DueUserReminders
                [] at = "roll"     -> StaleRepeatingEvents
                [] at = "events"   -> DueCalendarReminders
                [] at = "holidays" -> DueHolidayReminders
                [] OTHER           -> {}

-----------------------------------------------------------------------------
(* The sweep.                                                              *)

Fail == work.failures < MaxFailures /\ work' = [work EXCEPT !.failures = @ + 1]

(* Start runs the sweep at once, and again at every tick; Run gives up     *)
(* when its first query fails.                                             *)
Run ==
  /\ sweep.at \in {"down", "wait"}
  /\ \/ sweep' = [at |-> "tasks", today |-> day, todo |-> Listed("tasks"), telling |-> {}] /\ UNCHANGED work
     \/ sweep' = [Idle EXCEPT !.at = "wait"] /\ Fail
  /\ UNCHANGED <<day, rows, heard, hist>>

(* The next function of Run; one whose query fails does nothing.           *)
NextPhase ==
  /\ sweep.at \in Phases /\ sweep.todo = {} /\ sweep.telling = {}
  /\ LET at == After(sweep.at)
     IN  \/ /\ sweep' = IF at = "wait" THEN [Idle EXCEPT !.at = at]
                        ELSE [sweep EXCEPT !.at = at, !.todo = Listed(at)]
            /\ crossed' = crossed \cup
                 IF at # "roll" THEN {}
                 ELSE {[item |-> n.item, when |-> n.when] :
                         n \in {m \in Listed(at) : m.when >= sweep.today}}
            /\ UNCHANGED work
         \/ /\ at # "wait" /\ sweep' = [sweep EXCEPT !.at = at]
            /\ Fail /\ UNCHANGED crossed
  /\ UNCHANGED <<day, rows, heard, told, twice, lost, overtaken>>

(* CreateNotification; the row is marked next whether or not it worked.    *)
Tell(n) ==
  /\ sweep.at # "roll" /\ n \in sweep.todo /\ sweep.telling = {}
  /\ sweep' = [sweep EXCEPT !.todo = @ \ {n}, !.telling = {n}]
  /\ \/ /\ told' = told \cup {n} /\ twice' = twice \cup ({n} \cap told)
        /\ UNCHANGED <<lost, work>>
     \/ lost' = lost \cup {n} /\ Fail /\ UNCHANGED <<told, twice>>
  /\ UNCHANGED <<day, rows, heard, crossed, overtaken>>

(* Variant: a row is marked on the day it is due, and not when it is told  *)
(* ahead of it.                                                            *)
StillHas(table, kind, n) == n.item[1] = kind /\ table[n.item[2]].is = "row" /\ n.when = day

(* The row is of the table; a deleted row is not there.                    *)
Has(table, kind, n) == n.item[1] = kind /\ table[n.item[2]].is = "row"

MarkReminded(n) ==
  task' = IF Has(task, "task", n) THEN [task EXCEPT ![n.item[2]].sent = TRUE] ELSE task

MarkReminderSent(n) ==
  alarm' = IF Has(alarm, "alarm", n) THEN [alarm EXCEPT ![n.item[2]].sent = TRUE] ELSE alarm

MarkCalendarEventReminded(n) ==
  event' = IF Has(event, "event", n) THEN [event EXCEPT ![n.item[2]].reminded = TRUE] ELSE event

MarkHolidayReminded(n) ==
  heard' = heard \cup {uh \in Users \X Holidays : n.item = <<"holiday", uh>> /\ holiday[uh[2]].is = "row"}

(* The row is marked by its id, whatever it holds by now.                  *)
Mark(n) ==
  /\ n \in sweep.telling
  /\ sweep' = [sweep EXCEPT !.telling = {}]
  /\ \/ /\ MarkReminded(n) /\ MarkReminderSent(n)
        /\ MarkCalendarEventReminded(n) /\ MarkHolidayReminded(n)
        /\ UNCHANGED <<lost, work>>
     \/ lost' = lost \cup {n} /\ Fail /\ UNCHANGED <<task, alarm, event, heard>>
  /\ UNCHANGED <<day, holiday, notice, active, told, twice, crossed, overtaken>>

(* Variant: the flag is kept when the event moves on.                      *)
RolledFlagged(e, when) == [event EXCEPT ![e].next = when]

RollCalendarEvent(e, when) == [event EXCEPT ![e].next = when, ![e].reminded = FALSE]

(* rollRepeatingEvents: the occurrence comes of the row as it was listed   *)
(* and of the sweep's own day; a date outside the table leaves it alone.   *)
Roll(n) ==
  /\ sweep.at = "roll" /\ n \in sweep.todo
  /\ sweep' = [sweep EXCEPT !.todo = @ \ {n}]
  /\ LET e    == n.item[2]
         when == NextOccurrence(n.repeat, n.date, sweep.today)
     IN  \/ /\ event' = IF when = NoDay \/ event[e].is # "row" THEN event
                        ELSE RollCalendarEvent(e, when)
            /\ UNCHANGED work
         \/ when # NoDay /\ Fail /\ UNCHANGED event
  /\ UNCHANGED <<day, task, alarm, holiday, notice, active, heard, hist>>

Crash ==
  /\ sweep.at # "down" /\ Fail
  /\ sweep' = Idle
  /\ lost' = lost \cup sweep.telling
  /\ UNCHANGED <<day, rows, heard, told, twice, crossed, overtaken>>

NewDay ==
  /\ day < LastDay /\ day' = day + 1
  /\ UNCHANGED <<rows, heard, sweep, hist, work>>

-----------------------------------------------------------------------------
(* The requests.  One that resets a row begins its history anew; when the  *)
(* sweep holds the row as it was, that is noted.                           *)

Request == work.requests < MaxRequests /\ work' = [work EXCEPT !.requests = @ + 1]

Without(notices, item) == {n \in notices : n.item # item}

Reset(item) ==
  /\ told' = Without(told, item) /\ twice' = Without(twice, item)
  /\ lost' = Without(lost, item) /\ crossed' = Without(crossed, item)
  /\ overtaken' = Without(overtaken, item) \cup {n \in sweep.todo \cup sweep.telling : n.item = item}

SetTask(t, row) == task' = [task EXCEPT ![t] = row] /\ UNCHANGED <<alarm, event, holiday, notice, active, heard>>

CreateTask(t) ==
  /\ task[t].is = "free"
  /\ \E due \in Dates \cup {NoDay} :
       SetTask(t, [is |-> "row", due |-> due, done |-> FALSE, assigned |-> TRUE, sent |-> FALSE])
  /\ UNCHANGED hist

UpdateTask(t) ==
  /\ task[t].is = "row"
  /\ \E due \in Dates \cup {NoDay}, done, assigned \in BOOLEAN :
       SetTask(t, [is |-> "row", due |-> due, done |-> done, assigned |-> assigned, sent |-> FALSE])
  /\ Reset(<<"task", t>>)

(* A reschedule.                                                           *)
SetTaskDates(t) ==
  /\ task[t].is = "row"
  /\ \E due \in Dates : SetTask(t, [task[t] EXCEPT !.due = due, !.sent = FALSE])
  /\ Reset(<<"task", t>>)

(* SetTaskDone and BulkSetTaskDone: reopening clears the flag.             *)
SetTaskDone(t) ==
  /\ task[t].is = "row"
  /\ \/ SetTask(t, [task[t] EXCEPT !.done = TRUE]) /\ UNCHANGED hist
     \/ SetTask(t, [task[t] EXCEPT !.done = FALSE, !.sent = FALSE]) /\ Reset(<<"task", t>>)

(* SetTaskStatus and BulkSetTaskStatus, which keep the flag, and the       *)
(* automations' SetTaskDueAt, which keeps it too.                          *)
SetTaskStatus(t) ==
  /\ task[t].is = "row"
  /\ \/ \E done \in BOOLEAN : SetTask(t, [task[t] EXCEPT !.done = done])
     \/ \E due \in Dates : SetTask(t, [task[t] EXCEPT !.due = due])
  /\ UNCHANGED hist

DeleteTask(t) ==
  /\ task[t].is = "row"
  /\ SetTask(t, Gone)
  /\ Reset(<<"task", t>>)

CreateReminder(a, at) == alarm' = [alarm EXCEPT ![a] = [is |-> "row", at |-> at, sent |-> FALSE]]

createReminder(a) ==
  /\ alarm[a].is = "free"
  /\ \E at \in Dates : CreateReminder(a, at)
  /\ UNCHANGED <<task, event, holiday, notice, active, heard, hist>>

DeleteReminder(a) == alarm' = [alarm EXCEPT ![a] = Gone]

(* By its owner, or with the task it is about.                             *)
deleteReminder(a) ==
  /\ alarm[a].is = "row"
  /\ DeleteReminder(a)
  /\ Reset(<<"alarm", a>>)
  /\ UNCHANGED <<task, event, holiday, notice, active, heard>>

(* The recurrence is resolved here and now; a date whose next occurrence   *)
(* cannot be found is refused.                                             *)
decodeEvent ==
  {body \in {[date |-> date, repeat |-> repeat, days |-> days, next |-> NextOccurrence(repeat, date, day)] :
              repeat \in Modes, date \in Dates, days \in RemindDays \cup {NoDay}} :
     body.next # NoDay}

EventOf(body) == [is |-> "row", date |-> body.date, repeat |-> body.repeat, days |-> body.days,
                  next |-> body.next, reminded |-> FALSE]

CreateCalendarEvent(e, body) == event[e].is = "free" /\ event' = [event EXCEPT ![e] = EventOf(body)]

UpdateCalendarEvent(e, body) == event[e].is = "row" /\ event' = [event EXCEPT ![e] = EventOf(body)]

SaveEvent(e) ==
  /\ \E body \in decodeEvent : CreateCalendarEvent(e, body) \/ UpdateCalendarEvent(e, body)
  /\ Reset(<<"event", e>>)
  /\ UNCHANGED <<task, alarm, holiday, notice, active, heard>>

DeleteCalendarEvent(e) == event' = [event EXCEPT ![e] = Gone]

DropEvent(e) ==
  /\ event[e].is = "row"
  /\ DeleteCalendarEvent(e)
  /\ Reset(<<"event", e>>)
  /\ UNCHANGED <<task, alarm, holiday, notice, active, heard>>

decodeHoliday == HolidayRow

CreateHoliday(h, body) ==
  holiday[h].is = "free" /\ holiday' = [holiday EXCEPT ![h] = body]

(* A holiday that is moved: who has heard of it stays as it was.           *)
UpdateHoliday(h, body) ==
  holiday[h].is = "row" /\ holiday' = [holiday EXCEPT ![h] = body]

SaveHoliday(h) ==
  /\ \E body \in decodeHoliday : CreateHoliday(h, body) \/ UpdateHoliday(h, body)
  /\ UNCHANGED <<task, alarm, event, notice, active, heard, hist>>

(* The rows of holiday_reminders_sent go with the holiday.                 *)
DeleteHoliday(h) ==
  /\ holiday' = [holiday EXCEPT ![h] = Gone]
  /\ heard' = {uh \in heard : uh[2] # h}

DropHoliday(h) ==
  /\ holiday[h].is = "row"
  /\ DeleteHoliday(h)
  /\ UNCHANGED <<task, alarm, event, notice, active, hist>>

SetHolidayRemindDays(u, days) == notice' = [notice EXCEPT ![u] = days]

setReminder(u) ==
  /\ \E days \in RemindDays \cup {NoDay} : SetHolidayRemindDays(u, days)
  /\ UNCHANGED <<task, alarm, event, holiday, active, heard, hist>>

(* The presence a user sets himself: active, or away, busy, dnd.            *)
SetUserStatus(u, on) == active' = IF on THEN active \cup {u} ELSE active \ {u}

setMyStatus(u) ==
  /\ \E on \in BOOLEAN : SetUserStatus(u, on)
  /\ UNCHANGED <<task, alarm, event, holiday, notice, heard, hist>>

Requests ==
  /\ Request /\ UNCHANGED <<day, sweep>>
  /\ \/ \E t \in Tasks : \/ CreateTask(t) \/ UpdateTask(t) \/ SetTaskDates(t)
                         \/ SetTaskDone(t) \/ SetTaskStatus(t) \/ DeleteTask(t)
     \/ \E a \in Alarms : createReminder(a) \/ deleteReminder(a)
     \/ \E e \in Events : SaveEvent(e) \/ DropEvent(e)
     \/ \E h \in Holidays : SaveHoliday(h) \/ DropHoliday(h)
     \/ \E u \in Users : setReminder(u) \/ setMyStatus(u)

Sweeping ==
  \/ Run \/ NextPhase
  \/ \E n \in sweep.todo : Tell(n) \/ Roll(n)
  \/ \E n \in sweep.telling : Mark(n)

Next == Sweeping \/ Requests \/ Crash \/ NewDay

Spec == Init /\ [][Next]_vars

(* The process is restarted, its ticker ticks and its statements return.   *)
FairSpec == Spec /\ WF_vars(Sweeping)

-----------------------------------------------------------------------------
(* What notices are about.                                                 *)
Items(notices) == {n.item : n \in notices}

TypeOK ==
  /\ day \in 0 .. LastDay
  /\ task \in [Tasks -> TaskRow \cup {Free, Gone}] /\ alarm \in [Alarms -> AlarmRow \cup {Free, Gone}]
  /\ event \in [Events -> EventRow \cup {Free, Gone}]
  /\ holiday \in [Holidays -> HolidayRow \cup {Free, Gone}]
  /\ notice \in [Users -> RemindDays \cup {NoDay}] /\ active \subseteq Users
  /\ heard \subseteq Users \X Holidays
  /\ sweep \in [at : {"down", "wait"} \cup Phases, today : 0 .. day,
                todo : SUBSET (Notice \cup Stale), telling : SUBSET Notice]
  /\ told \cup lost \cup crossed \subseteq Notice /\ twice \subseteq told
  /\ overtaken \subseteq Notice \cup Stale
  /\ work \in [requests : 0 .. MaxRequests, failures : 0 .. MaxFailures]

(* "The sweep can run every half hour without telling anyone twice": what  *)
(* is told twice was not marked the first time, because the statement      *)
(* failed or the server stopped - or it is an event the sweep began before *)
(* midnight rolled, after midnight, onto the day it already had, or one    *)
(* that comes to the day the row had when it was changed in the sweep's    *)
(* hands.                                                                  *)
ToldOnce == twice \subseteq lost \cup crossed \cup overtaken

(* What is flagged as told was told, or its notification failed: of an     *)
(* event, the very occurrence it stands at.  Not so when the row was       *)
(* changed while the sweep held it: the flag then is the old row's.        *)
FlagMeansTold ==
  LET tried(item) == {n \in told \cup lost : n.item = item}
  IN  /\ \A t \in Tasks : task[t].is = "row" /\ task[t].sent /\ <<"task", t>> \notin Items(overtaken)
            => tried(<<"task", t>>) # {}
      /\ \A a \in Alarms : alarm[a].is = "row" /\ alarm[a].sent => tried(<<"alarm", a>>) # {}
      /\ \A e \in Events : event[e].is = "row" /\ event[e].reminded /\ <<"event", e>> \notin Items(overtaken)
            => \E n \in tried(<<"event", e>>) : n.when = event[e].next
      /\ \A uh \in heard : tried(<<"holiday", uh>>) # {}

(* The month and the day of `date` recur on d: it is that day of its       *)
(* month, or the month's last when the month is too short.                 *)
Recurs(mode, date, d) ==
  \E of, on \in Calendars[mode] :
    /\ of.at = date /\ on.at = d /\ of.month = on.month
    /\ on.day = of.day \/ (on.day < of.day /\ on.day = Table(mode)[on.year][on.month])

(* The occurrence kept with a repeating event is one of its own calendar,  *)
(* and no earlier one is still ahead, however often the sweep moved it on  *)
(* and whatever the two calendars make of the month.                       *)
OccurrenceRight ==
  \A e \in Events :
    event[e].is = "row" /\ event[e].repeat # "none" /\ <<"event", e>> \notin Items(overtaken)
      => /\ Recurs(event[e].repeat, event[e].date, event[e].next)
         /\ \A d \in day .. event[e].next - 1 : ~Recurs(event[e].repeat, event[e].date, d)

(* Nothing stays due: again and again, for every row, the sweep has got to *)
(* it and flagged it, in spite of crashes and of statements that fail.     *)
DueGetsTold ==
  /\ \A t \in Tasks  : []<>(<<"task", t>> \notin Items(DueReminders))
  /\ \A a \in Alarms : []<>(<<"alarm", a>> \notin Items(DueUserReminders))
  /\ \A e \in Events : []<>(<<"event", e>> \notin Items(DueCalendarReminders))
  /\ \A uh \in Users \X Holidays : []<>(<<"holiday", uh>> \notin Items(DueHolidayReminders))
=============================================================================
