----------------------------- MODULE Decisions -----------------------------
(***************************************************************************)
(* What one person asks and another decides: leave (handler/leave.go),     *)
(* timesheets (timesheets.go), approvals (approvals.go) and expenses       *)
(* (expenses.go).  A decision is an UPDATE by id that does not look at the *)
(* status it replaces, then a notification to whoever asked, whose error   *)
(* is dropped.  A row is keyed by its table and id; a timesheet's id is    *)
(* its user, for the week.  `data` is what the decision is about where it  *)
(* can change: the minutes of a timesheet, the amount of an expense.       *)
(***************************************************************************)
EXTENDS Naturals, FiniteSets

CONSTANTS
  Sessions,     \* the tokens in use: records of a user and a role
  Leaves, Approvals, Expenses,   \* ids
  Amounts,      \* minutes of a week, cents of an expense
  Handlers,     \* goroutines that serve these requests
  MaxTurns      \* bound: requests

Users == {s.user : s \in Sessions}
Item  == ({"leave"} \X Leaves) \cup ({"approval"} \X Approvals)
           \cup ({"expense"} \X Expenses) \cup ({"sheet"} \X Users)

VARIABLES
  row,      \* leave_requests, approvals, expenses, timesheet_submissions
  minutes,  \* of a user's time entries of the week
  desk,     \* what each handler is doing
  screen,   \* what each user was last shown of each row, and whether it still stands
  decided,  \* history: what whoever decided a row had been shown of it
  knows,    \* history: the status of each row its requester last learnt
  crossed,  \* history: rows written while a decision on them was being told
  untold,   \* history: rows whose last decision was not told
  turns     \* bound: requests so far

vars == <<row, minutes, desk, screen, decided, knows, crossed, untold, turns>>

Unused  == [status |-> "unused"]
Deleted == [status |-> "deleted"]
Present(i) == row[i] \notin {Unused, Deleted}

Verdicts == {"approved", "rejected"}
ExpenseStatuses == {"pending", "approved", "rejected", "reimbursed"}

Blank == [data |-> 0, current |-> FALSE]
Idle  == [at |-> "idle"]

Init ==
  /\ row = [i \in Item |-> Unused]
  /\ minutes = [u \in Users |-> CHOOSE n \in Amounts : TRUE]
  /\ desk = [h \in Handlers |-> Idle]
  /\ screen = [u \in Users |-> [i \in Item |-> Blank]] /\ decided = [i \in Item |-> Blank]
  /\ knows = [i \in Item |-> "unused"] /\ crossed = {} /\ untold = {}
  /\ turns = 0

-----------------------------------------------------------------------------
Request == turns < MaxTurns /\ turns' = turns + 1

mayWrite(s) == s.role # "guest"
isAdmin(s)  == s.role \in {"owner", "admin"}

Telling(i) == {h \in Handlers : desk[h].at = "tell" /\ desk[h].item = i}

(* Row i is written: whoever is about to tell of it tells of the past.     *)
Write(i, new) ==
  /\ row' = [row EXCEPT ![i] = new]
  /\ crossed' = IF Telling(i) = {} THEN crossed ELSE crossed \cup {i}

(* What the decision is about is written: no screen shows it any more.     *)
Outdate(i) == screen' = [u \in Users |-> [screen[u] EXCEPT ![i].current = FALSE]]

(* The requester's own request is answered with the status it leaves.      *)
Answered(i, status) == knows' = [knows EXCEPT ![i] = status]

-----------------------------------------------------------------------------
(* Asking.                                                                 *)

CreateLeave(i, u) ==
  Write(i, [status |-> "pending", user |-> u, data |-> 0])

createLeave(s, i) ==
  /\ i[1] = "leave" /\ row[i] = Unused
  /\ CreateLeave(i, s.user) /\ Answered(i, "pending")
  /\ UNCHANGED <<minutes, desk, screen, decided, untold>>

(* DELETE ... WHERE it is mine AND pending; otherwise nothing happens.     *)
CancelMyLeave(i, u) ==
  /\ row[i].user = u
  /\ Write(i, Deleted)
CancelLeave(i, u) ==
  /\ row[i].user = u /\ row[i].status = "pending"
  /\ Write(i, Deleted)

cancelLeave(s, i) ==
  /\ i[1] = "leave" /\ Present(i)
  /\ CancelLeave(i, s.user)
  /\ UNCHANGED <<minutes, desk, screen, decided, knows, untold>>

CreateApproval(i, u, approver) ==
  Write(i, [status |-> "pending", user |-> u, approver |-> approver, data |-> 0])

(* The approver is told of it too; what he knows is what his list shows.   *)
requestApproval(s, i) ==
  /\ i[1] = "approval" /\ row[i] = Unused
  /\ \E approver \in Users : CreateApproval(i, s.user, approver)
  /\ Answered(i, "pending")
  /\ UNCHANGED <<minutes, desk, screen, decided, untold>>

CreateExpense(i, u, cents) ==
  Write(i, [status |-> "pending", user |-> u, data |-> cents])

createExpense(s, i) ==
  /\ i[1] = "expense" /\ row[i] = Unused
  /\ \E cents \in Amounts : CreateExpense(i, s.user, cents)
  /\ Answered(i, "pending")
  /\ UNCHANGED <<minutes, desk, screen, decided, untold>>

(* Anybody may edit or delete an expense, whatever its status.             *)
UpdateExpense(i, cents) == row' = [row EXCEPT ![i].data = cents]

updateExpense(i) ==
  /\ i[1] = "expense" /\ Present(i)
  /\ \E cents \in Amounts : UpdateExpense(i, cents)
  /\ Outdate(i)
  /\ UNCHANGED <<minutes, desk, decided, knows, crossed, untold>>

DeleteExpense(i) == Write(i, Deleted)

deleteExpense(i) ==
  /\ i[1] = "expense" /\ Present(i)
  /\ DeleteExpense(i)
  /\ UNCHANGED <<minutes, desk, screen, decided, knows, untold>>

(* Time entries come and go.                                               *)
LogTime(u) ==
  /\ \E n \in Amounts : n # minutes[u] /\ minutes' = [minutes EXCEPT ![u] = n]
  /\ UNCHANGED <<row, desk, screen, decided, knows, crossed, untold>>

(* submit: WeekMinutes, then SubmitTimesheet.                              *)
WeekMinutes(u) == minutes[u]

submit(h, s) ==
  /\ desk[h] = Idle
  /\ desk' = [desk EXCEPT ![h] = [at |-> "submit", item |-> <<"sheet", s.user>>, data |-> WeekMinutes(s.user)]]
  /\ UNCHANGED <<row, minutes, screen, decided, knows, crossed, untold>>

ResubmitMinutes(i, n) ==
  Write(i, [status |-> IF Present(i) THEN row[i].status ELSE "submitted", user |-> i[2], data |-> n])
SubmitTimesheet(i, n) ==
  Write(i, [status |-> "submitted", user |-> i[2], data |-> n])

SubmitWrites(h) ==
  /\ desk[h].at = "submit"
  /\ SubmitTimesheet(desk[h].item, desk[h].data)
  /\ Outdate(desk[h].item) /\ Answered(desk[h].item, "submitted")
  /\ desk' = [desk EXCEPT ![h] = Idle]
  /\ UNCHANGED <<minutes, decided, untold, turns>>

-----------------------------------------------------------------------------
(* Looking: each list shows its rows to those who may decide them.         *)

ListPendingLeave        == {i \in Item : i[1] = "leave" /\ row[i].status = "pending"}
ListPendingTimesheets   == {i \in Item : i[1] = "sheet" /\ row[i].status = "submitted"}
ListPendingApprovals(u) == {i \in Item : i[1] = "approval" /\ row[i].status = "pending" /\ row[i].approver = u}
ListExpenses            == {i \in Item : i[1] = "expense" /\ Present(i)}

(* A list replaces what the page had; a row decided since is not on it.    *)
Shows(s, list) ==
  /\ screen' = [screen EXCEPT ![s.user] =
                  [i \in Item |-> IF i \in list THEN [data |-> row[i].data, current |-> TRUE] ELSE @[i]]]
  /\ screen' # screen

pendingLeave(s)      == isAdmin(s) /\ Shows(s, ListPendingLeave)
pendingTimesheets(s) == isAdmin(s) /\ Shows(s, ListPendingTimesheets)
pendingApprovals(s)  == Shows(s, ListPendingApprovals(s.user))
listExpenses(s)      == Shows(s, ListExpenses)

Look(s) ==
  /\ pendingLeave(s) \/ pendingTimesheets(s) \/ pendingApprovals(s) \/ listExpenses(s)
  /\ UNCHANGED <<row, minutes, desk, decided, knows, crossed, untold, turns>>

(* Everybody sees what became of his own requests, approvals with their    *)
(* subject and approved leave in the calendar too.                         *)
Requested(u)              == {i \in Item : Present(i) /\ row[i].user = u}
ListMyLeave(u)            == {i \in Requested(u) : i[1] = "leave"}
ListMyTimesheets(u)       == {i \in Requested(u) : i[1] = "sheet"}
ListMyApprovalRequests(u) == {i \in Requested(u) : i[1] = "approval"}
ListApprovalsForSubject   == {i \in Item : i[1] = "approval" /\ Present(i)}
ListLeaveInRange          == {i \in Item : i[1] = "leave" /\ row[i].status = "approved"}

(* The requester knows again, unless a past decision is still to be told.  *)
Learns(s, list) ==
  LET seen == list \cap Requested(s.user) IN
  /\ seen # {}
  /\ knows' = [i \in Item |-> IF i \in seen THEN row[i].status ELSE knows[i]]
  /\ crossed' = {i \in crossed : i \in seen => Telling(i) # {}}
  /\ untold' = untold \ seen
  /\ <<knows', crossed', untold'>> # <<knows, crossed, untold>>

myLeave(s)      == Learns(s, ListMyLeave(s.user))
calendar(s)     == Learns(s, ListLeaveInRange)
myTimesheets(s) == Learns(s, ListMyTimesheets(s.user))
myApprovals(s)  == Learns(s, ListMyApprovalRequests(s.user))
forSubject(s)   == Learns(s, ListApprovalsForSubject)
myExpenses(s)   == Learns(s, ListExpenses)

LookBack(s) ==
  /\ \/ myLeave(s) \/ calendar(s) \/ myTimesheets(s)
     \/ myApprovals(s) \/ forSubject(s) \/ myExpenses(s)
  /\ UNCHANGED <<row, minutes, desk, screen, decided, turns>>

-----------------------------------------------------------------------------
(* Deciding: the UPDATE, then notifyUser.                                  *)

(* UPDATE ... SET status, approver_id, decided_at WHERE id.                *)
Decide(i, status) == Write(i, [row[i] EXCEPT !.status = status])

(* The handler that has decided i tells its requester, unless he did it.   *)
Tells(h, i, status) ==
  desk' = [desk EXCEPT ![h] = [at |-> "tell", item |-> i, status |-> status]]

DecideTimesheet(i, status) == i[1] = "sheet" /\ Decide(i, status)
DecideLeave(i, status)     == i[1] = "leave" /\ Decide(i, status)
DecideApproval(i, status)  == i[1] = "approval" /\ Decide(i, status)

decideTimesheet(s, i, status) == isAdmin(s) /\ status \in Verdicts /\ DecideTimesheet(i, status)
decideLeave(s, i, status)     == isAdmin(s) /\ status \in Verdicts /\ DecideLeave(i, status)

(* GetApproval: the approver of a row never changes.                       *)
GetApproval(i) == row[i]
decideApproval(s, i, status) ==
  /\ i[1] = "approval" /\ GetApproval(i).approver = s.user
  /\ status \in Verdicts /\ DecideApproval(i, status)

decide(h, s, i) ==
  /\ desk[h] = Idle /\ Present(i) /\ screen[s.user][i] # Blank
  /\ \E status \in Verdicts :
       /\ \/ decideTimesheet(s, i, status) \/ decideLeave(s, i, status) \/ decideApproval(s, i, status)
       /\ Tells(h, i, status)
  /\ decided' = [decided EXCEPT ![i] = screen[s.user][i]]
  /\ UNCHANGED <<minutes, screen, knows, untold>>

SetExpenseStatus(i, status) == Write(i, [row[i] EXCEPT !.status = status])

setStatus(h, s, i) ==
  /\ desk[h] = Idle /\ i[1] = "expense" /\ Present(i) /\ screen[s.user][i] # Blank
  /\ \E status \in ExpenseStatuses :
       /\ SetExpenseStatus(i, status)
       /\ \/ row[i].user # s.user /\ Tells(h, i, status) /\ UNCHANGED knows
          \/ row[i].user = s.user /\ Answered(i, status) /\ UNCHANGED desk
  /\ decided' = [decided EXCEPT ![i] = screen[s.user][i]]
  /\ UNCHANGED <<minutes, screen, untold>>

CreateNotification(i, status) == knows' = [knows EXCEPT ![i] = status]

(* The requester may be in "do not disturb" or have muted the category,    *)
(* and the insert may fail: nothing tells him then.                        *)
notifyUser(h) ==
  /\ desk[h].at = "tell"
  /\ LET i == desk[h].item IN
     \/ CreateNotification(i, desk[h].status) /\ untold' = untold \ {i}
     \/ untold' = untold \cup {i} /\ UNCHANGED knows
  /\ desk' = [desk EXCEPT ![h] = Idle]
  /\ UNCHANGED <<row, minutes, screen, decided, crossed, turns>>

(* A failed statement of submit ends the request.                          *)
SubmitFails(h) ==
  /\ desk[h].at = "submit"
  /\ desk' = [desk EXCEPT ![h] = Idle]
  /\ UNCHANGED <<row, minutes, screen, decided, knows, crossed, untold, turns>>

-----------------------------------------------------------------------------
Ask(s) ==
  \/ \E i \in Item : \/ createLeave(s, i) \/ cancelLeave(s, i) \/ requestApproval(s, i)
                     \/ createExpense(s, i) \/ updateExpense(i) \/ deleteExpense(i)
  \/ LogTime(s.user)
  \/ \E h \in Handlers : submit(h, s)

Judge(s) == \E h \in Handlers, i \in Item : decide(h, s, i) \/ setStatus(h, s, i)

Next ==
  \/ \E s \in Sessions : \/ mayWrite(s) /\ Request /\ (Ask(s) \/ Judge(s))
                         \/ Look(s) \/ LookBack(s)
  \/ \E h \in Handlers : SubmitWrites(h) \/ SubmitFails(h) \/ notifyUser(h)

Spec == Init /\ [][Next]_vars

-----------------------------------------------------------------------------
(* Rows, screens and requests have their shape.                            *)
TypeOK ==
  /\ \A i \in Item : Present(i) => /\ row[i].user \in Users /\ row[i].data \in Amounts \cup {0}
                                   /\ row[i].status \in ExpenseStatuses \cup {"submitted"}
  /\ screen \in [Users -> [Item -> [data : Amounts \cup {0}, current : BOOLEAN]]]
  /\ \A h \in Handlers : desk[h] = Idle \/ desk[h].item \in Item

(* When nobody is deciding a row, its requester knows where it stands: the *)
(* status he last learnt - from the answer to his own request, from a      *)
(* list or from the last notification - is the row's, and what he was told *)
(* is decided has not gone, unless it is an expense, which anybody may     *)
(* delete.  Decisions are not guarded by the status they replace and are   *)
(* told in a statement of their own (leave.go:262, timesheets.go:203,      *)
(* approvals.go:237, expenses.go:195), so this fails when the row is       *)
(* written between another decision and its telling, or when the telling   *)
(* fails, until he looks again.                                            *)
LastNoticeAgrees ==
  \A i \in Item \ (crossed \cup untold) :
     /\ \A h \in Handlers : desk[h].at = "idle" \/ desk[h].item # i
     /\ knows[i] # "unused"
     => \/ Present(i) /\ row[i].status = knows[i]
        \/ row[i] = Deleted /\ (knows[i] = "pending" \/ i[1] = "expense")

(* An approved timesheet has the minutes its approver was shown, unless it *)
(* was submitted again between the list and the decision: submitting takes *)
(* back whatever was decided of the minutes before (timesheets.sql,        *)
(* SubmitTimesheet), also when the two come together.                      *)
SheetAsShown ==
  \A u \in Users :
     LET i == <<"sheet", u>> IN
     row[i].status = "approved" /\ decided[i].current => row[i].data = decided[i].data
=============================================================================
