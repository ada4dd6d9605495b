-------------------------------- MODULE Billing -------------------------------
(***************************************************************************)
(* Logged time and the invoices it is billed on: the timers and entries of *)
(* time_entries.go and the invoices of invoices.go, one step per SQL       *)
(* statement.  Starting a timer, generating an invoice and voiding one     *)
(* take several statements with no transaction around them.                *)
(*                                                                         *)
(* Money, dates and descriptions are left out: a line has its minutes.     *)
(* The task of an entry is represented by the project it belongs to.       *)
(***************************************************************************)
EXTENDS Integers, Sequences, FiniteSets, FiniteSetsExt

CONSTANTS
  Users, Projects,
  Entries,       \* ids of time entries
  Invoices,      \* ids of invoices
  Handlers,      \* goroutines serving requests that take several statements
  MaxInt32,      \* the largest value of an int32
  Minutes,       \* the minutes an entry may have, negative ones too
  None,          \* NULL, and the author of a line added by hand
  MaxRequests    \* bound on the number of requests

Int32 == -MaxInt32 - 1 .. MaxInt32

ASSUME BillingAssumption ==
  /\ None \notin Users \cup Projects \cup Entries \cup Invoices
  /\ MaxInt32 \in Nat
  /\ Minutes \subseteq Int32
  /\ 0 \in Minutes
  /\ MaxRequests \in Nat

VARIABLES
  row,       \* time_entries
  status,    \* invoices.status; free and deleted ids have no row
  lines,     \* invoice_lines of each invoice
  req,       \* the request each handler is serving
  requests,  \* number of requests so far
  billed,    \* history: the entries whose minutes the invoice was made from
  amended,   \* history: invoices whose lines or entries were changed since
  revived,   \* history: invoices that were void and no longer are
  raced,     \* history: users with two start requests at a time
  stale,     \* history: time was marked that was not the time read
  incident   \* history: a statement failed

tables  == <<row, status, lines>>
history == <<billed, amended, revived, raced, stale, incident>>
vars    == <<tables, req, requests, history>>

(* A free id was never handed out; running is ended_at NULL; project is    *)
(* that of the entry's task.                                               *)
Entry == [is : {"free", "running", "ended", "deleted"}, user : Users \cup {None},
          project : Projects \cup {None}, minutes : Minutes, billable : BOOLEAN,
          invoice : Invoices \cup {None}]

NoEntry(is) == [is |-> is, user |-> None, project |-> None, minutes |-> 0,
                billable |-> FALSE, invoice |-> None]

Statuses == {"draft", "sent", "paid", "void"}
Line     == [user : Users \cup {None}, minutes : Int32]

(* What the sum of an invoice is made of: an entry's minutes and owner.    *)
Logged == [entry : Entries, user : Users \cup {None}, minutes : Minutes]

Places == {"idle", "stop", "start", "create", "unbilled", "line", "release"}

(* A request: its next statement; for a timer the user, the entry to stop  *)
(* and the one to start; for an invoice the project, the invoice, the time *)
(* read and the lines to be made of it.                                    *)
Req == [at : Places, user : Users \cup {None}, prior : Entries \cup {None},
        new : [project : Projects \cup {None}, billable : BOOLEAN],
        project : Projects \cup {None}, invoice : Invoices \cup {None},
        time : SUBSET Logged, todo : SUBSET Line]

Idle == [at |-> "idle", user |-> None, prior |-> None,
         new |-> [project |-> None, billable |-> FALSE],
         project |-> None, invoice |-> None, time |-> {}, todo |-> {}]

TypeOK ==
  /\ row \in [Entries -> Entry]
  /\ status \in [Invoices -> Statuses \cup {"free", "deleted"}]
  /\ lines \in [Invoices -> Seq(Line)]
  /\ req \in [Handlers -> Req]
  /\ requests \in 0 .. MaxRequests
  /\ billed \in [Invoices -> SUBSET Entries]
  /\ amended \in SUBSET Invoices
  /\ revived \in SUBSET Invoices
  /\ raced \in SUBSET Users
  /\ stale \in BOOLEAN
  /\ incident \in BOOLEAN

(* Some time is logged, none of it is on an invoice.                       *)
Init ==
  /\ row \in [Entries -> {NoEntry("free")} \cup
                          {r \in Entry : r.is = "ended" /\ r.user # None /\ r.invoice = None}]
  /\ status = [i \in Invoices |-> "free"]
  /\ lines = [i \in Invoices |-> <<>>]
  /\ req = [h \in Handlers |-> Idle]
  /\ requests = 0
  /\ billed = [i \in Invoices |-> {}]
  /\ amended = {}
  /\ revived = {}
  /\ raced = {}
  /\ stale = FALSE
  /\ incident = FALSE

-----------------------------------------------------------------------------
Exists(e) == row[e].is \in {"running", "ended"}
Issued(i) == status[i] \in Statuses

Request == requests < MaxRequests /\ requests' = requests + 1

Begin(h, r) == req[h] = Idle /\ Request /\ req' = [req EXCEPT ![h] = r]
Answer(h)   == req' = [req EXCEPT ![h] = Idle]

(* The invoice that entry e is on, if any.                                 *)
InvoiceOf(e) == {row[e].invoice} \ {None}

-----------------------------------------------------------------------------
(* Timers and entries.  A user reaches only entries of their own.          *)

GetActiveTimer(u) == {e \in Entries : row[e].is = "running" /\ row[e].user = u}

(* POST /time-entries/start: a timer found running is stopped first; that  *)
(* the read failed is not noticed.                                         *)
StartReads(h, u, new, ok) ==
  \E prior \in IF ok /\ GetActiveTimer(u) # {} THEN GetActiveTimer(u) ELSE {None} :
    /\ Begin(h, [Idle EXCEPT !.at = IF prior = None THEN "start" ELSE "stop",
                             !.user = u, !.prior = prior, !.new = new])
    /\ raced' = IF \E g \in Handlers : req[g].at \in {"stop", "start"} /\ req[g].user = u
                THEN raced \cup {u} ELSE raced
    /\ incident' = (incident \/ ~ok)
    /\ UNCHANGED <<tables, billed, amended, revived, stale>>

(* Variant: the timer goes on running.                                     *)
StopTimerCounts(e, minutes) ==
  row' = [row EXCEPT ![e].minutes = IF row[e].is = "running" THEN minutes ELSE @]

(* The entry ends with the minutes since it started, one at least; an      *)
(* entry that does not run is left as it is.                               *)
StopTimer(e, minutes) ==
  row' = [row EXCEPT ![e].is = IF row[e].is = "running" THEN "ended" ELSE @,
                     ![e].minutes = IF row[e].is = "running" THEN minutes ELSE @]

(* The statement of start, whose failure is not noticed either.            *)
StopPrior(h, minutes) ==
  LET e == req[h].prior
  IN  /\ req[h].at = "stop"
      /\ minutes > 0
      /\ req' = [req EXCEPT ![h].at = "start"]
      /\ \/ /\ StopTimer(e, minutes)
            /\ amended' = IF row[e].is = "running" THEN amended \cup InvoiceOf(e) ELSE amended
            /\ UNCHANGED incident
         \/ incident' = TRUE /\ UNCHANGED <<row, amended>>
      /\ UNCHANGED <<status, lines, requests, billed, revived, raced, stale>>

StartTimer(h, e) ==
  /\ req[h].at = "start"
  /\ row[e].is = "free"
  /\ row' = [row EXCEPT ![e] = [is |-> "running", user |-> req[h].user,
       project |-> req[h].new.project, minutes |-> 0,
       billable |-> req[h].new.billable, invoice |-> None]]
  /\ Answer(h)
  /\ UNCHANGED <<status, lines, requests, history>>

(* POST /time-entries/{id}/stop                                            *)
Stop(e, minutes) ==
  /\ Request
  /\ row[e].is = "running"
  /\ minutes > 0
  /\ StopTimer(e, minutes)
  /\ amended' = amended \cup InvoiceOf(e)
  /\ UNCHANGED <<status, lines, req, billed, revived, raced, stale, incident>>

CreateTimeEntry(e, u, p, minutes, billable) ==
  /\ row[e].is = "free"
  /\ row' = [row EXCEPT ![e] = [is |-> "ended", user |-> u, project |-> p,
       minutes |-> minutes, billable |-> billable, invoice |-> None]]

(* POST /time-entries: time logged by hand, ended as it starts.            *)
Log(e, u, p, minutes, billable) ==
  /\ Request
  /\ minutes > 0
  /\ CreateTimeEntry(e, u, p, minutes, billable)
  /\ UNCHANGED <<status, lines, req, history>>

UpdateTimeEntry(e, p, minutes, billable) ==
  row' = [row EXCEPT ![e].project = p, ![e].minutes = minutes, ![e].billable = billable]

(* PATCH /time-entries/{id}: any minutes, negative ones too, and another   *)
(* task; whether the entry runs or is on an invoice is neither asked nor   *)
(* changed.                                                                *)
Edit(e, p, minutes, billable) ==
  /\ Request
  /\ Exists(e)
  /\ UpdateTimeEntry(e, p, minutes, billable)
  /\ amended' = amended \cup InvoiceOf(e)
  /\ UNCHANGED <<status, lines, req, billed, revived, raced, stale, incident>>

DeleteTimeEntry(e) == row' = [row EXCEPT ![e] = NoEntry("deleted")]

(* DELETE /time-entries/{id}                                               *)
Remove(e) ==
  /\ Request
  /\ Exists(e)
  /\ DeleteTimeEntry(e)
  /\ amended' = amended \cup InvoiceOf(e)
  /\ UNCHANGED <<status, lines, req, billed, revived, raced, stale, incident>>

(* A task goes to another project, or is deleted, and its entries with it. *)
MoveTask(S, p) ==
  /\ Request
  /\ \A e \in S : Exists(e)
  /\ row' = [e \in Entries |-> IF e \in S THEN [row[e] EXCEPT !.project = p] ELSE row[e]]
  /\ UNCHANGED <<status, lines, req, history>>

-----------------------------------------------------------------------------
(* Invoices                                                                *)

CreateInvoice(i) == status[i] = "free" /\ status' = [status EXCEPT ![i] = "draft"]

(* POST /invoices                                                          *)
Create(i) ==
  /\ Request
  /\ CreateInvoice(i)
  /\ UNCHANGED <<row, lines, req, history>>

(* POST /invoices/generate, for project p.                                 *)
Generate(h, p) ==
  /\ Begin(h, [Idle EXCEPT !.at = "create", !.project = p])
  /\ UNCHANGED <<tables, history>>

GenerateInvoice(h, i) ==
  /\ req[h].at = "create"
  /\ CreateInvoice(i)
  /\ req' = [req EXCEPT ![h].at = "unbilled", ![h].invoice = i]
  /\ UNCHANGED <<row, lines, requests, history>>

(* Variant: on an invoice or not.                                          *)
Billable(p) == {e \in Entries : Exists(e) /\ row[e].project = p /\ row[e].billable}

(* The billable time of project p that is on no invoice, timers included.  *)
Unbilled(p) ==
  {e \in Entries : Exists(e) /\ row[e].project = p /\ row[e].billable /\ row[e].invoice = None}

TimeOf(e) == [entry |-> e, user |-> row[e].user, minutes |-> row[e].minutes]
Time(p)   == {TimeOf(e) : e \in Unbilled(p)}

MinutesOf(u, time) == MapThenSumSet(LAMBDA x : x.minutes, {x \in time : x.user = u})

(* Go's conversion of a wider integer.                                     *)
ToInt32(n) == ((n + MaxInt32 + 1) % (2 * MaxInt32 + 2)) - MaxInt32 - 1

(* Variant: everyone who logged any of it.                                 *)
Loggers(time) == {u \in Users : \E x \in time : x.user = u}

(* The users with a group: those whose minutes add up to more than nothing.*)
Groups(time) == {u \in Users : MinutesOf(u, time) > 0}

UnbilledTimeByUser(h) ==
  LET time    == Time(req[h].project)
      line(u) == [user |-> u, minutes |-> ToInt32(MinutesOf(u, time))]
  IN  /\ req[h].at = "unbilled"
      /\ req' = [req EXCEPT ![h].at = "line", ![h].time = time,
                            ![h].todo = {line(u) : u \in Groups(time)}]
      /\ UNCHANGED <<tables, requests, history>>

AddInvoiceLine(i, line) == lines' = [lines EXCEPT ![i] = Append(@, line)]

GenerateLine(h, line) ==
  /\ req[h].at = "line"
  /\ line \in req[h].todo
  /\ Issued(req[h].invoice)
  /\ AddInvoiceLine(req[h].invoice, line)
  /\ req' = [req EXCEPT ![h].todo = @ \ {line}]
  /\ UNCHANGED <<row, status, requests, history>>

(* Variant: billable or not.                                               *)
MarkAnyTime(i, p) ==
  row' = [e \in Entries |->
    IF Exists(e) /\ row[e].project = p /\ row[e].invoice = None
    THEN [row[e] EXCEPT !.invoice = i] ELSE row[e]]

MarkProjectTimeInvoiced(i, p) ==
  row' = [e \in Entries |->
    IF e \in Unbilled(p) THEN [row[e] EXCEPT !.invoice = i] ELSE row[e]]

(* What is marked is what is unbilled now, whatever was read before.       *)
GenerateMarks(h) ==
  LET i == req[h].invoice
      p == req[h].project
  IN  /\ req[h].at = "line"
      /\ req[h].todo = {}
      /\ Issued(i)
      /\ MarkProjectTimeInvoiced(i, p)
      /\ billed' = [billed EXCEPT ![i] = {x.entry : x \in req[h].time}]
      /\ stale' = (stale \/ Time(p) # req[h].time \/ status[i] = "void")
      /\ Answer(h)
      /\ UNCHANGED <<status, lines, requests, amended, revived, raced, incident>>

(* The invoice was deleted meanwhile: the foreign keys refuse it.          *)
InvoiceGone(h) ==
  /\ req[h].at = "line"
  /\ ~Issued(req[h].invoice)
  /\ Answer(h)
  /\ UNCHANGED <<tables, requests, history>>

SetInvoiceStatus(i, s) ==
  /\ Issued(i)
  /\ status' = [status EXCEPT ![i] = s]
  /\ revived' = IF status[i] = "void" /\ s # "void" THEN revived \cup {i} ELSE revived
  /\ amended' = IF status[i] = "void" /\ s # "void" THEN amended \cup {i} ELSE amended

(* PATCH /invoices/{id}/status: from any status to any other, and for void *)
(* a second statement.                                                     *)
SetStatus(i, s) ==
  /\ Request
  /\ s # "void"
  /\ SetInvoiceStatus(i, s)
  /\ UNCHANGED <<row, lines, req, billed, raced, stale, incident>>

Void(h, i) ==
  /\ Begin(h, [Idle EXCEPT !.at = "release", !.invoice = i])
  /\ SetInvoiceStatus(i, "void")
  /\ UNCHANGED <<row, lines, billed, raced, stale, incident>>

(* Variant: what is no longer billable is overlooked.                      *)
ReleaseBillable(i) ==
  row' = [e \in Entries |->
    IF row[e].invoice = i /\ row[e].billable THEN [row[e] EXCEPT !.invoice = None] ELSE row[e]]

ReleaseInvoiceTime(i) ==
  row' = [e \in Entries |->
    IF row[e].invoice = i THEN [row[e] EXCEPT !.invoice = None] ELSE row[e]]

VoidReleases(h) ==
  /\ req[h].at = "release"
  /\ ReleaseInvoiceTime(req[h].invoice)
  /\ Answer(h)
  /\ UNCHANGED <<status, lines, requests, history>>

(* The lines go with the invoice, and its time is released.               *)
DeleteInvoice(i) ==
  /\ status' = [status EXCEPT ![i] = "deleted"]
  /\ lines' = [lines EXCEPT ![i] = <<>>]
  /\ ReleaseInvoiceTime(i)

(* DELETE /invoices/{id}                                                   *)
Delete(i) ==
  /\ Request
  /\ Issued(i)
  /\ DeleteInvoice(i)
  /\ UNCHANGED <<req, history>>

(* POST and DELETE /invoices/{id}/lines: any minutes.                      *)
AddLine(i, minutes) ==
  /\ Request
  /\ Issued(i)
  /\ AddInvoiceLine(i, [user |-> None, minutes |-> minutes])
  /\ UNCHANGED <<row, status, req, history>>

DeleteInvoiceLine(i, k) ==
  lines' = [lines EXCEPT ![i] = SubSeq(@, 1, k - 1) \o SubSeq(@, k + 1, Len(@))]

DeleteLine(i, k) ==
  /\ Request
  /\ k \in DOMAIN lines[i]
  /\ DeleteInvoiceLine(i, k)
  /\ amended' = IF lines[i][k].user # None THEN amended \cup {i} ELSE amended
  /\ UNCHANGED <<row, status, req, billed, revived, raced, stale, incident>>

(* A statement fails or the 30 s are over: the request ends where it is,   *)
(* with what it has written.                                               *)
Fail(h) ==
  /\ req[h] # Idle
  /\ Answer(h)
  /\ incident' = TRUE
  /\ UNCHANGED <<tables, requests, billed, amended, revived, raced, stale>>

-----------------------------------------------------------------------------
TrackTime ==
  LET Where == Projects \cup {None}
  IN  \/ \E h \in Handlers :
           \/ \E u \in Users, p \in Where, b \in BOOLEAN, ok \in BOOLEAN :
                StartReads(h, u, [project |-> p, billable |-> b], ok)
           \/ \E m \in Minutes : StopPrior(h, m)
           \/ \E e \in Entries : StartTimer(h, e)
      \/ \E e \in Entries, m \in Minutes :
           \/ Stop(e, m)
           \/ \E p \in Where, b \in BOOLEAN :
                \/ Edit(e, p, m, b)
                \/ \E u \in Users : Log(e, u, p, m, b)
      \/ \E e \in Entries : Remove(e)
      \/ \E S \in (SUBSET Entries) \ {{}}, p \in Where : MoveTask(S, p)

Invoicing ==
  \/ \E h \in Handlers :
       \/ \E p \in Projects : Generate(h, p)
       \/ UnbilledTimeByUser(h) \/ GenerateMarks(h) \/ InvoiceGone(h) \/ VoidReleases(h)
       \/ \E line \in req[h].todo : GenerateLine(h, line)
       \/ \E i \in Invoices : GenerateInvoice(h, i) \/ Void(h, i)
  \/ \E i \in Invoices :
       \/ Create(i) \/ Delete(i)
       \/ \E s \in Statuses : SetStatus(i, s)
       \/ \E m \in Minutes : AddLine(i, m)
       \/ \E k \in DOMAIN lines[i] : DeleteLine(i, k)

Next == TrackTime \/ Invoicing \/ \E h \in Handlers : Fail(h)

Spec == Init /\ [][Next]_vars

-----------------------------------------------------------------------------
(* "Stop any timer already running so there is only ever one"              *)
(* (time_entries.go:202): true of a user who never had two start requests  *)
(* served at a time, as long as no statement failed.                       *)
OneTimer ==
  ~incident => \A u \in Users \ raced : Cardinality(GetActiveTimer(u)) <= 1

(* The invoices a client is asked to pay.                                  *)
Standing == {i \in Invoices : Issued(i) /\ status[i] # "void"}

(* No entry is billed twice: the invoices made from its minutes that stand *)
(* are one at most.  Excepted are an invoice un-voided after its time was  *)
(* released (invoices.go:264-296), time marked that is not the time read   *)
(* (230, 253) and failed statements.                                       *)
TimeBilledOnce ==
  ~stale /\ ~incident =>
    \A e \in Entries, i, j \in Standing \ revived :
      e \in billed[i] /\ e \in billed[j] => i = j

Generating(i) == \E h \in Handlers : req[h].invoice = i /\ req[h].at # "release"

MarkedTime(i) == {TimeOf(e) : e \in {e \in Entries : row[e].invoice = i}}
LinesOf(u, s) == {k \in DOMAIN s : s[k].user = u}

(* The lines s charge user u's share of the time: one line with what its   *)
(* minutes add up to, as an int32; no line when they add up to none.       *)
Charges(s, u, time) ==
  LET n == MinutesOf(u, time)
  IN  IF n > 0 THEN \E k \in DOMAIN s : LinesOf(u, s) = {k} /\ s[k].minutes = ToInt32(n)
      ELSE LinesOf(u, s) = {}

(* The lines made for an invoice charge each user's time among what is     *)
(* marked as being on it, until the one or the other is changed by hand.   *)
(* Time that adds up to nothing or less, as edited minutes may, is marked  *)
(* all the same, with no line.                                             *)
LinesAccountForTime ==
  ~stale /\ ~incident =>
    \A i \in Standing \ amended, u \in Users :
      ~Generating(i) => Charges(lines[i], u, MarkedTime(i))

(* "Voiding an invoice frees its time entries to be billed again"          *)
(* (invoices.go:287), even those that became its own meanwhile.            *)
VoidFreesTime ==
  ~stale /\ ~incident =>
    \A i \in Invoices :
      status[i] = "void" /\ (\A h \in Handlers : req[h].invoice # i) =>
        \A e \in Entries : row[e].invoice # i

(* The time marked as being on an invoice follows what becomes of it: its  *)
(* lines charge it while it stands, and voided it has none.                *)
TimeFollowsInvoice == LinesAccountForTime /\ VoidFreesTime

(* The marks on the entries keep the promises of the ledger, whatever      *)
(* overlaps and fails.                                                     *)
L == INSTANCE Ledger WITH
       open   <- {i \in Invoices : Issued(i)},
       holder <- [e \in Entries |-> row[e].invoice]

ImplementsLedger == L!Spec
=============================================================================
