---------------------------- MODULE Billing_proofs ----------------------------
(***************************************************************************)
(* For every set of users, entries, invoices and handlers, and every       *)
(* number of requests: the entries keep the promises of the Ledger, no     *)
(* time is billed twice, the lines of an invoice charge each user's time   *)
(* marked as being on it, and a user who never had two start requests at a *)
(* time has one timer at most.                                             *)
(***************************************************************************)
EXTENDS Billing, FiniteSetTheorems, SequenceTheorems, TLAPS

USE BillingAssumption

(* A request has its fields, and those its next statement needs; what the  *)
(* lines to be made are like is left to TodoOK.                            *)
Shape(r) ==
  /\ DOMAIN r = {"at", "user", "prior", "new", "project", "invoice", "time", "todo"}
  /\ r.at \in Places
  /\ r.new \in [project : Projects \cup {None}, billable : BOOLEAN]
  /\ r.time \in SUBSET Logged
  /\ r.at \in {"stop", "start"} => r.user \in Users
  /\ r.at = "stop" => r.prior \in Entries
  /\ r.at \in {"create", "unbilled", "line"} => r.project \in Projects
  /\ r.at \in {"unbilled", "line", "release"} => r.invoice \in Invoices

TypeInv ==
  /\ row \in [Entries -> Entry]
  /\ status \in [Invoices -> Statuses \cup {"free", "deleted"}]
  /\ req = [h \in Handlers |-> req[h]]
  /\ \A h \in Handlers : Shape(req[h])
  /\ billed \in [Invoices -> SUBSET Entries]
  /\ requests \in 0 .. MaxRequests

LEMMA IdleShape == Shape(Idle)
BY DEF Shape, Idle, Places

LEMMA InitTypeInv == Init => TypeInv
<1>1. ASSUME Init PROVE row \in [Entries -> Entry]
  <2>1. NoEntry("free") \in Entry
    BY DEF NoEntry, Entry
  <2> QED
    BY <1>1, <2>1 DEF Init
<1>2. ASSUME Init PROVE req = [h \in Handlers |-> req[h]] /\ \A h \in Handlers : Shape(req[h])
  BY <1>2, IdleShape DEF Init
<1>3. ASSUME Init PROVE billed \in [Invoices -> SUBSET Entries] /\ requests \in 0 .. MaxRequests
  BY <1>3 DEF Init
<1>4. ASSUME Init PROVE status \in [Invoices -> Statuses \cup {"free", "deleted"}]
  BY <1>4 DEF Init
<1> QED
  BY <1>1, <1>2, <1>3, <1>4 DEF TypeInv

LEMMA TimerShape ==
  ASSUME NEW u \in Users, NEW at \in {"stop", "start"}, NEW prior, at = "stop" => prior \in Entries,
         NEW new \in [project : Projects \cup {None}, billable : BOOLEAN]
  PROVE  Shape([Idle EXCEPT !.at = at, !.user = u, !.prior = prior, !.new = new])
BY DEF Shape, Idle, Places

(* What a step makes of one request.                                       *)
LEMMA ReqStep ==
  ASSUME TypeInv, NEW h \in Handlers, NEW r, Shape(r), req' = [req EXCEPT ![h] = r]
  PROVE  /\ req' = [g \in Handlers |-> req'[g]]
         /\ \A g \in Handlers : Shape(req'[g])
BY DEF TypeInv

LEMMA AnswerStep ==
  ASSUME TypeInv, NEW h \in Handlers, Answer(h)
  PROVE  /\ req' = [g \in Handlers |-> req'[g]]
         /\ \A g \in Handlers : Shape(req'[g])
BY IdleShape, ReqStep DEF Answer

LEMMA Counted ==
  ASSUME TypeInv, Request
  PROVE  requests' \in 0 .. MaxRequests
BY DEF TypeInv, Request

(* What the statements make of the entries.                                *)
LEMMA StopType ==
  ASSUME TypeInv, NEW e \in Entries, NEW m \in Minutes, StopTimer(e, m)
  PROVE  row' \in [Entries -> Entry]
<1>1. row[e] \in Entry /\ row \in [Entries -> Entry]
  BY DEF TypeInv
<1>2. CASE row[e].is = "running"
  <2>1. [row[e] EXCEPT !.is = "ended", !.minutes = m] \in Entry
    BY <1>1 DEF Entry
  <2>2. row' = [row EXCEPT ![e] = [row[e] EXCEPT !.is = "ended", !.minutes = m]]
    BY <1>1, <1>2 DEF StopTimer, Entry
  <2> QED
    BY <1>1, <2>1, <2>2
<1>3. CASE row[e].is # "running"
  <2>1. row' = row
    BY <1>1, <1>3 DEF StopTimer, Entry
  <2> QED
    BY <1>1, <2>1
<1> QED
  BY <1>2, <1>3

LEMMA MarkType ==
  ASSUME TypeInv, NEW i \in Invoices, NEW p, MarkProjectTimeInvoiced(i, p)
  PROVE  row' \in [Entries -> Entry]
<1>1. \A e \in Entries : [row[e] EXCEPT !.invoice = i] \in Entry /\ row[e] \in Entry
  <2> SUFFICES ASSUME NEW e \in Entries
               PROVE  [row[e] EXCEPT !.invoice = i] \in Entry /\ row[e] \in Entry
    OBVIOUS
  <2>1. row[e] \in Entry
    BY DEF TypeInv
  <2> QED
    BY <2>1 DEF Entry
<1> QED
  BY <1>1 DEF MarkProjectTimeInvoiced

LEMMA ReleaseType ==
  ASSUME TypeInv, NEW i \in Invoices, ReleaseInvoiceTime(i)
  PROVE  row' \in [Entries -> Entry]
BY DEF TypeInv, ReleaseInvoiceTime, Entry

-----------------------------------------------------------------------------
LEMMA TimersTypeInv ==
  ASSUME TypeInv, TrackTime
  PROVE  TypeInv'
<1>1. ASSUME NEW h \in Handlers, NEW u \in Users, NEW p \in Projects \cup {None}, NEW b \in BOOLEAN,
             NEW ok \in BOOLEAN, StartReads(h, u, [project |-> p, billable |-> b], ok)
      PROVE  TypeInv'
  <2> DEFINE new == [project |-> p, billable |-> b]
  <2>1. PICK prior \in IF ok /\ GetActiveTimer(u) # {} THEN GetActiveTimer(u) ELSE {None} :
          Begin(h, [Idle EXCEPT !.at = IF prior = None THEN "start" ELSE "stop",
                                !.user = u, !.prior = prior, !.new = new])
    BY <1>1 DEF StartReads
  <2>2. prior # None => prior \in Entries
    BY <2>1 DEF GetActiveTimer
  <2>3. Shape([Idle EXCEPT !.at = IF prior = None THEN "start" ELSE "stop",
                           !.user = u, !.prior = prior, !.new = new])
    BY <2>2, TimerShape
  <2> HIDE DEF new
  <2>4. UNCHANGED <<tables, billed>>
    BY <1>1 DEF StartReads
  <2> QED
    BY <2>1, <2>3, <2>4, ReqStep, Counted DEF Begin, TypeInv, tables
<1>2. ASSUME NEW h \in Handlers, NEW m \in Minutes, StopPrior(h, m)
      PROVE  TypeInv'
  <2>1. Shape([req[h] EXCEPT !.at = "start"])
    BY <1>2 DEF TypeInv, StopPrior, Shape, Places
  <2>2. row' \in [Entries -> Entry]
    BY <1>2, StopType DEF StopPrior, TypeInv, Shape
  <2>3. req' = [req EXCEPT ![h] = [req[h] EXCEPT !.at = "start"]]
    BY <1>2 DEF StopPrior, TypeInv
  <2> QED
    BY <1>2, <2>1, <2>2, <2>3, ReqStep DEF StopPrior, TypeInv
<1>3. ASSUME NEW h \in Handlers, NEW e \in Entries, StartTimer(h, e)
      PROVE  TypeInv'
  <2>1. row' \in [Entries -> Entry]
    BY <1>3 DEF StartTimer, TypeInv, Shape, Entry
  <2> QED
    BY <1>3, <2>1, AnswerStep DEF StartTimer, TypeInv, history
<1>4. ASSUME NEW e \in Entries, NEW m \in Minutes, Stop(e, m)
      PROVE  TypeInv'
  BY <1>4, StopType, Counted DEF Stop, TypeInv
<1>5. ASSUME NEW e \in Entries, NEW m \in Minutes, NEW p \in Projects \cup {None}, NEW b \in BOOLEAN,
             Edit(e, p, m, b)
      PROVE  TypeInv'
  <2>0. row[e] \in Entry /\ row \in [Entries -> Entry]
    BY DEF TypeInv
  <2>1. [row[e] EXCEPT !.project = p, !.minutes = m, !.billable = b] \in Entry
    BY <2>0 DEF Entry
  <2>2. row' = [row EXCEPT ![e] = [row[e] EXCEPT !.project = p, !.minutes = m, !.billable = b]]
    BY <1>5, <2>0 DEF Edit, UpdateTimeEntry, Entry
  <2>3. row' \in [Entries -> Entry]
    BY <2>1, <2>2 DEF TypeInv
  <2> QED
    BY <1>5, <2>3, Counted DEF Edit, TypeInv
<1>6. ASSUME NEW e \in Entries, NEW u \in Users, NEW m \in Minutes, NEW p \in Projects \cup {None},
             NEW b \in BOOLEAN, Log(e, u, p, m, b)
      PROVE  TypeInv'
  <2>1. row' \in [Entries -> Entry]
    BY <1>6 DEF Log, CreateTimeEntry, TypeInv, Entry
  <2> QED
    BY <1>6, <2>1, Counted DEF Log, TypeInv, history
<1>7. ASSUME NEW e \in Entries, Remove(e)
      PROVE  TypeInv'
  <2>1. row' \in [Entries -> Entry]
    BY <1>7 DEF Remove, DeleteTimeEntry, NoEntry, TypeInv, Entry
  <2> QED
    BY <1>7, <2>1, Counted DEF Remove, TypeInv
<1>8. ASSUME NEW S \in SUBSET Entries, NEW p \in Projects \cup {None}, MoveTask(S, p)
      PROVE  TypeInv'
  <2>1. row' \in [Entries -> Entry]
    BY <1>8 DEF MoveTask, TypeInv, Entry
  <2> QED
    BY <1>8, <2>1, Counted DEF MoveTask, TypeInv, history
<1> QED
  <2>1. CASE \E h \in Handlers :
               \/ \E u \in Users, p \in Projects \cup {None}, b \in BOOLEAN, ok \in BOOLEAN :
                    StartReads(h, u, [project |-> p, billable |-> b], ok)
               \/ \E m \in Minutes : StopPrior(h, m)
               \/ \E e \in Entries : StartTimer(h, e)
    BY <2>1, <1>1, <1>2, <1>3
  <2>2. CASE \E e \in Entries, m \in Minutes :
               \/ Stop(e, m)
               \/ \E p \in Projects \cup {None}, b \in BOOLEAN :
                    \/ Edit(e, p, m, b)
                    \/ \E u \in Users : Log(e, u, p, m, b)
    BY <2>2, <1>4, <1>5, <1>6
  <2> QED
    BY <2>1, <2>2, <1>7, <1>8, Zenon DEF TrackTime

LEMMA InvoicingTypeInv ==
  ASSUME TypeInv, Invoicing
  PROVE  TypeInv'
<1>1. ASSUME NEW h \in Handlers, NEW p \in Projects, Generate(h, p)
      PROVE  TypeInv'
  <2>1. Shape([Idle EXCEPT !.at = "create", !.project = p])
    BY DEF Shape, Idle, Places
  <2> QED
    BY <1>1, <2>1, ReqStep, Counted DEF Generate, Begin, TypeInv, tables, history
<1>2. ASSUME NEW h \in Handlers, UnbilledTimeByUser(h)
      PROVE  TypeInv'
  <2>1. PICK lots : req' = [req EXCEPT ![h].at = "line", ![h].time = Time(req[h].project), ![h].todo = lots]
    BY <1>2 DEF UnbilledTimeByUser
  <2>2. Time(req[h].project) \in SUBSET Logged
    BY DEF TypeInv, Time, TimeOf, Logged, Unbilled, Entry
  <2>3. Shape([req[h] EXCEPT !.at = "line", !.time = Time(req[h].project), !.todo = lots])
    BY <1>2, <2>2 DEF UnbilledTimeByUser, TypeInv, Shape, Places
  <2>4. req' = [req EXCEPT ![h] = [req[h] EXCEPT !.at = "line", !.time = Time(req[h].project), !.todo = lots]]
    BY <2>1 DEF TypeInv
  <2> QED
    BY <1>2, <2>3, <2>4, ReqStep DEF UnbilledTimeByUser, TypeInv, tables, history
<1>3. ASSUME NEW h \in Handlers, GenerateMarks(h)
      PROVE  TypeInv'
  <2>1. req[h].invoice \in Invoices /\ req[h].time \in SUBSET Logged
    BY <1>3 DEF GenerateMarks, TypeInv, Shape
  <2>2. MarkProjectTimeInvoiced(req[h].invoice, req[h].project)
    BY <1>3 DEF GenerateMarks
  <2>4. row' \in [Entries -> Entry]
    BY <2>1, <2>2, MarkType
  <2>3. billed' \in [Invoices -> SUBSET Entries]
    BY <1>3, <2>1 DEF GenerateMarks, TypeInv, Logged
  <2> QED
    BY <1>3, <2>3, <2>4, AnswerStep DEF GenerateMarks, TypeInv
<1>4. ASSUME NEW h \in Handlers, InvoiceGone(h)
      PROVE  TypeInv'
  BY <1>4, AnswerStep DEF InvoiceGone, TypeInv, tables, history
<1>5. ASSUME NEW h \in Handlers, VoidReleases(h)
      PROVE  TypeInv'
  <2>1. row' \in [Entries -> Entry]
    BY <1>5, ReleaseType DEF VoidReleases, TypeInv, Shape
  <2> QED
    BY <1>5, <2>1, AnswerStep DEF VoidReleases, TypeInv, history
<1>6. ASSUME NEW h \in Handlers, NEW line \in req[h].todo, GenerateLine(h, line)
      PROVE  TypeInv'
  <2>1. Shape([req[h] EXCEPT !.todo = @ \ {line}])
    BY <1>6 DEF GenerateLine, TypeInv, Shape
  <2>2. req' = [req EXCEPT ![h] = [req[h] EXCEPT !.todo = @ \ {line}]]
    BY <1>6 DEF GenerateLine, TypeInv
  <2> QED
    BY <1>6, <2>1, <2>2, ReqStep DEF GenerateLine, TypeInv, history
<1>7. ASSUME NEW h \in Handlers, NEW i \in Invoices, GenerateInvoice(h, i)
      PROVE  TypeInv'
  <2>1. Shape([req[h] EXCEPT !.at = "unbilled", !.invoice = i])
    BY <1>7 DEF GenerateInvoice, TypeInv, Shape, Places
  <2>2. req' = [req EXCEPT ![h] = [req[h] EXCEPT !.at = "unbilled", !.invoice = i]]
    BY <1>7 DEF GenerateInvoice, TypeInv
  <2> QED
    BY <1>7, <2>1, <2>2, ReqStep DEF GenerateInvoice, CreateInvoice, TypeInv, Statuses, history
<1>8. ASSUME NEW h \in Handlers, NEW i \in Invoices, Void(h, i)
      PROVE  TypeInv'
  <2>1. Shape([Idle EXCEPT !.at = "release", !.invoice = i])
    BY DEF Shape, Idle, Places
  <2> QED
    BY <1>8, <2>1, ReqStep, Counted DEF Void, Begin, SetInvoiceStatus, TypeInv, Statuses
<1>9. ASSUME NEW i \in Invoices, Create(i)
      PROVE  TypeInv'
  BY <1>9, Counted DEF Create, CreateInvoice, TypeInv, Statuses, history
<1>10. ASSUME NEW i \in Invoices, Delete(i)
      PROVE  TypeInv'
  <2>1. row' \in [Entries -> Entry]
    BY <1>10, ReleaseType DEF Delete, DeleteInvoice
  <2> QED
    BY <1>10, <2>1, Counted DEF Delete, DeleteInvoice, TypeInv, history
<1>11. ASSUME NEW i \in Invoices, NEW s \in Statuses, SetStatus(i, s)
      PROVE  TypeInv'
  BY <1>11, Counted DEF SetStatus, SetInvoiceStatus, TypeInv
<1>12. ASSUME NEW i \in Invoices, NEW m \in Minutes, AddLine(i, m)
      PROVE  TypeInv'
  BY <1>12, Counted DEF AddLine, TypeInv, history
<1>13. ASSUME NEW i \in Invoices, NEW k \in DOMAIN lines[i], DeleteLine(i, k)
      PROVE  TypeInv'
  BY <1>13, Counted DEF DeleteLine, TypeInv
<1>14. CASE \E h \in Handlers :
              \/ \E p \in Projects : Generate(h, p)
              \/ UnbilledTimeByUser(h) \/ GenerateMarks(h) \/ InvoiceGone(h) \/ VoidReleases(h)
              \/ \E line \in req[h].todo : GenerateLine(h, line)
              \/ \E i \in Invoices : GenerateInvoice(h, i) \/ Void(h, i)
  BY <1>1, <1>2, <1>3, <1>4, <1>5, <1>6, <1>7, <1>8, <1>14
<1>15. CASE \E i \in Invoices :
              \/ Create(i) \/ Delete(i)
              \/ \E s \in Statuses : SetStatus(i, s)
              \/ \E m \in Minutes : AddLine(i, m)
              \/ \E k \in DOMAIN lines[i] : DeleteLine(i, k)
  BY <1>9, <1>10, <1>11, <1>12, <1>13, <1>15
<1> QED
  BY <1>14, <1>15, Zenon DEF Invoicing

LEMMA FailTypeInv ==
  ASSUME TypeInv, NEW h \in Handlers, Fail(h)
  PROVE  TypeInv'
BY AnswerStep DEF Fail, TypeInv, tables

(* Entries and requests have their shape (time_entries.go, invoices.go).   *)
THEOREM Typed == Spec => []TypeInv
<1>1. TypeInv /\ [Next]_vars => TypeInv'
  <2>1. ASSUME TypeInv, UNCHANGED vars PROVE TypeInv'
    BY <2>1 DEF vars, tables, history, TypeInv
  <2> QED
    BY <2>1, TimersTypeInv, InvoicingTypeInv, FailTypeInv DEF Next
<1> QED
  BY <1>1, InitTypeInv, PTL DEF Spec

-----------------------------------------------------------------------------
(* The Ledger.  An id without a row is on no invoice.                      *)
Clean == \A e \in Entries : row[e].is \in {"free", "deleted"} => row[e].invoice = None

Open   == {i \in Invoices : Issued(i)}
Holder == [e \in Entries |-> row[e].invoice]

LEMMA SameHolder ==
  ASSUME \A e \in Entries : row'[e].invoice = row[e].invoice
  PROVE  Holder' = Holder
BY DEF Holder

LEMMA StopKeeps ==
  ASSUME TypeInv, Clean, NEW e \in Entries, NEW m \in Minutes, StopTimer(e, m)
  PROVE  Clean' /\ Holder' = Holder
<1>1. \A d \in Entries : row'[d].invoice = row[d].invoice
  BY DEF TypeInv, StopTimer, Entry
<1>2. \A d \in Entries : row'[d].is \in {"free", "deleted"} => row[d].is \in {"free", "deleted"}
  BY DEF TypeInv, StopTimer, Entry
<1> QED
  BY <1>1, <1>2, SameHolder DEF Clean

LEMMA ReleaseFrees ==
  ASSUME TypeInv, Clean, NEW i \in Invoices, ReleaseInvoiceTime(i)
  PROVE  Clean' /\ Holder' = [e \in Entries |-> IF Holder[e] = i THEN None ELSE Holder[e]]
<1>1. \A e \in Entries : row'[e] = IF row[e].invoice = i THEN [row[e] EXCEPT !.invoice = None] ELSE row[e]
  BY DEF ReleaseInvoiceTime
<1>2. \A e \in Entries : /\ row'[e].invoice = IF row[e].invoice = i THEN None ELSE row[e].invoice
                        /\ row'[e].is = row[e].is
  BY <1>1 DEF TypeInv, Entry
<1> QED
  BY <1>2 DEF Clean, Holder

LEMMA TimersKeepLedger ==
  ASSUME TypeInv, Clean, TrackTime
  PROVE  /\ Clean'
         /\ Open' = Open
         /\ Holder' = Holder \/ \E e \in Entries : Holder' = [Holder EXCEPT ![e] = None]
<1> DEFINE Keeps == /\ Clean'
                    /\ Open' = Open
                    /\ Holder' = Holder \/ \E e \in Entries : Holder' = [Holder EXCEPT ![e] = None]
<1>0. ASSUME UNCHANGED row PROVE Clean' /\ Holder' = Holder
  BY <1>0 DEF Clean, Holder
<1>00. ASSUME UNCHANGED status PROVE Open' = Open
  BY <1>00 DEF Open, Issued
<1>1. ASSUME NEW h \in Handlers, NEW u \in Users, NEW p \in Projects \cup {None}, NEW b \in BOOLEAN,
             NEW ok \in BOOLEAN, StartReads(h, u, [project |-> p, billable |-> b], ok)
      PROVE  Keeps
  BY <1>1, <1>0, <1>00 DEF StartReads, tables
<1>2. ASSUME NEW h \in Handlers, NEW m \in Minutes, StopPrior(h, m)
      PROVE  Keeps
  <2>1. req[h].prior \in Entries
    BY <1>2 DEF StopPrior, TypeInv, Shape
  <2> QED
    BY <1>2, <2>1, <1>0, <1>00, StopKeeps DEF StopPrior
<1>3. ASSUME NEW h \in Handlers, NEW e \in Entries, StartTimer(h, e)
      PROVE  Keeps
  <2>1. \A d \in Entries : row'[d].invoice = row[d].invoice
    BY <1>3 DEF StartTimer, Clean, TypeInv
  <2>2. Clean'
    BY <1>3 DEF StartTimer, Clean, TypeInv
  <2> QED
    BY <1>3, <2>1, <2>2, <1>00, SameHolder DEF StartTimer
<1>4. ASSUME NEW e \in Entries, NEW m \in Minutes, Stop(e, m)
      PROVE  Keeps
  BY <1>4, <1>00, StopKeeps DEF Stop
<1>5. ASSUME NEW e \in Entries, NEW m \in Minutes, NEW p \in Projects \cup {None}, NEW b \in BOOLEAN,
             Edit(e, p, m, b)
      PROVE  Keeps
  <2>1. \A d \in Entries : row'[d].invoice = row[d].invoice /\ row'[d].is = row[d].is
    BY <1>5 DEF Edit, UpdateTimeEntry, TypeInv, Entry
  <2>2. Clean'
    BY <2>1 DEF Clean
  <2> QED
    BY <1>5, <2>1, <2>2, <1>00, SameHolder DEF Edit
<1>6. ASSUME NEW e \in Entries, NEW u \in Users, NEW m \in Minutes, NEW p \in Projects \cup {None},
             NEW b \in BOOLEAN, Log(e, u, p, m, b)
      PROVE  Keeps
  <2>1. \A d \in Entries : row'[d].invoice = row[d].invoice
    BY <1>6 DEF Log, CreateTimeEntry, Clean, TypeInv
  <2>2. Clean'
    BY <1>6 DEF Log, CreateTimeEntry, Clean, TypeInv
  <2> QED
    BY <1>6, <2>1, <2>2, <1>00, SameHolder DEF Log
<1>7. ASSUME NEW e \in Entries, Remove(e)
      PROVE  Keeps
  <2>1. \A d \in Entries : row'[d].invoice = IF d = e THEN None ELSE row[d].invoice
    BY <1>7 DEF Remove, DeleteTimeEntry, NoEntry, TypeInv
  <2>2. Holder' = [Holder EXCEPT ![e] = None]
    BY <2>1 DEF Holder
  <2>3. Clean'
    BY <1>7 DEF Remove, DeleteTimeEntry, NoEntry, Clean, TypeInv
  <2> QED
    BY <1>7, <2>2, <2>3, <1>00 DEF Remove
<1>8. ASSUME NEW S \in SUBSET Entries, NEW p \in Projects \cup {None}, MoveTask(S, p)
      PROVE  Keeps
  <2>1. \A d \in Entries : row'[d].invoice = row[d].invoice /\ row'[d].is = row[d].is
    BY <1>8 DEF MoveTask, TypeInv, Entry
  <2>2. Clean'
    BY <2>1 DEF Clean
  <2> QED
    BY <1>8, <2>1, <2>2, <1>00, SameHolder DEF MoveTask
<1> HIDE DEF Keeps
<1>9. Keeps
  <2>1. CASE \E h \in Handlers :
               \/ \E u \in Users, p \in Projects \cup {None}, b \in BOOLEAN, ok \in BOOLEAN :
                    StartReads(h, u, [project |-> p, billable |-> b], ok)
               \/ \E m \in Minutes : StopPrior(h, m)
               \/ \E e \in Entries : StartTimer(h, e)
    BY <2>1, <1>1, <1>2, <1>3
  <2>2. CASE \E e \in Entries, m \in Minutes :
               \/ Stop(e, m)
               \/ \E p \in Projects \cup {None}, b \in BOOLEAN :
                    \/ Edit(e, p, m, b)
                    \/ \E u \in Users : Log(e, u, p, m, b)
    BY <2>2, <1>4, <1>5, <1>6
  <2> QED
    BY <2>1, <2>2, <1>7, <1>8, Zenon DEF TrackTime
<1> QED
  BY <1>9 DEF Keeps

(* What a step of Invoicing is in the Ledger.                              *)
LedgerStep ==
  \/ UNCHANGED <<Open, Holder>>
  \/ \E i \in Invoices :
       \/ Open' = Open \cup {i} /\ UNCHANGED Holder
       \/ /\ Open' = Open \ {i} \/ Open' = Open
          /\ Holder' = [e \in Entries |-> IF Holder[e] = i THEN None ELSE Holder[e]]
       \/ /\ i \in Open
          /\ Open' = Open
          /\ \E S \in SUBSET Entries :
               /\ \A e \in S : Holder[e] = None
               /\ Holder' = [e \in Entries |-> IF e \in S THEN i ELSE Holder[e]]

LEMMA InvoicingKeepsLedger ==
  ASSUME TypeInv, Clean, Invoicing
  PROVE  Clean' /\ LedgerStep
<1> DEFINE Keeps == Clean' /\ LedgerStep
<1>0. ASSUME UNCHANGED row PROVE Clean' /\ Holder' = Holder
  BY <1>0 DEF Clean, Holder
<1>00. ASSUME UNCHANGED status PROVE Open' = Open
  BY <1>00 DEF Open, Issued
<1>000. ASSUME UNCHANGED <<row, status>> PROVE Keeps
  BY <1>0, <1>00, <1>000 DEF LedgerStep
<1>1. ASSUME NEW h \in Handlers, NEW i \in Invoices, GenerateInvoice(h, i)
      PROVE  Keeps
  <2>1. Open' = Open \cup {i}
    BY <1>1 DEF GenerateInvoice, CreateInvoice, Open, Issued, Statuses, TypeInv
  <2> QED
    BY <1>1, <2>1, <1>0 DEF GenerateInvoice, LedgerStep
<1>2. ASSUME NEW i \in Invoices, Create(i)
      PROVE  Keeps
  <2>1. Open' = Open \cup {i}
    BY <1>2 DEF Create, CreateInvoice, Open, Issued, Statuses, TypeInv
  <2> QED
    BY <1>2, <2>1, <1>0 DEF Create, LedgerStep
<1>3. ASSUME NEW h \in Handlers, GenerateMarks(h)
      PROVE  Keeps
  <2> DEFINE i == req[h].invoice
             S == Unbilled(req[h].project)
  <2>1. i \in Invoices /\ S \in SUBSET Entries
    BY <1>3 DEF GenerateMarks, TypeInv, Shape, Unbilled
  <2>2. \A e \in Entries : /\ row'[e].invoice = IF e \in S THEN i ELSE row[e].invoice
                          /\ row'[e].is = row[e].is
    BY <1>3 DEF GenerateMarks, MarkProjectTimeInvoiced, TypeInv, Entry
  <2>3. Holder' = [e \in Entries |-> IF e \in S THEN i ELSE Holder[e]]
    BY <2>2 DEF Holder
  <2>4. \A e \in S : Holder[e] = None /\ row[e].is \notin {"free", "deleted"}
    BY DEF Holder, Unbilled, Exists
  <2>5. Clean'
    BY <2>2, <2>4 DEF Clean
  <2>6. i \in Open /\ Open' = Open
    BY <1>3, <1>00, <2>1 DEF GenerateMarks, Open
  <2> HIDE DEF i, S
  <2> QED
    BY <2>1, <2>3, <2>4, <2>5, <2>6 DEF LedgerStep
<1>4. ASSUME NEW h \in Handlers, VoidReleases(h)
      PROVE  Keeps
  <2>1. req[h].invoice \in Invoices
    BY <1>4 DEF VoidReleases, TypeInv, Shape
  <2>2. Open' = Open /\ ReleaseInvoiceTime(req[h].invoice)
    BY <1>4, <1>00 DEF VoidReleases
  <2> QED
    BY <2>1, <2>2, ReleaseFrees DEF LedgerStep
<1>5. ASSUME NEW i \in Invoices, Delete(i)
      PROVE  Keeps
  <2>1. Open' = Open \ {i}
    BY <1>5 DEF Delete, DeleteInvoice, Open, Issued, Statuses, TypeInv
  <2>2. ReleaseInvoiceTime(i)
    BY <1>5 DEF Delete, DeleteInvoice
  <2> QED
    BY <2>1, <2>2, ReleaseFrees DEF LedgerStep
<1>6. ASSUME NEW i \in Invoices, NEW s \in Statuses, SetInvoiceStatus(i, s), UNCHANGED row
      PROVE  Keeps
  <2>1. Open' = Open
    BY <1>6 DEF SetInvoiceStatus, Open, Issued, TypeInv
  <2> QED
    BY <1>6, <2>1, <1>0 DEF LedgerStep
<1>7. ASSUME NEW i \in Invoices, NEW s \in Statuses, SetStatus(i, s)
      PROVE  Keeps
  BY <1>6, <1>7 DEF SetStatus
<1>8. ASSUME NEW h \in Handlers, NEW i \in Invoices, Void(h, i)
      PROVE  Keeps
  BY <1>6, <1>8 DEF Void, Statuses
<1>9. ASSUME NEW h \in Handlers,
             \/ \E p \in Projects : Generate(h, p)
             \/ UnbilledTimeByUser(h) \/ InvoiceGone(h)
             \/ \E line \in req[h].todo : GenerateLine(h, line)
      PROVE  Keeps
  BY <1>9, <1>000 DEF Generate, UnbilledTimeByUser, InvoiceGone, GenerateLine, tables
<1>10. ASSUME NEW i \in Invoices,
              \/ \E m \in Minutes : AddLine(i, m)
              \/ \E k \in DOMAIN lines[i] : DeleteLine(i, k)
      PROVE  Keeps
  BY <1>10, <1>000 DEF AddLine, DeleteLine
<1> HIDE DEF Keeps
<1>11. Keeps
  <2>1. CASE \E h \in Handlers :
              \/ \E p \in Projects : Generate(h, p)
              \/ UnbilledTimeByUser(h) \/ GenerateMarks(h) \/ InvoiceGone(h) \/ VoidReleases(h)
              \/ \E line \in req[h].todo : GenerateLine(h, line)
              \/ \E i \in Invoices : GenerateInvoice(h, i) \/ Void(h, i)
    BY <2>1, <1>1, <1>3, <1>4, <1>8, <1>9
  <2>2. CASE \E i \in Invoices :
              \/ Create(i) \/ Delete(i)
              \/ \E s \in Statuses : SetStatus(i, s)
              \/ \E m \in Minutes : AddLine(i, m)
              \/ \E k \in DOMAIN lines[i] : DeleteLine(i, k)
    BY <2>2, <1>2, <1>5, <1>7, <1>10
  <2> QED
    BY <2>1, <2>2, Zenon DEF Invoicing
<1> QED
  BY <1>11 DEF Keeps

LEMMA AlwaysClean == Spec => []Clean
<1>1. Init => Clean
  BY DEF Init, NoEntry, Clean
<1>2. TypeInv /\ Clean /\ [Next]_vars => Clean'
  <2>1. ASSUME Clean, UNCHANGED row PROVE Clean'
    BY <2>1 DEF Clean
  <2> QED
    BY <2>1, TimersKeepLedger, InvoicingKeepsLedger DEF Next, Fail, vars, tables
<1> QED
  BY <1>1, <1>2, Typed, PTL DEF Spec

(* Whatever overlaps and fails, an entry is marked only while it is on no  *)
(* invoice, for an invoice that exists, and what frees the time of an      *)
(* invoice frees all of it (invoices.go:230-309).                          *)
THEOREM LedgerKept == Spec => ImplementsLedger
<1>1. Init => Clean /\ Open = {} /\ Holder = [e \in Entries |-> None]
  <2>1. ASSUME Init, NEW e \in Entries PROVE row[e].invoice = None
    BY <2>1 DEF Init, NoEntry
  <2> QED
    BY <2>1 DEF Init, Clean, Open, Holder, Issued, Statuses
<1>2. ASSUME TypeInv, Clean, [Next]_vars
      PROVE  Clean' /\ (LedgerStep \/ \E e \in Entries : Open' = Open /\ Holder' = [Holder EXCEPT ![e] = None])
  <2>1. CASE UNCHANGED <<row, status>>
    BY <1>2, <2>1 DEF LedgerStep, Clean, Open, Holder, Issued
  <2>2. CASE TrackTime
    BY <1>2, <2>2, TimersKeepLedger DEF LedgerStep
  <2>3. CASE Invoicing
    BY <1>2, <2>3, InvoicingKeepsLedger
  <2> QED
    BY <1>2, <2>1, <2>2, <2>3 DEF Next, Fail, vars, tables
<1>3. Init => L!Init
  BY <1>1 DEF L!Init, Open, Holder
<1>4. TypeInv /\ Clean /\ [Next]_vars => [L!Next]_<<Open, Holder>>
  BY <1>2 DEF L!Next, L!Issue, L!Bill, L!Release, L!Withdraw, L!Forget, L!Freed, LedgerStep, Open, Holder
<1>5. Spec => [](TypeInv /\ Clean)
  BY AlwaysClean, Typed, PTL
<1> QED
  BY <1>3, <1>4, <1>5, PTL DEF Spec, ImplementsLedger, L!Spec, Open, Holder

-----------------------------------------------------------------------------
(* One timer.  A user served by one start at a time has no timer once the  *)
(* start is past its stop, and before it none but the one to be stopped.   *)
Serves(h, u) == req[h].at \in {"stop", "start"} /\ req[h].user = u

TimerInv ==
  ~incident =>
    \A u \in Users \ raced :
      /\ \A g, h \in Handlers : Serves(g, u) /\ Serves(h, u) => g = h
      /\ \A h \in Handlers :
           /\ Serves(h, u) /\ req[h].at = "start" => GetActiveTimer(u) = {}
           /\ Serves(h, u) /\ req[h].at = "stop" => GetActiveTimer(u) \subseteq {req[h].prior}
      /\ \A d, e \in GetActiveTimer(u) : d = e

(* A step that starts no timer and serves no start.                        *)
LEMMA NoNewTimer ==
  ASSUME TimerInv,
         incident => incident', raced \subseteq raced',
         \A e \in Entries : row'[e].is = "running" =>
                              row[e].is = "running" /\ row'[e].user = row[e].user,
         \A h \in Handlers : req'[h].at \in {"stop", "start"} => req'[h] = req[h]
  PROVE  TimerInv'
<1>1. \A u \in Users : GetActiveTimer(u)' \subseteq GetActiveTimer(u)
  BY DEF GetActiveTimer
<1>2. \A h \in Handlers, u \in Users : Serves(h, u)' => Serves(h, u) /\ req'[h] = req[h]
  BY DEF Serves
<1> HIDE DEF GetActiveTimer
<1> SUFFICES ASSUME ~incident', NEW u \in Users \ raced'
             PROVE  /\ \A g, h \in Handlers : Serves(g, u)' /\ Serves(h, u)' => g = h
                    /\ \A h \in Handlers :
                         /\ Serves(h, u)' /\ req'[h].at = "start" => GetActiveTimer(u)' = {}
                         /\ Serves(h, u)' /\ req'[h].at = "stop" =>
                              GetActiveTimer(u)' \subseteq {req'[h].prior}
                    /\ \A d, e \in GetActiveTimer(u)' : d = e
  BY DEF TimerInv
<1>3. ~incident /\ u \in Users \ raced
  OBVIOUS
<1>4. \A g, h \in Handlers : Serves(g, u)' /\ Serves(h, u)' => g = h
  BY <1>2, <1>3 DEF TimerInv
<1>5. ASSUME NEW h \in Handlers, Serves(h, u)', req'[h].at = "start" PROVE GetActiveTimer(u)' = {}
  BY <1>1, <1>2, <1>3, <1>5 DEF TimerInv
<1>6. ASSUME NEW h \in Handlers, Serves(h, u)', req'[h].at = "stop"
      PROVE  GetActiveTimer(u)' \subseteq {req'[h].prior}
  BY <1>1, <1>2, <1>3, <1>6 DEF TimerInv
<1>7. \A d, e \in GetActiveTimer(u)' : d = e
  BY <1>1, <1>3 DEF TimerInv
<1> QED
  BY <1>4, <1>5, <1>6, <1>7

LEMMA TimersTimerInv ==
  ASSUME TypeInv, TimerInv, TrackTime
  PROVE  TimerInv'
<1>1. ASSUME NEW h \in Handlers, NEW u \in Users, NEW p \in Projects \cup {None}, NEW b \in BOOLEAN,
             NEW ok \in BOOLEAN, StartReads(h, u, [project |-> p, billable |-> b], ok)
      PROVE  TimerInv'
  <2> DEFINE new == [project |-> p, billable |-> b]
  <2>1. PICK prior \in IF ok /\ GetActiveTimer(u) # {} THEN GetActiveTimer(u) ELSE {None} :
          Begin(h, [Idle EXCEPT !.at = IF prior = None THEN "start" ELSE "stop",
                                !.user = u, !.prior = prior, !.new = new])
    BY <1>1 DEF StartReads
  <2>2. /\ row' = row
        /\ raced' = IF \E g \in Handlers : Serves(g, u) THEN raced \cup {u} ELSE raced
        /\ incident' = (incident \/ ~ok)
    BY <1>1 DEF StartReads, tables, Serves
  <2> SUFFICES ASSUME ~incident', NEW v \in Users \ raced'
               PROVE  /\ \A f, g \in Handlers : Serves(f, v)' /\ Serves(g, v)' => f = g
                      /\ \A g \in Handlers :
                           /\ Serves(g, v)' /\ req'[g].at = "start" => GetActiveTimer(v)' = {}
                           /\ Serves(g, v)' /\ req'[g].at = "stop" =>
                                GetActiveTimer(v)' \subseteq {req'[g].prior}
                      /\ \A d, e \in GetActiveTimer(v)' : d = e
    BY DEF TimerInv
  <2>3. ~incident /\ ok /\ v \in Users \ raced /\ (v = u => \A g \in Handlers : ~Serves(g, u))
    BY <2>2
  <2>4. GetActiveTimer(v)' = GetActiveTimer(v)
    BY <2>2 DEF GetActiveTimer
  <2>5. /\ \A g \in Handlers \ {h} : req'[g] = req[g]
        /\ req'[h].at = IF prior = None THEN "start" ELSE "stop"
        /\ req'[h].user = u
        /\ req'[h].prior = prior
    BY <2>1 DEF Begin, TypeInv, Idle
  <2>6. \A g \in Handlers \ {h} : Serves(g, v)' <=> Serves(g, v)
    BY <2>5 DEF Serves
  <2>7. Serves(h, v)' <=> v = u
    BY <2>5 DEF Serves
  <2>8. \A d, e \in GetActiveTimer(v) : d = e
    BY <2>3 DEF TimerInv
  <2>9. CASE v = u
    <3>1. GetActiveTimer(u) \subseteq {prior} /\ (prior = None => GetActiveTimer(u) = {})
      <4>1. None \notin GetActiveTimer(u)
        BY DEF GetActiveTimer
      <4> QED
        BY <4>1, <2>1, <2>3, <2>8, <2>9
    <3> QED
      BY <3>1, <2>3, <2>4, <2>5, <2>6, <2>8, <2>9
  <2>10. CASE v # u
    <3>1. \A g \in Handlers : Serves(g, v)' => g # h /\ Serves(g, v) /\ req'[g] = req[g]
      BY <2>5, <2>6, <2>7, <2>10
    <3> QED
      BY <3>1, <2>3, <2>4 DEF TimerInv
  <2> QED
    BY <2>9, <2>10
<1>2. ASSUME NEW h \in Handlers, NEW m \in Minutes, StopPrior(h, m)
      PROVE  TimerInv'
  <2> DEFINE e == req[h].prior
  <2>0. e \in Entries /\ req[h].user \in Users
    BY <1>2 DEF StopPrior, TypeInv, Shape
  <2> SUFFICES ASSUME ~incident', NEW v \in Users \ raced'
               PROVE  /\ \A f, g \in Handlers : Serves(f, v)' /\ Serves(g, v)' => f = g
                      /\ \A g \in Handlers :
                           /\ Serves(g, v)' /\ req'[g].at = "start" => GetActiveTimer(v)' = {}
                           /\ Serves(g, v)' /\ req'[g].at = "stop" =>
                                GetActiveTimer(v)' \subseteq {req'[g].prior}
                      /\ \A c, d \in GetActiveTimer(v)' : c = d
    BY DEF TimerInv
  <2>1. StopTimer(e, m) /\ ~incident /\ raced' = raced
    BY <1>2 DEF StopPrior
  <2>2. \A d \in Entries : row'[d].is = "running" <=> row[d].is = "running" /\ d # e
    BY <2>0, <2>1 DEF StopTimer, TypeInv, Entry
  <2>3. \A d \in Entries : row'[d].user = row[d].user
    BY <2>0, <2>1 DEF StopTimer, TypeInv, Entry
  <2>4. GetActiveTimer(v)' = GetActiveTimer(v) \ {e}
    BY <2>2, <2>3 DEF GetActiveTimer
  <2>5. /\ \A g \in Handlers \ {h} : req'[g] = req[g]
        /\ req'[h].at = "start" /\ req'[h].user = req[h].user /\ req[h].at = "stop"
    BY <1>2 DEF StopPrior, TypeInv, Shape
  <2>6. \A g \in Handlers : Serves(g, v)' <=> Serves(g, v)
    BY <2>5 DEF Serves
  <2> HIDE DEF e
  <2>7. \A f, g \in Handlers : Serves(f, v) /\ Serves(g, v) => f = g
    BY <2>1 DEF TimerInv
  <2>8. \A c, d \in GetActiveTimer(v) : c = d
    BY <2>1 DEF TimerInv
  <2>9. ASSUME NEW g \in Handlers, Serves(g, v)'
        PROVE  /\ req'[g].at = "start" => GetActiveTimer(v)' = {}
               /\ req'[g].at = "stop" => GetActiveTimer(v)' \subseteq {req'[g].prior}
    <3>1. CASE g = h
      <4>1. GetActiveTimer(v) \subseteq {e}
        BY <2>1, <2>5, <2>6, <2>9, <3>1 DEF TimerInv, e
      <4> QED
        BY <4>1, <2>4, <2>5, <3>1
    <3>2. CASE g # h
      BY <2>1, <2>4, <2>5, <2>6, <2>9, <3>2 DEF TimerInv
    <3> QED
      BY <3>1, <3>2
  <2> QED
    BY <2>4, <2>6, <2>7, <2>8, <2>9
<1>3. ASSUME NEW h \in Handlers, NEW e \in Entries, StartTimer(h, e)
      PROVE  TimerInv'
  <2> DEFINE u == req[h].user
  <2>0. u \in Users /\ Serves(h, u) /\ req[h].at = "start"
    BY <1>3 DEF StartTimer, TypeInv, Shape, Serves
  <2>1. incident' = incident /\ raced' = raced
    BY <1>3 DEF StartTimer, history
  <2>2. /\ \A d \in Entries \ {e} : row'[d] = row[d]
        /\ row'[e].user = u
        /\ row[e].is # "running"
    BY <1>3 DEF StartTimer, TypeInv
  <2>3. \A v \in Users : GetActiveTimer(v)' \subseteq
                            IF v = u THEN GetActiveTimer(v) \cup {e} ELSE GetActiveTimer(v)
    BY <2>2 DEF GetActiveTimer
  <2>4. /\ \A g \in Handlers \ {h} : req'[g] = req[g]
        /\ req'[h].at = "idle"
    BY <1>3 DEF StartTimer, Answer, TypeInv, Idle
  <2>5. \A v \in Users, g \in Handlers : Serves(g, v)' => g # h /\ Serves(g, v) /\ req'[g] = req[g]
    BY <2>4 DEF Serves
  <2> HIDE DEF u
  <2> SUFFICES ASSUME ~incident', NEW v \in Users \ raced'
               PROVE  /\ \A f, g \in Handlers : Serves(f, v)' /\ Serves(g, v)' => f = g
                      /\ \A g \in Handlers :
                           /\ Serves(g, v)' /\ req'[g].at = "start" => GetActiveTimer(v)' = {}
                           /\ Serves(g, v)' /\ req'[g].at = "stop" =>
                                GetActiveTimer(v)' \subseteq {req'[g].prior}
                      /\ \A c, d \in GetActiveTimer(v)' : c = d
    BY DEF TimerInv
  <2>6. /\ \A f, g \in Handlers : Serves(f, v) /\ Serves(g, v) => f = g
        /\ \A g \in Handlers :
             /\ Serves(g, v) /\ req[g].at = "start" => GetActiveTimer(v) = {}
             /\ Serves(g, v) /\ req[g].at = "stop" => GetActiveTimer(v) \subseteq {req[g].prior}
        /\ \A c, d \in GetActiveTimer(v) : c = d
    BY <2>1 DEF TimerInv
  <2>7. CASE v = u
    <3>1. \A g \in Handlers : ~Serves(g, v)'
      BY <2>0, <2>5, <2>6, <2>7
    <3>2. GetActiveTimer(v)' \subseteq {e}
      BY <2>0, <2>3, <2>6, <2>7
    <3> QED
      BY <3>1, <3>2
  <2>8. CASE v # u
    <3>1. GetActiveTimer(v)' \subseteq GetActiveTimer(v)
      BY <2>3, <2>8
    <3>2. \A f, g \in Handlers : Serves(f, v)' /\ Serves(g, v)' => f = g
      BY <2>5, <2>6
    <3>3. \A g \in Handlers :
            /\ Serves(g, v)' /\ req'[g].at = "start" => GetActiveTimer(v)' = {}
            /\ Serves(g, v)' /\ req'[g].at = "stop" => GetActiveTimer(v)' \subseteq {req'[g].prior}
      BY <3>1, <2>5, <2>6
    <3> QED
      BY <3>1, <3>2, <3>3, <2>6
  <2> QED
    BY <2>7, <2>8
<1>4. ASSUME NEW e \in Entries, NEW m \in Minutes, Stop(e, m)
      PROVE  TimerInv'
  <2>1. \A d \in Entries : row'[d].is = "running" => row[d].is = "running" /\ row'[d].user = row[d].user
    BY <1>4 DEF Stop, StopTimer, TypeInv, Entry
  <2> QED
    BY <1>4, <2>1, NoNewTimer DEF Stop
<1>5. ASSUME NEW e \in Entries, NEW m \in Minutes, NEW p \in Projects \cup {None}, NEW b \in BOOLEAN,
             Edit(e, p, m, b)
      PROVE  TimerInv'
  <2>1. \A d \in Entries : row'[d].is = "running" => row[d].is = "running" /\ row'[d].user = row[d].user
    BY <1>5 DEF Edit, UpdateTimeEntry, TypeInv, Entry
  <2> QED
    BY <1>5, <2>1, NoNewTimer DEF Edit
<1>6. ASSUME NEW e \in Entries, NEW u \in Users, NEW m \in Minutes, NEW p \in Projects \cup {None},
             NEW b \in BOOLEAN, Log(e, u, p, m, b)
      PROVE  TimerInv'
  <2>1. \A d \in Entries : row'[d].is = "running" => row[d].is = "running" /\ row'[d].user = row[d].user
    BY <1>6 DEF Log, CreateTimeEntry, TypeInv
  <2> QED
    BY <1>6, <2>1, NoNewTimer DEF Log, history
<1>7. ASSUME NEW e \in Entries, Remove(e)
      PROVE  TimerInv'
  <2>1. \A d \in Entries : row'[d].is = "running" => row[d].is = "running" /\ row'[d].user = row[d].user
    BY <1>7 DEF Remove, DeleteTimeEntry, NoEntry, TypeInv
  <2> QED
    BY <1>7, <2>1, NoNewTimer DEF Remove
<1>8. ASSUME NEW S \in SUBSET Entries, NEW p \in Projects \cup {None}, MoveTask(S, p)
      PROVE  TimerInv'
  <2>1. \A d \in Entries : row'[d].is = "running" => row[d].is = "running" /\ row'[d].user = row[d].user
    BY <1>8 DEF MoveTask, TypeInv, Entry
  <2> QED
    BY <1>8, <2>1, NoNewTimer DEF MoveTask, history
<1>9. CASE \E h \in Handlers :
             \/ \E u \in Users, p \in Projects \cup {None}, b \in BOOLEAN, ok \in BOOLEAN :
                  StartReads(h, u, [project |-> p, billable |-> b], ok)
             \/ \E m \in Minutes : StopPrior(h, m)
             \/ \E e \in Entries : StartTimer(h, e)
  BY <1>9, <1>1, <1>2, <1>3
<1>10. CASE \E e \in Entries, m \in Minutes :
             \/ Stop(e, m)
             \/ \E p \in Projects \cup {None}, b \in BOOLEAN :
                  \/ Edit(e, p, m, b)
                  \/ \E u \in Users : Log(e, u, p, m, b)
  BY <1>10, <1>4, <1>5, <1>6
<1> QED
  BY <1>9, <1>10, <1>7, <1>8, Zenon DEF TrackTime

(* No step of invoicing runs, ends or passes on a timer.                   *)
LEMMA InvoicingTimerInv ==
  ASSUME TypeInv, TimerInv, Invoicing
  PROVE  TimerInv'
<1>1. ASSUME NEW r, NEW h \in Handlers, r.at \notin {"stop", "start"}, req' = [req EXCEPT ![h] = r]
      PROVE  \A g \in Handlers : req'[g].at \in {"stop", "start"} => req'[g] = req[g]
  BY <1>1 DEF TypeInv
<1> DEFINE SameTimers == \A e \in Entries : row'[e].is = "running" =>
                           row[e].is = "running" /\ row'[e].user = row[e].user
           SameStarts == \A h \in Handlers : req'[h].at \in {"stop", "start"} => req'[h] = req[h]
<1>2. SameTimers
  <2>1. CASE UNCHANGED row
    BY <2>1
  <2>2. ASSUME NEW i, ReleaseInvoiceTime(i) PROVE SameTimers
    BY <2>2 DEF ReleaseInvoiceTime, TypeInv, Entry
  <2>3. ASSUME NEW i, NEW p, MarkProjectTimeInvoiced(i, p) PROVE SameTimers
    BY <2>3 DEF MarkProjectTimeInvoiced, TypeInv, Entry
  <2> QED
    BY <2>1, <2>2, <2>3
       DEF Invoicing, Generate, UnbilledTimeByUser, GenerateMarks, InvoiceGone, VoidReleases,
           GenerateLine, GenerateInvoice, Void, Create, Delete, DeleteInvoice, SetStatus, AddLine,
           DeleteLine, tables
<1>3. SameStarts
  <2>1. ASSUME NEW h \in Handlers, NEW p \in Projects, Generate(h, p) PROVE SameStarts
    <3>1. [Idle EXCEPT !.at = "create", !.project = p].at = "create"
      BY DEF Idle
    <3> QED
      BY <2>1, <3>1, <1>1 DEF Generate, Begin
  <2>2. ASSUME NEW h \in Handlers, GenerateMarks(h) \/ InvoiceGone(h) \/ VoidReleases(h)
        PROVE  SameStarts
    <3>1. Idle.at = "idle"
      BY DEF Idle
    <3> QED
      BY <2>2, <3>1, <1>1 DEF GenerateMarks, InvoiceGone, VoidReleases, Answer
  <2>3. ASSUME NEW h \in Handlers, UnbilledTimeByUser(h) PROVE SameStarts
    BY <2>3 DEF UnbilledTimeByUser, TypeInv, Shape
  <2>4. ASSUME NEW h \in Handlers, NEW line \in req[h].todo, GenerateLine(h, line) PROVE SameStarts
    BY <2>4 DEF GenerateLine, TypeInv, Shape
  <2>5. ASSUME NEW h \in Handlers, NEW i \in Invoices, GenerateInvoice(h, i) PROVE SameStarts
    BY <2>5 DEF GenerateInvoice, TypeInv, Shape
  <2>6. ASSUME NEW h \in Handlers, NEW i \in Invoices, Void(h, i) PROVE SameStarts
    <3>1. [Idle EXCEPT !.at = "release", !.invoice = i].at = "release"
      BY DEF Idle
    <3> QED
      BY <2>6, <3>1, <1>1 DEF Void, Begin
  <2>7. CASE UNCHANGED req
    BY <2>7
  <2> HIDE DEF SameStarts
  <2>8. CASE \E h \in Handlers :
              \/ \E p \in Projects : Generate(h, p)
              \/ UnbilledTimeByUser(h) \/ GenerateMarks(h) \/ InvoiceGone(h) \/ VoidReleases(h)
              \/ \E line \in req[h].todo : GenerateLine(h, line)
              \/ \E i \in Invoices : GenerateInvoice(h, i) \/ Void(h, i)
    BY <2>8, <2>1, <2>2, <2>3, <2>4, <2>5, <2>6
  <2>9. CASE \E i \in Invoices :
              \/ Create(i) \/ Delete(i)
              \/ \E s \in Statuses : SetStatus(i, s)
              \/ \E m \in Minutes : AddLine(i, m)
              \/ \E k \in DOMAIN lines[i] : DeleteLine(i, k)
    BY <2>9, <2>7 DEF Create, Delete, SetStatus, AddLine, DeleteLine
  <2> QED
    BY <2>8, <2>9, Zenon DEF Invoicing
<1>4. UNCHANGED <<raced, incident>>
  BY DEF Invoicing, Generate, UnbilledTimeByUser, GenerateMarks, InvoiceGone, VoidReleases,
         GenerateLine, GenerateInvoice, Void, Create, Delete, SetStatus, AddLine, DeleteLine, history
<1> QED
  BY <1>2, <1>3, <1>4, NoNewTimer

(* A user who never had two start requests served at a time has one timer  *)
(* at most, as long as no statement failed (time_entries.go:184-228).      *)
THEOREM OneTimerAtMost == Spec => []OneTimer
<1>1. Init => TimerInv
  BY DEF Init, TimerInv, Serves, Idle, GetActiveTimer, NoEntry
<1>2. TypeInv /\ TimerInv /\ [Next]_vars => TimerInv'
  <2>1. ASSUME TypeInv, TimerInv, UNCHANGED vars PROVE TimerInv'
    BY <2>1, NoNewTimer DEF vars, tables, history
  <2>2. ASSUME NEW h \in Handlers, Fail(h) PROVE TimerInv'
    BY <2>2 DEF Fail, TimerInv
  <2> QED
    BY <2>1, <2>2, TimersTimerInv, InvoicingTimerInv DEF Next
<1>3. TimerInv => OneTimer
  <2> SUFFICES ASSUME TimerInv, ~incident, NEW u \in Users \ raced
               PROVE  Cardinality(GetActiveTimer(u)) <= 1
    BY DEF OneTimer
  <2>1. CASE GetActiveTimer(u) = {}
    BY <2>1, FS_EmptySet
  <2>2. ASSUME NEW e \in GetActiveTimer(u) PROVE Cardinality(GetActiveTimer(u)) <= 1
    <3>1. GetActiveTimer(u) = {e}
      BY <2>2 DEF TimerInv
    <3> QED
      <4>1. Cardinality({e}) = 1
        BY FS_Singleton
      <4> QED
        BY <3>1, <4>1
  <2> QED
    BY <2>1, <2>2
<1> QED
  BY <1>1, <1>2, <1>3, Typed, PTL DEF Spec

-----------------------------------------------------------------------------
(* Time billed once.  While no time was marked that was not the time read, *)
(* the minutes of an invoice that stands are those of entries still marked *)
(* as being on it, unless they were deleted; a request about to release    *)
(* the time of an invoice finds it void or gone, or it was revived.        *)
Current == Standing \ revived

OnItsInvoice(e, i) == row[e].invoice = i \/ row[e].is = "deleted"

BilledInv ==
  /\ ~stale => /\ \A i \in Current : \A e \in billed[i] : OnItsInvoice(e, i)
               /\ \A i, j \in Current : \A e \in billed[i] \cap billed[j] : i = j
  /\ \A i \in Invoices : status[i] = "free" => billed[i] = {}
  /\ \A h \in Handlers :
       req[h].at = "release" => \/ status[req[h].invoice] \in {"void", "deleted"}
                                \/ req[h].invoice \in revived

(* A step that makes no invoice current, releases no time of one that is,  *)
(* and brings no request to the point of releasing.                        *)
LEMMA BilledKept ==
  ASSUME TypeInv, BilledInv,
         stale' = stale, billed' = billed, revived \subseteq revived',
         \A i \in Invoices : \/ status'[i] = status[i]
                             \/ status'[i] \in {"void", "deleted"}
                             \/ status[i] \notin {"free", "void", "deleted"} /\ status'[i] \in Statuses
                             \/ status[i] = "free" /\ status'[i] = "draft"
                             \/ status[i] = "void" /\ status'[i] \in Statuses /\ i \in revived',
         \A i \in Current' : \A e \in billed[i] : OnItsInvoice(e, i) => OnItsInvoice(e, i)',
         \A h \in Handlers : req'[h].at = "release" => \/ req'[h] = req[h]
                                                        \/ status'[req'[h].invoice] = "void"
  PROVE  BilledInv'
<1>1. \A i \in Current' : i \in Current \/ billed[i] = {}
  BY DEF Current, Standing, Issued, BilledInv, Statuses, TypeInv
<1>2. ~stale' => \A i \in Current' : \A e \in billed'[i] : OnItsInvoice(e, i)'
  BY <1>1 DEF BilledInv
<1>3. ~stale' => \A i, j \in Current' : \A e \in billed'[i] \cap billed'[j] : i = j
  BY <1>1 DEF BilledInv
<1>4. \A i \in Invoices : status'[i] = "free" => billed'[i] = {}
  BY DEF BilledInv, Statuses
<1>5. ASSUME NEW h \in Handlers, req'[h].at = "release"
      PROVE  status'[req'[h].invoice] \in {"void", "deleted"} \/ req'[h].invoice \in revived'
  <2>1. CASE req'[h] = req[h]
    <3>1. req[h].invoice \in Invoices
      BY <1>5, <2>1 DEF TypeInv, Shape
    <3> QED
      BY <1>5, <2>1, <3>1 DEF BilledInv
  <2> QED
    BY <1>5, <2>1
<1> QED
  BY <1>2, <1>3, <1>4, <1>5 DEF BilledInv

LEMMA TimersBilledInv ==
  ASSUME TypeInv, Clean, BilledInv, TrackTime
  PROVE  BilledInv'
<1> DEFINE MarksKept == \A e \in Entries : \/ row'[e].is = "deleted"
                                           \/ row'[e].invoice = row[e].invoice /\ row[e].is # "deleted"
                                           \/ row'[e] = row[e]
           ReleasesKept == \A h \in Handlers : req'[h].at = "release" => req'[h] = req[h]
<1>1. MarksKept
  <2>1. CASE UNCHANGED row
    BY <2>1
  <2>2. ASSUME NEW e \in Entries, NEW m \in Minutes, StopTimer(e, m) PROVE MarksKept
    BY <2>2 DEF StopTimer, TypeInv, Entry
  <2>3. ASSUME NEW h \in Handlers, NEW e \in Entries, StartTimer(h, e) PROVE MarksKept
    BY <2>3 DEF StartTimer, Clean, TypeInv
  <2>4. ASSUME NEW e \in Entries, NEW m \in Minutes, NEW p \in Projects \cup {None}, NEW b \in BOOLEAN,
               Edit(e, p, m, b)
        PROVE  MarksKept
    <3>1. row[e].is # "deleted"
      BY <2>4 DEF Edit, Exists
    <3>2. \A d \in Entries : row'[d].invoice = row[d].invoice /\ (d # e => row'[d] = row[d])
      BY <2>4 DEF Edit, UpdateTimeEntry, TypeInv, Entry
    <3> QED
      BY <3>1, <3>2
  <2>5. ASSUME NEW e \in Entries, NEW u \in Users, NEW m \in Minutes, NEW p \in Projects \cup {None},
               NEW b \in BOOLEAN, Log(e, u, p, m, b)
        PROVE  MarksKept
    BY <2>5 DEF Log, CreateTimeEntry, Clean, TypeInv
  <2>6. ASSUME NEW e \in Entries, Remove(e) PROVE MarksKept
    <3>1. row' = [row EXCEPT ![e] = NoEntry("deleted")]
      BY <2>6 DEF Remove, DeleteTimeEntry
    <3>2. NoEntry("deleted").is = "deleted"
      BY DEF NoEntry
    <3> QED
      BY <3>1, <3>2 DEF TypeInv
  <2>7. ASSUME NEW S \in SUBSET Entries, NEW p \in Projects \cup {None}, MoveTask(S, p) PROVE MarksKept
    BY <2>7 DEF MoveTask, TypeInv, Entry, Exists
  <2> HIDE DEF MarksKept
  <2>8. CASE \E h \in Handlers :
               \/ \E u \in Users, p \in Projects \cup {None}, b \in BOOLEAN, ok \in BOOLEAN :
                    StartReads(h, u, [project |-> p, billable |-> b], ok)
               \/ \E m \in Minutes : StopPrior(h, m)
               \/ \E e \in Entries : StartTimer(h, e)
    BY <2>8, <2>1, <2>2, <2>3 DEF StartReads, StopPrior, TypeInv, Shape, tables
  <2>9. CASE \E e \in Entries, m \in Minutes :
               \/ Stop(e, m)
               \/ \E p \in Projects \cup {None}, b \in BOOLEAN :
                    \/ Edit(e, p, m, b)
                    \/ \E u \in Users : Log(e, u, p, m, b)
    BY <2>9, <2>2, <2>4, <2>5 DEF Stop
  <2> QED
    BY <2>6, <2>7, <2>8, <2>9, Zenon DEF TrackTime
<1>2. UNCHANGED <<status, billed, revived, stale>>
  BY DEF TrackTime, StartReads, StopPrior, StartTimer, Stop, Edit, Log, Remove, MoveTask, history, tables
<1>3. ReleasesKept
  <2>1. CASE UNCHANGED req
    BY <2>1
  <2>2. ASSUME NEW h \in Handlers, NEW u, NEW b, NEW ok, StartReads(h, u, b, ok)
        PROVE  ReleasesKept
    <3>1. PICK prior : req' = [req EXCEPT ![h] =
             [Idle EXCEPT !.at = IF prior = None THEN "start" ELSE "stop",
                          !.user = u, !.prior = prior, !.new = b]]
      BY <2>2 DEF StartReads, Begin
    <3>2. [Idle EXCEPT !.at = IF prior = None THEN "start" ELSE "stop",
                       !.user = u, !.prior = prior, !.new = b].at # "release"
      BY DEF Idle
    <3> QED
      BY <3>1, <3>2 DEF TypeInv
  <2>3. ASSUME NEW h \in Handlers, NEW m, StopPrior(h, m)
        PROVE  ReleasesKept
    BY <2>3 DEF StopPrior, TypeInv, Shape
  <2>4. ASSUME NEW h \in Handlers, NEW e, StartTimer(h, e)
        PROVE  ReleasesKept
    BY <2>4 DEF StartTimer, Answer, Idle, TypeInv
  <2> HIDE DEF ReleasesKept
  <2>5. CASE \E h \in Handlers :
               \/ \E u \in Users, p \in Projects \cup {None}, b \in BOOLEAN, ok \in BOOLEAN :
                    StartReads(h, u, [project |-> p, billable |-> b], ok)
               \/ \E m \in Minutes : StopPrior(h, m)
               \/ \E e \in Entries : StartTimer(h, e)
    BY <2>5, <2>2, <2>3, <2>4
  <2>6. CASE \E e \in Entries, m \in Minutes :
               \/ Stop(e, m)
               \/ \E p \in Projects \cup {None}, b \in BOOLEAN :
                    \/ Edit(e, p, m, b)
                    \/ \E u \in Users : Log(e, u, p, m, b)
    BY <2>6, <2>1 DEF Stop, Edit, Log
  <2>7. CASE (\E e \in Entries : Remove(e)) \/ (\E S \in (SUBSET Entries) \ {{}}, p \in Projects \cup {None} : MoveTask(S, p))
    BY <2>7, <2>1 DEF Remove, MoveTask
  <2> QED
    BY <2>5, <2>6, <2>7, Zenon DEF TrackTime
<1>4. \A i \in Invoices : \A e \in billed[i] : OnItsInvoice(e, i) => OnItsInvoice(e, i)'
  BY <1>1 DEF OnItsInvoice, TypeInv
<1> QED
  BY <1>2, <1>3, <1>4, BilledKept DEF Current, Standing

LEMMA MarkBilledInv ==
  ASSUME TypeInv, BilledInv, NEW h \in Handlers, GenerateMarks(h)
  PROVE  BilledInv'
<1> DEFINE i == req[h].invoice
           S == Unbilled(req[h].project)
<1>1. i \in Invoices /\ Issued(i) /\ UNCHANGED <<status, revived>>
  BY DEF GenerateMarks, TypeInv, Shape
<1>2. \A e \in Entries : /\ row'[e].invoice = IF e \in S THEN i ELSE row[e].invoice
                        /\ row'[e].is = row[e].is
  BY DEF GenerateMarks, MarkProjectTimeInvoiced, TypeInv, Entry
<1>3. \A e \in S : e \in Entries /\ row[e].invoice = None /\ row[e].is # "deleted"
  BY DEF Unbilled, Exists
<1>4. \A j \in Invoices \ {i} : billed'[j] = billed[j]
  BY <1>1 DEF GenerateMarks, TypeInv
<1>5. ~stale' => ~stale /\ billed'[i] = S
  <2>1. billed'[i] = {x.entry : x \in req[h].time}
    BY <1>1 DEF GenerateMarks, TypeInv
  <2>2. ~stale' => ~stale /\ req[h].time = Time(req[h].project)
    BY DEF GenerateMarks
  <2>3. {x.entry : x \in Time(req[h].project)} = S
    <3>1. \A e \in S : TimeOf(e).entry = e
      BY DEF TimeOf
    <3>2. Time(req[h].project) = {TimeOf(e) : e \in S}
      BY DEF Time
    <3> QED
      BY <3>1, <3>2
  <2> QED
    BY <2>1, <2>2, <2>3
<1>6. Current' = Current
  BY <1>1 DEF Current, Standing, Issued
<1> HIDE DEF i, S
<1>7. ASSUME ~stale', NEW j \in Current, NEW e \in billed'[j] PROVE OnItsInvoice(e, j)'
  <2>1. CASE j = i
    BY <1>2, <1>3, <1>5, <1>7, <2>1 DEF OnItsInvoice
  <2>2. CASE j # i
    <3>1. j \in Invoices /\ e \in billed[j] /\ e \in Entries
      BY <1>4, <1>7, <2>2 DEF Current, Standing, TypeInv
    <3>2. OnItsInvoice(e, j) /\ j # None
      BY <1>5, <1>7, <3>1 DEF BilledInv
    <3> QED
      BY <1>2, <1>3, <3>1, <3>2 DEF OnItsInvoice
  <2> QED
    BY <2>1, <2>2
<1>8. ASSUME ~stale', NEW j \in Current, NEW k \in Current, NEW e \in billed'[j] \cap billed'[k]
      PROVE  j = k
  <2>0. j \in Invoices /\ k \in Invoices /\ j # None /\ k # None
    BY DEF Current, Standing
  <2>1. ASSUME NEW l \in Current, l # i, e \in billed'[l] PROVE e \notin S
    <3>1. l \in Invoices /\ l # None /\ e \in billed[l]
      BY <1>4, <2>1 DEF Current, Standing
    <3>2. OnItsInvoice(e, l)
      BY <1>5, <1>8, <3>1 DEF BilledInv
    <3> QED
      BY <1>3, <3>1, <3>2 DEF OnItsInvoice
  <2>2. CASE j # i /\ k # i
    BY <1>4, <1>5, <1>8, <2>0, <2>2 DEF BilledInv
  <2> QED
    BY <1>5, <1>8, <2>0, <2>1, <2>2
<1>9. \A j \in Invoices : status'[j] = "free" => billed'[j] = {}
  BY <1>1, <1>4 DEF BilledInv, Issued, Statuses
<1>10. ASSUME NEW g \in Handlers, req'[g].at = "release"
       PROVE  status'[req'[g].invoice] \in {"void", "deleted"} \/ req'[g].invoice \in revived'
  <2>1. req'[g] = req[g]
    BY <1>10 DEF GenerateMarks, Answer, Idle, TypeInv
  <2> QED
    BY <1>1, <1>10, <2>1 DEF BilledInv
<1> QED
  BY <1>6, <1>7, <1>8, <1>9, <1>10 DEF BilledInv

LEMMA InvoicingBilledInv ==
  ASSUME TypeInv, BilledInv, Invoicing
  PROVE  BilledInv'
<1>0. ASSUME UNCHANGED row, NEW i \in Current', NEW e \in billed[i], OnItsInvoice(e, i)
      PROVE  OnItsInvoice(e, i)'
  BY <1>0 DEF OnItsInvoice
<1>00. ASSUME NEW i \in Invoices, i \notin Current', ReleaseInvoiceTime(i),
              NEW j \in Current', NEW e \in billed[j], OnItsInvoice(e, j)
       PROVE  OnItsInvoice(e, j)'
  <2>1. j # i /\ e \in Entries
    BY <1>00 DEF Current, Standing, TypeInv
  <2>2. row'[e].is = row[e].is /\ (row[e].invoice # i => row'[e].invoice = row[e].invoice)
    BY <1>00, <2>1 DEF ReleaseInvoiceTime, TypeInv, Entry
  <2> QED
    BY <1>00, <2>1, <2>2 DEF OnItsInvoice
<1>1. ASSUME NEW h \in Handlers, NEW r, r.at # "release", req' = [req EXCEPT ![h] = r]
      PROVE  \A g \in Handlers : req'[g].at = "release" => req'[g] = req[g]
  BY <1>1 DEF TypeInv
<1>2. ASSUME NEW h \in Handlers, NEW p \in Projects, Generate(h, p) PROVE BilledInv'
  <2>1. [Idle EXCEPT !.at = "create", !.project = p].at # "release"
    BY DEF Idle
  <2> QED
    BY <1>2, <2>1, <1>0, <1>1, BilledKept DEF Generate, Begin, tables, history
<1>3. ASSUME NEW h \in Handlers, UnbilledTimeByUser(h) PROVE BilledInv'
  <2>1. \A g \in Handlers : req'[g].at = "release" => req'[g] = req[g]
    BY <1>3 DEF UnbilledTimeByUser, TypeInv, Shape
  <2> QED
    BY <1>3, <2>1, <1>0, BilledKept DEF UnbilledTimeByUser, tables, history
<1>4. ASSUME NEW h \in Handlers, InvoiceGone(h) PROVE BilledInv'
  <2>1. \A g \in Handlers : req'[g].at = "release" => req'[g] = req[g]
    BY <1>4 DEF InvoiceGone, Answer, Idle, TypeInv
  <2> QED
    BY <1>4, <2>1, <1>0, BilledKept DEF InvoiceGone, tables, history
<1>5. ASSUME NEW h \in Handlers, NEW line \in req[h].todo, GenerateLine(h, line) PROVE BilledInv'
  <2>1. \A g \in Handlers : req'[g].at = "release" => req'[g] = req[g]
    BY <1>5 DEF GenerateLine, TypeInv, Shape
  <2> QED
    BY <1>5, <2>1, <1>0, BilledKept DEF GenerateLine, history
<1>05. ASSUME NEW i \in Invoices, CreateInvoice(i)
       PROVE  \A j \in Invoices : status'[j] = status[j] \/ (status[j] = "free" /\ status'[j] = "draft")
  <2>1. status[i] = "free" /\ status' = [status EXCEPT ![i] = "draft"]
    BY <1>05 DEF CreateInvoice
  <2>2. DOMAIN status = Invoices
    BY DEF TypeInv
  <2> QED
    BY <2>1, <2>2
<1>6. ASSUME NEW h \in Handlers, NEW i \in Invoices, GenerateInvoice(h, i) PROVE BilledInv'
  <2>1. \A g \in Handlers : req'[g].at = "release" => req'[g] = req[g]
    BY <1>6 DEF GenerateInvoice, TypeInv, Shape
  <2>2. \A j \in Invoices : status'[j] = status[j] \/ (status[j] = "free" /\ status'[j] = "draft")
    BY <1>6, <1>05 DEF GenerateInvoice
  <2>3. UNCHANGED <<row, billed, revived, stale>>
    BY <1>6 DEF GenerateInvoice, history
  <2> QED
    BY <2>1, <2>2, <2>3, <1>0, BilledKept
<1>7. ASSUME NEW i \in Invoices, Create(i) PROVE BilledInv'
  <2>1. \A j \in Invoices : status'[j] = status[j] \/ (status[j] = "free" /\ status'[j] = "draft")
    BY <1>7, <1>05 DEF Create
  <2>2. UNCHANGED <<row, req, billed, revived, stale>>
    BY <1>7 DEF Create, history
  <2> QED
    BY <2>1, <2>2, <1>0, BilledKept
<1>8. ASSUME NEW h \in Handlers, VoidReleases(h) PROVE BilledInv'
  <2>1. \A g \in Handlers : req'[g].at = "release" => req'[g] = req[g]
    BY <1>8 DEF VoidReleases, Answer, Idle, TypeInv
  <2>2. req[h].invoice \in Invoices /\ req[h].at = "release"
    BY <1>8 DEF VoidReleases, TypeInv, Shape
  <2>3. UNCHANGED <<status, revived, stale, billed>>
    BY <1>8 DEF VoidReleases, history
  <2>4. req[h].invoice \notin Current'
    BY <2>2, <2>3 DEF BilledInv, Current, Standing, Issued, Statuses
  <2>5. ReleaseInvoiceTime(req[h].invoice)
    BY <1>8 DEF VoidReleases
  <2> QED
    BY <2>1, <2>2, <2>3, <2>4, <2>5, <1>00, BilledKept
<1>9. ASSUME NEW i \in Invoices, Delete(i) PROVE BilledInv'
  <2>1. \A j \in Invoices : status'[j] = status[j] \/ status'[j] = "deleted"
    BY <1>9 DEF Delete, DeleteInvoice, TypeInv
  <2>2. i \notin Current'
    BY <1>9 DEF Delete, DeleteInvoice, TypeInv, Current, Standing, Issued, Statuses
  <2>3. ReleaseInvoiceTime(i) /\ UNCHANGED <<req, billed, revived, stale>>
    BY <1>9 DEF Delete, DeleteInvoice, history
  <2> QED
    BY <2>1, <2>2, <2>3, <1>00, BilledKept
<1>10. ASSUME NEW i \in Invoices, NEW s \in Statuses, SetInvoiceStatus(i, s)
       PROVE  /\ revived \subseteq revived'
              /\ \A j \in Invoices : \/ status'[j] = status[j]
                                     \/ status'[j] = "void"
                                     \/ /\ status[j] \notin {"free", "void", "deleted"}
                                        /\ status'[j] \in Statuses
                                     \/ /\ status[j] = "void" /\ j \in revived'
                                        /\ status'[j] \in Statuses
              /\ status'[i] = s
  BY <1>10 DEF SetInvoiceStatus, Issued, Statuses, TypeInv
<1>11. ASSUME NEW i \in Invoices, NEW s \in Statuses, SetStatus(i, s) PROVE BilledInv'
  <2>1. SetInvoiceStatus(i, s) /\ UNCHANGED <<row, req, billed, stale>>
    BY <1>11 DEF SetStatus
  <2> QED
    BY <2>1, <1>0, <1>10, BilledKept
<1>12. ASSUME NEW h \in Handlers, NEW i \in Invoices, Void(h, i) PROVE BilledInv'
  <2>1. SetInvoiceStatus(i, "void") /\ UNCHANGED <<row, billed, stale>> /\ "void" \in Statuses
    BY <1>12 DEF Void, Statuses
  <2>2. req' = [req EXCEPT ![h] = [Idle EXCEPT !.at = "release", !.invoice = i]]
    BY <1>12 DEF Void, Begin
  <2>3. [Idle EXCEPT !.at = "release", !.invoice = i].invoice = i
    BY DEF Idle
  <2>4. \A g \in Handlers : req'[g] = req[g] \/ status'[req'[g].invoice] = "void"
    BY <2>1, <2>2, <2>3, <1>10 DEF TypeInv
  <2> QED
    BY <2>1, <2>4, <1>0, <1>10, BilledKept
<1>13. ASSUME NEW i \in Invoices,
              (\E m \in Minutes : AddLine(i, m)) \/ (\E k \in DOMAIN lines[i] : DeleteLine(i, k))
       PROVE  BilledInv'
  <2>1. UNCHANGED <<row, status, req, billed, revived, stale>>
    BY <1>13 DEF AddLine, DeleteLine, history
  <2> QED
    BY <2>1, <1>0, BilledKept
<1>14. CASE \E h \in Handlers :
              \/ \E p \in Projects : Generate(h, p)
              \/ UnbilledTimeByUser(h) \/ GenerateMarks(h) \/ InvoiceGone(h) \/ VoidReleases(h)
              \/ \E line \in req[h].todo : GenerateLine(h, line)
              \/ \E i \in Invoices : GenerateInvoice(h, i) \/ Void(h, i)
  BY <1>14, <1>2, <1>3, <1>4, <1>5, <1>6, <1>8, <1>12, MarkBilledInv
<1>15. CASE \E i \in Invoices :
              \/ Create(i) \/ Delete(i)
              \/ \E s \in Statuses : SetStatus(i, s)
              \/ \E m \in Minutes : AddLine(i, m)
              \/ \E k \in DOMAIN lines[i] : DeleteLine(i, k)
  BY <1>15, <1>7, <1>9, <1>11, <1>13
<1> QED
  BY <1>14, <1>15, Zenon DEF Invoicing

(* No time is billed twice (invoices.go:201-309), even when statements     *)
(* fail.                                                                   *)
THEOREM BilledOnce == Spec => []TimeBilledOnce
<1>1. Init => BilledInv
  <2> SUFFICES ASSUME Init PROVE BilledInv
    OBVIOUS
  <2>1. Current = {}
    BY DEF Init, Current, Standing, Issued, Statuses
  <2>2. \A h \in Handlers : req[h].at # "release"
    BY DEF Init, Idle
  <2> QED
    BY <2>1, <2>2 DEF Init, BilledInv
<1>2. TypeInv /\ Clean /\ BilledInv /\ [Next]_vars => BilledInv'
  <2>1. ASSUME TypeInv, BilledInv, UNCHANGED vars PROVE BilledInv'
    BY <2>1, BilledKept DEF vars, tables, history, OnItsInvoice
  <2>2. ASSUME TypeInv, BilledInv, NEW h \in Handlers, Fail(h) PROVE BilledInv'
    <3>1. \A g \in Handlers : req'[g].at = "release" => req'[g] = req[g]
      BY <2>2 DEF Fail, Answer, Idle, TypeInv
    <3> QED
      BY <2>2, <3>1, BilledKept DEF Fail, tables, OnItsInvoice
  <2> QED
    BY <2>1, <2>2, TimersBilledInv, InvoicingBilledInv DEF Next
<1>3. TypeInv /\ BilledInv => TimeBilledOnce
  BY DEF BilledInv, TimeBilledOnce, Current
<1> QED
  BY <1>1, <1>2, <1>3, AlwaysClean, Typed, PTL DEF Spec

-----------------------------------------------------------------------------
(* Lines, whatever they are records of.  One more line that is not a       *)
(* user's, or one less, leaves what the user is charged as it was.         *)
OneLine(s, u, m) == \E k \in DOMAIN s : LinesOf(u, s) = {k} /\ s[k].minutes = m

LinesKept(s, t) ==
  \A u \in Users : /\ LinesOf(u, s) = {} => LinesOf(u, t) = {}
                   /\ \A m : OneLine(s, u, m) => OneLine(t, u, m)

LineFor(u, time) == [user |-> u, minutes |-> ToInt32(MinutesOf(u, time))]

(* The user's line is still to be made, or it is not and they are charged. *)
Charging(s, todo, u, time) ==
  \/ (\A l \in todo : l.user # u) /\ Charges(s, u, time)
  \/ /\ MinutesOf(u, time) > 0
     /\ LinesOf(u, s) = {}
     /\ \A l \in todo : l.user = u => l = LineFor(u, time)
     /\ LineFor(u, time) \in todo

LEMMA ChargesLine ==
  ASSUME NEW s, NEW u, NEW time
  PROVE  /\ MinutesOf(u, time) > 0 => (Charges(s, u, time) <=> OneLine(s, u, ToInt32(MinutesOf(u, time))))
         /\ ~(MinutesOf(u, time) > 0) => (Charges(s, u, time) <=> LinesOf(u, s) = {})
BY DEF Charges, OneLine

LEMMA KeptCharges ==
  ASSUME NEW s, NEW t, LinesKept(s, t), NEW u \in Users, NEW time
  PROVE  Charges(s, u, time) => Charges(t, u, time)
BY ChargesLine DEF LinesKept

LEMMA KeptCharging ==
  ASSUME NEW s, NEW t, LinesKept(s, t), NEW u \in Users, NEW todo, NEW time
  PROVE  Charging(s, todo, u, time) => Charging(t, todo, u, time)
BY KeptCharges DEF Charging, LinesKept

LEMMA NothingLogged ==
  ASSUME NEW u
  PROVE  MinutesOf(u, {}) = 0
<1>1. {x \in {} : x.user = u} = {}
  OBVIOUS
<1>2. MinutesOf(u, {}) = MapThenSumSet(LAMBDA x : x.minutes, {})
  BY <1>1, Zenon DEF MinutesOf
<1>3. MapThenSumSet(LAMBDA x : x.minutes, {}) = 0
  BY DEF MapThenSumSet, MapThenFoldSet
<1> QED
  BY <1>2, <1>3, Zenon

LEMMA NoLines ==
  ASSUME NEW u
  PROVE  LinesOf(u, <<>>) = {} /\ Charges(<<>>, u, {})
<1>1. LinesOf(u, <<>>) = {}
  BY DEF LinesOf
<1> QED
  BY <1>1, NothingLogged DEF Charges

LEMMA LineAppended ==
  ASSUME NEW S, NEW s \in Seq(S), NEW line, NEW t, t = Append(s, line)
  PROVE  /\ t \in Seq(S \cup {line})
         /\ DOMAIN t = DOMAIN s \cup {Len(s) + 1} /\ Len(s) + 1 \notin DOMAIN s
         /\ t[Len(s) + 1] = line /\ \A k \in DOMAIN s : t[k] = s[k]
<1>1. s \in Seq(S \cup {line})
  OBVIOUS
<1> QED
  BY <1>1

LEMMA LineAdded ==
  ASSUME NEW S, NEW s \in Seq(S), NEW line, NEW t, t = Append(s, line),
         \A u \in Users : line.user # u
  PROVE  t \in Seq(S \cup {line}) /\ LinesKept(s, t)
<1>1. /\ t \in Seq(S \cup {line})
      /\ DOMAIN t = DOMAIN s \cup {Len(s) + 1}
      /\ t[Len(s) + 1] = line /\ \A k \in DOMAIN s : t[k] = s[k]
  BY LineAppended
<1>2. \A u \in Users : LinesOf(u, t) = LinesOf(u, s)
  BY <1>1 DEF LinesOf
<1>3. \A u \in Users : \A m : OneLine(s, u, m) => OneLine(t, u, m)
  BY <1>1, <1>2 DEF OneLine
<1> QED
  BY <1>1, <1>2, <1>3 DEF LinesKept

(* The line of one user is made, and the others' stay as they were.        *)
OneMade(s, t, line) ==
  /\ LinesOf(line.user, s) = {} => OneLine(t, line.user, line.minutes)
  /\ \A u : u # line.user =>
       LinesOf(u, t) = LinesOf(u, s) /\ \A m : OneLine(s, u, m) => OneLine(t, u, m)

LEMMA LineMade ==
  ASSUME NEW S, NEW s \in Seq(S), NEW line, NEW t, t = Append(s, line)
  PROVE  t \in Seq(S \cup {line}) /\ OneMade(s, t, line)
<1> DEFINE n == Len(s) + 1
<1>1. /\ t \in Seq(S \cup {line})
      /\ DOMAIN t = DOMAIN s \cup {n}
      /\ t[n] = line /\ \A k \in DOMAIN s : t[k] = s[k]
  BY LineAppended
<1> HIDE DEF n
<1>2. ASSUME LinesOf(line.user, s) = {} PROVE OneLine(t, line.user, line.minutes)
  <2>1. \A k \in DOMAIN s : s[k].user # line.user
    BY <1>2 DEF LinesOf
  <2>2. LinesOf(line.user, t) = {n}
    BY <1>1, <2>1 DEF LinesOf
  <2> QED
    BY <1>1, <2>2 DEF OneLine
<1>3. ASSUME NEW u, u # line.user PROVE LinesOf(u, t) = LinesOf(u, s)
  BY <1>1, <1>3 DEF LinesOf
<1>4. ASSUME NEW u, u # line.user, NEW m, OneLine(s, u, m) PROVE OneLine(t, u, m)
  BY <1>1, <1>3, <1>4 DEF OneLine
<1> QED
  BY <1>1, <1>2, <1>3, <1>4 DEF OneMade

Without(s, k) == SubSeq(s, 1, k - 1) \o SubSeq(s, k + 1, Len(s))

LEMMA LineDeleted ==
  ASSUME NEW S, NEW s \in Seq(S), NEW k \in DOMAIN s, NEW t, t = Without(s, k)
  PROVE  /\ t \in Seq(S)
         /\ s[k].user = None => LinesKept(s, t)
<1> DEFINE n == Len(s)
<1>1. s \in Seq(S) /\ n \in Nat /\ k \in Nat /\ 1 <= k /\ k <= n
  OBVIOUS
<1> DEFINE p == SubSeq(s, 1, k - 1)  q == SubSeq(s, k + 1, Len(s))
<1> HIDE DEF n
<1>2. /\ p \in Seq(S) /\ Len(p) = k - 1
      /\ \A j \in 1 .. k - 1 : p[j] = s[j]
  BY <1>1 DEF n
<1>3. /\ q \in Seq(S) /\ Len(q) = n - k
      /\ \A j \in 1 .. n - k : q[j] = s[j + k]
  <2>1. /\ k + 1 \in Int /\ n \in Int
        /\ \A j \in k + 1 .. n : s[j] \in S
    BY <1>1 DEF n
  <2>2. /\ q \in Seq(S)
        /\ Len(q) = IF k + 1 <= n THEN n - (k + 1) + 1 ELSE 0
        /\ \A j \in 1 .. n - (k + 1) + 1 : q[j] = s[k + 1 + j - 1]
    BY <2>1, SubSeqProperties DEF n
  <2>3. n - (k + 1) + 1 = n - k /\ \A j \in 1 .. n - k : k + 1 + j - 1 = j + k
    BY <1>1
  <2>4. Len(q) = n - k
    BY <1>1, <2>2
  <2> HIDE DEF q
  <2> QED
    BY <2>2, <2>3, <2>4
<1>4. t = p \o q
  BY DEF Without, p, q
<1> HIDE DEF p, q
<1>0. /\ t \in Seq(S) /\ Len(t) = Len(p) + Len(q)
      /\ \A j \in 1 .. Len(p) + Len(q) : t[j] = IF j <= Len(p) THEN p[j] ELSE q[j - Len(p)]
  <2>1. p \in Seq(S) /\ q \in Seq(S)
    BY <1>2, <1>3
  <2>2. /\ p \o q \in Seq(S) /\ Len(p \o q) = Len(p) + Len(q)
        /\ \A j \in 1 .. Len(p) + Len(q) : (p \o q)[j] = IF j <= Len(p) THEN p[j] ELSE q[j - Len(p)]
    BY <2>1, ConcatProperties, Zenon
  <2> QED
    BY <1>4, <2>2
<1>5. t \in Seq(S) /\ Len(t) = n - 1
  BY <1>0, <1>1, <1>2, <1>3
<1>6. \A j \in 1 .. n - 1 : t[j] = IF j < k THEN s[j] ELSE s[j + 1]
  <2>1. Len(p) + Len(q) = n - 1
    BY <1>1, <1>2, <1>3
  <2>2. \A j \in 1 .. n - 1 : t[j] = IF j <= k - 1 THEN p[j] ELSE q[j - (k - 1)]
    BY <1>0, <1>2, <2>1
  <2> TAKE j \in 1 .. n - 1
  <2>3. CASE j < k
    <3>1. j \in 1 .. k - 1
      BY <1>1, <2>3
    <3> QED
      BY <1>1, <1>2, <2>2, <2>3, <3>1
  <2>4. CASE ~(j < k)
    <3> DEFINE l == j - (k - 1)
    <3>1. ~(j <= k - 1) /\ l \in 1 .. n - k /\ l + k = j + 1
      BY <1>1, <2>4
    <3>2. t[j] = q[l]
      BY <2>2, <3>1
    <3> HIDE DEF l
    <3>3. q[l] = s[l + k]
      BY <1>3, <3>1
    <3> QED
      BY <2>4, <3>1, <3>2, <3>3
  <2> QED
    BY <2>3, <2>4
<1>7. DOMAIN s = 1 .. n /\ DOMAIN t = 1 .. n - 1
  BY <1>1, <1>5 DEF n
<1>8. ASSUME s[k].user = None PROVE LinesKept(s, t)
  <2> DEFINE at(j) == IF j < k THEN j ELSE j - 1
  <2>1. \A j \in DOMAIN s \ {k} : at(j) \in DOMAIN t /\ t[at(j)] = s[j]
    BY <1>1, <1>6, <1>7
  <2>3. \A l \in DOMAIN t : \E j \in DOMAIN s \ {k} : at(j) = l /\ t[l] = s[j]
    <3> TAKE l \in DOMAIN t
    <3>1. CASE l < k
      <4>1. l \in DOMAIN s \ {k} /\ at(l) = l
        BY <1>1, <1>7, <3>1
      <4> QED
        BY <2>1, <4>1
    <3>2. CASE ~(l < k)
      <4>1. l + 1 \in DOMAIN s \ {k} /\ at(l + 1) = l
        BY <1>1, <1>7, <3>2
      <4> QED
        BY <2>1, <4>1
    <3> QED
      BY <3>1, <3>2
  <2> HIDE DEF at
  <2>4. \A u \in Users : k \notin LinesOf(u, s)
    BY <1>8 DEF LinesOf
  <2>5. ASSUME NEW u \in Users, LinesOf(u, s) = {} PROVE LinesOf(u, t) = {}
    <3>1. \A j \in DOMAIN s : s[j].user # u
      BY <2>5 DEF LinesOf
    <3> QED
      BY <2>3, <3>1 DEF LinesOf
  <2>6. ASSUME NEW u \in Users, NEW m, OneLine(s, u, m) PROVE OneLine(t, u, m)
    <3>1. PICK j \in DOMAIN s : LinesOf(u, s) = {j} /\ s[j].minutes = m
      BY <2>6 DEF OneLine
    <3>2. j # k /\ s[j].user = u
      BY <2>4, <3>1 DEF LinesOf
    <3>3. at(j) \in DOMAIN t /\ t[at(j)] = s[j]
      BY <2>1, <3>2
    <3>4. \A l \in DOMAIN t : t[l].user = u => l = at(j)
      BY <2>3, <3>1 DEF LinesOf
    <3>5. LinesOf(u, t) = {at(j)}
      BY <3>2, <3>3, <3>4 DEF LinesOf
    <3> QED
      BY <3>1, <3>3, <3>5 DEF OneLine
  <2> QED
    BY <2>5, <2>6 DEF LinesKept
<1> QED
  BY <1>5, <1>8

-----------------------------------------------------------------------------
(***************************************************************************)
(* Invoices and the time marked for them.  A handler that is making an     *)
(* invoice is the only one to, no time is marked for it yet, and the lines *)
(* it has and those to come account for the time that was read.            *)
(***************************************************************************)
Makes(h, i) == req[h].at \in {"unbilled", "line"} /\ req[h].invoice = i
Owned   == \A e \in Entries : Exists(e) => row[e].user \in Users
LinesOK == /\ lines = [i \in Invoices |-> lines[i]]
           /\ \A i \in Invoices : \E S : lines[i] \in Seq(S)

TodoFine(h) == \A l \in req[h].todo : l.user \in Users

TodoOK == \A h \in Handlers : req[h].at = "line" => TodoFine(h)

OneMaker == \A i \in Invoices, g, h \in Handlers : Makes(g, i) /\ Makes(h, i) => g = h

FreshOK ==
  \A i \in Invoices : status[i] = "free" =>
    lines[i] = <<>> /\ MarkedTime(i) = {} /\ \A h \in Handlers : ~Makes(h, i)

ReleaseOK ==
  \A h \in Handlers : req[h].at = "release" =>
    status[req[h].invoice] \in {"void", "deleted"} \/ req[h].invoice \in amended

MakerInv == Owned /\ LinesOK /\ TodoOK /\ OneMaker /\ FreshOK /\ ReleaseOK

(* The balance of an invoice, while it is made and after.                  *)
Balanced(i) ==
  /\ \A h \in Handlers : Makes(h, i) =>
       /\ MarkedTime(i) = {}
       /\ req[h].at = "unbilled" => \A u \in Users : LinesOf(u, lines[i]) = {}
       /\ req[h].at = "line" => \A u \in Users : Charging(lines[i], req[h].todo, u, req[h].time)
  /\ (\A h \in Handlers : ~Makes(h, i)) => \A u \in Users : Charges(lines[i], u, MarkedTime(i))

Freed(i) ==
  \/ \E h \in Handlers : req[h].at = "release" /\ req[h].invoice = i
  \/ MarkedTime(i) = {}

AccountInv ==
  ~stale /\ ~incident =>
    /\ \A i \in Standing \ amended : Balanced(i)
    /\ \A i \in Invoices : status[i] = "void" => Freed(i)

LEMMA SameBalance ==
  ASSUME NEW i \in Invoices, lines'[i] = lines[i], MarkedTime(i)' = MarkedTime(i),
         \A h \in Handlers : Makes(h, i) \/ Makes(h, i)' => req'[h] = req[h]
  PROVE  Balanced(i) => Balanced(i)'
<1>1. \A h \in Handlers : Makes(h, i)' <=> Makes(h, i)
  BY DEF Makes
<1> QED
  BY <1>1 DEF Balanced

LEMMA SameMarks ==
  ASSUME NEW i \in Invoices,
         \A e \in Entries : /\ row'[e].invoice = i <=> row[e].invoice = i
                            /\ row[e].invoice = i => TimeOf(e)' = TimeOf(e)
  PROVE  MarkedTime(i)' = MarkedTime(i)
BY DEF MarkedTime

LEMMA Unmarked ==
  ASSUME NEW i
  PROVE  MarkedTime(i) = {} <=> \A e \in Entries : row[e].invoice # i
BY DEF MarkedTime

-----------------------------------------------------------------------------
(* Timers and entries: what is marked stays as it is or is amended.        *)
Follows(d) ==
  /\ Exists(d)' => row'[d].user \in Users
  /\ \/ row'[d].invoice = row[d].invoice /\ TimeOf(d)' = TimeOf(d)
     \/ /\ row'[d].invoice \in {row[d].invoice, None}
        /\ row[d].invoice \in amended' \cup {None}

LEMMA StopFollows ==
  ASSUME TypeInv, Owned, NEW e \in Entries, NEW m \in Minutes, StopTimer(e, m),
         row[e].is = "running" => row[e].invoice \in amended' \cup {None}
  PROVE  \A d \in Entries : Follows(d)
<1>1. CASE row[e].is = "running"
  <2>1. /\ row'[e].invoice = row[e].invoice /\ row'[e].user = row[e].user
        /\ \A d \in Entries \ {e} : row'[d] = row[d]
    BY <1>1 DEF TypeInv, StopTimer, Entry
  <2> QED
    BY <1>1, <2>1 DEF Follows, TimeOf, Owned, Exists
<1>2. CASE row[e].is # "running"
  <2>1. \A d \in Entries : row'[d] = row[d]
    BY <1>2 DEF TypeInv, StopTimer, Entry
  <2> QED
    BY <2>1 DEF Follows, TimeOf, Owned, Exists
<1> QED
  BY <1>1, <1>2

LEMMA TimersFollow ==
  ASSUME TypeInv, Clean, Owned, TrackTime
  PROVE  \A d \in Entries : Follows(d)
<1>0. ASSUME UNCHANGED row PROVE \A d \in Entries : Follows(d)
  BY <1>0 DEF Follows, TimeOf, Owned, Exists
<1>1. ASSUME NEW h \in Handlers, NEW u \in Users, NEW p \in Projects \cup {None}, NEW b \in BOOLEAN,
             NEW ok \in BOOLEAN, StartReads(h, u, [project |-> p, billable |-> b], ok)
      PROVE  \A d \in Entries : Follows(d)
  BY <1>1, <1>0 DEF StartReads, tables
<1>2. ASSUME NEW h \in Handlers, NEW m \in Minutes, StopPrior(h, m)
      PROVE  \A d \in Entries : Follows(d)
  <2> DEFINE e == req[h].prior
  <2>1. e \in Entries
    BY <1>2 DEF StopPrior, TypeInv, Shape
  <2>2. CASE StopTimer(e, m) /\ amended' = IF row[e].is = "running" THEN amended \cup InvoiceOf(e) ELSE amended
    BY <2>1, <2>2, StopFollows DEF InvoiceOf
  <2> QED
    BY <1>2, <1>0, <2>2 DEF StopPrior
<1>3. ASSUME NEW h \in Handlers, NEW e \in Entries, StartTimer(h, e)
      PROVE  \A d \in Entries : Follows(d)
  <2>1. /\ row[e].is = "free" /\ req[h].user \in Users
        /\ row' = [row EXCEPT ![e] = [is |-> "running", user |-> req[h].user, project |-> req[h].new.project,
                     minutes |-> 0, billable |-> req[h].new.billable, invoice |-> None]]
    BY <1>3 DEF StartTimer, TypeInv, Shape
  <2>2. row'[e].user \in Users /\ row'[e].invoice = None /\ \A d \in Entries \ {e} : row'[d] = row[d]
    BY <2>1 DEF TypeInv
  <2> QED
    BY <2>1, <2>2 DEF Follows, TimeOf, Owned, Exists, Clean
<1>4. ASSUME NEW e \in Entries, NEW m \in Minutes, Stop(e, m)
      PROVE  \A d \in Entries : Follows(d)
  BY <1>4, StopFollows DEF Stop, InvoiceOf
<1>5. ASSUME NEW e \in Entries, NEW m \in Minutes, NEW p \in Projects \cup {None}, NEW b \in BOOLEAN,
             Edit(e, p, m, b)
      PROVE  \A d \in Entries : Follows(d)
  <2>1. /\ row'[e].invoice = row[e].invoice /\ row'[e].user = row[e].user
        /\ \A d \in Entries \ {e} : row'[d] = row[d]
    BY <1>5 DEF Edit, UpdateTimeEntry, TypeInv, Entry
  <2>2. row[e].invoice \in amended' \cup {None} /\ Exists(e)
    BY <1>5 DEF Edit, InvoiceOf
  <2> QED
    BY <2>1, <2>2 DEF Follows, TimeOf, Owned, Exists
<1>6. ASSUME NEW e \in Entries, NEW u \in Users, NEW m \in Minutes, NEW p \in Projects \cup {None},
             NEW b \in BOOLEAN, Log(e, u, p, m, b)
      PROVE  \A d \in Entries : Follows(d)
  <2>1. row'[e].user \in Users /\ row'[e].invoice = None /\ row[e].is = "free"
        /\ \A d \in Entries \ {e} : row'[d] = row[d]
    BY <1>6 DEF Log, CreateTimeEntry, TypeInv
  <2> QED
    BY <2>1 DEF Follows, TimeOf, Owned, Exists, Clean
<1>7. ASSUME NEW e \in Entries, Remove(e)
      PROVE  \A d \in Entries : Follows(d)
  <2>1. row'[e].invoice = None /\ row'[e].is = "deleted" /\ \A d \in Entries \ {e} : row'[d] = row[d]
    BY <1>7 DEF Remove, DeleteTimeEntry, NoEntry, TypeInv
  <2>2. row[e].invoice \in amended' \cup {None}
    BY <1>7 DEF Remove, InvoiceOf
  <2> QED
    BY <2>1, <2>2 DEF Follows, TimeOf, Owned, Exists
<1>8. ASSUME NEW S \in SUBSET Entries, NEW p \in Projects \cup {None}, MoveTask(S, p)
      PROVE  \A d \in Entries : Follows(d)
  <2>1. \A d \in Entries : /\ row'[d].invoice = row[d].invoice /\ row'[d].is = row[d].is
                           /\ row'[d].user = row[d].user /\ row'[d].minutes = row[d].minutes
    BY <1>8 DEF MoveTask, TypeInv, Entry
  <2> QED
    BY <2>1 DEF Follows, TimeOf, Owned, Exists
<1> QED
  <2>1. CASE \E h \in Handlers :
               \/ \E u \in Users, p \in Projects \cup {None}, b \in BOOLEAN, ok \in BOOLEAN :
                    StartReads(h, u, [project |-> p, billable |-> b], ok)
               \/ \E m \in Minutes : StopPrior(h, m)
               \/ \E e \in Entries : StartTimer(h, e)
    BY <2>1, <1>1, <1>2, <1>3
  <2>2. CASE \E e \in Entries, m \in Minutes :
               \/ Stop(e, m)
               \/ \E p \in Projects \cup {None}, b \in BOOLEAN :
                    \/ Edit(e, p, m, b)
                    \/ \E u \in Users : Log(e, u, p, m, b)
    BY <2>2, <1>4, <1>5, <1>6
  <2> QED
    BY <2>1, <2>2, <1>7, <1>8, Zenon DEF TrackTime

(* The requests for timers are not those for invoices.                     *)
LEMMA TimersApart ==
  ASSUME TypeInv, TrackTime
  PROVE  /\ UNCHANGED <<status, lines, stale>> /\ amended \subseteq amended'
         /\ incident => incident'
         /\ \A h \in Handlers : \/ req'[h] = req[h]
                                \/ /\ req[h].at \in {"idle", "stop", "start"}
                                   /\ req'[h].at \in {"idle", "stop", "start"}
<1>1. UNCHANGED <<status, lines, stale>> /\ amended \subseteq amended'
  BY DEF TrackTime, StartReads, StopPrior, StartTimer, Stop, Edit, Log, Remove, MoveTask, history, tables
<1>2. incident => incident'
  BY DEF TrackTime, StartReads, StopPrior, StartTimer, Stop, Edit, Log, Remove, MoveTask, history, tables
<1> DEFINE Apart(h) == \/ req'[h] = req[h]
                       \/ /\ req[h].at \in {"idle", "stop", "start"}
                          /\ req'[h].at \in {"idle", "stop", "start"}
<1>3. ASSUME UNCHANGED req PROVE \A g \in Handlers : Apart(g)
  BY <1>3
<1>4. ASSUME NEW h \in Handlers, NEW u, NEW b, NEW ok, StartReads(h, u, b, ok)
      PROVE  \A g \in Handlers : Apart(g)
  <2>1. PICK prior : Begin(h, [Idle EXCEPT !.at = IF prior = None THEN "start" ELSE "stop",
                                           !.user = u, !.prior = prior, !.new = b])
    BY <1>4 DEF StartReads
  <2> DEFINE r == [Idle EXCEPT !.at = IF prior = None THEN "start" ELSE "stop",
                               !.user = u, !.prior = prior, !.new = b]
  <2>2. r.at \in {"start", "stop"}
    BY DEF Idle
  <2> HIDE DEF r
  <2>3. req[h] = Idle /\ req' = [req EXCEPT ![h] = r]
    BY <2>1 DEF Begin, r
  <2>4. req[h].at = "idle"
    BY <2>3 DEF Idle
  <2> QED
    BY <2>2, <2>3, <2>4 DEF TypeInv
<1>5. ASSUME NEW h \in Handlers, NEW m, StopPrior(h, m)
      PROVE  \A g \in Handlers : Apart(g)
  BY <1>5 DEF StopPrior, TypeInv, Shape
<1>6. ASSUME NEW h \in Handlers, NEW e, StartTimer(h, e)
      PROVE  \A g \in Handlers : Apart(g)
  BY <1>6 DEF StartTimer, Answer, Idle, TypeInv
<1> HIDE DEF Apart
<1>7. CASE \E h \in Handlers :
             \/ \E u \in Users, p \in Projects \cup {None}, b \in BOOLEAN, ok \in BOOLEAN :
                  StartReads(h, u, [project |-> p, billable |-> b], ok)
             \/ \E m \in Minutes : StopPrior(h, m)
             \/ \E e \in Entries : StartTimer(h, e)
  <2>1. \A g \in Handlers : Apart(g)
    BY <1>4, <1>5, <1>6, <1>7
  <2> QED
    BY <1>1, <1>2, <2>1 DEF Apart
<1>8. CASE UNCHANGED req
  BY <1>1, <1>2, <1>3, <1>8 DEF Apart
<1>9. CASE \E e \in Entries, m \in Minutes :
             \/ Stop(e, m)
             \/ \E p \in Projects \cup {None}, b \in BOOLEAN :
                  \/ Edit(e, p, m, b)
                  \/ \E u \in Users : Log(e, u, p, m, b)
  BY <1>8, <1>9 DEF Stop, Edit, Log
<1>10. CASE (\E e \in Entries : Remove(e)) \/ (\E S \in (SUBSET Entries) \ {{}}, p \in Projects \cup {None} : MoveTask(S, p))
  BY <1>8, <1>10 DEF Remove, MoveTask
<1> QED
  BY <1>7, <1>9, <1>10, Zenon DEF TrackTime

LEMMA TimersAccount ==
  ASSUME TypeInv, Clean, MakerInv, AccountInv, TrackTime
  PROVE  MakerInv' /\ AccountInv'
<1>1. /\ UNCHANGED <<status, lines, stale>> /\ amended \subseteq amended' /\ (incident => incident')
      /\ \A h \in Handlers : \/ req'[h] = req[h]
                             \/ /\ req[h].at \in {"idle", "stop", "start"}
                                /\ req'[h].at \in {"idle", "stop", "start"}
  BY TimersApart
<1>2. \A d \in Entries : Follows(d)
  BY TimersFollow DEF MakerInv
<1>3. \A h \in Handlers, i \in Invoices : /\ Makes(h, i)' <=> Makes(h, i)
                                          /\ Makes(h, i) => req'[h] = req[h]
  BY <1>1 DEF Makes
<1>4. \A h \in Handlers : req'[h].at \in {"line", "release"} => req'[h] = req[h]
  BY <1>1
<1>5. \A i \in Invoices : i # None
  OBVIOUS
<1>6. \A i \in Invoices : MarkedTime(i) = {} => MarkedTime(i)' = {}
  BY <1>2, <1>5 DEF MarkedTime, Follows
<1>7. \A i \in Invoices \ amended' : MarkedTime(i)' = MarkedTime(i)
  <2> SUFFICES ASSUME NEW i \in Invoices \ amended', NEW e \in Entries
               PROVE  /\ row'[e].invoice = i <=> row[e].invoice = i
                      /\ row[e].invoice = i => TimeOf(e)' = TimeOf(e)
    BY SameMarks
  <2> QED
    BY <1>2, <1>5 DEF Follows
<1>8. MakerInv'
  <2>1. Owned'
    BY <1>2 DEF Follows, Owned
  <2>2. LinesOK' /\ OneMaker' /\ FreshOK'
    BY <1>1, <1>3, <1>6 DEF MakerInv, LinesOK, OneMaker, FreshOK
  <2>3. TodoOK'
    BY <1>4 DEF MakerInv, TodoOK, TodoFine
  <2>4. ReleaseOK'
    BY <1>1, <1>4 DEF MakerInv, ReleaseOK
  <2> QED
    BY <2>1, <2>2, <2>3, <2>4 DEF MakerInv
<1>9. AccountInv'
  <2> SUFFICES ASSUME ~stale', ~incident' PROVE (\A i \in Standing \ amended : Balanced(i))' /\ (\A i \in Invoices : status[i] = "void" => Freed(i))'
    BY DEF AccountInv
  <2>1. ASSUME NEW i \in Invoices, i \in Standing', i \notin amended' PROVE Balanced(i)'
    <3>1. i \in Standing \ amended
      BY <1>1, <2>1 DEF Standing, Issued
    <3> QED
      BY <1>1, <1>3, <1>7, <2>1, <3>1, SameBalance DEF AccountInv
  <2>2. ASSUME NEW i \in Invoices, status'[i] = "void" PROVE Freed(i)'
    <3>1. Freed(i)
      BY <1>1, <2>2 DEF AccountInv
    <3>2. ASSUME NEW h \in Handlers, req[h].at = "release" PROVE req'[h] = req[h]
      BY <1>1, <3>2
    <3> QED
      BY <1>6, <3>1, <3>2 DEF Freed
  <2> QED
    BY <2>1, <2>2 DEF Standing
<1> QED
  BY <1>8, <1>9

-----------------------------------------------------------------------------
(* Steps about invoice i, which leave the others alone.                    *)
Alone(i) ==
  /\ stale => stale'
  /\ incident => incident'
  /\ amended \subseteq amended'
  /\ \A j \in Invoices \ {i} : /\ status'[j] = status[j] /\ lines'[j] = lines[j]
                               /\ MarkedTime(j)' = MarkedTime(j)
  /\ \A h \in Handlers : req'[h] # req[h] =>
       /\ req[h].at \in {"unbilled", "line", "release"} => req[h].invoice = i
       /\ req'[h].at \in {"unbilled", "line", "release"} => req'[h].invoice = i

LEMMA AloneAccount ==
  ASSUME AccountInv, NEW i, Alone(i),
         i \in Invoices /\ ~stale' /\ ~incident' =>
           /\ i \in Standing' /\ i \notin amended' => Balanced(i)'
           /\ status'[i] = "void" => Freed(i)'
  PROVE  AccountInv'
<1> SUFFICES ASSUME ~stale', ~incident', NEW j \in Invoices, j # i
             PROVE  /\ j \in Standing' /\ j \notin amended' => Balanced(j)'
                    /\ status'[j] = "void" => Freed(j)'
  BY DEF AccountInv, Standing
<1>0. ~stale /\ ~incident
  BY DEF Alone
<1>1. /\ status'[j] = status[j] /\ lines'[j] = lines[j] /\ MarkedTime(j)' = MarkedTime(j)
      /\ \A h \in Handlers : Makes(h, j) \/ Makes(h, j)' => req'[h] = req[h]
      /\ \A h \in Handlers : req[h].at = "release" /\ req[h].invoice = j => req'[h] = req[h]
  BY DEF Alone, Makes
<1>2. j \in Standing' /\ j \notin amended' => j \in Standing \ amended
  BY <1>1 DEF Standing, Issued, Alone
<1>3. j \in Standing \ amended => Balanced(j)'
  BY <1>0, <1>1, SameBalance DEF AccountInv
<1>4. status[j] = "void" => Freed(j)'
  BY <1>0, <1>1 DEF AccountInv, Freed
<1> QED
  BY <1>1, <1>2, <1>3, <1>4

LEMMA AloneMakers ==
  ASSUME TypeInv', MakerInv, NEW i, Alone(i), Owned', LinesOK',
         \A h \in Handlers : req'[h] = req[h] \/ (req'[h].at = "line" => TodoFine(h)'),
         \/ \A h \in Handlers : Makes(h, i)' => Makes(h, i)
         \/ \A g, h \in Handlers : Makes(g, i)' /\ Makes(h, i)' => g = h,
         i \in Invoices =>
           /\ status'[i] = "free" => /\ status[i] = "free" /\ lines'[i] = lines[i] /\ MarkedTime(i)' = {}
                                     /\ \A h \in Handlers : Makes(h, i)' => Makes(h, i)
           /\ \/ status'[i] \in {"void", "deleted"} \/ i \in amended'
              \/ /\ status[i] \notin {"void", "deleted"} \/ status'[i] = status[i]
                 /\ \A h \in Handlers : req'[h].at = "release" => req'[h] = req[h]
  PROVE  MakerInv'
<1>1. \A j \in Invoices \ {i}, h \in Handlers : Makes(h, j)' => Makes(h, j)
  BY DEF Alone, Makes
<1>2. TodoOK'
  BY DEF MakerInv, TodoOK, TodoFine
<1>3. OneMaker'
  <2> SUFFICES ASSUME NEW j \in Invoices, NEW g \in Handlers, NEW h \in Handlers, Makes(g, j)', Makes(h, j)'
               PROVE  g = h
    BY DEF OneMaker
  <2>1. (Makes(g, j) /\ Makes(h, j)) => g = h
    BY DEF MakerInv, OneMaker
  <2> QED
    BY <1>1, <2>1
<1>4. FreshOK'
  <2> SUFFICES ASSUME NEW j \in Invoices, status'[j] = "free"
               PROVE  lines'[j] = <<>> /\ MarkedTime(j)' = {} /\ \A h \in Handlers : ~Makes(h, j)'
    BY DEF FreshOK
  <2>1. CASE j = i
    BY <2>1 DEF MakerInv, FreshOK
  <2>2. CASE j # i
    BY <1>1, <2>2 DEF MakerInv, FreshOK, Alone
  <2> QED
    BY <2>1, <2>2
<1>5. ReleaseOK'
  <2> SUFFICES ASSUME NEW h \in Handlers, req'[h].at = "release"
               PROVE  status'[req'[h].invoice] \in {"void", "deleted"} \/ req'[h].invoice \in amended'
    BY DEF ReleaseOK
  <2> DEFINE j == req'[h].invoice
  <2>1. j \in Invoices
    BY DEF TypeInv, Shape
  <2>2. CASE req'[h] = req[h]
    <3>1. status[j] \in {"void", "deleted"} \/ j \in amended
      BY <2>2 DEF MakerInv, ReleaseOK
    <3>2. CASE j = i
      BY <2>1, <3>1, <3>2 DEF Alone
    <3>3. CASE j # i
      BY <2>1, <3>1, <3>3 DEF Alone
    <3> QED
      BY <3>2, <3>3
  <2>3. CASE req'[h] # req[h]
    BY <2>1, <2>3 DEF Alone
  <2> QED
    BY <2>2, <2>3
<1> QED
  BY <1>2, <1>3, <1>4, <1>5 DEF MakerInv

LEMMA SameRow ==
  ASSUME UNCHANGED row
  PROVE  (Owned => Owned') /\ \A j \in Invoices : MarkedTime(j)' = MarkedTime(j)
BY DEF Owned, Exists, MarkedTime, TimeOf

LEMMA ReleaseMarks ==
  ASSUME TypeInv, Owned, NEW i \in Invoices, ReleaseInvoiceTime(i)
  PROVE  /\ Owned' /\ MarkedTime(i)' = {}
         /\ \A j \in Invoices \ {i} : MarkedTime(j)' = MarkedTime(j)
<1>1. \A e \in Entries : /\ row'[e].is = row[e].is /\ row'[e].user = row[e].user /\ row'[e].minutes = row[e].minutes
                         /\ row'[e].invoice = IF row[e].invoice = i THEN None ELSE row[e].invoice
  BY DEF ReleaseInvoiceTime, TypeInv, Entry
<1>2. Owned'
  BY <1>1 DEF Owned, Exists
<1>3. MarkedTime(i)' = {}
  BY <1>1 DEF MarkedTime
<1>4. ASSUME NEW j \in Invoices \ {i} PROVE MarkedTime(j)' = MarkedTime(j)
  BY <1>1, SameMarks DEF TimeOf
<1> QED
  BY <1>2, <1>3, <1>4

LEMMA MarkMarks ==
  ASSUME TypeInv, Owned, NEW i \in Invoices, NEW p, MarkProjectTimeInvoiced(i, p)
  PROVE  /\ Owned' /\ (MarkedTime(i) = {} => MarkedTime(i)' = Time(p))
         /\ \A j \in Invoices \ {i} : MarkedTime(j)' = MarkedTime(j)
<1>1. \A e \in Entries : /\ row'[e].is = row[e].is /\ row'[e].user = row[e].user /\ row'[e].minutes = row[e].minutes
                         /\ row'[e].invoice = IF e \in Unbilled(p) THEN i ELSE row[e].invoice
  BY DEF MarkProjectTimeInvoiced, TypeInv, Entry
<1>2. Owned'
  BY <1>1 DEF Owned, Exists
<1>3. ASSUME MarkedTime(i) = {} PROVE MarkedTime(i)' = Time(p)
  <2>1. \A e \in Entries : row'[e].invoice = i <=> e \in Unbilled(p)
    BY <1>1, <1>3, Unmarked
  <2>2. Unbilled(p) \subseteq Entries
    BY DEF Unbilled
  <2> QED
    BY <1>1, <2>1, <2>2 DEF MarkedTime, Time, TimeOf
<1>4. \A e \in Unbilled(p) : row[e].invoice = None
  BY DEF Unbilled
<1>5. ASSUME NEW j \in Invoices \ {i} PROVE MarkedTime(j)' = MarkedTime(j)
  BY <1>1, <1>4, SameMarks DEF TimeOf
<1> QED
  BY <1>2, <1>3, <1>5

LEMMA ReqIs ==
  ASSUME TypeInv, NEW h \in Handlers, NEW r, req' = [req EXCEPT ![h] = r]
  PROVE  req'[h] = r /\ \A g \in Handlers \ {h} : req'[g] = req[g]
BY DEF TypeInv

(* The statements of generate.                                             *)
LEMMA GenerateAccount ==
  ASSUME TypeInv, TypeInv', MakerInv, AccountInv, NEW h \in Handlers, NEW p \in Projects, Generate(h, p)
  PROVE  MakerInv' /\ AccountInv'
<1>1. req[h].at = "idle" /\ req'[h].at = "create" /\ \A g \in Handlers \ {h} : req'[g] = req[g]
  <2> DEFINE r == [Idle EXCEPT !.at = "create", !.project = p]
  <2>1. r.at = "create" /\ Idle.at = "idle"
    BY DEF Idle
  <2> HIDE DEF r
  <2>2. req[h] = Idle /\ req' = [req EXCEPT ![h] = r]
    BY DEF Generate, Begin, r
  <2> QED
    BY <2>1, <2>2, ReqIs
<1>2. UNCHANGED <<row, status, lines, stale, incident, amended>>
  BY DEF Generate, tables, history
<1>3. Owned' /\ LinesOK' /\ \A j \in Invoices : MarkedTime(j)' = MarkedTime(j)
  BY <1>2, SameRow DEF MakerInv, LinesOK
<1>4. Alone(None)
  BY <1>1, <1>2, <1>3 DEF Alone
<1>5. \A g \in Handlers : Makes(g, None)' => Makes(g, None)
  BY <1>1 DEF Makes
<1> QED
  BY <1>1, <1>3, <1>4, <1>5, AloneAccount, AloneMakers

LEMMA GenerateInvoiceAccount ==
  ASSUME TypeInv, TypeInv', MakerInv, AccountInv, NEW h \in Handlers, NEW i \in Invoices, GenerateInvoice(h, i)
  PROVE  MakerInv' /\ AccountInv'
<1>1. /\ req[h].at = "create" /\ req'[h].at = "unbilled" /\ req'[h].invoice = i
      /\ \A g \in Handlers \ {h} : req'[g] = req[g]
  BY DEF GenerateInvoice, TypeInv, Shape
<1>2. /\ UNCHANGED <<row, lines, stale, incident, amended>> /\ status[i] = "free" /\ status'[i] = "draft"
      /\ \A j \in Invoices \ {i} : status'[j] = status[j]
  BY DEF GenerateInvoice, CreateInvoice, history, TypeInv
<1>3. Owned' /\ LinesOK' /\ \A j \in Invoices : MarkedTime(j)' = MarkedTime(j)
  BY <1>2, SameRow DEF MakerInv, LinesOK
<1>4. Alone(i)
  BY <1>1, <1>2, <1>3 DEF Alone
<1>5. \A g \in Handlers : Makes(g, i)' <=> g = h
  BY <1>1, <1>2 DEF Makes, MakerInv, FreshOK
<1>6. MarkedTime(i)' = {} /\ lines'[i] = <<>>
  BY <1>2, <1>3 DEF MakerInv, FreshOK
<1>7. Balanced(i)'
  BY <1>1, <1>5, <1>6, NoLines DEF Balanced
<1>8. AccountInv'
  BY <1>2, <1>4, <1>7, AloneAccount
<1>9. MakerInv'
  BY <1>1, <1>2, <1>3, <1>4, <1>5, AloneMakers
<1> QED
  BY <1>8, <1>9

(* Only the lines of invoice i are written.                                *)
LEMMA LineOfOne ==
  ASSUME LinesOK, NEW i \in Invoices, NEW s, lines' = [lines EXCEPT ![i] = s],
         \E S : lines'[i] \in Seq(S)
  PROVE  LinesOK'
BY DEF LinesOK

LEMMA UnbilledAccount ==
  ASSUME TypeInv, TypeInv', MakerInv, AccountInv, NEW h \in Handlers, UnbilledTimeByUser(h)
  PROVE  MakerInv' /\ AccountInv'
<1>0. PICK i, time : i = req[h].invoice /\ time = Time(req[h].project)
  OBVIOUS
<1> DEFINE todo == {LineFor(u, time) : u \in Groups(time)}
<1>1. /\ req[h].at = "unbilled" /\ req[h].invoice = i /\ i \in Invoices
      /\ req' = [req EXCEPT ![h] = [req[h] EXCEPT !.at = "line", !.time = time, !.todo = todo]]
      /\ UNCHANGED <<row, status, lines, stale, incident, amended>>
  <2>1. req[h].at = "unbilled" /\ UNCHANGED <<row, status, lines, stale, incident, amended>>
    BY DEF UnbilledTimeByUser, tables, history
  <2>2. req' = [req EXCEPT ![h].at = "line", ![h].time = time, ![h].todo = todo]
    BY <1>0 DEF UnbilledTimeByUser, LineFor
  <2> HIDE DEF todo
  <2>3. req' = [req EXCEPT ![h] = [req[h] EXCEPT !.at = "line", !.time = time, !.todo = todo]]
    BY <2>2 DEF TypeInv
  <2> QED
    BY <1>0, <2>1, <2>3 DEF TypeInv, Shape
<1>2. \A u \in Users : IF MinutesOf(u, time) > 0
                       THEN LineFor(u, time) \in todo /\ \A l \in todo : l.user = u => l = LineFor(u, time)
                       ELSE \A l \in todo : l.user # u
  BY DEF Groups, LineFor
<1>3. \A l \in todo : l.user \in Users
  BY DEF Groups, LineFor
<1> HIDE DEF todo
<1>4. /\ req'[h].at = "line" /\ req'[h].invoice = i /\ req'[h].time = time /\ req'[h].todo = todo
      /\ \A g \in Handlers \ {h} : req'[g] = req[g]
  BY <1>1 DEF TypeInv, Shape
<1>5. TodoFine(h)'
  BY <1>3, <1>4 DEF TodoFine
<1>6. Owned' /\ LinesOK' /\ \A j \in Invoices : MarkedTime(j)' = MarkedTime(j)
  BY <1>1, SameRow DEF MakerInv, LinesOK
<1>7. Alone(i) /\ \A g \in Handlers : Makes(g, i)' <=> Makes(g, i)
  BY <1>1, <1>4, <1>6 DEF Alone, Makes
<1>8. status[i] # "free"
  BY <1>1 DEF MakerInv, FreshOK, Makes
<1>9. MakerInv'
  BY <1>1, <1>4, <1>5, <1>6, <1>7, <1>8, AloneMakers
<1>10. ASSUME ~stale', ~incident', i \in Standing', i \notin amended' PROVE Balanced(i)'
  <2>1. i \in Standing \ amended /\ ~stale /\ ~incident
    BY <1>1, <1>10 DEF Standing, Issued
  <2>2. MarkedTime(i) = {} /\ \A u \in Users : LinesOf(u, lines[i]) = {}
    BY <1>1, <2>1 DEF AccountInv, Balanced, Makes
  <2>3. \A u \in Users : Charging(lines[i], todo, u, time)
    BY <1>2, <2>2, ChargesLine DEF Charging
  <2>4. \A g \in Handlers : Makes(g, i)' <=> g = h
    BY <1>1, <1>7 DEF MakerInv, OneMaker, Makes
  <2>5. lines'[i] = lines[i] /\ MarkedTime(i)' = {}
    BY <1>1, <1>6, <2>2
  <2> QED
    BY <1>4, <2>3, <2>4, <2>5 DEF Balanced
<1>11. ASSUME ~stale', ~incident', status'[i] = "void" PROVE Freed(i)'
  <2>1. Freed(i)
    BY <1>1, <1>11 DEF AccountInv
  <2>2. \A g \in Handlers : req[g].at = "release" => req'[g] = req[g]
    BY <1>1, <1>4
  <2> QED
    BY <1>1, <1>6, <2>1, <2>2 DEF Freed
<1>12. AccountInv'
  BY <1>7, <1>10, <1>11, AloneAccount
<1> QED
  BY <1>9, <1>12

LEMMA KeptBalance ==
  ASSUME NEW i \in Invoices, UNCHANGED req, MarkedTime(i)' = MarkedTime(i), LinesKept(lines[i], lines'[i])
  PROVE  Balanced(i) => Balanced(i)'
<1>1. \A h \in Handlers : Makes(h, i)' <=> Makes(h, i)
  BY DEF Makes
<1>2. ASSUME NEW u \in Users, NEW h \in Handlers, Charging(lines[i], req[h].todo, u, req[h].time)
      PROVE  Charging(lines'[i], req[h].todo, u, req[h].time)
  <2>1. PICK s, t, todo, time : s = lines[i] /\ t = lines'[i] /\ todo = req[h].todo /\ time = req[h].time
    OBVIOUS
  <2> QED
    BY <1>2, <2>1, KeptCharging
<1>3. ASSUME NEW u \in Users, Charges(lines[i], u, MarkedTime(i)) PROVE Charges(lines'[i], u, MarkedTime(i))
  <2>1. PICK s, t, time : s = lines[i] /\ t = lines'[i] /\ time = MarkedTime(i)
    OBVIOUS
  <2> QED
    BY <1>3, <2>1, KeptCharges
<1>4. \A u \in Users : LinesOf(u, lines[i]) = {} => LinesOf(u, lines'[i]) = {}
  BY DEF LinesKept
<1> QED
  BY <1>1, <1>2, <1>3, <1>4 DEF Balanced

LEMMA GenerateLineAccount ==
  ASSUME TypeInv, TypeInv', MakerInv, AccountInv, NEW h \in Handlers, NEW line \in req[h].todo, GenerateLine(h, line)
  PROVE  MakerInv' /\ AccountInv'
<1>0. PICK i, s, t, todo, time : /\ i = req[h].invoice /\ s = lines[i] /\ t = lines'[i]
                                 /\ todo = req[h].todo /\ time = req[h].time
  OBVIOUS
<1>1. /\ req[h].at = "line" /\ req[h].invoice = i /\ i \in Invoices /\ Issued(i)
      /\ UNCHANGED <<row, status, stale, incident, amended>>
      /\ req' = [req EXCEPT ![h].todo = @ \ {line}]
      /\ lines' = [lines EXCEPT ![i] = Append(@, line)]
  BY <1>0 DEF GenerateLine, AddInvoiceLine, history, TypeInv, Shape
<1>2. /\ req'[h].at = "line" /\ req'[h].invoice = i /\ req'[h].time = time
      /\ req'[h].todo = todo \ {line} /\ \A g \in Handlers \ {h} : req'[g] = req[g]
  BY <1>0, <1>1 DEF TypeInv, Shape
<1>3. TodoFine(h) /\ TodoFine(h)'
  BY <1>0, <1>1, <1>2 DEF MakerInv, TodoOK, TodoFine
<1>4. t = Append(s, line) /\ \A j \in Invoices \ {i} : lines'[j] = lines[j]
  BY <1>0, <1>1 DEF MakerInv, LinesOK
<1>5. PICK S : s \in Seq(S)
  BY <1>0, <1>1 DEF MakerInv, LinesOK
<1>6. t \in Seq(S \cup {line}) /\ OneMade(s, t, line)
  BY <1>4, <1>5, LineMade
<1>7. ASSUME NEW u \in Users, Charging(s, todo, u, time) PROVE Charging(t, todo \ {line}, u, time)
  <2>1. line \in todo
    BY <1>0
  <2>2. CASE u = line.user
    <3>1. MinutesOf(u, time) > 0 /\ LinesOf(u, s) = {} /\ line = LineFor(u, time)
      BY <1>7, <2>1, <2>2 DEF Charging
    <3>2. \A l \in todo \ {line} : l.user # u
      BY <1>7, <2>1, <2>2, <3>1 DEF Charging
    <3>3. line.minutes = ToInt32(MinutesOf(u, time))
      BY <3>1 DEF LineFor
    <3>4. Charges(t, u, time)
      BY <1>6, <2>2, <3>1, <3>3, ChargesLine DEF OneMade
    <3> QED
      BY <3>2, <3>4 DEF Charging
  <2>3. CASE u # line.user
    <3>1. Charges(s, u, time) => Charges(t, u, time)
      BY <1>6, <2>3, ChargesLine DEF OneMade
    <3>2. LinesOf(u, t) = LinesOf(u, s)
      BY <1>6, <2>3 DEF OneMade
    <3>3. LineFor(u, time).user = u
      BY DEF LineFor
    <3>4. LineFor(u, time) # line
      BY <2>3, <3>3
    <3> QED
      BY <1>7, <3>1, <3>2, <3>4 DEF Charging
  <2> QED
    BY <2>2, <2>3
<1>8. Owned' /\ \A j \in Invoices : MarkedTime(j)' = MarkedTime(j)
  BY <1>1, SameRow DEF MakerInv
<1>9. LinesOK'
  BY <1>0, <1>1, <1>6, LineOfOne DEF MakerInv
<1>10. Alone(i) /\ \A g \in Handlers : Makes(g, i)' <=> Makes(g, i)
  BY <1>1, <1>2, <1>4, <1>8 DEF Alone, Makes
<1>11. MakerInv'
  <2>1. status[i] # "free"
    BY <1>1 DEF Issued, Statuses
  <2> QED
    BY <1>1, <1>2, <1>3, <1>8, <1>9, <1>10, <2>1, AloneMakers
<1>12. ASSUME ~stale', ~incident', i \in Standing', i \notin amended' PROVE Balanced(i)'
  <2>1. i \in Standing \ amended /\ ~stale /\ ~incident
    BY <1>1, <1>12 DEF Standing, Issued
  <2>2. MarkedTime(i) = {} /\ \A u \in Users : Charging(s, todo, u, time)
    BY <1>0, <1>1, <2>1 DEF AccountInv, Balanced, Makes
  <2>3. \A g \in Handlers : Makes(g, i)' <=> g = h
    BY <1>1, <1>10 DEF MakerInv, OneMaker, Makes
  <2>4. \A u \in Users : Charging(t, todo \ {line}, u, time)
    BY <1>7, <2>2
  <2>5. MarkedTime(i)' = {}
    BY <1>1, <1>8, <2>2
  <2> QED
    BY <1>0, <1>2, <2>3, <2>4, <2>5 DEF Balanced
<1>13. ASSUME ~stale', ~incident', status'[i] = "void" PROVE Freed(i)'
  <2>1. Freed(i)
    BY <1>1, <1>13 DEF AccountInv
  <2>2. \A g \in Handlers : req[g].at = "release" => req'[g] = req[g]
    BY <1>1, <1>2
  <2> QED
    BY <1>1, <1>8, <2>1, <2>2 DEF Freed
<1>14. AccountInv'
  BY <1>10, <1>12, <1>13, AloneAccount
<1> QED
  BY <1>11, <1>14

LEMMA MarksAccount ==
  ASSUME TypeInv, TypeInv', MakerInv, AccountInv, NEW h \in Handlers, GenerateMarks(h)
  PROVE  MakerInv' /\ AccountInv'
<1>0. PICK i, p : i = req[h].invoice /\ p = req[h].project
  OBVIOUS
<1>1. /\ req[h].at = "line" /\ req[h].invoice = i /\ i \in Invoices /\ Issued(i) /\ req[h].todo = {}
      /\ UNCHANGED <<status, lines, incident, amended>> /\ MarkProjectTimeInvoiced(i, p)
      /\ stale' = (stale \/ Time(p) # req[h].time \/ status[i] = "void") /\ req' = [req EXCEPT ![h] = Idle]
  BY <1>0 DEF GenerateMarks, Answer, TypeInv, Shape
<1>2. req'[h].at = "idle" /\ \A g \in Handlers \ {h} : req'[g] = req[g]
  <2>1. Idle.at = "idle"
    BY DEF Idle
  <2>2. req'[h] = Idle /\ \A g \in Handlers \ {h} : req'[g] = req[g]
    BY <1>1, ReqIs
  <2> QED
    BY <2>1, <2>2
<1>3. /\ Owned' /\ (MarkedTime(i) = {} => MarkedTime(i)' = Time(p))
      /\ \A j \in Invoices \ {i} : MarkedTime(j)' = MarkedTime(j)
  BY <1>1, MarkMarks DEF MakerInv
<1>4. Alone(i)
  BY <1>1, <1>2, <1>3 DEF Alone
<1>5. \A g \in Handlers : ~Makes(g, i)'
  BY <1>1, <1>2 DEF MakerInv, OneMaker, Makes
<1>6. MakerInv'
  <2>1. status[i] # "free" /\ LinesOK'
    BY <1>1 DEF Issued, Statuses, MakerInv, LinesOK
  <2>2. \A g \in Handlers : req'[g] = req[g] \/ req'[g].at = "idle"
    BY <1>2
  <2> QED
    BY <1>1, <1>3, <1>4, <1>5, <2>1, <2>2, AloneMakers
<1>7. ASSUME ~stale', ~incident', i \in Standing', i \notin amended' PROVE Balanced(i)'
  <2>1. i \in Standing \ amended /\ ~stale /\ ~incident /\ Time(p) = req[h].time
    BY <1>1, <1>7 DEF Standing, Issued
  <2>2. MarkedTime(i) = {} /\ \A u \in Users : Charging(lines[i], {}, u, req[h].time)
    BY <1>1, <2>1 DEF AccountInv, Balanced, Makes
  <2>3. \A u \in Users : Charges(lines[i], u, Time(p))
    BY <2>1, <2>2 DEF Charging
  <2>4. lines'[i] = lines[i] /\ MarkedTime(i)' = Time(p)
    BY <1>1, <1>3, <2>2
  <2> QED
    BY <1>5, <2>3, <2>4 DEF Balanced
<1>8. ~stale' => status'[i] # "void"
  BY <1>1
<1> QED
  BY <1>4, <1>6, <1>7, <1>8, AloneAccount

(* The invoice is gone, voided, deleted, or given another status.          *)
LEMMA GoneAccount ==
  ASSUME TypeInv, TypeInv', MakerInv, AccountInv, NEW h \in Handlers, InvoiceGone(h)
  PROVE  MakerInv' /\ AccountInv'
<1>0. PICK i : i = req[h].invoice
  OBVIOUS
<1>1. /\ req[h].at = "line" /\ req[h].invoice = i /\ i \in Invoices /\ ~Issued(i)
      /\ UNCHANGED <<row, status, lines, stale, incident, amended>> /\ req' = [req EXCEPT ![h] = Idle]
  BY <1>0 DEF InvoiceGone, Answer, tables, history, TypeInv, Shape
<1>2. req'[h].at = "idle" /\ \A g \in Handlers \ {h} : req'[g] = req[g]
  <2>1. Idle.at = "idle"
    BY DEF Idle
  <2>2. req'[h] = Idle /\ \A g \in Handlers \ {h} : req'[g] = req[g]
    BY <1>1, ReqIs
  <2> QED
    BY <2>1, <2>2
<1>3. Owned' /\ LinesOK' /\ \A j \in Invoices : MarkedTime(j)' = MarkedTime(j)
  BY <1>1, SameRow DEF MakerInv, LinesOK
<1>4. Alone(i) /\ \A g \in Handlers : Makes(g, i)' => Makes(g, i)
  BY <1>1, <1>2, <1>3 DEF Alone, Makes
<1>5. status'[i] = "deleted"
  BY <1>1 DEF TypeInv, Issued, Statuses, MakerInv, FreshOK, Makes
<1>6. MakerInv'
  <2>1. \A g \in Handlers : req'[g] = req[g] \/ req'[g].at = "idle"
    BY <1>2
  <2> QED
    BY <1>3, <1>4, <1>5, <2>1, AloneMakers
<1>7. i \notin Standing'
  BY <1>5 DEF Standing, Issued, Statuses
<1> QED
  BY <1>4, <1>5, <1>6, <1>7, AloneAccount

LEMMA ReleaseAccount ==
  ASSUME TypeInv, TypeInv', MakerInv, AccountInv, NEW h \in Handlers, VoidReleases(h)
  PROVE  MakerInv' /\ AccountInv'
<1>0. PICK i : i = req[h].invoice
  OBVIOUS
<1>1. /\ req[h].at = "release" /\ req[h].invoice = i /\ i \in Invoices /\ ReleaseInvoiceTime(i)
      /\ UNCHANGED <<status, lines, stale, incident, amended>> /\ req' = [req EXCEPT ![h] = Idle]
  BY <1>0 DEF VoidReleases, Answer, history, TypeInv, Shape
<1>2. req'[h].at = "idle" /\ \A g \in Handlers \ {h} : req'[g] = req[g]
  <2>1. Idle.at = "idle"
    BY DEF Idle
  <2>2. req'[h] = Idle /\ \A g \in Handlers \ {h} : req'[g] = req[g]
    BY <1>1, ReqIs
  <2> QED
    BY <2>1, <2>2
<1>3. Owned' /\ MarkedTime(i)' = {} /\ \A j \in Invoices \ {i} : MarkedTime(j)' = MarkedTime(j)
  BY <1>1, ReleaseMarks DEF MakerInv
<1>4. Alone(i) /\ \A g \in Handlers : Makes(g, i)' => Makes(g, i)
  BY <1>1, <1>2, <1>3 DEF Alone, Makes
<1>5. status[i] \in {"void", "deleted"} \/ i \in amended
  BY <1>1 DEF MakerInv, ReleaseOK
<1>6. MakerInv'
  <2>1. LinesOK' /\ \A g \in Handlers : req'[g] = req[g] \/ req'[g].at = "idle"
    BY <1>1, <1>2 DEF MakerInv, LinesOK
  <2>2. status[i] = "free" => lines'[i] = lines[i]
    BY <1>1
  <2> QED
    BY <1>1, <1>3, <1>4, <1>5, <2>1, <2>2, AloneMakers
<1>7. i \notin Standing' \/ i \in amended'
  BY <1>1, <1>5 DEF Standing, Issued, Statuses
<1>8. Freed(i)'
  BY <1>3 DEF Freed
<1> QED
  BY <1>4, <1>6, <1>7, <1>8, AloneAccount

LEMMA VoidAccount ==
  ASSUME TypeInv, TypeInv', MakerInv, AccountInv, NEW h \in Handlers, NEW i \in Invoices, Void(h, i)
  PROVE  MakerInv' /\ AccountInv'
<1>1. /\ req[h].at = "idle" /\ req'[h].at = "release" /\ req'[h].invoice = i
      /\ \A g \in Handlers \ {h} : req'[g] = req[g]
  <2> DEFINE r == [Idle EXCEPT !.at = "release", !.invoice = i]
  <2>1. r.at = "release" /\ r.invoice = i /\ Idle.at = "idle"
    BY DEF Idle
  <2> HIDE DEF r
  <2>2. req[h] = Idle /\ req' = [req EXCEPT ![h] = r]
    BY DEF Void, Begin, r
  <2> QED
    BY <2>1, <2>2, ReqIs
<1>2. /\ UNCHANGED <<row, lines, stale, incident, amended>> /\ Issued(i)
      /\ status'[i] = "void" /\ \A j \in Invoices \ {i} : status'[j] = status[j]
  BY DEF Void, SetInvoiceStatus, TypeInv
<1>3. Owned' /\ LinesOK' /\ \A j \in Invoices : MarkedTime(j)' = MarkedTime(j)
  BY <1>2, SameRow DEF MakerInv, LinesOK
<1>4. Alone(i) /\ \A g \in Handlers : Makes(g, i)' => Makes(g, i)
  BY <1>1, <1>2, <1>3 DEF Alone, Makes
<1>5. MakerInv'
  <2>1. \A g \in Handlers : req'[g] = req[g] \/ req'[g].at = "release"
    BY <1>1
  <2> QED
    BY <1>2, <1>3, <1>4, <2>1, AloneMakers
<1>6. i \notin Standing' /\ Freed(i)'
  BY <1>1, <1>2 DEF Standing, Freed
<1> QED
  BY <1>4, <1>5, <1>6, AloneAccount

(* Steps of one request.                                                   *)
LEMMA CreateAccount ==
  ASSUME TypeInv, TypeInv', MakerInv, AccountInv, NEW i \in Invoices, Create(i)
  PROVE  MakerInv' /\ AccountInv'
<1>1. /\ UNCHANGED <<row, lines, req, stale, incident, amended>> /\ status[i] = "free"
      /\ status'[i] = "draft" /\ \A j \in Invoices \ {i} : status'[j] = status[j]
  BY DEF Create, CreateInvoice, history, TypeInv
<1>2. Owned' /\ LinesOK' /\ \A j \in Invoices : MarkedTime(j)' = MarkedTime(j)
  BY <1>1, SameRow DEF MakerInv, LinesOK
<1>3. Alone(i) /\ \A g \in Handlers : ~Makes(g, i)'
  BY <1>1, <1>2 DEF Alone, Makes, MakerInv, FreshOK
<1>4. MarkedTime(i)' = {} /\ lines'[i] = <<>>
  BY <1>1, <1>2 DEF MakerInv, FreshOK
<1>5. Balanced(i)'
  <2>1. \A u \in Users : Charges(<<>>, u, {})
    BY NoLines
  <2> QED
    BY <1>3, <1>4, <2>1 DEF Balanced
<1>6. MakerInv'
  BY <1>1, <1>2, <1>3, AloneMakers
<1> QED
  BY <1>1, <1>3, <1>5, <1>6, AloneAccount

LEMMA DeleteAccount ==
  ASSUME TypeInv, TypeInv', MakerInv, AccountInv, NEW i \in Invoices, Delete(i)
  PROVE  MakerInv' /\ AccountInv'
<1>1. /\ UNCHANGED <<req, stale, incident, amended>> /\ ReleaseInvoiceTime(i)
      /\ status'[i] = "deleted" /\ lines' = [lines EXCEPT ![i] = <<>>]
      /\ \A j \in Invoices \ {i} : status'[j] = status[j]
  BY DEF Delete, DeleteInvoice, history, TypeInv
<1>2. Owned' /\ \A j \in Invoices \ {i} : MarkedTime(j)' = MarkedTime(j)
  BY <1>1, ReleaseMarks DEF MakerInv
<1>3. LinesOK' /\ \A j \in Invoices \ {i} : lines'[j] = lines[j]
  <2>1. lines'[i] \in Seq({}) /\ \A j \in Invoices \ {i} : lines'[j] = lines[j]
    BY <1>1 DEF MakerInv, LinesOK
  <2> QED
    BY <1>1, <2>1, LineOfOne DEF MakerInv
<1>4. Alone(i) /\ \A g \in Handlers : Makes(g, i)' => Makes(g, i)
  BY <1>1, <1>2, <1>3 DEF Alone, Makes
<1>5. MakerInv'
  BY <1>1, <1>2, <1>3, <1>4, AloneMakers
<1>6. i \notin Standing'
  BY <1>1 DEF Standing, Issued, Statuses
<1> QED
  BY <1>1, <1>4, <1>5, <1>6, AloneAccount

LEMMA StatusAccount ==
  ASSUME TypeInv, TypeInv', MakerInv, AccountInv, NEW i \in Invoices, NEW s \in Statuses, SetStatus(i, s)
  PROVE  MakerInv' /\ AccountInv'
<1>1. /\ UNCHANGED <<row, lines, req, stale, incident>> /\ Issued(i) /\ status'[i] = s /\ s # "void"
      /\ amended \subseteq amended' /\ (status[i] = "void" => i \in amended')
      /\ \A j \in Invoices \ {i} : status'[j] = status[j]
  BY DEF SetStatus, SetInvoiceStatus, TypeInv
<1>2. Owned' /\ LinesOK' /\ \A j \in Invoices : MarkedTime(j)' = MarkedTime(j)
  BY <1>1, SameRow DEF MakerInv, LinesOK
<1>3. Alone(i) /\ \A g \in Handlers : Makes(g, i)' => Makes(g, i)
  BY <1>1, <1>2 DEF Alone, Makes
<1>4. s # "free" /\ status[i] # "deleted"
  BY <1>1 DEF Statuses, Issued
<1>5. MakerInv'
  BY <1>1, <1>2, <1>3, <1>4, AloneMakers
<1>6. ASSUME ~stale', ~incident', i \notin amended' PROVE Balanced(i)'
  <2>1. i \in Standing \ amended /\ ~stale /\ ~incident
    BY <1>1, <1>6 DEF Standing
  <2>2. Balanced(i)
    BY <2>1 DEF AccountInv
  <2> QED
    BY <1>1, <1>2, <2>2, SameBalance
<1> QED
  BY <1>1, <1>3, <1>5, <1>6, AloneAccount

LEMMA AddLineAccount ==
  ASSUME TypeInv, TypeInv', MakerInv, AccountInv, NEW i \in Invoices, NEW m \in Minutes, AddLine(i, m)
  PROVE  MakerInv' /\ AccountInv'
<1> DEFINE line == [user |-> None, minutes |-> m]
<1>1. /\ UNCHANGED <<row, status, req, stale, incident, amended>> /\ Issued(i)
      /\ lines' = [lines EXCEPT ![i] = Append(@, line)]
  BY DEF AddLine, AddInvoiceLine, history
<1>2. Owned' /\ \A j \in Invoices : MarkedTime(j)' = MarkedTime(j)
  BY <1>1, SameRow DEF MakerInv
<1>3. \A u \in Users : line.user # u
  OBVIOUS
<1> HIDE DEF line
<1>4. lines'[i] = Append(lines[i], line) /\ \A j \in Invoices \ {i} : lines'[j] = lines[j]
  BY <1>1 DEF MakerInv, LinesOK
<1>5. PICK S : lines[i] \in Seq(S)
  BY DEF MakerInv, LinesOK
<1>6. LinesOK' /\ LinesKept(lines[i], lines'[i])
  <2>1. lines'[i] \in Seq(S \cup {line}) /\ LinesKept(lines[i], lines'[i])
    BY <1>3, <1>4, <1>5, LineAdded
  <2> QED
    BY <1>1, <2>1, LineOfOne DEF MakerInv
<1>7. Alone(i) /\ \A g \in Handlers : Makes(g, i)' => Makes(g, i)
  BY <1>1, <1>2, <1>4 DEF Alone, Makes
<1>8. status[i] # "free"
  BY <1>1 DEF Issued, Statuses
<1>9. MakerInv'
  BY <1>1, <1>2, <1>6, <1>7, <1>8, AloneMakers
<1>10. ASSUME ~stale', ~incident'
       PROVE  /\ i \in Standing' /\ i \notin amended' => Balanced(i)'
              /\ status'[i] = "void" => Freed(i)'
  <2>1. /\ i \in Standing \ amended => Balanced(i)
        /\ status[i] = "void" => Freed(i)
    BY <1>1, <1>10 DEF AccountInv
  <2>2. Balanced(i) => Balanced(i)'
    BY <1>1, <1>2, <1>6, KeptBalance
  <2>3. Freed(i) => Freed(i)'
    BY <1>1, <1>2 DEF Freed
  <2>4. i \in Standing' => i \in Standing
    BY <1>1 DEF Standing, Issued
  <2> QED
    BY <1>1, <2>1, <2>2, <2>3, <2>4
<1> QED
  BY <1>7, <1>9, <1>10, AloneAccount

LEMMA DeleteLineAccount ==
  ASSUME TypeInv, TypeInv', MakerInv, AccountInv, NEW i \in Invoices, NEW k \in DOMAIN lines[i], DeleteLine(i, k)
  PROVE  MakerInv' /\ AccountInv'
<1>1. /\ UNCHANGED <<row, status, req, stale, incident>>
      /\ lines' = [lines EXCEPT ![i] = SubSeq(@, 1, k - 1) \o SubSeq(@, k + 1, Len(@))]
      /\ amended \subseteq amended' /\ (lines[i][k].user # None => i \in amended')
  BY DEF DeleteLine, DeleteInvoiceLine
<1>2. Owned' /\ \A j \in Invoices : MarkedTime(j)' = MarkedTime(j)
  BY <1>1, SameRow DEF MakerInv
<1>3. /\ \A j \in Invoices \ {i} : lines'[j] = lines[j]
      /\ lines'[i] = SubSeq(lines[i], 1, k - 1) \o SubSeq(lines[i], k + 1, Len(lines[i]))
  BY <1>1 DEF MakerInv, LinesOK
<1>4. PICK S : lines[i] \in Seq(S)
  BY DEF MakerInv, LinesOK
<1>4a. /\ lines'[i] \in Seq(S)
       /\ lines[i][k].user = None => LinesKept(lines[i], lines'[i])
  BY <1>3, <1>4, LineDeleted DEF Without
<1>5. LinesOK'
  BY <1>1, <1>4a, LineOfOne DEF MakerInv
<1>6. Alone(i) /\ \A g \in Handlers : Makes(g, i)' => Makes(g, i)
  BY <1>1, <1>2, <1>3 DEF Alone, Makes
<1>7. status[i] # "free"
  BY DEF MakerInv, FreshOK
<1>8. MakerInv'
  BY <1>1, <1>2, <1>5, <1>6, <1>7, AloneMakers
<1>9. ASSUME ~stale', ~incident'
       PROVE  /\ i \in Standing' /\ i \notin amended' => Balanced(i)'
              /\ status'[i] = "void" => Freed(i)'
  <2>1. /\ i \in Standing \ amended => Balanced(i)
        /\ status[i] = "void" => Freed(i)
    BY <1>1, <1>9 DEF AccountInv
  <2>2. i \notin amended' /\ Balanced(i) => Balanced(i)'
    BY <1>1, <1>2, <1>4a, KeptBalance
  <2>3. Freed(i) => Freed(i)'
    BY <1>1, <1>2 DEF Freed
  <2>4. (i \in Standing' => i \in Standing) /\ (i \notin amended' => i \notin amended)
    BY <1>1 DEF Standing, Issued
  <2> QED
    BY <1>1, <2>1, <2>2, <2>3, <2>4
<1> QED
  BY <1>6, <1>8, <1>9, AloneAccount

LEMMA FailAccount ==
  ASSUME TypeInv, TypeInv', MakerInv, AccountInv, NEW h \in Handlers, Fail(h)
  PROVE  MakerInv' /\ AccountInv'
<1>0. PICK i : i = req[h].invoice
  OBVIOUS
<1>1. /\ UNCHANGED <<row, status, lines, stale, amended>> /\ incident' /\ req' = [req EXCEPT ![h] = Idle]
  BY DEF Fail, Answer, tables
<1>2. req'[h].at = "idle" /\ \A g \in Handlers \ {h} : req'[g] = req[g]
  <2>1. Idle.at = "idle"
    BY DEF Idle
  <2>2. req'[h] = Idle /\ \A g \in Handlers \ {h} : req'[g] = req[g]
    BY <1>1, ReqIs
  <2> QED
    BY <2>1, <2>2
<1>3. Owned' /\ LinesOK' /\ \A j \in Invoices : MarkedTime(j)' = MarkedTime(j)
  BY <1>1, SameRow DEF MakerInv, LinesOK
<1>4. Alone(i) /\ \A g \in Handlers : Makes(g, i)' => Makes(g, i)
  BY <1>0, <1>1, <1>2, <1>3 DEF Alone, Makes
<1>5. i \in Invoices /\ status[i] = "free" => MarkedTime(i)' = {}
  BY <1>3 DEF MakerInv, FreshOK
<1>6. \A g \in Handlers : req'[g] = req[g] \/ req'[g].at = "idle"
  BY <1>2
<1>7. MakerInv'
  BY <1>1, <1>3, <1>4, <1>5, <1>6, AloneMakers
<1> QED
  BY <1>1, <1>7 DEF AccountInv

LEMMA InvoicingAccounts ==
  ASSUME TypeInv, TypeInv', MakerInv, AccountInv, Invoicing
  PROVE  MakerInv' /\ AccountInv'
<1>1. CASE \E h \in Handlers :
             \/ \E p \in Projects : Generate(h, p)
             \/ UnbilledTimeByUser(h) \/ GenerateMarks(h) \/ InvoiceGone(h) \/ VoidReleases(h)
             \/ \E line \in req[h].todo : GenerateLine(h, line)
             \/ \E i \in Invoices : GenerateInvoice(h, i) \/ Void(h, i)
  BY <1>1, GenerateAccount, UnbilledAccount, MarksAccount, GoneAccount, ReleaseAccount,
     GenerateLineAccount, GenerateInvoiceAccount, VoidAccount
<1>2. CASE \E i \in Invoices :
             \/ Create(i) \/ Delete(i)
             \/ \E s \in Statuses : SetStatus(i, s)
             \/ \E m \in Minutes : AddLine(i, m)
             \/ \E k \in DOMAIN lines[i] : DeleteLine(i, k)
  BY <1>2, CreateAccount, DeleteAccount, StatusAccount, AddLineAccount, DeleteLineAccount
<1> QED
  BY <1>1, <1>2, Zenon DEF Invoicing

LEMMA AccountsForTime ==
  ASSUME TypeInv, MakerInv, AccountInv
  PROVE  TimeFollowsInvoice
<1>1. LinesAccountForTime
  <2> SUFFICES ASSUME ~stale, ~incident, NEW i \in Standing \ amended, NEW u \in Users, ~Generating(i)
               PROVE  Charges(lines[i], u, MarkedTime(i))
    BY DEF LinesAccountForTime
  <2>1. i \in Invoices /\ \A h \in Handlers : ~Makes(h, i)
    BY DEF Standing, Generating, Makes
  <2> QED
    BY <2>1 DEF AccountInv, Balanced
<1>2. VoidFreesTime
  BY Unmarked DEF VoidFreesTime, AccountInv, Freed
<1> QED
  BY <1>1, <1>2 DEF TimeFollowsInvoice

(* The lines of an invoice charge each user's time marked as being on it,  *)
(* whatever minutes it is of, and a voided one has none                    *)
(* (invoices.go:201-309), whatever overlaps.                               *)
THEOREM TimeAccounted == Spec => []TimeFollowsInvoice
<1>1. Init => MakerInv /\ AccountInv
  <2> SUFFICES ASSUME Init PROVE MakerInv /\ AccountInv
    OBVIOUS
  <2>1. \A h \in Handlers : req[h].at = "idle"
    BY DEF Init, Idle
  <2>2. \A i \in Invoices : status[i] = "free" /\ lines[i] = <<>>
    BY DEF Init
  <2>3. \A e \in Entries : row[e].invoice = None /\ (Exists(e) => row[e].user \in Users)
    BY DEF Init, NoEntry, Exists, Entry
  <2>4. \A i \in Invoices : MarkedTime(i) = {}
    BY <2>3 DEF MarkedTime
  <2>5. LinesOK
    <3>1. <<>> \in Seq({})
      OBVIOUS
    <3>2. \A i \in Invoices : lines[i] \in Seq({})
      BY <2>2, <3>1
    <3> QED
      BY <3>2 DEF Init, LinesOK
  <2>6. MakerInv
    BY <2>1, <2>2, <2>3, <2>4, <2>5 DEF MakerInv, Owned, TodoOK, OneMaker, FreshOK, ReleaseOK, Makes
  <2>7. Standing = {}
    BY <2>2 DEF Standing, Issued, Statuses
  <2> QED
    BY <2>2, <2>6, <2>7 DEF AccountInv
<1>2. TypeInv /\ TypeInv' /\ Clean /\ MakerInv /\ AccountInv /\ [Next]_vars => MakerInv' /\ AccountInv'
  <2>1. ASSUME TypeInv, TypeInv', MakerInv, AccountInv, UNCHANGED vars PROVE MakerInv' /\ AccountInv'
    <3>1. UNCHANGED <<row, status, lines, req, stale, incident, amended>>
      BY <2>1 DEF vars, tables, history
    <3>2. Owned' /\ LinesOK' /\ \A j \in Invoices : MarkedTime(j)' = MarkedTime(j)
      BY <2>1, <3>1, SameRow DEF MakerInv, LinesOK
    <3>3. Alone(None) /\ \A g \in Handlers : Makes(g, None)' => Makes(g, None)
      BY <3>1, <3>2 DEF Alone, Makes
    <3> QED
      BY <2>1, <3>1, <3>2, <3>3, AloneAccount, AloneMakers
  <2> QED
    BY <2>1, TimersAccount, InvoicingAccounts, FailAccount DEF Next
<1> QED
  BY <1>1, <1>2, AlwaysClean, Typed, AccountsForTime, PTL DEF Spec
=============================================================================
