------------------------- MODULE TaskLifecycle_proofs -------------------------
(***************************************************************************)
(* For every set of tasks, handlers, statuses and rules, and every number  *)
(* of requests: the columns of a task agree on whether it is complete, and *)
(* unless requests overlapped or a statement failed its status is one of   *)
(* the table's and each completion leaves one occurrence.                  *)
(***************************************************************************)
EXTENDS TaskLifecycle, FiniteSetTheorems, TLAPS

USE LifecycleAssumption

(* A row written by one of the statements is a row.                        *)
LEMMA RowsWritten ==
  /\ \A key \in Keys, recurs \in BOOLEAN : NewTask(key, recurs) \in Row
  /\ \A r \in Row, key \in Keys : WithStatus(r, key) \in Row
  /\ \A r \in Row, done \in BOOLEAN : WithDone(r, done) \in Row
BY DEF NewTask, WithStatus, WithDone, Row, Protected

LEMMA StoreType ==
  ASSUME NEW S, NEW new, Store(S, new), row \in [Tasks -> Row],
         \A t \in S \cap live : new[t] \in Row, live \subseteq Tasks, bornDone \in SUBSET Tasks
  PROVE  row' \in [Tasks -> Row] /\ bornDone' \in SUBSET Tasks
BY DEF Store

(* A function on 1 .. n with values in S is a sequence over S.             *)
LEMMA SeqOf ==
  ASSUME NEW S, NEW n \in Nat, NEW a, a = [i \in 1 .. n |-> a[i]],
         \A i \in 1 .. n : a[i] \in S
  PROVE  a \in Seq(S)
OBVIOUS

(* What a request goes on as.                                              *)
LEMMA IdleType == Idle \in Req
<1>1. <<>> \in Seq(Triggers) /\ <<>> \in Seq(Seq(Keys))
  OBVIOUS
<1> QED
  BY <1>1 DEF Idle, Req, Places, Protected

LEMMA AnswerType ==
  ASSUME NEW h \in Handlers, req \in [Handlers -> Req], Answer(h)
  PROVE  req' \in [Handlers -> Req]
BY IdleType DEF Answer

LEMMA GotoType ==
  ASSUME NEW h \in Handlers, NEW at \in Places, NEW ts \in Seq(Triggers),
         at = "rules" => ts # <<>>, req \in [Handlers -> Req], Goto(h, at, ts)
  PROVE  req' \in [Handlers -> Req]
<1>1. [Idle EXCEPT !.at = at, !.tasks = req[h].tasks, !.triggers = ts] \in Req
  BY IdleType DEF Req
<1> QED
  BY <1>1 DEF Goto

LEMMA ContinueType ==
  ASSUME NEW h \in Handlers, NEW ts \in Seq(Triggers),
         req \in [Handlers -> Req], Continue(h, ts)
  PROVE  req' \in [Handlers -> Req]
BY AnswerType, GotoType DEF Continue, Places

LEMMA AfterActType ==
  ASSUME NEW h \in Handlers, NEW i, NextAct(h, i), AfterAct(h, i), req \in [Handlers -> Req]
  PROVE  /\ req' \in [Handlers -> Req]
         /\ Head(req[h].acts[i]) \in Keys
<1> DEFINE r    == req[h]
           left == [r.acts EXCEPT ![i] = Tail(@)]
<1>1. r \in Req
  OBVIOUS
<1>2. r.acts \in Seq(Seq(Keys)) /\ r.triggers \in Seq(Triggers)
  BY <1>1 DEF Req
<1>3. r.acts[i] \in Seq(Keys) /\ r.acts[i] # <<>>
  BY <1>2 DEF NextAct
<1>4. Head(r.acts[i]) \in Keys /\ Tail(r.acts[i]) \in Seq(Keys)
  BY <1>3
<1>5. left \in Seq(Seq(Keys))
  BY <1>2, <1>4 DEF NextAct
<1>6. CASE Exhausted(left)
  <2>1. Continue(h, r.triggers)
    BY <1>6 DEF AfterAct
  <2> QED
    BY <2>1, <1>2, <1>4, ContinueType
<1>7. CASE ~Exhausted(left)
  <2>1. req' = [req EXCEPT ![h].acts = left]
    BY <1>7 DEF AfterAct
  <2>2. [r EXCEPT !.acts = left] \in Req
    BY <1>1, <1>5 DEF Req
  <2> QED
    BY <2>1, <2>2, <1>4
<1> QED
  BY <1>6, <1>7

-----------------------------------------------------------------------------
LEMMA BeginType ==
  ASSUME TypeOK, NEW h \in Handlers, NEW r \in Req, Begin(h, r)
  PROVE  TypeOK'
<1>1. requests' \in 0 .. MaxRequests
  BY DEF Begin, Request, TypeOK
<1>2. req' \in [Handlers -> Req] /\ quiet' \in [Handlers -> BOOLEAN]
  BY DEF Begin, TypeOK
<1> QED
  BY <1>1, <1>2 DEF Begin, TypeOK, tables

LEMMA CompletedType ==
  ASSUME TypeOK, row' \in [Tasks -> Row], NEW h \in Handlers, NEW t \in Tasks,
         NEW ts \in Seq(Triggers), Completed(h, t, ts)
  PROVE  owed' \in [Tasks -> Int] /\ req' \in [Handlers -> Req]
<1>1. owed' \in [Tasks -> Int]
  BY DEF Completed, TypeOK
<1>2. Goto(h, "spawn", ts) \/ Continue(h, ts)
  BY DEF Completed
<1> QED
  BY <1>1, <1>2, GotoType, ContinueType DEF TypeOK, Places

LEMMA NextTypeOK == TypeOK /\ [Next]_vars => TypeOK'
<1> SUFFICES ASSUME TypeOK, [Next]_vars PROVE TypeOK'
  OBVIOUS
<1> USE DEF TypeOK
<1>0. \A h \in Handlers : req[h] \in Req
  OBVIOUS
<1>a. \A h \in Handlers : /\ req[h].tasks \in SUBSET Tasks
                        /\ req[h].key \in Keys
                        /\ req[h].recurs \in BOOLEAN
                        /\ req[h].triggers \in Seq(Triggers)
  BY <1>0 DEF Req
<1>b. live \subseteq Tasks
  OBVIOUS
<1>c. "todo" \in Keys /\ "done" \in Keys
  BY DEF Protected
<1>d. <<>> \in Seq(Triggers) /\ <<>> \in Seq(Seq(Keys))
  OBVIOUS
<1>e. \A t \in Tasks : row[t] \in Row
  OBVIOUS
<1>f. \A key \in Keys : \A t \in Tasks : StatusSet(key)[t] \in Row
  BY <1>e, RowsWritten DEF StatusSet
<1>g. \A done \in BOOLEAN : \A t \in Tasks : DoneSet(done)[t] \in Row
  BY <1>e, RowsWritten DEF DoneSet
<1>1. ASSUME NEW h \in Handlers, NEW key \in Keys, NEW recurs \in BOOLEAN,
             CreateChecks(h, key, recurs)
      PROVE  TypeOK'
  <2>1. [Idle EXCEPT !.at = "create", !.key = key, !.recurs = recurs] \in Req
    BY IdleType DEF Req, Places
  <2> QED
    BY <1>1, <2>1, BeginType DEF CreateChecks
<1>2. ASSUME NEW h \in Handlers, NEW t \in live, NEW key \in Keys, NEW recurs \in BOOLEAN,
             UpdateChecks(h, t, key, recurs)
      PROVE  TypeOK'
  <2>1. [Idle EXCEPT !.at = "update", !.tasks = {t}, !.key = key, !.recurs = recurs] \in Req
    BY IdleType, <1>b DEF Req, Places
  <2> QED
    BY <1>2, <2>1, BeginType DEF UpdateChecks
<1>3. ASSUME NEW h \in Handlers, NEW t \in Tasks, NEW done \in BOOLEAN,
             SetDoneReads(h, t, done)
      PROVE  TypeOK'
  <2>1. row[t].done \in BOOLEAN
    BY <1>e DEF Row
  <2>2. [Idle EXCEPT !.at = "set_done", !.tasks = {t}, !.prior = row[t].done,
                     !.key = IF done THEN "done" ELSE "todo"] \in Req
    BY IdleType, <1>c, <2>1 DEF Req, Places
  <2> QED
    BY <1>3, <2>2, BeginType DEF SetDoneReads
<1>4. ASSUME NEW h \in Handlers, NEW t \in live, NEW key \in Keys,
             SetStatusChecks(h, t, key)
      PROVE  TypeOK'
  <2>1. [Idle EXCEPT !.at = "get_task", !.tasks = {t}, !.key = key] \in Req
    BY IdleType, <1>b DEF Req, Places
  <2> QED
    BY <1>4, <2>1, BeginType DEF SetStatusChecks
<1>5. ASSUME NEW h \in Handlers, NEW S \in SUBSET live, NEW key \in Keys,
             BulkStatusChecks(h, S, key)
      PROVE  TypeOK'
  <2>1. [Idle EXCEPT !.at = "bulk_status", !.tasks = S, !.key = key] \in Req
    BY IdleType, <1>b DEF Req, Places
  <2> QED
    BY <1>5, <2>1, BeginType DEF BulkStatusChecks
<1>h. \A t \in Tasks : CreatedTask(t) \in Req
  <2>1. <<"task_created">> \in Seq(Triggers)
    BY DEF Triggers
  <2> QED
    BY IdleType, <2>1 DEF CreatedTask, Req, Places
<1>6. ASSUME NEW h \in Handlers, NEW t \in Tasks, FileTask(h, t)
      PROVE  TypeOK'
  <2>1. requests' \in 0 .. MaxRequests
    BY <1>6 DEF FileTask, Request
  <2>2. row' \in [Tasks -> Row]
    BY <1>6, <1>c, RowsWritten DEF FileTask
  <2>3. req' \in [Handlers -> Req]
    BY <1>6, <1>h DEF FileTask
  <2> QED
    BY <1>6, <2>1, <2>2, <2>3 DEF FileTask, history
<1>7. ASSUME NEW h \in Handlers, NEW key \in Keys, NEW counted \in BOOLEAN,
             DeleteStatusChecks(h, key, counted)
      PROVE  TypeOK'
  <2>1. [Idle EXCEPT !.at = "delete_status", !.key = key] \in Req
    BY IdleType DEF Req, Places
  <2>2. requests' \in 0 .. MaxRequests
    BY <1>7 DEF DeleteStatusChecks, Request
  <2> QED
    BY <1>7, <2>1, <2>2 DEF DeleteStatusChecks, tables
<1>8. ASSUME NEW h \in Handlers, NEW t \in Tasks, Create(h, t)
      PROVE  TypeOK'
  <2>1. row' \in [Tasks -> Row]
    BY <1>8, <1>a, RowsWritten DEF Create
  <2>2. req' \in [Handlers -> Req]
    BY <1>8, <1>h DEF Create
  <2> QED
    BY <1>8, <2>1, <2>2 DEF Create, Write, Disturb
<1>9. ASSUME NEW h \in Handlers, Update(h)
      PROVE  TypeOK'
  <2> DEFINE new == [t \in Tasks |-> [WithStatus(row[t], req[h].key)
                                        EXCEPT !.recurs = req[h].recurs]]
  <2>1. Store(req[h].tasks, new)
    BY <1>9 DEF Update
  <2>a. \A t \in Tasks : WithStatus(row[t], req[h].key) \in Row
    BY <1>a, <1>e, RowsWritten
  <2>2. \A t \in Tasks : new[t] \in Row
    BY <1>a, <2>a DEF Row
  <2>3. row' \in [Tasks -> Row] /\ bornDone' \in SUBSET Tasks
    BY <2>1, <2>2, StoreType
  <2>4. <<"assignee_changed">> \in Seq(Triggers)
    BY DEF Triggers
  <2>5. req' \in [Handlers -> Req]
    BY <1>9, <1>d, <2>4, ContinueType DEF Update
  <2> QED
    BY <1>9, <2>3, <2>5 DEF Update, Write, Disturb
<1>10. ASSUME NEW h \in Handlers, NEW t \in Tasks, SetDone(h, t)
       PROVE  TypeOK'
  <2>1. row' \in [Tasks -> Row] /\ bornDone' \in SUBSET Tasks
    BY <1>10, <1>b, <1>g, StoreType DEF SetDone
  <2>2. owed' \in [Tasks -> Int] /\ req' \in [Handlers -> Req]
    BY <1>10, <1>d, <2>1, CompletedType DEF SetDone
  <2> QED
    BY <1>10, <2>1, <2>2 DEF SetDone, Write, Disturb
<1>11. ASSUME NEW h \in Handlers, NEW t \in Tasks, GetTask(h, t)
       PROVE  TypeOK'
  <2>1. row[t].done \in BOOLEAN
    BY <1>e DEF Row
  <2>2. [req[h] EXCEPT !.at = "set_status", !.prior = row[t].done] \in Req
    BY <1>0, <2>1 DEF Req, Places
  <2> QED
    BY <1>11, <2>2 DEF GetTask, tables, history
<1>12. ASSUME NEW h \in Handlers, NEW t \in Tasks, SetStatus(h, t)
       PROVE  TypeOK'
  <2> DEFINE ts == <<"status_changed">> \o (IF Completes(h) THEN <<"task_completed">> ELSE <<>>)
  <2>1. row' \in [Tasks -> Row] /\ bornDone' \in SUBSET Tasks
    BY <1>12, <1>a, <1>b, <1>f, StoreType DEF SetStatus
  <2>2. ts \in Seq(Triggers)
    <3>1. "status_changed" \in Triggers /\ "task_completed" \in Triggers
      BY DEF Triggers
    <3>2. (IF Completes(h) THEN <<"task_completed">> ELSE <<>>) \in Seq(Triggers)
      BY <3>1
    <3> QED
      BY <3>1, <3>2
  <2>3. owed' \in [Tasks -> Int] /\ req' \in [Handlers -> Req]
    BY <1>12, <2>1, <2>2, CompletedType DEF SetStatus
  <2> QED
    BY <1>12, <2>1, <2>3 DEF SetStatus, Write, Disturb
<1>13. ASSUME NEW h \in Handlers, NotFound(h)
       PROVE  TypeOK'
  BY <1>13, AnswerType DEF NotFound, tables, history
<1>14. ASSUME NEW h \in Handlers, NEW t \in Tasks, NEW next \in Tasks, Spawn(h, t, next)
       PROVE  TypeOK'
  <2>1. row' \in [Tasks -> Row]
    BY <1>14, <1>c, RowsWritten DEF Spawn
  <2>2. req' \in [Handlers -> Req]
    BY <1>14, <1>a, ContinueType DEF Spawn
  <2>3. owed' \in [Tasks -> Int]
    BY <1>14 DEF Spawn
  <2> QED
    BY <1>14, <2>1, <2>2, <2>3 DEF Spawn
<1>15. ASSUME NEW h \in Handlers, SpawnFails(h)
       PROVE  TypeOK'
  BY <1>15, <1>a, ContinueType DEF SpawnFails, tables
<1>16. ASSUME NEW h \in Handlers, BulkStatus(h)
       PROVE  TypeOK'
  <2>1. row' \in [Tasks -> Row] /\ bornDone' \in SUBSET Tasks
    BY <1>16, <1>a, <1>b, <1>f, StoreType DEF BulkStatus
  <2> QED
    BY <1>16, <2>1, AnswerType DEF BulkStatus, Write, Disturb
<1>17. ASSUME NEW h \in Handlers, NEW t \in Tasks, RunRules(h, t)
       PROVE  TypeOK'
  <2> DEFINE trigger == Head(req[h].triggers)
             rest    == Tail(req[h].triggers)
  <2>1. trigger \in Triggers /\ rest \in Seq(Triggers)
    BY <1>0, <1>17 DEF RunRules, Req
  <2>2. PICK on \in SUBSET DOMAIN Rules[trigger] :
           LET applied(i) == i \in on /\ t \in live /\ Matches(Rules[trigger][i], row[t])
               acts == [i \in DOMAIN Rules[trigger] |->
                         IF applied(i) THEN Rules[trigger][i].set ELSE <<>>]
           IN  IF Exhausted(acts) THEN Continue(h, rest)
               ELSE req' = [req EXCEPT ![h].at = "act", ![h].triggers = rest, ![h].acts = acts]
    BY <1>17 DEF RunRules
  <2> DEFINE acts == [i \in DOMAIN Rules[trigger] |->
                       IF i \in on /\ t \in live /\ Matches(Rules[trigger][i], row[t])
                       THEN Rules[trigger][i].set ELSE <<>>]
  <2>3. acts \in Seq(Seq(Keys))
    <3>1. Rules[trigger] \in Seq(Rule)
      BY <2>1
    <3>2. \A i \in DOMAIN Rules[trigger] : Rules[trigger][i].set \in Seq(Keys)
      <4>1. \A i \in DOMAIN Rules[trigger] : Rules[trigger][i] \in Rule
        BY <3>1
      <4> QED
        BY <4>1 DEF Rule
    <3>3. \A i \in DOMAIN Rules[trigger] : acts[i] \in Seq(Keys)
      BY <3>2
    <3>4. DOMAIN acts = 1 .. Len(Rules[trigger]) /\ Len(Rules[trigger]) \in Nat
      BY <3>1
    <3> DEFINE n == Len(Rules[trigger])
    <3>5. acts = [i \in 1 .. n |-> acts[i]] /\ \A i \in 1 .. n : acts[i] \in Seq(Keys)
      BY <3>3, <3>4
    <3>6. n \in Nat
      BY <3>4
    <3> HIDE DEF acts, n
    <3> QED
      BY <3>5, <3>6, SeqOf
  <2>4. Continue(h, rest) \/ req' = [req EXCEPT ![h].at = "act", ![h].triggers = rest, ![h].acts = acts]
    BY <2>2
  <2>5. [req[h] EXCEPT !.at = "act", !.triggers = rest, !.acts = acts] \in Req
    BY <1>0, <2>1, <2>3 DEF Req, Places
  <2>6. req' \in [Handlers -> Req]
    BY <2>1, <2>4, <2>5, ContinueType
  <2> QED
    BY <1>17, <2>6 DEF RunRules, tables, history
<1>18. ASSUME NEW h \in Handlers, NEW i \in DOMAIN req[h].acts, Act(h, i)
       PROVE  TypeOK'
  <2>1. req' \in [Handlers -> Req] /\ Head(req[h].acts[i]) \in Keys
    BY <1>18, AfterActType DEF Act
  <2>2. row' \in [Tasks -> Row] /\ bornDone' \in SUBSET Tasks
    BY <1>18, <1>a, <1>b, <1>f, <2>1, StoreType DEF Act
  <2>3. incident' \in BOOLEAN
    BY <1>18 DEF Act
  <2> QED
    BY <1>18, <2>1, <2>2, <2>3 DEF Act, Disturb
<1>19. ASSUME NEW h \in Handlers, NEW i \in DOMAIN req[h].acts, ActFails(h, i)
       PROVE  TypeOK'
  BY <1>19, AfterActType DEF ActFails, tables
<1>20. ASSUME NEW h \in Handlers, DeleteStatus(h)
       PROVE  TypeOK'
  BY <1>20, AnswerType DEF DeleteStatus, Write, Disturb
<1>21. ASSUME NEW h \in Handlers, Fail(h)
       PROVE  TypeOK'
  BY <1>21, AnswerType DEF Fail, tables
<1>22. ASSUME NEW S \in SUBSET live, NEW done \in BOOLEAN, BulkDone(S, done)
       PROVE  TypeOK'
  <2>1. row' \in [Tasks -> Row] /\ bornDone' \in SUBSET Tasks
    BY <1>22, <1>b, <1>g, StoreType DEF BulkDone
  <2>2. requests' \in 0 .. MaxRequests
    BY <1>22 DEF BulkDone, Request
  <2> QED
    BY <1>22, <2>1, <2>2 DEF BulkDone, Disturb
<1>23. ASSUME NEW S \in SUBSET live, Delete(S)
       PROVE  TypeOK'
  <2>1. row' \in [Tasks -> Row]
    BY <1>23, <1>c, RowsWritten DEF Delete
  <2>2. requests' \in 0 .. MaxRequests
    BY <1>23 DEF Delete, Request
  <2> QED
    BY <1>23, <2>1, <2>2 DEF Delete
<1>24. ASSUME NEW key \in Keys, CreateStatus(key)
       PROVE  TypeOK'
  BY <1>24 DEF CreateStatus, Request, history
<1>25. CASE UNCHANGED vars
  BY <1>25 DEF vars, tables, history
<1> QED
  BY <1>1, <1>2, <1>3, <1>4, <1>5, <1>6, <1>7, <1>8, <1>9, <1>10, <1>11, <1>12, <1>13,
     <1>14, <1>15, <1>16, <1>17, <1>18, <1>19, <1>20, <1>21, <1>22, <1>23, <1>24, <1>25
  DEF Next, Arrive, Serve

LEMMA InitTypeOK == Init => TypeOK
<1> SUFFICES ASSUME Init PROVE TypeOK
  OBVIOUS
<1>1. PICK R \in SUBSET live : row = [t \in Tasks |-> NewTask("todo", t \in R)]
  BY DEF Init
<1>2. \A t \in Tasks : NewTask("todo", t \in R) \in Row
  BY DEF NewTask, Row, Protected
<1>3. row \in [Tasks -> Row]
  BY <1>1, <1>2
<1>4. requests \in 0 .. MaxRequests /\ owed \in [Tasks -> Int]
  BY DEF Init
<1> QED
  BY <1>3, <1>4, IdleType DEF Init, TypeOK

(* The variables keep their types, whatever requests interleave.           *)
THEOREM TypeCorrect == Spec => []TypeOK
<1> QED
  BY InitTypeOK, NextTypeOK, PTL DEF Spec

-----------------------------------------------------------------------------
(* Every statement that writes a status or a done flag writes all three    *)
(* columns, except the INSERT.                                             *)
Agree(r) == (r.completed <=> r.done) /\ (r.status = "done" <=> r.done)

LEMMA WritesAgree ==
  /\ \A r \in Row, key \in Keys : Agree(WithStatus(r, key))
  /\ \A r \in Row, done \in BOOLEAN : Agree(WithDone(r, done))
BY DEF Agree, WithStatus, WithDone, Row

LEMMA StoreConsistent ==
  ASSUME TypeOK, CompletionConsistent, NEW S, NEW new, Store(S, new), live' = live,
         \A t \in S \cap live : Agree(new[t])
  PROVE  CompletionConsistent'
BY DEF Store, TypeOK, CompletionConsistent, Agree

LEMMA NextConsistent == TypeOK /\ CompletionConsistent /\ [Next]_vars => CompletionConsistent'
<1> SUFFICES ASSUME TypeOK, CompletionConsistent, [Next]_vars PROVE CompletionConsistent'
  OBVIOUS
<1>a. \A t \in Tasks : row[t] \in Row
  BY DEF TypeOK
<1>b. \A h \in Handlers : req[h].key \in Keys /\ req[h].recurs \in BOOLEAN
  BY DEF TypeOK, Req
<1>c. live \subseteq Tasks
  BY DEF TypeOK
<1>d. \A key \in Keys : \A t \in Tasks : Agree(StatusSet(key)[t])
  BY <1>a, WritesAgree DEF StatusSet
<1>e. \A done \in BOOLEAN : \A t \in Tasks : Agree(DoneSet(done)[t])
  BY <1>a, WritesAgree DEF DoneSet
<1>1. ASSUME UNCHANGED <<live, row, bornDone>>
      PROVE  CompletionConsistent'
  BY <1>1 DEF CompletionConsistent
<1>2. ASSUME NEW t \in Tasks, t \notin used, live' = live \cup {t}, bornDone' = bornDone,
             NEW recurs \in BOOLEAN, row' = [row EXCEPT ![t] = NewTask("todo", recurs)]
      PROVE  CompletionConsistent'
  BY <1>2 DEF CompletionConsistent, NewTask, TypeOK
<1>3. ASSUME NEW h \in Handlers, NEW t \in Tasks, Create(h, t)
      PROVE  CompletionConsistent'
  BY <1>3 DEF Create, CompletionConsistent, NewTask, TypeOK
<1>4. ASSUME NEW h \in Handlers, Update(h)
      PROVE  CompletionConsistent'
  <2> DEFINE new == [t \in Tasks |-> [WithStatus(row[t], req[h].key)
                                        EXCEPT !.recurs = req[h].recurs]]
  <2>1. \A t \in Tasks : WithStatus(row[t], req[h].key) \in Row /\ Agree(WithStatus(row[t], req[h].key))
    BY <1>a, <1>b, RowsWritten, WritesAgree
  <2>2. \A t \in Tasks : Agree(new[t])
    BY <2>1 DEF Agree, Row
  <2>3. Store(req[h].tasks, new) /\ live' = live
    BY <1>4 DEF Update
  <2> QED
    BY <2>2, <2>3, <1>c, StoreConsistent
<1>5. ASSUME NEW h \in Handlers, NEW t \in Tasks, SetDone(h, t)
      PROVE  CompletionConsistent'
  BY <1>5, <1>c, <1>e, StoreConsistent DEF SetDone
<1>6. ASSUME NEW h \in Handlers, NEW t \in Tasks, SetStatus(h, t)
      PROVE  CompletionConsistent'
  BY <1>6, <1>b, <1>c, <1>d, StoreConsistent DEF SetStatus
<1>7. ASSUME NEW h \in Handlers, BulkStatus(h)
      PROVE  CompletionConsistent'
  BY <1>7, <1>b, <1>c, <1>d, StoreConsistent DEF BulkStatus
<1>8. ASSUME NEW h \in Handlers, NEW i \in DOMAIN req[h].acts, Act(h, i)
      PROVE  CompletionConsistent'
  <2>1. Head(req[h].acts[i]) \in Keys
    BY <1>8, AfterActType DEF Act, TypeOK
  <2> QED
    BY <1>8, <1>c, <1>d, <2>1, StoreConsistent DEF Act
<1>9. ASSUME NEW S \in SUBSET live, NEW done \in BOOLEAN, BulkDone(S, done)
      PROVE  CompletionConsistent'
  BY <1>9, <1>c, <1>e, StoreConsistent DEF BulkDone
<1>10. ASSUME NEW S \in SUBSET live, Delete(S)
       PROVE  CompletionConsistent'
  BY <1>10, <1>c DEF Delete, CompletionConsistent
<1>11. ASSUME NEW h \in Handlers, NEW t \in Tasks, FileTask(h, t)
       PROVE  CompletionConsistent'
  BY <1>11, <1>2 DEF FileTask, history
<1>12. ASSUME NEW h \in Handlers, NEW t \in Tasks, NEW next \in Tasks, Spawn(h, t, next)
       PROVE  CompletionConsistent'
  BY <1>12, <1>2 DEF Spawn
<1>13. ASSUME NEW h \in Handlers, NEW r, Begin(h, r)
       PROVE  CompletionConsistent'
  BY <1>13, <1>1 DEF Begin, tables
<1>14. ASSUME NEW h \in Handlers, Arrive(h)
       PROVE  CompletionConsistent'
  BY <1>14, <1>1, <1>11, <1>13, Zenon
  DEF Arrive, CreateChecks, UpdateChecks, SetDoneReads, SetStatusChecks, BulkStatusChecks,
      DeleteStatusChecks, tables
<1>15. ASSUME NEW h \in Handlers, Serve(h)
       PROVE  CompletionConsistent'
  <2>1. CASE NotFound(h) \/ SpawnFails(h) \/ DeleteStatus(h) \/ Fail(h)
    BY <2>1, <1>1 DEF NotFound, SpawnFails, DeleteStatus, Fail, tables, history
  <2>2. ASSUME NEW t \in Tasks, GetTask(h, t) \/ RunRules(h, t)
        PROVE  CompletionConsistent'
    BY <2>2, <1>1 DEF GetTask, RunRules, tables, history
  <2>3. ASSUME NEW i \in DOMAIN req[h].acts, ActFails(h, i)
        PROVE  CompletionConsistent'
    BY <2>3, <1>1 DEF ActFails, tables
  <2> QED
    BY <1>15, <2>1, <2>2, <2>3, <1>3, <1>4, <1>5, <1>6, <1>7, <1>8, <1>12 DEF Serve
<1>16. ASSUME NEW key \in Keys, CreateStatus(key)
       PROVE  CompletionConsistent'
  BY <1>16, <1>1 DEF CreateStatus, history
<1>17. CASE UNCHANGED vars
  BY <1>17, <1>1 DEF vars, tables, history
<1> QED
  BY <1>9, <1>10, <1>14, <1>15, <1>16, <1>17 DEF Next

(* Whatever statements interleave, and however many: completed_at is set   *)
(* exactly on done tasks, and the status is done exactly on done tasks,    *)
(* save a task still as it was created (tasks.sql:83-173).                 *)
THEOREM ColumnsAgree == Spec => []CompletionConsistent
<1>1. Init => CompletionConsistent
  BY DEF Init, CompletionConsistent, NewTask
<1> QED
  BY <1>1, InitTypeOK, NextTypeOK, NextConsistent, PTL DEF Spec

-----------------------------------------------------------------------------
(***************************************************************************)
(* The two checks about statuses.  A request that writes a status has seen *)
(* it in the table, one that deletes a status has seen no task with it,    *)
(* and both still hold as long as nobody else wrote.                       *)
(***************************************************************************)
Assigning == {"create", "update", "get_task", "set_status", "bulk_status"}

ReadsHold ==
  \A h \in Handlers : quiet[h] =>
    /\ req[h].at \in Assigning => req[h].key \in statuses
    /\ req[h].at = "delete_status" =>
         /\ req[h].key \notin Protected
         /\ incident \/ TasksWith(req[h].key) = {}

StatusInv == Protected \subseteq statuses /\ StatusesKnown /\ ReadsHold

(* Where a request is once it has written.                                 *)
Wrote(h) ==
  /\ req'[h].at \notin Assigning \cup {"delete_status"}
  /\ \A g \in Handlers \ {h} : req'[g] = req[g] /\ ~quiet'[g]

LEMMA WroteReads ==
  ASSUME NEW h \in Handlers, Wrote(h)
  PROVE  ReadsHold'
BY DEF Wrote, ReadsHold

LEMMA Onward ==
  ASSUME TypeOK, NEW h \in Handlers
  PROVE  /\ Answer(h) => req'[h].at = "idle"
         /\ \A at, ts : Goto(h, at, ts) => req'[h].at = at
         /\ \A ts : Continue(h, ts) => req'[h].at \in {"idle", "rules"}
         /\ Answer(h) \/ (\E at, ts : Goto(h, at, ts)) \/ (\E ts : Continue(h, ts)) =>
              \A g \in Handlers \ {h} : req'[g] = req[g]
<1> USE DEF TypeOK
<1>1. Idle.at = "idle"
  BY DEF Idle
<1>2. Answer(h) => req'[h].at = "idle" /\ \A g \in Handlers \ {h} : req'[g] = req[g]
  BY <1>1 DEF Answer
<1>3. ASSUME NEW at, NEW ts, Goto(h, at, ts)
      PROVE  req'[h].at = at /\ \A g \in Handlers \ {h} : req'[g] = req[g]
  BY <1>3 DEF Goto, Idle
<1>4. ASSUME NEW ts, Continue(h, ts)
      PROVE  req'[h].at \in {"idle", "rules"} /\ \A g \in Handlers \ {h} : req'[g] = req[g]
  BY <1>2, <1>3, <1>4 DEF Continue
<1> QED
  BY <1>2, <1>3, <1>4

LEMMA AfterActWrote ==
  ASSUME TypeOK, NEW h \in Handlers, NEW i, NextAct(h, i), AfterAct(h, i), Disturb({h})
  PROVE  Wrote(h)
<1>1. req'[h].at \in {"idle", "rules", "act"} /\ \A g \in Handlers \ {h} : req'[g] = req[g]
  <2> DEFINE left == [req[h].acts EXCEPT ![i] = Tail(@)]
  <2>1. CASE Exhausted(left)
    BY <2>1, Onward DEF AfterAct
  <2>2. CASE ~Exhausted(left)
    <3>1. req' = [req EXCEPT ![h].acts = left]
      BY <2>2 DEF AfterAct
    <3>2. req[h].at = "act"
      BY DEF NextAct
    <3> QED
      BY <3>1, <3>2 DEF TypeOK, Req
  <2> QED
    BY <2>1, <2>2
<1> QED
  BY <1>1 DEF Wrote, Disturb, Assigning

LEMMA CompletedWrote ==
  ASSUME TypeOK, NEW h \in Handlers, NEW t, NEW ts, Completed(h, t, ts), Write(h)
  PROVE  Wrote(h)
<1>1. Goto(h, "spawn", ts) \/ Continue(h, ts)
  BY DEF Completed
<1>2. req'[h].at \in {"spawn", "idle", "rules"} /\ \A g \in Handlers \ {h} : req'[g] = req[g]
  BY <1>1, Onward DEF Places
<1> QED
  BY <1>2 DEF Wrote, Write, Disturb, Assigning

(* A write of statuses that are in the table keeps every status known.     *)
LEMMA StoreKnown ==
  ASSUME TypeOK, StatusesKnown, NEW S, NEW new, Store(S, new),
         live' = live, statuses' = statuses, overlapped => overlapped', incident => incident',
         ~overlapped' /\ ~incident' => \A t \in S \cap live : new[t].status \in statuses
  PROVE  StatusesKnown'
BY DEF Store, TypeOK, StatusesKnown

(* A new task that is to do, or has a status that is in the table.         *)
LEMMA AddedKnown ==
  ASSUME TypeOK, StatusesKnown, NEW t \in Tasks, NEW key, NEW recurs,
         live' = live \cup {t}, row' = [row EXCEPT ![t] = NewTask(key, recurs)],
         statuses' = statuses, overlapped => overlapped', incident => incident',
         ~overlapped' /\ ~incident' => key \in statuses
  PROVE  StatusesKnown'
BY DEF TypeOK, StatusesKnown, NewTask

LEMMA StatusSetStatus ==
  ASSUME TypeOK, NEW t \in Tasks
  PROVE  /\ \A key \in Keys : StatusSet(key)[t].status = key
         /\ \A done \in BOOLEAN : DoneSet(done)[t].status \in Protected
BY DEF StatusSet, DoneSet, WithStatus, WithDone, TypeOK, Row, Protected

(* A task that is to do does not count for a status that can be deleted.   *)
LEMMA AddedReads ==
  ASSUME TypeOK, ReadsHold, NEW h \in Handlers, NEW t \in Tasks, t \notin used, NEW recurs,
         live' = live \cup {t}, row' = [row EXCEPT ![t] = NewTask("todo", recurs)],
         statuses' = statuses, quiet' = quiet, incident => incident',
         \A g \in Handlers \ {h} : req'[g] = req[g],
         req'[h] = req[h] \/ req'[h].at \notin Assigning \cup {"delete_status"}
  PROVE  ReadsHold'
<1>1. \A key : key \notin Protected /\ TasksWith(key) = {} => TasksWith(key)' = {}
  BY DEF TasksWith, NewTask, Protected, TypeOK
<1> QED
  BY <1>1 DEF ReadsHold

LEMMA BeginStatus ==
  ASSUME TypeOK, StatusInv, NEW h \in Handlers, NEW r, Begin(h, r),
         r.at # "delete_status", r.at \in Assigning => r.key \in statuses
  PROVE  StatusInv'
<1>1. /\ statuses' = statuses /\ live' = live /\ row' = row /\ incident' = incident
      /\ overlapped' = overlapped
      /\ req' = [req EXCEPT ![h] = r] /\ quiet' = [quiet EXCEPT ![h] = TRUE]
  BY DEF Begin, tables
<1>2. StatusesKnown'
  BY <1>1 DEF StatusInv, StatusesKnown
<1>3. \A key : TasksWith(key)' = TasksWith(key)
  BY <1>1 DEF TasksWith
<1>4. ReadsHold'
  BY <1>1, <1>3 DEF StatusInv, ReadsHold, TypeOK
<1> QED
  BY <1>1, <1>2, <1>4 DEF StatusInv

LEMMA NextStatusInv == TypeOK /\ StatusInv /\ [Next]_vars => StatusInv'
<1> SUFFICES ASSUME TypeOK, StatusInv, [Next]_vars PROVE StatusInv'
  OBVIOUS
<1>a. Protected \subseteq statuses /\ StatusesKnown /\ ReadsHold
  BY DEF StatusInv
<1>b. \A t \in Tasks : row[t] \in Row
  BY DEF TypeOK
<1>c. live \subseteq Tasks
  BY DEF TypeOK
<1>d. \A h \in Handlers : req[h] \in Req /\ req[h].key \in Keys /\ req[h].tasks \subseteq Tasks
  BY DEF TypeOK, Req
<1>e. \A h \in Handlers : Write(h) => \A g \in Handlers \ {h} : ~quiet'[g]
  BY DEF Write, Disturb
(* A write of what the request has checked, by a request that goes on.     *)
<1>f. ASSUME NEW h \in Handlers, Write(h), ~overlapped', req[h].at \in Assigning
      PROVE  ~overlapped /\ req[h].key \in statuses
  BY <1>f, <1>a DEF Write, ReadsHold, TypeOK
<1>1. ASSUME NEW h \in Handlers, NEW key \in Keys, NEW recurs \in BOOLEAN,
             CreateChecks(h, key, recurs) \/ \E t \in live : UpdateChecks(h, t, key, recurs)
      PROVE  StatusInv'
  BY <1>1, BeginStatus, IdleType DEF CreateChecks, UpdateChecks, Idle
<1>2. ASSUME NEW h \in Handlers, NEW t \in Tasks, NEW done \in BOOLEAN, SetDoneReads(h, t, done)
      PROVE  StatusInv'
  BY <1>2, BeginStatus DEF SetDoneReads, Idle, Assigning
<1>3. ASSUME NEW h \in Handlers, NEW t \in live, NEW key \in Keys, SetStatusChecks(h, t, key)
      PROVE  StatusInv'
  BY <1>3, BeginStatus DEF SetStatusChecks, Idle
<1>4. ASSUME NEW h \in Handlers, NEW S \in SUBSET live, NEW key \in Keys, BulkStatusChecks(h, S, key)
      PROVE  StatusInv'
  BY <1>4, BeginStatus DEF BulkStatusChecks, Idle
<1>5. ASSUME NEW h \in Handlers, NEW t \in Tasks, FileTask(h, t)
      PROVE  StatusInv'
  <2>1. /\ t \notin used /\ live' = live \cup {t} /\ statuses' = statuses /\ quiet' = quiet
        /\ row' = [row EXCEPT ![t] = NewTask("todo", FALSE)]
        /\ overlapped' = overlapped /\ incident' = incident
    BY <1>5 DEF FileTask, history
  <2>2. \A g \in Handlers \ {h} : req'[g] = req[g]
    BY <1>5 DEF FileTask, TypeOK
  <2>3. req'[h] = req[h] \/ req'[h].at \notin Assigning \cup {"delete_status"}
    BY <1>5 DEF FileTask, TypeOK, CreatedTask, Idle, Assigning
  <2>4. ReadsHold'
    BY <2>1, <2>2, <2>3, <1>a, AddedReads
  <2>5. StatusesKnown'
    BY <2>1, <1>a, AddedKnown DEF Protected
  <2> QED
    BY <1>a, <2>1, <2>4, <2>5 DEF StatusInv
<1>6. ASSUME NEW h \in Handlers, NEW key \in Keys, NEW counted \in BOOLEAN,
             DeleteStatusChecks(h, key, counted)
      PROVE  StatusInv'
  <2>1. /\ statuses' = statuses /\ live' = live /\ row' = row /\ overlapped' = overlapped
        /\ incident' = (incident \/ ~counted) /\ key \notin Protected
        /\ counted => TasksWith(key) = {}
    BY <1>6 DEF DeleteStatusChecks, tables, Unused
  <2>2. StatusesKnown'
    BY <2>1, <1>a DEF StatusesKnown
  <2>3. \A k : TasksWith(k)' = TasksWith(k)
    BY <2>1 DEF TasksWith
  <2>4. /\ req'[h].at = "delete_status" /\ req'[h].key = key
        /\ \A g \in Handlers \ {h} : req'[g] = req[g] /\ quiet'[g] = quiet[g]
    BY <1>6 DEF DeleteStatusChecks, TypeOK, Idle
  <2>5. ReadsHold'
    BY <2>1, <2>3, <2>4, <1>a DEF ReadsHold, Assigning
  <2> QED
    BY <1>a, <2>1, <2>2, <2>5 DEF StatusInv
<1>7. ASSUME NEW h \in Handlers, NEW t \in Tasks, Create(h, t)
      PROVE  StatusInv'
  <2>1. Wrote(h)
    BY <1>7, <1>e DEF Create, Wrote, TypeOK, CreatedTask, Idle, Assigning
  <2>2. ~overlapped' => ~overlapped /\ req[h].key \in statuses
    BY <1>7, <1>f DEF Create, Assigning
  <2>3. StatusesKnown'
    BY <1>7, <1>a, <2>2, AddedKnown DEF Create, TypeOK
  <2> QED
    BY <1>7, <1>a, <2>1, <2>3, WroteReads DEF StatusInv, Create
<1>8. ASSUME NEW h \in Handlers, Update(h)
      PROVE  StatusInv'
  <2> DEFINE new == [t \in Tasks |-> [WithStatus(row[t], req[h].key)
                                        EXCEPT !.recurs = req[h].recurs]]
  <2>1. PICK ts : Continue(h, ts)
    BY <1>8 DEF Update
  <2>2. Wrote(h)
    BY <1>8, <1>e, <2>1, Onward DEF Update, Wrote, Assigning
  <2>3. ~overlapped' => ~overlapped /\ req[h].key \in statuses
    BY <1>8, <1>f DEF Update, Assigning
  <2>4. \A t \in Tasks : new[t].status = req[h].key
    BY <1>b DEF WithStatus, Row
  <2>5. StatusesKnown'
    <3>1. /\ Store(req[h].tasks, new) /\ live' = live /\ statuses' = statuses
          /\ incident' = incident
      BY <1>8 DEF Update
    <3> HIDE DEF new
    <3> QED
      BY <3>1, <1>a, <1>c, <2>3, <2>4, StoreKnown DEF TypeOK
  <2> QED
    BY <1>8, <1>a, <2>2, <2>5, WroteReads DEF StatusInv, Update
<1>9. ASSUME NEW h \in Handlers, NEW t \in Tasks, SetDone(h, t)
      PROVE  StatusInv'
  <2>1. Wrote(h)
    BY <1>9, CompletedWrote DEF SetDone
  <2>2. StatusesKnown'
    BY <1>9, <1>a, <1>c, StatusSetStatus, StoreKnown DEF SetDone, Write, TypeOK
  <2> QED
    BY <1>9, <1>a, <2>1, <2>2, WroteReads DEF StatusInv, SetDone
<1>10. ASSUME NEW h \in Handlers, NEW t \in Tasks, GetTask(h, t)
       PROVE  StatusInv'
  <2>1. /\ statuses' = statuses /\ live' = live /\ row' = row /\ quiet' = quiet
        /\ overlapped' = overlapped /\ incident' = incident
    BY <1>10 DEF GetTask, tables, history
  <2>2. StatusesKnown'
    BY <2>1, <1>a DEF StatusesKnown
  <2>3. \A k : TasksWith(k)' = TasksWith(k)
    BY <2>1 DEF TasksWith
  <2>4. /\ req[h].at = "get_task" /\ req'[h].at = "set_status" /\ req'[h].key = req[h].key
        /\ \A g \in Handlers \ {h} : req'[g] = req[g]
    BY <1>10, <1>d DEF GetTask, TypeOK, Req
  <2>5. ReadsHold'
    BY <2>1, <2>3, <2>4, <1>a DEF ReadsHold, Assigning
  <2> QED
    BY <1>a, <2>1, <2>2, <2>5 DEF StatusInv
<1>11. ASSUME NEW h \in Handlers, NEW t \in Tasks, SetStatus(h, t)
       PROVE  StatusInv'
  <2>1. Wrote(h)
    BY <1>11, CompletedWrote DEF SetStatus
  <2>2. ~overlapped' => ~overlapped /\ req[h].key \in statuses
    BY <1>11, <1>f DEF SetStatus, Assigning
  <2>3. StatusesKnown'
    BY <1>11, <1>a, <1>c, <1>d, <2>2, StatusSetStatus, StoreKnown DEF SetStatus, TypeOK
  <2> QED
    BY <1>11, <1>a, <2>1, <2>3, WroteReads DEF StatusInv, SetStatus
<1>12. ASSUME NEW h \in Handlers, BulkStatus(h)
       PROVE  StatusInv'
  <2>1. Wrote(h)
    BY <1>12, <1>e, Onward DEF BulkStatus, Wrote, Assigning
  <2>2. ~overlapped' => ~overlapped /\ req[h].key \in statuses
    BY <1>12, <1>f DEF BulkStatus, Assigning
  <2>3. StatusesKnown'
    BY <1>12, <1>a, <1>c, <1>d, <2>2, StatusSetStatus, StoreKnown DEF BulkStatus, TypeOK
  <2> QED
    BY <1>12, <1>a, <2>1, <2>3, WroteReads DEF StatusInv, BulkStatus
<1>13. ASSUME NEW h \in Handlers, NEW i \in DOMAIN req[h].acts, Act(h, i)
       PROVE  StatusInv'
  <2>1. Head(req[h].acts[i]) \in Keys
    BY <1>13, AfterActType DEF Act, TypeOK
  <2>2. Wrote(h)
    BY <1>13, AfterActWrote DEF Act
  <2>3. StatusesKnown'
    BY <1>13, <1>a, <1>c, <2>1, StatusSetStatus, StoreKnown DEF Act, TypeOK
  <2> QED
    BY <1>13, <1>a, <2>2, <2>3, WroteReads DEF StatusInv, Act
<1>14. ASSUME NEW h \in Handlers, NEW t \in Tasks, NEW next \in Tasks, Spawn(h, t, next)
       PROVE  StatusInv'
  <2>1. /\ next \notin used /\ live' = live \cup {next} /\ statuses' = statuses /\ quiet' = quiet
        /\ row' = [row EXCEPT ![next] = NewTask("todo", TRUE)]
        /\ overlapped' = overlapped /\ incident' = incident
    BY <1>14 DEF Spawn
  <2>2. /\ req'[h].at \notin Assigning \cup {"delete_status"}
        /\ \A g \in Handlers \ {h} : req'[g] = req[g]
    BY <1>14, Onward DEF Spawn, Assigning
  <2>3. ReadsHold'
    BY <2>1, <2>2, <1>a, AddedReads
  <2>4. StatusesKnown'
    BY <2>1, <1>a, AddedKnown DEF Protected
  <2> QED
    BY <1>a, <2>1, <2>3, <2>4 DEF StatusInv
<1>15. ASSUME NEW h \in Handlers, req'[h].at \notin Assigning \cup {"delete_status"},
              \A g \in Handlers \ {h} : req'[g] = req[g],
              UNCHANGED tables, quiet' = quiet, overlapped' = overlapped, incident => incident'
       PROVE  StatusInv'
  <2>1. StatusesKnown'
    BY <1>15, <1>a DEF StatusesKnown, tables
  <2>2. \A k : TasksWith(k)' = TasksWith(k)
    BY <1>15 DEF TasksWith, tables
  <2>3. ReadsHold'
    BY <1>15, <1>a, <2>2 DEF ReadsHold, tables
  <2> QED
    BY <1>15, <1>a, <2>1, <2>3 DEF StatusInv, tables
<1>16. ASSUME NEW h \in Handlers, NotFound(h) \/ SpawnFails(h) \/ Fail(h)
       PROVE  StatusInv'
  <2>1. Answer(h) \/ \E ts : Continue(h, ts)
    BY <1>16 DEF NotFound, SpawnFails, Fail
  <2>2. /\ req'[h].at \notin Assigning \cup {"delete_status"}
        /\ \A g \in Handlers \ {h} : req'[g] = req[g]
    BY <2>1, Onward DEF Assigning
  <2> QED
    BY <1>15, <1>16, <2>2 DEF NotFound, SpawnFails, Fail, history, tables
<1>17. ASSUME NEW h \in Handlers, NEW t \in Tasks, RunRules(h, t)
       PROVE  StatusInv'
  <2>1. \/ Continue(h, Tail(req[h].triggers))
        \/ \E acts : req' = [req EXCEPT ![h].at = "act",
                                       ![h].triggers = Tail(req[h].triggers), ![h].acts = acts]
    BY <1>17, Zenon DEF RunRules
  <2>2. CASE Continue(h, Tail(req[h].triggers))
    BY <1>15, <1>17, <2>2, Onward DEF RunRules, Assigning, history
  <2>3. CASE \E acts : req' = [req EXCEPT ![h].at = "act",
                                        ![h].triggers = Tail(req[h].triggers), ![h].acts = acts]
    <3>1. req'[h].at = "act" /\ \A g \in Handlers \ {h} : req'[g] = req[g]
      BY <2>3, <1>d DEF TypeOK, Req
    <3> QED
      BY <1>15, <1>17, <3>1 DEF RunRules, Assigning, history
  <2> QED
    BY <2>1, <2>2, <2>3
<1>18. ASSUME NEW h \in Handlers, NEW i \in DOMAIN req[h].acts, ActFails(h, i)
       PROVE  StatusInv'
  <2> DEFINE left == [req[h].acts EXCEPT ![i] = Tail(@)]
  <2>1. /\ req'[h].at \notin Assigning \cup {"delete_status"}
        /\ \A g \in Handlers \ {h} : req'[g] = req[g]
    <3>1. CASE Exhausted(left)
      BY <1>18, <3>1, Onward DEF ActFails, AfterAct, Assigning
    <3>2. CASE ~Exhausted(left)
      <4>1. req' = [req EXCEPT ![h].acts = left] /\ req[h].at = "act"
        BY <1>18, <3>2 DEF ActFails, AfterAct, NextAct
      <4> QED
        BY <4>1, <1>d DEF TypeOK, Req, Assigning
    <3> QED
      BY <3>1, <3>2
  <2> QED
    BY <1>15, <1>18, <2>1 DEF ActFails
<1>19. ASSUME NEW h \in Handlers, DeleteStatus(h)
       PROVE  StatusInv'
  <2>1. Wrote(h)
    BY <1>19, <1>e, Onward DEF DeleteStatus, Wrote, Assigning
  <2>2. ~overlapped' => ~overlapped /\ quiet[h]
    BY <1>19 DEF DeleteStatus, Write, TypeOK
  <2>3. ~overlapped' /\ ~incident => TasksWith(req[h].key) = {}
    BY <1>19, <1>a, <2>2 DEF DeleteStatus, ReadsHold
  <2>4. StatusesKnown'
    BY <1>19, <1>a, <2>2, <2>3 DEF DeleteStatus, StatusesKnown, TasksWith
  <2> QED
    BY <1>19, <1>a, <2>1, <2>4, WroteReads DEF StatusInv, DeleteStatus
<1>20. ASSUME NEW S \in SUBSET live, NEW done \in BOOLEAN, BulkDone(S, done)
       PROVE  StatusInv'
  <2>1. ReadsHold'
    BY <1>20 DEF BulkDone, Disturb, ReadsHold
  <2>2. StatusesKnown'
    BY <1>20, <1>a, <1>c, StatusSetStatus, StoreKnown DEF BulkDone
  <2> QED
    BY <1>20, <1>a, <2>1, <2>2 DEF StatusInv, BulkDone
<1>21. ASSUME NEW S \in SUBSET live, Delete(S)
       PROVE  StatusInv'
  <2>1. \A t \in live' : t \in live /\ row'[t] = row[t]
    BY <1>21, <1>c DEF Delete
  <2>2. \A k : TasksWith(k) = {} => TasksWith(k)' = {}
    BY <2>1 DEF TasksWith
  <2>3. ReadsHold'
    BY <1>21, <1>a, <2>2 DEF Delete, ReadsHold
  <2>4. StatusesKnown'
    <3>1. statuses' = statuses /\ overlapped' = overlapped /\ incident' = incident
      BY <1>21 DEF Delete
    <3> QED
      BY <3>1, <1>a, <2>1 DEF StatusesKnown
  <2> QED
    BY <1>21, <1>a, <2>3, <2>4 DEF StatusInv, Delete
<1>22. ASSUME NEW key \in Keys, CreateStatus(key)
       PROVE  StatusInv'
  <2>1. \A k : TasksWith(k)' = TasksWith(k)
    BY <1>22 DEF CreateStatus, TasksWith
  <2> QED
    BY <1>22, <1>a, <2>1 DEF CreateStatus, StatusInv, ReadsHold, StatusesKnown, history
<1>23. CASE UNCHANGED vars
  <2>1. \A k : TasksWith(k)' = TasksWith(k)
    BY <1>23 DEF vars, tables, TasksWith
  <2> QED
    BY <1>23, <1>a, <2>1 DEF vars, tables, history, StatusInv, ReadsHold, StatusesKnown
<1>24. ASSUME NEW h \in Handlers, Arrive(h)
       PROVE  StatusInv'
  BY <1>24, <1>1, <1>2, <1>3, <1>4, <1>5, <1>6 DEF Arrive
<1>25. ASSUME NEW h \in Handlers, Serve(h)
       PROVE  StatusInv'
  BY <1>25, <1>7, <1>8, <1>9, <1>10, <1>11, <1>12, <1>13, <1>14, <1>16, <1>17, <1>18, <1>19
  DEF Serve
<1> QED
  BY <1>20, <1>21, <1>22, <1>23, <1>24, <1>25 DEF Next

(* Every task keeps a status of the table, unless requests overlapped, a   *)
(* statement failed or a rule set an unknown status (tasks.go:515,         *)
(* statuses.go:199-203).                                                   *)
THEOREM StatusesStayKnown == Spec => []StatusesKnown
<1>1. Init => StatusInv
  BY DEF Init, StatusInv, StatusesKnown, ReadsHold, NewTask, Protected
<1>2. StatusInv => StatusesKnown
  BY DEF StatusInv
<1> QED
  BY <1>1, <1>2, InitTypeOK, NextTypeOK, NextStatusInv, PTL DEF Spec
-----------------------------------------------------------------------------
(***************************************************************************)
(* Occurrences.  A completion is owed exactly as many occurrences as there *)
(* are requests about to make one, since what a request read of the task   *)
(* holds until another writes.                                             *)
(***************************************************************************)
OfOneTask == {"set_done", "get_task", "set_status", "spawn"}

PriorInv ==
  \A h \in Handlers :
    /\ req[h].at \in OfOneTask => \E t \in used : req[h].tasks = {t}
    /\ quiet[h] /\ req[h].at \in {"set_done", "set_status"} =>
         \A t \in req[h].tasks \cap live : req[h].prior = row[t].done

Spawners(t) == {h \in Handlers : req[h].at = "spawn" /\ t \in req[h].tasks}

OwedInv ==
  ~overlapped /\ ~incident =>
    \A t \in Tasks : IsFiniteSet(Spawners(t)) /\ owed[t] = Cardinality(Spawners(t))

(* A request that others left alone, one that is past its reads, and one   *)
(* whose read is of the task as it is.                                     *)
LEMMA PriorKept ==
  ASSUME PriorInv, used \subseteq used',
         \A h \in Handlers :
           \/ req'[h] = req[h] /\ (quiet'[h] => quiet[h] /\ \A t \in used \cap live' :
                                                              t \in live /\ row'[t].done = row[t].done)
           \/ req'[h].at \notin OfOneTask
           \/ /\ \E t \in used' : req'[h].tasks = {t}
              /\ req'[h].at \in {"set_done", "set_status"} =>
                   \A t \in req'[h].tasks \cap live' : req'[h].prior = row'[t].done
  PROVE  PriorInv'
<1> SUFFICES ASSUME NEW h \in Handlers
             PROVE  /\ req'[h].at \in OfOneTask => \E t \in used' : req'[h].tasks = {t}
                    /\ quiet'[h] /\ req'[h].at \in {"set_done", "set_status"} =>
                         \A t \in req'[h].tasks \cap live' : req'[h].prior = row'[t].done
  BY DEF PriorInv
<1>1. CASE req'[h] = req[h] /\ (quiet'[h] => quiet[h] /\ \A t \in used \cap live' :
                                                           t \in live /\ row'[t].done = row[t].done)
  <2>1. /\ req[h].at \in OfOneTask => \E t \in used : req[h].tasks = {t}
        /\ quiet[h] /\ req[h].at \in {"set_done", "set_status"} =>
             \A t \in req[h].tasks \cap live : req[h].prior = row[t].done
    BY DEF PriorInv
  <2> QED
    BY <1>1, <2>1 DEF OfOneTask
<1>2. CASE req'[h].at \notin OfOneTask
  BY <1>2 DEF OfOneTask
<1> QED
  BY <1>1, <1>2

(* A step that neither makes nor is about to make an occurrence.           *)
LEMMA NobodySpawns ==
  ASSUME OwedInv, owed' = owed, overlapped => overlapped', incident => incident',
         \A h \in Handlers : req'[h] = req[h] \/ (req[h].at # "spawn" /\ req'[h].at # "spawn")
  PROVE  OwedInv'
<1>1. \A t : Spawners(t)' = Spawners(t)
  BY DEF Spawners
<1> QED
  BY <1>1 DEF OwedInv

LEMMA SpawnersGain ==
  ASSUME OwedInv, ~overlapped, ~incident, NEW h \in Handlers, NEW t \in Tasks,
         owed' = [owed EXCEPT ![t] = @ + 1], TypeOK,
         req[h].at # "spawn", req'[h].at = "spawn", req'[h].tasks = {t},
         \A g \in Handlers \ {h} : req'[g] = req[g]
  PROVE  OwedInv'
<1>1. \A u \in Tasks \ {t} : Spawners(u)' = Spawners(u) /\ owed'[u] = owed[u]
  BY DEF Spawners, TypeOK
<1>2. Spawners(t)' = Spawners(t) \cup {h} /\ h \notin Spawners(t) /\ owed'[t] = owed[t] + 1
  BY DEF Spawners, TypeOK
<1>3. IsFiniteSet(Spawners(t)) /\ owed[t] = Cardinality(Spawners(t))
  BY DEF OwedInv
<1>4. IsFiniteSet(Spawners(t)') /\ Cardinality(Spawners(t)') = Cardinality(Spawners(t)) + 1
  BY <1>2, <1>3, FS_AddElement
<1> QED
  BY <1>1, <1>2, <1>3, <1>4 DEF OwedInv

LEMMA SpawnersLose ==
  ASSUME OwedInv, overlapped' = overlapped, incident' = incident, NEW h \in Handlers, NEW t \in Tasks,
         owed' = [owed EXCEPT ![t] = @ - 1], TypeOK,
         req[h].at = "spawn", req[h].tasks = {t}, req'[h].at # "spawn",
         \A g \in Handlers \ {h} : req'[g] = req[g]
  PROVE  OwedInv'
<1> SUFFICES ASSUME ~overlapped, ~incident, NEW u \in Tasks
             PROVE  IsFiniteSet(Spawners(u)') /\ owed'[u] = Cardinality(Spawners(u)')
  BY DEF OwedInv
<1>1. IsFiniteSet(Spawners(u)) /\ owed[u] = Cardinality(Spawners(u))
  BY DEF OwedInv
<1>2. CASE u # t
  <2>1. h \notin Spawners(u) /\ h \notin Spawners(u)' /\ owed'[u] = owed[u]
    BY <1>2 DEF Spawners, TypeOK
  <2>2. Spawners(u)' = Spawners(u)
    BY <2>1 DEF Spawners
  <2> QED
    BY <1>1, <2>1, <2>2
<1>3. CASE u = t
  <2>1. Spawners(t)' = Spawners(t) \ {h} /\ h \in Spawners(t) /\ owed'[t] = owed[t] - 1
    BY DEF Spawners, TypeOK
  <2>2. IsFiniteSet(Spawners(t)') /\ Cardinality(Spawners(t)') = Cardinality(Spawners(t)) - 1
    BY <1>1, <1>3, <2>1, FS_RemoveElement
  <2> QED
    BY <1>1, <1>3, <2>1, <2>2
<1> QED
  BY <1>2, <1>3

(* A completion is owed an occurrence exactly if its request goes on to    *)
(* make one.                                                               *)
LEMMA CompletionOwes ==
  ASSUME TypeOK, PriorInv, OwedInv, NEW h \in Handlers, NEW t \in req[h].tasks \cap live, NEW ts,
         NEW new, Store({t}, new), row[t].done \in BOOLEAN, new[t].done = (req[h].key = "done"),
         req[h].at \in {"set_done", "set_status"}, Completed(h, t, ts), Write(h), incident' = incident,
         live' = live
  PROVE  OwedInv'
<1>1. t \in Tasks /\ row'[t].done = (req[h].key = "done") /\ req[h].tasks = {t} /\ req[h].at # "spawn"
  <2>1. live \subseteq Tasks
    BY DEF TypeOK
  <2>2. row'[t] = new[t]
    BY <2>1 DEF Store
  <2> QED
    BY <2>1, <2>2 DEF PriorInv, OfOneTask
<1>2. \A g \in Handlers \ {h} : req'[g] = req[g]
  BY Onward DEF Completed
<1> SUFFICES ASSUME ~overlapped', ~incident' PROVE OwedInv'
  BY DEF OwedInv
<1>3. ~overlapped /\ ~incident /\ quiet[h]
  BY DEF Write, TypeOK
<1>4. req[h].prior = row[t].done
  BY <1>3 DEF PriorInv
<1>5. CASE Completes(h) /\ row[t].recurs
  <2>1. owed' = [owed EXCEPT ![t] = @ + 1] /\ Goto(h, "spawn", ts)
    BY <1>1, <1>4, <1>5 DEF Completed, Completes
  <2>2. req'[h].at = "spawn" /\ req'[h].tasks = {t}
    BY <1>1, <2>1 DEF Goto, Idle, TypeOK
  <2> QED
    BY <1>1, <1>2, <1>3, <2>1, <2>2, SpawnersGain
<1>6. CASE ~(Completes(h) /\ row[t].recurs)
  <2>1. owed' = owed
    BY <1>1, <1>4, <1>6 DEF Completed, Completes
  <2>2. Continue(h, ts)
    BY <1>6 DEF Completed
  <2>3. req'[h].at # "spawn"
    BY <2>2, Onward
  <2> QED
    BY <1>1, <1>2, <1>3, <2>1, <2>3, NobodySpawns
<1> QED
  BY <1>5, <1>6

LEMMA CompletedGoesOn ==
  ASSUME TypeOK, PriorInv, NEW h \in Handlers, NEW t, NEW ts, Completed(h, t, ts), Write(h),
         req[h].at \in OfOneTask, used' = used
  PROVE  PriorInv'
<1>1. \/ req'[h].at = "spawn" /\ req'[h].tasks = req[h].tasks
      \/ req'[h].at \in {"idle", "rules"}
  <2>1. CASE Goto(h, "spawn", ts)
    BY <2>1 DEF Goto, Idle, TypeOK
  <2>2. CASE Continue(h, ts)
    BY <2>2, Onward
  <2> QED
    BY <2>1, <2>2 DEF Completed
<1>2. \A g \in Handlers \ {h} : req'[g] = req[g] /\ ~quiet'[g]
  BY Onward DEF Completed, Write, Disturb
<1>3. \E u \in used : req[h].tasks = {u}
  BY DEF PriorInv
<1>4. \/ req'[h].at \notin OfOneTask
      \/ (\E u \in used' : req'[h].tasks = {u}) /\ req'[h].at \notin {"set_done", "set_status"}
  BY <1>1, <1>3 DEF OfOneTask
<1> QED
  BY <1>2, <1>4, PriorKept

(* A request arrives: of no task, or of one it has read or has yet to read. *)
LEMMA BeginOccurrences ==
  ASSUME TypeOK, PriorInv, OwedInv, NEW h \in Handlers, NEW r, Begin(h, r), r.at # "spawn",
         r.at \in OfOneTask => /\ \E t \in used : r.tasks = {t}
                               /\ r.at = "set_status" => FALSE
                               /\ r.at = "set_done" => \A t \in r.tasks : r.prior = row[t].done
  PROVE  PriorInv' /\ OwedInv'
<1>1. /\ used' = used /\ live' = live /\ row' = row /\ owed' = owed
      /\ overlapped' = overlapped /\ incident' = incident
      /\ req'[h] = r /\ req[h].at = "idle"
      /\ \A g \in Handlers \ {h} : req'[g] = req[g] /\ quiet'[g] = quiet[g]
  BY DEF Begin, tables, TypeOK, Idle
<1>2. PriorInv'
  <2>1. \/ req'[h].at \notin OfOneTask
        \/ /\ \E t \in used' : req'[h].tasks = {t}
           /\ req'[h].at \in {"set_done", "set_status"} =>
                \A t \in req'[h].tasks \cap live' : req'[h].prior = row'[t].done
    BY <1>1
  <2> QED
    BY <1>1, <2>1, PriorKept
<1>3. OwedInv'
  BY <1>1, NobodySpawns
<1> QED
  BY <1>2, <1>3

(* A write of a handler that goes on to anything but one of these steps,   *)
(* or of nobody in Handlers.                                               *)
LEMMA WriteOccurrences ==
  ASSUME PriorInv, OwedInv, NEW h \in Handlers, used \subseteq used', owed' = owed,
         overlapped => overlapped', incident => incident',
         req[h].at # "spawn", req'[h].at \notin OfOneTask,
         \A g \in Handlers \ {h} : req'[g] = req[g] /\ ~quiet'[g]
  PROVE  PriorInv' /\ OwedInv'
<1>1. PriorInv'
  BY PriorKept
<1>2. OwedInv'
  BY NobodySpawns DEF OfOneTask
<1> QED
  BY <1>1, <1>2

(* A step that writes no row another request may have read.                *)
LEMMA AsideOccurrences ==
  ASSUME PriorInv, OwedInv, used \subseteq used', owed' = owed, quiet' = quiet,
         overlapped => overlapped', incident => incident',
         \A t \in used \cap live' : t \in live /\ row'[t].done = row[t].done,
         \A g \in Handlers : \/ req'[g] = req[g]
                             \/ req[g].at # "spawn" /\ req'[g].at \notin OfOneTask
  PROVE  PriorInv' /\ OwedInv'
<1>1. PriorInv'
  BY PriorKept
<1>2. OwedInv'
  BY NobodySpawns DEF OfOneTask
<1> QED
  BY <1>1, <1>2

LEMMA NextOccurrences ==
  ASSUME TypeOK, PriorInv, OwedInv, [Next]_vars
  PROVE  PriorInv' /\ OwedInv'
<1>a. \A t \in Tasks : row[t] \in Row /\ row[t].done \in BOOLEAN
  BY DEF TypeOK, Row
<1>b. live \subseteq used /\ used \subseteq Tasks
  BY DEF TypeOK
<1>c. \A h \in Handlers : Write(h) => \A g \in Handlers \ {h} : ~quiet'[g]
  BY DEF Write, Disturb
<1>d. \A h \in Handlers : req[h] \in Req
  BY DEF TypeOK
<1>e. \A h \in Handlers : Write(h) => (overlapped => overlapped')
  BY DEF Write
<1>1. ASSUME NEW h \in Handlers, NEW key \in Keys, NEW recurs \in BOOLEAN,
             CreateChecks(h, key, recurs) \/ \E t \in live : UpdateChecks(h, t, key, recurs)
      PROVE  PriorInv' /\ OwedInv'
  BY <1>1, BeginOccurrences DEF CreateChecks, UpdateChecks, Idle, OfOneTask
<1>2. ASSUME NEW h \in Handlers, NEW t \in Tasks, NEW done \in BOOLEAN, SetDoneReads(h, t, done)
      PROVE  PriorInv' /\ OwedInv'
  <2> DEFINE r == [Idle EXCEPT !.at = "set_done", !.tasks = {t}, !.prior = row[t].done,
                               !.key = IF done THEN "done" ELSE "todo"]
  <2>1. t \in used /\ Begin(h, r)
    BY <1>2, <1>b DEF SetDoneReads
  <2>2. r.at = "set_done" /\ r.tasks = {t} /\ r.prior = row[t].done
    BY DEF Idle
  <2> HIDE DEF r
  <2> QED
    BY <2>1, <2>2, BeginOccurrences
<1>3. ASSUME NEW h \in Handlers, NEW t \in live, NEW key \in Keys, SetStatusChecks(h, t, key)
      PROVE  PriorInv' /\ OwedInv'
  <2> DEFINE r == [Idle EXCEPT !.at = "get_task", !.tasks = {t}, !.key = key]
  <2>1. t \in used /\ Begin(h, r)
    BY <1>3, <1>b DEF SetStatusChecks
  <2>2. r.at = "get_task" /\ r.tasks = {t}
    BY DEF Idle
  <2> HIDE DEF r
  <2> QED
    BY <2>1, <2>2, BeginOccurrences
<1>4. ASSUME NEW h \in Handlers, NEW S \in SUBSET live, NEW key \in Keys, BulkStatusChecks(h, S, key)
      PROVE  PriorInv' /\ OwedInv'
  BY <1>4, BeginOccurrences DEF BulkStatusChecks, Idle, OfOneTask
<1>5. ASSUME NEW h \in Handlers, NEW t \in Tasks, FileTask(h, t)
      PROVE  PriorInv' /\ OwedInv'
  <2>1. /\ used' = used \cup {t} /\ live' = live \cup {t} /\ t \notin used /\ req[h].at = "idle"
        /\ row' = [row EXCEPT ![t] = NewTask("todo", FALSE)]
        /\ UNCHANGED <<owed, quiet, overlapped, incident>>
    BY <1>5 DEF FileTask, history, Idle
  <2>2. \A u \in used \cap live' : u \in live /\ row'[u].done = row[u].done
    BY <2>1, <1>b DEF TypeOK
  <2>3. \A g \in Handlers : req'[g] = req[g] \/ (g = h /\ req'[g].at = "rules")
    BY <1>5 DEF FileTask, TypeOK, CreatedTask, Idle
  <2> QED
    BY <2>1, <2>2, <2>3, AsideOccurrences DEF OfOneTask
<1>6. ASSUME NEW h \in Handlers, NEW key \in Keys, NEW counted \in BOOLEAN,
             DeleteStatusChecks(h, key, counted)
      PROVE  PriorInv' /\ OwedInv'
  <2>1. /\ req[h].at = "idle" /\ req'[h].at = "delete_status"
        /\ \A g \in Handlers \ {h} : req'[g] = req[g] /\ quiet'[g] = quiet[g]
        /\ UNCHANGED <<live, used, row, owed, overlapped>> /\ (incident => incident')
    BY <1>6 DEF DeleteStatusChecks, tables, TypeOK, Idle
  <2>2. PriorInv'
    BY <2>1, PriorKept DEF OfOneTask
  <2>3. OwedInv'
    BY <2>1, NobodySpawns
  <2> QED
    BY <2>2, <2>3
<1>7. ASSUME NEW h \in Handlers, NEW t \in Tasks, Create(h, t)
      PROVE  PriorInv' /\ OwedInv'
  <2>1. req'[h].at = "rules" /\ \A g \in Handlers \ {h} : req'[g] = req[g]
    BY <1>7 DEF Create, TypeOK, CreatedTask, Idle
  <2> QED
    BY <1>7, <1>c, <1>e, <2>1, WriteOccurrences DEF Create, OfOneTask
<1>8. ASSUME NEW h \in Handlers, Update(h) \/ BulkStatus(h) \/ DeleteStatus(h)
      PROVE  PriorInv' /\ OwedInv'
  <2>1. req'[h].at \in {"idle", "rules"} /\ \A g \in Handlers \ {h} : req'[g] = req[g]
    BY <1>8, Onward DEF Update, BulkStatus, DeleteStatus
  <2> QED
    BY <1>8, <1>c, <1>e, <2>1, WriteOccurrences DEF Update, BulkStatus, DeleteStatus, OfOneTask
<1>9. ASSUME NEW h \in Handlers, NEW t \in Tasks, SetDone(h, t)
      PROVE  PriorInv' /\ OwedInv'
  <2>1. DoneSet(req[h].key = "done")[t].done = (req[h].key = "done")
    BY <1>a DEF DoneSet, WithDone, Row
  <2>2. OwedInv'
    BY <1>9, <1>a, <2>1, CompletionOwes DEF SetDone
  <2>3. PriorInv'
    BY <1>9, CompletedGoesOn DEF SetDone, OfOneTask
  <2> QED
    BY <2>2, <2>3
<1>10. ASSUME NEW h \in Handlers, NEW t \in Tasks, GetTask(h, t)
       PROVE  PriorInv' /\ OwedInv'
  <2>1. /\ UNCHANGED <<live, used, row, owed, quiet, overlapped, incident>>
        /\ req[h].at = "get_task" /\ req'[h].at = "set_status"
        /\ req'[h].tasks = req[h].tasks /\ req'[h].prior = row[t].done /\ t \in req[h].tasks
        /\ \A g \in Handlers \ {h} : req'[g] = req[g]
    BY <1>10, <1>d DEF GetTask, tables, history, TypeOK, Req
  <2>2. \E u \in used : req[h].tasks = {u}
    BY <2>1 DEF PriorInv, OfOneTask
  <2>3. PriorInv'
    BY <2>1, <2>2, PriorKept
  <2>4. OwedInv'
    BY <2>1, NobodySpawns
  <2> QED
    BY <2>3, <2>4
<1>11. ASSUME NEW h \in Handlers, NEW t \in Tasks, SetStatus(h, t)
       PROVE  PriorInv' /\ OwedInv'
  <2>1. StatusSet(req[h].key)[t].done = (req[h].key = "done")
    BY <1>a DEF StatusSet, WithStatus, Row
  <2>2. OwedInv'
    BY <1>11, <1>a, <2>1, CompletionOwes DEF SetStatus
  <2>3. PriorInv'
    BY <1>11, CompletedGoesOn DEF SetStatus, OfOneTask
  <2> QED
    BY <2>2, <2>3
<1>12. ASSUME NEW h \in Handlers, NotFound(h)
       PROVE  PriorInv' /\ OwedInv'
  <2>1. /\ req[h].at # "spawn" /\ req'[h].at = "idle" /\ \A g \in Handlers \ {h} : req'[g] = req[g]
        /\ UNCHANGED <<live, used, row, owed, quiet, overlapped, incident>>
    BY <1>12, Onward DEF NotFound, tables, history
  <2> QED
    BY <2>1, AsideOccurrences DEF OfOneTask
<1>13. ASSUME NEW h \in Handlers, NEW t \in Tasks, NEW next \in Tasks, Spawn(h, t, next)
       PROVE  PriorInv' /\ OwedInv'
  <2>1. /\ req[h].at = "spawn" /\ req[h].tasks = {t} /\ req'[h].at \in {"idle", "rules"}
        /\ \A g \in Handlers \ {h} : req'[g] = req[g]
    BY <1>13, Onward DEF Spawn, PriorInv, OfOneTask
  <2>2. \A u \in used \cap live' : u \in live /\ row'[u].done = row[u].done
    BY <1>13, <1>b DEF Spawn, TypeOK
  <2>3. PriorInv'
    BY <1>13, <2>1, <2>2, PriorKept DEF Spawn, OfOneTask
  <2>4. OwedInv'
    BY <1>13, <2>1, SpawnersLose DEF Spawn
  <2> QED
    BY <2>3, <2>4
(* A request that leaves, or loses its occurrence, by a failure.           *)
<1>14. ASSUME NEW h \in Handlers, incident', UNCHANGED <<tables, owed, quiet>>,
              req'[h].at \notin OfOneTask, \A g \in Handlers \ {h} : req'[g] = req[g]
       PROVE  PriorInv' /\ OwedInv'
  <2>1. PriorInv'
    BY <1>14, PriorKept DEF tables
  <2> QED
    BY <1>14, <2>1 DEF OwedInv
<1>15. ASSUME NEW h \in Handlers, SpawnFails(h) \/ Fail(h)
       PROVE  PriorInv' /\ OwedInv'
  <2>1. req'[h].at \in {"idle", "rules"} /\ \A g \in Handlers \ {h} : req'[g] = req[g]
    BY <1>15, Onward DEF SpawnFails, Fail
  <2> QED
    BY <1>14, <1>15, <2>1 DEF SpawnFails, Fail, OfOneTask
<1>16. ASSUME NEW h \in Handlers, NEW t \in Tasks, RunRules(h, t)
       PROVE  PriorInv' /\ OwedInv'
  <2>1. \/ Continue(h, Tail(req[h].triggers))
        \/ \E acts : req' = [req EXCEPT ![h].at = "act",
                                       ![h].triggers = Tail(req[h].triggers), ![h].acts = acts]
    BY <1>16, Zenon DEF RunRules
  <2>2. req'[h].at \in {"idle", "rules", "act"} /\ \A g \in Handlers \ {h} : req'[g] = req[g]
    <3>1. CASE Continue(h, Tail(req[h].triggers))
      BY <3>1, Onward
    <3>2. CASE \E acts : req' = [req EXCEPT ![h].at = "act",
                                          ![h].triggers = Tail(req[h].triggers), ![h].acts = acts]
      BY <3>2, <1>d DEF TypeOK, Req
    <3> QED
      BY <2>1, <3>1, <3>2
  <2>3. req[h].at = "rules" /\ UNCHANGED <<live, used, row, owed, quiet, overlapped, incident>>
    BY <1>16 DEF RunRules, tables, history
  <2> QED
    BY <2>2, <2>3, AsideOccurrences DEF OfOneTask
<1>17. ASSUME NEW h \in Handlers, NEW i, NextAct(h, i), AfterAct(h, i)
       PROVE  /\ req[h].at = "act" /\ req'[h].at \in {"idle", "rules", "act"}
              /\ \A g \in Handlers \ {h} : req'[g] = req[g]
  <2> DEFINE left == [req[h].acts EXCEPT ![i] = Tail(@)]
  <2>1. CASE Exhausted(left)
    BY <1>17, <2>1, Onward DEF AfterAct, NextAct
  <2>2. CASE ~Exhausted(left)
    BY <1>17, <1>d, <2>2 DEF AfterAct, NextAct, TypeOK, Req
  <2> QED
    BY <2>1, <2>2
<1>18. ASSUME NEW h \in Handlers, NEW i, Act(h, i)
       PROVE  PriorInv' /\ OwedInv'
  <2>1. \A g \in Handlers \ {h} : ~quiet'[g]
    BY <1>18 DEF Act, Disturb
  <2> QED
    BY <1>17, <1>18, <2>1, WriteOccurrences DEF Act, OfOneTask
<1>19. ASSUME NEW h \in Handlers, NEW i, ActFails(h, i)
       PROVE  PriorInv' /\ OwedInv'
  BY <1>14, <1>17, <1>19 DEF ActFails, OfOneTask
<1>20. ASSUME NEW S \in SUBSET live, NEW done \in BOOLEAN, BulkDone(S, done)
       PROVE  PriorInv' /\ OwedInv'
  <2>1. \A h \in Handlers : ~quiet'[h] /\ req'[h] = req[h]
    BY <1>20 DEF BulkDone, Disturb
  <2>2. PriorInv'
    BY <1>20, <2>1, PriorKept DEF BulkDone
  <2>3. OwedInv'
    BY <1>20, <2>1, NobodySpawns DEF BulkDone
  <2> QED
    BY <2>2, <2>3
<1>21. ASSUME NEW S \in SUBSET live, Delete(S)
       PROVE  PriorInv' /\ OwedInv'
  <2>1. \A u \in used \cap live' : u \in live /\ row'[u].done = row[u].done
    BY <1>21, <1>b DEF Delete
  <2> QED
    BY <1>21, <2>1, AsideOccurrences DEF Delete
<1>22. ASSUME NEW key \in Keys, CreateStatus(key)
       PROVE  PriorInv' /\ OwedInv'
  BY <1>22, AsideOccurrences DEF CreateStatus, history
<1>23. CASE UNCHANGED vars
  BY <1>23, AsideOccurrences DEF vars, tables, history
<1>24. ASSUME NEW h \in Handlers, Arrive(h)
       PROVE  PriorInv' /\ OwedInv'
  BY <1>24, <1>1, <1>2, <1>3, <1>4, <1>5, <1>6 DEF Arrive
<1>25. ASSUME NEW h \in Handlers, Serve(h)
       PROVE  PriorInv' /\ OwedInv'
  BY <1>25, <1>7, <1>8, <1>9, <1>10, <1>11, <1>12, <1>13, <1>15, <1>16, <1>18, <1>19 DEF Serve
<1> QED
  BY <1>20, <1>21, <1>22, <1>23, <1>24, <1>25 DEF Next

(* Once every request is answered each completion of a recurring task has  *)
(* left one occurrence, unless requests overlapped or a statement failed   *)
(* (tasks.go, setDone, setStatus and spawnNext), for any number of tasks,  *)
(* requests and rules.                                                     *)
THEOREM OneOccurrenceEach == Spec => []OneOccurrencePerCompletion
<1>1. Init => PriorInv /\ OwedInv
  <2> SUFFICES ASSUME Init PROVE PriorInv /\ OwedInv
    OBVIOUS
  <2>1. \A h \in Handlers : req[h].at = "idle"
    BY DEF Init, Idle
  <2>2. \A t : Spawners(t) = {}
    BY <2>1 DEF Spawners
  <2> QED
    BY <2>1, <2>2, FS_EmptySet DEF Init, PriorInv, OwedInv, OfOneTask
<1>2. OwedInv => OneOccurrencePerCompletion
  <2> SUFFICES ASSUME OwedInv, ~overlapped, ~incident, \A h \in Handlers : req[h] = Idle, NEW t \in Tasks
               PROVE  owed[t] = 0
    BY DEF OneOccurrencePerCompletion
  <2>1. Spawners(t) = {}
    BY DEF Spawners, Idle
  <2> QED
    BY <2>1, FS_EmptySet DEF OwedInv
<1> QED
  BY <1>1, <1>2, InitTypeOK, NextTypeOK, NextOccurrences, PTL DEF Spec

=============================================================================
