--------------------------- MODULE ChatHub_proofs ---------------------------
(***************************************************************************)
(* For every number of users, connections and senders: nobody sends on a   *)
(* closed channel, the registry is exact, and a client that has drained    *)
(* its channel shows who is online.                                        *)
(***************************************************************************)
EXTENDS ChatHub, TLAPS

Registered == {"announce_on", "reading", "leave"}

ControlOK ==
  /\ userID \in [Conns -> Users]
  /\ clients \in [Users -> SUBSET Conns]
  /\ closed \in SUBSET Conns
  /\ pc \in [Conns -> PCs]
  /\ event \in [Threads -> Event \cup {NoEvent}]
  /\ left \in [Threads -> SUBSET Conns]

(***************************************************************************)
(* The connections still to be visited are registered ones, there are some *)
(* only under the read lock, and a channel is closed only after its        *)
(* connection has left the registry.                                       *)
(***************************************************************************)
LockInv ==
  /\ \A c \in Conns, u \in Users :
       c \in clients[u] <=> u = userID[c] /\ pc[c] \in Registered
  /\ \A c \in closed : pc[c] \in {"announce_off", "done"}
  /\ \A t \in Threads : \A c \in left[t] : pc[c] \in Registered
  /\ \A t \in Threads : event[t] = NoEvent => left[t] = {}

IInv == ControlOK /\ LockInv

LEMMA InitIInv == Init => IInv
<1> SUFFICES ASSUME Init PROVE IInv
  OBVIOUS
<1>1. ControlOK
  BY HubAssumption DEF Init, ControlOK, PCs
<1>2. LockInv
  BY HubAssumption, <1>1 DEF Init, LockInv, Registered, ControlOK
<1> QED
  BY <1>1, <1>2 DEF IInv

(* Steps that leave the registry, the channels' state and the control of   *)
(* every goroutine alone.                                                  *)
LEMMA QuietIInv ==
  ASSUME IInv, UNCHANGED <<userID, clients, closed, pc, event, left>>
  PROVE  IInv'
BY DEF IInv, ControlOK, LockInv

LEMMA RegisterIInv ==
  ASSUME IInv, NEW c \in Conns, Register(c)
  PROVE  IInv'
<1>1. /\ pc[c] = "join"
      /\ clients' = [clients EXCEPT ![userID[c]] = clients[userID[c]] \cup {c}]
      /\ UNCHANGED <<userID, closed, event, left>>
      /\ pc' = [pc EXCEPT ![c] = "reading"] \/ pc' = [pc EXCEPT ![c] = "announce_on"]
  BY DEF Register, Joined, Goto
<1>2. ControlOK'
  BY <1>1 DEF IInv, ControlOK, PCs
<1>3. pc'[c] \in Registered /\ \A d \in Conns : d # c => pc'[d] = pc[d]
  BY <1>1 DEF IInv, ControlOK, Registered
<1>4. LockInv'
  BY <1>1, <1>3 DEF IInv, ControlOK, LockInv, Registered
<1> QED
  BY <1>2, <1>4 DEF IInv

(* The write lock excludes every thread that has connections to visit.     *)
LEMMA UnregisterIInv ==
  ASSUME IInv, NEW c \in Conns, Unregister(c)
  PROVE  IInv'
<1>1. /\ pc[c] = "leave"
      /\ clients' = [clients EXCEPT ![userID[c]] = clients[userID[c]] \ {c}]
      /\ closed' = closed \cup {c}
      /\ UNCHANGED <<userID, event, left>>
      /\ pc' = [pc EXCEPT ![c] = "announce_off"] \/ pc' = [pc EXCEPT ![c] = "done"]
  BY DEF Unregister, Goto
<1>2. \A t \in Threads : left[t] = {}
  BY DEF Unregister, CanLock, Readers, IInv, LockInv
<1>3. ControlOK'
  BY <1>1 DEF IInv, ControlOK, PCs
<1>4. pc'[c] \in {"announce_off", "done"} /\ \A d \in Conns : d # c => pc'[d] = pc[d]
  BY <1>1 DEF IInv, ControlOK
<1>5. LockInv'
  BY <1>1, <1>2, <1>4 DEF IInv, ControlOK, LockInv, Registered
<1> QED
  BY <1>3, <1>5 DEF IInv

(* What a thread sends to is registered when it takes the read lock.       *)
LEMMA RLockIInv ==
  ASSUME IInv, NEW t \in Threads, NEW e \in Event, NEW to \in SUBSET Users,
         RLock(t, e, UNION {clients[u] : u \in to}),
         UNCHANGED <<userID, clients, closed, pc>>
  PROVE  IInv'
<1> DEFINE targets == UNION {clients[u] : u \in to}
<1>1. /\ event' = [event EXCEPT ![t] = e]
      /\ left' = [left EXCEPT ![t] = targets]
  BY DEF RLock
<1>2. targets \subseteq Conns /\ \A c \in targets : pc[c] \in Registered
  BY DEF IInv, ControlOK, LockInv
<1>3. e # NoEvent
  BY HubAssumption
<1>4. ControlOK'
  BY <1>1, <1>2 DEF IInv, ControlOK
<1>5. LockInv'
  <2> HIDE DEF targets
  <2> QED
    BY <1>1, <1>2, <1>3 DEF IInv, ControlOK, LockInv
<1> QED
  BY <1>4, <1>5 DEF IInv

LEMMA VisitIInv ==
  ASSUME IInv, NEW t \in Threads, NEW c \in Conns, Visit(t, c)
  PROVE  IInv'
<1>1. /\ c \in left[t]
      /\ left' = [left EXCEPT ![t] = left[t] \ {c}]
      /\ UNCHANGED <<userID, clients, closed, pc, event>>
  BY DEF Visit, conns
<1> QED
  BY <1>1 DEF IInv, ControlOK, LockInv

LEMMA UnlockIInv ==
  ASSUME IInv, NEW t \in Threads, Unlock(t)
  PROVE  IInv'
<1>1. /\ left[t] = {}
      /\ event' = [event EXCEPT ![t] = NoEvent]
      /\ UNCHANGED <<userID, clients, closed, left>>
  BY DEF Unlock
<1>2. /\ pc' \in [Conns -> PCs]
      /\ \A c \in Conns : \/ pc'[c] = pc[c]
                          \/ pc[c] = "announce_on" /\ pc'[c] = "reading"
                          \/ pc[c] = "announce_off" /\ pc'[c] = "done"
  BY DEF Unlock, IInv, ControlOK, PCs
<1>3. ControlOK'
  BY <1>1, <1>2 DEF IInv, ControlOK
<1>4. LockInv'
  <2>1. \A c \in Conns : pc'[c] \in Registered <=> pc[c] \in Registered
    BY <1>2 DEF Registered
  <2>2. \A c \in closed' : pc'[c] \in {"announce_off", "done"}
    BY <1>1, <1>2 DEF IInv, ControlOK, LockInv
  <2>3. \A u \in Threads : event'[u] = NoEvent => left'[u] = {}
    BY <1>1 DEF IInv, ControlOK, LockInv
  <2> QED
    BY <1>1, <2>1, <2>2, <2>3 DEF IInv, ControlOK, LockInv
<1> QED
  BY <1>3, <1>4 DEF IInv

(* A goroutine goes on, joining no registry and leaving none.              *)
LEMMA GotoIInv ==
  ASSUME IInv, NEW c \in Conns, Upgrade(c) \/ ReadFails(c)
  PROVE  IInv'
<1>1. /\ UNCHANGED <<userID, clients, closed, event, left>>
      /\ \/ pc[c] = "new" /\ pc' = [pc EXCEPT ![c] = "join"]
         \/ pc[c] = "reading" /\ pc' = [pc EXCEPT ![c] = "leave"]
  BY DEF Upgrade, ReadFails, Goto
<1>2. ControlOK'
  BY <1>1 DEF IInv, ControlOK, PCs
<1>3. \A d \in Conns : pc'[d] \in Registered <=> pc[d] \in Registered
  BY <1>1 DEF IInv, ControlOK, Registered
<1>4. \A d \in closed' : pc'[d] \in {"announce_off", "done"}
  BY <1>1 DEF IInv, ControlOK, LockInv
<1>5. LockInv'
  BY <1>1, <1>3, <1>4 DEF IInv, ControlOK, LockInv
<1> QED
  BY <1>2, <1>5 DEF IInv

LEMMA NextIInv == IInv /\ [Next]_vars => IInv'
<1> SUFFICES ASSUME IInv, [Next]_vars PROVE IInv'
  OBVIOUS
<1>1. ASSUME NEW c \in Conns, Upgrade(c) \/ ReadFails(c) PROVE IInv'
  BY <1>1, GotoIInv
<1>2. ASSUME NEW c \in Conns, Register(c) PROVE IInv'
  BY <1>2, RegisterIInv
<1>3. ASSUME NEW c \in Conns, Unregister(c) PROVE IInv'
  BY <1>3, UnregisterIInv
<1>4. ASSUME NEW c \in Conns, Announce(c) PROVE IInv'
  <2>1. [user |-> userID[c], online |-> pc[c] = "announce_on"] \in Event
    BY DEF Event, Presence, IInv, ControlOK
  <2>2. c \in Threads /\ UNCHANGED <<userID, clients, closed, pc>>
    BY <1>4 DEF Announce, conns, Threads
  <2> QED
    BY <1>4, <2>1, <2>2, RLockIInv DEF Announce, Everyone
<1>5. ASSUME NEW c \in Conns, NEW to \in SUBSET Users, Typing(c, to) PROVE IInv'
  BY <1>5, RLockIInv DEF Typing, conns, Threads, Event
<1>6. ASSUME NEW s \in Senders, NEW to \in SUBSET Users, SendToUsers(s, to) PROVE IInv'
  BY <1>6, RLockIInv DEF SendToUsers, conns, Threads, Event
<1>7. ASSUME NEW s \in Senders, NEW u \in Users, SetMyStatus(s, u) PROVE IInv'
  <2>1. [user |-> u, online |-> TRUE] \in Event
    BY DEF Event, Presence
  <2>2. s \in Threads /\ UNCHANGED <<userID, clients, closed, pc>>
    BY <1>7 DEF SetMyStatus, conns, Threads
  <2> QED
    BY <1>7, <2>1, <2>2, RLockIInv DEF SetMyStatus, Everyone
<1>8. ASSUME NEW t \in Threads, NEW c \in Conns, Visit(t, c) PROVE IInv'
  BY <1>8, VisitIInv
<1>9. ASSUME NEW t \in Threads, Unlock(t) PROVE IInv'
  BY <1>9, UnlockIInv
<1>10. ASSUME NEW c \in Conns,
              \/ PumpWrites(c) \/ PumpWriteFails(c) \/ PumpEnds(c) \/ PingFails(c)
              \/ PeerLeaves(c)
       PROVE  IInv'
  BY <1>10, QuietIInv
     DEF PumpWrites, PumpWriteFails, PumpEnds, PingFails, PeerLeaves, conns
<1>11. CASE UNCHANGED vars
  BY <1>11, QuietIInv DEF vars
<1> QED
  BY <1>1, <1>2, <1>3, <1>4, <1>5, <1>6, <1>7, <1>8, <1>9, <1>10, <1>11 DEF Next

(* The read lock and the order of delete and close keep every fan-out away *)
(* from closed channels: the server never panics there.                    *)
THEOREM NeverSendsOnClosed == Spec => []NoSendOnClosed
<1>1. IInv => NoSendOnClosed
  BY DEF IInv, ControlOK, LockInv, NoSendOnClosed, Registered
<1> QED
  BY InitIInv, NextIInv, <1>1, PTL DEF Spec

(* The registry holds the connections between register and unregister.     *)
THEOREM RegistryIsExact == Spec => []RegistryExact
<1>1. IInv => RegistryExact
  BY DEF IInv, ControlOK, LockInv, RegistryExact, Registered
<1> QED
  BY InitIInv, NextIInv, <1>1, PTL DEF Spec

-----------------------------------------------------------------------------
(* What ControlOK leaves out of TypeOK: the channels and what is counted.  *)
DataOK ==
  /\ send \in [Conns -> Seq(Event)]
  /\ \A c \in Conns : Len(send[c]) <= Capacity
  /\ pump \in [Conns -> {"off", "running", "exited"}]
  /\ socket \in [Conns -> {"open", "gone", "closed"}]
  /\ sends \in 0 .. MaxSends
  /\ view \in [Conns -> [Users -> {"none", "on", "off"}]]
  /\ crossed \in SUBSET Users
  /\ dropped \in SUBSET Conns

LEMMA InitDataOK == Init => DataOK
BY HubAssumption DEF Init, DataOK

(* A full channel takes no more events, whoever sends.                     *)
LEMMA VisitDataOK ==
  ASSUME IInv, DataOK, NEW t \in Threads, NEW c \in Conns, Visit(t, c)
  PROVE  DataOK'
<1>1. UNCHANGED <<pump, socket, sends, view, crossed>>
  BY DEF Visit, conns
<1>2. event[t] \in Event
  BY DEF Visit, IInv, ControlOK, LockInv
<1>3. CASE Len(send[c]) < Capacity
  <2>1. send' = [send EXCEPT ![c] = Append(send[c], event[t])] /\ dropped' = dropped
    BY <1>3 DEF Visit
  <2>2. send[c] \in Seq(Event)
    BY DEF DataOK
  <2>3. Append(send[c], event[t]) \in Seq(Event)
        /\ Len(Append(send[c], event[t])) = Len(send[c]) + 1
    BY <1>2, <2>2
  <2>4. Len(send[c]) + 1 <= Capacity
    BY <1>3, <2>2, HubAssumption
  <2> QED
    BY <1>1, <2>1, <2>3, <2>4 DEF DataOK
<1>4. CASE ~(Len(send[c]) < Capacity)
  BY <1>1, <1>4 DEF Visit, DataOK
<1> QED
  BY <1>3, <1>4

LEMMA PumpDataOK ==
  ASSUME DataOK, NEW c \in Conns,
         PumpWrites(c) \/ PumpWriteFails(c) \/ PumpEnds(c) \/ PingFails(c)
  PROVE  DataOK'
<1>1. \/ send' = send
      \/ send[c] # <<>> /\ send' = [send EXCEPT ![c] = Tail(send[c])]
  <2>1. PumpWrites(c) \/ PumpWriteFails(c)
          => send[c] # <<>> /\ send' = [send EXCEPT ![c] = Tail(send[c])]
    BY DEF PumpWrites, PumpWriteFails
  <2>2. PumpEnds(c) \/ PingFails(c) => send' = send
    BY DEF PumpEnds, PingFails
  <2> QED
    BY <2>1, <2>2
<1>2. send' \in [Conns -> Seq(Event)] /\ \A d \in Conns : Len(send'[d]) <= Capacity
  <2>1. CASE send' = send
    BY <2>1 DEF DataOK
  <2>2. CASE send[c] # <<>> /\ send' = [send EXCEPT ![c] = Tail(send[c])]
    <3>1. send[c] \in Seq(Event) /\ Len(send[c]) <= Capacity
      BY DEF DataOK
    <3>2. Tail(send[c]) \in Seq(Event) /\ Len(Tail(send[c])) = Len(send[c]) - 1
          /\ Len(send[c]) \in Nat
      BY <2>2, <3>1
    <3>3. Len(Tail(send[c])) <= Capacity
      BY <3>1, <3>2, HubAssumption
    <3> QED
      BY <2>2, <3>2, <3>3 DEF DataOK
  <2> QED
    BY <1>1, <2>1, <2>2
<1>3. CASE PumpWrites(c)
  <2>1. UNCHANGED <<pump, socket, sends, crossed, dropped>>
    BY <1>3 DEF PumpWrites, conns
  <2>2. CASE Head(send[c]) = Message
    BY <1>2, <1>3, <2>1, <2>2 DEF PumpWrites, Told, DataOK
  <2>3. CASE Head(send[c]) # Message
    <3> DEFINE u == Head(send[c]).user
               x == IF Head(send[c]).online THEN "on" ELSE "off"
    <3>1. view' = [view EXCEPT ![c] = [view[c] EXCEPT ![u] = x]]
      BY <1>3, <2>3 DEF PumpWrites, Told
    <3>2. x \in {"none", "on", "off"} /\ view[c] \in [Users -> {"none", "on", "off"}]
      BY DEF DataOK
    <3> HIDE DEF u, x
    <3>3. [view[c] EXCEPT ![u] = x] \in [Users -> {"none", "on", "off"}]
      BY <3>2
    <3>4. view' \in [Conns -> [Users -> {"none", "on", "off"}]]
      BY <3>1, <3>3 DEF DataOK
    <3> QED
      BY <1>2, <2>1, <3>4 DEF DataOK
  <2> QED
    BY <2>2, <2>3
<1>4. CASE PumpWriteFails(c) \/ PumpEnds(c) \/ PingFails(c)
  <2>1. /\ pump' = [pump EXCEPT ![c] = "exited"]
        /\ socket' = [socket EXCEPT ![c] = "closed"]
        /\ view' = [view EXCEPT ![c] = Untold]
        /\ dropped' = dropped \ {c}
        /\ UNCHANGED <<sends, crossed>>
    BY <1>4 DEF PumpWriteFails, PumpEnds, PingFails, PumpExits
  <2> QED
    BY <1>2, <2>1 DEF DataOK, Untold
<1> QED
  BY <1>3, <1>4

LEMMA NextDataOK == IInv /\ DataOK /\ [Next]_vars => DataOK'
<1> SUFFICES ASSUME IInv, DataOK, [Next]_vars PROVE DataOK'
  OBVIOUS
<1> USE HubAssumption DEF conns, history
<1>1. ASSUME NEW c \in Conns, Upgrade(c) \/ ReadFails(c) \/ Announce(c) PROVE DataOK'
  BY <1>1 DEF Upgrade, ReadFails, Announce, DataOK
<1>2. ASSUME NEW c \in Conns, Register(c) \/ Unregister(c) PROVE DataOK'
  <2>1. userID[c] \in Users
    BY DEF IInv, ControlOK
  <2>2. crossed' \in SUBSET Users
    BY <1>2, <2>1 DEF Register, Unregister, Cross, DataOK
  <2>3. UNCHANGED <<send, sends, view, dropped>>
        /\ (pump' = pump \/ pump' = [pump EXCEPT ![c] = "running"])
        /\ (socket' = socket \/ socket' = [socket EXCEPT ![c] = "closed"])
    <3>1. CASE Register(c)
      BY <3>1 DEF Register
    <3>2. CASE Unregister(c)
      BY <3>2 DEF Unregister
    <3> QED
      BY <1>2, <3>1, <3>2
  <2>4. pump' \in [Conns -> {"off", "running", "exited"}]
    BY <2>3 DEF DataOK
  <2>5. socket' \in [Conns -> {"open", "gone", "closed"}]
    BY <2>3 DEF DataOK
  <2> QED
    BY <2>2, <2>3, <2>4, <2>5 DEF DataOK
<1>3. ASSUME NEW c \in Conns, NEW to \in SUBSET Users, Typing(c, to) PROVE DataOK'
  BY <1>3 DEF Typing, CountSend, DataOK
<1>4. ASSUME NEW s \in Senders, NEW to \in SUBSET Users, SendToUsers(s, to) PROVE DataOK'
  BY <1>4 DEF SendToUsers, CountSend, DataOK
<1>5. ASSUME NEW s \in Senders, NEW u \in Users, SetMyStatus(s, u) PROVE DataOK'
  BY <1>5 DEF SetMyStatus, CountSend, Cross, DataOK
<1>6. ASSUME NEW t \in Threads, NEW c \in Conns, Visit(t, c) PROVE DataOK'
  BY <1>6, VisitDataOK
<1>7. ASSUME NEW t \in Threads, Unlock(t) PROVE DataOK'
  <2>1. UNCHANGED <<send, sends, view, crossed, dropped>>
    BY <1>7 DEF Unlock
  <2>2. pump' \in [Conns -> {"off", "running", "exited"}]
        /\ socket' \in [Conns -> {"open", "gone", "closed"}]
    BY <1>7 DEF Unlock, DataOK
  <2> QED
    BY <2>1, <2>2 DEF DataOK
<1>8. ASSUME NEW c \in Conns,
             PumpWrites(c) \/ PumpWriteFails(c) \/ PumpEnds(c) \/ PingFails(c)
      PROVE  DataOK'
  BY <1>8, PumpDataOK
<1>9. ASSUME NEW c \in Conns, PeerLeaves(c) PROVE DataOK'
  BY <1>9 DEF PeerLeaves, DataOK
<1>10. CASE UNCHANGED vars
  BY <1>10 DEF vars, DataOK
<1> QED
  BY <1>1, <1>2, <1>3, <1>4, <1>5, <1>6, <1>7, <1>8, <1>9, <1>10 DEF Next

(* Types, and with them the bound on every channel.                        *)
THEOREM TypeCorrect == Spec => []TypeOK
<1>1. IInv /\ DataOK => TypeOK
  BY DEF IInv, ControlOK, DataOK, TypeOK
<1> QED
  BY InitIInv, NextIInv, InitDataOK, NextDataOK, <1>1, PTL DEF Spec
-----------------------------------------------------------------------------
(***************************************************************************)
(* Presence.  An announcement under way says what is the case, and each    *)
(* client has been told so, has it in its channel or is still before one.  *)
(***************************************************************************)
Announces(c) == pc[c] \in {"announce_on", "announce_off"}

EventInv ==
  \A c \in Conns :
    /\ event[c] # NoEvent => Announces(c) \/ pc[c] = "reading"
    /\ Announces(c) => event[c] \in {NoEvent, [user |-> userID[c], online |-> pc[c] = "announce_on"]}
    /\ pc[c] = "reading" => event[c] \in {NoEvent, Message}

FreshInv ==
  \A c \in Conns : pc[c] \in {"new", "join"} =>
    send[c] = <<>> /\ view[c] = Untold /\ pump[c] = "off"

About(e, u) == e \notin {NoEvent, Message} /\ e.user = u

TrueInv ==
  \A u \in Users \ crossed :
    /\ \A c \in Conns : pc[c] = "announce_off" /\ userID[c] = u => ~Online(u)
    /\ \A s \in Senders : About(event[s], u) => event[s].online /\ Online(u)

LastAbout(s, i, u) == About(s[i], u) /\ \A j \in DOMAIN s : About(s[j], u) => j <= i

(* What c has been told about u, or will be once its channel is empty.     *)
Settled(c, u) ==
  /\ \A i \in DOMAIN send[c] : LastAbout(send[c], i, u) => (send[c][i].online <=> Online(u))
  /\ \/ \E i \in DOMAIN send[c] : About(send[c][i], u)
     \/ view[c][u] = "none"
     \/ view[c][u] = "on" <=> Online(u)

Before(c, u) == \E t \in Announcing(u) : event[t] = NoEvent \/ c \in left[t]

ToldInv ==
  \A c \in Conns, u \in Users :
    /\ pc[c] \in Registered /\ socket[c] = "open"
    /\ c \notin dropped /\ u \notin crossed
    => Settled(c, u) \/ Before(c, u)

PresenceInv == EventInv /\ FreshInv /\ TrueInv /\ ToldInv

(* Whoever sends a presence event of u announces u, and tells the truth.   *)
LEMMA Announced ==
  ASSUME IInv, EventInv, NEW u \in Users, NEW t \in Threads, event[t] # NoEvent
  PROVE  /\ About(event[t], u) <=> t \in Announcing(u)
         /\ TrueInv /\ u \notin crossed /\ About(event[t], u) => (event[t].online <=> Online(u))
<1> USE HubAssumption
<1>1. CASE t \in Senders
  BY <1>1 DEF About, Announcing, TrueInv
<1>2. CASE t \in Conns /\ Announces(t)
  <2>1. event[t] = [user |-> userID[t], online |-> pc[t] = "announce_on"] /\ t \notin Senders
    BY <1>2 DEF EventInv
  <2> DEFINE b == pc[t] = "announce_on"
  <2>2. event[t].user = userID[t] /\ (event[t].online <=> b) /\ event[t] # Message
    <3>1. event[t] = [user |-> userID[t], online |-> b] /\ b \in BOOLEAN /\ userID[t] \in Users
      BY <1>2, <2>1 DEF IInv, ControlOK
    <3> HIDE DEF b
    <3>2. event[t] \in Presence
      BY <3>1 DEF Presence
    <3>3. event[t].user = userID[t]
      BY <3>1
    <3>4. event[t].online = b
      BY <3>1
    <3> QED
      BY <3>2, <3>3, <3>4
  <2>3. About(event[t], u) <=> userID[t] = u
    BY <2>1, <2>2 DEF About
  <2>4. t \in Announcing(u) <=> userID[t] = u
    BY <1>2, <2>1 DEF Announcing, Announces
  <2>5. TrueInv /\ u \notin crossed /\ userID[t] = u => ((pc[t] = "announce_on") <=> Online(u))
    BY <1>2 DEF Announces, TrueInv, IInv, LockInv, Online, Registered
  <2> QED
    BY <2>2, <2>3, <2>4, <2>5
<1>3. CASE t \in Conns /\ ~Announces(t)
  <2>1. event[t] = Message /\ t \notin Senders
    BY <1>3 DEF EventInv
  <2> QED
    BY <1>3, <2>1 DEF About, Announcing, Announces
<1> QED
  BY <1>1, <1>2, <1>3 DEF Threads

LEMMA SettledKept ==
  ASSUME NEW c \in Conns, NEW u \in Users, send'[c] = send[c], view'[c] = view[c], Online(u)' <=> Online(u)
  PROVE  Settled(c, u) => Settled(c, u)'
BY DEF Settled, LastAbout, About

(* A client that has just joined has been told nothing.                    *)
LEMMA FreshSettled ==
  ASSUME NEW c \in Conns, NEW u \in Users, send'[c] = <<>>, view'[c] = Untold
  PROVE  Settled(c, u)'
BY DEF Settled, Untold

(* A step that tells nobody anything and changes nobody's presence.        *)
LEMMA ToldKept ==
  ASSUME IInv, ToldInv, UNCHANGED <<clients, send, view>>, crossed \subseteq crossed', dropped \subseteq dropped',
         \A c \in Conns : /\ socket'[c] = "open" => socket[c] = "open"
                          /\ pc'[c] \in Registered => pc[c] \in Registered,
         \A c \in Conns, u \in Users : pc[c] \in Registered /\ Before(c, u) => Before(c, u)'
  PROVE  ToldInv'
<1> SUFFICES ASSUME NEW c \in Conns, NEW u \in Users,
                    pc'[c] \in Registered, socket'[c] = "open", c \notin dropped', u \notin crossed'
             PROVE  Settled(c, u)' \/ Before(c, u)'
  BY DEF ToldInv, Registered
<1>1. Settled(c, u) \/ Before(c, u)
  BY DEF ToldInv
<1>2. Online(u)' <=> Online(u)
  BY DEF Online
<1> QED
  BY <1>1, <1>2, SettledKept

(* Steps of a goroutine on its way, of a socket, or of nobody.             *)
LEMMA QuietPresence ==
  ASSUME IInv, PresenceInv, UNCHANGED <<userID, clients, send, pump, event, left, view, crossed, dropped>>,
         \A c \in Conns : /\ socket'[c] = "open" => socket[c] = "open"
                          /\ \/ pc'[c] = pc[c]
                             \/ event[c] = NoEvent /\ pc[c] = "new" /\ pc'[c] = "join"
                             \/ event[c] = NoEvent /\ pc[c] = "reading" /\ pc'[c] = "leave"
  PROVE  PresenceInv'
<1>1. EventInv'
  BY DEF PresenceInv, EventInv, Announces
<1>2. FreshInv'
  BY DEF PresenceInv, FreshInv
<1>3. TrueInv'
  BY DEF PresenceInv, TrueInv, Online, About
<1>4. \A u \in Users : Announcing(u)' = Announcing(u)
  BY DEF Announcing
<1>5. ToldInv'
  <2>1. \A c \in Conns, u \in Users : Before(c, u) => Before(c, u)'
    BY <1>4 DEF Before
  <2> QED
    BY <2>1, ToldKept DEF PresenceInv, Registered
<1> QED
  BY <1>1, <1>2, <1>3, <1>5 DEF PresenceInv

-----------------------------------------------------------------------------
(* The registry.                                                           *)
LEMMA RegisterPresence ==
  ASSUME IInv, DataOK, PresenceInv, NEW c \in Conns, Register(c)
  PROVE  PresenceInv'
<1> DEFINE u == userID[c]
<1>1. /\ pc[c] = "join" /\ CanLock /\ u \in Users
      /\ clients' = [clients EXCEPT ![u] = clients[u] \cup {c}]
      /\ UNCHANGED <<userID, send, socket, event, left, view, dropped>>
      /\ \A d \in Conns \ {c} : pc'[d] = pc[d] /\ pump'[d] = pump[d]
      /\ IF Online(u) THEN pc'[c] = "reading" /\ crossed' = crossed
         ELSE pc'[c] = "announce_on" /\ crossed' = IF Announcing(u) # {} THEN crossed \cup {u} ELSE crossed
  BY DEF Register, Joined, Goto, Cross, IInv, ControlOK, DataOK
<1>2. /\ Online(u)'
      /\ \A v \in Users \ {u} : Online(v)' <=> Online(v)
  BY <1>1 DEF Online, IInv, ControlOK
<1>3. \A t \in Threads : event[t] = NoEvent /\ event'[t] = NoEvent
  BY <1>1 DEF CanLock, Readers
<1>4. EventInv'
  BY <1>1, <1>3 DEF PresenceInv, EventInv, Announces, Threads
<1>5. FreshInv'
  BY <1>1 DEF PresenceInv, FreshInv
<1>6. TrueInv'
  <2>1. \A s \in Senders, v \in Users : ~About(event'[s], v)
    BY <1>3 DEF About, Threads
  <2>2. ASSUME NEW v \in Users \ crossed', NEW d \in Conns, pc'[d] = "announce_off", userID[d] = v
        PROVE  ~Online(v)'
    <3>1. d # c /\ pc[d] = "announce_off" /\ v \notin crossed
      BY <1>1, <2>2
    <3>2. ~Online(v) /\ d \in Announcing(v)
      BY <2>2, <3>1 DEF PresenceInv, TrueInv, Announcing
    <3>3. v # u
      BY <1>1, <3>2
    <3> QED
      BY <1>2, <3>2, <3>3
  <2> QED
    BY <1>1, <2>1, <2>2 DEF TrueInv
<1>7. ToldInv'
  <2> SUFFICES ASSUME NEW d \in Conns, NEW v \in Users,
                      pc'[d] \in Registered, socket'[d] = "open", d \notin dropped', v \notin crossed'
               PROVE  Settled(d, v)' \/ Before(d, v)'
    BY DEF ToldInv
  <2>1. CASE d = c
    <3>1. send'[c] = <<>> /\ view'[c] = Untold
      BY <1>1 DEF PresenceInv, FreshInv
    <3> QED
      BY <2>1, <3>1, FreshSettled
  <2>2. CASE d # c /\ v = u /\ ~Online(u)
    <3>1. c \in Announcing(v)' /\ event'[c] = NoEvent
      BY <1>1, <1>3, <2>2 DEF Announcing, Threads
    <3> QED
      BY <3>1 DEF Before
  <2>3. CASE d # c /\ ~(v = u /\ ~Online(u))
    <3>1. Settled(d, v) \/ Before(d, v)
      BY <1>1, <2>3 DEF PresenceInv, ToldInv
    <3>2. Online(v)' <=> Online(v)
      BY <1>1, <1>2, <2>3 DEF Online
    <3>3. Announcing(v) \subseteq Announcing(v)'
      BY <1>1 DEF Announcing
    <3>4. Before(d, v) => Before(d, v)'
      BY <1>1, <3>3 DEF Before
    <3> QED
      BY <1>1, <3>1, <3>2, <3>4, SettledKept
  <2> QED
    BY <2>1, <2>2, <2>3
<1> QED
  BY <1>4, <1>5, <1>6, <1>7 DEF PresenceInv

LEMMA UnregisterPresence ==
  ASSUME IInv, DataOK, PresenceInv, NEW c \in Conns, Unregister(c)
  PROVE  PresenceInv'
<1> DEFINE u == userID[c]
<1>1. /\ pc[c] = "leave" /\ CanLock /\ u \in Users
      /\ clients' = [clients EXCEPT ![u] = clients[u] \ {c}]
      /\ UNCHANGED <<userID, send, pump, event, left, view, dropped>>
      /\ \A d \in Conns \ {c} : pc'[d] = pc[d] /\ socket'[d] = socket[d]
      /\ IF clients[u] \ {c} = {}
         THEN pc'[c] = "announce_off" /\ crossed' = IF Announcing(u) # {} THEN crossed \cup {u} ELSE crossed
         ELSE pc'[c] = "done" /\ crossed' = crossed
  BY DEF Unregister, NowEmpty, Goto, Cross, IInv, ControlOK, DataOK
<1>2. /\ Online(u)' <=> clients[u] \ {c} # {}
      /\ Online(u)' => Online(u)
      /\ \A v \in Users \ {u} : Online(v)' <=> Online(v)
  BY <1>1 DEF Online, IInv, ControlOK
<1>3. \A t \in Threads : event[t] = NoEvent /\ event'[t] = NoEvent
  BY <1>1 DEF CanLock, Readers
<1>4. EventInv'
  BY <1>1, <1>3 DEF PresenceInv, EventInv, Announces, Threads
<1>5. FreshInv'
  BY <1>1 DEF PresenceInv, FreshInv
<1>6. TrueInv'
  <2>1. \A s \in Senders, v \in Users : ~About(event'[s], v)
    BY <1>3 DEF About, Threads
  <2>2. ASSUME NEW v \in Users \ crossed', NEW d \in Conns, pc'[d] = "announce_off", userID[d] = v
        PROVE  ~Online(v)'
    <3>1. CASE d = c
      BY <1>1, <1>2, <2>2, <3>1
    <3>2. CASE d # c
      BY <1>1, <1>2, <2>2, <3>2 DEF PresenceInv, TrueInv
    <3> QED
      BY <3>1, <3>2
  <2> QED
    BY <1>1, <2>1, <2>2 DEF TrueInv
<1>7. ToldInv'
  <2> SUFFICES ASSUME NEW d \in Conns, NEW v \in Users,
                      pc'[d] \in Registered, socket'[d] = "open", d \notin dropped', v \notin crossed'
               PROVE  Settled(d, v)' \/ Before(d, v)'
    BY DEF ToldInv
  <2>1. d # c
    BY <1>1 DEF Registered
  <2>2. CASE v = u /\ clients[u] \ {c} = {}
    <3>1. c \in Announcing(v)' /\ event'[c] = NoEvent
      BY <1>1, <1>3, <2>2 DEF Announcing, Threads
    <3> QED
      BY <3>1 DEF Before
  <2>3. CASE ~(v = u /\ clients[u] \ {c} = {})
    <3>1. Settled(d, v) \/ Before(d, v)
      BY <1>1, <2>1, <2>3 DEF PresenceInv, ToldInv
    <3>2. Online(v)' <=> Online(v)
      BY <1>1, <1>2, <2>3 DEF Online
    <3>3. Announcing(v) \subseteq Announcing(v)'
      BY <1>1 DEF Announcing
    <3>4. Before(d, v) => Before(d, v)'
      BY <1>1, <3>3 DEF Before
    <3> QED
      BY <1>1, <2>1, <3>1, <3>2, <3>4, SettledKept
  <2> QED
    BY <2>2, <2>3
<1> QED
  BY <1>4, <1>5, <1>6, <1>7 DEF PresenceInv

-----------------------------------------------------------------------------
(* Fan-out.                                                                *)
LEMMA RLockPresence ==
  ASSUME IInv, PresenceInv, NEW t \in Threads, NEW e \in Event, NEW to, RLock(t, e, to),
         UNCHANGED <<userID, clients, send, closed, pc, pump, socket, view, dropped>>, crossed \subseteq crossed',
         t \in Conns => \/ e = Message /\ pc[t] = "reading"
                        \/ /\ Announces(t) /\ e = [user |-> userID[t], online |-> pc[t] = "announce_on"]
                           /\ to = Everyone,
         t \in Senders => \A u \in Users \ crossed' : About(e, u) => e.online /\ Online(u)
  PROVE  PresenceInv'
<1> USE HubAssumption
<1>1. /\ event[t] = NoEvent /\ \A x \in Threads : event'[x] = IF x = t THEN e ELSE event[x]
      /\ \A x \in Threads : left'[x] = IF x = t THEN to ELSE left[x]
  BY DEF RLock, IInv, ControlOK
<1>2. EventInv'
  BY <1>1 DEF PresenceInv, EventInv, Announces, Threads
<1>3. FreshInv'
  BY DEF PresenceInv, FreshInv
<1>4. TrueInv'
  BY <1>1 DEF PresenceInv, TrueInv, Online, About, Threads
<1>5. ToldInv'
  <2> SUFFICES ASSUME NEW c \in Conns, NEW u \in Users, pc[c] \in Registered, Before(c, u)
               PROVE  Before(c, u)'
    BY ToldKept DEF PresenceInv
  <2>1. PICK x \in Announcing(u) : event[x] = NoEvent \/ c \in left[x]
    BY DEF Before
  <2>2. x \in Threads
    BY DEF Announcing, Threads
  <2>3. CASE x # t
    <3>1. x \in Announcing(u)'
      BY <1>1, <2>2, <2>3 DEF Announcing, Threads
    <3> QED
      BY <1>1, <2>1, <2>2, <2>3, <3>1 DEF Before
  <2>4. CASE x = t
    <3>1. t \in Conns /\ Announces(t)
      BY <1>1, <2>4 DEF Announcing, Announces
    <3>2. t \in Announcing(u)' /\ to = Everyone
      BY <2>4, <3>1 DEF Announcing, Announces
    <3>3. c \in Everyone
      BY DEF Everyone, IInv, ControlOK, LockInv, Registered
    <3> QED
      BY <1>1, <3>2, <3>3 DEF Before
  <2> QED
    BY <2>3, <2>4
<1> QED
  BY <1>2, <1>3, <1>4, <1>5 DEF PresenceInv

(* What is queued for a client is the newest it will be told.              *)
LEMMA VisitSettles ==
  ASSUME IInv, DataOK, PresenceInv, NEW t \in Threads, NEW c \in Conns, Visit(t, c),
         NEW u \in Users \ crossed, c \notin dropped', Settled(c, u) \/ Before(c, u)
  PROVE  Settled(c, u)' \/ Before(c, u)'
<1> USE HubAssumption
<1>1. /\ c \in left[t] /\ event[t] # NoEvent
      /\ left' = [left EXCEPT ![t] = left[t] \ {c}]
      /\ UNCHANGED <<userID, clients, pc, event, view>>
  BY DEF Visit, conns, IInv, LockInv
<1>2. (Online(u)' <=> Online(u)) /\ Announcing(u)' = Announcing(u) /\ view'[c] = view[c]
  BY <1>1 DEF Online, Announcing
<1>3. event[t] \in Event
  BY <1>1 DEF IInv, ControlOK
<1>4. send[c] \in Seq(Event)
  BY DEF DataOK
<1>5. CASE About(event[t], u)
  <2>1. send' = [send EXCEPT ![c] = Append(send[c], event[t])]
    BY <1>1, <1>5 DEF Visit, About
  <2>2. event[t].online <=> Online(u)
    BY <1>1, <1>5, Announced DEF PresenceInv
  <2> DEFINE n == Len(send[c]) + 1
  <2>3. /\ n \in DOMAIN send'[c] /\ send'[c][n] = event[t]
        /\ \A i \in DOMAIN send'[c] : i \in Nat /\ i <= n
    BY <1>3, <1>4, <2>1 DEF DataOK
  <2>4. \A i \in DOMAIN send'[c] : LastAbout(send'[c], i, u) => i = n
    BY <1>5, <2>3 DEF LastAbout
  <2> QED
    BY <1>2, <1>5, <2>2, <2>3, <2>4 DEF Settled
<1>6. CASE ~About(event[t], u)
  <2>1. t \notin Announcing(u)
    BY <1>1, <1>6, Announced DEF PresenceInv
  <2>2. Before(c, u) => Before(c, u)'
    <3> SUFFICES ASSUME NEW x \in Announcing(u), event[x] = NoEvent \/ c \in left[x]
                 PROVE  Before(c, u)'
      BY DEF Before
    <3>1. x # t /\ x \in Threads
      BY <2>1 DEF Announcing, Threads
    <3>2. left'[x] = left[x] /\ event'[x] = event[x]
      BY <1>1, <3>1 DEF IInv, ControlOK
    <3> QED
      BY <1>2, <3>2 DEF Before
  <2>3. CASE send' = send
    BY <1>2, <2>2, <2>3, SettledKept
  <2>4. CASE send' = [send EXCEPT ![c] = Append(send[c], event[t])]
    <3>1. /\ DOMAIN send[c] \subseteq DOMAIN send'[c]
          /\ \A i \in DOMAIN send[c] : send'[c][i] = send[c][i]
          /\ \A i \in DOMAIN send'[c] : i \in DOMAIN send[c] \/ send'[c][i] = event[t]
      BY <1>3, <1>4, <2>4 DEF DataOK
    <3>2. \A i \in DOMAIN send'[c] : About(send'[c][i], u) => i \in DOMAIN send[c] /\ About(send[c][i], u)
      BY <1>6, <3>1
    <3>3. \A i \in DOMAIN send'[c] : LastAbout(send'[c], i, u) => i \in DOMAIN send[c] /\ LastAbout(send[c], i, u)
      BY <3>1, <3>2 DEF LastAbout
    <3>4. Settled(c, u) => Settled(c, u)'
      BY <1>2, <3>1, <3>3 DEF Settled
    <3> QED
      BY <2>2, <3>4
  <2> QED
    BY <2>3, <2>4 DEF Visit
<1> QED
  BY <1>5, <1>6

LEMMA VisitPresence ==
  ASSUME IInv, DataOK, PresenceInv, NEW t \in Threads, NEW c \in Conns, Visit(t, c)
  PROVE  PresenceInv'
<1>1. /\ UNCHANGED <<userID, clients, pc, pump, socket, event, view, crossed>> /\ dropped \subseteq dropped'
      /\ \A d \in Conns \ {c} : send'[d] = send[d]
      /\ c \in left[t] /\ \A x \in Threads, d \in Conns \ {c} : d \in left'[x] <=> d \in left[x]
  BY DEF Visit, conns, DataOK, IInv, ControlOK
<1>2. EventInv' /\ TrueInv'
  BY <1>1 DEF PresenceInv, EventInv, TrueInv, Announces, Online, About
<1>3. FreshInv'
  <2>1. pc[c] \notin {"new", "join"}
    BY <1>1 DEF IInv, LockInv, Registered
  <2> QED
    BY <1>1, <2>1 DEF PresenceInv, FreshInv
<1>4. ToldInv'
  <2> SUFFICES ASSUME NEW d \in Conns, NEW u \in Users,
                      pc[d] \in Registered, socket[d] = "open", d \notin dropped', u \notin crossed
               PROVE  Settled(d, u)' \/ Before(d, u)'
    BY <1>1 DEF ToldInv
  <2>1. Settled(d, u) \/ Before(d, u)
    BY <1>1 DEF PresenceInv, ToldInv
  <2>2. CASE d = c
    BY <2>1, <2>2, VisitSettles
  <2>3. CASE d # c
    <3>1. (Online(u)' <=> Online(u)) /\ Announcing(u)' = Announcing(u)
      BY <1>1 DEF Online, Announcing
    <3>2. Announcing(u) \subseteq Threads
      BY DEF Announcing, Threads
    <3>3. Before(d, u) => Before(d, u)'
      BY <1>1, <2>3, <3>1, <3>2 DEF Before
    <3> QED
      BY <1>1, <2>1, <2>3, <3>1, <3>3, SettledKept
  <2> QED
    BY <2>2, <2>3
<1> QED
  BY <1>2, <1>3, <1>4 DEF PresenceInv

LEMMA UnlockPresence ==
  ASSUME IInv, PresenceInv, NEW t \in Threads, Unlock(t)
  PROVE  PresenceInv'
<1> USE HubAssumption
<1>1. /\ event[t] # NoEvent /\ left[t] = {}
      /\ \A x \in Threads : event'[x] = IF x = t THEN NoEvent ELSE event[x]
      /\ UNCHANGED <<userID, clients, send, left, view, crossed, dropped>>
      /\ \A c \in Conns \ {t} : pc'[c] = pc[c]
      /\ \A c \in Conns : /\ socket'[c] = "open" => socket[c] = "open"
                          /\ \/ pc'[c] = pc[c] /\ pump'[c] = pump[c] /\ ~(c = t /\ Announces(c))
                             \/ c = t /\ pc[c] = "announce_on" /\ pc'[c] = "reading"
                             \/ c = t /\ pc[c] = "announce_off" /\ pc'[c] = "done"
  <2>1. /\ event[t] # NoEvent /\ left[t] = {}
        /\ UNCHANGED <<userID, clients, send, left, view, crossed, dropped>>
        /\ \A x \in Threads : event'[x] = IF x = t THEN NoEvent ELSE event[x]
    <3>1. event' = [event EXCEPT ![t] = NoEvent]
      BY DEF Unlock
    <3>2. \A x \in Threads : event'[x] = IF x = t THEN NoEvent ELSE event[x]
      BY <3>1 DEF IInv, ControlOK
    <3> QED
      BY <3>2 DEF Unlock, history
  <2>2. ASSUME NEW c \in Conns, c # t
        PROVE  pc'[c] = pc[c] /\ pump'[c] = pump[c] /\ socket'[c] = socket[c]
    BY <2>2 DEF Unlock
  <2>3. ASSUME NEW c \in Conns, c = t
        PROVE  /\ socket'[c] = "open" => socket[c] = "open"
               /\ \/ pc'[c] = pc[c] /\ pump'[c] = pump[c] /\ ~Announces(c)
                  \/ pc[c] = "announce_on" /\ pc'[c] = "reading"
                  \/ pc[c] = "announce_off" /\ pc'[c] = "done"
    <3>1. CASE pc[c] = "announce_on"
      BY <2>3, <3>1 DEF Unlock
    <3>2. CASE pc[c] = "announce_off"
      BY <2>3, <3>2 DEF Unlock
    <3>3. CASE ~Announces(c)
      BY <2>3, <3>3 DEF Unlock, Announces
    <3> QED
      BY <3>1, <3>2, <3>3 DEF Announces
  <2> QED
    BY <2>1, <2>2, <2>3
<1>2. EventInv'
  BY <1>1 DEF PresenceInv, EventInv, Announces, Threads
<1>3. FreshInv'
  BY <1>1 DEF PresenceInv, FreshInv
<1>4. TrueInv'
  BY <1>1 DEF PresenceInv, TrueInv, Online, About, Threads
<1>5. ToldInv'
  <2>1. ASSUME NEW c \in Conns, NEW u \in Users, Before(c, u) PROVE Before(c, u)'
    <3>1. PICK x \in Announcing(u) : event[x] = NoEvent \/ c \in left[x]
      BY <2>1 DEF Before
    <3>2. x # t /\ x \in Threads
      BY <1>1, <3>1 DEF Announcing, Threads
    <3>3. x \in Announcing(u)'
      BY <1>1, <3>2 DEF Announcing, Threads
    <3> QED
      BY <1>1, <3>1, <3>2, <3>3 DEF Before
  <2>2. \A c \in Conns : pc'[c] \in Registered => pc[c] \in Registered
    BY <1>1 DEF Registered
  <2> QED
    BY <1>1, <2>1, <2>2, ToldKept DEF PresenceInv
<1> QED
  BY <1>2, <1>3, <1>4, <1>5 DEF PresenceInv

-----------------------------------------------------------------------------
(* The write pump.                                                         *)
LEMMA PumpWritesSettles ==
  ASSUME DataOK, NEW c \in Conns, PumpWrites(c), NEW u \in Users, Settled(c, u)
  PROVE  Settled(c, u)'
<1> USE HubAssumption
<1> DEFINE s == send[c]  e == Head(send[c])
<1>1. s \in Seq(Event) /\ s # <<>> /\ send'[c] = Tail(s) /\ e = s[1] /\ e \in Event
  BY DEF PumpWrites, DataOK
<1>2. Online(u)' <=> Online(u)
  BY DEF PumpWrites, conns, Online
<1>3. /\ \A i \in DOMAIN send'[c] : i + 1 \in DOMAIN s /\ send'[c][i] = s[i + 1]
      /\ \A i \in DOMAIN s : i \in Nat /\ (i = 1 \/ i - 1 \in DOMAIN send'[c])
      /\ \A i \in DOMAIN send'[c] : i \in Nat
  BY <1>1
<1>4. ASSUME NEW i \in DOMAIN send'[c], LastAbout(send'[c], i, u)
      PROVE  send'[c][i].online <=> Online(u)
  <2>1. \A j \in DOMAIN s : About(s[j], u) => j <= i + 1
    BY <1>3, <1>4 DEF LastAbout
  <2>2. LastAbout(s, i + 1, u)
    BY <1>3, <1>4, <2>1 DEF LastAbout
  <2> QED
    BY <1>3, <2>2 DEF Settled
<1>5. CASE \E i \in DOMAIN send'[c] : About(send'[c][i], u)
  BY <1>2, <1>4, <1>5 DEF Settled
<1>6. CASE ~ \E i \in DOMAIN send'[c] : About(send'[c][i], u)
  <2>1. \A i \in DOMAIN s : About(s[i], u) => i = 1
    BY <1>3, <1>6
  <2>2. CASE About(e, u)
    <3>1. 1 \in DOMAIN s /\ LastAbout(s, 1, u)
      BY <1>1, <2>1, <2>2 DEF LastAbout
    <3>2. e.online <=> Online(u)
      BY <1>1, <3>1 DEF Settled
    <3>3. view'[c][u] = IF e.online THEN "on" ELSE "off"
      BY <2>2 DEF PumpWrites, Told, About, DataOK
    <3>4. view'[c][u] = "on" <=> Online(u)
      BY <3>2, <3>3
    <3> QED
      BY <1>2, <1>4, <3>4 DEF Settled
  <2>3. CASE ~About(e, u)
    <3>1. view[c][u] = "none" \/ (view[c][u] = "on" <=> Online(u))
      BY <1>1, <2>1, <2>3 DEF Settled
    <3>2. view'[c][u] = view[c][u]
      <4>1. CASE e = Message
        BY <4>1 DEF PumpWrites, Told
      <4>2. CASE e # Message
        BY <1>1, <2>3, <4>2 DEF PumpWrites, Told, About, DataOK
      <4> QED
        BY <4>1, <4>2
    <3> QED
      BY <1>2, <1>4, <3>1, <3>2 DEF Settled
  <2> QED
    BY <2>2, <2>3
<1> QED
  BY <1>5, <1>6

LEMMA PumpPresence ==
  ASSUME IInv, DataOK, PresenceInv, NEW c \in Conns,
         PumpWrites(c) \/ PumpWriteFails(c) \/ PumpEnds(c) \/ PingFails(c)
  PROVE  PresenceInv'
<1>1. /\ UNCHANGED <<userID, clients, pc, event, left, crossed>> /\ pump[c] = "running"
      /\ \A d \in Conns \ {c} : /\ send'[d] = send[d] /\ view'[d] = view[d] /\ pump'[d] = pump[d]
                               /\ socket'[d] = socket[d] /\ (d \in dropped' <=> d \in dropped)
      /\ \/ socket'[c] = "closed"
         \/ PumpWrites(c) /\ UNCHANGED <<socket, dropped>>
  <2>1. CASE PumpWrites(c)
    BY <2>1 DEF PumpWrites, Told, conns, DataOK
  <2>2. CASE PumpWriteFails(c) \/ PumpEnds(c) \/ PingFails(c)
    <3>1. /\ pump' = [pump EXCEPT ![c] = "exited"]
          /\ socket' = [socket EXCEPT ![c] = "closed"]
          /\ view' = [view EXCEPT ![c] = Untold]
          /\ dropped' = dropped \ {c}
          /\ UNCHANGED <<userID, clients, pc, event, left, crossed>>
          /\ pump[c] = "running"
      BY <2>2 DEF PumpWriteFails, PumpEnds, PingFails, PumpExits
    <3>2. send' = send \/ send' = [send EXCEPT ![c] = Tail(send[c])]
      BY <2>2 DEF PumpWriteFails, PumpEnds, PingFails
    <3>3. \A d \in Conns \ {c} : send'[d] = send[d]
      BY <3>2 DEF DataOK
    <3>4. \A d \in Conns \ {c} : view'[d] = view[d] /\ pump'[d] = pump[d] /\ socket'[d] = socket[d]
      BY <3>1 DEF DataOK
    <3>5. socket'[c] = "closed"
      BY <3>1 DEF DataOK
    <3>6. /\ UNCHANGED <<userID, clients, pc, event, left, crossed>> /\ pump[c] = "running"
          /\ \A d \in Conns \ {c} : d \in dropped' <=> d \in dropped
      BY <3>1
    <3> QED
      BY <3>3, <3>4, <3>5, <3>6
  <2> QED
    BY <2>1, <2>2
<1>2. EventInv' /\ TrueInv'
  BY <1>1 DEF PresenceInv, EventInv, TrueInv, Announces, Online, About
<1>3. FreshInv'
  BY <1>1 DEF PresenceInv, FreshInv
<1>4. ToldInv'
  <2> SUFFICES ASSUME NEW d \in Conns, NEW u \in Users,
                      pc[d] \in Registered, socket'[d] = "open", d \notin dropped', u \notin crossed
               PROVE  Settled(d, u)' \/ Before(d, u)'
    BY <1>1 DEF ToldInv
  <2>1. Settled(d, u) \/ Before(d, u)
    BY <1>1 DEF PresenceInv, ToldInv
  <2>2. (Online(u)' <=> Online(u)) /\ (Before(d, u) => Before(d, u)')
    BY <1>1 DEF Online, Announcing, Before
  <2>3. CASE d = c
    BY <1>1, <2>1, <2>2, <2>3, PumpWritesSettles
  <2>4. CASE d # c
    BY <1>1, <2>1, <2>2, <2>4, SettledKept
  <2> QED
    BY <2>3, <2>4
<1> QED
  BY <1>2, <1>3, <1>4 DEF PresenceInv

-----------------------------------------------------------------------------
LEMMA InitPresence == Init => PresenceInv
<1> SUFFICES ASSUME Init PROVE PresenceInv
  OBVIOUS
<1>1. \A c \in Conns : pc[c] = "new"
  BY DEF Init
<1>2. \A t \in Threads : event[t] = NoEvent
  BY DEF Init
<1>3. FreshInv
  <2>1. \A c \in Conns : send[c] = <<>>
    BY DEF Init
  <2>2. \A c \in Conns : view[c] = Untold /\ pump[c] = "off"
    BY DEF Init, Untold
  <2> QED
    BY <2>1, <2>2 DEF FreshInv
<1> QED
  BY <1>1, <1>2, <1>3
     DEF PresenceInv, EventInv, TrueInv, ToldInv, Announces, About, Registered, Threads

LEMMA NextPresence == IInv /\ DataOK /\ PresenceInv /\ [Next]_vars => PresenceInv'
<1> SUFFICES ASSUME IInv, DataOK, PresenceInv, [Next]_vars PROVE PresenceInv'
  OBVIOUS
<1> USE HubAssumption DEF history, conns
<1>1. ASSUME NEW c \in Conns, Upgrade(c) \/ ReadFails(c) \/ PeerLeaves(c) PROVE PresenceInv'
  <2>1. CASE Upgrade(c)
    <3>1. event[c] = NoEvent
      BY <2>1 DEF Upgrade, PresenceInv, EventInv, Announces
    <3> QED
      BY <2>1, <3>1, QuietPresence DEF Upgrade, Goto, IInv, ControlOK
  <2>2. CASE ReadFails(c)
    BY <2>2, QuietPresence DEF ReadFails, Goto, IInv, ControlOK
  <2>3. CASE PeerLeaves(c)
    BY <2>3, QuietPresence DEF PeerLeaves, DataOK
  <2> QED
    BY <1>1, <2>1, <2>2, <2>3
<1>2. ASSUME NEW c \in Conns, Register(c) PROVE PresenceInv'
  BY <1>2, RegisterPresence
<1>3. ASSUME NEW c \in Conns, Unregister(c) PROVE PresenceInv'
  BY <1>3, UnregisterPresence
<1>4. ASSUME NEW c \in Conns, Announce(c) PROVE PresenceInv'
  <2>1. [user |-> userID[c], online |-> pc[c] = "announce_on"] \in Event
    BY DEF Event, Presence, IInv, ControlOK
  <2>2. c \in Threads /\ c \notin Senders /\ Announces(c) /\ UNCHANGED <<conns, send, history>>
        /\ RLock(c, [user |-> userID[c], online |-> pc[c] = "announce_on"], Everyone)
    BY <1>4 DEF Announce, Threads, Announces
  <2> QED
    BY <2>1, <2>2, RLockPresence
<1>5. ASSUME NEW c \in Conns, NEW to \in SUBSET Users, Typing(c, to) PROVE PresenceInv'
  BY <1>5, RLockPresence DEF Typing, Threads, Event
<1>6. ASSUME NEW s \in Senders, NEW to \in SUBSET Users, SendToUsers(s, to) PROVE PresenceInv'
  BY <1>6, RLockPresence DEF SendToUsers, Threads, Event, About
<1>7. ASSUME NEW s \in Senders, NEW u \in Users, SetMyStatus(s, u) PROVE PresenceInv'
  <2> DEFINE e == [user |-> u, online |-> TRUE]
  <2>1. e \in Event /\ e.online /\ e.user = u
    BY DEF Event, Presence
  <2>2. s \in Threads /\ s \notin Conns /\ UNCHANGED <<conns, send, view, dropped>> /\ RLock(s, e, Everyone)
    BY <1>7 DEF SetMyStatus, Threads
  <2>3. crossed \subseteq crossed' /\ (u \notin crossed' => Online(u))
    BY <1>7 DEF SetMyStatus, Cross
  <2> HIDE DEF e
  <2>4. \A v \in Users \ crossed' : About(e, v) => e.online /\ Online(v)
    BY <2>1, <2>3 DEF About
  <2> QED
    BY <2>1, <2>2, <2>3, <2>4, RLockPresence
<1>8. ASSUME NEW t \in Threads, NEW c \in Conns, Visit(t, c) PROVE PresenceInv'
  BY <1>8, VisitPresence
<1>9. ASSUME NEW t \in Threads, Unlock(t) PROVE PresenceInv'
  BY <1>9, UnlockPresence
<1>10. ASSUME NEW c \in Conns,
              PumpWrites(c) \/ PumpWriteFails(c) \/ PumpEnds(c) \/ PingFails(c)
       PROVE  PresenceInv'
  BY <1>10, PumpPresence
<1>11. CASE UNCHANGED vars
  BY <1>11, QuietPresence DEF vars
<1> QED
  BY <1>1, <1>2, <1>3, <1>4, <1>5, <1>6, <1>7, <1>8, <1>9, <1>10, <1>11 DEF Next

(* What an open client shows of a user, its channel drained and no         *)
(* announcement of the user under way, is whether the user is online:      *)
(* register, unregister and the callback that follows them tell every      *)
(* client in time (chat_hub.go:39-64, 94-107, chat_realtime.go:74-98),     *)
(* unless two announcements overlapped or the client's channel was full.   *)
THEOREM PresenceIsTrue == Spec => []PresenceAgrees
<1>1. IInv /\ DataOK /\ PresenceInv => PresenceAgrees
  <2> SUFFICES ASSUME IInv, DataOK, PresenceInv, NEW c \in Conns, NEW u \in Users,
                      pc[c] = "reading", socket[c] = "open", send[c] = <<>>, c \notin dropped,
                      u \notin crossed, Announcing(u) = {}, view[c][u] # "none"
               PROVE  view[c][u] = "on" <=> Online(u)
    BY DEF PresenceAgrees
  <2>1. Settled(c, u)
    BY DEF PresenceInv, ToldInv, Before, Registered
  <2> QED
    BY <2>1 DEF Settled
<1> QED
  BY InitIInv, NextIInv, InitDataOK, NextDataOK, InitPresence, NextPresence, <1>1, PTL DEF Spec
=============================================================================
