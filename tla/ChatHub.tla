------------------------------- MODULE ChatHub -------------------------------
(***************************************************************************)
(* The chat hub: a registry of WebSocket connections behind a              *)
(* sync.RWMutex, one bounded Go channel for each connection, the two       *)
(* goroutines of a connection and the HTTP handlers that fan events out.   *)
(*                                                                         *)
(* A goroutine fans out under the read lock, one connection at a time; it  *)
(* joins or leaves the registry under the write lock, and calls the        *)
(* presence callback after it has released it.  A connection is used once: *)
(* a user who reconnects does so with another member of Conns.             *)
(***************************************************************************)
EXTENDS Naturals, FiniteSets, Sequences, FiniteSetsExt

CONSTANTS
  Users,
  Conns,     \* connections (*wsConn)
  Owners,    \* whose the connections may be
  Senders,   \* goroutines of HTTP requests that send events
  Message,   \* any event that is not a presence event
  NoEvent,
  Capacity,  \* wsSendBuffer
  MaxSends   \* bound on the number of events that are not callbacks'

Presence == [user : Users, online : BOOLEAN]
Event    == Presence \cup {Message}
Threads  == Conns \cup Senders

ASSUME HubAssumption ==
  /\ Owners \subseteq [Conns -> Users]
  /\ Conns \cap Senders = {}
  /\ NoEvent \notin Event
  /\ Message \notin Presence
  /\ Capacity \in Nat \ {0}
  /\ MaxSends \in Nat

VARIABLES
  userID,    \* the user of each connection
  clients,   \* h.clients
  send,      \* the contents of each connection's channel
  closed,    \* the connections whose channel is closed
  pc,        \* where a connection's WS and readPump goroutine is
  pump,      \* its writePump: "off", "running" or "exited"
  socket,    \* "open", "gone" (the peer left) or "closed" (by this side)
  event,     \* what each thread is sending under the read lock
  left,      \* the connections it has not visited yet
  sends,     \* number of events sent so far that are not callbacks'
  view,      \* history: what each client was last told about each user
  crossed,   \* history: users two announcements of whom overlapped
  dropped    \* history: connections that missed a presence event

vars == <<userID, clients, send, closed, pc, pump, socket, event, left, sends,
          view, crossed, dropped>>

history == <<view, crossed, dropped>>
conns   == <<userID, clients, closed, pc, pump, socket>>

PCs == {"new", "join", "announce_on", "reading", "leave", "announce_off", "done"}

TypeOK ==
  /\ userID \in [Conns -> Users]
  /\ clients \in [Users -> SUBSET Conns]
  /\ send \in [Conns -> Seq(Event)]
  /\ \A c \in Conns : Len(send[c]) <= Capacity
  /\ closed \in SUBSET Conns
  /\ pc \in [Conns -> PCs]
  /\ pump \in [Conns -> {"off", "running", "exited"}]
  /\ socket \in [Conns -> {"open", "gone", "closed"}]
  /\ event \in [Threads -> Event \cup {NoEvent}]
  /\ left \in [Threads -> SUBSET Conns]
  /\ sends \in 0 .. MaxSends
  /\ view \in [Conns -> [Users -> {"none", "on", "off"}]]
  /\ crossed \in SUBSET Users
  /\ dropped \in SUBSET Conns

Init ==
  /\ userID \in Owners
  /\ clients = [u \in Users |-> {}]
  /\ send = [c \in Conns |-> <<>>]
  /\ closed = {}
  /\ pc = [c \in Conns |-> "new"]
  /\ pump = [c \in Conns |-> "off"]
  /\ socket = [c \in Conns |-> "open"]
  /\ event = [t \in Threads |-> NoEvent]
  /\ left = [t \in Threads |-> {}]
  /\ sends = 0
  /\ view = [c \in Conns |-> [u \in Users |-> "none"]]
  /\ crossed = {}
  /\ dropped = {}

-----------------------------------------------------------------------------
(* sync.RWMutex: a waiting writer keeps new readers out.                   *)
Readers  == {t \in Threads : event[t] # NoEvent}
Writers  == {c \in Conns : pc[c] \in {"join", "leave"}}
CanRLock == Writers = {}
CanLock  == Readers = {}

Goto(c, where) == pc' = [pc EXCEPT ![c] = where]

Online(u) == clients[u] # {}

(* Announcements of u under way: callbacks, and setMyStatus broadcasts.    *)
Announcing(u) ==
  {c \in Conns : pc[c] \in {"announce_on", "announce_off"} /\ userID[c] = u}
    \cup {s \in Senders : event[s] # NoEvent /\ event[s] # Message /\ event[s].user = u}

Cross(u, condition) == crossed' = IF condition THEN crossed \cup {u} ELSE crossed

-----------------------------------------------------------------------------
(* ChatHandler.WS up to the call of Lock in register.                      *)
Upgrade(c) ==
  /\ pc[c] = "new"
  /\ Goto(c, "join")
  /\ UNCHANGED <<userID, clients, send, closed, pump, socket, event, left, sends, history>>

(* Variant: the user's set is made anew for each connection.               *)
JoinedAlone(c) == [clients EXCEPT ![userID[c]] = {c}]

Joined(c) == [clients EXCEPT ![userID[c]] = @ \cup {c}]

(* register, and for a connection that is not the user's first the start   *)
(* of the pumps.                                                           *)
Register(c) ==
  /\ pc[c] = "join"
  /\ CanLock
  /\ clients' = Joined(c)
  /\ IF Online(userID[c])
     THEN /\ Goto(c, "reading")
          /\ pump' = [pump EXCEPT ![c] = "running"]
          /\ UNCHANGED crossed
     ELSE /\ Goto(c, "announce_on")
          /\ Cross(userID[c], Announcing(userID[c]) # {})
          /\ UNCHANGED pump
  /\ UNCHANGED <<userID, send, closed, socket, event, left, sends, view, dropped>>

(* ReadMessage fails: the socket is closed or the pong did not come.       *)
ReadFails(c) ==
  /\ pc[c] = "reading"
  /\ event[c] = NoEvent
  /\ socket[c] # "open"
  /\ Goto(c, "leave")
  /\ UNCHANGED <<userID, clients, send, closed, pump, socket, event, left, sends, history>>

(* Variant: whichever connection leaves, its user is announced offline.    *)
NowEmptyAlways(c) == TRUE

NowEmpty(c) == clients[userID[c]] \ {c} = {}

(* Variant: the channel is closed although others hold the read lock.      *)
UnregisterUnlocked(c) ==
  /\ pc[c] = "leave"
  /\ clients' = [clients EXCEPT ![userID[c]] = @ \ {c}]
  /\ closed' = closed \cup {c}
  /\ IF NowEmpty(c)
     THEN /\ Goto(c, "announce_off")
          /\ Cross(userID[c], Announcing(userID[c]) # {})
          /\ UNCHANGED socket
     ELSE /\ Goto(c, "done")
          /\ socket' = [socket EXCEPT ![c] = "closed"]
          /\ UNCHANGED crossed
  /\ UNCHANGED <<userID, send, pump, event, left, sends, view, dropped>>

(* unregister, and the Close that ends readPump when no callback precedes. *)
Unregister(c) ==
  /\ pc[c] = "leave"
  /\ CanLock
  /\ clients' = [clients EXCEPT ![userID[c]] = @ \ {c}]
  /\ closed' = closed \cup {c}
  /\ IF NowEmpty(c)
     THEN /\ Goto(c, "announce_off")
          /\ Cross(userID[c], Announcing(userID[c]) # {})
          /\ UNCHANGED socket
     ELSE /\ Goto(c, "done")
          /\ socket' = [socket EXCEPT ![c] = "closed"]
          /\ UNCHANGED crossed
  /\ UNCHANGED <<userID, send, pump, event, left, sends, view, dropped>>

-----------------------------------------------------------------------------
Everyone == UNION {clients[u] : u \in Users}

RLock(t, e, targets) ==
  /\ CanRLock
  /\ event[t] = NoEvent
  /\ event' = [event EXCEPT ![t] = e]
  /\ left' = [left EXCEPT ![t] = targets]

CountSend == sends < MaxSends /\ sends' = sends + 1

(* handlePresence, called after the lock was released: broadcastAll.       *)
Announce(c) ==
  /\ pc[c] \in {"announce_on", "announce_off"}
  /\ RLock(c, [user |-> userID[c], online |-> pc[c] = "announce_on"], Everyone)
  /\ UNCHANGED <<conns, send, sends, history>>

(* A text frame from the peer: handleClientFrame relays it to the other    *)
(* members of a conversation, in readPump itself.                          *)
Typing(c, to) ==
  /\ pc[c] = "reading"
  /\ socket[c] = "open"
  /\ to # {} /\ userID[c] \notin to
  /\ CountSend
  /\ RLock(c, Message, UNION {clients[u] : u \in to})
  /\ UNCHANGED <<conns, send, history>>

(* SendToUsers from an HTTP request: a message, an edit, a call, a pin.    *)
SendToUsers(s, to) ==
  /\ CountSend
  /\ RLock(s, Message, UNION {clients[u] : u \in to})
  /\ UNCHANGED <<conns, send, history>>

(* setMyStatus, which says that the caller is online without looking.      *)
SetMyStatus(s, u) ==
  /\ CountSend
  /\ RLock(s, [user |-> u, online |-> TRUE], Everyone)
  /\ Cross(u, ~Online(u) \/ Announcing(u) # {})
  /\ UNCHANGED <<conns, send, view, dropped>>

(* The select of one turn of the loop: queued, or skipped when the         *)
(* channel is full.                                                        *)
Visit(t, c) ==
  /\ c \in left[t]
  /\ left' = [left EXCEPT ![t] = @ \ {c}]
  /\ IF Len(send[c]) < Capacity
     THEN send' = [send EXCEPT ![c] = Append(@, event[t])] /\ UNCHANGED dropped
     ELSE /\ UNCHANGED send
          /\ dropped' = IF event[t] = Message THEN dropped ELSE dropped \cup {c}
  /\ UNCHANGED <<conns, event, sends, view, crossed>>

(* RUnlock, and what the goroutine does next: WS starts the pumps,         *)
(* readPump closes the socket or reads on, a request is answered.          *)
Unlock(t) ==
  /\ event[t] # NoEvent
  /\ left[t] = {}
  /\ event' = [event EXCEPT ![t] = NoEvent]
  /\ pc' = [c \in Conns |->
              IF c # t THEN pc[c]
              ELSE CASE pc[c] = "announce_on"  -> "reading"
                     [] pc[c] = "announce_off" -> "done"
                     [] OTHER                  -> pc[c]]
  /\ pump' = [c \in Conns |->
                IF c = t /\ pc[c] = "announce_on" THEN "running" ELSE pump[c]]
  /\ socket' = [c \in Conns |->
                  IF c = t /\ pc[c] = "announce_off" THEN "closed" ELSE socket[c]]
  /\ UNCHANGED <<userID, clients, send, closed, left, sends, history>>

-----------------------------------------------------------------------------
(* writePump                                                               *)
Untold == [u \in Users |-> "none"]

(* Variant: it returns without the deferred Close.                         *)
PumpLeaves(c) ==
  /\ pump' = [pump EXCEPT ![c] = "exited"]
  /\ view' = [view EXCEPT ![c] = Untold]
  /\ dropped' = dropped \ {c}
  /\ UNCHANGED socket

(* It returns: nothing more reaches the client, whose history ends here.   *)
PumpExits(c) ==
  /\ pump' = [pump EXCEPT ![c] = "exited"]
  /\ view' = [view EXCEPT ![c] = Untold]
  /\ dropped' = dropped \ {c}
  /\ socket' = [socket EXCEPT ![c] = "closed"]

Told(c, e) ==
  view' = IF e = Message THEN view
          ELSE [view EXCEPT ![c][e.user] = IF e.online THEN "on" ELSE "off"]

(* An event is taken from the channel and written; a write to a peer that  *)
(* is gone may still succeed.                                              *)
PumpWrites(c) ==
  /\ pump[c] = "running"
  /\ send[c] # <<>>
  /\ socket[c] # "closed"
  /\ send' = [send EXCEPT ![c] = Tail(@)]
  /\ Told(c, Head(send[c]))
  /\ UNCHANGED <<conns, event, left, sends, crossed, dropped>>

(* The write fails: the peer is gone, or too slow for the deadline.        *)
PumpWriteFails(c) ==
  /\ pump[c] = "running"
  /\ send[c] # <<>>
  /\ send' = [send EXCEPT ![c] = Tail(@)]
  /\ PumpExits(c)
  /\ UNCHANGED <<userID, clients, closed, pc, event, left, sends, crossed>>

(* The channel is closed and drained.                                      *)
PumpEnds(c) ==
  /\ pump[c] = "running"
  /\ send[c] = <<>>
  /\ c \in closed
  /\ PumpExits(c)
  /\ UNCHANGED <<userID, clients, send, closed, pc, event, left, sends, crossed>>

(* The ticker fires and the ping cannot be written.                        *)
PingFails(c) ==
  /\ pump[c] = "running"
  /\ socket[c] # "open"
  /\ PumpExits(c)
  /\ UNCHANGED <<userID, clients, send, closed, pc, event, left, sends, crossed>>

(* The browser closes the socket, or its network is gone.                  *)
PeerLeaves(c) ==
  /\ pc[c] \notin {"new", "done"}
  /\ socket[c] = "open"
  /\ socket' = [socket EXCEPT ![c] = "gone"]
  /\ UNCHANGED <<userID, clients, send, closed, pc, pump, event, left, sends, history>>

Next ==
  \/ \E c \in Conns :
       \/ Upgrade(c) \/ Register(c) \/ ReadFails(c) \/ Unregister(c)
       \/ Announce(c)
       \/ \E to \in SUBSET Users : Typing(c, to)
       \/ PumpWrites(c) \/ PumpWriteFails(c) \/ PumpEnds(c) \/ PingFails(c)
       \/ PeerLeaves(c)
  \/ \E s \in Senders :
       \/ \E to \in SUBSET Users : SendToUsers(s, to)
       \/ \E u \in Users : SetMyStatus(s, u)
  \/ \E t \in Threads :
       \/ \E c \in Conns : Visit(t, c)
       \/ Unlock(t)

Spec == Init /\ [][Next]_vars

(* Every goroutine that has been started runs on: the scheduler, the read  *)
(* deadline and the ticker see to that.  Nobody has to connect or send.    *)
SendStep(t) == Unlock(t) \/ \E c \in Conns : Visit(t, c)

ConnStep(c) ==
  Register(c) \/ ReadFails(c) \/ Unregister(c) \/ Announce(c) \/ SendStep(c)

PumpStep(c) == PumpWrites(c) \/ PumpWriteFails(c) \/ PumpEnds(c) \/ PingFails(c)

Fairness ==
  /\ \A c \in Conns : WF_vars(ConnStep(c)) /\ WF_vars(PumpStep(c))
  /\ \A s \in Senders : WF_vars(SendStep(s))

FairSpec == Spec /\ Fairness

-----------------------------------------------------------------------------
(* A send on a closed channel panics, and the panic would take the server  *)
(* down: whoever is fanning out has no closed channel before it            *)
(* (chat_hub.go:39-64, 94-107).                                            *)
NoSendOnClosed == \A t \in Threads : left[t] \cap closed = {}

(* The registry holds exactly the connections that have joined and not     *)
(* left, under their own user, so each channel is closed once.             *)
RegistryExact ==
  \A c \in Conns, u \in Users :
    c \in clients[u] <=>
      /\ u = userID[c]
      /\ pc[c] \in {"announce_on", "reading", "leave"}
      /\ c \notin closed

(* What an open client was last told about a user, its channel empty, is   *)
(* whether that user has a connection, as long as no two announcements of  *)
(* the user overlapped and the client missed none.                         *)
PresenceAgrees ==
  \A c \in Conns, u \in Users :
    /\ pc[c] = "reading" /\ socket[c] = "open" /\ send[c] = <<>>
    /\ c \notin dropped
    /\ u \notin crossed /\ Announcing(u) = {}
    /\ view[c][u] # "none"
    => (view[c][u] = "on" <=> Online(u))

(* When the peer is gone or the write pump gives up, both goroutines of    *)
(* the connection end and the registry lets it go: nothing leaks.          *)
Broken(c)   == pc[c] # "new" /\ (socket[c] # "open" \/ pump[c] = "exited")
Released(c) == pc[c] = "done" /\ pump[c] = "exited"

GoroutinesEnd == \A c \in Conns : Broken(c) ~> Released(c)
=============================================================================
