------------------------ MODULE Conversations_proofs ------------------------
(***************************************************************************)
(* For any number of users, conversations, messages, files and handlers: a *)
(* group with members has an admin, two users have one direct message, a   *)
(* message has its file to itself, and every client that has a             *)
(* conversation open shows what is in it.  Each holds of what no two       *)
(* requests were about at a time and, but for direct messages and the      *)
(* owners of files, as long as no step failed.                             *)
(*                                                                         *)
(* The invariants say what the requests in progress know and have still to *)
(* do: what has not been used is unknown (AloneInv), who makes a direct    *)
(* message (PairInv), who may stop being an admin (AdminInv), whose a file *)
(* is (FileInv), and what events are still to be broadcast (EventInv).     *)
(***************************************************************************)
EXTENDS Conversations, FiniteSetTheorems, TLAPS

USE ConversationsAssumption

-----------------------------------------------------------------------------
(* The invariants                                                          *)

OnMessage == {"edit", "pin", "react", "delete", "unlink", "reread", "tell"}

(* What a request is about, by the step it is at.                          *)
Shape(r) ==
  /\ r \in Req
  /\ r.at = "idle" => r = Idle
  /\ r.at = "create" => r.conv = None /\ (r.about = {} \/ \E P \in Pairs : r.about = {P})
  /\ r.at = "add" => r.conv \in Convs /\ r.conv \in r.about /\ r.about \subseteq Pairs \cup {r.conv}
  /\ r.at \in {"remove", "role"} => r.conv \in Convs /\ r.about = {r.conv} /\ r.user \in Users
  /\ r.at \in {"store", "copy", "post", "photo"} =>
       r.conv \in Convs /\ r.about = {} /\ r.user \in Users
  /\ r.at \in OnMessage =>
       /\ r.conv \in Convs /\ r.user \in Users
       /\ r.msg \in Messages /\ r.about = {r.msg}

(* A row has its conversation and its sender, and what is no row has no    *)
(* file.                                                                   *)
RowOK(m) ==
  /\ msg[m].is = "row" => msg[m].conv \in Convs /\ msg[m].sender \in Users
  /\ msg[m].is # "row" => msg[m].conv = None /\ msg[m].file = None

(* What the types do not say of a request and a message.                   *)
TypeInv ==
  /\ TypeOK
  /\ \A h \in Handlers : Shape(req[h])
  /\ \A m \in Messages : RowOK(m)

(* What was never used, nobody has.                                        *)
FreshConv(c) ==
  kind[c] = "none" =>
    /\ \A u \in Users : role[c][u] = None
    /\ \A m \in Messages : msg[m].conv # c
    /\ \A h \in Handlers : req[h].conv # c

FreshMessage(m) ==
  msg[m].is = "free" =>
    /\ \A h \in Handlers : m \notin req[h].about
    /\ \A u \in Users : <<m, u>> \notin reactions
    /\ \A u \in Users : /\ \A s \in view[u].msgs : s.id # m
                        /\ \A v \in Users : <<m, v>> \notin view[u].reactions

(* Requests about the same thing were seen to be: history knows.           *)
Alone ==
  \A x \in Subjects \ raced, g, h \in Handlers :
    x \in req[g].about /\ x \in req[h].about => g = h

AloneInv ==
  /\ \A c \in Convs : FreshConv(c)
  /\ \A m \in Messages : FreshMessage(m)
  /\ Alone

(* A request that makes a group makes the one who asked its admin, and     *)
(* adds him first.                                                         *)
Founds(r) == <<r.user, "admin">> \in r.add /\ \A x \in r.add : x[1] = r.user => x[2] = "admin"

(* Without t the conversation has an admin still.                          *)
Led(c, t) == \/ role[c][t] # "admin"
             \/ \E a \in Users \ {t} : role[c][a] = "admin"

(* A request that makes an admin makes a group.                            *)
AdminReq(r) ==
  /\ r.at = "create" /\ r.about = {} => Founds(r)
  /\ (r.at = "add" /\ <<r.user, "admin">> \in r.add) => Founds(r)

HasAdmin(c) == \E a \in Users : role[c][a] = "admin"

(* A group has an admin, or is about to get its first; and who is about to *)
(* be removed or demoted is not the last.                                  *)
ConvLed(c) ==
  /\ kind[c] \in {"group", "public"} =>
       \/ HasAdmin(c)
       \/ /\ \A u \in Users : role[c][u] = None
          /\ \E h \in Handlers : req[h].at = "add" /\ req[h].conv = c /\ <<req[h].user, "admin">> \in req[h].add
  /\ \A h \in Handlers :
       req[h].conv = c =>
         /\ req[h].at = "remove" => Led(c, req[h].user) \/ ConversationMemberIDs(c) \subseteq {req[h].user}
         /\ req[h].at = "role" /\ req[h].role = "member" => Led(c, req[h].user)

AdminInv ==
  /\ \A h \in Handlers : AdminReq(req[h])
  /\ ~incident => \A c \in Convs \ (raced \cup emptied) : ConvLed(c)

(* A request that makes a direct message adds its two users as members.    *)
Adds(r, P) == /\ ~r.on /\ r.add # {}
              /\ \A x \in r.add : x[1] \in P /\ x[2] = "member"

PairReq(r) ==
  /\ r.at = "create" => \A P \in r.about : Adds(r, P)
  /\ r.at = "add" /\ kind[r.conv] = "dm" =>
       \E P \in Pairs : P \in r.about /\ Adds(r, P) /\ ConversationMemberIDs(r.conv) \subseteq P
  /\ r.at = "role" => kind[r.conv] # "dm"

(* A direct message has no admin, no third member, and one request that    *)
(* fills it.                                                               *)
Dm(c) ==
  kind[c] = "dm" => /\ \A u \in Users : role[c][u] # "admin"
                    /\ \E Q \in Pairs : ConversationMemberIDs(c) \subseteq Q
                    /\ \A g, h \in Handlers :
                         /\ req[g].at = "add" /\ req[g].conv = c
                         /\ req[h].at = "add" /\ req[h].conv = c
                         => g = h

(* The direct message of a pair is the one that has them as members, or    *)
(* that somebody is making for them; a request that is still to make one   *)
(* has seen none.                                                          *)
Making(c, P) == \E h \in Handlers : req[h].at = "add" /\ req[h].conv = c /\ P \in req[h].about

Mine(c, P) == kind[c] = "dm" /\ (ConversationMemberIDs(c) = P \/ Making(c, P))

PairInv ==
  /\ \A h \in Handlers : PairReq(req[h])
  /\ \A c \in Convs : Dm(c)
  /\ \A P \in Pairs \ raced :
       /\ \A c, d \in Convs : Mine(c, P) /\ Mine(d, P) => c = d
       /\ \A h \in Handlers : req[h].at = "create" /\ P \in req[h].about => \A c \in Convs : ~Mine(c, P)

(* A request that will write file f into a row, and one that will remove   *)
(* it.                                                                     *)
Holds(r, f) == r.file = f /\ r.at \in {"post", "photo"}
Drops(r, f) == r.file = f /\ r.at \in {"delete", "unlink"}

Carry == {"copy", "post", "photo", "delete", "unlink"}

(* What a request has a file for.                                          *)
FileReq(r) ==
  /\ r.at = "store" => r.file = None
  /\ r.at \in {"photo", "copy", "unlink"} => r.file \in Files
  /\ r.at \in Carry /\ r.file # None => files[r.file] # "free"
  /\ r.at = "delete" /\ msg[r.msg].is = "row" => msg[r.msg].file = r.file
  /\ r.at = "photo" => r.file \in photos

(* A file has one owner: a message, or a request that is about to post it. *)
FileOf(f) ==
  /\ files[f] = "free" => \A m \in Messages : msg[m].file # f
  /\ \A m \in Messages : msg[m].file = f =>
       /\ files[f] = "stored"
       /\ \A n \in Messages \ {m} : msg[n].file # f
       /\ \A h \in Handlers : /\ ~Holds(req[h], f)
                              /\ Drops(req[h], f) => req[h].at = "delete" /\ req[h].msg = m
  /\ \A h \in Handlers : Holds(req[h], f) =>
       /\ files[f] = "stored"
       /\ \A g \in Handlers \ {h} : ~Holds(req[g], f)
       /\ \A g \in Handlers : ~Drops(req[g], f)

(* A stored file is of somebody.                                           *)
Kept(f) ==
  files[f] = "stored" /\ f \notin photos =>
    \/ \E m \in Messages : msg[m].file = f
    \/ \E h \in Handlers : req[h].file = f /\ req[h].at \in {"post", "unlink"}

FileInv ==
  /\ \A h \in Handlers : FileReq(req[h])
  /\ \A f \in Files : FileOf(f)
  /\ ~incident => \A f \in Files : Kept(f)

(* Requests that have an event about message m to broadcast yet.           *)
Telling(m, e) == \E h \in Handlers : req[h].msg = m /\ req[h].event = e /\ req[h].at \in {"reread", "tell"}
TellingOf(m, v) ==
  \E h \in Handlers : req[h].msg = m /\ req[h].event = "reaction" /\ req[h].at = "tell" /\ req[h].user = v
Deleting(m, c) ==
  \E h \in Handlers : /\ req[h].msg = m /\ req[h].event = "message_deleted"
                       /\ req[h].at \in {"unlink", "tell"} /\ req[h].conv = c

(* A fresh look would show the user the message.                           *)
Here(u, m) == Exists(m) /\ msg[m].conv = view[u].conv

(* The event a request will broadcast.                                     *)
EventReq(r) ==
  /\ r.at = "edit" => r.event = "message_edited"
  /\ r.at = "pin" => r.event = "pin"
  /\ r.at = "react" => r.event = "reaction"
  /\ r.at \in {"delete", "unlink"} => r.event = "message_deleted"
  /\ r.at \in {"post", "copy", "store"} => r.event = "message"
  /\ r.at = "reread" => r.event \in {"message", "message_edited"}

(* What it will say of a message nobody raced for is so.                   *)
TruthReq(r) ==
  r.msg \notin raced /\ r.at \in OnMessage =>
    IF r.at = "unlink" \/ (r.at = "tell" /\ r.event = "message_deleted")
    THEN msg[r.msg].is = "deleted"
    ELSE /\ Exists(r.msg) /\ r.conv = msg[r.msg].conv
         /\ r.at = "tell" =>
              /\ r.event \in {"message", "message_edited"} => r.body = msg[r.msg].body
              /\ r.event \in {"message", "message_edited", "pin"} => r.pinned = msg[r.msg].pinned
              /\ r.event = "reaction" => (r.on <=> <<r.msg, r.user>> \in reactions)

(* What a client shows of a message is what it is, or somebody is about to *)
(* tell.                                                                   *)
ShowsRow(u, m) ==
  /\ \A s \in view[u].msgs : s.id = m =>
       /\ Here(u, m) \/ Deleting(m, view[u].conv)
       /\ Here(u, m) => /\ s.pinned = msg[m].pinned \/ Telling(m, "pin")
                        /\ s.body = msg[m].body \/ Telling(m, "message_edited")
  /\ Here(u, m) => (\E s \in view[u].msgs : s.id = m) \/ Telling(m, "message")

ShowsReactions(u, m) ==
  Here(u, m) => \A v \in Users : \/ <<m, v>> \in view[u].reactions <=> <<m, v>> \in reactions
                                 \/ TellingOf(m, v)

Sees(u, m) == view[u].conv # None => ShowsRow(u, m) /\ ShowsReactions(u, m)

(* Whoever has a conversation open, and was not removed, is a member.      *)
Present(u) == view[u].conv # None => IsMember(view[u].conv, u)

EventInv ==
  /\ \A h \in Handlers : EventReq(req[h])
  /\ \A u \in Users \ missed : Present(u)
  /\ ~incident =>
       /\ \A h \in Handlers : TruthReq(req[h])
       /\ \A u \in Users \ missed, m \in Messages \ raced : Sees(u, m)

-----------------------------------------------------------------------------
(* Types and requests                                                      *)

(* A pair is no part of another, and two users are one.                    *)
LEMMA PairFacts ==
  /\ \A P, Q \in Pairs : P \subseteq Q => P = Q
  /\ \A u, v \in Users : u # v => {u, v} \in Pairs
  /\ \A P \in Pairs : P \in SUBSET Users /\ P # {}
<1>1. \A P \in Pairs : P \in SUBSET Users /\ IsFiniteSet(P) /\ Cardinality(P) = 2
  BY FS_Subset DEF Pairs
<1>2. ASSUME NEW P \in Pairs, NEW Q \in Pairs, P \subseteq Q PROVE P = Q
  BY <1>1, <1>2, FS_Subset
<1>3. ASSUME NEW u \in Users, NEW v \in Users, u # v PROVE {u, v} \in Pairs
  <2> DEFINE S == {u}
  <2>1. {u, v} = S \cup {v} /\ v \notin S
    BY <1>3
  <2>2. IsFiniteSet(S) /\ Cardinality(S) = 1
    BY FS_Singleton
  <2> HIDE DEF S
  <2>3. Cardinality(S \cup {v}) = Cardinality(S) + 1
    BY <2>1, <2>2, FS_AddElement
  <2> QED
    <3>1. S \cup {v} \in SUBSET Users
      BY <2>1
    <3>2. Cardinality(S \cup {v}) = 2
      BY <2>2, <2>3
    <3>3. S \cup {v} \in Pairs
      BY <3>1, <3>2 DEF Pairs
    <3> QED
      BY <3>3, <2>1
<1>4. \A P \in Pairs : P # {}
  BY <1>1, FS_EmptySet
<1> QED
  BY <1>1, <1>2, <1>3, <1>4

(* The subjects of requests are different things.                          *)
LEMMA SubjectFacts ==
  /\ \A c \in Convs : c \in Subjects /\ c \notin Messages /\ c \notin Pairs
  /\ \A m \in Messages : m \in Subjects /\ m \notin Convs /\ m \notin Pairs
  /\ \A P \in Pairs : P \in Subjects /\ P \notin Convs /\ P \notin Messages
BY PairFacts DEF Subjects

(* The names that requests use.                                            *)
LEMMA Names ==
  /\ "idle" \in Places /\ "create" \in Places /\ "add" \in Places /\ "remove" \in Places /\ "role" \in Places
  /\ "store" \in Places /\ "copy" \in Places /\ "post" \in Places /\ "photo" \in Places
  /\ "edit" \in Places /\ "pin" \in Places /\ "react" \in Places /\ "delete" \in Places
  /\ "unlink" \in Places /\ "reread" \in Places /\ "tell" \in Places
  /\ "message" \in Events /\ "message_edited" \in Events /\ "message_deleted" \in Events
  /\ "pin" \in Events /\ "reaction" \in Events /\ "member" \in Roles
BY DEF Places, Events, Roles

(* No request is about nothing.                                            *)
LEMMA IdleShape == Shape(Idle)
BY DEF Shape, Idle, Req, Places, Roles, Events, OnMessage

(* A handler's request changes, the others stay.                           *)
LEMMA ReqStep ==
  ASSUME TypeInv, NEW h \in Handlers, NEW r, Shape(r), req' = [req EXCEPT ![h] = r]
  PROVE  /\ req' \in [Handlers -> Req]
         /\ \A g \in Handlers : Shape(req'[g])
         /\ req'[h] = r /\ \A g \in Handlers \ {h} : req'[g] = req[g]
<1>1. r \in Req
  BY DEF Shape
<1>2. req \in [Handlers -> Req] /\ \A g \in Handlers : Shape(req[g])
  BY DEF TypeInv, TypeOK
<1> QED
  BY <1>1, <1>2

LEMMA AnswerStep ==
  ASSUME TypeInv, NEW h \in Handlers, Answer(h)
  PROVE  /\ req' \in [Handlers -> Req]
         /\ \A g \in Handlers : Shape(req'[g])
         /\ req'[h] = Idle /\ \A g \in Handlers \ {h} : req'[g] = req[g]
BY IdleShape, ReqStep DEF Answer

(* The state without the requests is as typed.                             *)
Stored ==
  /\ kind \in [Convs -> Kinds]
  /\ role \in [Convs -> [Users -> Roles \cup {None}]]
  /\ avatar \in [Convs -> Files \cup {None}]
  /\ msg \in [Messages -> Message]
  /\ reactions \in SUBSET (Messages \X Users)
  /\ files \in [Files -> {"free", "stored", "removed"}]
  /\ view \in [Users -> View]
  /\ missed \in SUBSET Users
  /\ emptied \in SUBSET Convs
  /\ photos \in SUBSET Files
  /\ \A m \in Messages : RowOK(m)

(* Types, with what actions rarely touch apart.                            *)
LEMMA Typed ==
  TypeInv <=> /\ Stored
              /\ req \in [Handlers -> Req] /\ \A h \in Handlers : Shape(req[h])
              /\ requests \in 0 .. MaxRequests /\ raced \in SUBSET Subjects /\ incident \in BOOLEAN
BY DEF TypeInv, TypeOK, Stored

LEMMA TypedNext ==
  ASSUME Stored', req' \in [Handlers -> Req], \A h \in Handlers : Shape(req'[h]),
         requests' \in 0 .. MaxRequests, raced' \in SUBSET Subjects, incident' \in BOOLEAN
  PROVE  TypeInv'
BY DEF TypeInv, TypeOK, Stored

stored == <<members, avatar, posts, files, view, missed, emptied, photos>>

LEMMA StoredKept == Stored /\ UNCHANGED stored => Stored'
BY DEF Stored, stored, members, posts, RowOK

(* A request that is well-formed arrives.                                  *)
LEMMA BeginTypeInv ==
  ASSUME TypeInv, NEW h \in Handlers, NEW r, Shape(r), Begin(h, r), incident' \in BOOLEAN
  PROVE  TypeInv'
<1>1. Stored'
  BY StoredKept, Typed DEF Begin, stored
<1>2. req' \in [Handlers -> Req] /\ \A g \in Handlers : Shape(req'[g])
  BY ReqStep DEF Begin
<1>3. requests' \in 0 .. MaxRequests /\ raced' \in SUBSET Subjects
  BY Typed DEF Begin, Shape, Req
<1> QED
  BY <1>1, <1>2, <1>3, TypedNext

LEMMA InitTypeInv == Init => TypeInv
<1> SUFFICES ASSUME Init PROVE TypeInv
  OBVIOUS
<1>1. NoMessage("free") \in Message /\ NoMessage("free").is = "free"
      /\ NoMessage("free").conv = None /\ NoMessage("free").file = None
  BY DEF NoMessage, Message
<1>2. Stored
  BY <1>1 DEF Init, Stored, View, Kinds, RowOK
<1>3. req \in [Handlers -> Req] /\ \A h \in Handlers : Shape(req[h])
  <2>1. Idle \in Req
    BY IdleShape DEF Shape
  <2>2. req = [h \in Handlers |-> Idle]
    BY DEF Init
  <2>3. \A h \in Handlers : req[h] = Idle
    BY <2>2
  <2>4. \A h \in Handlers : Shape(req[h])
    BY <2>3, IdleShape
  <2> QED
    BY <2>1, <2>2, <2>4
<1> QED
  <2>1. requests \in 0 .. MaxRequests /\ raced \in SUBSET Subjects /\ incident \in BOOLEAN
    <3>1. requests = 0 /\ raced = {} /\ incident = FALSE
      BY Zenon DEF Init
    <3>2. requests \in 0 .. MaxRequests
      BY <3>1
    <3>3. raced \in SUBSET Subjects
      BY <3>1
    <3>4. incident \in BOOLEAN
      BY <3>1
    <3> QED
      BY <3>2, <3>3, <3>4
  <2> QED
    BY <1>2, <1>3, <2>1, Typed

LEMMA IdleReq == Idle \in Req
BY IdleShape DEF Shape

(* The requests that arrive are well-formed.                               *)
LEMMA OpenShape ==
  ASSUME NEW P \in Pairs, NEW u \in Users, NEW add \in SUBSET (Users \X Roles)
  PROVE  Shape([Idle EXCEPT !.at = "create", !.about = {P}, !.user = u, !.add = add])
<1> DEFINE r == [Idle EXCEPT !.at = "create", !.about = {P}, !.user = u, !.add = add]
<1>1. r \in Req
  BY Names, SubjectFacts DEF Idle, Req
<1>2. r.at = "create" /\ r.about = {P}
  BY IdleReq DEF Idle, Req
<1>3. r.conv = None
  BY IdleReq DEF Idle, Req
<1> HIDE DEF r
<1>4. Shape(r)
  BY <1>1, <1>2, <1>3 DEF Shape, OnMessage
<1> QED
  BY <1>4 DEF r

LEMMA GroupShape ==
  ASSUME NEW u \in Users, NEW on \in BOOLEAN, NEW add \in SUBSET (Users \X Roles)
  PROVE  Shape([Idle EXCEPT !.at = "create", !.user = u, !.on = on, !.add = add])
<1> DEFINE r == [Idle EXCEPT !.at = "create", !.user = u, !.on = on, !.add = add]
<1>1. r \in Req
  <2>1. CASE on = TRUE
    BY <2>1, Names, SubjectFacts DEF Idle, Req
  <2>2. CASE on = FALSE
    BY <2>2, Names, SubjectFacts DEF Idle, Req
  <2> QED
    BY <2>1, <2>2
<1>2. r.at = "create" /\ r.about = {}
  BY IdleReq DEF Idle, Req
<1>3. r.conv = None
  BY IdleReq DEF Idle, Req
<1> HIDE DEF r
<1>4. Shape(r)
  BY <1>1, <1>2, <1>3 DEF Shape, OnMessage
<1> QED
  BY <1>4 DEF r

LEMMA AddShape ==
  ASSUME NEW u \in Users, NEW c \in Convs, NEW add \in SUBSET (Users \X Roles)
  PROVE  Shape([Idle EXCEPT !.at = "add", !.about = {c}, !.user = u, !.conv = c, !.add = add])
<1> DEFINE r == [Idle EXCEPT !.at = "add", !.about = {c}, !.user = u, !.conv = c, !.add = add]
<1>1. r \in Req
  BY Names, SubjectFacts DEF Idle, Req
<1>2. r.at = "add" /\ r.about = {c}
  BY IdleReq DEF Idle, Req
<1>3. r.conv = c
  BY IdleReq DEF Idle, Req
<1> HIDE DEF r
<1>4. Shape(r)
  BY <1>1, <1>2, <1>3 DEF Shape, OnMessage
<1> QED
  BY <1>4 DEF r

LEMMA RemoveShape ==
  ASSUME NEW u \in Users, NEW c \in Convs
  PROVE  Shape([Idle EXCEPT !.at = "remove", !.about = {c}, !.user = u, !.conv = c])
<1> DEFINE r == [Idle EXCEPT !.at = "remove", !.about = {c}, !.user = u, !.conv = c]
<1>1. r \in Req
  BY Names, SubjectFacts DEF Idle, Req
<1>2. r.at = "remove" /\ r.about = {c} /\ r.user = u
  BY IdleReq DEF Idle, Req
<1>3. r.conv = c
  BY IdleReq DEF Idle, Req
<1> HIDE DEF r
<1>4. Shape(r)
  BY <1>1, <1>2, <1>3 DEF Shape, OnMessage
<1> QED
  BY <1>4 DEF r

LEMMA RoleShape ==
  ASSUME NEW u \in Users, NEW c \in Convs, NEW x \in Roles
  PROVE  Shape([Idle EXCEPT !.at = "role", !.about = {c}, !.user = u, !.conv = c, !.role = x])
<1> DEFINE r == [Idle EXCEPT !.at = "role", !.about = {c}, !.user = u, !.conv = c, !.role = x]
<1>1. r \in Req
  BY Names, SubjectFacts DEF Idle, Req
<1>2. r.at = "role" /\ r.about = {c} /\ r.user = u
  BY IdleReq DEF Idle, Req
<1>3. r.conv = c
  BY IdleReq DEF Idle, Req
<1> HIDE DEF r
<1>4. Shape(r)
  BY <1>1, <1>2, <1>3 DEF Shape, OnMessage
<1> QED
  BY <1>4 DEF r

LEMMA PostShape ==
  ASSUME NEW u \in Users, NEW c \in Convs, NEW body \in Bodies
  PROVE  Shape([Idle EXCEPT !.at = "post", !.user = u, !.conv = c, !.body = body])
<1> DEFINE r == [Idle EXCEPT !.at = "post", !.user = u, !.conv = c, !.body = body]
<1>1. r \in Req
  BY Names, SubjectFacts DEF Idle, Req
<1>2. r.at = "post" /\ r.about = {} /\ r.user = u
  BY IdleReq DEF Idle, Req
<1>3. r.conv = c
  BY IdleReq DEF Idle, Req
<1> HIDE DEF r
<1>4. Shape(r)
  BY <1>1, <1>2, <1>3 DEF Shape, OnMessage
<1> QED
  BY <1>4 DEF r

LEMMA UploadShape ==
  ASSUME NEW u \in Users, NEW c \in Convs
  PROVE  Shape([Idle EXCEPT !.at = "store", !.user = u, !.conv = c, !.text = FALSE])
<1> DEFINE r == [Idle EXCEPT !.at = "store", !.user = u, !.conv = c, !.text = FALSE]
<1>1. r \in Req
  BY Names, SubjectFacts DEF Idle, Req
<1>2. r.at = "store" /\ r.about = {} /\ r.user = u
  BY IdleReq DEF Idle, Req
<1>3. r.conv = c
  BY IdleReq DEF Idle, Req
<1> HIDE DEF r
<1>4. Shape(r)
  BY <1>1, <1>2, <1>3 DEF Shape, OnMessage
<1> QED
  BY <1>4 DEF r

LEMMA AvatarShape ==
  ASSUME NEW u \in Users, NEW c \in Convs
  PROVE  Shape([Idle EXCEPT !.at = "store", !.user = u, !.conv = c, !.on = TRUE])
<1> DEFINE r == [Idle EXCEPT !.at = "store", !.user = u, !.conv = c, !.on = TRUE]
<1>1. r \in Req
  BY Names, SubjectFacts DEF Idle, Req
<1>2. r.at = "store" /\ r.about = {} /\ r.user = u
  BY IdleReq DEF Idle, Req
<1>3. r.conv = c
  BY IdleReq DEF Idle, Req
<1> HIDE DEF r
<1>4. Shape(r)
  BY <1>1, <1>2, <1>3 DEF Shape, OnMessage
<1> QED
  BY <1>4 DEF r

LEMMA ForwardShape ==
  ASSUME NEW u \in Users, NEW c \in Convs, NEW at \in {"post", "copy"}, NEW text \in BOOLEAN,
         NEW body \in Bodies \cup {None}, NEW file \in Files \cup {None}
  PROVE  Shape([Idle EXCEPT !.at = at, !.user = u, !.conv = c, !.text = text, !.body = body, !.file = file])
<1> DEFINE r == [Idle EXCEPT !.at = at, !.user = u, !.conv = c, !.text = text, !.body = body, !.file = file]
<1>1. r \in Req
  <2>1. CASE text = TRUE
    BY <2>1, Names, SubjectFacts DEF Idle, Req
  <2>2. CASE text = FALSE
    BY <2>2, Names, SubjectFacts DEF Idle, Req
  <2> QED
    BY <2>1, <2>2
<1>2. r.at = at /\ r.about = {} /\ r.user = u
  BY IdleReq DEF Idle, Req
<1>3. r.conv = c
  BY IdleReq DEF Idle, Req
<1> HIDE DEF r
<1>4. Shape(r)
  BY <1>1, <1>2, <1>3 DEF Shape, OnMessage
<1> QED
  BY <1>4 DEF r

LEMMA EditShape ==
  ASSUME TypeInv, NEW u \in Users, NEW m \in Messages, Exists(m), NEW body \in Bodies
  PROVE  Shape([About(u, m) EXCEPT !.at = "edit", !.body = body, !.event = "message_edited"])
<1> DEFINE r == [About(u, m) EXCEPT !.at = "edit", !.body = body, !.event = "message_edited"]
<1>0. msg[m].conv \in Convs /\ msg[m].file \in Files \cup {None}
  BY DEF TypeInv, TypeOK, RowOK, Exists, Message
<1>1. r \in Req
  BY Names, SubjectFacts, <1>0 DEF Idle, Req, About
<1>2. r.at = "edit" /\ r.about = {m} /\ r.user = u /\ r.msg = m
  BY IdleReq DEF Idle, Req, About
<1>3. r.conv = msg[m].conv
  BY IdleReq DEF Idle, Req, About
<1> HIDE DEF r
<1>4. Shape(r)
  BY <1>1, <1>2, <1>3, <1>0 DEF Shape, OnMessage
<1> QED
  BY <1>4 DEF r

LEMMA PinShape ==
  ASSUME TypeInv, NEW u \in Users, NEW m \in Messages, Exists(m), NEW pinned \in BOOLEAN
  PROVE  Shape([About(u, m) EXCEPT !.at = "pin", !.pinned = pinned, !.event = "pin"])
<1> DEFINE r == [About(u, m) EXCEPT !.at = "pin", !.pinned = pinned, !.event = "pin"]
<1>0. msg[m].conv \in Convs /\ msg[m].file \in Files \cup {None}
  BY DEF TypeInv, TypeOK, RowOK, Exists, Message
<1>1. r \in Req
  BY Names, SubjectFacts, <1>0 DEF Idle, Req, About
<1>2. r.at = "pin" /\ r.about = {m} /\ r.user = u /\ r.msg = m
  BY IdleReq DEF Idle, Req, About
<1>3. r.conv = msg[m].conv
  BY IdleReq DEF Idle, Req, About
<1> HIDE DEF r
<1>4. Shape(r)
  BY <1>1, <1>2, <1>3, <1>0 DEF Shape, OnMessage
<1> QED
  BY <1>4 DEF r

LEMMA ReactShape ==
  ASSUME TypeInv, NEW u \in Users, NEW m \in Messages, Exists(m), NEW on \in BOOLEAN
  PROVE  Shape([About(u, m) EXCEPT !.at = "react", !.on = on, !.event = "reaction"])
<1> DEFINE r == [About(u, m) EXCEPT !.at = "react", !.on = on, !.event = "reaction"]
<1>0. msg[m].conv \in Convs /\ msg[m].file \in Files \cup {None}
  BY DEF TypeInv, TypeOK, RowOK, Exists, Message
<1>1. r \in Req
  <2> DEFINE a == About(u, m)
  <2>1. a \in Req
    BY <1>0, Names, SubjectFacts DEF About, Idle, Req
  <2>2. r = [a EXCEPT !.at = "react", !.on = on, !.event = "reaction"]
    OBVIOUS
  <2> HIDE DEF a, r
  <2>3. "react" \in Places /\ "reaction" \in Events /\ on \in BOOLEAN
    BY DEF Places, Events
  <2> QED
    BY <2>1, <2>2, <2>3 DEF Req
<1>2. r.at = "react" /\ r.about = {m} /\ r.user = u /\ r.msg = m
  BY IdleReq DEF Idle, Req, About
<1>3. r.conv = msg[m].conv
  BY IdleReq DEF Idle, Req, About
<1> HIDE DEF r
<1>4. Shape(r)
  BY <1>1, <1>2, <1>3, <1>0 DEF Shape, OnMessage
<1> QED
  BY <1>4 DEF r

LEMMA DeleteShape ==
  ASSUME TypeInv, NEW u \in Users, NEW m \in Messages, Exists(m)
  PROVE  Shape([About(u, m) EXCEPT !.at = "delete", !.file = msg[m].file, !.event = "message_deleted"])
<1> DEFINE r == [About(u, m) EXCEPT !.at = "delete", !.file = msg[m].file, !.event = "message_deleted"]
<1>0. msg[m].conv \in Convs /\ msg[m].file \in Files \cup {None}
  BY DEF TypeInv, TypeOK, RowOK, Exists, Message
<1>1. r \in Req
  BY Names, SubjectFacts, <1>0 DEF Idle, Req, About
<1>2. r.at = "delete" /\ r.about = {m} /\ r.user = u /\ r.msg = m
  BY IdleReq DEF Idle, Req, About
<1>3. r.conv = msg[m].conv
  BY IdleReq DEF Idle, Req, About
<1> HIDE DEF r
<1>4. Shape(r)
  BY <1>1, <1>2, <1>3, <1>0 DEF Shape, OnMessage
<1> QED
  BY <1>4 DEF r

(* What the reads of a request r, taken with those of other requests       *)
(* before and after, leave it with.                                        *)
Asked(r) ==
  /\ r.at \in {"create", "add", "remove", "role", "store", "copy", "post", "edit", "pin", "react", "delete"}
  /\ r.at = "create" => /\ r.about = {} => Founds(r)
                        /\ \A P \in r.about : /\ Adds(r, P)
                                              /\ \A c \in Convs : kind[c] = "dm" => ConversationMemberIDs(c) # P
  /\ r.at = "add" => /\ kind[r.conv] = "public" \/ HasAdmin(r.conv)
                     /\ r.about = {r.conv} /\ \A x \in r.add : x[2] = "member"
  /\ r.at = "remove" => /\ IsMember(r.conv, r.user)
                        /\ ~incident' => \/ Led(r.conv, r.user)
                                         \/ ConversationMemberIDs(r.conv) \subseteq {r.user}
  /\ r.at = "role" => /\ HasAdmin(r.conv)
                      /\ ~incident' /\ r.role = "member" => Led(r.conv, r.user)
  /\ r.at \in {"store", "copy", "post"} =>
       /\ \E u \in Users : IsMember(r.conv, u)
       /\ r.event = "message"
       /\ IF r.at = "copy" THEN r.file # None /\ \E m \in Messages : msg[m].file = r.file
          ELSE r.file = None
  /\ r.at \in OnMessage =>
       /\ Exists(r.msg) /\ r.conv = msg[r.msg].conv
       /\ r.file = IF r.at = "delete" THEN msg[r.msg].file ELSE None
       /\ r.event = CASE r.at = "edit" -> "message_edited" [] r.at = "pin" -> "pin"
                      [] r.at = "react" -> "reaction" [] r.at = "delete" -> "message_deleted"

Requested(h) == \E r : Shape(r) /\ Begin(h, r) /\ Asked(r)
                     /\ (incident => incident') /\ incident' \in BOOLEAN

(* Sets of at most one user.                                               *)
LEMMA Few ==
  /\ \A S \in SUBSET Users : \A t : Cardinality(S) <= 1 /\ t \in S => S \subseteq {t}
  /\ \A S \in SUBSET Users : \A t : ~(Cardinality(S) <= 1) => \E a \in S : a # t
  /\ \A S \in SUBSET Users : Cardinality(S) \in Nat
<1>1. \A S \in SUBSET Users : IsFiniteSet(S) /\ Cardinality(S) \in Nat
  BY FS_Subset, FS_CardinalityType
<1>2. ASSUME NEW S \in SUBSET Users, NEW t, NEW a \in S, a # t, t \in S
      PROVE  Cardinality(S) >= 2
  <2>1. {a, t} \in Pairs /\ {a, t} \in SUBSET S
    BY <1>2, PairFacts
  <2>2. Cardinality({a, t}) = 2
    BY <2>1 DEF Pairs
  <2> QED
    BY <1>1, <2>1, <2>2, FS_Subset
<1>3. ASSUME NEW S \in SUBSET Users, NEW t, S \subseteq {t}
      PROVE  Cardinality(S) <= 1
  <2> DEFINE one == {t}
  <2>1. IsFiniteSet(one) /\ Cardinality(one) = 1 /\ S \in SUBSET one
    BY <1>3, FS_Singleton
  <2> HIDE DEF one
  <2> QED
    BY <2>1, FS_Subset
<1> QED
  BY <1>1, <1>2, <1>3

(* Who is not the last admin of a group leaves it one.                     *)
LEMMA StaysLed ==
  ASSUME TypeInv, NEW c \in Convs, NEW t \in Users
  PROVE  /\ ~LastAdmin(c, t) => Led(c, t)
         /\ IsMember(c, t) /\ ~(Cardinality(ConversationMemberIDs(c)) > 1)
              => ConversationMemberIDs(c) \subseteq {t}
<1>1. Admins(c) \in SUBSET Users /\ ConversationMemberIDs(c) \in SUBSET Users
  BY DEF Admins, ConversationMemberIDs
<1>2. ~LastAdmin(c, t) => Led(c, t)
  BY <1>1, Few DEF LastAdmin, Led, Admins
<1>3. ASSUME IsMember(c, t), ~(Cardinality(ConversationMemberIDs(c)) > 1)
      PROVE  ConversationMemberIDs(c) \subseteq {t}
  <2>1. t \in ConversationMemberIDs(c)
    BY <1>3 DEF IsMember, ConversationMemberIDs
  <2>2. Cardinality(ConversationMemberIDs(c)) <= 1
    BY <1>1, <1>3, Few
  <2> QED
    BY <1>1, <2>1, <2>2, Few
<1> QED
  BY <1>2, <1>3

(* Each request that arrives is one that was asked with reads that held.   *)
LEMMA MembershipAsked ==
  ASSUME TypeInv, NEW h \in Handlers
  PROVE  /\ \A u, v \in Users : OpenDM(h, u, v) => Requested(h)
         /\ \A u \in Users, others \in SUBSET Users, public \in BOOLEAN :
              CreateGroup(h, u, others, public) => Requested(h)
         /\ \A c \in Convs, u \in Users : JoinChannel(h, u, c) => Requested(h)
         /\ \A c \in Convs, u \in Users, others \in SUBSET Users :
              AddMembers(h, u, c, others) => Requested(h)
<1>0. incident \in BOOLEAN
  BY Typed
<1>1. ASSUME NEW u \in Users, NEW v \in Users, OpenDM(h, u, v) PROVE Requested(h)
  <2> DEFINE P == {u, v}
             add == {<<u, "member">>, <<v, "member">>}
             r == [Idle EXCEPT !.at = "create", !.about = {P}, !.user = u, !.add = add]
  <2>1. P \in Pairs /\ add \in SUBSET (Users \X Roles) /\ add # {} /\ \A x \in add : x[1] \in P /\ x[2] = "member"
    BY <1>1, PairFacts DEF OpenDM, Roles
  <2>2. \A c \in Convs : kind[c] = "dm" => ConversationMemberIDs(c) # P
    BY <1>1 DEF OpenDM, FindDMConversation
  <2>3. Begin(h, r) /\ incident' = incident
    BY <1>1 DEF OpenDM
  <2> HIDE DEF P, add
  <2>4. Shape(r)
    BY <2>1, OpenShape
  <2>5. r.at = "create" /\ r.about = {P} /\ r.add = add /\ ~r.on
    BY DEF Idle
  <2> HIDE DEF r
  <2>6. Asked(r)
    BY <2>1, <2>2, <2>5 DEF Asked, Adds, OnMessage
  <2> QED
    BY <1>0, <2>3, <2>4, <2>6 DEF Requested
<1>2. ASSUME NEW u \in Users, NEW others \in SUBSET Users, NEW public \in BOOLEAN,
             CreateGroup(h, u, others, public)
      PROVE  Requested(h)
  <2> DEFINE add == {<<u, "admin">>} \cup ((others \ {u}) \X {"member"})
             r == [Idle EXCEPT !.at = "create", !.user = u, !.on = public, !.add = add]
  <2>1. add \in SUBSET (Users \X Roles) /\ <<u, "admin">> \in add /\ \A x \in add : x[1] = u => x[2] = "admin"
    BY DEF Roles
  <2>3. Begin(h, r) /\ incident' = incident
    BY <1>2 DEF CreateGroup
  <2> HIDE DEF add
  <2>4. Shape(r)
    BY <2>1, GroupShape
  <2>5. r.at = "create" /\ r.about = {} /\ r.add = add /\ r.user = u
    BY DEF Idle
  <2> HIDE DEF r
  <2>6. Asked(r)
    BY <2>1, <2>5 DEF Asked, Founds, OnMessage
  <2> QED
    BY <1>0, <2>3, <2>4, <2>6 DEF Requested
<1>3. ASSUME NEW c \in Convs, NEW u \in Users, JoinChannel(h, u, c) PROVE Requested(h)
  <2> DEFINE add == {<<u, "member">>}
             r == [Idle EXCEPT !.at = "add", !.about = {c}, !.user = u, !.conv = c, !.add = add]
  <2>1. add \in SUBSET (Users \X Roles) /\ \A x \in add : x[2] = "member"
    BY DEF Roles
  <2>3. Begin(h, r) /\ incident' = incident /\ kind[c] = "public"
    BY <1>3 DEF JoinChannel
  <2> HIDE DEF add
  <2>4. Shape(r)
    BY <2>1, AddShape
  <2>5. r.at = "add" /\ r.about = {c} /\ r.add = add /\ r.conv = c
    BY DEF Idle
  <2> HIDE DEF r
  <2>6. Asked(r)
    BY <2>1, <2>3, <2>5 DEF Asked, OnMessage
  <2> QED
    BY <1>0, <2>3, <2>4, <2>6 DEF Requested
<1>4. ASSUME NEW c \in Convs, NEW u \in Users, NEW others \in SUBSET Users, AddMembers(h, u, c, others)
      PROVE  Requested(h)
  <2> DEFINE add == (others \ {u}) \X {"member"}
             r == [Idle EXCEPT !.at = "add", !.about = {c}, !.user = u, !.conv = c, !.add = add]
  <2>1. add \in SUBSET (Users \X Roles) /\ \A x \in add : x[2] = "member"
    BY DEF Roles
  <2>3. Begin(h, r) /\ incident' = incident /\ HasAdmin(c)
    BY <1>4 DEF AddMembers, HasAdmin
  <2> HIDE DEF add
  <2>4. Shape(r)
    BY <2>1, AddShape
  <2>5. r.at = "add" /\ r.about = {c} /\ r.add = add /\ r.conv = c
    BY DEF Idle
  <2> HIDE DEF r
  <2>6. Asked(r)
    BY <2>1, <2>3, <2>5 DEF Asked, OnMessage
  <2> QED
    BY <1>0, <2>3, <2>4, <2>6 DEF Requested
<1> QED
  BY <1>1, <1>2, <1>3, <1>4

LEMMA AdminAsked ==
  ASSUME TypeInv, NEW h \in Handlers, NEW c \in Convs, NEW u \in Users, NEW target \in Users, NEW ok \in BOOLEAN
  PROVE  /\ RemoveMember(h, u, target, c, ok) => Requested(h)
         /\ \A x \in Roles : SetMemberRole(h, u, target, c, x, ok) => Requested(h)
<1>1. ASSUME RemoveMember(h, u, target, c, ok) PROVE Requested(h)
  <2> DEFINE r == [Idle EXCEPT !.at = "remove", !.about = {c}, !.user = target, !.conv = c]
  <2>1. Begin(h, r) /\ IsMember(c, target)
    BY <1>1 DEF RemoveMember
  <2>6. (incident => incident') /\ incident' \in BOOLEAN
    BY <1>1, Zenon DEF RemoveMember
  <2>2. ~incident' => Led(c, target) \/ ConversationMemberIDs(c) \subseteq {target}
    BY <1>1, StaysLed DEF RemoveMember
  <2>3. Shape(r)
    BY RemoveShape
  <2>4. r.at = "remove" /\ r.about = {c} /\ r.conv = c /\ r.user = target
    BY DEF Idle
  <2> HIDE DEF r
  <2>5. Asked(r)
    BY <2>1, <2>2, <2>4 DEF Asked, OnMessage
  <2> QED
    BY <2>1, <2>3, <2>5, <2>6 DEF Requested
<1>2. ASSUME NEW x \in Roles, SetMemberRole(h, u, target, c, x, ok) PROVE Requested(h)
  <2> DEFINE r == [Idle EXCEPT !.at = "role", !.about = {c}, !.user = target, !.conv = c, !.role = x]
  <2>1. Begin(h, r) /\ HasAdmin(c)
    BY <1>2 DEF SetMemberRole, HasAdmin
  <2>6. (incident => incident') /\ incident' \in BOOLEAN
    BY <1>2, Zenon DEF SetMemberRole
  <2>2. ~incident' /\ x = "member" => Led(c, target)
    BY <1>2, StaysLed DEF SetMemberRole
  <2>3. Shape(r)
    BY RoleShape
  <2>4. r.at = "role" /\ r.about = {c} /\ r.conv = c /\ r.user = target /\ r.role = x
    BY DEF Idle
  <2> HIDE DEF r
  <2>5. Asked(r)
    BY <2>1, <2>2, <2>4 DEF Asked, OnMessage
  <2> QED
    BY <2>1, <2>3, <2>5, <2>6 DEF Requested
<1> QED
  BY <1>1, <1>2

LEMMA SendingAsked ==
  ASSUME TypeInv, NEW h \in Handlers, NEW c \in Convs, NEW u \in Users
  PROVE  /\ UploadConversationAvatar(h, u, c) => Requested(h)
         /\ UploadMessage(h, u, c) => Requested(h)
         /\ \A body \in Bodies : SendMessage(h, u, c, body) => Requested(h)
         /\ \A m \in Messages : ForwardMessage(h, u, m, c) => Requested(h)
<1>0. incident \in BOOLEAN
  BY Typed
<1>1. ASSUME UploadConversationAvatar(h, u, c) PROVE Requested(h)
  <2> DEFINE r == [Idle EXCEPT !.at = "store", !.user = u, !.conv = c, !.on = TRUE]
  <2>1. Begin(h, r) /\ incident' = incident /\ IsMember(c, u)
    BY <1>1 DEF UploadConversationAvatar, authConv
  <2>2. Shape(r)
    BY AvatarShape
  <2>3. r.at = "store" /\ r.conv = c /\ r.file = None /\ r.event = "message"
    BY DEF Idle
  <2> HIDE DEF r
  <2>4. Asked(r)
    BY <2>1, <2>3 DEF Asked, OnMessage
  <2> QED
    BY <1>0, <2>1, <2>2, <2>4 DEF Requested
<1>2. ASSUME UploadMessage(h, u, c) PROVE Requested(h)
  <2> DEFINE r == [Idle EXCEPT !.at = "store", !.user = u, !.conv = c, !.text = FALSE]
  <2>1. Begin(h, r) /\ incident' = incident /\ IsMember(c, u)
    BY <1>2 DEF UploadMessage, authConv
  <2>2. Shape(r)
    BY UploadShape
  <2>3. r.at = "store" /\ r.conv = c /\ r.file = None /\ r.event = "message"
    BY DEF Idle
  <2> HIDE DEF r
  <2>4. Asked(r)
    BY <2>1, <2>3 DEF Asked, OnMessage
  <2> QED
    BY <1>0, <2>1, <2>2, <2>4 DEF Requested
<1>3. ASSUME NEW body \in Bodies, SendMessage(h, u, c, body) PROVE Requested(h)
  <2> DEFINE r == [Idle EXCEPT !.at = "post", !.user = u, !.conv = c, !.body = body]
  <2>1. Begin(h, r) /\ incident' = incident /\ IsMember(c, u)
    BY <1>3 DEF SendMessage, authConv
  <2>2. Shape(r)
    BY PostShape
  <2>3. r.at = "post" /\ r.conv = c /\ r.file = None /\ r.event = "message"
    BY DEF Idle
  <2> HIDE DEF r
  <2>4. Asked(r)
    BY <2>1, <2>3 DEF Asked, OnMessage
  <2> QED
    BY <1>0, <2>1, <2>2, <2>4 DEF Requested
<1>4. ASSUME NEW m \in Messages, ForwardMessage(h, u, m, c) PROVE Requested(h)
  <2> DEFINE at == IF msg[m].file = None THEN "post" ELSE "copy"
             text == msg[m].text
             body == msg[m].body
             file == msg[m].file
             r == [Idle EXCEPT !.at = at, !.user = u, !.conv = c, !.text = text, !.body = body,
                               !.file = file]
  <2>1. Begin(h, r) /\ incident' = incident /\ IsMember(c, u)
    BY <1>4 DEF ForwardMessage
  <2>2. at \in {"post", "copy"} /\ text \in BOOLEAN /\ body \in Bodies \cup {None} /\ file \in Files \cup {None}
        /\ (at = "copy" <=> file # None) /\ file = msg[m].file
    BY Typed DEF Stored, Message
  <2> HIDE DEF at, text, body, file
  <2>3. \A a \in {"post", "copy"}, t \in BOOLEAN, b \in Bodies \cup {None}, f \in Files \cup {None} :
          Shape([Idle EXCEPT !.at = a, !.user = u, !.conv = c, !.text = t, !.body = b, !.file = f])
    BY ForwardShape
  <2>4. Shape(r)
    BY <2>2, <2>3
  <2>5. r.at = at /\ r.conv = c /\ r.file = file /\ r.event = "message"
    BY DEF Idle
  <2> HIDE DEF r
  <2>6. Asked(r)
    BY <2>1, <2>2, <2>5 DEF Asked, OnMessage
  <2> QED
    BY <1>0, <2>1, <2>4, <2>6 DEF Requested
<1> QED
  BY <1>1, <1>2, <1>3, <1>4

LEMMA AboutAsked ==
  ASSUME TypeInv, NEW h \in Handlers, NEW m \in Messages, NEW u \in Users
  PROVE  /\ \A body \in Bodies : EditMessage(h, u, m, body) => Requested(h)
         /\ \A on \in BOOLEAN : /\ SetPin(h, u, m, on) => Requested(h)
                                /\ ToggleReaction(h, u, m, on) => Requested(h)
         /\ RequestDeletion(h, u, m) => Requested(h)
<1>0. incident \in BOOLEAN
  BY Typed
<1>1. ASSUME NEW body \in Bodies, EditMessage(h, u, m, body) PROVE Requested(h)
  <2> DEFINE r == [About(u, m) EXCEPT !.at = "edit", !.body = body, !.event = "message_edited"]
  <2>1. Begin(h, r) /\ incident' = incident /\ Exists(m)
    BY <1>1 DEF EditMessage
  <2>2. Shape(r)
    BY <2>1, EditShape
  <2>3. r.at = "edit" /\ r.conv = msg[m].conv /\ r.msg = m /\ r.file = None /\ r.event = "message_edited"
    BY DEF Idle, About
  <2> HIDE DEF r
  <2>4. Asked(r)
    BY <2>1, <2>3 DEF Asked, OnMessage
  <2> QED
    BY <1>0, <2>1, <2>2, <2>4 DEF Requested
<1>2. ASSUME NEW pinned \in BOOLEAN, SetPin(h, u, m, pinned) PROVE Requested(h)
  <2> DEFINE r == [About(u, m) EXCEPT !.at = "pin", !.pinned = pinned, !.event = "pin"]
  <2>1. Begin(h, r) /\ incident' = incident /\ Exists(m)
    BY <1>2 DEF SetPin
  <2>2. Shape(r)
    BY <2>1, PinShape
  <2>3. r.at = "pin" /\ r.conv = msg[m].conv /\ r.msg = m /\ r.file = None /\ r.event = "pin"
    BY DEF Idle, About
  <2> HIDE DEF r
  <2>4. Asked(r)
    BY <2>1, <2>3 DEF Asked, OnMessage
  <2> QED
    BY <1>0, <2>1, <2>2, <2>4 DEF Requested
<1>3. ASSUME NEW ok \in BOOLEAN, ToggleReaction(h, u, m, ok) PROVE Requested(h)
  <2> DEFINE on == ok /\ HasReaction(m, u)
             r == [About(u, m) EXCEPT !.at = "react", !.on = on, !.event = "reaction"]
  <2>1. Begin(h, r) /\ incident' = incident /\ Exists(m) /\ on \in BOOLEAN
    BY <1>3 DEF ToggleReaction
  <2> HIDE DEF on
  <2>2. \A x \in BOOLEAN : Shape([About(u, m) EXCEPT !.at = "react", !.on = x, !.event = "reaction"])
    BY <2>1, ReactShape
  <2>3. Shape(r)
    BY <2>1, <2>2
  <2>4. r.at = "react" /\ r.conv = msg[m].conv /\ r.msg = m /\ r.file = None /\ r.event = "reaction"
    BY DEF Idle, About
  <2> HIDE DEF r
  <2>5. Asked(r)
    BY <2>1, <2>4 DEF Asked, OnMessage
  <2> QED
    BY <1>0, <2>1, <2>3, <2>5 DEF Requested
<1>4. ASSUME RequestDeletion(h, u, m) PROVE Requested(h)
  <2> DEFINE r == [About(u, m) EXCEPT !.at = "delete", !.file = msg[m].file, !.event = "message_deleted"]
  <2>1. Begin(h, r) /\ incident' = incident /\ Exists(m)
    BY <1>4 DEF RequestDeletion
  <2>2. Shape(r)
    BY <2>1, DeleteShape
  <2>3. r.at = "delete" /\ r.conv = msg[m].conv /\ r.msg = m /\ r.file = msg[m].file /\ r.event = "message_deleted"
    BY DEF Idle, About
  <2> HIDE DEF r
  <2>4. Asked(r)
    BY <2>1, <2>3 DEF Asked, OnMessage
  <2> QED
    BY <1>0, <2>1, <2>2, <2>4 DEF Requested
<1> QED
  BY <1>1, <1>2, <1>3, <1>4

(* A step of a handler: a request, or one of the statements, file          *)
(* operations and broadcasts that follow.                                  *)
Membered(h) ==
  \/ \E c \in Convs : CreateConversation(h, c)
  \/ AddMember(h) \/ Publish(h) \/ RemoveConversationMember(h) \/ SetConversationMemberRole(h)

Messaged(h) ==
  \/ \E f \in Files : StoreFile(h, f) \/ CopyFile(h, f)
  \/ \E m \in Messages : CreateMessage(h, m)
  \/ SetConversationAvatar(h) \/ UpdateMessageBody(h) \/ SetMessagePinned(h) \/ React(h)
  \/ DeleteMessage(h) \/ RemoveFile(h) \/ Reread(h) \/ Broadcast(h)

(* The steps: a request arrives, a handler goes on or fails, a client      *)
(* opens a conversation.                                                   *)
LEMMA Steps ==
  ASSUME TypeInv, Next
  PROVE  \/ \E h \in Handlers : Requested(h) \/ Membered(h) \/ Messaged(h) \/ Fail(h)
         \/ \E u \in Users, c \in Convs : OpenConversation(u, c)
<1>1. ASSUME NEW h \in Handlers, Membership(h) PROVE Requested(h) \/ Membered(h)
  BY <1>1, MembershipAsked, AdminAsked DEF Membership, Membered
<1>2. ASSUME NEW h \in Handlers, Messaging(h) PROVE Requested(h) \/ Messaged(h)
  BY <1>2, SendingAsked, AboutAsked DEF Messaging, Messaged
<1> QED
  BY <1>1, <1>2 DEF Next

(* What a broadcast leaves a client with.                                  *)
LEMMA OnEventType ==
  ASSUME NEW v \in View, NEW e \in Req, e.msg \in Messages, e.user \in Users
  PROVE  OnEvent(v, e) \in View
<1> DEFINE entry == [id |-> e.msg, body |-> e.body, pinned |-> e.pinned]
<1>1. entry \in Shown
  BY DEF Shown, Req
<1>2. \A s \in Shown : [s EXCEPT !.pinned = e.pinned] \in Shown
  BY DEF Shown, Req
<1>3. \A S \in SUBSET Shown : [v EXCEPT !.msgs = S] \in View
  BY DEF View
<1>4. \A S \in SUBSET (Messages \X Users) : [v EXCEPT !.reactions = S] \in View
  BY DEF View
<1>5. v.msgs \in SUBSET Shown /\ v.reactions \in SUBSET (Messages \X Users) /\ <<e.msg, e.user>> \in Messages \X Users
  BY DEF View
<1>6. e.event \in Events
  BY DEF Req
<1> HIDE DEF entry
<1>7. CASE e.event = "message"
  <2>1. OnEvent(v, e) = [v EXCEPT !.msgs = IF \E s \in v.msgs : s.id = e.msg THEN v.msgs ELSE v.msgs \cup {entry}]
    BY <1>7 DEF OnEvent, entry, View
  <2> QED
    <3>1. (IF \E s \in v.msgs : s.id = e.msg THEN v.msgs ELSE v.msgs \cup {entry}) \in SUBSET Shown
      BY <1>1, <1>5
    <3> QED
      BY <1>3, <2>1, <3>1
<1>8. CASE e.event = "message_deleted"
  <2>1. OnEvent(v, e) = [v EXCEPT !.msgs = {s \in v.msgs : s.id # e.msg}]
    BY <1>8 DEF OnEvent, View
  <2> QED
    <3>1. {s \in v.msgs : s.id # e.msg} \in SUBSET Shown
      BY <1>5
    <3> QED
      BY <1>3, <2>1, <3>1
<1>9. CASE e.event = "message_edited"
  <2>1. OnEvent(v, e) = [v EXCEPT !.msgs = {IF s.id = e.msg THEN entry ELSE s : s \in v.msgs}]
    BY <1>9 DEF OnEvent, View, entry
  <2>2. {IF s.id = e.msg THEN entry ELSE s : s \in v.msgs} \in SUBSET Shown
    BY <1>1, <1>5
  <2> QED
    BY <1>3, <2>1, <2>2
<1>10. CASE e.event = "pin"
  <2>1. OnEvent(v, e) = [v EXCEPT !.msgs = {IF s.id = e.msg THEN [s EXCEPT !.pinned = e.pinned] ELSE s : s \in v.msgs}]
    BY <1>10 DEF OnEvent, View
  <2>2. {IF s.id = e.msg THEN [s EXCEPT !.pinned = e.pinned] ELSE s : s \in v.msgs} \in SUBSET Shown
    BY <1>2, <1>5
  <2> QED
    BY <1>3, <2>1, <2>2
<1>11. CASE e.event = "reaction"
  <2>1. OnEvent(v, e) = [v EXCEPT !.reactions = IF e.on THEN v.reactions \cup {<<e.msg, e.user>>}
                                               ELSE v.reactions \ {<<e.msg, e.user>>}]
    BY <1>11 DEF OnEvent, WithReaction, View
  <2> QED
    BY <1>4, <1>5, <2>1
<1> QED
  BY <1>6, <1>7, <1>8, <1>9, <1>10, <1>11 DEF Events

(* Each step keeps the types.                                              *)
LEMMA MemberedTypeInv ==
  ASSUME TypeInv, NEW h \in Handlers, Membered(h)
  PROVE  TypeInv'
<1>0. /\ req \in [Handlers -> Req] /\ \A g \in Handlers : Shape(req[g])
      /\ requests \in 0 .. MaxRequests /\ raced \in SUBSET Subjects /\ incident \in BOOLEAN /\ Stored
  BY Typed
<1>1. ASSUME NEW c \in Convs, CreateConversation(h, c) PROVE TypeInv'
  <2> DEFINE r == [req[h] EXCEPT !.at = "add", !.conv = c, !.about = @ \cup {c}]
  <2>1. req' = [req EXCEPT ![h] = r]
    BY <1>0, <1>1 DEF CreateConversation
  <2>2. Shape(r)
    <3>1. req[h].at = "create" /\ req[h] \in Req /\ Shape(req[h])
      BY <1>0, <1>1 DEF CreateConversation
    <3>2. req[h].about = {} \/ \E P \in Pairs : req[h].about = {P}
      BY <3>1 DEF Shape
    <3>3. r \in Req
      BY <3>1, <3>2, SubjectFacts, Names DEF Req
    <3>4. r.at = "add" /\ r.conv = c /\ r.about = req[h].about \cup {c}
      BY <3>1 DEF Req
    <3> HIDE DEF r
    <3> QED
      BY <3>2, <3>3, <3>4 DEF Shape, OnMessage
  <2>3. kind' \in [Convs -> Kinds]
    BY <1>0, <1>1 DEF CreateConversation, Stored, Kinds
  <2>4. Stored'
    BY <1>0, <1>1, <2>3 DEF CreateConversation, Stored, posts, RowOK, history
  <2> HIDE DEF r
  <2> QED
    BY <1>0, <1>1, <2>1, <2>2, <2>4, ReqStep, TypedNext DEF CreateConversation, history
<1>2. ASSUME AddMember(h) PROVE TypeInv'
  <2>1. PICK x \in req[h].add :
          /\ \/ AddConversationMember(req[h].conv, x[1], x[2]) /\ UNCHANGED incident
             \/ incident' = TRUE /\ UNCHANGED role
          /\ IF req[h].add = {x} /\ ~req[h].on THEN Answer(h)
             ELSE req' = [req EXCEPT ![h].add = req[h].add \ {x}]
    BY <1>2 DEF AddMember
  <2>2. x[1] \in Users /\ x[2] \in Roles /\ req[h].add \in SUBSET (Users \X Roles)
    BY <1>0 DEF Req
  <2>3. req' \in [Handlers -> Req] /\ \A g \in Handlers : Shape(req'[g])
    <3>1. CASE Answer(h)
      BY <3>1, AnswerStep
    <3>2. CASE req' = [req EXCEPT ![h].add = req[h].add \ {x}]
      <4> DEFINE r == [req[h] EXCEPT !.add = req[h].add \ {x}]
      <4>1. req' = [req EXCEPT ![h] = r]
        BY <1>0, <3>2
      <4>2. Shape(r)
        BY <1>0, <1>2, <2>2 DEF AddMember, Shape, Req, OnMessage
      <4> HIDE DEF r
      <4> QED
        BY <4>1, <4>2, ReqStep
    <3> QED
      BY <2>1, <3>1, <3>2
  <2>4. role' \in [Convs -> [Users -> Roles \cup {None}]]
    <3>1. PICK y \in Roles \cup {None} : role' = [role EXCEPT ![req[h].conv][x[1]] = y] \/ role' = role
      <4>1. CASE AddConversationMember(req[h].conv, x[1], x[2]) /\ req[h].conv \in Convs
        <5>1. role' = [role EXCEPT ![req[h].conv][x[1]] =
                         IF IsMember(req[h].conv, x[1]) THEN role[req[h].conv][x[1]] ELSE x[2]]
          BY <4>1 DEF AddConversationMember
        <5>2. role[req[h].conv][x[1]] \in Roles \cup {None}
          BY <1>0, <2>2, <4>1 DEF Stored
        <5> QED
          BY <2>2, <5>1, <5>2
      <4>2. req[h].conv \in Convs
        BY <1>0, <1>2 DEF AddMember, Shape
      <4> QED
        BY <2>1, <4>1, <4>2
    <3>2. role \in [Convs -> [Users -> Roles \cup {None}]]
      BY <1>0 DEF Stored
    <3>3. ASSUME role' = [role EXCEPT ![req[h].conv][x[1]] = y]
          PROVE role' \in [Convs -> [Users -> Roles \cup {None}]]
      <4>1. ASSUME req[h].conv \in Convs
            PROVE role' \in [Convs -> [Users -> Roles \cup {None}]]
        <5>1. role[req[h].conv] \in [Users -> Roles \cup {None}]
          BY <3>2, <4>1
        <5>2. [role[req[h].conv] EXCEPT ![x[1]] = y] \in [Users -> Roles \cup {None}]
          BY <5>1
        <5> QED
          BY <3>2, <3>3, <5>2
      <4>2. ASSUME req[h].conv \notin Convs
            PROVE role' \in [Convs -> [Users -> Roles \cup {None}]]
        BY <3>2, <3>3, <4>2
      <4> QED
        BY <4>1, <4>2
    <3> QED
      BY <3>1, <3>2, <3>3
  <2>5. incident' \in BOOLEAN
    BY <1>0, <2>1
  <2>6. Stored'
    BY <1>0, <1>2, <2>4 DEF AddMember, Stored, posts, RowOK
  <2> QED
    BY <1>0, <1>2, <2>3, <2>5, <2>6, TypedNext DEF AddMember
<1>3. ASSUME Publish(h) PROVE TypeInv'
  <2>1. kind' \in [Convs -> Kinds]
    BY <1>0, <1>3 DEF Publish, SetConversationVisibility, Stored, Kinds
  <2>2. Stored'
    BY <1>0, <1>3, <2>1 DEF Publish, Stored, posts, RowOK
  <2>3. incident' \in BOOLEAN
    BY <1>0, <1>3 DEF Publish
  <2> QED
    BY <1>0, <1>3, <2>2, <2>3, AnswerStep, TypedNext DEF Publish
<1>4. ASSUME RemoveConversationMember(h) PROVE TypeInv'
  <2>1. req[h].conv \in Convs /\ req[h].user \in Users
    BY <1>0, <1>4 DEF RemoveConversationMember, Shape
  <2>2. role' \in [Convs -> [Users -> Roles \cup {None}]]
    BY <1>0, <1>4 DEF RemoveConversationMember, Stored
  <2>3. missed' \in SUBSET Users /\ emptied' \in SUBSET Convs
    BY <1>0, <1>4, <2>1 DEF RemoveConversationMember, Stored
  <2>4. Stored'
    BY <1>0, <1>4, <2>2, <2>3 DEF RemoveConversationMember, Stored, posts, RowOK
  <2> QED
    BY <1>0, <1>4, <2>4, AnswerStep, TypedNext DEF RemoveConversationMember
<1>5. ASSUME SetConversationMemberRole(h) PROVE TypeInv'
  <2>1. role' \in [Convs -> [Users -> Roles \cup {None}]]
    BY <1>0, <1>5 DEF SetConversationMemberRole, Stored, Req
  <2>2. Stored'
    BY <1>0, <1>5, <2>1 DEF SetConversationMemberRole, Stored, posts, RowOK, history
  <2> QED
    BY <1>0, <1>5, <2>2, AnswerStep, TypedNext DEF SetConversationMemberRole, history
<1> QED
  BY <1>1, <1>2, <1>3, <1>4, <1>5 DEF Membered

LEMMA MessagedTypeInv ==
  ASSUME TypeInv, NEW h \in Handlers, Messaged(h)
  PROVE  TypeInv'
<1> DEFINE q == req[h]
<1>0. /\ req \in [Handlers -> Req] /\ \A g \in Handlers : Shape(req[g])
      /\ requests \in 0 .. MaxRequests /\ raced \in SUBSET Subjects /\ incident \in BOOLEAN /\ Stored
  BY Typed
<1>q. q \in Req /\ Shape(q)
  BY <1>0
<1>1. ASSUME NEW f \in Files, StoreFile(h, f) PROVE TypeInv'
  <2> DEFINE at == IF q.on THEN "photo" ELSE "post"
             r == [q EXCEPT !.at = at, !.file = f]
  <2>1. req' = [req EXCEPT ![h] = r] /\ q.at = "store" /\ at \in {"photo", "post"}
    BY <1>0, <1>1 DEF StoreFile
  <2> HIDE DEF at
  <2>2. r \in Req /\ r.at = at /\ r.about = q.about /\ r.conv = q.conv /\ r.user = q.user
    BY <1>q, <2>1, Names DEF Req
  <2>3. Shape(r)
    <3> HIDE DEF r, q
    <3> QED
      BY <1>q, <2>1, <2>2 DEF Shape, OnMessage
  <2>4. photos' \in SUBSET Files /\ files' \in [Files -> {"free", "stored", "removed"}]
    BY <1>0, <1>1 DEF StoreFile, Stored
  <2>5. Stored'
    BY <1>0, <1>1, <2>4 DEF StoreFile, Stored, members, posts, RowOK
  <2> HIDE DEF r, q
  <2> QED
    BY <1>0, <1>1, <2>1, <2>3, <2>5, ReqStep, TypedNext DEF StoreFile
<1>2. ASSUME NEW f \in Files, CopyFile(h, f) PROVE TypeInv'
  <2>1. PICK file \in {f, None} : req' = [req EXCEPT ![h].at = "post", ![h].file = file]
    BY <1>2 DEF CopyFile, CopyStoredFile
  <2> DEFINE r == [q EXCEPT !.at = "post", !.file = file]
  <2>2. req' = [req EXCEPT ![h] = r] /\ q.at = "copy"
    BY <1>0, <1>2, <2>1 DEF CopyFile
  <2>3. r \in Req /\ r.at = "post" /\ r.about = q.about /\ r.conv = q.conv /\ r.user = q.user
    BY <1>q, Names DEF Req
  <2>4. Shape(r)
    <3> HIDE DEF r, q
    <3> QED
      BY <1>q, <2>2, <2>3 DEF Shape, OnMessage
  <2>5. files' \in [Files -> {"free", "stored", "removed"}]
    <3>1. files' \in {files, [files EXCEPT ![f] = "stored"]}
      BY <1>2 DEF CopyFile
    <3>2. files \in [Files -> {"free", "stored", "removed"}]
      BY <1>0 DEF Stored
    <3> QED
      BY <3>1, <3>2
  <2>6. Stored'
    BY <1>0, <1>2, <2>5 DEF CopyFile, Stored, members, posts, RowOK
  <2>7. incident' \in BOOLEAN
    BY <1>0, <1>2 DEF CopyFile
  <2> HIDE DEF r, q
  <2> QED
    BY <1>0, <1>2, <2>2, <2>4, <2>6, <2>7, ReqStep, TypedNext DEF CopyFile
<1>3. ASSUME NEW m \in Messages, CreateMessage(h, m) PROVE TypeInv'
  <2> DEFINE r == [q EXCEPT !.at = "reread", !.msg = m, !.about = {m}]
             new == [is |-> "row", conv |-> q.conv, sender |-> q.user, text |-> q.text,
                     body |-> q.body, pinned |-> FALSE, file |-> q.file]
  <2>1. req' = [req EXCEPT ![h] = r] /\ q.at = "post" /\ msg' = [msg EXCEPT ![m] = new]
    BY <1>0, <1>3 DEF CreateMessage
  <2>2. r \in Req /\ r.at = "reread" /\ r.about = {m} /\ r.conv = q.conv /\ r.user = q.user /\ r.msg = m
    BY <1>q, SubjectFacts, Names DEF Req
  <2>3. q.conv \in Convs /\ q.user \in Users
    <3> HIDE DEF q
    <3> QED
      BY <1>q, <2>1 DEF Shape
  <2>4. new \in Message /\ new.is = "row" /\ new.conv \in Convs /\ new.sender \in Users
    BY <1>q, <2>3 DEF Req, Message
  <2>5. Shape(r)
    <3> HIDE DEF r, q
    <3> QED
      BY <2>2, <2>3 DEF Shape, OnMessage
  <2> HIDE DEF new
  <2>6. msg' \in [Messages -> Message] /\ \A n \in Messages : RowOK(n)'
    BY <1>0, <2>1, <2>4 DEF Stored, RowOK
  <2>7. Stored'
    BY <1>0, <1>3, <2>6 DEF CreateMessage, Stored, members, history
  <2> HIDE DEF r, q
  <2> QED
    BY <1>0, <1>3, <2>1, <2>5, <2>7, ReqStep, TypedNext DEF CreateMessage, history
<1>4. ASSUME SetConversationAvatar(h) PROVE TypeInv'
  <2>1. avatar' \in [Convs -> Files \cup {None}]
    BY <1>0, <1>4, <1>q DEF SetConversationAvatar, Stored, Req
  <2>2. Stored'
    BY <1>0, <1>4, <2>1 DEF SetConversationAvatar, Stored, members, posts, history, RowOK
  <2> QED
    BY <1>0, <1>4, <2>2, AnswerStep, TypedNext DEF SetConversationAvatar, history
<1>a. ASSUME NEW at \in {"reread", "tell", "unlink"}, q.at \in OnMessage
      PROVE  Shape([q EXCEPT !.at = at])
  <2> DEFINE r == [q EXCEPT !.at = at]
  <2>1. r \in Req /\ r.at = at /\ r.about = q.about /\ r.conv = q.conv /\ r.user = q.user /\ r.msg = q.msg
    BY <1>q, Names DEF Req
  <2> HIDE DEF r, q
  <2>2. Shape(r)
    BY <1>q, <1>a, <2>1 DEF Shape, OnMessage
  <2> QED
    BY <2>2 DEF r
<1>b. ASSUME NEW at \in {"reread", "tell", "unlink"}, q.at \in OnMessage, Goto(h, at)
      PROVE  req' \in [Handlers -> Req] /\ \A g \in Handlers : Shape(req'[g])
  <2> DEFINE r == [q EXCEPT !.at = at]
  <2>1. req' = [req EXCEPT ![h] = r]
    BY <1>0, <1>b DEF Goto
  <2>2. Shape(r)
    BY <1>a, <1>b
  <2> HIDE DEF r, q
  <2> QED
    BY <2>1, <2>2, ReqStep
<1>m. q.at \in OnMessage => q.msg \in Messages /\ q.user \in Users
  <2> HIDE DEF q
  <2> QED
    BY <1>q DEF Shape
<1>5. ASSUME UpdateMessageBody(h) PROVE TypeInv'
  <2>1. q.at \in OnMessage /\ Goto(h, "reread")
    BY <1>5 DEF UpdateMessageBody, OnMessage
  <2>2. PICK b \in Bodies \cup {None} : msg' = [msg EXCEPT ![q.msg].body = b]
    <3>1. msg' = [msg EXCEPT ![q.msg].body = IF Exists(q.msg) THEN q.body ELSE msg[q.msg].body]
      BY <1>5 DEF UpdateMessageBody
    <3>2. q.body \in Bodies \cup {None} /\ msg[q.msg].body \in Bodies \cup {None}
      BY <1>0, <1>q, <1>m, <2>1 DEF Stored, Message, Req
    <3> QED
      BY <3>1, <3>2
  <2>3. msg' \in [Messages -> Message] /\ \A n \in Messages : RowOK(n)'
    <3> DEFINE row == [msg[q.msg] EXCEPT !.body = b]
    <3>1. msg[q.msg] \in Message /\ RowOK(q.msg) /\ msg \in [Messages -> Message]
      BY <1>0, <1>m, <2>1 DEF Stored
    <3>2. row \in Message /\ row.is = msg[q.msg].is /\ row.conv = msg[q.msg].conv
          /\ row.sender = msg[q.msg].sender /\ row.file = msg[q.msg].file
      BY <3>1 DEF Message
    <3>3. msg' = [msg EXCEPT ![q.msg] = row]
      BY <2>2, <3>1
    <3> HIDE DEF row
    <3>4. msg' \in [Messages -> Message]
      BY <3>1, <3>2, <3>3
    <3>5. \A n \in Messages : msg'[n] = IF n = q.msg THEN row ELSE msg[n]
      BY <3>1, <3>3
    <3>6. \A n \in Messages : RowOK(n)
      BY <1>0 DEF Stored
    <3> QED
      BY <3>1, <3>2, <3>4, <3>5, <3>6 DEF RowOK
  <2>4. Stored'
    BY <1>0, <1>5, <2>3 DEF UpdateMessageBody, Stored, members, history
  <2> QED
    BY <1>0, <1>5, <1>b, <2>1, <2>4, TypedNext DEF UpdateMessageBody, history
<1>6. ASSUME SetMessagePinned(h) PROVE TypeInv'
  <2>1. q.at \in OnMessage /\ Goto(h, "tell")
    BY <1>6 DEF SetMessagePinned, OnMessage
  <2>2. PICK b \in BOOLEAN : msg' = [msg EXCEPT ![q.msg].pinned = b]
    <3>1. msg' = [msg EXCEPT ![q.msg].pinned = IF Exists(q.msg) THEN q.pinned ELSE msg[q.msg].pinned]
      BY <1>6 DEF SetMessagePinned
    <3>2. q.pinned \in BOOLEAN /\ msg[q.msg].pinned \in BOOLEAN
      BY <1>0, <1>q, <1>m, <2>1 DEF Stored, Message, Req
    <3> QED
      BY <3>1, <3>2
  <2>3. msg' \in [Messages -> Message] /\ \A n \in Messages : RowOK(n)'
    <3> DEFINE row == [msg[q.msg] EXCEPT !.pinned = b]
    <3>1. msg[q.msg] \in Message /\ RowOK(q.msg) /\ msg \in [Messages -> Message]
      BY <1>0, <1>m, <2>1 DEF Stored
    <3>2. row \in Message /\ row.is = msg[q.msg].is /\ row.conv = msg[q.msg].conv
          /\ row.sender = msg[q.msg].sender /\ row.file = msg[q.msg].file
      BY <3>1 DEF Message
    <3>3. msg' = [msg EXCEPT ![q.msg] = row]
      BY <2>2, <3>1
    <3> HIDE DEF row
    <3>4. msg' \in [Messages -> Message]
      BY <3>1, <3>2, <3>3
    <3>5. \A n \in Messages : msg'[n] = IF n = q.msg THEN row ELSE msg[n]
      BY <3>1, <3>3
    <3>6. \A n \in Messages : RowOK(n)
      BY <1>0 DEF Stored
    <3> QED
      BY <3>1, <3>2, <3>4, <3>5, <3>6 DEF RowOK
  <2>4. Stored'
    BY <1>0, <1>6, <2>3 DEF SetMessagePinned, Stored, members, history
  <2> QED
    BY <1>0, <1>6, <1>b, <2>1, <2>4, TypedNext DEF SetMessagePinned, history
<1>7. ASSUME React(h) PROVE TypeInv'
  <2>1. q.at = "react" /\ q.at \in OnMessage
    BY <1>7 DEF React, OnMessage
  <2>2. reactions' \in SUBSET (Messages \X Users)
    BY <1>0, <1>7, <1>m, <2>1 DEF React, RemoveReaction, AddReaction, Stored
  <2>3. Stored'
    BY <1>0, <1>7, <2>2 DEF React, Stored, members, history, RowOK
  <2>4. req' \in [Handlers -> Req] /\ \A g \in Handlers : Shape(req'[g])
    <3>1. CASE Answer(h)
      BY <3>1, AnswerStep
    <3>2. CASE req' = [req EXCEPT ![h].at = "tell", ![h].on = ~@]
      <4> DEFINE on == ~q.on
                 r == [q EXCEPT !.at = "tell", !.on = on]
      <4>1. req' = [req EXCEPT ![h] = r] /\ on \in BOOLEAN
        BY <1>0, <3>2
      <4> HIDE DEF on
      <4>2. r \in Req /\ r.at = "tell" /\ r.about = q.about /\ r.conv = q.conv /\ r.user = q.user /\ r.msg = q.msg
        BY <1>q, <4>1, Names DEF Req
      <4> HIDE DEF r, q
      <4>3. Shape(r)
        BY <1>q, <2>1, <4>2 DEF Shape, OnMessage
      <4> QED
        BY <4>1, <4>3, ReqStep
    <3> QED
      BY <1>7, <3>1, <3>2 DEF React
  <2> QED
    BY <1>0, <1>7, <2>3, <2>4, TypedNext DEF React, history
<1>8. ASSUME DeleteMessage(h) PROVE TypeInv'
  <2>1. PICK at \in {"tell", "unlink"} : Goto(h, at)
    BY <1>8 DEF DeleteMessage
  <2>2. q.at \in OnMessage
    BY <1>8 DEF DeleteMessage, OnMessage
  <2>3. NoMessage("deleted") \in Message /\ NoMessage("deleted").is = "deleted"
        /\ NoMessage("deleted").conv = None /\ NoMessage("deleted").file = None
    BY DEF NoMessage, Message
  <2>4. msg' = [msg EXCEPT ![q.msg] = NoMessage("deleted")] /\ reactions' \subseteq reactions
    BY <1>8 DEF DeleteMessage
  <2>5. msg' \in [Messages -> Message] /\ (\A n \in Messages : RowOK(n)')
        /\ reactions' \in SUBSET (Messages \X Users)
    BY <1>0, <2>3, <2>4 DEF Stored, RowOK
  <2>6. Stored'
    BY <1>0, <1>8, <2>5 DEF DeleteMessage, Stored, members, history
  <2> QED
    BY <1>0, <1>8, <1>b, <2>1, <2>2, <2>6, TypedNext DEF DeleteMessage, history
<1>9. ASSUME RemoveFile(h) PROVE TypeInv'
  <2>1. q.at \in OnMessage /\ Goto(h, "tell")
    BY <1>9 DEF RemoveFile, OnMessage
  <2>2. files' \in [Files -> {"free", "stored", "removed"}]
    BY <1>0, <1>9 DEF RemoveFile, Stored
  <2>3. Stored'
    BY <1>0, <1>9, <2>2 DEF RemoveFile, Stored, members, posts, RowOK
  <2>4. incident' \in BOOLEAN
    BY <1>0, <1>9 DEF RemoveFile
  <2> QED
    BY <1>0, <1>9, <1>b, <2>1, <2>3, <2>4, TypedNext DEF RemoveFile
<1>10. ASSUME Reread(h) PROVE TypeInv'
  <2>1. q.at = "reread" /\ q.at \in OnMessage
    BY <1>10 DEF Reread, OnMessage
  <2>2. Stored'
    BY <1>0, <1>10, StoredKept DEF Reread, stored, history
  <2>3. req' \in [Handlers -> Req] /\ \A g \in Handlers : Shape(req'[g])
    <3>1. CASE Answer(h)
      BY <3>1, AnswerStep
    <3>2. CASE req' = [req EXCEPT ![h].at = "tell", ![h].body = msg[q.msg].body, ![h].pinned = msg[q.msg].pinned]
      <4> DEFINE r == [q EXCEPT !.at = "tell", !.body = msg[q.msg].body, !.pinned = msg[q.msg].pinned]
      <4>1. req' = [req EXCEPT ![h] = r]
        BY <1>0, <3>2
      <4>2. msg[q.msg].body \in Bodies \cup {None} /\ msg[q.msg].pinned \in BOOLEAN
        BY <1>0, <1>m, <2>1 DEF Stored, Message
      <4>3. r \in Req /\ r.at = "tell" /\ r.about = q.about /\ r.conv = q.conv /\ r.user = q.user /\ r.msg = q.msg
        BY <1>q, <4>2, Names DEF Req
      <4> HIDE DEF r, q
      <4>4. Shape(r)
        BY <1>q, <2>1, <4>3 DEF Shape, OnMessage
      <4> QED
        BY <4>1, <4>4, ReqStep
    <3> QED
      BY <1>10, <3>1, <3>2 DEF Reread
  <2> QED
    BY <1>0, <1>10, <2>2, <2>3, TypedNext DEF Reread, history
<1>11. ASSUME Broadcast(h) PROVE TypeInv'
  <2>1. q.at \in OnMessage
    BY <1>11 DEF Broadcast, OnMessage
  <2>2. \A u \in Users : OnEvent(view[u], q) \in View
    BY <1>0, <1>q, <1>m, <2>1, OnEventType DEF Stored
  <2>3. view' = [u \in Users |-> IF IsMember(q.conv, u) /\ view[u].conv = q.conv THEN OnEvent(view[u], q) ELSE view[u]]
    BY <1>11 DEF Broadcast
  <2>4. view' \in [Users -> View]
    BY <1>0, <2>2, <2>3 DEF Stored
  <2>5. Stored'
    BY <1>0, <1>11, <2>4 DEF Broadcast, Stored, members, posts, history, RowOK
  <2> QED
    BY <1>0, <1>11, <2>5, AnswerStep, TypedNext DEF Broadcast, history
<1> QED
  BY <1>1, <1>2, <1>3, <1>4, <1>5, <1>6, <1>7, <1>8, <1>9, <1>10, <1>11 DEF Messaged

LEMMA OtherTypeInv ==
  ASSUME TypeInv
  PROVE  /\ \A h \in Handlers : Fail(h) => TypeInv'
         /\ \A u \in Users, c \in Convs : OpenConversation(u, c) => TypeInv'
<1>0. /\ req \in [Handlers -> Req] /\ \A g \in Handlers : Shape(req[g])
      /\ requests \in 0 .. MaxRequests /\ raced \in SUBSET Subjects /\ incident \in BOOLEAN /\ Stored
  BY Typed
<1>1. ASSUME NEW h \in Handlers, Fail(h) PROVE TypeInv'
  <2>1. Stored'
    BY <1>0, <1>1, StoredKept DEF Fail, stored
  <2>2. incident' \in BOOLEAN
    BY <1>1 DEF Fail
  <2> QED
    BY <1>0, <1>1, <2>1, <2>2, AnswerStep, TypedNext DEF Fail
<1>2. ASSUME NEW u \in Users, NEW c \in Convs, OpenConversation(u, c) PROVE TypeInv'
  <2> DEFINE v == [conv |-> c, msgs |-> listMessages(c), reactions |-> ListReactions(c)]
  <2>1. listMessages(c) \in SUBSET Shown
    BY <1>0 DEF listMessages, ListMessages, ShownAs, Shown, Stored, Message
  <2>2. ListReactions(c) \in SUBSET (Messages \X Users)
    BY <1>0 DEF ListReactions, Stored
  <2>3. v \in View
    BY <2>1, <2>2 DEF View
  <2> HIDE DEF v
  <2>4. view' = [view EXCEPT ![u] = v] /\ missed' \subseteq missed
    BY <1>2 DEF OpenConversation, v
  <2>5. view' \in [Users -> View] /\ missed' \in SUBSET Users
    BY <1>0, <2>3, <2>4 DEF Stored
  <2>6. Stored'
    BY <1>0, <1>2, <2>5 DEF OpenConversation, Stored, members, posts, RowOK
  <2>7. requests' = requests + 1 /\ requests < MaxRequests
    BY <1>2 DEF OpenConversation
  <2>8. requests' \in 0 .. MaxRequests
    BY <1>0, <2>7
  <2> QED
    BY <1>0, <1>2, <2>6, <2>8, TypedNext DEF OpenConversation
<1> QED
  BY <1>1, <1>2

LEMMA NextTypeInv == TypeInv /\ [Next]_vars => TypeInv'
<1> SUFFICES ASSUME TypeInv, [Next]_vars PROVE TypeInv'
  OBVIOUS
<1>1. ASSUME UNCHANGED vars PROVE TypeInv'
  <2>1. Stored'
    BY <1>1, Typed, StoredKept DEF vars, stored, history, members, posts
  <2> QED
    BY <1>1, <2>1, Typed, TypedNext DEF vars, history
<1>2. ASSUME NEW h \in Handlers, Requested(h) PROVE TypeInv'
  BY <1>2, BeginTypeInv DEF Requested
<1>3. CASE Next
  BY <1>2, <1>3, Steps, MemberedTypeInv, MessagedTypeInv, OtherTypeInv
<1> QED
  BY <1>1, <1>3

-----------------------------------------------------------------------------
(* What a step changes                                                     *)

(* What a step of handler h leaves its own request and the others with.    *)
Others(h) == \A g \in Handlers \ {h} : req'[g] = req[g]

SameSubject(r, q) == /\ r.about = q.about /\ r.user = q.user /\ r.conv = q.conv
                     /\ r.msg = q.msg /\ r.event = q.event

SameData(r, q) == /\ r.add = q.add /\ r.role = q.role /\ r.on = q.on
                  /\ r.body = q.body /\ r.pinned = q.pinned /\ r.file = q.file

(* The request of each handler after a step of one.                        *)
LEMMA ReqOf == TypeInv => req \in [Handlers -> Req] /\ \A h \in Handlers : Shape(req[h]) /\ req[h] \in Req
BY DEF TypeInv, TypeOK

LEMMA CreateReq ==
  ASSUME TypeInv, NEW h \in Handlers, NEW c \in Convs, CreateConversation(h, c)
  PROVE  /\ Others(h) /\ req[h].at = "create"
         /\ req'[h].at = "add" /\ req'[h].conv = c /\ req'[h].about = req[h].about \cup {c}
         /\ req'[h].user = req[h].user /\ SameData(req'[h], req[h])
BY ReqOf DEF CreateConversation, Others, SameData, Req

LEMMA AddReq ==
  ASSUME TypeInv, NEW h \in Handlers, AddMember(h)
  PROVE  /\ Others(h) /\ req[h].at = "add"
         /\ \E x \in req[h].add :
              /\ x \in Users \X Roles
              /\ x[1] = req[h].user \/ req[h].user \notin {y[1] : y \in req[h].add}
              /\ \/ AddConversationMember(req[h].conv, x[1], x[2]) /\ UNCHANGED incident
                 \/ incident' = TRUE /\ UNCHANGED role
              /\ \/ req[h].add = {x} /\ ~req[h].on /\ req'[h] = Idle
                 \/ /\ ~(req[h].add = {x} /\ ~req[h].on)
                    /\ req'[h].at = "add" /\ SameSubject(req'[h], req[h])
                    /\ req'[h].add = req[h].add \ {x} /\ req'[h].on = req[h].on
                    /\ req'[h].file = req[h].file
<1>1. PICK x \in req[h].add :
        /\ x[1] = req[h].user \/ req[h].user \notin {y[1] : y \in req[h].add}
        /\ \/ AddConversationMember(req[h].conv, x[1], x[2]) /\ UNCHANGED incident
           \/ incident' = TRUE /\ UNCHANGED role
        /\ IF req[h].add = {x} /\ ~req[h].on THEN Answer(h)
           ELSE req' = [req EXCEPT ![h].add = req[h].add \ {x}]
  BY DEF AddMember
<1>2. x \in Users \X Roles /\ req[h].at = "add"
  BY ReqOf DEF Req, AddMember
<1>3. CASE req[h].add = {x} /\ ~req[h].on
  BY <1>1, <1>2, <1>3, AnswerStep DEF Others
<1>4. CASE ~(req[h].add = {x} /\ ~req[h].on)
  <2>1. req' = [req EXCEPT ![h].add = req[h].add \ {x}]
    BY <1>1, <1>4
  <2>2. /\ Others(h) /\ req'[h].at = "add" /\ SameSubject(req'[h], req[h])
        /\ req'[h].add = req[h].add \ {x} /\ req'[h].on = req[h].on /\ req'[h].file = req[h].file
    BY <1>2, <2>1, ReqOf DEF Others, SameSubject, Req
  <2> QED
    BY <1>1, <1>2, <1>4, <2>2
<1> QED
  BY <1>3, <1>4

LEMMA StoreReq ==
  ASSUME TypeInv, NEW h \in Handlers, NEW f \in Files, StoreFile(h, f)
  PROVE  /\ Others(h) /\ req[h].at = "store"
         /\ req'[h].at = (IF req[h].on THEN "photo" ELSE "post") /\ req'[h].file = f
         /\ SameSubject(req'[h], req[h])
BY ReqOf DEF StoreFile, Others, SameSubject, Req

LEMMA CopyReq ==
  ASSUME TypeInv, NEW h \in Handlers, NEW f \in Files, CopyFile(h, f)
  PROVE  /\ Others(h) /\ req[h].at = "copy" /\ files[f] = "free"
         /\ \/ /\ files[req[h].file] = "stored" /\ req'[h].file = f
               /\ files' = [files EXCEPT ![f] = "stored"] /\ incident' = incident
            \/ /\ files[req[h].file] # "stored" /\ req'[h].file = None
               /\ files' = files /\ incident' = incident
            \/ req'[h].file = None /\ incident' = TRUE /\ files' \in {files, [files EXCEPT ![f] = "stored"]}
         /\ req'[h].at = "post" /\ SameSubject(req'[h], req[h])
<1>1. PICK file : /\ req' = [req EXCEPT ![h].at = "post", ![h].file = file]
                  /\ \/ /\ files[req[h].file] = "stored" /\ file = f
                        /\ files' = [files EXCEPT ![f] = "stored"] /\ incident' = incident
                     \/ /\ files[req[h].file] # "stored" /\ file = None
                        /\ files' = files /\ incident' = incident
                     \/ file = None /\ incident' = TRUE /\ files' \in {files, [files EXCEPT ![f] = "stored"]}
  BY DEF CopyFile, CopyStoredFile
<1>2. Others(h) /\ req'[h].file = file /\ req'[h].at = "post" /\ SameSubject(req'[h], req[h])
  BY <1>1, ReqOf DEF Others, SameSubject, Req
<1> QED
  BY <1>1, <1>2 DEF CopyFile

LEMMA CreateMessageReq ==
  ASSUME TypeInv, NEW h \in Handlers, NEW m \in Messages, CreateMessage(h, m)
  PROVE  /\ Others(h) /\ req[h].at = "post"
         /\ req'[h].at = "reread" /\ req'[h].msg = m /\ req'[h].about = {m}
         /\ req'[h].user = req[h].user /\ req'[h].conv = req[h].conv /\ req'[h].event = req[h].event
         /\ SameData(req'[h], req[h])
BY ReqOf DEF CreateMessage, Others, SameData, Req

LEMMA GotoReq ==
  ASSUME TypeInv, NEW h \in Handlers, NEW at, Goto(h, at)
  PROVE  /\ Others(h) /\ req'[h].at = at
         /\ SameSubject(req'[h], req[h]) /\ SameData(req'[h], req[h])
BY ReqOf DEF Goto, Others, SameSubject, SameData, Req

LEMMA ReactReq ==
  ASSUME TypeInv, NEW h \in Handlers, React(h)
  PROVE  /\ Others(h) /\ req[h].at = "react"
         /\ \/ req'[h] = Idle /\ ~req[h].on /\ ~Exists(req[h].msg)
            \/ /\ req'[h].at = "tell" /\ (req'[h].on <=> ~req[h].on)
               /\ SameSubject(req'[h], req[h]) /\ req'[h].file = req[h].file
<1>1. CASE Answer(h) /\ ~(req[h].on \/ Exists(req[h].msg))
  BY <1>1, AnswerStep DEF React, Others
<1>2. CASE req' = [req EXCEPT ![h].at = "tell", ![h].on = ~@]
  BY <1>2, ReqOf DEF React, Others, SameSubject, Req
<1> QED
  BY <1>1, <1>2 DEF React

LEMMA RereadReq ==
  ASSUME TypeInv, NEW h \in Handlers, Reread(h)
  PROVE  /\ Others(h) /\ req[h].at = "reread"
         /\ \/ req'[h] = Idle /\ ~Exists(req[h].msg)
            \/ /\ Exists(req[h].msg)
               /\ req'[h].at = "tell" /\ SameSubject(req'[h], req[h]) /\ req'[h].file = req[h].file
               /\ req'[h].body = msg[req[h].msg].body /\ req'[h].pinned = msg[req[h].msg].pinned
<1>1. CASE Answer(h) /\ ~Exists(req[h].msg)
  BY <1>1, AnswerStep DEF Reread, Others
<1>2. CASE /\ req' = [req EXCEPT ![h].at = "tell", ![h].body = msg[req[h].msg].body,
                               ![h].pinned = msg[req[h].msg].pinned]
           /\ Exists(req[h].msg)
  BY <1>2, ReqOf DEF Reread, Others, SameSubject, Req
<1> QED
  BY <1>1, <1>2 DEF Reread

LEMMA AnswerReq ==
  ASSUME TypeInv, NEW h \in Handlers, Answer(h)
  PROVE  Others(h) /\ req'[h] = Idle
BY AnswerStep DEF Others

LEMMA BeginReq ==
  ASSUME TypeInv, NEW h \in Handlers, NEW r, Begin(h, r)
  PROVE  /\ Others(h) /\ req[h] = Idle /\ req'[h] = r
         /\ raced' = raced \cup (r.about \cap InFlight)
         /\ UNCHANGED <<kind, role, avatar, msg, reactions, files, view, missed, emptied, photos>>
BY ReqOf DEF Begin, Others, members, posts

LEMMA IdleFields ==
  /\ Idle.at = "idle" /\ Idle.about = {} /\ Idle.conv = None /\ Idle.msg = None /\ Idle.file = None
  /\ Idle.add = {}
BY DEF Idle

-----------------------------------------------------------------------------
(* Requests about the same thing                                           *)

(* What a request is about says at which steps it can be.                  *)
LEMMA AboutWhat ==
  ASSUME NEW r, Shape(r)
  PROVE  /\ \A c \in Convs : c \in r.about => r.conv = c /\ r.at \in {"add", "remove", "role"}
         /\ \A m \in Messages : m \in r.about => r.msg = m /\ r.at \in OnMessage
         /\ \A P \in Pairs : P \in r.about => r.at \in {"create", "add"}
         /\ r.at \in Places
<1>1. r.at \in Places
  BY DEF Shape, Req
<1>2. r.at = "idle" => r.about = {}
  BY IdleFields DEF Shape
<1>3. \/ r.at = "idle" \/ r.at = "create" \/ r.at = "add" \/ r.at \in {"remove", "role"}
      \/ r.at \in {"store", "copy", "post", "photo"} \/ r.at \in OnMessage
  BY <1>1 DEF Places, OnMessage
<1> QED
  BY <1>1, <1>2, <1>3, SubjectFacts DEF Shape

(* The first part of AloneInv.                                             *)
LEMMA AloneKept ==
  ASSUME Alone, NEW h \in Handlers, Others(h), req'[h].about \subseteq req[h].about, raced' = raced
  PROVE  Alone'
BY DEF Alone, Others

LEMMA AloneBegin ==
  ASSUME TypeInv, Alone, NEW h \in Handlers, NEW r, Begin(h, r)
  PROVE  Alone'
<1>1. Others(h) /\ req'[h] = r /\ raced' = raced \cup (r.about \cap InFlight)
  BY BeginReq
<1> SUFFICES ASSUME NEW x \in Subjects \ raced', NEW f \in Handlers, NEW g \in Handlers,
                    x \in req'[f].about, x \in req'[g].about
             PROVE  f = g
  BY DEF Alone
<1>2. ASSUME NEW k \in Handlers, k # h, x \in req'[k].about, x \in r.about PROVE FALSE
  BY <1>1, <1>2 DEF Others, InFlight
<1> QED
  BY <1>1, <1>2 DEF Alone, Others

LEMMA NextAlone ==
  ASSUME TypeInv, AloneInv, Next
  PROVE  Alone'
<1>0. Alone /\ (\A c \in Convs : FreshConv(c)) /\ (\A m \in Messages : FreshMessage(m))
  BY DEF AloneInv
<1>1. ASSUME NEW h \in Handlers, Requested(h) PROVE Alone'
  BY <1>0, <1>1, AloneBegin DEF Requested
<1>a. ASSUME NEW h \in Handlers, Answer(h), raced' = raced PROVE Alone'
  BY <1>0, <1>a, AnswerReq, IdleFields, AloneKept
<1>b. ASSUME NEW h \in Handlers, Others(h), SameSubject(req'[h], req[h]), raced' = raced PROVE Alone'
  BY <1>0, <1>b, AloneKept DEF SameSubject
<1>2. ASSUME NEW h \in Handlers, NEW c \in Convs, CreateConversation(h, c) PROVE Alone'
  <2>1. \A g \in Handlers : c \notin req[g].about
    <3>1. kind[c] = "none"
      BY <1>2 DEF CreateConversation
    <3> QED
      BY <3>1, <1>0, ReqOf, AboutWhat DEF FreshConv
  <2>2. Others(h) /\ req'[h].about = req[h].about \cup {c} /\ raced' = raced
    BY <1>2, CreateReq DEF CreateConversation, history
  <2> QED
    BY <1>0, <2>1, <2>2 DEF Alone, Others
<1>3. ASSUME NEW h \in Handlers, NEW m \in Messages, CreateMessage(h, m) PROVE Alone'
  <2>1. \A g \in Handlers : m \notin req[g].about
    <3>1. msg[m].is = "free"
      BY <1>3 DEF CreateMessage
    <3> QED
      BY <3>1, <1>0 DEF FreshMessage
  <2>2. Others(h) /\ req'[h].about = {m} /\ raced' = raced
    BY <1>3, CreateMessageReq DEF CreateMessage, history
  <2> QED
    BY <1>0, <2>1, <2>2 DEF Alone, Others
<1>4. ASSUME NEW h \in Handlers, Membered(h) PROVE Alone'
  <2>1. CASE AddMember(h)
    <3>1. Others(h) /\ (req'[h] = Idle \/ SameSubject(req'[h], req[h])) /\ raced' = raced
      BY <2>1, AddReq DEF AddMember
    <3> QED
      BY <3>1, <1>0, <1>b, IdleFields, AloneKept
  <2>2. CASE Publish(h)
    BY <2>2, <1>a DEF Publish
  <2>3. CASE RemoveConversationMember(h)
    BY <2>3, <1>a DEF RemoveConversationMember
  <2>4. CASE SetConversationMemberRole(h)
    BY <2>4, <1>a DEF SetConversationMemberRole, history
  <2> QED
    BY <1>2, <1>4, <2>1, <2>2, <2>3, <2>4 DEF Membered
<1>5. ASSUME NEW h \in Handlers, Messaged(h) PROVE Alone'
  <2>1. CASE \E f \in Files : StoreFile(h, f)
    BY <2>1, <1>b, StoreReq DEF StoreFile
  <2>2. CASE \E f \in Files : CopyFile(h, f)
    BY <2>2, <1>b, CopyReq DEF CopyFile
  <2>3. CASE SetConversationAvatar(h) \/ Broadcast(h)
    BY <2>3, <1>a DEF SetConversationAvatar, Broadcast, history
  <2>4. CASE UpdateMessageBody(h) \/ SetMessagePinned(h) \/ DeleteMessage(h) \/ RemoveFile(h)
    <3>1. (\E at : Goto(h, at)) /\ raced' = raced
      BY <2>4 DEF UpdateMessageBody, SetMessagePinned, DeleteMessage, RemoveFile, history
    <3> QED
      BY <3>1, <1>b, GotoReq
  <2>5. CASE React(h)
    <3>1. Others(h) /\ (req'[h] = Idle \/ SameSubject(req'[h], req[h])) /\ raced' = raced
      <4>1. raced' = raced
        BY <2>5 DEF React, history
      <4> QED
        BY <2>5, <4>1, ReactReq
    <3> QED
      BY <3>1, <1>0, <1>b, IdleFields, AloneKept
  <2>6. CASE Reread(h)
    <3>1. Others(h) /\ (req'[h] = Idle \/ SameSubject(req'[h], req[h])) /\ raced' = raced
      <4>1. raced' = raced
        BY <2>6 DEF Reread, history
      <4> QED
        BY <2>6, <4>1, RereadReq
    <3> QED
      BY <3>1, <1>0, <1>b, IdleFields, AloneKept
  <2> QED
    BY <1>3, <1>5, <2>1, <2>2, <2>3, <2>4, <2>5, <2>6 DEF Messaged
<1>6. ASSUME NEW h \in Handlers, Fail(h) PROVE Alone'
  BY <1>6, <1>a DEF Fail
<1>7. ASSUME NEW u \in Users, NEW c \in Convs, OpenConversation(u, c) PROVE Alone'
  BY <1>0, <1>7 DEF OpenConversation, Alone
<1> QED
  BY <1>1, <1>4, <1>5, <1>6, <1>7, Steps

(* The second part: of a conversation not made yet.                        *)
LEMMA RequestedConv ==
  ASSUME TypeInv, NEW c \in Convs, FreshConv(c), kind[c] = "none", NEW r, Shape(r), Asked(r)
  PROVE  r.conv # c
<1>1. (\A u \in Users : role[c][u] = None) /\ (\A m \in Messages : msg[m].conv # c)
  BY DEF FreshConv
<1>2. r.at = "create" => r.conv = None
  BY DEF Shape
<1>3. r.at \in OnMessage => r.msg \in Messages
  BY DEF Shape
<1>4. r.at \in {"add", "remove", "role"} => r.user \in Users \/ r.at = "add"
  BY DEF Shape
<1>5. ~HasAdmin(c) /\ \A u \in Users : ~IsMember(c, u)
  BY <1>1 DEF HasAdmin, IsMember
<1> QED
  BY <1>1, <1>2, <1>3, <1>4, <1>5 DEF Asked, OnMessage

LEMMA NextFreshConv ==
  ASSUME TypeInv, AloneInv, Next, NEW c \in Convs
  PROVE  FreshConv(c)'
<1>0. FreshConv(c) /\ Stored /\ req \in [Handlers -> Req] /\ \A h \in Handlers : Shape(req[h])
  BY ReqOf, Typed DEF AloneInv
<1> SUFFICES ASSUME kind'[c] = "none"
             PROVE  /\ \A u \in Users : role'[c][u] = None
                    /\ \A m \in Messages : msg'[m].conv # c
                    /\ \A h \in Handlers : req'[h].conv # c
  BY DEF FreshConv
<1> DEFINE Goal == /\ \A u \in Users : role'[c][u] = None
                   /\ \A m \in Messages : msg'[m].conv # c
                   /\ \A h \in Handlers : req'[h].conv # c
<1>k. ASSUME kind[c] = "none"
      PROVE  /\ \A u \in Users : role[c][u] = None
             /\ \A m \in Messages : msg[m].conv # c
             /\ \A h \in Handlers : req[h].conv # c
  BY <1>0, <1>k DEF FreshConv
<1>1. ASSUME NEW h \in Handlers, Requested(h) PROVE Goal
  <2>1. PICK r : Shape(r) /\ Begin(h, r) /\ Asked(r)
    BY <1>1 DEF Requested
  <2>2. kind[c] = "none" /\ role' = role /\ msg' = msg /\ Others(h) /\ req'[h] = r
    BY <2>1, BeginReq
  <2>3. r.conv # c
    BY <1>0, <2>1, <2>2, RequestedConv
  <2> QED
    BY <1>k, <2>2, <2>3 DEF Others
<1>a. ASSUME NEW h \in Handlers, Answer(h), kind' = kind, msg' = msg,
             \A u \in Users : role'[c][u] = role[c][u]
      PROVE  Goal
  BY <1>a, <1>k, AnswerReq, IdleFields DEF Others
<1>b. ASSUME NEW h \in Handlers, Others(h), req'[h].conv = req[h].conv, kind' = kind, role' = role,
             \A m \in Messages : msg'[m].conv \in {msg[m].conv, None, req[h].conv}
      PROVE  Goal
  BY <1>b, <1>k DEF Others
<1>2. ASSUME NEW h \in Handlers, NEW d \in Convs, CreateConversation(h, d) PROVE Goal
  <2>1. kind' = [kind EXCEPT ![d] = IF req[h].about = {} THEN "group" ELSE "dm"]
        /\ role' = role /\ msg' = msg
    BY <1>2 DEF CreateConversation, posts
  <2>2. c # d /\ kind[c] = "none"
    BY <1>0, <2>1 DEF Stored
  <2>3. Others(h) /\ req'[h].conv = d
    BY <1>2, CreateReq
  <2> QED
    BY <1>k, <2>1, <2>2, <2>3 DEF Others
<1>3. ASSUME NEW h \in Handlers, Membered(h) PROVE Goal
  <2>1. CASE AddMember(h)
    <3>1. kind' = kind /\ msg' = msg
      BY <2>1 DEF AddMember, posts
    <3>2. Others(h) /\ (req'[h] = Idle \/ req'[h].conv = req[h].conv)
      BY <2>1, AddReq DEF SameSubject
    <3>3. PICK x : role' = role \/ AddConversationMember(req[h].conv, x[1], x[2])
      BY <2>1, AddReq
    <3>4. c # req[h].conv
      BY <1>k, <3>1
    <3>5. \A u \in Users : role'[c][u] = role[c][u]
      BY <1>0, <3>3, <3>4 DEF AddConversationMember, Stored
    <3> QED
      BY <1>k, <3>1, <3>2, <3>5, IdleFields DEF Others
  <2>2. CASE Publish(h)
    <3>1. c # req[h].conv => kind'[c] = kind[c]
      BY <1>0, <2>2 DEF Publish, SetConversationVisibility, Stored
    <3>2. kind[c] = "none"
      BY <1>0, <2>2, <3>1 DEF Publish, SetConversationVisibility, Stored
    <3>3. role' = role /\ msg' = msg /\ Answer(h)
      BY <2>2 DEF Publish, posts
    <3> QED
      BY <1>k, <3>2, <3>3, AnswerReq, IdleFields DEF Others
  <2>3. CASE RemoveConversationMember(h)
    <3>1. kind' = kind /\ msg' = msg /\ Answer(h)
      BY <2>3 DEF RemoveConversationMember, posts
    <3>2. \A u \in Users : role'[c][u] = role[c][u]
      BY <1>0, <1>k, <2>3, <3>1 DEF RemoveConversationMember, Stored
    <3> QED
      BY <1>a, <3>1, <3>2
  <2>4. CASE SetConversationMemberRole(h)
    <3>1. kind' = kind /\ msg' = msg /\ Answer(h)
      BY <2>4 DEF SetConversationMemberRole, posts
    <3>2. \A u \in Users : role'[c][u] = role[c][u]
      BY <1>0, <1>k, <2>4, <3>1 DEF SetConversationMemberRole, Stored
    <3> QED
      BY <1>a, <3>1, <3>2
  <2> QED
    BY <1>2, <1>3, <2>1, <2>2, <2>3, <2>4 DEF Membered
<1>4. ASSUME NEW h \in Handlers, Messaged(h) PROVE Goal
  <2>0. kind' = kind /\ role' = role
    BY <1>4 DEF Messaged, StoreFile, CopyFile, CreateMessage, SetConversationAvatar,
         UpdateMessageBody, SetMessagePinned, React, DeleteMessage, RemoveFile, Reread, Broadcast, members
  <2>1. CASE \E f \in Files : StoreFile(h, f)
    <3>1. Others(h) /\ SameSubject(req'[h], req[h])
      BY <2>1, StoreReq
    <3>2. msg' = msg
      BY <2>1 DEF StoreFile, posts
    <3> QED
      BY <2>0, <3>1, <3>2, <1>b DEF SameSubject
  <2>2. CASE \E f \in Files : CopyFile(h, f)
    <3>1. Others(h) /\ SameSubject(req'[h], req[h])
      BY <2>2, CopyReq
    <3>2. msg' = msg
      BY <2>2 DEF CopyFile, posts
    <3> QED
      BY <2>0, <3>1, <3>2, <1>b DEF SameSubject
  <2>3. CASE SetConversationAvatar(h) \/ Broadcast(h)
    BY <2>0, <2>3, <1>a DEF SetConversationAvatar, Broadcast, posts
  <2>4. CASE UpdateMessageBody(h) \/ SetMessagePinned(h) \/ DeleteMessage(h) \/ RemoveFile(h)
    <3>1. \E at : Goto(h, at)
      BY <2>4 DEF UpdateMessageBody, SetMessagePinned, DeleteMessage, RemoveFile
    <3>2. \A m \in Messages : msg'[m].conv \in {msg[m].conv, None}
      <4>1. NoMessage("deleted").conv = None /\ msg \in [Messages -> Message]
        BY <1>0 DEF NoMessage, Stored
      <4>2. \/ msg' = msg
            \/ \E b : \/ msg' = [msg EXCEPT ![req[h].msg].body = b]
                     \/ msg' = [msg EXCEPT ![req[h].msg].pinned = b]
            \/ msg' = [msg EXCEPT ![req[h].msg] = NoMessage("deleted")]
        BY <2>4 DEF UpdateMessageBody, SetMessagePinned, DeleteMessage, RemoveFile, posts
      <4> DEFINE k == req[h].msg
      <4>3. ASSUME NEW b, NEW n \in Messages, msg' = [msg EXCEPT ![k].body = b]
            PROVE  msg'[n].conv = msg[n].conv
        BY <4>1, <4>3 DEF Message
      <4>4. ASSUME NEW b, NEW n \in Messages, msg' = [msg EXCEPT ![k].pinned = b]
            PROVE  msg'[n].conv = msg[n].conv
        BY <4>1, <4>4 DEF Message
      <4>5. ASSUME NEW n \in Messages, msg' = [msg EXCEPT ![k] = NoMessage("deleted")]
            PROVE  msg'[n].conv \in {msg[n].conv, None}
        BY <4>1, <4>5
      <4> QED
        BY <4>2, <4>3, <4>4, <4>5
    <3> QED
      BY <2>0, <3>1, <3>2, <1>b, GotoReq DEF SameSubject
  <2>5. CASE React(h) \/ Reread(h)
    <3>1. Others(h) /\ (req'[h] = Idle \/ SameSubject(req'[h], req[h]))
      BY <2>5, ReactReq, RereadReq
    <3>2. msg' = msg
      BY <2>5 DEF React, Reread, posts
    <3> QED
      BY <1>k, <2>0, <3>1, <3>2, IdleFields DEF Others, SameSubject
  <2>6. ASSUME NEW m \in Messages, CreateMessage(h, m) PROVE Goal
    <3>1. msg'[m].conv = req[h].conv /\ \A n \in Messages \ {m} : msg'[n] = msg[n]
      BY <1>0, <2>6 DEF CreateMessage, Stored
    <3>2. Others(h) /\ req'[h].conv = req[h].conv
      BY <2>6, CreateMessageReq
    <3> QED
      BY <2>0, <3>1, <3>2, <1>b
  <2> QED
    BY <1>4, <2>1, <2>2, <2>3, <2>4, <2>5, <2>6, Zenon DEF Messaged
<1>5. ASSUME NEW h \in Handlers, Fail(h) PROVE Goal
  BY <1>5, <1>a DEF Fail, members, posts
<1>6. ASSUME NEW u \in Users, NEW d \in Convs, OpenConversation(u, d) PROVE Goal
  BY <1>k, <1>6 DEF OpenConversation, members, posts
<1> QED
  BY <1>1, <1>3, <1>4, <1>5, <1>6, Steps

(* The third part: of a message not inserted yet.                          *)
LEMMA RequestedMessage ==
  ASSUME TypeInv, NEW m \in Messages, msg[m].is = "free", NEW r, Shape(r), Asked(r)
  PROVE  m \notin r.about
<1>1. m \in r.about => r.msg = m /\ r.at \in OnMessage
  BY AboutWhat
<1> QED
  BY <1>1 DEF Asked, Exists

Unseen(m) == /\ \A u \in Users : <<m, u>> \notin reactions
             /\ \A u \in Users : /\ \A s \in view[u].msgs : s.id # m
                                 /\ \A v \in Users : <<m, v>> \notin view[u].reactions

(* A broadcast shows nothing of other messages.                            *)
LEMMA OnEventOther ==
  ASSUME NEW v \in View, NEW e \in Req, NEW m \in Messages, m # e.msg
  PROVE  /\ {s \in OnEvent(v, e).msgs : s.id = m} = {s \in v.msgs : s.id = m}
         /\ \A w : <<m, w>> \in OnEvent(v, e).reactions <=> <<m, w>> \in v.reactions
         /\ OnEvent(v, e).conv = v.conv
<1> DEFINE entry == [id |-> e.msg, body |-> e.body, pinned |-> e.pinned]
<1>1. entry.id = e.msg
  OBVIOUS
<1>6. e.event \in Events /\ v = [conv |-> v.conv, msgs |-> v.msgs, reactions |-> v.reactions]
  BY DEF Req, View
<1> HIDE DEF entry
<1>7. CASE e.event = "message"
  <2>1. OnEvent(v, e) = [v EXCEPT !.msgs = IF \E s \in v.msgs : s.id = e.msg THEN v.msgs ELSE v.msgs \cup {entry}]
    BY <1>7 DEF OnEvent, entry, View
  <2> QED
    BY <1>1, <1>6, <2>1
<1>8. CASE e.event = "message_deleted"
  <2>1. OnEvent(v, e) = [v EXCEPT !.msgs = {s \in v.msgs : s.id # e.msg}]
    BY <1>8 DEF OnEvent, View
  <2> QED
    BY <1>6, <2>1
<1>9. CASE e.event = "message_edited"
  <2> DEFINE S == {IF s.id = e.msg THEN entry ELSE s : s \in v.msgs}
  <2>1. OnEvent(v, e) = [v EXCEPT !.msgs = S]
    BY <1>9 DEF OnEvent, View, entry
  <2>2. {s \in S : s.id = m} = {s \in v.msgs : s.id = m}
    BY <1>1
  <2> HIDE DEF S
  <2> QED
    BY <1>6, <2>1, <2>2
<1>10. CASE e.event = "pin"
  <2> DEFINE S == {IF s.id = e.msg THEN [s EXCEPT !.pinned = e.pinned] ELSE s : s \in v.msgs}
  <2>1. OnEvent(v, e) = [v EXCEPT !.msgs = S]
    BY <1>10 DEF OnEvent, View
  <2>2. \A s \in v.msgs : [s EXCEPT !.pinned = e.pinned].id = s.id
    BY DEF View, Shown
  <2>3. {s \in S : s.id = m} = {s \in v.msgs : s.id = m}
    BY <2>2
  <2> HIDE DEF S
  <2> QED
    BY <1>6, <2>1, <2>3
<1>11. CASE e.event = "reaction"
  <2>1. OnEvent(v, e) = [v EXCEPT !.reactions = IF e.on THEN v.reactions \cup {<<e.msg, e.user>>}
                                               ELSE v.reactions \ {<<e.msg, e.user>>}]
    BY <1>11 DEF OnEvent, WithReaction, View
  <2> QED
    BY <1>6, <2>1
<1> QED
  BY <1>6, <1>7, <1>8, <1>9, <1>10, <1>11 DEF Events

(* What the statements that write a message leave its row and the others   *)
(* with.                                                                   *)
LEMMA CreateRow ==
  ASSUME TypeInv, NEW h \in Handlers, NEW m \in Messages, CreateMessage(h, m)
  PROVE  /\ msg[m].is = "free" /\ \A n \in Messages \ {m} : msg'[n] = msg[n]
         /\ msg'[m].is = "row" /\ msg'[m].conv = req[h].conv /\ msg'[m].body = req[h].body
         /\ msg'[m].pinned = FALSE /\ msg'[m].file = req[h].file
BY Typed DEF Stored, CreateMessage

LEMMA EditRow ==
  ASSUME TypeInv, NEW h \in Handlers, UpdateMessageBody(h)
  PROVE  /\ req[h].msg \in Messages /\ req[h].at = "edit" /\ Goto(h, "reread")
         /\ \A n \in Messages \ {req[h].msg} : msg'[n] = msg[n]
         /\ \A n \in Messages : /\ msg'[n].is = msg[n].is /\ msg'[n].conv = msg[n].conv
                                /\ msg'[n].pinned = msg[n].pinned /\ msg'[n].file = msg[n].file
<1> DEFINE k == req[h].msg
<1>1. req[h].at = "edit" /\ Goto(h, "reread") /\ Shape(req[h])
  BY ReqOf DEF UpdateMessageBody
<1>2. k \in Messages /\ msg \in [Messages -> Message]
  BY <1>1, Typed DEF Shape, OnMessage, Stored
<1> DEFINE b == IF Exists(k) THEN req[h].body ELSE msg[k].body
           row == [msg[k] EXCEPT !.body = b]
<1>3. msg' = [msg EXCEPT ![k] = row]
  BY <1>2 DEF UpdateMessageBody
<1> HIDE DEF b
<1>4. row.is = msg[k].is /\ row.conv = msg[k].conv /\ row.pinned = msg[k].pinned /\ row.file = msg[k].file
  BY <1>2 DEF Message
<1> HIDE DEF row, k
<1>5. \A n \in Messages : msg'[n] = IF n = k THEN row ELSE msg[n]
  BY <1>2, <1>3
<1>6. \A n \in Messages : /\ msg'[n].is = msg[n].is /\ msg'[n].conv = msg[n].conv
                          /\ msg'[n].pinned = msg[n].pinned /\ msg'[n].file = msg[n].file
  BY <1>4, <1>5
<1> QED
  BY <1>1, <1>2, <1>5, <1>6 DEF k

LEMMA PinRow ==
  ASSUME TypeInv, NEW h \in Handlers, SetMessagePinned(h)
  PROVE  /\ req[h].msg \in Messages /\ req[h].at = "pin" /\ Goto(h, "tell")
         /\ \A n \in Messages \ {req[h].msg} : msg'[n] = msg[n]
         /\ \A n \in Messages : /\ msg'[n].is = msg[n].is /\ msg'[n].conv = msg[n].conv
                                /\ msg'[n].body = msg[n].body /\ msg'[n].file = msg[n].file
         /\ Exists(req[h].msg) => msg'[req[h].msg].pinned = req[h].pinned
<1> DEFINE k == req[h].msg
<1>1. req[h].at = "pin" /\ Goto(h, "tell") /\ Shape(req[h])
  BY ReqOf DEF SetMessagePinned
<1>2. k \in Messages /\ msg \in [Messages -> Message]
  BY <1>1, Typed DEF Shape, OnMessage, Stored
<1> DEFINE b == IF Exists(k) THEN req[h].pinned ELSE msg[k].pinned
           row == [msg[k] EXCEPT !.pinned = b]
<1>3. msg' = [msg EXCEPT ![k] = row] /\ (Exists(k) => b = req[h].pinned)
  BY <1>2 DEF SetMessagePinned
<1> HIDE DEF b
<1>4. row.is = msg[k].is /\ row.conv = msg[k].conv /\ row.body = msg[k].body /\ row.file = msg[k].file
      /\ row.pinned = b
  BY <1>2 DEF Message
<1> HIDE DEF row, k
<1>5. \A n \in Messages : msg'[n] = IF n = k THEN row ELSE msg[n]
  BY <1>2, <1>3
<1>6. \A n \in Messages : /\ msg'[n].is = msg[n].is /\ msg'[n].conv = msg[n].conv
                          /\ msg'[n].body = msg[n].body /\ msg'[n].file = msg[n].file
  BY <1>4, <1>5
<1>7. Exists(k) => msg'[k].pinned = req[h].pinned
  BY <1>2, <1>3, <1>4, <1>5
<1> QED
  BY <1>1, <1>2, <1>5, <1>6, <1>7 DEF k

LEMMA DeleteRow ==
  ASSUME TypeInv, NEW h \in Handlers, DeleteMessage(h)
  PROVE  /\ req[h].msg \in Messages /\ req[h].at = "delete"
         /\ Goto(h, IF req[h].file = None THEN "tell" ELSE "unlink")
         /\ \A n \in Messages \ {req[h].msg} : msg'[n] = msg[n]
         /\ msg'[req[h].msg].is = "deleted" /\ msg'[req[h].msg].conv = None /\ msg'[req[h].msg].file = None
         /\ reactions' = {x \in reactions : x[1] # req[h].msg}
<1>1. req[h].at = "delete" /\ Shape(req[h])
  BY ReqOf DEF DeleteMessage
<1>2. req[h].msg \in Messages /\ msg \in [Messages -> Message]
  BY <1>1, Typed DEF Shape, OnMessage, Stored
<1> QED
  BY <1>1, <1>2 DEF DeleteMessage, NoMessage

LEMMA OpenViews ==
  ASSUME TypeInv, NEW u \in Users, NEW c \in Convs, OpenConversation(u, c)
  PROVE  /\ \A w \in Users \ {u} : view'[w] = view[w]
         /\ view'[u].conv = c
         /\ \A m \in Messages : {s \in view'[u].msgs : s.id = m} =
                                  IF Exists(m) /\ msg[m].conv = c THEN {ShownAs(m)} ELSE {}
         /\ \A m \in Messages, v \in Users :
              <<m, v>> \in view'[u].reactions <=> <<m, v>> \in reactions /\ msg[m].conv = c
<1>1. view \in [Users -> View]
  BY Typed DEF Stored
<1> DEFINE new == [conv |-> c, msgs |-> listMessages(c), reactions |-> ListReactions(c)]
<1>2. view' = [view EXCEPT ![u] = new]
  BY DEF OpenConversation
<1>3. \A m \in Messages : {s \in listMessages(c) : s.id = m} =
                            IF Exists(m) /\ msg[m].conv = c THEN {ShownAs(m)} ELSE {}
  BY DEF listMessages, ListMessages, ShownAs
<1>4. \A m \in Messages, v \in Users : <<m, v>> \in ListReactions(c) <=> <<m, v>> \in reactions /\ msg[m].conv = c
  BY DEF ListReactions
<1>5. (\A w \in Users \ {u} : view'[w] = view[w]) /\ view'[u] = new
  BY <1>1, <1>2
<1>6. new.conv = c /\ new.msgs = listMessages(c) /\ new.reactions = ListReactions(c)
  OBVIOUS
<1> HIDE DEF new
<1> QED
  BY <1>3, <1>4, <1>5, <1>6

LEMMA NextFreshMessage ==
  ASSUME TypeInv, AloneInv, Next, NEW m \in Messages
  PROVE  FreshMessage(m)'
<1>0. FreshMessage(m) /\ Stored /\ req \in [Handlers -> Req] /\ \A h \in Handlers : Shape(req[h])
  BY ReqOf, Typed DEF AloneInv
<1> SUFFICES ASSUME msg'[m].is = "free"
             PROVE  /\ \A h \in Handlers : m \notin req'[h].about
                    /\ Unseen(m)'
  BY DEF FreshMessage, Unseen
<1> DEFINE Goal == /\ \A h \in Handlers : m \notin req'[h].about
                   /\ Unseen(m)'
<1>k. ASSUME msg[m].is = "free"
      PROVE  (\A h \in Handlers : m \notin req[h].about) /\ Unseen(m)
  BY <1>0, <1>k DEF FreshMessage, Unseen
<1>s. ASSUME msg[m].is = "free", reactions' = reactions, view' = view
      PROVE  Unseen(m)'
  BY <1>k, <1>s DEF Unseen
<1>1. ASSUME NEW h \in Handlers, Requested(h) PROVE Goal
  <2>1. PICK r : Shape(r) /\ Begin(h, r) /\ Asked(r)
    BY <1>1 DEF Requested
  <2>2. msg' = msg /\ reactions' = reactions /\ view' = view /\ Others(h) /\ req'[h] = r
    BY <2>1, BeginReq
  <2>3. m \notin r.about
    BY <2>1, <2>2, RequestedMessage
  <2> QED
    BY <1>k, <1>s, <2>2, <2>3 DEF Others
<1>2. ASSUME NEW h \in Handlers, Membered(h) PROVE Goal
  <2>1. msg' = msg /\ reactions' = reactions /\ view' = view
    BY <1>2 DEF Membered, CreateConversation, AddMember, Publish, RemoveConversationMember,
         SetConversationMemberRole, posts
  <2>2. Others(h) /\ \/ req'[h] = Idle
                     \/ \E c \in Convs : req'[h].about = req[h].about \cup {c}
                     \/ req'[h].about = req[h].about
    BY <1>2, CreateReq, AddReq, AnswerReq
       DEF Membered, Publish, RemoveConversationMember, SetConversationMemberRole, SameSubject
  <2> QED
    BY <1>k, <1>s, <2>1, <2>2, IdleFields, SubjectFacts DEF Others
<1>3. ASSUME NEW h \in Handlers, Messaged(h) PROVE Goal
  <2>a. ASSUME msg[m].is = "free", req[h].at \in OnMessage PROVE req[h].msg # m
    BY <1>0, <1>k, <2>a DEF Shape
  <2>b. ASSUME Others(h), req'[h].about = {} \/ req'[h].about = req[h].about, msg[m].is = "free"
        PROVE  \A g \in Handlers : m \notin req'[g].about
    BY <1>k, <2>b DEF Others
  <2>1. ASSUME NEW f \in Files, StoreFile(h, f) \/ CopyFile(h, f) PROVE Goal
    <3>1. Others(h) /\ req'[h].about = req[h].about
      BY <2>1, StoreReq, CopyReq DEF SameSubject
    <3>2. msg' = msg /\ reactions' = reactions /\ view' = view
      BY <2>1 DEF StoreFile, CopyFile, posts
    <3> QED
      BY <1>s, <2>b, <3>1, <3>2
  <2>2. ASSUME NEW n \in Messages, CreateMessage(h, n) PROVE Goal
    <3>1. m # n /\ msg[m].is = "free"
      BY <2>2, CreateRow
    <3>2. Others(h) /\ req'[h].about = {n}
      BY <2>2, CreateMessageReq
    <3>3. reactions' = reactions /\ view' = view
      BY <2>2 DEF CreateMessage
    <3> QED
      BY <1>k, <1>s, <3>1, <3>2, <3>3 DEF Others
  <2>3. CASE SetConversationAvatar(h) \/ RemoveFile(h) \/ Reread(h)
    <3>1. msg' = msg /\ reactions' = reactions /\ view' = view
      BY <2>3 DEF SetConversationAvatar, RemoveFile, Reread, posts
    <3>2. Others(h) /\ (req'[h].about = {} \/ req'[h].about = req[h].about)
      BY <2>3, AnswerReq, GotoReq, RereadReq, IdleFields DEF SetConversationAvatar, RemoveFile, SameSubject
    <3> QED
      BY <1>s, <2>b, <3>1, <3>2
  <2>4. CASE UpdateMessageBody(h) \/ SetMessagePinned(h)
    <3>1. msg[m].is = "free" /\ reactions' = reactions /\ view' = view
      BY <2>4, EditRow, PinRow DEF UpdateMessageBody, SetMessagePinned
    <3>2. Others(h) /\ req'[h].about = req[h].about
      BY <2>4, EditRow, PinRow, GotoReq DEF SameSubject
    <3> QED
      BY <1>s, <2>b, <3>1, <3>2
  <2>5. CASE DeleteMessage(h)
    <3>1. msg[m].is = "free" /\ reactions' \subseteq reactions /\ view' = view
      BY <2>5, DeleteRow DEF DeleteMessage
    <3>2. Others(h) /\ req'[h].about = req[h].about
      BY <2>5, DeleteRow, GotoReq DEF SameSubject
    <3> QED
      BY <1>k, <2>b, <3>1, <3>2 DEF Unseen
  <2>6. CASE React(h)
    <3>1. msg[m].is = "free" /\ view' = view /\ req[h].at = "react"
      BY <2>6 DEF React
    <3>2. req[h].msg # m
      BY <2>a, <3>1 DEF OnMessage
    <3>3. reactions' \subseteq reactions \cup {<<req[h].msg, req[h].user>>}
      BY <2>6 DEF React, AddReaction, RemoveReaction
    <3>4. Others(h) /\ (req'[h].about = {} \/ req'[h].about = req[h].about)
      BY <2>6, ReactReq, IdleFields DEF SameSubject
    <3> QED
      BY <1>k, <2>b, <3>1, <3>2, <3>3, <3>4 DEF Unseen
  <2>7. CASE Broadcast(h)
    <3>1. msg[m].is = "free" /\ reactions' = reactions /\ req[h].at = "tell" /\ Answer(h)
      BY <2>7 DEF Broadcast, posts
    <3>2. req[h].msg # m
      BY <2>a, <3>1 DEF OnMessage
    <3>3. \A u \in Users : view'[u] = view[u] \/ view'[u] = OnEvent(view[u], req[h])
      BY <2>7 DEF Broadcast
    <3>4. \A u \in Users : view[u] \in View
      BY <1>0 DEF Stored
    <3>5. \A u \in Users : /\ \A s \in view'[u].msgs : s.id # m
                           /\ \A v \in Users : <<m, v>> \notin view'[u].reactions
      <4> TAKE u \in Users
      <4>1. (\A s \in view[u].msgs : s.id # m) /\ \A v \in Users : <<m, v>> \notin view[u].reactions
        BY <1>k, <3>1 DEF Unseen
      <4>2. /\ {s \in OnEvent(view[u], req[h]).msgs : s.id = m} = {s \in view[u].msgs : s.id = m}
            /\ \A w : <<m, w>> \in OnEvent(view[u], req[h]).reactions <=> <<m, w>> \in view[u].reactions
        BY <1>0, <3>2, <3>4, ReqOf, OnEventOther
      <4> QED
        BY <3>3, <4>1, <4>2
    <3> QED
      BY <1>k, <2>b, <3>1, <3>5, AnswerReq, IdleFields DEF Unseen
  <2> QED
    BY <1>3, <2>1, <2>2, <2>3, <2>4, <2>5, <2>6, <2>7 DEF Messaged
<1>4. ASSUME NEW h \in Handlers, Fail(h) PROVE Goal
  <2>1. msg' = msg /\ reactions' = reactions /\ view' = view /\ Answer(h)
    BY <1>4 DEF Fail, posts
  <2> QED
    BY <1>k, <1>s, <2>1, AnswerReq, IdleFields DEF Others
<1>5. ASSUME NEW u \in Users, NEW c \in Convs, OpenConversation(u, c) PROVE Goal
  <2>1. msg' = msg /\ reactions' = reactions /\ req' = req
    BY <1>5 DEF OpenConversation, posts
  <2>2. \A s \in view'[u].msgs : s.id # m
    BY <1>5, <2>1, OpenViews DEF Exists
  <2>3. \A v \in Users : <<m, v>> \notin view'[u].reactions
    BY <1>5, <1>k, <2>1, OpenViews DEF Unseen
  <2> QED
    BY <1>5, <1>k, <2>1, <2>2, <2>3, OpenViews DEF Unseen
<1> QED
  BY <1>1, <1>2, <1>3, <1>4, <1>5, Steps

LEMMA InitAloneInv == Init => AloneInv
<1> SUFFICES ASSUME Init PROVE AloneInv
  OBVIOUS
<1>1. /\ req = [h \in Handlers |-> Idle]
      /\ msg = [m \in Messages |-> NoMessage("free")]
      /\ reactions = {}
      /\ view = [u \in Users |-> [conv |-> None, msgs |-> {}, reactions |-> {}]]
      /\ role \in [Convs -> [Users -> Roles \cup {None}]]
  BY Zenon DEF Init
<1>2. ASSUME NEW c \in Convs, kind[c] = "none" PROVE \A u \in Users : role[c][u] = None
  <2>1. ConversationMemberIDs(c) = {}
    BY <1>2 DEF Init
  <2> QED
    BY <2>1 DEF ConversationMemberIDs
<1>3. \A h \in Handlers : req[h].conv = None /\ req[h].about = {}
  BY <1>1, IdleFields
<1>4. \A m \in Messages : msg[m].conv = None
  BY <1>1 DEF NoMessage
<1>5. \A c \in Convs : FreshConv(c)
  BY <1>2, <1>3, <1>4 DEF FreshConv
<1>6. \A m \in Messages : FreshMessage(m)
  BY <1>1, <1>3 DEF FreshMessage
<1>7. Alone
  BY <1>3 DEF Alone
<1> QED
  BY <1>5, <1>6, <1>7 DEF AloneInv

LEMMA NextAloneInv == TypeInv /\ AloneInv /\ [Next]_vars => AloneInv'
<1>1. TypeInv /\ AloneInv /\ Next => AloneInv'
  BY NextAlone, NextFreshConv, NextFreshMessage DEF AloneInv
<1>2. AloneInv /\ UNCHANGED vars => AloneInv'
  BY DEF AloneInv, vars, members, posts, history, FreshConv, FreshMessage, Alone
<1> QED
  BY <1>1, <1>2

-----------------------------------------------------------------------------
(* Direct messages                                                         *)

AboutMembers == {"create", "add", "remove", "role"}

(* The steps of messages leave the members and the requests about them     *)
(* alone.                                                                  *)
LEMMA MessagedFrame ==
  ASSUME TypeInv, NEW h \in Handlers, Messaged(h)
  PROVE  /\ Others(h) /\ req[h].at \notin AboutMembers /\ req'[h].at \notin AboutMembers
         /\ UNCHANGED <<kind, role, raced, emptied, missed>>
         /\ req[h].at # "idle" /\ (incident' = incident \/ incident' = TRUE)
<1>1. ASSUME NEW f \in Files, StoreFile(h, f) \/ CopyFile(h, f)
      PROVE  Others(h) /\ req[h].at \in {"store", "copy"} /\ req'[h].at \in {"photo", "post"}
  BY <1>1, StoreReq, CopyReq
<1>2. ASSUME NEW m \in Messages, CreateMessage(h, m)
      PROVE  Others(h) /\ req[h].at = "post" /\ req'[h].at = "reread"
  BY <1>2, CreateMessageReq
<1>3. ASSUME SetConversationAvatar(h) \/ Broadcast(h)
      PROVE  Others(h) /\ req[h].at \in {"photo", "tell"} /\ req'[h].at = "idle"
  BY <1>3, AnswerReq, IdleFields DEF SetConversationAvatar, Broadcast
<1>4. ASSUME UpdateMessageBody(h) \/ SetMessagePinned(h) \/ DeleteMessage(h) \/ RemoveFile(h)
      PROVE  Others(h) /\ req[h].at \in {"edit", "pin", "delete", "unlink"} /\ req'[h].at \in {"reread", "tell", "unlink"}
  <2>1. \E at \in {"reread", "tell", "unlink"} : Goto(h, at)
    BY <1>4 DEF UpdateMessageBody, SetMessagePinned, DeleteMessage, RemoveFile
  <2>2. req[h].at \in {"edit", "pin", "delete", "unlink"}
    BY <1>4 DEF UpdateMessageBody, SetMessagePinned, DeleteMessage, RemoveFile
  <2> QED
    BY <2>1, <2>2, GotoReq
<1>5. ASSUME React(h) \/ Reread(h)
      PROVE  Others(h) /\ req[h].at \in {"react", "reread"} /\ req'[h].at \in {"idle", "tell"}
  BY <1>5, ReactReq, RereadReq, IdleFields
<1>6. Others(h) /\ req[h].at \notin AboutMembers \cup {"idle"} /\ req'[h].at \notin AboutMembers
  <2>1. CASE \E f \in Files : StoreFile(h, f) \/ CopyFile(h, f)
    BY <2>1, <1>1 DEF AboutMembers
  <2>2. CASE \E m \in Messages : CreateMessage(h, m)
    BY <2>2, <1>2 DEF AboutMembers
  <2>3. CASE SetConversationAvatar(h) \/ Broadcast(h)
    BY <2>3, <1>3 DEF AboutMembers
  <2>4. CASE UpdateMessageBody(h) \/ SetMessagePinned(h) \/ DeleteMessage(h) \/ RemoveFile(h)
    BY <2>4, <1>4 DEF AboutMembers
  <2>5. CASE React(h) \/ Reread(h)
    <3>1. Others(h) /\ req[h].at \in {"react", "reread"} /\ req'[h].at \in {"idle", "tell"}
      BY <2>5, <1>5
    <3> QED
      BY <3>1 DEF AboutMembers
  <2> QED
    BY <2>1, <2>2, <2>3, <2>4, <2>5, Zenon DEF Messaged
<1>7. UNCHANGED <<kind, role, raced, emptied, missed>>
  BY DEF Messaged, StoreFile, CopyFile, CreateMessage, SetConversationAvatar, UpdateMessageBody,
         SetMessagePinned, React, DeleteMessage, RemoveFile, Reread, Broadcast, members, history
<1>8. incident' = incident \/ incident' = TRUE
  BY Zenon DEF Messaged, StoreFile, CopyFile, CreateMessage, SetConversationAvatar, UpdateMessageBody,
         SetMessagePinned, React, DeleteMessage, RemoveFile, Reread, Broadcast, history
<1> QED
  BY <1>6, <1>7, <1>8

(* What only takes away from direct messages and who makes them.           *)
LEMMA PairKept ==
  ASSUME TypeInv, PairInv, NEW h \in Handlers, Others(h), req'[h].at \notin {"create", "add", "role"},
         raced \subseteq raced',
         \A c \in Convs : kind'[c] = "dm" =>
            /\ kind[c] = "dm"
            /\ ConversationMemberIDs(c)' \subseteq ConversationMemberIDs(c)
            /\ \A u \in Users : role'[c][u] = "admin" => role[c][u] = "admin"
  PROVE  PairInv'
<1>1. /\ \A g \in Handlers : PairReq(req[g])
      /\ \A c \in Convs : Dm(c)
      /\ \A P \in Pairs \ raced :
           /\ \A c, d \in Convs : Mine(c, P) /\ Mine(d, P) => c = d
           /\ \A g \in Handlers : req[g].at = "create" /\ P \in req[g].about => \A c \in Convs : ~Mine(c, P)
  BY DEF PairInv
<1>2. \A g \in Handlers : Shape(req[g])
  BY ReqOf
<1>3. ASSUME NEW g \in Handlers PROVE PairReq(req[g])'
  <2>1. CASE req'[g] = req[g]
    <3>1. PairReq(req[g]) /\ (req[g].at \in {"add", "role"} => req[g].conv \in Convs)
      BY <1>1, <1>2 DEF Shape
    <3>2. ASSUME NEW c \in Convs, req[g].at = "add", req[g].conv = c, kind'[c] = "dm"
          PROVE  \E P \in Pairs : P \in req[g].about /\ Adds(req[g], P) /\ ConversationMemberIDs(c)' \subseteq P
      <4>1. PICK P \in Pairs : P \in req[g].about /\ Adds(req[g], P) /\ ConversationMemberIDs(c) \subseteq P
        BY <3>1, <3>2 DEF PairReq
      <4> QED
        BY <3>1, <3>2, <4>1
    <3> QED
      BY <2>1, <3>1, <3>2 DEF PairReq, Adds, ConversationMemberIDs
  <2>2. CASE g = h
    BY <2>2 DEF PairReq
  <2> QED
    BY <2>1, <2>2 DEF Others
<1>4. ASSUME NEW c \in Convs PROVE Dm(c)'
  <2>1. \A g \in Handlers : req'[g].at = "add" /\ req'[g].conv = c => req[g].at = "add" /\ req[g].conv = c
    BY DEF Others
  <2> SUFFICES ASSUME kind'[c] = "dm" PROVE Dm(c)'
    BY DEF Dm
  <2>2. /\ \A u \in Users : role'[c][u] # "admin"
        /\ \E Q \in Pairs : ConversationMemberIDs(c)' \subseteq Q
    BY <1>1 DEF Dm
  <2>3. \A g, k \in Handlers :
          /\ req'[g].at = "add" /\ req'[g].conv = c
          /\ req'[k].at = "add" /\ req'[k].conv = c
          => g = k
    BY <1>1, <2>1 DEF Dm
  <2> QED
    BY <2>2, <2>3 DEF Dm
<1>5. ASSUME NEW c \in Convs, NEW P \in Pairs, Mine(c, P)' PROVE Mine(c, P)
  <2>1. kind[c] = "dm" /\ ConversationMemberIDs(c)' \subseteq ConversationMemberIDs(c)
    BY <1>5 DEF Mine
  <2>2. CASE ConversationMemberIDs(c)' = P
    <3>1. PICK Q \in Pairs : ConversationMemberIDs(c) \subseteq Q
      BY <1>1, <2>1 DEF Dm
    <3>2. P = Q
      BY <2>1, <2>2, <3>1, PairFacts
    <3> QED
      BY <2>1, <2>2, <3>1, <3>2 DEF Mine
  <2>3. CASE Making(c, P)'
    BY <2>1, <2>3 DEF Making, Mine, Others
  <2> QED
    BY <1>5, <2>2, <2>3 DEF Mine
<1>6. ASSUME NEW P \in Pairs \ raced'
      PROVE  /\ \A c, d \in Convs : Mine(c, P)' /\ Mine(d, P)' => c = d
             /\ \A g \in Handlers : req'[g].at = "create" /\ P \in req'[g].about => \A c \in Convs : ~Mine(c, P)'
  BY <1>1, <1>5 DEF Others
<1> QED
  BY <1>3, <1>4, <1>6 DEF PairInv

(* PairInv, action by action.                                              *)
LEMMA InitPairInv == Init => PairInv
<1> SUFFICES ASSUME Init PROVE PairInv
  OBVIOUS
<1>1. \A h \in Handlers : req[h] = Idle
  BY Zenon DEF Init
<1>2. \A c \in Convs : kind[c] = "dm" => ConversationMemberIDs(c) \in Pairs /\ Admins(c) = {}
  BY DEF Init
<1>3. \A c, d \in Convs :
        kind[c] = "dm" /\ kind[d] = "dm" /\ ConversationMemberIDs(c) = ConversationMemberIDs(d) => c = d
  BY Zenon DEF Init
<1>4. \A h \in Handlers : PairReq(req[h])
  BY <1>1, IdleFields DEF PairReq
<1>5. \A c \in Convs : Dm(c)
  BY <1>1, <1>2, IdleFields DEF Dm, Admins
<1>6. \A c \in Convs, P \in Pairs : Mine(c, P) => kind[c] = "dm" /\ ConversationMemberIDs(c) = P
  BY <1>1, IdleFields DEF Mine, Making
<1>7. \A P \in Pairs : \A h \in Handlers : ~(req[h].at = "create")
  BY <1>1, IdleFields
<1> QED
  BY <1>3, <1>4, <1>5, <1>6, <1>7 DEF PairInv

LEMMA RequestedPairInv ==
  ASSUME TypeInv, PairInv, NEW h \in Handlers, Requested(h)
  PROVE  PairInv'
<1>1. /\ \A g \in Handlers : PairReq(req[g])
      /\ \A c \in Convs : Dm(c)
      /\ \A P \in Pairs \ raced :
           /\ \A c, d \in Convs : Mine(c, P) /\ Mine(d, P) => c = d
           /\ \A g \in Handlers : req[g].at = "create" /\ P \in req[g].about => \A c \in Convs : ~Mine(c, P)
  BY DEF PairInv
<1>2. PICK r : Shape(r) /\ Begin(h, r) /\ Asked(r)
  BY DEF Requested
<1>3. /\ Others(h) /\ req[h] = Idle /\ req'[h] = r
      /\ raced' = raced \cup (r.about \cap InFlight)
      /\ UNCHANGED <<kind, role>>
  BY <1>2, BeginReq
<1>4. \A c \in Convs : ConversationMemberIDs(c)' = ConversationMemberIDs(c)
  BY <1>3 DEF ConversationMemberIDs
<1>5. r.at \in {"add", "role"} => r.conv \in Convs /\ kind[r.conv] # "dm"
  <2>1. r.at \in {"add", "role"} => r.conv \in Convs
    BY <1>2 DEF Shape
  <2>2. r.at \in {"add", "role"} => kind[r.conv] = "public" \/ HasAdmin(r.conv)
    BY <1>2 DEF Asked
  <2>3. \A c \in Convs : kind[c] = "dm" => ~HasAdmin(c)
    BY <1>1 DEF Dm, HasAdmin
  <2> QED
    BY <2>1, <2>2, <2>3
<1>6. PairReq(r)'
  BY <1>2, <1>3, <1>5 DEF PairReq, Asked, Adds
<1>7. ASSUME NEW g \in Handlers PROVE PairReq(req[g])'
  <2>1. PairReq(req[g])
    BY <1>1
  <2>2. CASE req'[g] = req[g]
    BY <1>3, <2>1, <2>2 DEF PairReq, Adds, ConversationMemberIDs
  <2> QED
    BY <1>3, <1>6, <2>2 DEF Others
<1>8. \A c \in Convs : Dm(c)'
  <2> TAKE c \in Convs
  <2>1. kind[c] = "dm" => \A g \in Handlers : req'[g].at = "add" /\ req'[g].conv = c => req[g].at = "add" /\ req[g].conv = c
    BY <1>3, <1>5 DEF Others
  <2>2. ConversationMemberIDs(c)' = ConversationMemberIDs(c)
    BY <1>4
  <2> QED
    BY <1>1, <1>3, <2>1, <2>2 DEF Dm
<1>9. ASSUME NEW c \in Convs, NEW P \in Pairs, Mine(c, P)' PROVE Mine(c, P)
  <2>1. kind[c] = "dm" /\ ConversationMemberIDs(c)' = ConversationMemberIDs(c)
    BY <1>3, <1>4, <1>9 DEF Mine
  <2>2. Making(c, P)' => Making(c, P)
    BY <1>3, <1>5, <2>1 DEF Making, Others
  <2> QED
    BY <1>9, <2>1, <2>2 DEF Mine
<1>10. ASSUME NEW P \in Pairs \ raced'
       PROVE  /\ \A c, d \in Convs : Mine(c, P)' /\ Mine(d, P)' => c = d
              /\ \A g \in Handlers : req'[g].at = "create" /\ P \in req'[g].about => \A c \in Convs : ~Mine(c, P)'
  <2>1. P \notin raced /\ P \in Pairs
    BY <1>3
  <2>2. ASSUME NEW g \in Handlers, req'[g].at = "create", P \in req'[g].about, NEW c \in Convs, Mine(c, P)
        PROVE  FALSE
    <3>1. CASE g # h
      BY <1>1, <1>3, <2>1, <2>2, <3>1 DEF Others
    <3>2. CASE g = h
      <4>1. r.at = "create" /\ P \in r.about /\ P \notin InFlight
        BY <1>3, <2>2, <3>2
      <4>2. kind[c] = "dm" => ConversationMemberIDs(c) # P
        BY <1>2, <4>1 DEF Asked
      <4>3. ~Making(c, P)
        BY <4>1 DEF Making, InFlight
      <4> QED
        BY <2>2, <4>2, <4>3 DEF Mine
    <3> QED
      BY <3>1, <3>2
  <2> QED
    BY <1>1, <1>9, <2>1, <2>2
<1> QED
  BY <1>7, <1>8, <1>10 DEF PairInv

LEMMA CreatePairInv ==
  ASSUME TypeInv, AloneInv, PairInv, NEW h \in Handlers, NEW c \in Convs, CreateConversation(h, c)
  PROVE  PairInv'
<1>1. /\ \A g \in Handlers : PairReq(req[g])
      /\ \A d \in Convs : Dm(d)
      /\ \A P \in Pairs \ raced :
           /\ \A d, e \in Convs : Mine(d, P) /\ Mine(e, P) => d = e
           /\ \A g \in Handlers : req[g].at = "create" /\ P \in req[g].about => \A d \in Convs : ~Mine(d, P)
  BY DEF PairInv
<1>2. /\ Others(h) /\ req[h].at = "create" /\ req'[h].at = "add" /\ req'[h].conv = c
      /\ req'[h].about = req[h].about \cup {c} /\ SameData(req'[h], req[h])
  BY CreateReq
<1>3. /\ role' = role /\ raced' = raced /\ kind[c] = "none"
      /\ kind'[c] = (IF req[h].about = {} THEN "group" ELSE "dm")
      /\ \A d \in Convs \ {c} : kind'[d] = kind[d]
  BY Typed DEF CreateConversation, history, Stored
<1>4. /\ \A u \in Users : role[c][u] = None
      /\ \A g \in Handlers : req[g].conv # c
  BY <1>3 DEF AloneInv, FreshConv
<1>5. \A d \in Convs : ConversationMemberIDs(d)' = ConversationMemberIDs(d)
  BY <1>3 DEF ConversationMemberIDs
<1>6. ConversationMemberIDs(c) = {}
  BY <1>4 DEF ConversationMemberIDs
<1>7. Shape(req[h]) /\ (req[h].about = {} \/ \E P \in Pairs : req[h].about = {P})
  BY <1>2, ReqOf DEF Shape
<1>8. ASSUME NEW g \in Handlers PROVE PairReq(req[g])'
  <2>1. CASE g # h
    <3>1. PairReq(req[g]) /\ Shape(req[g]) /\ req'[g] = req[g]
      BY <1>1, <1>2, <2>1, ReqOf DEF Others
    <3>2. req[g].at \in {"add", "role"} => req[g].conv \in Convs \ {c}
      BY <1>4, <3>1 DEF Shape
    <3>3. req[g].at \in {"add", "role"} => kind'[req[g].conv] = kind[req[g].conv]
      BY <1>3, <3>2
    <3> QED
      BY <1>3, <3>1, <3>3 DEF PairReq, Adds, ConversationMemberIDs
  <2>2. CASE g = h
    <3>1. ASSUME kind'[c] = "dm"
          PROVE  \E P \in Pairs : P \in req'[h].about /\ Adds(req'[h], P) /\ ConversationMemberIDs(c)' \subseteq P
      <4>1. PICK P \in Pairs : req[h].about = {P}
        BY <1>3, <1>7, <3>1
      <4>2. Adds(req[h], P)
        BY <1>1, <1>2, <4>1 DEF PairReq
      <4>3. Adds(req'[h], P)
        BY <1>2, <4>2 DEF Adds, SameData
      <4> QED
        BY <1>2, <1>5, <1>6, <4>1, <4>3
    <3>2. PairReq(req[h])'
      BY <1>2, <3>1 DEF PairReq, Adds, ConversationMemberIDs
    <3> QED
      BY <2>2, <3>2
  <2> QED
    BY <2>1, <2>2
<1>9. ASSUME NEW d \in Convs PROVE Dm(d)'
  <2> SUFFICES ASSUME kind'[d] = "dm"
               PROVE  /\ \A u \in Users : role'[d][u] # "admin"
                      /\ \E Q \in Pairs : ConversationMemberIDs(d)' \subseteq Q
                      /\ \A f, g \in Handlers :
                           /\ req'[f].at = "add" /\ req'[f].conv = d
                           /\ req'[g].at = "add" /\ req'[g].conv = d
                           => f = g
    BY DEF Dm
  <2>1. CASE d # c
    <3>1. kind[d] = "dm" /\ \A g \in Handlers : req'[g].at = "add" /\ req'[g].conv = d
                              => req[g].at = "add" /\ req[g].conv = d
      BY <1>2, <1>3, <2>1 DEF Others
    <3> QED
      BY <1>1, <1>3, <1>5, <3>1 DEF Dm
  <2>2. CASE d = c
    <3>1. \E P \in Pairs : req[h].about = {P}
      BY <1>3, <1>7, <2>2
    <3>2. \A g \in Handlers : req'[g].conv = c => g = h
      BY <1>2, <1>4 DEF Others
    <3>3. \A u \in Users : role'[c][u] # "admin"
      BY <1>3, <1>4
    <3> QED
      BY <1>5, <1>6, <2>2, <3>1, <3>2, <3>3
  <2> QED
    BY <2>1, <2>2
<1>10. ASSUME NEW d \in Convs, NEW P \in Pairs, Mine(d, P)'
       PROVE  IF d = c THEN P \in req[h].about ELSE Mine(d, P)
  <2>1. CASE d # c
    <3>1. kind[d] = "dm" /\ ConversationMemberIDs(d)' = ConversationMemberIDs(d)
      BY <1>3, <1>5, <1>10, <2>1 DEF Mine
    <3>2. Making(d, P)' => Making(d, P)
      BY <1>2, <2>1 DEF Making, Others
    <3> QED
      BY <1>10, <2>1, <3>1, <3>2 DEF Mine
  <2>2. CASE d = c
    <3>1. ConversationMemberIDs(c)' # P
      BY <1>5, <1>6, PairFacts
    <3>2. PICK g \in Handlers : req'[g].conv = c /\ P \in req'[g].about
      BY <1>10, <2>2, <3>1 DEF Mine, Making
    <3>3. g = h
      BY <1>2, <1>4, <3>2 DEF Others
    <3> QED
      BY <1>2, <2>2, <3>2, <3>3, SubjectFacts
  <2> QED
    BY <2>1, <2>2
<1>11. ASSUME NEW P \in Pairs \ raced'
       PROVE  /\ \A d, e \in Convs : Mine(d, P)' /\ Mine(e, P)' => d = e
              /\ \A g \in Handlers : req'[g].at = "create" /\ P \in req'[g].about => \A d \in Convs : ~Mine(d, P)'
  <2>1. P \in Pairs /\ P \notin raced /\ P \in Subjects
    BY <1>3, SubjectFacts
  <2>2. P \in req[h].about => \A d \in Convs : ~Mine(d, P)
    BY <1>1, <1>2, <2>1
  <2>3. ASSUME NEW g \in Handlers, req'[g].at = "create", P \in req'[g].about
        PROVE  /\ \A d \in Convs : ~Mine(d, P)
               /\ P \notin req[h].about
    <3>1. g # h /\ req'[g] = req[g]
      BY <1>2, <2>3 DEF Others
    <3>2. \A d \in Convs : ~Mine(d, P)
      BY <1>1, <2>1, <2>3, <3>1
    <3>3. P \notin req[h].about
      BY <2>1, <2>3, <3>1 DEF AloneInv, Alone
    <3> QED
      BY <3>2, <3>3
  <2> QED
    BY <1>1, <1>10, <2>1, <2>2, <2>3
<1> QED
  BY <1>8, <1>9, <1>11 DEF PairInv

LEMMA AddPairInv ==
  ASSUME TypeInv, PairInv, NEW h \in Handlers, AddMember(h)
  PROVE  PairInv'
<1>1. /\ \A g \in Handlers : PairReq(req[g])
      /\ \A d \in Convs : Dm(d)
      /\ \A P \in Pairs \ raced :
           /\ \A d, e \in Convs : Mine(d, P) /\ Mine(e, P) => d = e
           /\ \A g \in Handlers : req[g].at = "create" /\ P \in req[g].about => \A d \in Convs : ~Mine(d, P)
  BY DEF PairInv
<1>c. PICK c \in Convs : req[h].conv = c
  BY ReqOf DEF AddMember, Shape
<1>2. /\ Others(h) /\ req[h].at = "add" /\ kind' = kind /\ raced' = raced /\ c \in Convs
  BY AddReq DEF AddMember
<1>3. PICK x \in req[h].add :
        /\ x \in Users \X Roles
        /\ AddConversationMember(c, x[1], x[2]) \/ role' = role
        /\ \/ req'[h] = Idle
           \/ /\ ~(req[h].add = {x} /\ ~req[h].on)
              /\ req'[h].at = "add" /\ SameSubject(req'[h], req[h])
              /\ req'[h].add = req[h].add \ {x} /\ req'[h].on = req[h].on
  BY <1>c, AddReq
<1>r. role \in [Convs -> [Users -> Roles \cup {None}]]
  BY Typed DEF Stored
<1>4. \A d \in Convs, u \in Users :
        role'[d][u] = role[d][u] \/ (d = c /\ u = x[1] /\ role[d][u] = None /\ role'[d][u] = x[2])
  <2>1. CASE AddConversationMember(c, x[1], x[2])
    BY <1>2, <1>3, <1>r, <2>1 DEF AddConversationMember, IsMember
  <2> QED
    BY <1>3, <2>1
<1>5. \A d \in Convs \ {c} : ConversationMemberIDs(d)' = ConversationMemberIDs(d)
  BY <1>4 DEF ConversationMemberIDs
<1>6. ConversationMemberIDs(c)' \subseteq ConversationMemberIDs(c) \cup {x[1]}
      /\ ConversationMemberIDs(c) \subseteq ConversationMemberIDs(c)'
  BY <1>2, <1>3, <1>4 DEF ConversationMemberIDs, Roles
<1>7. ASSUME kind[c] = "dm"
      PROVE  /\ \A g \in Handlers : req[g].at = "add" /\ req[g].conv = c => g = h
             /\ x[2] = "member"
             /\ \E P \in Pairs : /\ P \in req[h].about /\ Adds(req[h], P)
                                 /\ ConversationMemberIDs(c) \subseteq P
                                 /\ ConversationMemberIDs(c)' \subseteq P
  <2>1. \A g \in Handlers : req[g].at = "add" /\ req[g].conv = c => g = h
    BY <1>1, <1>2, <1>7, <1>c DEF Dm
  <2>2. PICK P \in Pairs : P \in req[h].about /\ Adds(req[h], P) /\ ConversationMemberIDs(c) \subseteq P
    BY <1>1, <1>2, <1>7, <1>c DEF PairReq
  <2>3. x[1] \in P /\ x[2] = "member"
    BY <1>3, <2>2 DEF Adds
  <2> QED
    BY <1>6, <2>1, <2>2, <2>3
<1>8. ASSUME NEW g \in Handlers PROVE PairReq(req[g])'
  <2>1. CASE g # h
    <3>1. PairReq(req[g]) /\ req'[g] = req[g] /\ Shape(req[g])
      BY <1>1, <1>2, <2>1, ReqOf DEF Others
    <3>2. ASSUME NEW d \in Convs, req[g].at = "add", req[g].conv = d, kind[d] = "dm"
          PROVE  \E P \in Pairs : P \in req[g].about /\ Adds(req[g], P) /\ ConversationMemberIDs(d)' \subseteq P
      <4>1. d # c
        BY <1>7, <2>1, <3>2
      <4>2. PICK P \in Pairs : P \in req[g].about /\ Adds(req[g], P) /\ ConversationMemberIDs(d) \subseteq P
        BY <3>1, <3>2 DEF PairReq
      <4> QED
        BY <1>5, <4>1, <4>2
    <3>3. req[g].at = "add" => req[g].conv \in Convs
      BY <3>1 DEF Shape
    <3> QED
      BY <1>2, <3>1, <3>2, <3>3 DEF PairReq, Adds, ConversationMemberIDs
  <2>2. CASE req'[h] = Idle /\ g = h
    BY <2>2, IdleFields DEF PairReq
  <2>3. CASE req'[h] # Idle /\ g = h
    <3>1. /\ ~(req[h].add = {x} /\ ~req[h].on)
          /\ req'[h].at = "add" /\ SameSubject(req'[h], req[h])
          /\ req'[h].add = req[h].add \ {x} /\ req'[h].on = req[h].on
      BY <1>3, <2>3
    <3>2. ASSUME kind[c] = "dm"
          PROVE  \E P \in Pairs : P \in req'[h].about /\ Adds(req'[h], P) /\ ConversationMemberIDs(c)' \subseteq P
      <4>1. PICK P \in Pairs : /\ P \in req[h].about /\ Adds(req[h], P)
                               /\ ConversationMemberIDs(c)' \subseteq P
        BY <1>7, <3>2
      <4>2. Adds(req'[h], P)
        BY <3>1, <4>1 DEF Adds
      <4> QED
        BY <3>1, <4>1, <4>2 DEF SameSubject
    <3>3. req'[h].conv = c
      BY <1>c, <3>1 DEF SameSubject
    <3>4. PairReq(req[h])'
      BY <1>2, <3>1, <3>2, <3>3 DEF PairReq, Adds, ConversationMemberIDs
    <3> QED
      BY <2>3, <3>4
  <2> QED
    BY <2>1, <2>2, <2>3
<1>9. ASSUME NEW g \in Handlers, NEW d \in Convs, req'[g].at = "add", req'[g].conv = d
      PROVE  req[g].at = "add" /\ req[g].conv = d /\ req'[g].about = req[g].about
  BY <1>2, <1>3, <1>9, IdleFields DEF Others, SameSubject
<1>10. ASSUME NEW d \in Convs PROVE Dm(d)'
  <2> SUFFICES ASSUME kind[d] = "dm"
               PROVE  /\ \A u \in Users : role'[d][u] # "admin"
                      /\ \E Q \in Pairs : ConversationMemberIDs(d)' \subseteq Q
    BY <1>1, <1>2, <1>9 DEF Dm
  <2>1. CASE d # c
    BY <1>1, <1>4, <1>5, <2>1 DEF Dm
  <2>2. CASE d = c
    BY <1>1, <1>4, <1>7, <2>2 DEF Dm
  <2> QED
    BY <2>1, <2>2
<1>11. ASSUME NEW d \in Convs, NEW P \in Pairs, Mine(d, P)' PROVE Mine(d, P)
  <2>0. kind[d] = "dm"
    BY <1>2, <1>11 DEF Mine
  <2>1. CASE Making(d, P)'
    BY <1>9, <2>0, <2>1 DEF Making, Mine
  <2>2. CASE ConversationMemberIDs(d)' = P /\ d # c
    BY <1>5, <2>0, <2>2 DEF Mine
  <2>3. CASE ConversationMemberIDs(d)' = P /\ d = c
    <3>1. PICK Q \in Pairs : Q \in req[h].about /\ ConversationMemberIDs(c)' \subseteq Q
      BY <1>7, <2>0, <2>3
    <3>2. P = Q
      BY <2>3, <3>1, PairFacts
    <3> QED
      BY <1>2, <1>c, <2>0, <2>3, <3>1, <3>2 DEF Mine, Making
  <2> QED
    BY <1>11, <2>1, <2>2, <2>3 DEF Mine
<1>12. ASSUME NEW g \in Handlers, req'[g].at = "create"
       PROVE  req[g] = req'[g]
  BY <1>2, <1>3, <1>12, IdleFields DEF Others
<1> QED
  <2>1. \A P \in Pairs \ raced' :
           /\ \A d, e \in Convs : Mine(d, P)' /\ Mine(e, P)' => d = e
           /\ \A g \in Handlers : req'[g].at = "create" /\ P \in req'[g].about => \A d \in Convs : ~Mine(d, P)'
    BY <1>1, <1>2, <1>11, <1>12
  <2> QED
    BY <1>8, <1>10, <2>1 DEF PairInv

LEMMA NextPairInv == TypeInv /\ AloneInv /\ PairInv /\ [Next]_vars => PairInv'
<1> SUFFICES ASSUME TypeInv, AloneInv, PairInv, [Next]_vars PROVE PairInv'
  OBVIOUS
<1>1. /\ \A g \in Handlers : PairReq(req[g])
      /\ \A d \in Convs : Dm(d)
  BY DEF PairInv
<1>r. role \in [Convs -> [Users -> Roles \cup {None}]] /\ \A g \in Handlers : Shape(req[g])
  BY Typed DEF Stored
<1>a. ASSUME NEW h \in Handlers, Others(h), req'[h].at \notin AboutMembers, raced' = raced,
             kind' = kind, role' = role
      PROVE  PairInv'
  BY <1>a, PairKept DEF AboutMembers, ConversationMemberIDs
<1>2. ASSUME NEW h \in Handlers, Publish(h) PROVE PairInv'
  <2>1. Others(h) /\ req'[h] = Idle /\ role' = role /\ raced' = raced
    BY <1>2, AnswerReq DEF Publish
  <2>2. \A c \in Convs : kind'[c] = "dm" => kind[c] = "dm"
    BY <1>2, Typed DEF Publish, SetConversationVisibility, Stored
  <2>3. \A c \in Convs : ConversationMemberIDs(c)' = ConversationMemberIDs(c)
    BY <2>1 DEF ConversationMemberIDs
  <2> QED
    BY <2>1, <2>2, <2>3, IdleFields, PairKept
<1>3. ASSUME NEW h \in Handlers, RemoveConversationMember(h) PROVE PairInv'
  <2>1. Others(h) /\ req'[h] = Idle /\ kind' = kind /\ raced' = raced
    BY <1>3, AnswerReq DEF RemoveConversationMember
  <2>2. role' = [role EXCEPT ![req[h].conv][req[h].user] = None]
    BY <1>3 DEF RemoveConversationMember
  <2>3. \A c \in Convs, u \in Users : role'[c][u] = role[c][u] \/ role'[c][u] = None
    BY <2>2, <1>r
  <2>4. \A c \in Convs : /\ ConversationMemberIDs(c)' \subseteq ConversationMemberIDs(c)
                         /\ \A u \in Users : role'[c][u] = "admin" => role[c][u] = "admin"
    BY <2>3 DEF ConversationMemberIDs
  <2> QED
    BY <2>1, <2>4, IdleFields, PairKept
<1>4. ASSUME NEW h \in Handlers, SetConversationMemberRole(h) PROVE PairInv'
  <2>1. Others(h) /\ req'[h] = Idle /\ kind' = kind /\ raced' = raced /\ req[h].at = "role"
    BY <1>4, AnswerReq DEF SetConversationMemberRole, history
  <2>2. \A c \in Convs \ {req[h].conv} : role'[c] = role[c]
    BY <1>4, <1>r DEF SetConversationMemberRole
  <2>3. kind[req[h].conv] # "dm"
    BY <1>1, <2>1 DEF PairReq
  <2>4. \A c \in Convs : kind[c] = "dm" => role'[c] = role[c]
    BY <2>2, <2>3
  <2>5. \A c \in Convs : kind[c] = "dm" =>
          /\ ConversationMemberIDs(c)' \subseteq ConversationMemberIDs(c)
          /\ \A u \in Users : role'[c][u] = "admin" => role[c][u] = "admin"
    BY <2>4 DEF ConversationMemberIDs
  <2> QED
    BY <2>1, <2>5, IdleFields, PairKept
<1>5. ASSUME NEW h \in Handlers, Membered(h) PROVE PairInv'
  BY <1>2, <1>3, <1>4, <1>5, CreatePairInv, AddPairInv DEF Membered
<1>6. ASSUME NEW h \in Handlers, Messaged(h) PROVE PairInv'
  BY <1>6, <1>a, MessagedFrame
<1>7. ASSUME NEW h \in Handlers, Fail(h) PROVE PairInv'
  BY <1>7, <1>a, AnswerReq, IdleFields DEF Fail, members, AboutMembers
<1>8. ASSUME UNCHANGED <<kind, role, req, raced>> PROVE PairInv'
  BY <1>8 DEF PairInv, PairReq, Dm, Mine, Making, Adds, ConversationMemberIDs
<1>9. CASE UNCHANGED vars
  BY <1>8, <1>9 DEF vars, members, history
<1>10. ASSUME NEW u \in Users, NEW c \in Convs, OpenConversation(u, c) PROVE PairInv'
  BY <1>8, <1>10 DEF OpenConversation, members
<1> QED
  BY <1>5, <1>6, <1>7, <1>9, <1>10, RequestedPairInv, Steps

IInv == TypeInv /\ AloneInv /\ PairInv

(* The three parts that the others rest on.                                *)
LEMMA IInvHolds == Spec => []IInv
<1>1. Init => IInv
  BY InitTypeInv, InitAloneInv, InitPairInv DEF IInv
<1>2. IInv /\ [Next]_vars => IInv'
  BY NextTypeInv, NextAloneInv, NextPairInv DEF IInv
<1> QED
  BY <1>1, <1>2, PTL DEF Spec

(* Two users have one direct message, however often they ask for it and    *)
(* leave it, unless they asked at the same time (chat.go:386-404).         *)
THEOREM OneForEachPair == Spec => []OneDMPerPair
<1>1. IInv => OneDMPerPair
  BY DEF IInv, PairInv, Mine, OneDMPerPair
<1> QED
  BY <1>1, IInvHolds, PTL

-----------------------------------------------------------------------------
(* Admins                                                                  *)

(* Who is about to make its user an admin.                                 *)
Founding(g, c) == req[g].at = "add" /\ req[g].conv = c /\ <<req[g].user, "admin">> \in req[g].add

(* AdminInv, action by action.                                             *)
LEMMA InitAdminInv == Init => AdminInv
<1> SUFFICES ASSUME Init PROVE AdminInv
  OBVIOUS
<1>1. \A h \in Handlers : req[h] = Idle
  BY Zenon DEF Init
<1>2. \A c \in Convs : kind[c] \in {"group", "public"} => Admins(c) # {}
  <2> TAKE c \in Convs
  <2>1. (CASE kind[c] = "none" -> ConversationMemberIDs(c) = {}
           [] kind[c] = "dm"   -> ConversationMemberIDs(c) \in Pairs /\ Admins(c) = {}
           [] OTHER            -> Admins(c) # {})
    BY Zenon DEF Init
  <2> QED
    BY <2>1
<1>3. \A h \in Handlers : AdminReq(req[h])
  BY <1>1, IdleFields DEF AdminReq
<1>4. \A c \in Convs : ConvLed(c)
  BY <1>1, <1>2, IdleFields DEF ConvLed, HasAdmin, Admins
<1> QED
  BY <1>3, <1>4 DEF AdminInv

(* Of a conversation whose members stay what they are.                     *)
LEMMA LedKept ==
  ASSUME TypeInv, NEW c \in Convs, ConvLed(c), NEW h \in Handlers, Others(h),
         \A u \in Users : role'[c][u] = role[c][u], kind'[c] = kind[c],
         Founding(h, c) => Founding(h, c)',
         req'[h].at \notin {"remove", "role"} \/ req'[h].conv # c
  PROVE  ConvLed(c)'
<1>1. HasAdmin(c)' <=> HasAdmin(c)
  BY DEF HasAdmin
<1>2. ConversationMemberIDs(c)' = ConversationMemberIDs(c)
  BY DEF ConversationMemberIDs
<1>3. \A t \in Users : Led(c, t)' <=> Led(c, t)
  BY DEF Led
<1>4. \A g \in Handlers \ {h} : req'[g] = req[g]
  BY DEF Others
<1>5. kind[c] \in {"group", "public"} =>
        HasAdmin(c)' \/ (/\ \A u \in Users : role'[c][u] = None
                         /\ \E g \in Handlers : Founding(g, c)')
  <2> SUFFICES ASSUME kind[c] \in {"group", "public"}, ~HasAdmin(c)
               PROVE  /\ \A u \in Users : role'[c][u] = None
                      /\ \E g \in Handlers : Founding(g, c)'
    BY <1>1
  <2>1. (\A u \in Users : role[c][u] = None) /\ \E g \in Handlers : Founding(g, c)
    BY DEF ConvLed, Founding
  <2>2. PICK g \in Handlers : Founding(g, c)
    BY <2>1
  <2>3. Founding(g, c)'
    BY <1>4, <2>2 DEF Founding
  <2> QED
    BY <2>1, <2>3
<1>6. ASSUME NEW g \in Handlers, req'[g].conv = c, req'[g].at \in {"remove", "role"}
      PROVE  /\ g # h /\ req[g] = req'[g] /\ req[g].user \in Users
             /\ req'[g].at = "remove" => Led(c, req[g].user) \/ ConversationMemberIDs(c) \subseteq {req[g].user}
             /\ req'[g].at = "role" /\ req'[g].role = "member" => Led(c, req[g].user)
  <2>1. g # h /\ req[g] = req'[g]
    BY <1>4, <1>6
  <2>2. Shape(req[g])
    BY ReqOf
  <2> QED
    BY <1>6, <2>1, <2>2 DEF Shape, ConvLed
<1>7. ASSUME NEW g \in Handlers, req'[g].conv = c
      PROVE  /\ req'[g].at = "remove" => Led(c, req[g].user)' \/ ConversationMemberIDs(c)' \subseteq {req'[g].user}
             /\ req'[g].at = "role" /\ req'[g].role = "member" => Led(c, req[g].user)'
  <2> SUFFICES ASSUME req'[g].at \in {"remove", "role"}
               PROVE  /\ req'[g].at = "remove" => Led(c, req[g].user)' \/ ConversationMemberIDs(c)' \subseteq {req'[g].user}
                      /\ req'[g].at = "role" /\ req'[g].role = "member" => Led(c, req[g].user)'
    OBVIOUS
  <2>1. PICK t \in Users : t = req[g].user /\ t = req'[g].user
    BY <1>6, <1>7
  <2>2. Led(c, t)' <=> Led(c, t)
    BY <1>3
  <2>3. /\ req'[g].at = "remove" => Led(c, t) \/ ConversationMemberIDs(c) \subseteq {t}
        /\ req'[g].at = "role" /\ req'[g].role = "member" => Led(c, t)
    BY <1>6, <1>7, <2>1
  <2>4. Led(c, req[g].user)' <=> Led(c, t)'
    BY <2>1 DEF Led
  <2> QED
    BY <1>2, <2>1, <2>2, <2>3, <2>4
<1> QED
  BY <1>5, <1>7 DEF ConvLed, Founding

(* Of a conversation one handler works on.                                 *)
LEMMA OneWorks ==
  ASSUME TypeInv, AloneInv, NEW c \in Convs, c \notin raced, NEW h \in Handlers,
         req[h].conv = c, req[h].at \in {"add", "remove", "role"},
         NEW g \in Handlers, req[g].conv = c, req[g].at \in {"add", "remove", "role"}
  PROVE  g = h
<1>1. c \in req[h].about /\ c \in req[g].about /\ c \in Subjects
  BY ReqOf, SubjectFacts DEF Shape
<1> QED
  BY <1>1 DEF AloneInv, Alone

LEMMA NextAdminReq ==
  ASSUME TypeInv, PairInv, AdminInv, Next, NEW g \in Handlers
  PROVE  AdminReq(req[g])'
<1>1. AdminReq(req[g]) /\ PairReq(req[g]) /\ Shape(req[g])
  BY ReqOf DEF AdminInv, PairInv
<1>a. ASSUME req'[g] = req[g] PROVE AdminReq(req[g])'
  BY <1>1, <1>a DEF AdminReq, Founds
<1>b. ASSUME req'[g].at \notin {"create", "add"} PROVE AdminReq(req[g])'
  BY <1>b DEF AdminReq
<1>2. ASSUME NEW h \in Handlers, Requested(h) PROVE AdminReq(req[g])'
  <2>1. PICK r : Shape(r) /\ Begin(h, r) /\ Asked(r)
    BY <1>2 DEF Requested
  <2>2. Others(h) /\ req'[h] = r
    BY <2>1, BeginReq
  <2>3. CASE g = h
    <3>1. AdminReq(r)
      BY <2>1 DEF Asked, AdminReq, Founds
    <3> QED
      BY <2>2, <2>3, <3>1 DEF AdminReq, Founds
  <2> QED
    BY <1>a, <2>2, <2>3 DEF Others
<1>3. ASSUME NEW h \in Handlers, NEW c \in Convs, CreateConversation(h, c) PROVE AdminReq(req[g])'
  <2>1. /\ Others(h) /\ req[h].at = "create" /\ req'[h].at = "add" /\ req'[h].user = req[h].user
        /\ req'[h].add = req[h].add
    BY <1>3, CreateReq DEF SameData
  <2>2. CASE g = h
    <3>1. CASE req[h].about = {}
      BY <1>1, <2>1, <2>2, <3>1 DEF AdminReq, Founds
    <3>2. CASE req[h].about # {}
      <4>1. PICK P \in req[h].about : Adds(req[h], P)
        BY <1>1, <2>1, <2>2, <3>2 DEF PairReq
      <4>2. <<req[h].user, "admin">> \notin req[h].add
        BY <4>1 DEF Adds
      <4> QED
        BY <2>1, <2>2, <4>2 DEF AdminReq
    <3> QED
      BY <3>1, <3>2
  <2> QED
    BY <1>a, <2>1, <2>2 DEF Others
<1>4. ASSUME NEW h \in Handlers, AddMember(h) PROVE AdminReq(req[g])'
  <2>1. Others(h) /\ req[h].at = "add"
    BY <1>4, AddReq
  <2>2. PICK x \in req[h].add :
          /\ x \in Users \X Roles
          /\ x[1] = req[h].user \/ req[h].user \notin {y[1] : y \in req[h].add}
          /\ \/ req'[h] = Idle
             \/ req'[h].at = "add" /\ req'[h].user = req[h].user /\ req'[h].add = req[h].add \ {x}
    BY <1>4, AddReq DEF SameSubject
  <2>3. CASE g = h /\ req'[h] # Idle
    <3>1. ASSUME <<req[h].user, "admin">> \in req[h].add \ {x} PROVE FALSE
      <4>1. req[h].user \in {y[1] : y \in req[h].add}
        BY <3>1
      <4>2. Founds(req[h])
        BY <1>1, <2>1, <2>3, <3>1 DEF AdminReq
      <4>3. x[1] = req[h].user /\ x[2] = "admin"
        BY <2>2, <4>1, <4>2 DEF Founds
      <4> QED
        BY <2>2, <3>1, <4>3
    <3> QED
      BY <2>2, <2>3, <3>1 DEF AdminReq
  <2>4. CASE g = h /\ req'[h] = Idle
    BY <1>b, <2>4, IdleFields
  <2> QED
    BY <1>a, <2>1, <2>3, <2>4 DEF Others
<1>5. ASSUME NEW h \in Handlers, Membered(h) PROVE AdminReq(req[g])'
  <2>1. CASE Publish(h) \/ RemoveConversationMember(h) \/ SetConversationMemberRole(h)
    <3>1. Others(h) /\ req'[h] = Idle
      BY <2>1, AnswerReq DEF Publish, RemoveConversationMember, SetConversationMemberRole
    <3> QED
      BY <1>a, <1>b, <3>1, IdleFields DEF Others
  <2> QED
    BY <1>3, <1>4, <1>5, <2>1 DEF Membered
<1>6. ASSUME NEW h \in Handlers, Messaged(h) PROVE AdminReq(req[g])'
  BY <1>6, <1>a, <1>b, MessagedFrame DEF AboutMembers, Others
<1>7. ASSUME NEW h \in Handlers, Fail(h) PROVE AdminReq(req[g])'
  BY <1>7, <1>a, <1>b, AnswerReq, IdleFields DEF Fail, Others
<1>8. ASSUME NEW u \in Users, NEW c \in Convs, OpenConversation(u, c) PROVE AdminReq(req[g])'
  BY <1>8, <1>a DEF OpenConversation
<1> QED
  BY <1>2, <1>5, <1>6, <1>7, <1>8, Steps

(* A conversation stays led, action by action.                             *)
LEMMA CreateLed ==
  ASSUME TypeInv, AloneInv, AdminInv, NEW c \in Convs, ConvLed(c),
         NEW h \in Handlers, NEW d \in Convs, CreateConversation(h, d)
  PROVE  ConvLed(c)'
<1>1. /\ Others(h) /\ req[h].at = "create" /\ req'[h].at = "add" /\ req'[h].conv = d
      /\ req'[h].user = req[h].user /\ req'[h].add = req[h].add
  BY CreateReq DEF SameData
<1>2. /\ role' = role /\ kind[d] = "none"
      /\ kind'[d] = (IF req[h].about = {} THEN "group" ELSE "dm")
      /\ \A e \in Convs \ {d} : kind'[e] = kind[e]
  BY Typed DEF CreateConversation, Stored
<1>3. CASE c # d
  <2>1. ~Founding(h, c) /\ kind'[c] = kind[c]
    BY <1>1, <1>2, <1>3 DEF Founding
  <2> QED
    BY <1>1, <1>2, <2>1, LedKept
<1>4. CASE c = d
  <2>1. (\A u \in Users : role[c][u] = None) /\ \A g \in Handlers : req[g].conv # c
    BY <1>2, <1>4 DEF AloneInv, FreshConv
  <2>2. \A g \in Handlers : req'[g].conv = c => req'[g].at = "add"
    BY <1>1, <1>4, <2>1 DEF Others
  <2>3. ASSUME kind'[c] \in {"group", "public"} PROVE Founding(h, c)'
    <3>1. req[h].about = {}
      BY <1>2, <1>4, <2>3
    <3>2. <<req[h].user, "admin">> \in req[h].add
      BY <1>1, <3>1 DEF AdminInv, AdminReq, Founds
    <3> QED
      BY <1>1, <1>4, <3>2 DEF Founding
  <2>4. \A u \in Users : role'[c][u] = None
    BY <1>2, <2>1
  <2> QED
    BY <2>2, <2>3, <2>4 DEF ConvLed, Founding
<1> QED
  BY <1>3, <1>4

LEMMA AddLed ==
  ASSUME TypeInv, AloneInv, AdminInv, NEW c \in Convs, ConvLed(c), c \notin raced,
         NEW h \in Handlers, AddMember(h), ~incident'
  PROVE  ConvLed(c)'
<1>r. role \in [Convs -> [Users -> Roles \cup {None}]]
  BY Typed DEF Stored
<1>1. /\ Others(h) /\ req[h].at = "add" /\ kind' = kind
  BY AddReq DEF AddMember
<1>2. PICK x \in req[h].add :
        /\ x \in Users \X Roles
        /\ x[1] = req[h].user \/ req[h].user \notin {y[1] : y \in req[h].add}
        /\ AddConversationMember(req[h].conv, x[1], x[2])
        /\ \/ req'[h] = Idle
           \/ req'[h].at = "add" /\ req'[h].conv = req[h].conv
  BY AddReq DEF SameSubject
<1>3. CASE req[h].conv # c
  <2>1. \A u \in Users : role'[c][u] = role[c][u]
    BY <1>r, <1>2, <1>3 DEF AddConversationMember
  <2>2. ~Founding(h, c)
    BY <1>3 DEF Founding
  <2>3. req'[h].at \notin {"remove", "role"}
    BY <1>2, IdleFields
  <2> QED
    BY <1>1, <2>1, <2>2, <2>3, LedKept
<1>4. CASE req[h].conv = c
  <2>1. \A g \in Handlers : req'[g].conv = c => req'[g].at \notin {"remove", "role"}
    <3> SUFFICES ASSUME NEW g \in Handlers, req'[g].conv = c, req'[g].at \in {"remove", "role"} PROVE FALSE
      OBVIOUS
    <3>1. g # h
      BY <1>2, IdleFields
    <3>2. req[g] = req'[g]
      BY <1>1, <3>1 DEF Others
    <3> QED
      BY <1>1, <1>4, <3>1, <3>2, OneWorks
  <2>2. role' = [role EXCEPT ![c][x[1]] = IF IsMember(c, x[1]) THEN role[c][x[1]] ELSE x[2]]
    BY <1>2, <1>4 DEF AddConversationMember
  <2>3. \A u \in Users : role[c][u] # None => role'[c][u] = role[c][u]
    BY <1>r, <1>2, <2>2 DEF IsMember
  <2>4. HasAdmin(c) => HasAdmin(c)'
    BY <2>3 DEF HasAdmin
  <2>5. ASSUME kind[c] \in {"group", "public"}, ~HasAdmin(c) PROVE HasAdmin(c)'
    <3>1. PICK g \in Handlers : Founding(g, c)
      BY <2>5 DEF ConvLed, Founding
    <3>2. \A u \in Users : role[c][u] = None
      BY <2>5 DEF ConvLed
    <3>3. g = h
      BY <1>1, <1>4, <3>1, OneWorks DEF Founding
    <3>4. <<req[h].user, "admin">> \in req[h].add
      BY <3>1, <3>3 DEF Founding
    <3>5. Founds(req[h])
      BY <1>1, <3>4 DEF AdminInv, AdminReq
    <3>6. req[h].user \in {y[1] : y \in req[h].add}
      BY <3>4
    <3>7. x[1] = req[h].user /\ x[2] = "admin"
      BY <1>2, <3>5, <3>6 DEF Founds
    <3>8. role'[c][x[1]] = "admin" /\ x[1] \in Users
      BY <1>r, <1>2, <2>2, <3>2, <3>7 DEF IsMember
    <3> QED
      BY <3>8 DEF HasAdmin
  <2> QED
    BY <1>1, <2>1, <2>4, <2>5 DEF ConvLed
<1> QED
  BY <1>3, <1>4

LEMMA PublishLed ==
  ASSUME TypeInv, AloneInv, PairInv, NEW c \in Convs, ConvLed(c), c \notin raced,
         NEW h \in Handlers, Publish(h)
  PROVE  ConvLed(c)'
<1>1. Others(h) /\ req'[h] = Idle /\ role' = role /\ req[h].at = "add" /\ req[h].add = {}
  BY AnswerReq DEF Publish
<1>2. \A d \in Convs : kind'[d] = kind[d] \/ (d = req[h].conv /\ kind'[d] = "public")
  BY Typed DEF Publish, SetConversationVisibility, Stored
<1>3. ~Founding(h, c)
  BY <1>1 DEF Founding
<1>4. CASE req[h].conv # c
  BY <1>1, <1>2, <1>3, <1>4, IdleFields, LedKept
<1>5. CASE req[h].conv = c
  <2>1. kind[c] \in {"group", "public"}
    <3>1. kind[c] # "dm"
      BY <1>1, <1>5 DEF PairInv, PairReq, Adds
    <3>2. kind[c] # "none"
      BY <1>5 DEF AloneInv, FreshConv
    <3> QED
      BY <3>1, <3>2, Typed DEF Stored, Kinds
  <2>2. HasAdmin(c)
    <3> SUFFICES ASSUME ~HasAdmin(c) PROVE FALSE
      OBVIOUS
    <3>1. PICK g \in Handlers : Founding(g, c)
      BY <2>1 DEF ConvLed, Founding
    <3>2. g = h
      BY <1>1, <1>5, <3>1, OneWorks DEF Founding
    <3> QED
      BY <1>3, <3>1, <3>2
  <2>3. HasAdmin(c)'
    BY <1>1, <2>2 DEF HasAdmin
  <2>4. \A g \in Handlers : req'[g].conv = c => req'[g].at \notin {"remove", "role"}
    <3> SUFFICES ASSUME NEW g \in Handlers, req'[g].conv = c, req'[g].at \in {"remove", "role"} PROVE FALSE
      OBVIOUS
    <3>1. g # h
      BY <1>1, IdleFields
    <3>2. req[g] = req'[g]
      BY <1>1, <3>1 DEF Others
    <3> QED
      BY <1>1, <1>5, <3>1, <3>2, OneWorks
  <2> QED
    BY <2>3, <2>4 DEF ConvLed
<1> QED
  BY <1>4, <1>5

(* Somebody is no longer a member, or of another role.                     *)
LEMMA ChangeLed ==
  ASSUME TypeInv, AloneInv, PairInv, NEW c \in Convs, ConvLed(c), c \notin raced \cup emptied',
         NEW h \in Handlers, RemoveConversationMember(h) \/ SetConversationMemberRole(h)
  PROVE  ConvLed(c)'
<1>r. role \in [Convs -> [Users -> Roles \cup {None}]]
  BY Typed DEF Stored
<1>1. Others(h) /\ req'[h] = Idle /\ kind' = kind /\ req[h].at \in {"remove", "role"}
  BY AnswerReq DEF RemoveConversationMember, SetConversationMemberRole
<1>2. ~Founding(h, c)
  BY <1>1 DEF Founding
<1>3. PICK u \in Users : u = req[h].user
  BY <1>1, ReqOf DEF Shape
<1>4. CASE req[h].conv # c
  <2>1. \A v \in Users : role'[c][v] = role[c][v]
    BY <1>r, <1>4 DEF RemoveConversationMember, SetConversationMemberRole
  <2> QED
    BY <1>1, <1>2, <2>1, IdleFields, LedKept
<1>5. CASE req[h].conv = c
  <2>1. \A v \in Users \ {u} : role'[c][v] = role[c][v]
    BY <1>r, <1>3, <1>5 DEF RemoveConversationMember, SetConversationMemberRole
  <2>2. \A g \in Handlers : req'[g].conv = c => req'[g].at \notin {"remove", "role"}
    <3> SUFFICES ASSUME NEW g \in Handlers, req'[g].conv = c, req'[g].at \in {"remove", "role"} PROVE FALSE
      OBVIOUS
    <3>1. g # h
      BY <1>1, IdleFields
    <3>2. req[g] = req'[g]
      BY <1>1, <3>1 DEF Others
    <3> QED
      BY <1>1, <1>5, <3>1, <3>2, OneWorks
  <2>3. ASSUME kind[c] \in {"group", "public"} PROVE HasAdmin(c)
    <3> SUFFICES ASSUME ~HasAdmin(c) PROVE FALSE
      OBVIOUS
    <3>1. PICK g \in Handlers : Founding(g, c)
      BY <2>3 DEF ConvLed, Founding
    <3>2. g = h
      BY <1>1, <1>5, <3>1, OneWorks DEF Founding
    <3> QED
      BY <1>2, <3>1, <3>2
  <2>4. Led(c, u) \/ (req[h].at = "role" /\ role'[c][u] = role[c][u])
                  \/ (req[h].at = "role" /\ role'[c][u] = "admin")
    <3>1. CASE req[h].at = "remove"
      <4>1. RemoveConversationMember(h)
        BY <3>1 DEF SetConversationMemberRole
      <4>2. ~(ConversationMemberIDs(c) \subseteq {u})
        BY <1>3, <1>5, <4>1, Typed DEF RemoveConversationMember, Stored
      <4> QED
        BY <1>3, <1>5, <3>1, <4>2 DEF ConvLed
    <3>2. CASE req[h].at = "role"
      <4>1. role' = [role EXCEPT ![c][u] = IF role[c][u] = None THEN role[c][u] ELSE req[h].role]
        BY <1>3, <1>5, <3>2 DEF SetConversationMemberRole, RemoveConversationMember
      <4>2. role'[c][u] = IF role[c][u] = None THEN role[c][u] ELSE req[h].role
        BY <1>r, <4>1
      <4>3. req[h].role \in {"member", "admin"}
        BY ReqOf DEF Req, Roles
      <4>4. req[h].role = "member" => Led(c, u)
        BY <1>3, <1>5, <3>2 DEF ConvLed
      <4> QED
        BY <3>2, <4>2, <4>3, <4>4
    <3> QED
      BY <1>1, <3>1, <3>2
  <2>5. HasAdmin(c) => HasAdmin(c)'
    <3> SUFFICES ASSUME NEW a \in Users, role[c][a] = "admin" PROVE \E b \in Users : role'[c][b] = "admin"
      BY DEF HasAdmin
    <3>1. CASE a # u
      BY <2>1, <3>1
    <3>2. CASE a = u
      <4>1. CASE Led(c, u)
        BY <2>1, <3>2, <4>1 DEF Led
      <4> QED
        BY <2>4, <3>2, <4>1
    <3> QED
      BY <3>1, <3>2
  <2> QED
    BY <1>1, <2>2, <2>3, <2>5 DEF ConvLed
<1> QED
  BY <1>4, <1>5

LEMMA NextConvLed ==
  ASSUME TypeInv, AloneInv, PairInv, AdminInv, Next, ~incident', NEW c \in Convs \ (raced' \cup emptied')
  PROVE  ConvLed(c)'
<1>a. ASSUME raced \subseteq raced', emptied \subseteq emptied', incident => incident'
      PROVE  ConvLed(c) /\ c \in Convs /\ c \notin raced /\ c \notin emptied
  BY <1>a DEF AdminInv
<1>1. ASSUME NEW h \in Handlers, Requested(h) PROVE ConvLed(c)'
  <2>1. PICK r : Shape(r) /\ Begin(h, r) /\ Asked(r) /\ (incident => incident')
    BY <1>1 DEF Requested
  <2>2. /\ Others(h) /\ req[h] = Idle /\ req'[h] = r /\ UNCHANGED <<kind, role, emptied>> /\ raced \subseteq raced'
    BY <2>1, BeginReq
  <2>3. ConvLed(c)
    BY <1>a, <2>1, <2>2
  <2>4. CASE r.at \notin {"remove", "role"} \/ r.conv # c
    <3>1. ~Founding(h, c)
      BY <2>2, IdleFields DEF Founding
    <3> QED
      BY <2>2, <2>3, <2>4, <3>1, LedKept
  <2>5. CASE r.at \in {"remove", "role"} /\ r.conv = c
    <3>1. \A t \in Users : Led(c, t)' <=> Led(c, t)
      BY <2>2 DEF Led
    <3>2. ConversationMemberIDs(c)' = ConversationMemberIDs(c)
      BY <2>2 DEF ConversationMemberIDs
    <3>3. kind'[c] \in {"group", "public"} =>
            HasAdmin(c)' \/ (/\ \A u \in Users : role'[c][u] = None
                             /\ \E g \in Handlers : Founding(g, c)')
      <4> SUFFICES ASSUME kind[c] \in {"group", "public"}, ~HasAdmin(c)
                   PROVE  /\ \A u \in Users : role[c][u] = None
                          /\ \E g \in Handlers : Founding(g, c)'
        BY <2>2 DEF HasAdmin
      <4>1. (\A u \in Users : role[c][u] = None) /\ \E g \in Handlers : Founding(g, c)
        BY <2>3 DEF ConvLed, Founding
      <4>2. PICK g \in Handlers : Founding(g, c)
        BY <4>1
      <4>3. g # h
        BY <2>2, <4>2, IdleFields DEF Founding
      <4>4. Founding(g, c)'
        BY <2>2, <4>2, <4>3 DEF Founding, Others
      <4> QED
        BY <4>1, <4>4
    <3>4. ASSUME NEW g \in Handlers, req'[g].conv = c, req'[g].at \in {"remove", "role"}
          PROVE  /\ req'[g].at = "remove" => Led(c, req[g].user)' \/ ConversationMemberIDs(c)' \subseteq {req'[g].user}
                 /\ req'[g].at = "role" /\ req'[g].role = "member" => Led(c, req[g].user)'
      <4>1. Shape(req'[g])
        BY <2>1, <2>2, ReqOf DEF Others
      <4>2. PICK t \in Users : t = req'[g].user
        BY <3>4, <4>1 DEF Shape
      <4>3. /\ req'[g].at = "remove" => Led(c, t) \/ ConversationMemberIDs(c) \subseteq {t}
            /\ req'[g].at = "role" /\ req'[g].role = "member" => Led(c, t)
        <5>1. CASE g = h
          BY <2>1, <2>2, <3>4, <4>2, <5>1 DEF Asked
        <5>2. CASE g # h
          <6>1. req'[g] = req[g]
            BY <2>2, <5>2 DEF Others
          <6> QED
            BY <2>3, <3>4, <4>2, <6>1 DEF ConvLed
        <5> QED
          BY <5>1, <5>2
      <4>4. Led(c, req[g].user)' <=> Led(c, t)'
        BY <4>2 DEF Led
      <4> QED
        BY <3>1, <3>2, <4>2, <4>3, <4>4
    <3> QED
      BY <3>3, <3>4 DEF ConvLed, Founding
  <2> QED
    BY <2>2, <2>4, <2>5
<1>2. ASSUME NEW h \in Handlers, NEW d \in Convs, CreateConversation(h, d) PROVE ConvLed(c)'
  BY <1>a, <1>2, CreateLed DEF CreateConversation, history
<1>3. ASSUME NEW h \in Handlers, AddMember(h) PROVE ConvLed(c)'
  <2>1. raced' = raced /\ emptied' = emptied /\ ~incident
    BY <1>3 DEF AddMember
  <2> QED
    BY <1>a, <1>3, <2>1, AddLed
<1>4. ASSUME NEW h \in Handlers, Publish(h) PROVE ConvLed(c)'
  <2>1. raced' = raced /\ emptied' = emptied /\ ~incident
    BY <1>4 DEF Publish
  <2> QED
    BY <1>a, <1>4, <2>1, PublishLed
<1>5. ASSUME NEW h \in Handlers, RemoveConversationMember(h) \/ SetConversationMemberRole(h) PROVE ConvLed(c)'
  <2>1. raced' = raced /\ emptied \subseteq emptied' /\ incident' = incident
    BY <1>5 DEF RemoveConversationMember, SetConversationMemberRole, history
  <2> QED
    BY <1>a, <1>5, <2>1, ChangeLed
<1>6. ASSUME NEW h \in Handlers, Messaged(h) PROVE ConvLed(c)'
  <2>1. /\ Others(h) /\ req[h].at \notin AboutMembers /\ req'[h].at \notin AboutMembers
        /\ UNCHANGED <<kind, role, raced, emptied, missed>> /\ ~incident
    BY <1>6, MessagedFrame
  <2>2. ~Founding(h, c) /\ req'[h].at \notin {"remove", "role"}
    BY <2>1 DEF Founding, AboutMembers
  <2> QED
    BY <1>a, <2>1, <2>2, LedKept
<1>7. ASSUME NEW h \in Handlers, Fail(h) PROVE ConvLed(c)'
  BY <1>7 DEF Fail
<1>8. ASSUME NEW u \in Users, NEW d \in Convs, OpenConversation(u, d) PROVE ConvLed(c)'
  <2>1. UNCHANGED <<kind, role, req, raced, emptied, incident>>
    BY <1>8 DEF OpenConversation, members
  <2>2. ConvLed(c)
    BY <1>a, <2>1
  <2> QED
    BY <2>1, <2>2 DEF ConvLed, HasAdmin, Led, ConversationMemberIDs
<1> QED
  BY <1>1, <1>2, <1>3, <1>4, <1>5, <1>6, <1>7, <1>8, Steps DEF Membered

LEMMA NextAdminInv == TypeInv /\ AloneInv /\ PairInv /\ AdminInv /\ [Next]_vars => AdminInv'
<1>1. TypeInv /\ AloneInv /\ PairInv /\ AdminInv /\ Next => AdminInv'
  <2> SUFFICES ASSUME TypeInv, AloneInv, PairInv, AdminInv, Next PROVE AdminInv'
    OBVIOUS
  <2>1. \A h \in Handlers : AdminReq(req[h])'
    BY NextAdminReq
  <2>2. ~incident' => \A c \in Convs \ (raced' \cup emptied') : ConvLed(c)'
    BY NextConvLed
  <2> QED
    BY <2>1, <2>2 DEF AdminInv
<1>2. AdminInv /\ UNCHANGED vars => AdminInv'
  BY DEF AdminInv, vars, members, history, AdminReq, Founds, ConvLed, HasAdmin, Led, ConversationMemberIDs
<1> QED
  BY <1>1, <1>2

(* A group with members has an admin (chat.go:764, 806), unless two        *)
(* requests changed its members at a time, a step failed, or everybody had *)
(* left.                                                                   *)
THEOREM GroupsAreLed == Spec => []AdminKept
<1>1. Init => AdminInv
  BY InitAdminInv
<1>2. IInv /\ AdminInv /\ [Next]_vars => AdminInv'
  BY NextAdminInv DEF IInv
<1>3. AdminInv => AdminKept
  <2> SUFFICES ASSUME AdminInv, ~incident, NEW c \in Convs \ (raced \cup emptied),
                      kind[c] \in {"group", "public"}, ConversationMemberIDs(c) # {},
                      \A h \in Handlers : req[h].conv = c => req[h].at # "add"
               PROVE  Admins(c) # {}
    BY DEF AdminKept
  <2>1. ConvLed(c)
    BY DEF AdminInv
  <2>2. \E u \in Users : role[c][u] # None
    BY DEF ConversationMemberIDs
  <2>3. HasAdmin(c)
    BY <2>1, <2>2 DEF ConvLed
  <2> QED
    BY <2>3 DEF HasAdmin, Admins
<1> QED
  BY <1>1, <1>2, <1>3, IInvHolds, PTL DEF Spec

-----------------------------------------------------------------------------
(* Files                                                                   *)

(* FileInv, part by part.                                                  *)
LEMMA FileParts ==
  ASSUME FileInv
  PROVE  /\ \A g \in Handlers : FileReq(req[g])
         /\ \A f \in Files : FileOf(f)
         /\ ~incident => \A f \in Files : Kept(f)
BY DEF FileInv

LEMMA InitFileInv == Init => FileInv
<1> SUFFICES ASSUME Init PROVE FileInv
  OBVIOUS
<1>1. /\ req = [h \in Handlers |-> Idle]
      /\ msg = [m \in Messages |-> NoMessage("free")]
      /\ files = [f \in Files |-> "free"]
  BY Zenon DEF Init
<1>2. \A m \in Messages : msg[m].file = None
  BY <1>1 DEF NoMessage
<1>3. \A h \in Handlers : req[h].at = "idle" /\ req[h].file = None
  BY <1>1, IdleFields
<1>4. \A h \in Handlers : FileReq(req[h])
  BY <1>3 DEF FileReq
<1>5. \A f \in Files : files[f] = "free" /\ f # None
  BY <1>1
<1> QED
  BY <1>2, <1>3, <1>4, <1>5 DEF FileInv, FileOf, Holds, Drops, Kept

(* Steps of a request that has nothing to do with a file any more.         *)
LEMMA FileShrink ==
  ASSUME TypeInv, FileInv, NEW h \in Handlers, Others(h), files' = files, photos' = photos,
         \A m \in Messages : msg'[m].file = msg[m].file /\ msg'[m].is = msg[m].is,
         req'[h].at \notin Carry \cup {"store"},
         ~incident' => ~incident /\ req[h].at \notin {"post", "unlink"}
  PROVE  FileInv'
<1>1. /\ \A g \in Handlers : FileReq(req[g])
      /\ \A f \in Files : FileOf(f)
      /\ ~incident => \A f \in Files : Kept(f)
  BY FileParts
<1>2. \A g \in Handlers \ {h} : req'[g] = req[g]
  BY DEF Others
<1>3. ASSUME NEW g \in Handlers PROVE FileReq(req[g])'
  <2>1. FileReq(req[g]) /\ FileReq(req[h]) /\ Shape(req[g])
    BY <1>1, ReqOf
  <2>2. CASE g # h
    <3>1. req[g].at = "delete" => req[g].msg \in Messages
      BY <2>1 DEF Shape, OnMessage
    <3> QED
      BY <1>2, <2>1, <2>2, <3>1 DEF FileReq
  <2>3. CASE g = h
    BY <2>3 DEF FileReq, Carry
  <2> QED
    BY <2>2, <2>3
<1>4. ASSUME NEW f \in Files PROVE FileOf(f)'
  <2>1. \A g \in Handlers : /\ Holds(req'[g], f) => Holds(req[g], f)
                            /\ Drops(req'[g], f) => Drops(req[g], f) /\ req'[g] = req[g]
    BY <1>2 DEF Holds, Drops, Carry
  <2>2. FileOf(f)
    BY <1>1
  <2> QED
    BY <2>1, <2>2 DEF FileOf
<1>5. ~incident' => \A f \in Files : Kept(f)'
  <2> SUFFICES ASSUME ~incident', NEW f \in Files, files[f] = "stored", f \notin photos
               PROVE  \/ \E m \in Messages : msg[m].file = f
                      \/ \E g \in Handlers : req'[g].file = f /\ req'[g].at \in {"post", "unlink"}
    BY DEF Kept
  <2>1. \/ \E m \in Messages : msg[m].file = f
        \/ \E g \in Handlers : req[g].file = f /\ req[g].at \in {"post", "unlink"}
    BY <1>1 DEF Kept
  <2> QED
    BY <1>2, <2>1
<1> QED
  BY <1>3, <1>4, <1>5 DEF FileInv

LEMMA RequestedFileInv ==
  ASSUME TypeInv, FileInv, NEW h \in Handlers, Requested(h)
  PROVE  FileInv'
<1>1. /\ \A g \in Handlers : FileReq(req[g])
      /\ \A f \in Files : FileOf(f)
      /\ ~incident => \A f \in Files : Kept(f)
  BY FileParts
<1>2. PICK r : Shape(r) /\ Begin(h, r) /\ Asked(r) /\ (incident => incident')
  BY DEF Requested
<1>3. /\ \A g \in Handlers \ {h} : req'[g] = req[g]
      /\ req[h] = Idle /\ req'[h] = r
      /\ UNCHANGED <<msg, files, photos>>
  BY <1>2, BeginReq DEF Others
<1>4. r.at \notin {"photo", "unlink"} /\ (r.at = "store" => r.file = None) /\ (r.at = "post" => r.file = None)
  BY <1>2 DEF Asked
<1>5. r.at = "copy" => r.file \in Files /\ files[r.file] = "stored"
  <2>1. r.at = "copy" => r.file # None /\ \E m \in Messages : msg[m].file = r.file
    BY <1>2 DEF Asked
  <2>2. r.file \in Files \cup {None}
    BY <1>2 DEF Shape, Req
  <2> QED
    BY <1>1, <2>1, <2>2 DEF FileOf
<1>6. r.at = "delete" => /\ r.msg \in Messages /\ r.file = msg[r.msg].file
                         /\ r.file # None => r.file \in Files /\ files[r.file] = "stored"
  <2>1. r.at = "delete" => r.msg \in Messages /\ r.file = msg[r.msg].file
    BY <1>2 DEF Asked, Shape, OnMessage
  <2>2. r.file \in Files \cup {None}
    BY <1>2 DEF Shape, Req
  <2> QED
    BY <1>1, <2>1, <2>2 DEF FileOf
<1>7. FileReq(r)
  BY <1>4, <1>5, <1>6 DEF FileReq, Carry
<1>8. ASSUME NEW g \in Handlers PROVE FileReq(req[g])'
  <2>1. FileReq(req'[g])
    BY <1>1, <1>3, <1>7
  <2> QED
    BY <1>3, <2>1 DEF FileReq
<1>9. ASSUME NEW f \in Files PROVE FileOf(f)'
  <2>1. f # None /\ FileOf(f)
    BY <1>1
  <2>2. ~Holds(r, f)
    BY <1>4, <2>1 DEF Holds
  <2>3. Drops(r, f) => /\ r.at = "delete" /\ r.msg \in Messages /\ msg[r.msg].file = f
    BY <1>4, <1>6 DEF Drops
  <2>4. \A m \in Messages : msg[m].file = f /\ Drops(r, f) => r.at = "delete" /\ r.msg = m
    BY <2>1, <2>3 DEF FileOf
  <2>5. \A g \in Handlers : Holds(req[g], f) => ~Drops(r, f)
    BY <2>1, <2>3 DEF FileOf
  <2>6. \A g \in Handlers : Holds(req'[g], f) => g # h /\ Holds(req[g], f)
    BY <1>3, <2>2
  <2>7. ASSUME NEW m \in Messages, msg[m].file = f
        PROVE  /\ files[f] = "stored"
               /\ \A n \in Messages \ {m} : msg[n].file # f
               /\ \A g \in Handlers : /\ ~Holds(req'[g], f)
                                      /\ Drops(req'[g], f) => req'[g].at = "delete" /\ req'[g].msg = m
    <3>1. \A g \in Handlers : ~Holds(req'[g], f)
      BY <2>1, <2>6, <2>7 DEF FileOf
    <3>2. \A g \in Handlers : Drops(req'[g], f) => req'[g].at = "delete" /\ req'[g].msg = m
      BY <1>3, <2>1, <2>4, <2>7 DEF FileOf
    <3> QED
      BY <2>1, <2>7, <3>1, <3>2 DEF FileOf
  <2>8. ASSUME NEW k \in Handlers, Holds(req'[k], f)
        PROVE  /\ files[f] = "stored"
               /\ \A g \in Handlers \ {k} : ~Holds(req'[g], f)
               /\ \A g \in Handlers : ~Drops(req'[g], f)
    <3>1. k # h /\ Holds(req[k], f)
      BY <2>6, <2>8
    <3>2. \A g \in Handlers \ {k} : ~Holds(req'[g], f)
      BY <2>1, <2>6, <3>1 DEF FileOf
    <3>3. \A g \in Handlers : ~Drops(req'[g], f)
      BY <1>3, <2>1, <2>5, <3>1 DEF FileOf
    <3> QED
      BY <2>1, <3>1, <3>2, <3>3 DEF FileOf
  <2>9. files[f] = "free" => \A m \in Messages : msg[m].file # f
    BY <2>1 DEF FileOf
  <2> QED
    BY <1>3, <2>7, <2>8, <2>9 DEF FileOf
<1>10. ~incident' => \A f \in Files : Kept(f)'
  <2> SUFFICES ASSUME ~incident', NEW f \in Files, files[f] = "stored", f \notin photos
               PROVE  \/ \E m \in Messages : msg[m].file = f
                      \/ \E g \in Handlers : req'[g].file = f /\ req'[g].at \in {"post", "unlink"}
    BY <1>3 DEF Kept
  <2>1. \/ \E m \in Messages : msg[m].file = f
        \/ \E g \in Handlers : req[g].file = f /\ req[g].at \in {"post", "unlink"}
    BY <1>1, <1>2 DEF Kept
  <2> QED
    BY <1>3, <2>1, IdleFields
<1> QED
  BY <1>8, <1>9, <1>10 DEF FileInv

(* A request has a new file, ...                                           *)
LEMMA NewFile ==
  ASSUME TypeInv, FileInv, NEW h \in Handlers, NEW f \in Files, Others(h),
         req[h].at \in {"store", "copy"}, files[f] = "free", files' = [files EXCEPT ![f] = "stored"],
         msg' = msg, req'[h].file = f, req'[h].at \in {"post", "photo"},
         photos \subseteq photos', req'[h].at = "photo" => f \in photos', incident' = incident
  PROVE  FileInv'
<1>1. /\ \A g \in Handlers : FileReq(req[g])
      /\ \A e \in Files : FileOf(e)
      /\ ~incident => \A e \in Files : Kept(e)
  BY FileParts
<1>2. \A g \in Handlers \ {h} : req'[g] = req[g]
  BY DEF Others
<1>3. /\ \A e \in Files \ {f} : files'[e] = files[e]
      /\ files'[f] = "stored" /\ f # None
  BY Typed DEF Stored
<1>4. \A g \in Handlers : req[g].file \in Files \cup {None}
  BY ReqOf DEF Req
<1>5. ASSUME NEW g \in Handlers PROVE FileReq(req[g])'
  <2>1. CASE g # h
    <3>1. FileReq(req[g]) /\ req'[g] = req[g]
      BY <1>1, <1>2, <2>1
    <3>2. req[g].at \in Carry /\ req[g].file # None => files'[req[g].file] # "free"
      BY <1>3, <1>4, <3>1 DEF FileReq
    <3> QED
      BY <3>1, <3>2 DEF FileReq
  <2>2. CASE g = h
    BY <1>3, <2>2 DEF FileReq
  <2> QED
    BY <2>1, <2>2
<1>6. ASSUME NEW e \in Files PROVE FileOf(e)'
  <2>1. CASE e # f
    <3>1. \A g \in Handlers : /\ Holds(req'[g], e) => Holds(req[g], e)
                              /\ Drops(req'[g], e) => Drops(req[g], e) /\ req'[g] = req[g]
      BY <1>2, <2>1 DEF Holds, Drops
    <3>2. FileOf(e) /\ files'[e] = files[e]
      BY <1>1, <1>3, <2>1
    <3> QED
      BY <3>1, <3>2 DEF FileOf
  <2>2. CASE e = f
    <3>1. \A m \in Messages : msg[m].file # f
      BY <1>1 DEF FileOf
    <3>2. \A g \in Handlers \ {h} : ~Holds(req'[g], f) /\ ~Drops(req'[g], f)
      <4> TAKE g \in Handlers \ {h}
      <4>1. req[g].at \in Carry /\ req[g].file # None => files[req[g].file] # "free"
        BY <1>1 DEF FileReq
      <4> QED
        BY <1>2, <1>3, <4>1 DEF Holds, Drops, Carry
    <3>3. ~Drops(req'[h], f)
      BY DEF Drops
    <3> QED
      BY <1>3, <2>2, <3>1, <3>2, <3>3 DEF FileOf
  <2> QED
    BY <2>1, <2>2
<1>7. ~incident' => \A e \in Files : Kept(e)'
  <2> SUFFICES ASSUME ~incident, NEW e \in Files, files'[e] = "stored", e \notin photos'
               PROVE  \/ \E m \in Messages : msg[m].file = e
                      \/ \E g \in Handlers : req'[g].file = e /\ req'[g].at \in {"post", "unlink"}
    BY DEF Kept
  <2>1. CASE e = f
    BY <2>1
  <2>2. CASE e # f
    <3>1. \/ \E m \in Messages : msg[m].file = e
          \/ \E g \in Handlers : req[g].file = e /\ req[g].at \in {"post", "unlink"}
      BY <1>1, <1>3, <2>2 DEF Kept
    <3> QED
      BY <1>2, <3>1
  <2> QED
    BY <2>1, <2>2
<1> QED
  BY <1>5, <1>6, <1>7 DEF FileInv

(* ... or none.                                                            *)
LEMMA NoFile ==
  ASSUME TypeInv, FileInv, NEW h \in Handlers, Others(h),
         req[h].at = "copy", req'[h].at = "post", req'[h].file = None,
         msg' = msg, photos' = photos,
         \A f \in Files : files'[f] = files[f] \/ (files[f] = "free" /\ files'[f] = "stored"),
         ~incident' => ~incident /\ files' = files
  PROVE  FileInv'
<1>1. /\ \A g \in Handlers : FileReq(req[g])
      /\ \A e \in Files : FileOf(e)
      /\ ~incident => \A e \in Files : Kept(e)
  BY FileParts
<1>2. \A g \in Handlers \ {h} : req'[g] = req[g]
  BY DEF Others
<1>4. \A g \in Handlers : req[g].file \in Files \cup {None}
  BY ReqOf DEF Req
<1>5. ASSUME NEW g \in Handlers PROVE FileReq(req[g])'
  <2>1. CASE g # h
    <3>1. FileReq(req[g]) /\ req'[g] = req[g]
      BY <1>1, <1>2, <2>1
    <3>2. req[g].at \in Carry /\ req[g].file # None => files'[req[g].file] # "free"
      BY <1>4, <3>1 DEF FileReq
    <3> QED
      BY <3>1, <3>2 DEF FileReq
  <2>2. CASE g = h
    BY <2>2 DEF FileReq
  <2> QED
    BY <2>1, <2>2
<1>6. ASSUME NEW e \in Files PROVE FileOf(e)'
  <2>0. e # None
    OBVIOUS
  <2>1. \A g \in Handlers : /\ Holds(req'[g], e) => Holds(req[g], e)
                            /\ Drops(req'[g], e) => Drops(req[g], e) /\ req'[g] = req[g]
    BY <1>2, <2>0 DEF Holds, Drops
  <2>2. FileOf(e) /\ (files'[e] = "free" => files[e] = "free") /\ (files[e] = "stored" => files'[e] = "stored")
    BY <1>1
  <2> QED
    BY <2>1, <2>2 DEF FileOf
<1>7. ~incident' => \A e \in Files : Kept(e)'
  <2> SUFFICES ASSUME ~incident', NEW e \in Files, files[e] = "stored", e \notin photos
               PROVE  \/ \E m \in Messages : msg[m].file = e
                      \/ \E g \in Handlers : req'[g].file = e /\ req'[g].at \in {"post", "unlink"}
    BY DEF Kept
  <2>1. \/ \E m \in Messages : msg[m].file = e
        \/ \E g \in Handlers : req[g].file = e /\ req[g].at \in {"post", "unlink"}
    BY <1>1 DEF Kept
  <2> QED
    BY <1>2, <2>1
<1> QED
  BY <1>5, <1>6, <1>7 DEF FileInv

(* FileInv, action by action.                                              *)
LEMMA StoreFileInv ==
  ASSUME TypeInv, FileInv, NEW h \in Handlers, NEW f \in Files, StoreFile(h, f) \/ CopyFile(h, f)
  PROVE  FileInv'
<1>1. CASE StoreFile(h, f)
  <2>1. /\ Others(h) /\ req[h].at = "store" /\ req'[h].file = f
        /\ req'[h].at = (IF req[h].on THEN "photo" ELSE "post")
    BY <1>1, StoreReq
  <2>2. /\ files[f] = "free" /\ files' = [files EXCEPT ![f] = "stored"] /\ msg' = msg /\ incident' = incident
        /\ photos' = (IF req[h].on THEN photos \cup {f} ELSE photos)
    BY <1>1 DEF StoreFile, posts
  <2> QED
    BY <2>1, <2>2, NewFile
<1>2. CASE CopyFile(h, f)
  <2>1. /\ Others(h) /\ req[h].at = "copy" /\ files[f] = "free" /\ req'[h].at = "post"
        /\ \/ /\ req'[h].file = f /\ incident' = incident
              /\ files' = [files EXCEPT ![f] = "stored"]
           \/ req'[h].file = None /\ files' = files /\ incident' = incident
           \/ req'[h].file = None /\ incident' = TRUE /\ files' \in {files, [files EXCEPT ![f] = "stored"]}
    BY <1>2, CopyReq
  <2>2. msg' = msg /\ photos' = photos
    BY <1>2 DEF CopyFile, posts
  <2>3. CASE req'[h].file = f /\ incident' = incident /\ files' = [files EXCEPT ![f] = "stored"]
    BY <2>1, <2>2, <2>3, NewFile
  <2>4. CASE req'[h].file = None /\ files' = files /\ incident' = incident
    BY <2>1, <2>2, <2>4, NoFile
  <2>5. CASE req'[h].file = None /\ incident' = TRUE /\ files' \in {files, [files EXCEPT ![f] = "stored"]}
    <3>1. \A e \in Files : files'[e] = files[e] \/ (files[e] = "free" /\ files'[e] = "stored")
      BY <2>1, <2>5, Typed DEF Stored
    <3> QED
      BY <2>1, <2>2, <2>5, <3>1, NoFile
  <2> QED
    BY <2>1, <2>3, <2>4, <2>5
<1> QED
  BY <1>1, <1>2

LEMMA PostFileInv ==
  ASSUME TypeInv, AloneInv, FileInv, NEW h \in Handlers, NEW m \in Messages, CreateMessage(h, m)
  PROVE  FileInv'
<1>1. /\ \A g \in Handlers : FileReq(req[g])
      /\ \A e \in Files : FileOf(e)
      /\ ~incident => \A e \in Files : Kept(e)
  BY FileParts
<1>2. /\ \A g \in Handlers \ {h} : req'[g] = req[g]
      /\ req[h].at = "post" /\ req'[h].at = "reread"
  BY CreateMessageReq DEF Others
<1>3. /\ msg[m].is = "free" /\ msg'[m].file = req[h].file /\ \A n \in Messages \ {m} : msg'[n] = msg[n]
      /\ msg[m].file = None
  <2>1. msg[m].is = "free" /\ msg'[m].file = req[h].file /\ \A n \in Messages \ {m} : msg'[n] = msg[n]
    BY CreateRow
  <2>2. RowOK(m)
    BY Typed DEF Stored
  <2> QED
    BY <2>1, <2>2 DEF RowOK
<1>4. UNCHANGED <<files, photos, incident>>
  BY DEF CreateMessage, history
<1>5. ASSUME NEW g \in Handlers PROVE FileReq(req[g])'
  <2>1. CASE g # h
    <3>1. FileReq(req[g]) /\ Shape(req[g]) /\ req'[g] = req[g]
      BY <1>1, <1>2, <2>1, ReqOf
    <3>2. req[g].at = "delete" => req[g].msg \in Messages \ {m}
      <4>1. m \notin req[g].about
        BY <1>3 DEF AloneInv, FreshMessage
      <4> QED
        BY <3>1, <4>1 DEF Shape, OnMessage
    <3> QED
      BY <1>3, <1>4, <3>1, <3>2 DEF FileReq
  <2>2. CASE g = h
    BY <1>2, <2>2 DEF FileReq, Carry
  <2> QED
    BY <2>1, <2>2
<1>6. ASSUME NEW e \in Files PROVE FileOf(e)'
  <2>1. \A g \in Handlers : /\ Holds(req'[g], e) => Holds(req[g], e) /\ g # h
                            /\ Drops(req'[g], e) => Drops(req[g], e) /\ req'[g] = req[g]
    BY <1>2 DEF Holds, Drops
  <2>2. FileOf(e) /\ e # None
    BY <1>1
  <2>3. CASE req[h].file # e
    <3>1. \A n \in Messages : msg'[n].file = e => msg[n].file = e
      BY <1>3, <2>3
    <3> QED
      BY <1>4, <2>1, <2>2, <3>1 DEF FileOf
  <2>4. CASE req[h].file = e
    <3>1. Holds(req[h], e)
      BY <1>2, <2>4 DEF Holds
    <3>2. /\ files[e] = "stored"
          /\ \A g \in Handlers \ {h} : ~Holds(req[g], e)
          /\ \A g \in Handlers : ~Drops(req[g], e)
      BY <2>2, <3>1 DEF FileOf
    <3>3. \A n \in Messages : msg[n].file # e
      BY <2>2, <3>1 DEF FileOf
    <3>4. \A n \in Messages : msg'[n].file = e <=> n = m
      BY <1>3, <2>4, <3>3
    <3>5. \A g \in Handlers : ~Holds(req'[g], e) /\ ~Drops(req'[g], e)
      BY <2>1, <3>2
    <3> QED
      BY <1>4, <3>2, <3>4, <3>5 DEF FileOf
  <2> QED
    BY <2>3, <2>4
<1>7. ~incident' => \A e \in Files : Kept(e)'
  <2> SUFFICES ASSUME ~incident, NEW e \in Files, files[e] = "stored", e \notin photos
               PROVE  \/ \E n \in Messages : msg'[n].file = e
                      \/ \E g \in Handlers : req'[g].file = e /\ req'[g].at \in {"post", "unlink"}
    BY <1>4 DEF Kept
  <2>1. CASE \E n \in Messages : msg[n].file = e
    BY <1>3, <2>1
  <2>2. CASE \E g \in Handlers : req[g].file = e /\ req[g].at \in {"post", "unlink"}
    <3>1. PICK g \in Handlers : req[g].file = e /\ req[g].at \in {"post", "unlink"}
      BY <2>2
    <3>2. CASE g = h
      BY <1>3, <3>1, <3>2
    <3>3. CASE g # h
      BY <1>2, <3>1, <3>3
    <3> QED
      BY <3>2, <3>3
  <2> QED
    BY <1>1, <2>1, <2>2 DEF Kept
<1> QED
  BY <1>5, <1>6, <1>7 DEF FileInv

LEMMA DeleteFileInv ==
  ASSUME TypeInv, FileInv, NEW h \in Handlers, DeleteMessage(h)
  PROVE  FileInv'
<1>1. /\ \A g \in Handlers : FileReq(req[g])
      /\ \A e \in Files : FileOf(e)
      /\ ~incident => \A e \in Files : Kept(e)
  BY FileParts
<1>2. /\ req[h].msg \in Messages /\ req[h].at = "delete"
      /\ Goto(h, IF req[h].file = None THEN "tell" ELSE "unlink")
      /\ \A n \in Messages \ {req[h].msg} : msg'[n] = msg[n]
      /\ msg'[req[h].msg].is = "deleted" /\ msg'[req[h].msg].file = None
  BY DeleteRow
<1>3. /\ \A g \in Handlers \ {h} : req'[g] = req[g]
      /\ req'[h].at = (IF req[h].file = None THEN "tell" ELSE "unlink")
      /\ req'[h].file = req[h].file /\ req'[h].msg = req[h].msg
  BY <1>2, GotoReq DEF Others, SameSubject, SameData
<1>4. UNCHANGED <<files, photos, incident>>
  BY DEF DeleteMessage, history
<1>5. \A e \in Files : msg[req[h].msg].file = e => req[h].file = e
  <2>1. msg[req[h].msg].is = "row" => msg[req[h].msg].file = req[h].file
    BY <1>1, <1>2 DEF FileReq
  <2>2. msg[req[h].msg].is # "row" => msg[req[h].msg].file = None
    BY <1>2, Typed DEF Stored, RowOK
  <2> QED
    BY <2>1, <2>2
<1>6. ASSUME NEW g \in Handlers PROVE FileReq(req[g])'
  <2>1. CASE g # h
    <3>1. FileReq(req[g]) /\ Shape(req[g]) /\ req'[g] = req[g]
      BY <1>1, <1>3, <2>1, ReqOf
    <3>2. req[g].at = "delete" => req[g].msg \in Messages
      BY <3>1 DEF Shape, OnMessage
    <3> QED
      BY <1>2, <1>4, <3>1, <3>2 DEF FileReq
  <2>2. CASE g = h
    <3>1. FileReq(req[h]) /\ req[h].file \in Files \cup {None}
      BY <1>1, ReqOf DEF Req
    <3>2. req[h].file # None => files[req[h].file] # "free"
      BY <1>2, <3>1 DEF FileReq, Carry
    <3> QED
      BY <1>3, <1>4, <2>2, <3>1, <3>2 DEF FileReq
  <2> QED
    BY <2>1, <2>2
<1>7. ASSUME NEW e \in Files PROVE FileOf(e)'
  <2>1. FileOf(e) /\ e # None
    BY <1>1
  <2>2. \A g \in Handlers : Holds(req'[g], e) => Holds(req[g], e)
    BY <1>3 DEF Holds
  <2>3. \A g \in Handlers : Drops(req'[g], e) => Drops(req[g], e) /\ (g = h \/ req'[g] = req[g])
    BY <1>2, <1>3 DEF Drops
  <2>4. \A n \in Messages : msg'[n].file = e => msg[n].file = e /\ n # req[h].msg
    BY <1>2, <2>1
  <2>5. ASSUME NEW n \in Messages, msg'[n].file = e
        PROVE  /\ files[e] = "stored"
               /\ \A k \in Messages \ {n} : msg'[k].file # e
               /\ \A g \in Handlers : /\ ~Holds(req'[g], e)
                                      /\ Drops(req'[g], e) => req'[g].at = "delete" /\ req'[g].msg = n
    <3>1. msg[n].file = e /\ n # req[h].msg
      BY <2>4, <2>5
    <3>2. ~Drops(req[h], e)
      BY <2>1, <3>1 DEF FileOf
    <3> QED
      BY <2>1, <2>2, <2>3, <2>4, <3>1, <3>2 DEF FileOf
  <2> QED
    BY <1>4, <2>1, <2>2, <2>3, <2>4, <2>5 DEF FileOf
<1>8. ~incident' => \A e \in Files : Kept(e)'
  <2> SUFFICES ASSUME ~incident, NEW e \in Files, files[e] = "stored", e \notin photos
               PROVE  \/ \E n \in Messages : msg'[n].file = e
                      \/ \E g \in Handlers : req'[g].file = e /\ req'[g].at \in {"post", "unlink"}
    BY <1>4 DEF Kept
  <2>1. ASSUME NEW n \in Messages, msg[n].file = e
        PROVE  \/ msg'[n].file = e
               \/ req'[h].file = e /\ req'[h].at = "unlink"
    BY <1>2, <1>3, <1>5, <2>1
  <2>2. CASE \E g \in Handlers : req[g].file = e /\ req[g].at \in {"post", "unlink"}
    BY <1>2, <1>3, <2>2
  <2> QED
    BY <1>1, <2>1, <2>2 DEF Kept
<1> QED
  BY <1>6, <1>7, <1>8 DEF FileInv

LEMMA RemoveFileInv ==
  ASSUME TypeInv, FileInv, NEW h \in Handlers, RemoveFile(h)
  PROVE  FileInv'
<1>1. /\ \A g \in Handlers : FileReq(req[g])
      /\ \A e \in Files : FileOf(e)
      /\ ~incident => \A e \in Files : Kept(e)
  BY FileParts
<1>2. PICK f \in Files : f = req[h].file
  BY <1>1 DEF RemoveFile, FileReq
<1>3. req[h].at = "unlink" /\ Goto(h, "tell") /\ msg' = msg /\ photos' = photos
  BY DEF RemoveFile, posts
<1>4. /\ \A g \in Handlers \ {h} : req'[g] = req[g]
      /\ req'[h].at = "tell"
  BY <1>3, GotoReq DEF Others
<1>5. CASE incident' = TRUE /\ files' = files
  BY <1>3, <1>4, <1>5, FileShrink DEF Others, Carry
<1>6. CASE files' = [files EXCEPT ![f] = "removed"] /\ incident' = incident
  <2>1. files'[f] = "removed" /\ \A e \in Files \ {f} : files'[e] = files[e]
    BY <1>6, Typed DEF Stored
  <2>2. Drops(req[h], f)
    BY <1>2, <1>3 DEF Drops
  <2>3. \A m \in Messages : msg[m].file # f
    BY <1>1, <1>3, <2>2 DEF FileOf
  <2>4. \A g \in Handlers : ~Holds(req[g], f)
    BY <1>1, <2>2 DEF FileOf
  <2>5. ASSUME NEW g \in Handlers PROVE FileReq(req[g])'
    <3>1. CASE g # h
      <4>1. FileReq(req[g]) /\ req'[g] = req[g] /\ req[g].file \in Files \cup {None} /\ Shape(req[g])
        BY <1>1, <1>4, <3>1, ReqOf DEF Req
      <4>2. req[g].at \in Carry /\ req[g].file # None => files'[req[g].file] # "free"
        BY <2>1, <4>1 DEF FileReq
      <4> QED
        BY <1>3, <4>1, <4>2 DEF FileReq
    <3>2. CASE g = h
      BY <1>4, <3>2 DEF FileReq, Carry
    <3> QED
      BY <3>1, <3>2
  <2>6. ASSUME NEW e \in Files PROVE FileOf(e)'
    <3>1. \A g \in Handlers : /\ Holds(req'[g], e) => Holds(req[g], e)
                              /\ Drops(req'[g], e) => Drops(req[g], e) /\ req'[g] = req[g]
      BY <1>4 DEF Holds, Drops
    <3>2. CASE e = f
      BY <1>3, <2>1, <2>3, <2>4, <3>1, <3>2 DEF FileOf
    <3>3. CASE e # f
      <4>1. FileOf(e) /\ files'[e] = files[e]
        BY <1>1, <2>1, <3>3
      <4> QED
        BY <1>3, <3>1, <4>1 DEF FileOf
    <3> QED
      BY <3>2, <3>3
  <2>7. ~incident' => \A e \in Files : Kept(e)'
    <3> SUFFICES ASSUME ~incident, NEW e \in Files, files'[e] = "stored", e \notin photos
                 PROVE  \/ \E m \in Messages : msg[m].file = e
                        \/ \E g \in Handlers : req'[g].file = e /\ req'[g].at \in {"post", "unlink"}
      BY <1>3, <1>6 DEF Kept
    <3>1. e # f /\ files[e] = "stored"
      BY <2>1
    <3>2. \/ \E m \in Messages : msg[m].file = e
          \/ \E g \in Handlers : req[g].file = e /\ req[g].at \in {"post", "unlink"}
      BY <1>1, <3>1 DEF Kept
    <3> QED
      BY <1>2, <1>4, <3>1, <3>2
  <2> QED
    BY <2>5, <2>6, <2>7 DEF FileInv
<1> QED
  BY <1>2, <1>5, <1>6, Zenon DEF RemoveFile

LEMMA NextFileInv == TypeInv /\ AloneInv /\ FileInv /\ [Next]_vars => FileInv'
<1> SUFFICES ASSUME TypeInv, AloneInv, FileInv, [Next]_vars PROVE FileInv'
  OBVIOUS
<1>1. ASSUME NEW h \in Handlers, Membered(h) PROVE FileInv'
  <2>1. UNCHANGED <<msg, files, photos>>
    BY <1>1 DEF Membered, CreateConversation, AddMember, Publish, RemoveConversationMember,
         SetConversationMemberRole, posts, history
  <2>2. Others(h) /\ req[h].at \in AboutMembers /\ req'[h].at \in {"add", "idle"}
    BY <1>1, CreateReq, AddReq, AnswerReq, IdleFields
       DEF Membered, Publish, RemoveConversationMember, SetConversationMemberRole, AboutMembers
  <2>3. ~incident' => ~incident
    BY <1>1 DEF Membered, CreateConversation, AddMember, Publish, RemoveConversationMember,
         SetConversationMemberRole, history
  <2> QED
    BY <2>1, <2>2, <2>3, FileShrink DEF AboutMembers, Carry
<1>2. ASSUME NEW h \in Handlers, Messaged(h) PROVE FileInv'
  <2>1. ASSUME SetConversationAvatar(h) \/ UpdateMessageBody(h) \/ SetMessagePinned(h) \/ React(h)
                 \/ Reread(h) \/ Broadcast(h)
        PROVE  FileInv'
    <3>1. UNCHANGED <<files, photos, incident>>
      BY <2>1 DEF SetConversationAvatar, UpdateMessageBody, SetMessagePinned, React, Reread, Broadcast, history
    <3>2. \A m \in Messages : msg'[m].file = msg[m].file /\ msg'[m].is = msg[m].is
      BY <2>1, EditRow, PinRow DEF SetConversationAvatar, React, Reread, Broadcast, posts
    <3>3. /\ Others(h) /\ req[h].at \notin {"post", "unlink"}
          /\ req'[h].at \in {"idle", "reread", "tell"}
      BY <2>1, AnswerReq, EditRow, PinRow, GotoReq, ReactReq, RereadReq, IdleFields
         DEF SetConversationAvatar, Broadcast
    <3> QED
      BY <3>1, <3>2, <3>3, FileShrink DEF Carry
  <2> QED
    BY <1>2, <2>1, StoreFileInv, PostFileInv, DeleteFileInv, RemoveFileInv DEF Messaged
<1>3. ASSUME NEW h \in Handlers, Fail(h) PROVE FileInv'
  <2>1. UNCHANGED <<msg, files, photos>> /\ incident' = TRUE /\ Answer(h)
    BY <1>3 DEF Fail, posts
  <2> QED
    BY <2>1, AnswerReq, IdleFields, FileShrink DEF Carry
<1>4. ASSUME UNCHANGED <<msg, files, photos, req, incident>> PROVE FileInv'
  BY <1>4 DEF FileInv, FileReq, FileOf, Kept
<1>5. CASE UNCHANGED vars
  BY <1>4, <1>5 DEF vars, posts, history
<1>6. ASSUME NEW u \in Users, NEW c \in Convs, OpenConversation(u, c) PROVE FileInv'
  BY <1>4, <1>6 DEF OpenConversation, posts
<1> QED
  BY <1>1, <1>2, <1>3, <1>5, <1>6, RequestedFileInv, Steps

(* The file of a message is there as long as the message and is of that    *)
(* message only (chat_pins.go:126); no file outlives its message but where *)
(* a step failed.                                                          *)
THEOREM FilesAreKept == Spec => []FilesKept
<1>1. IInv /\ FileInv /\ [Next]_vars => FileInv'
  BY NextFileInv DEF IInv
<1>2. TypeInv /\ FileInv => FilesKept
  <2> SUFFICES ASSUME TypeInv, FileInv PROVE FilesKept
    OBVIOUS
  <2>1. \A m \in Messages : msg[m].file \in Files \cup {None}
    BY Typed DEF Stored, Message
  <2> QED
    BY <2>1, FileParts DEF FilesKept, FileOf, Kept
<1>3. IInv => TypeInv
  BY DEF IInv
<1> QED
  BY <1>1, <1>2, <1>3, InitFileInv, IInvHolds, PTL DEF Spec

-----------------------------------------------------------------------------
(* Events                                                                  *)

(* EventInv, part by part.                                                 *)
LEMMA EventParts ==
  ASSUME EventInv
  PROVE  /\ \A h \in Handlers : EventReq(req[h])
         /\ \A u \in Users \ missed : Present(u)
         /\ ~incident => /\ \A h \in Handlers : TruthReq(req[h])
                         /\ \A u \in Users \ missed, m \in Messages \ raced : Sees(u, m)
BY DEF EventInv

LEMMA InitEventInv == Init => EventInv
<1> SUFFICES ASSUME Init PROVE EventInv
  OBVIOUS
<1>1. /\ req = [h \in Handlers |-> Idle]
      /\ view = [u \in Users |-> [conv |-> None, msgs |-> {}, reactions |-> {}]]
  BY Zenon DEF Init
<1>2. \A h \in Handlers : req[h].at = "idle"
  BY <1>1, IdleFields
<1>3. \A u \in Users : view[u].conv = None
  BY <1>1
<1>4. \A h \in Handlers : EventReq(req[h])
  BY <1>2 DEF EventReq
<1>5. \A h \in Handlers : TruthReq(req[h])
  BY <1>2 DEF TruthReq, OnMessage
<1>6. \A u \in Users : Present(u) /\ \A m \in Messages : Sees(u, m)
  BY <1>3 DEF Present, Sees
<1> QED
  BY <1>4, <1>5, <1>6 DEF EventInv

(* The event a request tells of is that of what it did.                    *)
LEMMA NextEventReq ==
  ASSUME TypeInv, EventInv, Next, NEW g \in Handlers
  PROVE  EventReq(req[g])'
<1>1. EventReq(req[g])
  BY EventParts
<1>a. ASSUME req'[g] = req[g] PROVE EventReq(req[g])'
  BY <1>1, <1>a DEF EventReq
<1>b. ASSUME req'[g].at \in AboutMembers \cup {"idle", "photo", "tell"} PROVE EventReq(req[g])'
  BY <1>b DEF EventReq, AboutMembers
<1>2. ASSUME NEW h \in Handlers, Requested(h) PROVE EventReq(req[g])'
  <2>1. PICK r : Shape(r) /\ Begin(h, r) /\ Asked(r)
    BY <1>2 DEF Requested
  <2>2. Others(h) /\ req'[h] = r
    BY <2>1, BeginReq
  <2>3. CASE g = h
    <3>1. EventReq(r)
      BY <2>1 DEF Asked, EventReq, OnMessage
    <3> QED
      BY <2>2, <2>3, <3>1 DEF EventReq
  <2> QED
    BY <1>a, <2>2, <2>3 DEF Others
<1>3. ASSUME NEW h \in Handlers, Membered(h) PROVE EventReq(req[g])'
  <2>1. Others(h) /\ req'[h].at \in {"add", "idle"}
    BY <1>3, CreateReq, AddReq, AnswerReq, IdleFields
       DEF Membered, Publish, RemoveConversationMember, SetConversationMemberRole
  <2> QED
    BY <1>a, <1>b, <2>1 DEF Others, AboutMembers
<1>4. ASSUME NEW h \in Handlers, Messaged(h) PROVE EventReq(req[g])'
  <2>1. /\ Others(h)
        /\ req[h].at \in {"store", "copy"} => req'[h].at \in {"post", "photo"} /\ req'[h].event = req[h].event
        /\ req[h].at \in {"post", "edit"} => req'[h].at = "reread" /\ req'[h].event = req[h].event
        /\ req[h].at = "delete" => req'[h].at \in {"unlink", "tell"} /\ req'[h].event = req[h].event
        /\ req[h].at \notin {"store", "copy", "post", "edit", "delete"} => req'[h].at \in {"idle", "tell"}
    <3>1. ASSUME NEW f \in Files, StoreFile(h, f) \/ CopyFile(h, f)
          PROVE  /\ Others(h) /\ req[h].at \in {"store", "copy"}
                 /\ req'[h].at \in {"post", "photo"} /\ req'[h].event = req[h].event
      BY <3>1, StoreReq, CopyReq DEF SameSubject
    <3>2. ASSUME NEW m \in Messages, CreateMessage(h, m)
          PROVE  Others(h) /\ req[h].at = "post" /\ req'[h].at = "reread" /\ req'[h].event = req[h].event
      BY <3>2, CreateMessageReq
    <3>3. ASSUME SetConversationAvatar(h) \/ Broadcast(h)
          PROVE  Others(h) /\ req[h].at \in {"photo", "tell"} /\ req'[h].at = "idle"
      BY <3>3, AnswerReq, IdleFields DEF SetConversationAvatar, Broadcast
    <3>4. ASSUME UpdateMessageBody(h)
          PROVE  Others(h) /\ req[h].at = "edit" /\ req'[h].at = "reread" /\ req'[h].event = req[h].event
      BY <3>4, EditRow, GotoReq DEF SameSubject
    <3>5. ASSUME SetMessagePinned(h) \/ RemoveFile(h)
          PROVE  Others(h) /\ req[h].at \in {"pin", "unlink"} /\ req'[h].at = "tell"
      <4>1. Goto(h, "tell") /\ req[h].at \in {"pin", "unlink"}
        BY <3>5 DEF SetMessagePinned, RemoveFile
      <4> QED
        BY <4>1, GotoReq
    <3>6. ASSUME DeleteMessage(h)
          PROVE  Others(h) /\ req[h].at = "delete" /\ req'[h].at \in {"unlink", "tell"} /\ req'[h].event = req[h].event
      BY <3>6, DeleteRow, GotoReq DEF SameSubject
    <3>7. ASSUME React(h) \/ Reread(h)
          PROVE  Others(h) /\ req[h].at \in {"react", "reread"} /\ req'[h].at \in {"idle", "tell"}
      BY <3>7, ReactReq, RereadReq, IdleFields
    <3> QED
      BY <1>4, <3>1, <3>2, <3>3, <3>4, <3>5, <3>6, <3>7 DEF Messaged
  <2>2. CASE g = h /\ req[h].at \in {"store", "copy", "post", "edit", "delete"}
    BY <1>1, <2>1, <2>2 DEF EventReq
  <2>3. CASE g = h /\ req[h].at \notin {"store", "copy", "post", "edit", "delete"}
    BY <1>b, <2>1, <2>3
  <2> QED
    BY <1>a, <2>1, <2>2, <2>3 DEF Others
<1>5. ASSUME NEW h \in Handlers, Fail(h) PROVE EventReq(req[g])'
  BY <1>5, <1>a, <1>b, AnswerReq, IdleFields DEF Fail, Others
<1>6. ASSUME NEW u \in Users, NEW c \in Convs, OpenConversation(u, c) PROVE EventReq(req[g])'
  BY <1>6, <1>a DEF OpenConversation
<1> QED
  BY <1>2, <1>3, <1>4, <1>5, <1>6, Steps

(* Who was not removed is a member of what is open.                        *)
LEMMA BroadcastViews ==
  ASSUME TypeInv, NEW h \in Handlers, Broadcast(h), NEW u \in Users
  PROVE  /\ view[u] \in View /\ req[h] \in Req
         /\ view'[u] = IF IsMember(req[h].conv, u) /\ view[u].conv = req[h].conv
                       THEN OnEvent(view[u], req[h]) ELSE view[u]
         /\ req[h].at = "tell" /\ req[h].msg \in Messages /\ req[h].user \in Users
         /\ Others(h) /\ req'[h] = Idle /\ UNCHANGED <<kind, role, msg, reactions, missed, raced, incident>>
<1>1. req[h].at = "tell" /\ Answer(h)
  BY DEF Broadcast
<1>2. Shape(req[h]) /\ req[h] \in Req /\ view[u] \in View
  BY ReqOf, Typed DEF Stored
<1>3. req[h].msg \in Messages /\ req[h].user \in Users
  BY <1>1, <1>2 DEF Shape, OnMessage
<1> QED
  BY <1>1, <1>2, <1>3, AnswerReq DEF Broadcast, members, posts, history

(* An event does not change what is open.                                  *)
LEMMA OnEventConv ==
  ASSUME NEW v \in View, NEW e \in Req
  PROVE  OnEvent(v, e).conv = v.conv
<1> DEFINE entry == [id |-> e.msg, body |-> e.body, pinned |-> e.pinned]
<1>1. e.event \in Events
  BY DEF Req
<1> HIDE DEF entry
<1>2. CASE e.event = "message"
  BY <1>2 DEF OnEvent, View
<1>3. CASE e.event = "message_deleted"
  BY <1>3 DEF OnEvent, View
<1>4. CASE e.event = "message_edited"
  <2> DEFINE S == {IF s.id = e.msg THEN entry ELSE s : s \in v.msgs}
  <2>1. OnEvent(v, e) = [v EXCEPT !.msgs = S]
    BY <1>4 DEF OnEvent, View, entry
  <2> HIDE DEF S
  <2> QED
    BY <2>1 DEF View
<1>5. CASE e.event = "pin"
  <2> DEFINE S == {IF s.id = e.msg THEN [s EXCEPT !.pinned = e.pinned] ELSE s : s \in v.msgs}
  <2>1. OnEvent(v, e) = [v EXCEPT !.msgs = S]
    BY <1>5 DEF OnEvent, View
  <2> HIDE DEF S
  <2> QED
    BY <2>1 DEF View
<1>6. CASE e.event = "reaction"
  BY <1>6 DEF OnEvent, WithReaction, View
<1> QED
  BY <1>1, <1>2, <1>3, <1>4, <1>5, <1>6 DEF Events

LEMMA NextPresent ==
  ASSUME TypeInv, EventInv, Next, NEW u \in Users \ missed'
  PROVE  Present(u)'
<1>r. role \in [Convs -> [Users -> Roles \cup {None}]] /\ view \in [Users -> View]
  BY Typed DEF Stored
<1>p. u \notin missed => Present(u)
  BY EventParts
<1>v. view[u].conv \in Convs \cup {None}
  BY <1>r DEF View
<1>a. ASSUME missed' = missed, view'[u].conv = view[u].conv,
             \A c \in Convs : role[c][u] # None => role'[c][u] # None
      PROVE  Present(u)'
  BY <1>a, <1>p, <1>v DEF Present, IsMember
<1>1. ASSUME NEW h \in Handlers, Requested(h) PROVE Present(u)'
  BY <1>1, <1>a, BeginReq DEF Requested
<1>2. ASSUME NEW h \in Handlers, AddMember(h) PROVE Present(u)'
  <2>1. PICK x \in Users \X Roles : AddConversationMember(req[h].conv, x[1], x[2]) \/ role' = role
    BY <1>2, AddReq
  <2>2. \A c \in Convs : role[c][u] # None => role'[c][u] # None
    BY <1>r, <2>1 DEF AddConversationMember, IsMember
  <2> QED
    BY <1>2, <1>a, <2>2 DEF AddMember
<1>3. ASSUME NEW h \in Handlers, RemoveConversationMember(h) PROVE Present(u)'
  <2>1. /\ role' = [role EXCEPT ![req[h].conv][req[h].user] = None] /\ view' = view
        /\ missed' = (IF view[req[h].user].conv = req[h].conv THEN missed \cup {req[h].user} ELSE missed)
    BY <1>3 DEF RemoveConversationMember
  <2>2. u \notin missed
    BY <2>1
  <2>3. CASE u = req[h].user
    <3>1. view[u].conv # req[h].conv
      BY <2>1, <2>3
    <3> QED
      BY <1>p, <1>r, <1>v, <2>1, <2>2, <3>1 DEF Present, IsMember
  <2>4. CASE u # req[h].user
    BY <1>p, <1>r, <1>v, <2>1, <2>2, <2>4 DEF Present, IsMember
  <2> QED
    BY <2>3, <2>4
<1>4. ASSUME NEW h \in Handlers, SetConversationMemberRole(h) PROVE Present(u)'
  <2>1. /\ role' = [role EXCEPT ![req[h].conv][req[h].user] =
                     IF role[req[h].conv][req[h].user] = None THEN role[req[h].conv][req[h].user] ELSE req[h].role]
        /\ view' = view /\ missed' = missed
    BY <1>4 DEF SetConversationMemberRole, history
  <2>2. req[h].role \in {"member", "admin"}
    BY ReqOf DEF Req, Roles
  <2>3. req[h].role # None
    BY <2>2
  <2>4. \A c \in Convs : role[c][u] # None => role'[c][u] # None
    BY <1>r, <2>1, <2>3
  <2> QED
    BY <1>a, <2>1, <2>4
<1>5. ASSUME NEW h \in Handlers, Membered(h) PROVE Present(u)'
  <2>1. CASE (\E c \in Convs : CreateConversation(h, c)) \/ Publish(h)
    BY <2>1, <1>a DEF CreateConversation, Publish, history
  <2> QED
    BY <1>2, <1>3, <1>4, <1>5, <2>1 DEF Membered
<1>6. ASSUME NEW h \in Handlers, Messaged(h) PROVE Present(u)'
  <2>1. role' = role /\ missed' = missed
    BY <1>6, MessagedFrame
  <2>2. view'[u].conv = view[u].conv
    <3>1. CASE Broadcast(h)
      <4>1. /\ view[u] \in View /\ req[h] \in Req
            /\ view'[u] = IF IsMember(req[h].conv, u) /\ view[u].conv = req[h].conv
                          THEN OnEvent(view[u], req[h]) ELSE view[u]
        BY <3>1, BroadcastViews
      <4>2. OnEvent(view[u], req[h]).conv = view[u].conv
        BY <4>1, OnEventConv, Zenon
      <4> QED
        BY <4>1, <4>2
    <3>2. ASSUME ~Broadcast(h) PROVE view' = view
      BY <1>6, <3>2 DEF Messaged, StoreFile, CopyFile, CreateMessage, SetConversationAvatar, UpdateMessageBody,
         SetMessagePinned, React, DeleteMessage, RemoveFile, Reread
    <3> QED
      BY <3>1, <3>2
  <2> QED
    BY <1>a, <2>1, <2>2
<1>7. ASSUME NEW h \in Handlers, Fail(h) PROVE Present(u)'
  BY <1>7, <1>a DEF Fail, members
<1>8. ASSUME NEW w \in Users, NEW c \in Convs, OpenConversation(w, c) PROVE Present(u)'
  <2>1. CASE u = w
    BY <1>8, <2>1, OpenViews DEF OpenConversation, authConv, Present, IsMember, members
  <2>2. CASE u # w
    BY <1>8, <1>p, <2>2, OpenViews DEF OpenConversation, Present, IsMember, members
  <2> QED
    BY <2>1, <2>2
<1> QED
  BY <1>1, <1>5, <1>6, <1>7, <1>8, Steps

(* Only one request at a time is about a message that was never raced.     *)
LEMMA OneBusy ==
  ASSUME TypeInv, AloneInv, NEW g \in Handlers, NEW h \in Handlers,
         req[g].at \in OnMessage, req[h].at \in OnMessage,
         req[g].msg = req[h].msg, req[h].msg \notin raced
  PROVE  g = h
<1>1. Shape(req[g]) /\ Shape(req[h])
  BY ReqOf
<1>2. req[h].msg \in Messages /\ req[h].about = {req[h].msg} /\ req[g].about = {req[h].msg}
  BY <1>1 DEF Shape
<1>3. req[h].msg \in Subjects \ raced
  BY <1>2, SubjectFacts
<1> QED
  BY <1>2, <1>3 DEF AloneInv, Alone

(* Nobody is busy with a message that was not inserted yet.                *)
LEMMA NotBusy ==
  ASSUME TypeInv, AloneInv, NEW g \in Handlers, req[g].at \in OnMessage
  PROVE  req[g].msg \in Messages /\ msg[req[g].msg].is # "free"
<1>1. req[g].msg \in Messages /\ req[g].about = {req[g].msg}
  BY ReqOf DEF Shape
<1> QED
  BY <1>1 DEF AloneInv, FreshMessage

(* What a request knows stays true while nobody touches its message.       *)
LEMMA TruthKept ==
  ASSUME NEW g \in Handlers, TruthReq(req[g]), req'[g] = req[g], raced \subseteq raced',
         req[g].at \in OnMessage /\ req[g].msg \notin raced =>
           /\ msg'[req[g].msg] = msg[req[g].msg]
           /\ <<req[g].msg, req[g].user>> \in reactions' <=> <<req[g].msg, req[g].user>> \in reactions
  PROVE  TruthReq(req[g])'
BY DEF TruthReq, Exists

(* Nor does it change by what is done to another message.                  *)
LEMMA OtherTruth ==
  ASSUME TypeInv, AloneInv, NEW h \in Handlers, req[h].at \in OnMessage, Others(h), raced' = raced,
         \A n \in Messages \ {req[h].msg} :
           /\ msg'[n] = msg[n]
           /\ \A v \in Users : <<n, v>> \in reactions' <=> <<n, v>> \in reactions,
         NEW g \in Handlers \ {h}, TruthReq(req[g])
  PROVE  TruthReq(req[g])'
<1>1. req'[g] = req[g]
  BY DEF Others
<1>2. ASSUME req[g].at \in OnMessage, req[g].msg \notin raced
      PROVE  req[g].msg \in Messages /\ req[g].user \in Users /\ req[g].msg # req[h].msg
  <2>1. req[g].msg \in Messages /\ req[g].user \in Users
    BY <1>2, ReqOf DEF Shape
  <2>2. req[g].msg = req[h].msg => g = h
    BY <1>2, OneBusy
  <2> QED
    BY <2>1, <2>2
<1> QED
  BY <1>1, <1>2, TruthKept

(* TruthReq, action by action.                                             *)
LEMMA MessagedTruth ==
  ASSUME TypeInv, AloneInv, EventInv, NEW h \in Handlers, Messaged(h), ~incident', NEW g \in Handlers
  PROVE  TruthReq(req[g])'
<1>1. Others(h) /\ raced' = raced /\ ~incident
  BY MessagedFrame
<1>2. TruthReq(req[g]) /\ TruthReq(req[h]) /\ EventReq(req[h])
  BY <1>1, EventParts
<1>3. Shape(req[h]) /\ msg \in [Messages -> Message]
  BY ReqOf, Typed DEF Stored
<1>a. ASSUME req'[h].at \notin OnMessage, g = h PROVE TruthReq(req[g])'
  BY <1>a DEF TruthReq
<1>b. ASSUME msg' = msg, reactions' = reactions, g # h PROVE TruthReq(req[g])'
  BY <1>1, <1>2, <1>b, TruthKept DEF Others
<1>4. ASSUME NEW f \in Files, StoreFile(h, f) \/ CopyFile(h, f) PROVE TruthReq(req[g])'
  <2>1. req'[h].at \notin OnMessage
    BY <1>4, StoreReq, CopyReq DEF OnMessage
  <2>2. msg' = msg /\ reactions' = reactions
    BY <1>4 DEF StoreFile, CopyFile, posts
  <2> QED
    BY <1>a, <1>b, <2>1, <2>2
<1>5. ASSUME NEW m \in Messages, CreateMessage(h, m) PROVE TruthReq(req[g])'
  <2>0. /\ msg[m].is = "free" /\ \A n \in Messages \ {m} : msg'[n] = msg[n]
        /\ msg'[m].is = "row" /\ msg'[m].conv = req[h].conv
    BY <1>5, CreateRow
  <2>1. reactions' = reactions
    BY <1>5 DEF CreateMessage
  <2>2. CASE g # h
    <3>1. req[g].at \in OnMessage => req[g].msg \in Messages \ {m}
      BY <2>0, NotBusy
    <3>2. req[g].at \in OnMessage => msg'[req[g].msg] = msg[req[g].msg]
      BY <2>0, <3>1
    <3>3. req'[g] = req[g]
      BY <1>1, <2>2 DEF Others
    <3> QED
      BY <1>1, <1>2, <2>1, <3>2, <3>3, TruthKept
  <2>3. CASE g = h
    <3>1. req'[h].at = "reread" /\ req'[h].msg = m /\ req'[h].conv = req[h].conv
      BY <1>5, CreateMessageReq
    <3> QED
      BY <2>0, <2>3, <3>1 DEF TruthReq, Exists
  <2> QED
    BY <2>2, <2>3
<1>6. ASSUME UpdateMessageBody(h) PROVE TruthReq(req[g])'
  <2>1. reactions' = reactions /\ req[h].at \in OnMessage
    BY <1>6 DEF UpdateMessageBody, OnMessage
  <2>2. CASE g # h
    BY <1>1, <1>2, <1>6, <2>1, <2>2, EditRow, OtherTruth
  <2>3. CASE g = h
    <3>1. req'[h].at = "reread" /\ SameSubject(req'[h], req[h])
      BY <1>6, EditRow, GotoReq
    <3>2. req[h].msg \notin raced => Exists(req[h].msg) /\ req[h].conv = msg[req[h].msg].conv
      BY <1>2, <1>6, <2>1 DEF TruthReq, UpdateMessageBody
    <3> QED
      BY <1>1, <1>6, <2>3, <3>1, <3>2, EditRow DEF TruthReq, Exists, SameSubject
  <2> QED
    BY <2>2, <2>3
<1>7. ASSUME SetMessagePinned(h) PROVE TruthReq(req[g])'
  <2>1. reactions' = reactions /\ req[h].at \in OnMessage
    BY <1>7 DEF SetMessagePinned, OnMessage
  <2>2. CASE g # h
    BY <1>1, <1>2, <1>7, <2>1, <2>2, PinRow, OtherTruth
  <2>3. CASE g = h
    <3>1. req'[h].at = "tell" /\ SameSubject(req'[h], req[h]) /\ req'[h].pinned = req[h].pinned
      BY <1>7, PinRow, GotoReq DEF SameData
    <3>2. req[h].msg \notin raced => Exists(req[h].msg) /\ req[h].conv = msg[req[h].msg].conv
      BY <1>2, <1>7, <2>1 DEF TruthReq, SetMessagePinned
    <3>3. req[h].event = "pin"
      BY <1>2, <1>7 DEF EventReq, SetMessagePinned
    <3> QED
      BY <1>1, <1>7, <2>3, <3>1, <3>2, <3>3, PinRow DEF TruthReq, Exists, SameSubject
  <2> QED
    BY <2>2, <2>3
<1>8. ASSUME React(h) PROVE TruthReq(req[g])'
  <2>1. req[h].at \in OnMessage /\ req[h].at = "react" /\ msg' = msg
    BY <1>8 DEF React, OnMessage
  <2>2. req[h].msg \in Messages /\ req[h].user \in Users
    BY <1>3, <2>1 DEF Shape
  <2>3. IF req[h].on THEN reactions' = reactions \ {<<req[h].msg, req[h].user>>}
        ELSE reactions' = IF Exists(req[h].msg) THEN reactions \cup {<<req[h].msg, req[h].user>>} ELSE reactions
    BY <1>8 DEF React, AddReaction, RemoveReaction
  <2>4. CASE g # h
    <3>1. \A n \in Messages \ {req[h].msg} :
            \A v \in Users : <<n, v>> \in reactions' <=> <<n, v>> \in reactions
      BY <2>3
    <3> QED
      BY <1>1, <1>2, <2>1, <2>4, <3>1, OtherTruth
  <2>5. CASE g = h
    <3>1. CASE req'[h] = Idle
      BY <1>a, <2>5, <3>1, IdleFields DEF OnMessage
    <3>2. CASE /\ req'[h].at = "tell" /\ (req'[h].on <=> ~req[h].on)
               /\ SameSubject(req'[h], req[h])
      <4>1. req[h].msg \notin raced => Exists(req[h].msg) /\ req[h].conv = msg[req[h].msg].conv
        BY <1>2, <2>1 DEF TruthReq
      <4>2. req[h].event = "reaction"
        BY <1>2, <2>1 DEF EventReq
      <4>3. req[h].msg \notin raced => (req'[h].on <=> <<req[h].msg, req[h].user>> \in reactions')
        BY <2>3, <3>2, <4>1
      <4> QED
        BY <1>1, <2>1, <2>5, <3>2, <4>1, <4>2, <4>3 DEF TruthReq, Exists, SameSubject
    <3> QED
      BY <1>8, <3>1, <3>2, ReactReq
  <2> QED
    BY <2>4, <2>5
<1>9. ASSUME DeleteMessage(h) PROVE TruthReq(req[g])'
  <2>1. req[h].at \in OnMessage
    BY <1>9 DEF DeleteMessage, OnMessage
  <2>2. CASE g # h
    <3>1. \A n \in Messages \ {req[h].msg} :
            \A v \in Users : <<n, v>> \in reactions' <=> <<n, v>> \in reactions
      BY <1>9, DeleteRow
    <3> QED
      BY <1>1, <1>2, <1>9, <2>1, <2>2, <3>1, DeleteRow, OtherTruth
  <2>3. CASE g = h
    <3>1. req'[h].at \in {"unlink", "tell"} /\ SameSubject(req'[h], req[h]) /\ req[h].event = "message_deleted"
      BY <1>2, <1>9, DeleteRow, GotoReq DEF EventReq
    <3> QED
      BY <1>9, <2>3, <3>1, DeleteRow DEF TruthReq, SameSubject
  <2> QED
    BY <2>2, <2>3
<1>10. ASSUME SetConversationAvatar(h) \/ Broadcast(h) PROVE TruthReq(req[g])'
  <2>1. msg' = msg /\ reactions' = reactions /\ req'[h].at = "idle"
    BY <1>10, AnswerReq, IdleFields DEF SetConversationAvatar, Broadcast, posts
  <2> QED
    BY <1>a, <1>b, <2>1 DEF OnMessage
<1>11. ASSUME RemoveFile(h) PROVE TruthReq(req[g])'
  <2>1. msg' = msg /\ reactions' = reactions /\ req[h].at = "unlink" /\ Goto(h, "tell")
    BY <1>11 DEF RemoveFile, posts
  <2>2. req'[h].at = "tell" /\ SameSubject(req'[h], req[h])
    BY <2>1, GotoReq
  <2>3. req[h].msg \notin raced => msg[req[h].msg].is = "deleted"
    BY <1>2, <2>1 DEF TruthReq, OnMessage
  <2>4. req[h].event = "message_deleted"
    BY <1>2, <2>1 DEF EventReq
  <2>5. CASE g = h
    BY <1>1, <2>1, <2>2, <2>3, <2>4, <2>5 DEF TruthReq, SameSubject
  <2> QED
    BY <1>b, <2>1, <2>5
<1>12. ASSUME Reread(h) PROVE TruthReq(req[g])'
  <2>1. msg' = msg /\ reactions' = reactions /\ req[h].at = "reread"
    BY <1>12 DEF Reread, posts
  <2>2. CASE g = h /\ req'[h] = Idle
    BY <1>a, <2>2, IdleFields DEF OnMessage
  <2>3. CASE /\ g = h /\ req'[h].at = "tell" /\ SameSubject(req'[h], req[h])
             /\ req'[h].body = msg[req[h].msg].body /\ req'[h].pinned = msg[req[h].msg].pinned
    <3>1. req[h].msg \notin raced => Exists(req[h].msg) /\ req[h].conv = msg[req[h].msg].conv
      BY <1>2, <2>1 DEF TruthReq, OnMessage
    <3>2. req[h].event \in {"message", "message_edited"}
      BY <1>2, <2>1 DEF EventReq
    <3> QED
      BY <1>1, <2>1, <2>3, <3>1, <3>2 DEF TruthReq, Exists, SameSubject
  <2> QED
    BY <1>b, <1>12, <2>1, <2>2, <2>3, RereadReq
<1> QED
  BY <1>4, <1>5, <1>6, <1>7, <1>8, <1>9, <1>10, <1>11, <1>12 DEF Messaged

LEMMA NextTruthReq ==
  ASSUME TypeInv, AloneInv, EventInv, Next, ~incident', NEW g \in Handlers
  PROVE  TruthReq(req[g])'
<1>a. ASSUME ~incident, raced \subseteq raced', msg' = msg, reactions' = reactions,
             req'[g] = req[g]
      PROVE  TruthReq(req[g])'
  BY <1>a, EventParts, TruthKept
<1>1. ASSUME NEW h \in Handlers, Requested(h) PROVE TruthReq(req[g])'
  <2>1. PICK r : Shape(r) /\ Begin(h, r) /\ Asked(r) /\ (incident => incident')
    BY <1>1 DEF Requested
  <2>2. CASE g = h
    <3>1. req'[h] = r /\ msg' = msg
      BY <2>1, BeginReq
    <3>2. /\ r.at \notin {"unlink", "tell"}
          /\ r.at \in OnMessage => Exists(r.msg) /\ r.conv = msg[r.msg].conv
      BY <2>1 DEF Asked
    <3> QED
      BY <2>2, <3>1, <3>2 DEF TruthReq, Exists
  <2>3. CASE g # h
    BY <1>a, <2>1, <2>3, BeginReq DEF Others
  <2> QED
    BY <2>2, <2>3
<1>2. ASSUME NEW h \in Handlers, Membered(h) PROVE TruthReq(req[g])'
  <2>1. Others(h) /\ req'[h].at \in {"add", "idle"}
    BY <1>2, CreateReq, AddReq, AnswerReq, IdleFields
       DEF Membered, Publish, RemoveConversationMember, SetConversationMemberRole
  <2>2. msg' = msg /\ reactions' = reactions /\ raced' = raced
    BY <1>2 DEF Membered, CreateConversation, AddMember, Publish, RemoveConversationMember,
         SetConversationMemberRole, posts, history
  <2>4. incident' = incident \/ incident' = TRUE
    <3>1. CASE AddMember(h)
      BY <3>1, AddReq
    <3>2. CASE ~AddMember(h)
      BY <1>2, <3>2 DEF Membered, CreateConversation, Publish, RemoveConversationMember,
           SetConversationMemberRole, history
    <3> QED
      BY <3>1, <3>2
  <2>3. CASE g = h
    BY <2>1, <2>3 DEF TruthReq, OnMessage
  <2> QED
    BY <1>a, <2>1, <2>2, <2>3, <2>4 DEF Others
<1>3. ASSUME NEW h \in Handlers, Messaged(h) PROVE TruthReq(req[g])'
  BY <1>3, MessagedTruth
<1>4. ASSUME NEW h \in Handlers, Fail(h) PROVE TruthReq(req[g])'
  BY <1>4 DEF Fail
<1>5. ASSUME NEW u \in Users, NEW c \in Convs, OpenConversation(u, c) PROVE TruthReq(req[g])'
  BY <1>5, <1>a DEF OpenConversation, posts
<1> QED
  BY <1>1, <1>2, <1>3, <1>4, <1>5, Steps

Speaking == {"reread", "tell", "unlink"}

(* Who was to tell of message m still is.                                  *)
Heard(m) == /\ \A e \in Events : Telling(m, e) => Telling(m, e)'
            /\ \A v \in Users : TellingOf(m, v) => TellingOf(m, v)'
            /\ \A c \in Convs : Deleting(m, c) => Deleting(m, c)'

LEMMA HeardKept ==
  ASSUME NEW m \in Messages,
         \A g \in Handlers : req[g].msg = m /\ req[g].at \in Speaking =>
           /\ req'[g].msg = m /\ req'[g].event = req[g].event
           /\ req'[g].user = req[g].user /\ req'[g].conv = req[g].conv
           /\ req[g].at = "reread" => req'[g].at \in {"reread", "tell"}
           /\ req[g].at = "tell" => req'[g].at = "tell"
           /\ req[g].at = "unlink" => req'[g].at \in {"unlink", "tell"}
  PROVE  Heard(m)
<1>1. ASSUME NEW e \in Events, Telling(m, e) PROVE Telling(m, e)'
  <2>1. PICK g \in Handlers : req[g].msg = m /\ req[g].event = e /\ req[g].at \in {"reread", "tell"}
    BY <1>1 DEF Telling
  <2> QED
    BY <2>1 DEF Telling, Speaking
<1>2. ASSUME NEW v \in Users, TellingOf(m, v) PROVE TellingOf(m, v)'
  <2>1. PICK g \in Handlers : req[g].msg = m /\ req[g].event = "reaction" /\ req[g].at = "tell" /\ req[g].user = v
    BY <1>2 DEF TellingOf
  <2> QED
    BY <2>1 DEF TellingOf, Speaking
<1>3. ASSUME NEW c \in Convs, Deleting(m, c) PROVE Deleting(m, c)'
  <2>1. PICK g \in Handlers : /\ req[g].msg = m /\ req[g].event = "message_deleted"
                              /\ req[g].at \in {"unlink", "tell"} /\ req[g].conv = c
    BY <1>3 DEF Deleting
  <2> QED
    BY <2>1 DEF Deleting, Speaking
<1> QED
  BY <1>1, <1>2, <1>3 DEF Heard

LEMMA HeardOther ==
  ASSUME NEW h \in Handlers, Others(h), NEW m \in Messages, req[h].msg # m \/ req[h].at \notin Speaking
  PROVE  Heard(m)
BY HeardKept DEF Others

(* A client keeps seeing a message while neither it nor the client's view  *)
(* of it changes.                                                          *)
SameRow(u, m) == \A s : s.id = m => (s \in view'[u].msgs <=> s \in view[u].msgs)

LEMMA SeesKept ==
  ASSUME TypeInv, NEW u \in Users, NEW m \in Messages, Sees(u, m), Heard(m),
         view'[u].conv = view[u].conv, SameRow(u, m),
         \A v \in Users : <<m, v>> \in view'[u].reactions <=> <<m, v>> \in view[u].reactions,
         msg'[m] = msg[m], \A v \in Users : <<m, v>> \in reactions' <=> <<m, v>> \in reactions
  PROVE  Sees(u, m)'
<1>1. view[u].conv \in Convs \cup {None}
  BY Typed DEF Stored, View
<1> SUFFICES ASSUME view[u].conv \in Convs, ShowsRow(u, m), ShowsReactions(u, m)
             PROVE  ShowsRow(u, m)' /\ ShowsReactions(u, m)'
  BY <1>1 DEF Sees
<1>c. PICK c \in Convs : c = view[u].conv
  OBVIOUS
<1>v. view'[u].conv = c
  BY <1>c
<1>2. Here(u, m)' <=> Here(u, m)
  BY DEF Here, Exists
<1>3. /\ Telling(m, "pin") => Telling(m, "pin")'
      /\ Telling(m, "message_edited") => Telling(m, "message_edited")'
      /\ Telling(m, "message") => Telling(m, "message")'
      /\ Deleting(m, c) => Deleting(m, c)'
  BY DEF Heard, Events
<1>5. \A s \in view'[u].msgs : s.id = m => s \in view[u].msgs
  BY DEF SameRow
<1>6. (\E s \in view[u].msgs : s.id = m) => \E s \in view'[u].msgs : s.id = m
  BY DEF SameRow
<1>7. ASSUME NEW s \in view'[u].msgs, s.id = m
      PROVE  /\ Here(u, m)' \/ Deleting(m, c)'
             /\ Here(u, m)' => /\ s.pinned = msg'[m].pinned \/ Telling(m, "pin")'
                               /\ s.body = msg'[m].body \/ Telling(m, "message_edited")'
  BY <1>c, <1>2, <1>3, <1>5, <1>7 DEF ShowsRow
<1>8. Here(u, m)' => (\E s \in view'[u].msgs : s.id = m) \/ Telling(m, "message")'
  BY <1>2, <1>3, <1>6 DEF ShowsRow
<1>4. Deleting(m, c)' => Deleting(m, view[u].conv)'
  BY <1>v DEF Deleting
<1>9. ShowsRow(u, m)'
  BY <1>7, <1>8, <1>4 DEF ShowsRow
<1>10. ShowsReactions(u, m)'
  BY <1>2 DEF ShowsReactions, Heard
<1> QED
  BY <1>9, <1>10

(* What a look at message m would show.                                    *)
Agrees(u, m) ==
  /\ \A s \in view[u].msgs : s.id = m => Here(u, m) /\ s.pinned = msg[m].pinned /\ s.body = msg[m].body
  /\ Here(u, m) => /\ \E s \in view[u].msgs : s.id = m
                   /\ \A v \in Users : <<m, v>> \in view[u].reactions <=> <<m, v>> \in reactions

(* Who agrees sees.                                                        *)
LEMMA AgreesSees ==
  ASSUME NEW u \in Users, NEW m \in Messages, Agrees(u, m)'
  PROVE  Sees(u, m)'
BY DEF Agrees, Sees, ShowsRow, ShowsReactions

(* What an event about a message shows of it.                              *)
LEMMA OnEventMessage ==
  ASSUME NEW v \in View, NEW e \in Req, e.event = "message"
  PROVE  /\ \A s \in OnEvent(v, e).msgs : s.id = e.msg =>
              s \in v.msgs \/ (s.body = e.body /\ s.pinned = e.pinned)
         /\ \E s \in OnEvent(v, e).msgs : s.id = e.msg
         /\ OnEvent(v, e).reactions = v.reactions
<1> DEFINE entry == [id |-> e.msg, body |-> e.body, pinned |-> e.pinned]
<1>1. entry.id = e.msg /\ entry.body = e.body /\ entry.pinned = e.pinned
  OBVIOUS
<1>2. OnEvent(v, e) = [v EXCEPT !.msgs = IF \E s \in v.msgs : s.id = e.msg THEN v.msgs ELSE v.msgs \cup {entry}]
  BY DEF OnEvent, View
<1>3. v = [conv |-> v.conv, msgs |-> v.msgs, reactions |-> v.reactions]
  BY DEF View
<1> HIDE DEF entry
<1> QED
  BY <1>1, <1>2, <1>3

LEMMA OnEventDeleted ==
  ASSUME NEW v \in View, NEW e \in Req, e.event = "message_deleted"
  PROVE  \A s \in OnEvent(v, e).msgs : s.id # e.msg
BY DEF OnEvent, View

LEMMA OnEventEdited ==
  ASSUME NEW v \in View, NEW e \in Req, e.event = "message_edited"
  PROVE  /\ \A s \in OnEvent(v, e).msgs : s.id = e.msg => s.body = e.body /\ s.pinned = e.pinned
         /\ (\E s \in v.msgs : s.id = e.msg) => \E s \in OnEvent(v, e).msgs : s.id = e.msg
         /\ OnEvent(v, e).reactions = v.reactions
<1> DEFINE entry == [id |-> e.msg, body |-> e.body, pinned |-> e.pinned]
           S == {IF s.id = e.msg THEN entry ELSE s : s \in v.msgs}
<1>1. entry.id = e.msg /\ entry.body = e.body /\ entry.pinned = e.pinned
  OBVIOUS
<1>2. OnEvent(v, e) = [v EXCEPT !.msgs = S]
  BY DEF OnEvent, View
<1>3. v = [conv |-> v.conv, msgs |-> v.msgs, reactions |-> v.reactions]
  BY DEF View
<1> HIDE DEF entry
<1>4. \A s \in S : s.id = e.msg => s = entry
  OBVIOUS
<1>5. (\E s \in v.msgs : s.id = e.msg) => entry \in S
  OBVIOUS
<1>6. OnEvent(v, e).msgs = S /\ OnEvent(v, e).reactions = v.reactions
  <2> HIDE DEF S
  <2> QED
    BY <1>2, <1>3
<1> HIDE DEF S
<1> QED
  BY <1>1, <1>4, <1>5, <1>6

LEMMA OnEventPin ==
  ASSUME NEW v \in View, NEW e \in Req, e.event = "pin"
  PROVE  /\ \A s \in OnEvent(v, e).msgs : s.id = e.msg =>
              s.pinned = e.pinned /\ \E t \in v.msgs : t.id = e.msg /\ s.body = t.body
         /\ (\E s \in v.msgs : s.id = e.msg) => \E s \in OnEvent(v, e).msgs : s.id = e.msg
         /\ OnEvent(v, e).reactions = v.reactions
<1> DEFINE P(s) == [s EXCEPT !.pinned = e.pinned]
           S == {IF s.id = e.msg THEN P(s) ELSE s : s \in v.msgs}
<1>1. \A s \in v.msgs : P(s).id = s.id /\ P(s).body = s.body /\ P(s).pinned = e.pinned
  BY DEF View, Shown
<1>2. OnEvent(v, e) = [v EXCEPT !.msgs = S]
  BY DEF OnEvent, View
<1>3. v = [conv |-> v.conv, msgs |-> v.msgs, reactions |-> v.reactions]
  BY DEF View
<1> HIDE DEF P
<1>4. \A s \in S : s.id = e.msg => \E t \in v.msgs : t.id = e.msg /\ s = P(t)
  BY <1>1
<1>5. \A t \in v.msgs : t.id = e.msg => P(t) \in S
  OBVIOUS
<1>6. OnEvent(v, e).msgs = S /\ OnEvent(v, e).reactions = v.reactions
  <2> HIDE DEF S
  <2> QED
    BY <1>2, <1>3
<1> HIDE DEF S
<1> QED
  BY <1>1, <1>4, <1>5, <1>6

LEMMA OnEventReaction ==
  ASSUME NEW v \in View, NEW e \in Req, e.event = "reaction"
  PROVE  /\ OnEvent(v, e).msgs = v.msgs
         /\ \A w : <<e.msg, w>> \in OnEvent(v, e).reactions <=>
                     IF w = e.user THEN e.on ELSE <<e.msg, w>> \in v.reactions
<1>1. OnEvent(v, e) = [v EXCEPT !.reactions = IF e.on THEN v.reactions \cup {<<e.msg, e.user>>}
                                             ELSE v.reactions \ {<<e.msg, e.user>>}]
  BY DEF OnEvent, WithReaction, View
<1>2. v = [conv |-> v.conv, msgs |-> v.msgs, reactions |-> v.reactions]
  BY DEF View
<1>3. e.on \in BOOLEAN
  BY DEF Req
<1> QED
  BY <1>1, <1>2, <1>3

(* Everything that is said of message m when request h is answered is what *)
(* h says, if nobody raced.                                                *)
LEMMA OnlySpeaker ==
  ASSUME TypeInv, AloneInv, NEW h \in Handlers, req[h].at = "tell", req[h].msg \notin raced
  PROVE  /\ \A e \in Events : Telling(req[h].msg, e) => req[h].event = e
         /\ \A v \in Users : TellingOf(req[h].msg, v) => req[h].event = "reaction" /\ req[h].user = v
         /\ \A c \in Convs : Deleting(req[h].msg, c) => req[h].event = "message_deleted" /\ req[h].conv = c
<1>1. \A g \in Handlers : req[g].at \in Speaking /\ req[g].msg = req[h].msg => g = h
  BY OneBusy DEF Speaking, OnMessage
<1> QED
  BY <1>1 DEF Telling, TellingOf, Deleting, Speaking

(* The client of a member who has the conversation open is told ...        *)
LEMMA ToldSees ==
  ASSUME TypeInv, AloneInv, EventInv, NEW h \in Handlers, Broadcast(h), NEW u \in Users \ missed,
         NEW m \in Messages \ raced, req[h].msg = m, ~incident, view[u].conv = req[h].conv
  PROVE  Agrees(u, m)'
<1>v. PICK v : v = view[u]
  OBVIOUS
<1>e. PICK e : e = req[h]
  OBVIOUS
<1>0. /\ v \in View /\ e \in Req /\ e.at = "tell" /\ e.user \in Users
      /\ UNCHANGED <<role, msg, reactions>>
      /\ e.msg = m /\ v.conv = e.conv
  BY <1>v, <1>e, BroadcastViews
<1>1. v.conv \in Convs
  BY <1>0, <1>e, ReqOf DEF Shape, OnMessage
<1>2. view'[u] = OnEvent(v, e) /\ view'[u].conv = v.conv
  <2>1. IsMember(e.conv, u)
    BY <1>0, <1>1, <1>v, EventParts DEF Present
  <2> QED
    BY <1>0, <1>v, <1>e, <2>1, BroadcastViews, OnEventConv
<1>3. Sees(u, m) /\ TruthReq(e) /\ e.event \in Events
  BY <1>0, <1>e, EventParts DEF Req
<1>4. ShowsRow(u, m) /\ ShowsReactions(u, m)
  BY <1>1, <1>3, <1>v DEF Sees
<1>5. /\ \A x \in Events : Telling(m, x) => e.event = x
      /\ \A w \in Users : TellingOf(m, w) => e.event = "reaction" /\ e.user = w
      /\ \A c \in Convs : Deleting(m, c) => e.event = "message_deleted" /\ e.conv = c
  BY <1>0, <1>e, OnlySpeaker
<1>6. Here(u, m)' <=> Here(u, m)
  BY <1>0, <1>2, <1>v DEF Here, Exists
<1>7. e.event # "message_deleted" =>
        /\ Here(u, m)
        /\ e.event \in {"message", "message_edited"} => e.body = msg[m].body
        /\ e.event \in {"message", "message_edited", "pin"} => e.pinned = msg[m].pinned
        /\ e.event = "reaction" => (e.on <=> <<m, e.user>> \in reactions)
  BY <1>0, <1>3, <1>v DEF TruthReq, OnMessage, Here
<1>8. CASE e.event = "message_deleted"
  <2>1. ~Here(u, m)
    BY <1>0, <1>3, <1>8 DEF TruthReq, OnMessage, Here, Exists
  <2>2. \A s \in view'[u].msgs : s.id # m
    BY <1>0, <1>2, <1>8, OnEventDeleted
  <2> QED
    BY <1>6, <2>1, <2>2 DEF Agrees
<1>9. CASE e.event # "message_deleted"
  <2>1. /\ \A s \in v.msgs : s.id = m =>
             /\ s.pinned = msg[m].pinned \/ e.event = "pin"
             /\ s.body = msg[m].body \/ e.event = "message_edited"
        /\ (\E s \in v.msgs : s.id = m) \/ e.event = "message"
    BY <1>4, <1>5, <1>7, <1>9, <1>v DEF ShowsRow, Events
  <2>2. \A w \in Users : \/ <<m, w>> \in v.reactions <=> <<m, w>> \in reactions
                         \/ e.event = "reaction" /\ e.user = w
    BY <1>4, <1>5, <1>7, <1>9, <1>v DEF ShowsReactions
  <2>3. /\ \A s \in OnEvent(v, e).msgs : s.id = m => s.pinned = msg[m].pinned /\ s.body = msg[m].body
        /\ \E s \in OnEvent(v, e).msgs : s.id = m
    <3>1. CASE e.event = "message"
      BY <1>0, <1>7, <2>1, <3>1, OnEventMessage
    <3>2. CASE e.event = "message_edited"
      BY <1>0, <1>7, <2>1, <3>2, OnEventEdited
    <3>3. CASE e.event = "pin"
      BY <1>0, <1>7, <2>1, <3>3, OnEventPin
    <3>4. CASE e.event = "reaction"
      BY <1>0, <1>7, <2>1, <3>4, OnEventReaction
    <3> QED
      BY <1>3, <1>9, <3>1, <3>2, <3>3, <3>4 DEF Events
  <2>4. \A w \in Users : <<m, w>> \in OnEvent(v, e).reactions <=> <<m, w>> \in reactions
    <3>1. CASE e.event = "message"
      BY <1>0, <2>2, <3>1, OnEventMessage
    <3>2. CASE e.event = "message_edited"
      BY <1>0, <2>2, <3>2, OnEventEdited
    <3>3. CASE e.event = "pin"
      BY <1>0, <2>2, <3>3, OnEventPin
    <3>4. CASE e.event = "reaction"
      BY <1>0, <1>7, <2>2, <3>4, OnEventReaction
    <3> QED
      BY <1>3, <1>9, <3>1, <3>2, <3>3, <3>4 DEF Events
  <2>5. Here(u, m)'
    BY <1>6, <1>7, <1>9
  <2>6. /\ \A s \in view'[u].msgs : s.id = m => s.pinned = msg'[m].pinned /\ s.body = msg'[m].body
        /\ \E s \in view'[u].msgs : s.id = m
        /\ \A w \in Users : <<m, w>> \in view'[u].reactions <=> <<m, w>> \in reactions'
    BY <1>0, <1>2, <2>3, <2>4
  <2> QED
    BY <2>5, <2>6 DEF Agrees
<1> QED
  BY <1>8, <1>9

(* ... and to others the message is nothing.                               *)
LEMMA UntoldSees ==
  ASSUME TypeInv, AloneInv, EventInv, NEW h \in Handlers, Broadcast(h), NEW u \in Users \ missed,
         NEW m \in Messages \ raced, req[h].msg = m, ~incident, view[u].conv # req[h].conv
  PROVE  Sees(u, m)'
<1>1. /\ view'[u] = view[u] /\ view[u] \in View /\ req[h].at = "tell"
      /\ UNCHANGED <<msg, reactions>>
  BY BroadcastViews
<1>2. Sees(u, m) /\ TruthReq(req[h])
  BY EventParts
<1> SUFFICES ASSUME view[u].conv # None PROVE Agrees(u, m)'
  BY <1>1, AgreesSees DEF Sees
<1>3. view[u].conv \in Convs /\ ShowsRow(u, m)
  BY <1>1, <1>2 DEF View, Sees
<1>4. ~Here(u, m)
  BY <1>1, <1>2 DEF TruthReq, OnMessage, Here, Exists
<1>5. ~Deleting(m, view[u].conv)
  BY <1>1, <1>3, OnlySpeaker
<1>6. \A s \in view[u].msgs : s.id # m
  BY <1>3, <1>4, <1>5 DEF ShowsRow
<1>7. ~Here(u, m)'
  BY <1>1, <1>4 DEF Here, Exists
<1> QED
  BY <1>1, <1>6, <1>7 DEF Agrees

(* Both together, and messages the event is not about.                     *)
LEMMA BroadcastSees ==
  ASSUME TypeInv, AloneInv, EventInv, NEW h \in Handlers, Broadcast(h), NEW u \in Users \ missed,
         NEW m \in Messages \ raced, ~incident
  PROVE  Sees(u, m)'
<1>1. CASE req[h].msg = m
  BY <1>1, ToldSees, UntoldSees, AgreesSees
<1>2. CASE req[h].msg # m
  <2>1. /\ view[u] \in View /\ req[h] \in Req /\ Others(h) /\ UNCHANGED <<msg, reactions>>
        /\ view'[u] = view[u] \/ view'[u] = OnEvent(view[u], req[h])
    BY BroadcastViews
  <2>2. /\ {s \in view'[u].msgs : s.id = m} = {s \in view[u].msgs : s.id = m}
        /\ \A w : <<m, w>> \in view'[u].reactions <=> <<m, w>> \in view[u].reactions
        /\ view'[u].conv = view[u].conv
    BY <1>2, <2>1, OnEventOther
  <2>3. SameRow(u, m)
    BY <2>2 DEF SameRow
  <2>4. Heard(m)
    BY <1>2, <2>1, HeardOther
  <2> QED
    BY <2>1, <2>2, <2>3, <2>4, EventParts, SeesKept
<1> QED
  BY <1>1, <1>2

(* What a request does to its message it is about to tell.                 *)
LEMMA CreateSees ==
  ASSUME TypeInv, AloneInv, EventInv, NEW h \in Handlers, NEW m \in Messages, CreateMessage(h, m),
         NEW u \in Users, Sees(u, m)
  PROVE  Sees(u, m)'
<1>1. msg[m].is = "free" /\ reactions' = reactions /\ view' = view /\ req[h].at = "post"
  BY CreateRow DEF CreateMessage
<1>2. /\ \A v \in Users : <<m, v>> \notin reactions /\ <<m, v>> \notin view[u].reactions
      /\ \A s \in view[u].msgs : s.id # m
  BY <1>1 DEF AloneInv, FreshMessage
<1>3. req'[h].at = "reread" /\ req'[h].msg = m /\ req'[h].event = "message"
  BY <1>1, EventParts, CreateMessageReq DEF EventReq
<1>4. Telling(m, "message")'
  BY <1>3 DEF Telling
<1>5. ShowsRow(u, m)'
  BY <1>1, <1>2, <1>4 DEF ShowsRow
<1>6. ShowsReactions(u, m)'
  BY <1>1, <1>2 DEF ShowsReactions
<1> QED
  BY <1>5, <1>6 DEF Sees

LEMMA EditSees ==
  ASSUME TypeInv, EventInv, NEW h \in Handlers, UpdateMessageBody(h) \/ SetMessagePinned(h),
         NEW m \in Messages, req[h].msg = m, NEW u \in Users, Sees(u, m)
  PROVE  Sees(u, m)'
<1>1. /\ view' = view /\ reactions' = reactions
      /\ msg'[m].is = msg[m].is /\ msg'[m].conv = msg[m].conv
  BY EditRow, PinRow DEF UpdateMessageBody, SetMessagePinned
<1>2. Others(h) /\ req[h].at \in {"edit", "pin"} /\ req'[h].msg = m /\ req'[h].event = req[h].event
  BY EditRow, PinRow, GotoReq DEF SameSubject
<1>3. Heard(m)
  BY <1>2, HeardOther DEF Speaking
<1>4. msg'[m].pinned = msg[m].pinned \/ Telling(m, "pin")'
  <2>1. CASE UpdateMessageBody(h)
    BY <2>1, EditRow
  <2>2. CASE SetMessagePinned(h)
    <3>1. req'[h].at = "tell" /\ req'[h].event = "pin"
      BY <1>2, <2>2, PinRow, GotoReq, EventParts DEF EventReq
    <3> QED
      BY <1>2, <3>1 DEF Telling
  <2> QED
    BY <2>1, <2>2
<1>5. msg'[m].body = msg[m].body \/ Telling(m, "message_edited")'
  <2>1. CASE UpdateMessageBody(h)
    <3>1. req'[h].at = "reread" /\ req'[h].event = "message_edited"
      BY <1>2, <2>1, EditRow, GotoReq, EventParts DEF EventReq
    <3> QED
      BY <1>2, <3>1 DEF Telling
  <2>2. CASE SetMessagePinned(h)
    BY <2>2, PinRow
  <2> QED
    BY <2>1, <2>2
<1> SUFFICES ASSUME view[u].conv \in Convs, ShowsRow(u, m), ShowsReactions(u, m)
             PROVE  ShowsRow(u, m)' /\ ShowsReactions(u, m)'
  BY <1>1, Typed DEF Sees, Stored, View
<1>6. Here(u, m)' <=> Here(u, m)
  BY <1>1 DEF Here, Exists
<1>c. PICK c \in Convs : c = view[u].conv
  OBVIOUS
<1>7. /\ Telling(m, "pin") => Telling(m, "pin")'
      /\ Telling(m, "message_edited") => Telling(m, "message_edited")'
      /\ Telling(m, "message") => Telling(m, "message")'
      /\ Deleting(m, c) => Deleting(m, c)'
  BY <1>3 DEF Heard, Events
<1>8. ASSUME NEW s \in view[u].msgs, s.id = m
      PROVE  /\ Here(u, m)' \/ Deleting(m, c)'
             /\ Here(u, m)' => /\ s.pinned = msg'[m].pinned \/ Telling(m, "pin")'
                               /\ s.body = msg'[m].body \/ Telling(m, "message_edited")'
  BY <1>c, <1>4, <1>5, <1>6, <1>7, <1>8 DEF ShowsRow
<1>9. Here(u, m)' => (\E s \in view[u].msgs : s.id = m) \/ Telling(m, "message")'
  BY <1>6, <1>7 DEF ShowsRow
<1>10. Deleting(m, c)' => Deleting(m, view[u].conv)'
  BY <1>1, <1>c DEF Deleting
<1>11. ShowsRow(u, m)'
  BY <1>1, <1>8, <1>9, <1>10 DEF ShowsRow
<1>12. ShowsReactions(u, m)'
  BY <1>1, <1>3, <1>6 DEF ShowsReactions, Heard
<1> QED
  BY <1>11, <1>12

LEMMA ReactSees ==
  ASSUME TypeInv, EventInv, NEW h \in Handlers, React(h),
         NEW m \in Messages, req[h].msg = m, NEW u \in Users, Sees(u, m)
  PROVE  Sees(u, m)'
<1>1. view' = view /\ msg' = msg /\ req[h].at = "react" /\ Others(h)
  BY ReactReq DEF React
<1>2. Heard(m)
  BY <1>1, HeardOther DEF Speaking
<1>3. CASE req'[h] = Idle /\ ~req[h].on /\ ~Exists(m)
  <2>1. reactions' = reactions
    BY <1>3 DEF React, AddReaction
  <2> QED
    BY <1>1, <1>2, <2>1, SeesKept DEF SameRow
<1>4. CASE req'[h].at = "tell" /\ SameSubject(req'[h], req[h])
  <2>1. PICK w : w = req[h].user
    OBVIOUS
  <2>2. TellingOf(m, w)'
    <3>1. req'[h].event = "reaction" /\ req'[h].msg = m /\ req'[h].user = w
      BY <1>1, <1>4, <2>1, EventParts DEF EventReq, SameSubject
    <3> QED
      BY <1>4, <3>1 DEF TellingOf
  <2>3. \A v \in Users \ {w} : <<m, v>> \in reactions' <=> <<m, v>> \in reactions
    <3>1. reactions' \in {reactions, reactions \cup {<<m, w>>}, reactions \ {<<m, w>>}}
      BY <2>1 DEF React, AddReaction, RemoveReaction
    <3> QED
      BY <3>1
  <2> SUFFICES ASSUME view[u].conv \in Convs, ShowsRow(u, m), ShowsReactions(u, m)
               PROVE  ShowsRow(u, m)' /\ ShowsReactions(u, m)'
    BY <1>1, Typed DEF Sees, Stored, View
  <2>4. Here(u, m)' <=> Here(u, m)
    BY <1>1 DEF Here, Exists
  <2>c. PICK c \in Convs : c = view[u].conv
    OBVIOUS
  <2>5. /\ Telling(m, "pin") => Telling(m, "pin")'
        /\ Telling(m, "message_edited") => Telling(m, "message_edited")'
        /\ Telling(m, "message") => Telling(m, "message")'
        /\ Deleting(m, c) => Deleting(m, c)'
    BY <1>2 DEF Heard, Events
  <2>6. Deleting(m, c)' => Deleting(m, view[u].conv)'
    BY <1>1, <2>c DEF Deleting
  <2>7. ShowsRow(u, m)'
    BY <1>1, <2>c, <2>4, <2>5, <2>6 DEF ShowsRow
  <2>8. ShowsReactions(u, m)'
    BY <1>1, <1>2, <2>2, <2>3, <2>4 DEF ShowsReactions, Heard
  <2> QED
    BY <2>7, <2>8
<1> QED
  BY <1>3, <1>4, ReactReq

LEMMA RereadSees ==
  ASSUME TypeInv, EventInv, NEW h \in Handlers, Reread(h) \/ RemoveFile(h), ~incident,
         NEW m \in Messages \ raced, req[h].msg = m, NEW u \in Users, Sees(u, m)
  PROVE  Sees(u, m)'
<1>1. view' = view /\ msg' = msg /\ reactions' = reactions
  BY DEF Reread, RemoveFile, posts
<1>2. /\ Others(h) /\ req[h].at \in {"reread", "unlink"}
      /\ req'[h].at = "tell" /\ SameSubject(req'[h], req[h])
  <2>1. CASE Reread(h)
    <3>1. Exists(m)
      BY <2>1, EventParts DEF Reread, TruthReq, OnMessage
    <3> QED
      BY <2>1, <3>1, RereadReq
  <2>2. CASE RemoveFile(h)
    <3>1. Goto(h, "tell") /\ req[h].at = "unlink"
      BY <2>2 DEF RemoveFile
    <3> QED
      BY <3>1, GotoReq
  <2> QED
    BY <2>1, <2>2
<1>3. Heard(m)
  BY <1>2, HeardKept DEF Others, SameSubject
<1> QED
  BY <1>1, <1>3, SeesKept DEF SameRow

LEMMA DeleteSees ==
  ASSUME TypeInv, EventInv, NEW h \in Handlers, DeleteMessage(h), ~incident,
         NEW m \in Messages \ raced, req[h].msg = m, NEW u \in Users, Sees(u, m)
  PROVE  Sees(u, m)'
<1>1. view' = view /\ msg'[m].is = "deleted" /\ req[h].at = "delete"
  BY DeleteRow DEF DeleteMessage
<1>2. /\ Others(h) /\ req'[h].at \in {"unlink", "tell"} /\ SameSubject(req'[h], req[h])
      /\ req[h].event = "message_deleted"
  BY <1>1, DeleteRow, GotoReq, EventParts DEF EventReq
<1>3. req[h].conv = msg[m].conv
  BY <1>1, EventParts DEF TruthReq, OnMessage
<1>4. Heard(m)
  BY <1>1, <1>2, HeardOther DEF Speaking
<1> SUFFICES ASSUME view[u].conv \in Convs, ShowsRow(u, m)
             PROVE  ShowsRow(u, m)' /\ ShowsReactions(u, m)'
  BY <1>1, Typed DEF Sees, Stored, View
<1>5. ~Here(u, m)'
  BY <1>1 DEF Here, Exists
<1>c. PICK c \in Convs : c = view[u].conv
  OBVIOUS
<1>6. ASSUME NEW s \in view[u].msgs, s.id = m PROVE Deleting(m, c)'
  <2>1. CASE Here(u, m)
    <3>1. req'[h].conv = c /\ req'[h].msg = m /\ req'[h].event = "message_deleted"
      BY <1>2, <1>3, <1>c, <2>1 DEF Here, SameSubject
    <3> QED
      BY <1>2, <3>1 DEF Deleting
  <2>2. CASE Deleting(m, c)
    BY <1>4, <2>2 DEF Heard
  <2> QED
    BY <1>6, <1>c, <2>1, <2>2 DEF ShowsRow
<1>7. Deleting(m, c)' => Deleting(m, view[u].conv)'
  BY <1>1, <1>c DEF Deleting
<1> QED
  BY <1>1, <1>5, <1>6, <1>7 DEF ShowsRow, ShowsReactions

(* Sees, action by action.                                                 *)
LEMMA MessagedSees ==
  ASSUME TypeInv, AloneInv, EventInv, NEW h \in Handlers, Messaged(h), ~incident,
         NEW u \in Users \ missed, NEW m \in Messages \ raced
  PROVE  Sees(u, m)'
<1>1. Others(h) /\ Sees(u, m)
  BY MessagedFrame, EventParts
<1>a. ASSUME Heard(m), view' = view, msg'[m] = msg[m],
             \A v \in Users : <<m, v>> \in reactions' <=> <<m, v>> \in reactions
      PROVE  Sees(u, m)'
  BY <1>1, <1>a, SeesKept DEF SameRow
<1>2. ASSUME NEW f \in Files, StoreFile(h, f) \/ CopyFile(h, f) PROVE Sees(u, m)'
  <2>1. view' = view /\ msg' = msg /\ reactions' = reactions /\ req[h].at \notin Speaking
    BY <1>2, StoreReq, CopyReq DEF StoreFile, CopyFile, posts, Speaking
  <2> QED
    BY <1>1, <1>a, <2>1, HeardOther
<1>3. ASSUME NEW n \in Messages, CreateMessage(h, n) PROVE Sees(u, m)'
  <2>1. CASE m = n
    BY <1>1, <1>3, <2>1, CreateSees
  <2>2. CASE m # n
    <3>1. view' = view /\ reactions' = reactions /\ req[h].at \notin Speaking
      BY <1>3 DEF CreateMessage, Speaking
    <3>2. msg'[m] = msg[m]
      <4>1. \A k \in Messages \ {n} : msg'[k] = msg[k]
        BY <1>3, CreateRow
      <4> QED
        BY <2>2, <4>1
    <3> QED
      BY <1>1, <1>a, <3>1, <3>2, HeardOther
  <2> QED
    BY <2>1, <2>2
<1>4. CASE SetConversationAvatar(h)
  <2>1. view' = view /\ msg' = msg /\ reactions' = reactions /\ req[h].at \notin Speaking
    BY <1>4 DEF SetConversationAvatar, posts, Speaking
  <2> QED
    BY <1>1, <1>a, <2>1, HeardOther
<1>5. CASE UpdateMessageBody(h) \/ SetMessagePinned(h)
  <2>1. CASE req[h].msg = m
    BY <1>1, <1>5, <2>1, EditSees
  <2>2. CASE req[h].msg # m
    <3>1. view' = view /\ reactions' = reactions
      BY <1>5 DEF UpdateMessageBody, SetMessagePinned
    <3>2. msg'[m] = msg[m]
      BY <1>5, <2>2, EditRow, PinRow
    <3> QED
      BY <1>1, <1>a, <2>2, <3>1, <3>2, HeardOther
  <2> QED
    BY <2>1, <2>2
<1>6. CASE React(h)
  <2>1. CASE req[h].msg = m
    BY <1>1, <1>6, <2>1, ReactSees
  <2>2. CASE req[h].msg # m
    <3>1. view' = view /\ msg' = msg
      BY <1>6 DEF React
    <3>2. \A v \in Users : <<m, v>> \in reactions' <=> <<m, v>> \in reactions
      BY <1>6, <2>2 DEF React, AddReaction, RemoveReaction
    <3> QED
      BY <1>1, <1>a, <2>2, <3>1, <3>2, HeardOther
  <2> QED
    BY <2>1, <2>2
<1>7. CASE DeleteMessage(h)
  <2>1. CASE req[h].msg = m
    BY <1>1, <1>7, <2>1, DeleteSees
  <2>2. CASE req[h].msg # m
    <3>1. view' = view
      BY <1>7 DEF DeleteMessage
    <3>2. msg'[m] = msg[m] /\ \A v \in Users : <<m, v>> \in reactions' <=> <<m, v>> \in reactions
      BY <1>7, <2>2, DeleteRow
    <3> QED
      BY <1>1, <1>a, <2>2, <3>1, <3>2, HeardOther
  <2> QED
    BY <2>1, <2>2
<1>8. CASE Reread(h) \/ RemoveFile(h)
  <2>1. CASE req[h].msg = m
    BY <1>1, <1>8, <2>1, RereadSees
  <2>2. CASE req[h].msg # m
    <3>1. view' = view /\ msg' = msg /\ reactions' = reactions
      BY <1>8 DEF Reread, RemoveFile, posts
    <3> QED
      BY <1>1, <1>a, <2>2, <3>1, HeardOther
  <2> QED
    BY <2>1, <2>2
<1>9. CASE Broadcast(h)
  BY <1>9, BroadcastSees
<1> QED
  BY <1>2, <1>3, <1>4, <1>5, <1>6, <1>7, <1>8, <1>9 DEF Messaged

LEMMA OpenSees ==
  ASSUME TypeInv, NEW w \in Users, NEW c \in Convs, OpenConversation(w, c),
         NEW u \in Users, NEW m \in Messages, u # w => Sees(u, m)
  PROVE  Sees(u, m)'
<1>1. msg' = msg /\ reactions' = reactions /\ req' = req
  BY DEF OpenConversation, posts
<1>2. CASE u = w
  <2>1. /\ view'[u].conv = c
        /\ {s \in view'[u].msgs : s.id = m} = IF Exists(m) /\ msg[m].conv = c THEN {ShownAs(m)} ELSE {}
        /\ \A v \in Users : <<m, v>> \in view'[u].reactions <=> <<m, v>> \in reactions /\ msg[m].conv = c
    BY <1>2, OpenViews
  <2>2. Here(u, m)' <=> Exists(m) /\ msg[m].conv = c
    BY <1>1, <2>1 DEF Here, Exists
  <2>3. ShownAs(m).id = m /\ ShownAs(m).body = msg[m].body /\ ShownAs(m).pinned = msg[m].pinned
    BY DEF ShownAs
  <2>4. \A s \in view'[u].msgs : s.id = m =>
          Here(u, m)' /\ s.pinned = msg[m].pinned /\ s.body = msg[m].body
    BY <2>1, <2>2, <2>3
  <2>5. Here(u, m)' => /\ \E s \in view'[u].msgs : s.id = m
                       /\ \A v \in Users : <<m, v>> \in view'[u].reactions <=> <<m, v>> \in reactions
    BY <2>1, <2>2, <2>3
  <2>6. Agrees(u, m)'
    BY <1>1, <2>4, <2>5 DEF Agrees
  <2> QED
    BY <2>6, AgreesSees
<1>3. CASE u # w
  <2>1. view'[u] = view[u]
    BY <1>3, OpenViews
  <2>2. Heard(m)
    BY <1>1, HeardKept
  <2> QED
    BY <1>1, <1>3, <2>1, <2>2, SeesKept DEF SameRow
<1> QED
  BY <1>2, <1>3

LEMMA NextSees ==
  ASSUME TypeInv, AloneInv, EventInv, Next, ~incident',
         NEW u \in Users \ missed', NEW m \in Messages \ raced'
  PROVE  Sees(u, m)'
<1>1. ASSUME NEW h \in Handlers, Requested(h) PROVE Sees(u, m)'
  <2>1. PICK r : Shape(r) /\ Begin(h, r) /\ Asked(r) /\ (incident => incident')
    BY <1>1 DEF Requested
  <2>2. /\ Others(h) /\ req[h].at = "idle" /\ raced \subseteq raced'
        /\ UNCHANGED <<view, msg, reactions, missed>>
    BY <2>1, BeginReq, IdleFields
  <2>3. Heard(m)
    BY <2>2, HeardOther DEF Speaking
  <2>4. Sees(u, m)
    BY <2>1, <2>2, EventParts
  <2> QED
    BY <2>2, <2>3, <2>4, SeesKept DEF SameRow
<1>2. ASSUME NEW h \in Handlers, Membered(h) PROVE Sees(u, m)'
  <2>1. Others(h) /\ req[h].at \notin Speaking
    BY <1>2, CreateReq, AddReq, AnswerReq
       DEF Membered, Publish, RemoveConversationMember, SetConversationMemberRole, Speaking
  <2>2. msg' = msg /\ reactions' = reactions /\ raced' = raced /\ view' = view
    BY <1>2 DEF Membered, CreateConversation, AddMember, Publish, RemoveConversationMember,
         SetConversationMemberRole, posts, history
  <2>3. incident' = incident \/ incident' = TRUE
    <3>1. CASE AddMember(h)
      BY <3>1, AddReq
    <3>2. CASE ~AddMember(h)
      BY <1>2, <3>2 DEF Membered, CreateConversation, Publish, RemoveConversationMember,
           SetConversationMemberRole, history
    <3> QED
      BY <3>1, <3>2
  <2>4. missed \subseteq missed'
    BY <1>2 DEF Membered, CreateConversation, AddMember, Publish, RemoveConversationMember,
         SetConversationMemberRole, history
  <2>5. Heard(m)
    BY <2>1, HeardOther
  <2>6. Sees(u, m)
    BY <2>2, <2>3, <2>4, EventParts
  <2> QED
    BY <2>2, <2>5, <2>6, SeesKept DEF SameRow
<1>3. ASSUME NEW h \in Handlers, Messaged(h) PROVE Sees(u, m)'
  <2>1. raced' = raced /\ missed' = missed /\ ~incident
    BY <1>3, MessagedFrame
  <2> QED
    BY <1>3, <2>1, MessagedSees
<1>4. ASSUME NEW h \in Handlers, Fail(h) PROVE Sees(u, m)'
  BY <1>4 DEF Fail
<1>5. ASSUME NEW w \in Users, NEW c \in Convs, OpenConversation(w, c) PROVE Sees(u, m)'
  <2>1. raced' = raced /\ missed' = missed \ {w} /\ incident' = incident
    BY <1>5 DEF OpenConversation
  <2>2. u # w => Sees(u, m)
    BY <2>1, EventParts
  <2> QED
    BY <1>5, <2>2, OpenSees
<1> QED
  BY <1>1, <1>2, <1>3, <1>4, <1>5, Steps

(* EventInv, from its parts.                                               *)
LEMMA NextEventInv == TypeInv /\ AloneInv /\ EventInv /\ [Next]_vars => EventInv'
<1>1. TypeInv /\ AloneInv /\ EventInv /\ Next => EventInv'
  <2> SUFFICES ASSUME TypeInv, AloneInv, EventInv, Next PROVE EventInv'
    OBVIOUS
  <2>1. \A g \in Handlers : EventReq(req[g])'
    BY NextEventReq
  <2>2. \A u \in Users \ missed' : Present(u)'
    BY NextPresent
  <2>3. ~incident' => \A g \in Handlers : TruthReq(req[g])'
    BY NextTruthReq
  <2>4. ~incident' => \A u \in Users \ missed', m \in Messages \ raced' : Sees(u, m)'
    BY NextSees
  <2> QED
    BY <2>1, <2>2, <2>3, <2>4 DEF EventInv
<1>2. EventInv /\ UNCHANGED vars => EventInv'
  BY DEF EventInv, vars, members, posts, history, EventReq, Present, TruthReq, Sees, ShowsRow, ShowsReactions,
     Here, Exists, Telling, TellingOf, Deleting, IsMember
<1> QED
  BY <1>1, <1>2

(* With nobody about to tell, a client shows what a look would.            *)
LEMMA QuietAgrees ==
  ASSUME TypeInv, NEW u \in Users, NEW m \in Messages \ InFlight, Sees(u, m), view[u].conv # None
  PROVE  Agrees(u, m)
<1>1. \A g \in Handlers : req[g].at \in Speaking => req[g].msg # m
  BY ReqOf DEF Shape, OnMessage, Speaking, InFlight
<1>2. /\ \A e : ~Telling(m, e)
      /\ \A v : ~TellingOf(m, v)
      /\ \A c : ~Deleting(m, c)
  BY <1>1 DEF Telling, TellingOf, Deleting, Speaking
<1> QED
  BY <1>2 DEF Sees, ShowsRow, ShowsReactions, Agrees

(* The same as sets of rows and of reactions.                              *)
LEMMA AgreesShown ==
  ASSUME TypeInv, NEW u \in Users, NEW m \in Messages, Agrees(u, m), NEW c \in Convs, c = view[u].conv
  PROVE  /\ {s \in view[u].msgs : s.id = m} = {s \in listMessages(c) : s.id = m}
         /\ Exists(m) /\ msg[m].conv = c =>
              {x \in view[u].reactions : x[1] = m} = {x \in ListReactions(c) : x[1] = m}
<1>1. view[u] \in View /\ reactions \in SUBSET (Messages \X Users)
  BY Typed DEF Stored
<1>2. Here(u, m) <=> Exists(m) /\ msg[m].conv = c
  BY DEF Here
<1>3. {s \in listMessages(c) : s.id = m} = IF Here(u, m) THEN {ShownAs(m)} ELSE {}
  BY <1>2 DEF listMessages, ListMessages, ShownAs
<1>4. \A s \in view[u].msgs : s.id = m => Here(u, m) /\ s = ShownAs(m)
  BY <1>1 DEF View, Shown, ShownAs, Agrees
<1>5. Here(u, m) => ShownAs(m) \in view[u].msgs /\ ShownAs(m).id = m
  BY <1>4 DEF Agrees, ShownAs
<1>6. {s \in view[u].msgs : s.id = m} = {s \in listMessages(c) : s.id = m}
  BY <1>3, <1>4, <1>5
<1>7. ASSUME Here(u, m)
      PROVE  {x \in view[u].reactions : x[1] = m} = {x \in ListReactions(c) : x[1] = m}
  <2>1. view[u].reactions \in SUBSET (Messages \X Users)
    BY <1>1 DEF View
  <2>2. \A v \in Users : <<m, v>> \in view[u].reactions <=> <<m, v>> \in ListReactions(c)
    BY <1>2, <1>7 DEF Agrees, ListReactions
  <2>3. \A x \in Messages \X Users : x[1] = m => \E v \in Users : x = <<m, v>>
    OBVIOUS
  <2>4. ListReactions(c) \in SUBSET (Messages \X Users)
    BY <1>1 DEF ListReactions
  <2> QED
    BY <2>1, <2>2, <2>3, <2>4
<1> QED
  BY <1>2, <1>6, <1>7

(* Once nobody is busy with a message, every client that has its           *)
(* conversation open shows it as a fresh look would (the hub's events,     *)
(* chat.go and its siblings): its text, whether it is pinned, whether it   *)
(* is there, and its reactions.                                            *)
THEOREM ViewsAgree == Spec => []EventsAgree
<1> DEFINE Inv == TypeInv /\ AloneInv /\ EventInv
<1>1. Init => Inv
  BY InitTypeInv, InitAloneInv, InitEventInv
<1>2. Inv /\ [Next]_vars => Inv'
  BY NextTypeInv, NextAloneInv, NextEventInv
<1>3. Inv => EventsAgree
  <2> SUFFICES ASSUME Inv, ~incident, NEW u \in Users \ missed,
                      NEW m \in Messages \ (raced \cup InFlight), NEW c, c = view[u].conv, c # None
               PROVE  /\ {s \in view[u].msgs : s.id = m} = {s \in listMessages(c) : s.id = m}
                      /\ Exists(m) /\ msg[m].conv = c =>
                           {x \in view[u].reactions : x[1] = m} = {x \in ListReactions(c) : x[1] = m}
    BY DEF EventsAgree
  <2>1. c \in Convs
    BY Typed DEF Stored, View
  <2>2. Agrees(u, m)
    BY EventParts, QuietAgrees
  <2> QED
    BY <2>1, <2>2, AgreesShown
<1> QED
  <2> HIDE DEF Inv
  <2> QED
    BY <1>1, <1>2, <1>3, PTL DEF Spec
=============================================================================
