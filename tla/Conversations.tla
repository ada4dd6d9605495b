----------------------------- MODULE Conversations -----------------------------
(***************************************************************************)
(* Conversations and their messages: who is a member and who an admin      *)
(* (chat.go), what is said, pinned and reacted to (chat_pins.go,           *)
(* chat_reactions.go), the files behind attachments, and the events that   *)
(* keep the clients which have a conversation open up to date.             *)
(*                                                                         *)
(* Each SQL statement that writes, each file operation and each broadcast  *)
(* is a step of its own; the reads a request makes in a row are one.  The  *)
(* hub of ChatHub is taken to deliver: an event reaches every client at    *)
(* once.  There is one emoji; names, threads, mentions, read markers, the  *)
(* member list a client shows and calls are left out.                      *)
(***************************************************************************)
EXTENDS Integers, FiniteSets

CONSTANTS
  Users, Convs, Messages, Files,
  Bodies,        \* what a message may say
  Handlers,      \* goroutines serving requests that take several steps
  None,
  MaxRequests    \* bound on the number of requests

(* There are finitely many users, and what requests are about - rows of    *)
(* two tables and sets of users - are different things.                    *)
ASSUME ConversationsAssumption ==
  /\ None \notin Users \cup Convs \cup Messages \cup Files \cup Bodies \cup {"member", "admin"}
  /\ IsFiniteSet(Users)
  /\ Convs \cap Messages = {}
  /\ \A S \in SUBSET Users : S \notin Convs \cup Messages
  /\ MaxRequests \in Nat

VARIABLES
  kind,       \* conversations: none yet, a dm, a group or a public channel
  role,       \* conversation_members: the role of each user, or None
  avatar,     \* the file of a conversation's photo
  msg,        \* messages
  reactions,  \* message_reactions
  files,      \* the upload directory: names never used, stored and removed
  view,       \* what the client of each user shows of the conversation it has open
  req,        \* the request each handler is serving
  requests,   \* number of requests so far
  raced,      \* history: what two requests were about at a time
  missed,     \* history: users removed from the conversation they had open
  emptied,    \* history: conversations whose last member left
  photos,     \* history: files stored as the photo of a conversation
  incident    \* history: a step failed

members == <<kind, role>>
posts   == <<msg, reactions>>
history == <<raced, missed, emptied, photos, incident>>
vars    == <<members, avatar, posts, files, view, req, requests, history>>

Kinds == {"none", "dm", "group", "public"}
Roles == {"member", "admin"}

(* A message row: not inserted yet, there, or deleted; its kind is text or *)
(* not.                                                                    *)
Message == [is : {"free", "row", "deleted"}, conv : Convs \cup {None}, sender : Users \cup {None},
            text : BOOLEAN, body : Bodies \cup {None}, pinned : BOOLEAN, file : Files \cup {None}]

NoMessage(is) == [is |-> is, conv |-> None, sender |-> None, text |-> TRUE, body |-> None,
                  pinned |-> FALSE, file |-> None]

(* What the answers and events say of a message, and what a client shows.  *)
Shown == [id : Messages, body : Bodies \cup {None}, pinned : BOOLEAN]
View  == [conv : Convs \cup {None}, msgs : SUBSET Shown, reactions : SUBSET (Messages \X Users)]

(* What requests are about, as far as it matters who else is.              *)
Pairs    == {S \in SUBSET Users : Cardinality(S) = 2}
Subjects == Convs \cup Messages \cup Pairs

Places == {"idle", "create", "add", "remove", "role", "store", "copy", "post", "photo",
           "edit", "pin", "react", "delete", "unlink", "reread", "tell"}
Events == {"message", "message_edited", "message_deleted", "pin", "reaction"}

(* A request: its next step, the user it is by or about, the members to    *)
(* add, a flag, what it writes, and the event it will broadcast.           *)
Req == [at : Places, about : SUBSET Subjects, user : Users \cup {None},
        add : SUBSET (Users \X Roles), role : Roles, on : BOOLEAN,
        conv : Convs \cup {None}, msg : Messages \cup {None},
        text : BOOLEAN, body : Bodies \cup {None}, pinned : BOOLEAN, file : Files \cup {None},
        event : Events]

Idle == [at |-> "idle", about |-> {}, user |-> None, add |-> {}, role |-> "member",
         on |-> FALSE, conv |-> None, msg |-> None, text |-> TRUE, body |-> None,
         pinned |-> FALSE, file |-> None, event |-> "message"]

TypeOK ==
  /\ kind \in [Convs -> Kinds]
  /\ role \in [Convs -> [Users -> Roles \cup {None}]]
  /\ avatar \in [Convs -> Files \cup {None}]
  /\ msg \in [Messages -> Message]
  /\ reactions \in SUBSET (Messages \X Users)
  /\ files \in [Files -> {"free", "stored", "removed"}]
  /\ view \in [Users -> View]
  /\ req \in [Handlers -> Req]
  /\ requests \in 0 .. MaxRequests
  /\ raced \in SUBSET Subjects
  /\ missed \in SUBSET Users
  /\ emptied \in SUBSET Convs
  /\ photos \in SUBSET Files
  /\ incident \in BOOLEAN

ConversationMemberIDs(c) == {u \in Users : role[c][u] # None}
Admins(c)                == {u \in Users : role[c][u] = "admin"}
IsMember(c, u)           == role[c][u] # None

(* The caller of a request about conversation c.                           *)
authConv(c, u) == IsMember(c, u)

(* Direct messages, one for a pair, groups and channels that have an       *)
(* admin, no message and no client yet.                                    *)
Init ==
  /\ kind \in [Convs -> Kinds]
  /\ role \in [Convs -> [Users -> Roles \cup {None}]]
  /\ \A c \in Convs :
       CASE kind[c] = "none" -> ConversationMemberIDs(c) = {}
         [] kind[c] = "dm"   -> ConversationMemberIDs(c) \in Pairs /\ Admins(c) = {}
         [] OTHER            -> Admins(c) # {}
  /\ \A c, d \in Convs :
       kind[c] = "dm" /\ kind[d] = "dm" /\ ConversationMemberIDs(c) = ConversationMemberIDs(d) => c = d
  /\ avatar = [c \in Convs |-> None]
  /\ msg = [m \in Messages |-> NoMessage("free")]
  /\ reactions = {}
  /\ files = [f \in Files |-> "free"]
  /\ view = [u \in Users |-> [conv |-> None, msgs |-> {}, reactions |-> {}]]
  /\ req = [h \in Handlers |-> Idle]
  /\ requests = 0
  /\ raced = {}
  /\ missed = {}
  /\ emptied = {}
  /\ photos = {}
  /\ incident = FALSE

-----------------------------------------------------------------------------
InFlight == UNION {req[h].about : h \in Handlers}

(* A request arrives, and its reads leave it about to take the step r.at.  *)
Begin(h, r) ==
  /\ req[h] = Idle
  /\ requests < MaxRequests
  /\ requests' = requests + 1
  /\ req' = [req EXCEPT ![h] = r]
  /\ raced' = raced \cup (r.about \cap InFlight)
  /\ UNCHANGED <<members, avatar, posts, files, view, missed, emptied, photos>>

Goto(h, at) == req' = [req EXCEPT ![h].at = at]
Answer(h)   == req' = [req EXCEPT ![h] = Idle]

-----------------------------------------------------------------------------
(* Conversations and members                                               *)

(* Variant: only one in which something was said is found.                 *)
FindSpokenDM(u, v) ==
  {c \in Convs : kind[c] = "dm" /\ ConversationMemberIDs(c) = {u, v}
                                /\ \E m \in Messages : msg[m].conv = c}

FindDMConversation(u, v) == {c \in Convs : kind[c] = "dm" /\ ConversationMemberIDs(c) = {u, v}}

(* POST /conversations for a direct message: the one found is the answer,  *)
(* otherwise one is made.                                                  *)
OpenDM(h, u, v) ==
  /\ u # v
  /\ FindDMConversation(u, v) = {}
  /\ Begin(h, [Idle EXCEPT !.at = "create", !.about = {{u, v}}, !.user = u,
                           !.add = {<<u, "member">>, <<v, "member">>}])
  /\ UNCHANGED incident

(* The same for a group: its creator is its admin.                         *)
CreateGroup(h, u, others, public) ==
  /\ Begin(h, [Idle EXCEPT !.at = "create", !.user = u, !.on = public,
                           !.add = {<<u, "admin">>} \cup ((others \ {u}) \X {"member"})])
  /\ UNCHANGED incident

(* The request knows its conversation from here on.                        *)
CreateConversation(h, c) ==
  /\ req[h].at = "create"
  /\ kind[c] = "none"
  /\ kind' = [kind EXCEPT ![c] = IF req[h].about = {} THEN "group" ELSE "dm"]
  /\ req' = [req EXCEPT ![h].at = "add", ![h].conv = c, ![h].about = @ \cup {c}]
  /\ UNCHANGED <<role, avatar, posts, files, view, requests, history>>

(* POST /conversations/{id}/join                                           *)
JoinChannel(h, u, c) ==
  /\ kind[c] = "public"
  /\ Begin(h, [Idle EXCEPT !.at = "add", !.about = {c}, !.user = u, !.conv = c,
                           !.add = {<<u, "member">>}])
  /\ UNCHANGED incident

(* POST /conversations/{id}/members                                        *)
AddMembers(h, u, c, others) ==
  /\ role[c][u] = "admin"
  /\ others \ {u} # {}
  /\ Begin(h, [Idle EXCEPT !.at = "add", !.about = {c}, !.user = u, !.conv = c,
                           !.add = (others \ {u}) \X {"member"}])
  /\ UNCHANGED incident

(* A member stays what it is.                                              *)
AddConversationMember(c, u, r) ==
  role' = [role EXCEPT ![c][u] = IF IsMember(c, u) THEN @ ELSE r]

(* One statement per user, the one who asks before the others; errors are  *)
(* not noticed.                                                            *)
AddMember(h) ==
  LET todo == req[h].add
  IN  /\ req[h].at = "add"
      /\ \E x \in todo :
           /\ x[1] = req[h].user \/ req[h].user \notin {y[1] : y \in todo}
           /\ \/ AddConversationMember(req[h].conv, x[1], x[2]) /\ UNCHANGED incident
              \/ incident' = TRUE /\ UNCHANGED role
           /\ IF todo = {x} /\ ~req[h].on THEN Answer(h)
              ELSE req' = [req EXCEPT ![h].add = todo \ {x}]
      /\ UNCHANGED <<kind, avatar, posts, files, view, requests, raced, missed, emptied, photos>>

SetConversationVisibility(c) == kind' = [kind EXCEPT ![c] = "public"]

Publish(h) ==
  /\ req[h].at = "add"
  /\ req[h].add = {}
  /\ \/ SetConversationVisibility(req[h].conv) /\ UNCHANGED incident
     \/ incident' = TRUE /\ UNCHANGED kind
  /\ Answer(h)
  /\ UNCHANGED <<role, avatar, posts, files, view, requests, raced, missed, emptied, photos>>

(* Variant: the last admin counts as one who is left.                      *)
NoAdmin(c, u) == role[c][u] = "admin" /\ Cardinality(Admins(c)) < 1

(* u is an admin, and there is no other.                                   *)
LastAdmin(c, u) == role[c][u] = "admin" /\ Cardinality(Admins(c)) <= 1

(* DELETE /conversations/{id}/members/{userId}: oneself, or another as an  *)
(* admin.  Where the counts cannot be read (~ok) they do not stop it.      *)
RemoveMember(h, u, target, c, ok) ==
  /\ authConv(c, u) /\ IsMember(c, target)
  /\ target = u \/ role[c][u] = "admin"
  /\ ok => ~(LastAdmin(c, target) /\ Cardinality(ConversationMemberIDs(c)) > 1)
  /\ Begin(h, [Idle EXCEPT !.at = "remove", !.about = {c}, !.user = target, !.conv = c])
  /\ incident' = (incident \/ ~ok)

RemoveConversationMember(h) ==
  LET c == req[h].conv
      u == req[h].user
  IN  /\ req[h].at = "remove"
      /\ role' = [role EXCEPT ![c][u] = None]
      /\ missed' = IF view[u].conv = c THEN missed \cup {u} ELSE missed
      /\ emptied' = IF ConversationMemberIDs(c) \subseteq {u} THEN emptied \cup {c} ELSE emptied
      /\ Answer(h)
      /\ UNCHANGED <<kind, avatar, posts, files, view, requests, raced, photos, incident>>

(* PATCH /conversations/{id}/members/{userId}/role, by an admin.           *)
SetMemberRole(h, u, target, c, r, ok) ==
  /\ role[c][u] = "admin"
  /\ IsMember(c, target)
  /\ ok => ~(r = "member" /\ LastAdmin(c, target))
  /\ Begin(h, [Idle EXCEPT !.at = "role", !.about = {c}, !.user = target, !.conv = c, !.role = r])
  /\ incident' = (incident \/ ~ok)

(* Of one who is no longer a member nothing is updated.                    *)
SetConversationMemberRole(h) ==
  LET c == req[h].conv
      u == req[h].user
  IN  /\ req[h].at = "role"
      /\ role' = [role EXCEPT ![c][u] = IF @ = None THEN @ ELSE req[h].role]
      /\ Answer(h)
      /\ UNCHANGED <<kind, avatar, posts, files, view, requests, history>>

-----------------------------------------------------------------------------
(* Messages and files                                                      *)

Exists(m) == msg[m].is = "row"

(* GetMessageWithSender, as far as a client shows it.                      *)
ShownAs(m)      == [id |-> m, body |-> msg[m].body, pinned |-> msg[m].pinned]
ListMessages(c) == {m \in Messages : Exists(m) /\ msg[m].conv = c}
listMessages(c) == {ShownAs(m) : m \in ListMessages(c)}
ListReactions(c) == {x \in reactions : msg[x[1]].conv = c}

(* POST /conversations/{id}/messages and .../upload; a text has no file,   *)
(* and captions are left out.                                              *)
SendMessage(h, u, c, body) ==
  /\ authConv(c, u)
  /\ Begin(h, [Idle EXCEPT !.at = "post", !.user = u, !.conv = c, !.body = body])
  /\ UNCHANGED incident

UploadMessage(h, u, c) ==
  /\ authConv(c, u)
  /\ Begin(h, [Idle EXCEPT !.at = "store", !.user = u, !.conv = c, !.text = FALSE])
  /\ UNCHANGED incident

(* POST /conversations/{id}/avatar                                         *)
UploadConversationAvatar(h, u, c) ==
  /\ authConv(c, u)
  /\ Begin(h, [Idle EXCEPT !.at = "store", !.user = u, !.conv = c, !.on = TRUE])
  /\ UNCHANGED incident

(* The file gets a random name, and is complete before it is mentioned.    *)
StoreFile(h, f) ==
  /\ req[h].at = "store"
  /\ files[f] = "free"
  /\ files' = [files EXCEPT ![f] = "stored"]
  /\ photos' = IF req[h].on THEN photos \cup {f} ELSE photos
  /\ req' = [req EXCEPT ![h].at = IF req[h].on THEN "photo" ELSE "post", ![h].file = f]
  /\ UNCHANGED <<members, avatar, posts, view, requests, raced, missed, emptied, incident>>

(* The photo there was stays in the directory.                             *)
SetConversationAvatar(h) ==
  /\ req[h].at = "photo"
  /\ avatar' = [avatar EXCEPT ![req[h].conv] = req[h].file]
  /\ Answer(h)
  /\ UNCHANGED <<members, posts, files, view, requests, history>>

(* POST /messages/{messageId}/forward: read with its file, which is copied *)
(* before the message is.                                                  *)
ForwardMessage(h, u, m, c) ==
  /\ Exists(m)
  /\ IsMember(msg[m].conv, u) /\ IsMember(c, u)
  /\ Begin(h, [Idle EXCEPT !.at = IF msg[m].file = None THEN "post" ELSE "copy",
                           !.user = u, !.conv = c, !.text = msg[m].text, !.body = msg[m].body,
                           !.file = msg[m].file])
  /\ UNCHANGED incident

(* Variant: the copy is the file itself.                                   *)
SameStoredFile(name, f) == name

(* A new file where there is one to copy.                                  *)
CopyStoredFile(name, f) == IF files[name] = "stored" THEN f ELSE None

(* A copy that fails is forwarded without its file.                        *)
CopyFile(h, f) ==
  LET copy == CopyStoredFile(req[h].file, f)
  IN  /\ req[h].at = "copy"
      /\ files[f] = "free"
      /\ \/ /\ req' = [req EXCEPT ![h].at = "post", ![h].file = copy]
            /\ files' = IF copy = f THEN [files EXCEPT ![f] = "stored"] ELSE files
            /\ UNCHANGED incident
         \/ /\ req' = [req EXCEPT ![h].at = "post", ![h].file = None]
            /\ incident' = TRUE
            /\ files' \in {files, [files EXCEPT ![f] = "stored"]}
      /\ UNCHANGED <<members, avatar, posts, view, requests, raced, missed, emptied, photos>>

CreateMessage(h, m) ==
  /\ req[h].at = "post"
  /\ msg[m].is = "free"
  /\ msg' = [msg EXCEPT ![m] = [is |-> "row", conv |-> req[h].conv, sender |-> req[h].user,
               text |-> req[h].text, body |-> req[h].body, pinned |-> FALSE, file |-> req[h].file]]
  /\ req' = [req EXCEPT ![h].at = "reread", ![h].msg = m, ![h].about = {m}]
  /\ UNCHANGED <<members, avatar, reactions, files, view, requests, history>>

(* finishMessage and editMessage: what is broadcast is read again first;   *)
(* nothing is if the message is gone.                                      *)
Reread(h) ==
  LET m == req[h].msg
  IN  /\ req[h].at = "reread"
      /\ IF Exists(m)
         THEN req' = [req EXCEPT ![h].at = "tell", ![h].body = msg[m].body,
                                 ![h].pinned = msg[m].pinned]
         ELSE Answer(h)
      /\ UNCHANGED <<members, avatar, posts, files, view, requests, history>>

(* A request about message m of conversation msg[m].conv.                  *)
About(u, m) == [Idle EXCEPT !.about = {m}, !.user = u, !.conv = msg[m].conv, !.msg = m]

(* PATCH /messages/{messageId}: by its sender, a member or not; of a text. *)
EditMessage(h, u, m, body) ==
  /\ Exists(m)
  /\ msg[m].sender = u
  /\ msg[m].text
  /\ Begin(h, [About(u, m) EXCEPT !.at = "edit", !.body = body, !.event = "message_edited"])
  /\ UNCHANGED incident

UpdateMessageBody(h) ==
  LET m == req[h].msg
  IN  /\ req[h].at = "edit"
      /\ msg' = [msg EXCEPT ![m].body = IF Exists(m) THEN req[h].body ELSE @]
      /\ Goto(h, "reread")
      /\ UNCHANGED <<members, avatar, reactions, files, view, requests, history>>

(* POST /messages/{messageId}/pin                                          *)
SetPin(h, u, m, pinned) ==
  /\ Exists(m)
  /\ IsMember(msg[m].conv, u)
  /\ Begin(h, [About(u, m) EXCEPT !.at = "pin", !.pinned = pinned, !.event = "pin"])
  /\ UNCHANGED incident

SetMessagePinned(h) ==
  LET m == req[h].msg
  IN  /\ req[h].at = "pin"
      /\ msg' = [msg EXCEPT ![m].pinned = IF Exists(m) THEN req[h].pinned ELSE @]
      /\ Goto(h, "tell")
      /\ UNCHANGED <<members, avatar, reactions, files, view, requests, history>>

HasReaction(m, u) == <<m, u>> \in reactions

(* POST /messages/{messageId}/reactions: whether there is one already is   *)
(* read; when that fails it is taken that there is none.                   *)
ToggleReaction(h, u, m, ok) ==
  /\ Exists(m)
  /\ IsMember(msg[m].conv, u)
  /\ Begin(h, [About(u, m) EXCEPT !.at = "react", !.on = ok /\ HasReaction(m, u),
                                  !.event = "reaction"])
  /\ UNCHANGED incident

AddReaction(m, u)    == reactions' = IF Exists(m) THEN reactions \cup {<<m, u>>} ELSE reactions
RemoveReaction(m, u) == reactions' = reactions \ {<<m, u>>}

(* Both do nothing where there is nothing to do; a reaction to a message   *)
(* that is gone is refused.  The event says what was done.                 *)
React(h) ==
  LET m == req[h].msg
      u == req[h].user
  IN  /\ req[h].at = "react"
      /\ IF req[h].on THEN RemoveReaction(m, u) ELSE AddReaction(m, u)
      /\ IF req[h].on \/ Exists(m) THEN req' = [req EXCEPT ![h].at = "tell", ![h].on = ~@]
         ELSE Answer(h)
      /\ UNCHANGED <<members, avatar, msg, files, view, requests, history>>

(* DELETE /messages/{messageId}: by its sender or an admin, members both.  *)
(* The row goes first, its reactions with it, then the file.               *)
RequestDeletion(h, u, m) ==
  /\ Exists(m)
  /\ IsMember(msg[m].conv, u)
  /\ msg[m].sender = u \/ role[msg[m].conv][u] = "admin"
  /\ Begin(h, [About(u, m) EXCEPT !.at = "delete", !.file = msg[m].file,
                                  !.event = "message_deleted"])
  /\ UNCHANGED incident

DeleteMessage(h) ==
  LET m == req[h].msg
  IN  /\ req[h].at = "delete"
      /\ msg' = [msg EXCEPT ![m] = NoMessage("deleted")]
      /\ reactions' = {x \in reactions : x[1] # m}
      /\ Goto(h, IF req[h].file = None THEN "tell" ELSE "unlink")
      /\ UNCHANGED <<members, avatar, files, view, requests, history>>

RemoveFile(h) ==
  /\ req[h].at = "unlink"
  /\ \/ files' = [files EXCEPT ![req[h].file] = "removed"] /\ UNCHANGED incident
     \/ incident' = TRUE /\ UNCHANGED files
  /\ Goto(h, "tell")
  /\ UNCHANGED <<members, avatar, posts, view, requests, raced, missed, emptied, photos>>

-----------------------------------------------------------------------------
(* Clients                                                                 *)

(* The event says whether the reaction is there now.                       *)
WithReaction(v, e) ==
  [v EXCEPT !.reactions = IF e.on THEN @ \cup {<<e.msg, e.user>>} ELSE @ \ {<<e.msg, e.user>>}]

(* What a client makes of an event about the conversation it has open.     *)
OnEvent(v, e) ==
  LET row == [id |-> e.msg, body |-> e.body, pinned |-> e.pinned]
  IN  CASE e.event = "message" ->
             [v EXCEPT !.msgs = IF \E s \in @ : s.id = e.msg THEN @ ELSE @ \cup {row}]
        [] e.event = "message_deleted" -> [v EXCEPT !.msgs = {s \in @ : s.id # e.msg}]
        [] e.event = "message_edited" ->
             [v EXCEPT !.msgs = {IF s.id = e.msg THEN row ELSE s : s \in @}]
        [] e.event = "pin" ->
             [v EXCEPT !.msgs = {IF s.id = e.msg THEN [s EXCEPT !.pinned = e.pinned] ELSE s : s \in @}]
        [] e.event = "reaction" -> WithReaction(v, e)

(* Variant: whoever made the request is not told.                          *)
BroadcastToOthers(h) ==
  LET c == req[h].conv
  IN  /\ req[h].at = "tell"
      /\ view' = [u \in Users |-> IF IsMember(c, u) /\ u # req[h].user /\ view[u].conv = c
                                  THEN OnEvent(view[u], req[h]) ELSE view[u]]
      /\ Answer(h)
      /\ UNCHANGED <<members, avatar, posts, files, requests, history>>

(* The event of a request goes to all who are members by now.              *)
Broadcast(h) ==
  LET c == req[h].conv
  IN  /\ req[h].at = "tell"
      /\ view' = [u \in Users |-> IF IsMember(c, u) /\ view[u].conv = c
                                  THEN OnEvent(view[u], req[h]) ELSE view[u]]
      /\ Answer(h)
      /\ UNCHANGED <<members, avatar, posts, files, requests, history>>

(* A client opens a conversation: it asks for what is in it.               *)
OpenConversation(u, c) ==
  /\ authConv(c, u)
  /\ requests < MaxRequests
  /\ requests' = requests + 1
  /\ view' = [view EXCEPT ![u] = [conv |-> c, msgs |-> listMessages(c), reactions |-> ListReactions(c)]]
  /\ missed' = missed \ {u}
  /\ UNCHANGED <<members, avatar, posts, files, req, raced, emptied, photos, incident>>

(* A step fails or the 30 s are over: the request ends where it is.        *)
Fail(h) ==
  /\ req[h] # Idle
  /\ Answer(h)
  /\ incident' = TRUE
  /\ UNCHANGED <<members, avatar, posts, files, view, requests, raced, missed, emptied, photos>>

-----------------------------------------------------------------------------
Membership(h) ==
  \/ \E u, v \in Users : OpenDM(h, u, v)
  \/ \E u \in Users, others \in SUBSET Users, public \in BOOLEAN : CreateGroup(h, u, others, public)
  \/ \E c \in Convs :
       \/ CreateConversation(h, c)
       \/ \E u \in Users : JoinChannel(h, u, c)
       \/ \E u \in Users, others \in SUBSET Users : AddMembers(h, u, c, others)
       \/ \E u, target \in Users, ok \in BOOLEAN :
            \/ RemoveMember(h, u, target, c, ok)
            \/ \E r \in Roles : SetMemberRole(h, u, target, c, r, ok)
  \/ AddMember(h) \/ Publish(h)
  \/ RemoveConversationMember(h) \/ SetConversationMemberRole(h)

Messaging(h) ==
  \/ \E u \in Users, c \in Convs :
       \/ UploadConversationAvatar(h, u, c) \/ UploadMessage(h, u, c)
       \/ \E body \in Bodies : SendMessage(h, u, c, body)
  \/ \E u \in Users, m \in Messages :
       \/ \E c \in Convs : ForwardMessage(h, u, m, c)
       \/ \E body \in Bodies : EditMessage(h, u, m, body)
       \/ \E on \in BOOLEAN : SetPin(h, u, m, on) \/ ToggleReaction(h, u, m, on)
       \/ RequestDeletion(h, u, m)
  \/ \E f \in Files : StoreFile(h, f) \/ CopyFile(h, f)
  \/ \E m \in Messages : CreateMessage(h, m)
  \/ SetConversationAvatar(h) \/ UpdateMessageBody(h) \/ SetMessagePinned(h) \/ React(h)
  \/ DeleteMessage(h) \/ RemoveFile(h) \/ Reread(h) \/ Broadcast(h)

Next ==
  \/ \E h \in Handlers : Membership(h) \/ Messaging(h) \/ Fail(h)
  \/ \E u \in Users, c \in Convs : OpenConversation(u, c)

Spec == Init /\ [][Next]_vars

-----------------------------------------------------------------------------
(* "Don't let the last admin leave a group that still has other members"   *)
(* (chat.go:764), nor be demoted (806): a group with members has an admin, *)
(* unless two requests changed its members at a time, a step failed, or    *)
(* everybody had left and somebody joined the channel again.               *)
AdminKept ==
  ~incident =>
    \A c \in Convs \ (raced \cup emptied) :
      /\ kind[c] \in {"group", "public"}
      /\ ConversationMemberIDs(c) # {}
      /\ \A h \in Handlers : req[h].conv = c => req[h].at # "add"
      => Admins(c) # {}

(* Two users have one direct message, however often they ask for it and    *)
(* leave it, unless they asked for it at the same time (chat.go:386-404).  *)
OneDMPerPair ==
  \A P \in Pairs \ raced :
    \A c, d \in Convs :
      /\ kind[c] = "dm" /\ ConversationMemberIDs(c) = P
      /\ kind[d] = "dm" /\ ConversationMemberIDs(d) = P
      => c = d

(* The events bring every client that has a conversation open to what a    *)
(* fresh look would show: for each message that no request is busy with    *)
(* and no two were at a time.  A client removed meanwhile misses events.   *)
EventsAgree ==
  ~incident =>
    \A u \in Users \ missed, m \in Messages \ (raced \cup InFlight) :
      LET c == view[u].conv
      IN  c # None =>
            /\ {s \in view[u].msgs : s.id = m} = {s \in listMessages(c) : s.id = m}
            /\ Exists(m) /\ msg[m].conv = c =>
                 {x \in view[u].reactions : x[1] = m} = {x \in ListReactions(c) : x[1] = m}

(* "Duplicate the attachment file so deleting either copy is independent"  *)
(* (chat_pins.go:126): the file of a message is there as long as the       *)
(* message, it is of that message only, and no file outlives its message   *)
(* but where a step failed.                                                *)
FilesKept ==
  /\ \A m \in Messages :
       Exists(m) /\ msg[m].file # None =>
         /\ files[msg[m].file] = "stored"
         /\ \A n \in Messages \ {m} : msg[n].file # msg[m].file
  /\ ~incident =>
       \A f \in Files \ photos :
         files[f] = "stored" => \/ \E m \in Messages : msg[m].file = f
                                \/ \E h \in Handlers : req[h].file = f
=============================================================================
