--------------------------- MODULE Accounts_proofs ---------------------------
(***************************************************************************)
(* The workspace has one owner, and a one-time code works once and until   *)
(* the next, for any set of addresses and any number of requests, codes,   *)
(* changes and failures.                                                   *)
(***************************************************************************)
EXTENDS Accounts, FiniteSetTheorems, TLAPS

USE AccountsAssumption

Row == [role : Roles, verified : BOOLEAN, active : BOOLEAN, twoFactor : BOOLEAN]

Registered == {u \in Users : EmailExists(u)}

(* A request by its fields: one that mails a code, one that checks one, a  *)
(* login without a code, a change of a role, a change of is_active.        *)
Shape(r) ==
  \/ r = Idle
  \/ /\ r.user \in Users
     /\ \/ /\ r.at \in {"create", "count", "own", "delete", "insert", "mail"}
           /\ DOMAIN r = {"at", "op", "user", "purpose", "code"}
        \/ /\ r.at \in {"check", "consume", "finish"}
           /\ DOMAIN r = {"at", "op", "user", "purpose", "code", "role", "overtaken"}
        \/ /\ r.at = "finish" /\ r.op = "login"
           /\ DOMAIN r = {"at", "op", "user", "role"}
        \/ /\ r.at = "write" /\ r.op = "role"
           /\ DOMAIN r = {"at", "op", "user", "role"}
        \/ /\ r.at = "write" /\ r.op = "active"
           /\ DOMAIN r = {"at", "op", "user", "on"}

Registering(r) == r.at \in {"count", "own"}
Administers(role) == role \in {"owner", "admin"}

(* A login in progress of an administrator.                                *)
Privileged(r) == r.at \in {"check", "consume", "finish"} /\ r.op = "login" /\ Administers(r.role)

TypeInv ==
  /\ user \in [Users -> Row \cup {Absent}]
  /\ req = [h \in Handlers |-> req[h]]
  /\ \A h \in Handlers : Shape(req[h])
  /\ \A s \in sessions : s.user \in Users

(* Codes are mailed to addresses.                                          *)
MailedInv == \A m \in mailed : m.user \in Users

(* Nobody administers the workspace before it has an owner.                *)
NobodyBefore ==
  Owners = {} =>
    /\ \A u \in Registered : user[u].role = "member" /\ user[u].active
    /\ \A s \in sessions : ~Administers(s.role)
    /\ \A h \in Handlers : ~Privileged(req[h]) /\ req[h].at # "write"

(* What an administrator is about to write leaves the owner alone.         *)
WritesSpareOwner ==
  \A h \in Handlers : req[h].at = "write" =>
    /\ req[h].user \in Registered
    /\ req[h].op = "role" => req[h].role \in Roles \ {"owner"} /\ req[h].user \notin Owners
    /\ req[h].op = "active" => req[h].on \in BOOLEAN /\ (req[h].on \/ req[h].user \notin Owners)

(* Each registration in progress is of an address of its own.              *)
RegistrationsApart ==
  /\ \A h \in Handlers : Registering(req[h]) => req[h].user \in Registered \ Owners
  /\ \A g, h \in Handlers :
       Registering(req[g]) /\ Registering(req[h]) /\ req[g].user = req[h].user => g = h

(* One registration at most has found itself the first.                    *)
OneFirst ==
  /\ \A h \in Handlers : req[h].at = "own" => Owners = {}
  /\ \A g, h \in Handlers : req[g].at = "own" /\ req[h].at = "own" => g = h
  /\ \A u, v \in Owners : u = v
  /\ \A u \in Owners : user[u].active

(* Somebody owns the workspace, or will.                                   *)
SomeFirst ==
  ~slipped /\ Registered # {} =>
    \/ Owners # {}
    \/ \E h \in Handlers : req[h].at = "own"
    \/ \E h \in Handlers : req[h].at = "count" /\ Registered = {req[h].user}

OwnerInv == TypeInv /\ NobodyBefore /\ WritesSpareOwner /\ RegistrationsApart /\ OneFirst /\ SomeFirst

-----------------------------------------------------------------------------
LEMMA Initially == Init => OwnerInv
<1> SUFFICES ASSUME Init PROVE OwnerInv
  OBVIOUS
<1>1. Registered = {} /\ Owners = {}
  BY DEF Init, Registered, Owners, EmailExists, Absent
<1>2. \A h \in Handlers : req[h] = Idle /\ req[h].at = "idle"
  BY DEF Init, Idle
<1>3. TypeInv
  BY <1>2 DEF Init, TypeInv, Shape
<1>4. NobodyBefore
  BY <1>1, <1>2 DEF Init, NobodyBefore, Privileged
<1> QED
  BY <1>1, <1>2, <1>3, <1>4
     DEF OwnerInv, WritesSpareOwner, RegistrationsApart, OneFirst, SomeFirst, Registering

(* Another request's write noted by a handler, or nothing.                 *)
Like(r, q) ==
  \/ q = r
  \/ /\ r.at = "consume" /\ q.at = "consume"
     /\ DOMAIN q = DOMAIN r
     /\ q.user = r.user /\ q.op = r.op /\ q.role = r.role

(* A request that is not registering goes on, or a new one comes.          *)
Passes(r, q) == ~Registering(r) /\ ~Registering(q) /\ q.at # "write" /\ Shape(q)

SameRow(r, q) == q \in Row \cup {Absent} /\ (q = Absent <=> r = Absent) /\ q.role = r.role /\ q.active = r.active

(* A step that leaves registrations, roles and is_active alone.            *)
LEMMA Quiet ==
  ASSUME OwnerInv,
         user' = [u \in Users |-> user'[u]],
         \A u \in Users : SameRow(user[u], user'[u]),
         req' = [h \in Handlers |-> req'[h]],
         \A h \in Handlers : \/ Like(req[h], req'[h])
                             \/ Passes(req[h], req'[h]) /\ (Privileged(req'[h]) => Owners # {}),
         \A s \in sessions' : \/ s \in sessions
                              \/ s.user \in Users /\ (Administers(s.role) => Owners # {}),
         slipped' = slipped
  PROVE  OwnerInv'
<1>1. Registered' = Registered /\ Owners' = Owners
  BY DEF Registered, EmailExists, Owners, SameRow
<1>2. ASSUME NEW h \in Handlers
      PROVE  /\ Shape(req'[h])
             /\ Registering(req'[h]) \/ Registering(req[h]) \/ req'[h].at = "write" => req'[h] = req[h]
             /\ Privileged(req'[h]) => Privileged(req[h]) \/ Owners # {}
  <2>1. CASE Like(req[h], req'[h])
    BY <2>1 DEF OwnerInv, TypeInv, Like, Shape, Registering, Privileged, Idle
  <2>2. CASE Passes(req[h], req'[h]) /\ (Privileged(req'[h]) => Owners # {})
    BY <2>2 DEF Passes
  <2> QED
    BY <2>1, <2>2
<1>3. TypeInv'
  <2>1. user' \in [Users -> Row \cup {Absent}]
    BY DEF SameRow
  <2>2. \A s \in sessions' : s.user \in Users
    BY DEF OwnerInv, TypeInv
  <2>3. \A h \in Handlers : Shape(req'[h])
    BY <1>2
  <2> QED
    BY <2>1, <2>2, <2>3 DEF TypeInv
<1>4. NobodyBefore'
  <2> SUFFICES ASSUME Owners = {}
               PROVE  /\ \A u \in Registered : user'[u].role = "member" /\ user'[u].active
                      /\ \A s \in sessions' : ~Administers(s.role)
                      /\ \A h \in Handlers : ~Privileged(req'[h]) /\ req'[h].at # "write"
    BY <1>1 DEF NobodyBefore
  <2>1. \A u \in Registered : user'[u].role = "member" /\ user'[u].active
    BY DEF OwnerInv, NobodyBefore, SameRow, Registered
  <2>2. \A s \in sessions' : ~Administers(s.role)
    BY DEF OwnerInv, NobodyBefore
  <2>3. \A h \in Handlers : ~Privileged(req'[h]) /\ req'[h].at # "write"
    BY <1>2 DEF OwnerInv, NobodyBefore
  <2> QED
    BY <2>1, <2>2, <2>3
<1>5. WritesSpareOwner'
  BY <1>1, <1>2 DEF OwnerInv, WritesSpareOwner
<1>6. RegistrationsApart'
  BY <1>1, <1>2 DEF OwnerInv, RegistrationsApart
<1>7. OneFirst'
  <2>1. \A u \in Owners : user'[u].active
    BY DEF OwnerInv, OneFirst, SameRow, Owners
  <2>2. \A h \in Handlers : req'[h].at = "own" => req'[h] = req[h]
    BY <1>2 DEF Registering
  <2> QED
    BY <1>1, <2>1, <2>2 DEF OwnerInv, OneFirst
<1>8. SomeFirst'
  <2>1. \A h \in Handlers : req[h].at \in {"own", "count"} => req'[h] = req[h]
    BY <1>2 DEF Registering
  <2> QED
    BY <1>1, <2>1 DEF OwnerInv, SomeFirst
<1> QED
  BY <1>3, <1>4, <1>5, <1>6, <1>7, <1>8 DEF OwnerInv

(* The same when one handler's request goes on and no row changes.         *)
LEMMA QuietRequest ==
  ASSUME OwnerInv, NEW h \in Handlers, NEW q, req' = [req EXCEPT ![h] = q],
         Passes(req[h], q), Privileged(q) => Owners # {}, UNCHANGED <<user, sessions, slipped>>
  PROVE  OwnerInv'
<1>1. \A k \in Handlers : req'[k] = IF k = h THEN q ELSE req[k]
  BY DEF OwnerInv, TypeInv
<1>2. req' = [k \in Handlers |-> req'[k]]
  BY DEF OwnerInv, TypeInv
<1>3. \A u \in Users : SameRow(user[u], user'[u])
  BY DEF OwnerInv, TypeInv, SameRow
<1>4. user' = [u \in Users |-> user'[u]]
  BY DEF OwnerInv, TypeInv
<1>5. \A k \in Handlers : \/ Like(req[k], req'[k])
                          \/ Passes(req[k], req'[k]) /\ (Privileged(req'[k]) => Owners # {})
  BY <1>1 DEF Like
<1> QED
  BY <1>2, <1>3, <1>4, <1>5, Quiet

LEMMA QuietReturn ==
  ASSUME OwnerInv, NEW h \in Handlers, Return(h), ~Registering(req[h]), UNCHANGED <<user, sessions, slipped>>
  PROVE  OwnerInv'
<1>1. Passes(req[h], Idle) /\ ~Privileged(Idle)
  BY DEF Passes, Shape, Registering, Privileged, Idle
<1> QED
  BY <1>1, QuietRequest DEF Return

(* And when the others hear of the write.                                  *)
LEMMA QuietOvertaken ==
  ASSUME OwnerInv, NEW h \in Handlers, NEW step, Overtaken(h, step),
         ~Registering(req[h]), Shape([req[h] EXCEPT !.at = step]),
         req[h] # Idle, step \notin {"count", "own", "write"},
         Privileged([req[h] EXCEPT !.at = step]) => Owners # {},
         UNCHANGED <<user, sessions, slipped>>
  PROVE  OwnerInv'
<1>1. PICK q : q = [req[h] EXCEPT !.at = step]
  OBVIOUS
<1>2. q.at = step
  BY <1>1 DEF OwnerInv, TypeInv, Shape
<1>3. /\ req' = [k \in Handlers |-> req'[k]]
      /\ req'[h] = q
      /\ \A k \in Handlers \ {h} :
           \/ req'[k] = req[k]
           \/ req[k].at = "consume" /\ req'[k] = [req[k] EXCEPT !.overtaken = TRUE]
  BY <1>1 DEF Overtaken, At
<1>4. \A k \in Handlers \ {h} : Like(req[k], req'[k])
  BY <1>3 DEF Like, OwnerInv, TypeInv, Shape, Idle
<1>5. Passes(req[h], q) /\ (Privileged(q) => Owners # {})
  BY <1>1, <1>2 DEF Passes, Registering
<1>6. \A u \in Users : SameRow(user[u], user'[u])
  BY DEF OwnerInv, TypeInv, SameRow
<1>7. user' = [u \in Users |-> user'[u]]
  BY DEF OwnerInv, TypeInv
<1> QED
  BY <1>3, <1>4, <1>5, <1>6, <1>7, Quiet

-----------------------------------------------------------------------------
(* Codes.                                                                  *)
LEMMA CodeSteps ==
  ASSUME OwnerInv, NEW h \in Handlers,
         IssueDeletes(h) \/ IssueInserts(h) \/ IssueMails(h) \/ Consume(h)
  PROVE  OwnerInv'
<1>1. Shape(req[h]) /\ (Privileged(req[h]) => Owners # {})
  BY DEF OwnerInv, TypeInv, NobodyBefore
<1>2. CASE IssueDeletes(h)
  <2>1. Overtaken(h, "insert") /\ At(h, "delete") /\ UNCHANGED <<user, sessions, slipped>>
    BY <1>2 DEF IssueDeletes
  <2>2. Shape([req[h] EXCEPT !.at = "insert"]) /\ ~Privileged([req[h] EXCEPT !.at = "insert"])
    BY <1>1, <2>1 DEF Shape, At, Idle, Privileged
  <2> QED
    BY <2>1, <2>2, QuietOvertaken DEF At, Registering, Idle
<1>3. CASE IssueInserts(h)
  <2>1. Overtaken(h, "mail") /\ At(h, "insert") /\ UNCHANGED <<user, sessions, slipped>>
    BY <1>3 DEF IssueInserts
  <2>2. Shape([req[h] EXCEPT !.at = "mail"]) /\ ~Privileged([req[h] EXCEPT !.at = "mail"])
    BY <1>1, <2>1 DEF Shape, At, Idle, Privileged
  <2> QED
    BY <2>1, <2>2, QuietOvertaken DEF At, Registering, Idle
<1>4. CASE IssueMails(h)
  BY <1>4, QuietReturn DEF IssueMails, At, Registering
<1>5. CASE Consume(h)
  <2>1. Overtaken(h, "finish") /\ At(h, "consume") /\ UNCHANGED <<user, sessions, slipped>>
    BY <1>5 DEF Consume
  <2>2. /\ Shape([req[h] EXCEPT !.at = "finish"])
        /\ Privileged([req[h] EXCEPT !.at = "finish"]) => Privileged(req[h])
    BY <1>1, <2>1 DEF Shape, At, Idle, Privileged
  <2> QED
    BY <1>1, <2>1, <2>2, QuietOvertaken DEF At, Registering, Idle
<1> QED
  BY <1>2, <1>3, <1>4, <1>5

(* Requests that come and go on.                                           *)
LEMMA AsksStep ==
  ASSUME OwnerInv, NEW h \in Handlers, NEW r, Asks(h, r), At(h, "idle"), UNCHANGED <<user, sessions, slipped>>,
         r.user \in Users, r.at \in {"create", "delete"},
         DOMAIN r = {"at", "op", "user", "purpose", "code"}
  PROVE  OwnerInv'
<1>1. Passes(req[h], r) /\ ~Privileged(r)
  BY DEF Passes, Registering, Shape, Privileged, At
<1> QED
  BY <1>1, QuietRequest DEF Asks

LEMMA ArrivalSteps ==
  ASSUME OwnerInv, NEW h \in Handlers, NEW u \in Users,
         \/ Register(h, u) \/ Login(h, u) \/ ForgotPassword(h, u)
         \/ \E purpose \in Purposes : ResendOTP(h, u, purpose)
  PROVE  OwnerInv'
<1>1. CASE Register(h, u)
  <2> DEFINE r == [at |-> "create", op |-> "register", user |-> u, purpose |-> "signup", code |-> Code]
  <2>1. At(h, "idle") /\ Asks(h, r) /\ UNCHANGED <<user, sessions, slipped>>
    BY <1>1 DEF Register, register
  <2> QED
    BY <2>1, AsksStep
<1>2. ASSUME NEW purpose, issueOTP(h, u, purpose), At(h, "idle") PROVE OwnerInv'
  <2> DEFINE r == [at |-> "delete", op |-> "issue", user |-> u, purpose |-> purpose, code |-> Code]
  <2>1. Asks(h, r) /\ UNCHANGED <<user, sessions, slipped>>
    BY <1>2 DEF issueOTP
  <2> QED
    BY <1>2, <2>1, AsksStep
<1>3. CASE Login(h, u)
  <2>1. At(h, "idle") /\ EmailExists(u) /\ UNCHANGED <<user, sessions, slipped>>
    BY <1>3 DEF Login, checkCredentials
  <2>2. CASE GetUserByEmail(u).twoFactor
    <3> DEFINE r == [at |-> "delete", op |-> "issue", user |-> u, purpose |-> "login", code |-> Code]
    <3>1. Asks(h, r)
      BY <1>3, <2>2 DEF Login, checkCredentials
    <3> QED
      BY <2>1, <3>1, AsksStep
  <2>3. CASE ~GetUserByEmail(u).twoFactor
    <3>1. PICK r : r = [at |-> "finish", op |-> "login", user |-> u, role |-> user[u].role]
      OBVIOUS
    <3>2. req' = [req EXCEPT ![h] = r]
      BY <1>3, <2>3, <3>1 DEF Login, checkCredentials
    <3>3. Passes(req[h], r)
      BY <2>1, <3>1 DEF Passes, Registering, Shape, At
    <3>4. Privileged(r) => Owners # {}
      BY <2>1, <3>1 DEF Privileged, Administers, OwnerInv, NobodyBefore, Registered
    <3> QED
      BY <2>1, <3>2, <3>3, <3>4, QuietRequest
  <2> QED
    BY <2>2, <2>3
<1> QED
  BY <1>1, <1>2, <1>3 DEF ForgotPassword, forgotPassword, ResendOTP

LEMMA CheckSteps ==
  ASSUME OwnerInv, NEW h \in Handlers, NEW u \in Users, NEW code,
         VerifyEmail(h, u, code) \/ ResetPassword(h, u, code) \/ VerifyLoginOTP(h, u, code)
  PROVE  OwnerInv'
<1>1. ASSUME NEW purpose \in {"signup", "reset"}, checkOTP(h, u, purpose, code), At(h, "idle") PROVE OwnerInv'
  <2>1. PICK r : r = [at |-> "consume", op |-> purpose, user |-> u, purpose |-> purpose, code |-> code,
                      role |-> user[u].role, overtaken |-> FALSE]
    OBVIOUS
  <2>2. req' = [req EXCEPT ![h] = r] /\ UNCHANGED <<user, sessions, slipped>>
    BY <1>1, <2>1 DEF checkOTP
  <2>3. Passes(req[h], r) /\ ~Privileged(r)
    BY <1>1, <2>1 DEF Passes, Registering, Shape, Privileged, At
  <2> QED
    BY <2>2, <2>3, QuietRequest
<1>2. CASE VerifyLoginOTP(h, u, code)
  <2>1. PICK r : r = [at |-> "check", op |-> "login", user |-> u, purpose |-> "login", code |-> code,
                      role |-> user[u].role, overtaken |-> FALSE]
    OBVIOUS
  <2>2. /\ req' = [req EXCEPT ![h] = r] /\ UNCHANGED <<user, sessions, slipped>>
        /\ At(h, "idle") /\ EmailExists(u)
    BY <1>2, <2>1 DEF VerifyLoginOTP, verifyLoginOTP
  <2>3. Passes(req[h], r)
    BY <2>1, <2>2 DEF Passes, Registering, Shape, At
  <2>4. Privileged(r) => Owners # {}
    BY <2>1, <2>2 DEF Privileged, Administers, OwnerInv, NobodyBefore, Registered
  <2> QED
    BY <2>2, <2>3, <2>4, QuietRequest
<1> QED
  BY <1>1, <1>2 DEF VerifyEmail, verifyEmail, ResetPassword, resetPassword

LEMMA FinishSteps ==
  ASSUME OwnerInv, NEW h \in Handlers, CheckLogin(h) \/ Finish(h) \/ FailRequest(h)
  PROVE  OwnerInv'
<1>1. Shape(req[h]) /\ (Privileged(req[h]) => Owners # {})
  BY DEF OwnerInv, TypeInv, NobodyBefore
<1>2. CASE CheckLogin(h)
  <2>1. At(h, "check") /\ UNCHANGED <<user, sessions, slipped>> /\ (Return(h) \/ Goto(h, "consume"))
    BY <1>2 DEF CheckLogin
  <2>2. CASE Return(h)
    BY <2>1, <2>2, QuietReturn DEF At, Registering
  <2>3. CASE Goto(h, "consume")
    <3>1. PICK r : r = [req[h] EXCEPT !.at = "consume"]
      OBVIOUS
    <3>2. req' = [req EXCEPT ![h] = r]
      BY <2>3, <3>1 DEF Goto, OwnerInv, TypeInv
    <3>3. Passes(req[h], r) /\ (Privileged(r) => Privileged(req[h]))
      BY <1>1, <2>1, <3>1 DEF Passes, Registering, Shape, Privileged, At, Idle
    <3> QED
      BY <1>1, <2>1, <3>2, <3>3, QuietRequest
  <2> QED
    BY <2>1, <2>2, <2>3
<1>3. CASE Finish(h)
  <2>1. /\ At(h, "finish") /\ Return(h) /\ UNCHANGED slipped
        /\ user' = user \/ MarkEmailVerified(req[h].user)
        /\ sessions' = sessions \/ (req[h].op = "login" /\ Issue(h))
    BY <1>3 DEF Finish
  <2>2. req[h].user \in Users
    BY <1>1, <2>1 DEF Shape, At, Idle
  <2>3. user' = [u \in Users |-> user'[u]] /\ \A u \in Users : SameRow(user[u], user'[u])
    <3>1. CASE user' = user
      BY <3>1 DEF OwnerInv, TypeInv, SameRow
    <3>2. CASE EmailExists(req[h].user) /\ user' = [user EXCEPT ![req[h].user].verified = TRUE]
      <4>1. user[req[h].user] \in Row
        BY <2>2, <3>2 DEF EmailExists, OwnerInv, TypeInv
      <4>2. SameRow(user[req[h].user], [user[req[h].user] EXCEPT !.verified = TRUE])
        BY <4>1 DEF SameRow, Row, Absent
      <4> QED
        BY <2>2, <3>2, <4>2 DEF OwnerInv, TypeInv, SameRow
    <3> QED
      BY <2>1, <3>1, <3>2 DEF MarkEmailVerified
  <2>4. \A s \in sessions' : \/ s \in sessions
                             \/ s.user \in Users /\ (Administers(s.role) => Owners # {})
    <3>1. CASE req[h].op = "login" /\ Issue(h)
      <4>1. sessions' = sessions \cup {[user |-> req[h].user, role |-> req[h].role]}
        BY <3>1 DEF Issue
      <4>2. Administers(req[h].role) => Owners # {}
        BY <1>1, <2>1, <3>1 DEF Privileged, At
      <4> QED
        BY <2>2, <4>1, <4>2
    <3> QED
      BY <2>1, <3>1
  <2>5. Passes(req[h], Idle) /\ ~Privileged(Idle)
    BY <2>1 DEF Passes, Shape, Registering, Privileged, Idle, At
  <2>6. /\ req' = [k \in Handlers |-> req'[k]]
        /\ \A k \in Handlers : \/ Like(req[k], req'[k])
                               \/ Passes(req[k], req'[k]) /\ (Privileged(req'[k]) => Owners # {})
    BY <2>1, <2>5 DEF Return, Like, OwnerInv, TypeInv
  <2> QED
    BY <2>1, <2>3, <2>4, <2>6, Quiet
<1>4. CASE FailRequest(h)
  BY <1>4, QuietReturn DEF FailRequest, Registering
<1> QED
  BY <1>2, <1>3, <1>4

LEMMA SessionSteps ==
  ASSUME OwnerInv,
         \/ \E s \in sessions : ExpireSession(s) \/ SetTwoFactor(s)
         \/ \E row \in otp : ExpireCode(row)
  PROVE  OwnerInv'
<1>1. UNCHANGED <<req, slipped>> /\ sessions' \subseteq sessions
  BY DEF ExpireSession, SetTwoFactor, ExpireCode
<1> DEFINE SameRows == user' = [u \in Users |-> user'[u]] /\ \A u \in Users : SameRow(user[u], user'[u])
<1>2. SameRows
  <2>1. CASE user' = user
    BY <2>1 DEF OwnerInv, TypeInv, SameRow
  <2>2. ASSUME NEW s \in sessions, SetTwoFactor(s) PROVE SameRows
    <3>1. PICK u : u = s.user
      OBVIOUS
    <3>2. u \in Users /\ user[u] \in Row \cup {Absent} /\ s \in sessions
      BY <3>1 DEF OwnerInv, TypeInv
    <3>3. user' = [user EXCEPT ![u] = [user[u] EXCEPT !.twoFactor = ~user[u].twoFactor]]
      BY <2>2, <3>1, <3>2 DEF SetTwoFactor, SetUserTwoFactor, OwnerInv, TypeInv
    <3>4. SameRow(user[u], [user[u] EXCEPT !.twoFactor = ~user[u].twoFactor])
      <4>1. CASE user[u] \in Row
        BY <4>1 DEF SameRow, Row, Absent
      <4>2. CASE user[u] = Absent
        BY <4>2 DEF SameRow, Row, Absent
      <4> QED
        BY <3>2, <4>1, <4>2
    <3> QED
      BY <3>2, <3>3, <3>4 DEF OwnerInv, TypeInv, SameRow
  <2> QED
    BY <2>1, <2>2 DEF ExpireSession, ExpireCode
<1>3. req' = [k \in Handlers |-> req'[k]] /\ \A k \in Handlers : Like(req[k], req'[k])
  BY <1>1 DEF Like, OwnerInv, TypeInv
<1> QED
  BY <1>1, <1>2, <1>3, Quiet

-----------------------------------------------------------------------------
(* What administrators do.                                                 *)
LEMMA SessionOwner ==
  ASSUME OwnerInv, NEW s \in sessions, isAdmin(s)
  PROVE  Owners # {}
BY DEF OwnerInv, NobodyBefore, isAdmin, Administers

(* A handler is about to write; no registration finds itself the first any *)
(* more.                                                                   *)
LEMMA WriteBegins ==
  ASSUME OwnerInv, NEW h \in Handlers, NEW r, req' = [req EXCEPT ![h] = r], At(h, "idle"),
         Owners # {}, Shape(r), r.at = "write", r.user \in Registered,
         r.op = "role" => r.role \in Roles \ {"owner"} /\ r.user \notin Owners,
         r.op = "active" => r.on \in BOOLEAN /\ (r.on \/ r.user \notin Owners),
         UNCHANGED <<user, sessions, slipped>>
  PROVE  OwnerInv'
<1>1. Registered' = Registered /\ Owners' = Owners
  BY DEF Registered, EmailExists, Owners
<1>2. \A k \in Handlers : req'[k] = IF k = h THEN r ELSE req[k]
  BY DEF OwnerInv, TypeInv
<1>3. ~Registering(r) /\ ~Registering(req[h]) /\ r.at # "own" /\ req[h].at \notin {"own", "count"}
  BY DEF Registering, At
<1>4. TypeInv'
  BY <1>2 DEF OwnerInv, TypeInv
<1>5. NobodyBefore'
  BY <1>1 DEF NobodyBefore
<1>6. WritesSpareOwner'
  BY <1>1, <1>2 DEF OwnerInv, WritesSpareOwner
<1>7. RegistrationsApart'
  BY <1>1, <1>2, <1>3 DEF OwnerInv, RegistrationsApart
<1>8. OneFirst'
  BY <1>1, <1>2, <1>3 DEF OwnerInv, OneFirst
<1>9. SomeFirst'
  BY <1>1 DEF SomeFirst
<1> QED
  BY <1>4, <1>5, <1>6, <1>7, <1>8, <1>9 DEF OwnerInv

LEMMA AdminSteps ==
  ASSUME OwnerInv, NEW h \in Handlers, NEW s \in sessions, NEW u \in Users,
         \/ \E role \in Roles : setRole(h, s, u, role) \/ SetRole(h, s, u, role)
         \/ \E on \in BOOLEAN : setActive(h, s, u, on)
  PROVE  OwnerInv'
<1>1. ASSUME NEW role \in Roles, setRole(h, s, u, role) PROVE OwnerInv'
  <2>1. PICK r : r = [at |-> "write", op |-> "role", user |-> u, role |-> role]
    OBVIOUS
  <2>2. /\ req' = [req EXCEPT ![h] = r] /\ At(h, "idle") /\ isAdmin(s)
        /\ UNCHANGED <<user, sessions, slipped>>
        /\ u \in Registered /\ u \notin Owners /\ role # "owner"
    BY <1>1, <2>1 DEF setRole, GetUserByID, Registered, Owners
  <2>3. Shape(r)
    BY <2>1 DEF Shape
  <2>4. Owners # {}
    BY <2>2, SessionOwner
  <2>5. /\ r.at = "write" /\ r.user \in Registered /\ r.op # "active"
        /\ r.op = "role" => r.role \in Roles \ {"owner"} /\ r.user \notin Owners
    BY <2>1, <2>2
  <2> QED
    BY <2>2, <2>3, <2>4, <2>5, WriteBegins
<1>2. ASSUME NEW on \in BOOLEAN, setActive(h, s, u, on) PROVE OwnerInv'
  <2>1. PICK r : r = [at |-> "write", op |-> "active", user |-> u, on |-> on]
    OBVIOUS
  <2>2. /\ req' = [req EXCEPT ![h] = r] /\ At(h, "idle") /\ isAdmin(s)
        /\ UNCHANGED <<user, sessions, slipped>>
        /\ u \in Registered /\ (on \/ u \notin Owners)
    BY <1>2, <2>1 DEF setActive, GetUserByID, Registered, Owners
  <2>3. Shape(r)
    BY <2>1 DEF Shape
  <2>4. Owners # {}
    BY <2>2, SessionOwner
  <2>5. /\ r.at = "write" /\ r.user \in Registered /\ r.op # "role"
        /\ r.op = "active" => r.on \in BOOLEAN /\ (r.on \/ r.user \notin Owners)
    BY <2>1, <2>2
  <2> QED
    BY <2>2, <2>3, <2>4, <2>5, WriteBegins
<1> QED
  BY <1>1, <1>2 DEF SetRole

LEMMA WriteStep ==
  ASSUME OwnerInv, NEW h \in Handlers, AdminWrites(h)
  PROVE  OwnerInv'
<1>1. PICK u : u = req[h].user
  OBVIOUS
<1>2. /\ At(h, "write") /\ Return(h) /\ UNCHANGED <<sessions, slipped>>
      /\ \/ req[h].op = "role" /\ user' = [user EXCEPT ![u].role = req[h].role]
         \/ req[h].op = "active" /\ user' = [user EXCEPT ![u].active = req[h].on]
  BY <1>1 DEF AdminWrites, SetUserRole, SetUserActive
<1>3. u \in Registered /\ u \in Users /\ user[u] \in Row
  BY <1>1, <1>2 DEF At, OwnerInv, WritesSpareOwner, Registered, EmailExists, TypeInv
<1>4. /\ \A v \in Users \ {u} : user'[v] = user[v]
      /\ user'[u] \in Row /\ (user'[u].role = "owner" <=> user[u].role = "owner")
      /\ u \in Owners => user'[u].active
      /\ user' = [v \in Users |-> user'[v]]
  <2>0. user = [v \in Users |-> user[v]] /\ (u \in Owners => user[u].active) /\ (u \in Owners <=> user[u].role = "owner")
    BY <1>3 DEF OwnerInv, TypeInv, OneFirst, Owners
  <2>1. CASE req[h].op = "role" /\ user' = [user EXCEPT ![u].role = req[h].role]
    <3>1. req[h].role \in Roles \ {"owner"} /\ u \notin Owners
      BY <1>1, <1>2, <2>1 DEF At, OwnerInv, WritesSpareOwner
    <3>2. [user[u] EXCEPT !.role = req[h].role] \in Row
      BY <1>3, <3>1 DEF Row
    <3>3. [user[u] EXCEPT !.role = req[h].role].role = req[h].role
      BY <1>3 DEF Row
    <3> QED
      BY <1>3, <2>0, <2>1, <3>1, <3>2, <3>3
  <2>2. CASE req[h].op = "active" /\ user' = [user EXCEPT ![u].active = req[h].on]
    <3>1. req[h].on \in BOOLEAN /\ (req[h].on \/ u \notin Owners)
      BY <1>1, <1>2, <2>2 DEF At, OwnerInv, WritesSpareOwner
    <3>2. [user[u] EXCEPT !.active = req[h].on] \in Row
      BY <1>3, <3>1 DEF Row
    <3>3. /\ [user[u] EXCEPT !.active = req[h].on].role = user[u].role
          /\ [user[u] EXCEPT !.active = req[h].on].active = req[h].on
      BY <1>3 DEF Row
    <3> QED
      BY <1>3, <2>0, <2>2, <3>1, <3>2, <3>3
  <2> QED
    BY <1>2, <2>1, <2>2
<1>5. Registered' = Registered /\ Owners' = Owners
  <2>1. user'[u] # Absent
    BY <1>4 DEF Row, Absent
  <2> QED
    BY <1>3, <1>4, <2>1 DEF Registered, EmailExists, Owners
<1>6. Owners # {}
  BY <1>2 DEF At, OwnerInv, NobodyBefore
<1>7. /\ \A k \in Handlers : req'[k] = IF k = h THEN Idle ELSE req[k]
      /\ req' = [k \in Handlers |-> req'[k]]
      /\ Idle.at = "idle" /\ req[h].at = "write"
  BY <1>2 DEF Return, Idle, At, OwnerInv, TypeInv
<1>8. TypeInv'
  <2>1. user' \in [Users -> Row \cup {Absent}]
    BY <1>3, <1>4 DEF OwnerInv, TypeInv
  <2>2. Shape(Idle)
    BY DEF Shape
  <2> QED
    BY <1>2, <1>7, <2>1, <2>2 DEF OwnerInv, TypeInv
<1>9. NobodyBefore'
  BY <1>5, <1>6 DEF NobodyBefore
<1>10. WritesSpareOwner'
  BY <1>5, <1>7 DEF OwnerInv, WritesSpareOwner
<1>11. RegistrationsApart'
  BY <1>5, <1>7 DEF OwnerInv, RegistrationsApart, Registering
<1>12. OneFirst'
  <2>1. \A v \in Owners : user'[v].active
    BY <1>4 DEF OwnerInv, OneFirst, Owners
  <2> QED
    BY <1>5, <1>7, <2>1 DEF OwnerInv, OneFirst
<1>13. SomeFirst'
  BY <1>5, <1>6 DEF SomeFirst
<1> QED
  BY <1>8, <1>9, <1>10, <1>11, <1>12, <1>13 DEF OwnerInv

-----------------------------------------------------------------------------
(* Registration.                                                           *)
LEMMA CreateStep ==
  ASSUME OwnerInv, NEW h \in Handlers, CreateUser(h)
  PROVE  OwnerInv'
<1>1. CASE EmailExists(req[h].user) /\ Return(h) /\ UNCHANGED <<user, slipped>>
  BY <1>1, QuietReturn DEF CreateUser, At, Registering
<1>2. CASE ~EmailExists(req[h].user) /\ InsertUser(req[h].user)
           /\ slipped' = (slipped \/ (Owners = {} /\ Others(h, "count") # {})) /\ Goto(h, "count")
  <2>1. PICK u : u = req[h].user
    OBVIOUS
  <2>2. req[h].at = "create" /\ u \in Users /\ UNCHANGED sessions
    BY <1>2, <2>1 DEF CreateUser, At, OwnerInv, TypeInv, Shape, Idle
  <2>3. PICK r : r = [req[h] EXCEPT !.at = "count"]
    OBVIOUS
  <2>4. Shape(r) /\ r.at = "count" /\ r.user = u /\ ~Privileged(r)
    BY <2>1, <2>2, <2>3 DEF OwnerInv, TypeInv, Shape, Idle, Privileged
  <2>5. /\ \A k \in Handlers : req'[k] = IF k = h THEN r ELSE req[k]
        /\ req' = [k \in Handlers |-> req'[k]]
    BY <1>2, <2>3 DEF Goto, OwnerInv, TypeInv
  <2>6. NewRow \in Row /\ NewRow.role = "member" /\ NewRow.active /\ NewRow # Absent
    BY DEF NewRow, Row, Roles, Absent
  <2>7. /\ \A v \in Users : user'[v] = IF v = u THEN NewRow ELSE user[v]
        /\ user' = [v \in Users |-> user'[v]]
    BY <1>2, <2>1, <2>2 DEF InsertUser, OwnerInv, TypeInv
  <2>8. u \notin Registered /\ u \notin Owners
    BY <1>2, <2>1, <2>2 DEF Registered, EmailExists, Owners, Absent
  <2>9. Registered' = Registered \cup {u} /\ Owners' = Owners
    BY <2>2, <2>6, <2>7, <2>8 DEF Registered, EmailExists, Owners
  <2>10. TypeInv'
    BY <2>2, <2>4, <2>5, <2>6, <2>7 DEF OwnerInv, TypeInv
  <2>11. NobodyBefore'
    BY <2>2, <2>4, <2>5, <2>6, <2>7, <2>9 DEF OwnerInv, NobodyBefore, Registered
  <2>12. WritesSpareOwner'
    BY <2>4, <2>5, <2>9 DEF OwnerInv, WritesSpareOwner
  <2>13. RegistrationsApart'
    <3>1. \A k \in Handlers \ {h} : Registering(req[k]) => req[k].user # u
      BY <2>8 DEF OwnerInv, RegistrationsApart
    <3> QED
      BY <2>2, <2>4, <2>5, <2>8, <2>9, <3>1 DEF OwnerInv, RegistrationsApart, Registering
  <2>14. OneFirst'
    <3>1. \A v \in Owners : user'[v].active
      BY <2>7, <2>8 DEF OwnerInv, OneFirst, Owners
    <3> QED
      BY <2>2, <2>4, <2>5, <2>9, <3>1 DEF OwnerInv, OneFirst
  <2>15. SomeFirst'
    <3> SUFFICES ASSUME ~slipped', Owners = {}, ~(\E k \in Handlers : req'[k].at = "own")
                 PROVE  \E k \in Handlers : req'[k].at = "count" /\ Registered' = {req'[k].user}
      BY <2>9 DEF SomeFirst
    <3>1. ~slipped /\ \A k \in Handlers \ {h} : req[k].at # "count"
      BY <1>2 DEF Others, At
    <3>2. \A k \in Handlers : req[k].at # "own"
      BY <2>2, <2>5
    <3>3. Registered = {}
      BY <2>2, <3>1, <3>2 DEF OwnerInv, SomeFirst
    <3> QED
      BY <2>4, <2>5, <2>9, <3>3
  <2> QED
    BY <2>10, <2>11, <2>12, <2>13, <2>14, <2>15 DEF OwnerInv
<1> QED
  BY <1>1, <1>2 DEF CreateUser

(* A registration leaves its point without a word about the owner.         *)
LEMMA CountFirstOnly ==
  ASSUME OwnerInv, NEW h \in Handlers, At(h, "count"), Registered = {req[h].user}
  PROVE  IsFirst
BY FS_Singleton DEF IsFirst, CountUsers, Registered

LEMMA FirstIsAlone ==
  ASSUME OwnerInv, NEW h \in Handlers, At(h, "count"), IsFirst
  PROVE  /\ Registered = {req[h].user}
         /\ Owners = {}
         /\ \A k \in Handlers : req[k].at # "own"
<1>1. IsFiniteSet(Registered)
  BY FS_Subset DEF Registered, AccountsAssumption
<1>2. PICK x : Registered = {x}
  BY <1>1, FS_Singleton DEF IsFirst, CountUsers, Registered
<1>3. req[h].user \in Registered \ Owners
  BY DEF At, Registering, OwnerInv, RegistrationsApart
<1>4. Registered = {req[h].user}
  BY <1>2, <1>3
<1>5. Owners \subseteq Registered
  BY DEF Owners, Registered, EmailExists, Absent
<1>6. ASSUME NEW k \in Handlers, req[k].at = "own" PROVE FALSE
  <2>1. req[k].user \in Registered
    BY <1>6 DEF Registering, OwnerInv, RegistrationsApart
  <2>2. req[k].user = req[h].user
    BY <1>4, <2>1
  <2>3. k = h
    BY <1>6, <2>2 DEF At, Registering, OwnerInv, RegistrationsApart
  <2> QED
    BY <1>6, <2>3 DEF At
<1> QED
  BY <1>3, <1>4, <1>5, <1>6

LEMMA CountStep ==
  ASSUME OwnerInv, NEW h \in Handlers, CountFirst(h)
  PROVE  OwnerInv'
<1>1. At(h, "count") /\ UNCHANGED <<user, sessions>> /\ req[h].at = "count"
  BY DEF CountFirst, At
<1>2. Registered' = Registered /\ Owners' = Owners
  BY <1>1 DEF Registered, EmailExists, Owners
<1>3. ASSUME NEW step \in {"own", "delete"}, Goto(h, step)
      PROVE  /\ \A k \in Handlers \ {h} : req'[k] = req[k]
             /\ req'[h].at = step /\ req'[h].user = req[h].user /\ Shape(req'[h]) /\ ~Privileged(req'[h])
             /\ req' = [k \in Handlers |-> req'[k]]
  <2>1. PICK r : r = [req[h] EXCEPT !.at = step]
    OBVIOUS
  <2>2. r.at = step /\ r.user = req[h].user /\ Shape(r) /\ ~Privileged(r)
    BY <1>1, <2>1 DEF OwnerInv, TypeInv, Shape, Idle, Privileged
  <2> QED
    BY <1>3, <2>1, <2>2 DEF Goto, OwnerInv, TypeInv
<1>4. ASSUME NEW step \in {"own", "delete"}, Goto(h, step)
      PROVE  TypeInv' /\ NobodyBefore' /\ WritesSpareOwner' /\ RegistrationsApart'
  <2>1. /\ \A k \in Handlers \ {h} : req'[k] = req[k]
        /\ req'[h].at = step /\ req'[h].user = req[h].user /\ Shape(req'[h]) /\ ~Privileged(req'[h])
        /\ req' = [k \in Handlers |-> req'[k]]
    BY <1>3, <1>4
  <2>2. TypeInv'
    BY <1>1, <2>1 DEF OwnerInv, TypeInv
  <2>3. NobodyBefore'
    BY <1>1, <1>2, <2>1 DEF OwnerInv, NobodyBefore
  <2>4. WritesSpareOwner'
    BY <1>1, <1>2, <2>1 DEF OwnerInv, WritesSpareOwner
  <2>5. RegistrationsApart'
    BY <1>1, <1>2, <2>1 DEF OwnerInv, RegistrationsApart, Registering
  <2> QED
    BY <2>2, <2>3, <2>4, <2>5
<1>5. CASE IsFirst /\ Goto(h, "own") /\ UNCHANGED slipped
  <2>1. /\ Registered = {req[h].user} /\ Owners = {} /\ \A k \in Handlers : req[k].at # "own"
    BY <1>1, <1>5, FirstIsAlone
  <2>2. (\A k \in Handlers \ {h} : req'[k] = req[k]) /\ req'[h].at = "own"
    BY <1>3, <1>5
  <2>3. OneFirst'
    BY <1>1, <1>2, <2>1, <2>2 DEF OneFirst
  <2>4. SomeFirst'
    BY <2>2 DEF SomeFirst
  <2> QED
    BY <1>4, <1>5, <2>3, <2>4 DEF OwnerInv
<1>6. CASE Goto(h, "delete") /\ (\/ ~IsFirst /\ UNCHANGED slipped
                                 \/ slipped' = (slipped \/ Owners = {}))
  <2>1. (\A k \in Handlers \ {h} : req'[k] = req[k]) /\ req'[h].at = "delete"
    BY <1>3, <1>6
  <2>2. OneFirst'
    BY <1>1, <1>2, <2>1 DEF OwnerInv, OneFirst
  <2>3. SomeFirst'
    <3> SUFFICES ASSUME ~slipped', Registered # {}, Owners = {}
                 PROVE  \/ \E k \in Handlers : req'[k].at = "own"
                        \/ \E k \in Handlers : req'[k].at = "count" /\ Registered = {req'[k].user}
      BY <1>2 DEF SomeFirst
    <3>1. ~slipped /\ ~IsFirst
      <4>1. CASE ~IsFirst /\ UNCHANGED slipped
        BY <4>1
      <4>2. CASE slipped' = (slipped \/ Owners = {})
        BY <4>2
      <4> QED
        BY <1>6, <4>1, <4>2
    <3>2. \/ \E k \in Handlers : req[k].at = "own"
          \/ \E k \in Handlers : req[k].at = "count" /\ Registered = {req[k].user}
      BY <3>1 DEF OwnerInv, SomeFirst
    <3>3. ~(Registered = {req[h].user})
      BY <1>1, <3>1, CountFirstOnly
    <3> QED
      BY <1>1, <2>1, <3>2, <3>3
  <2> QED
    BY <1>4, <1>6, <2>2, <2>3 DEF OwnerInv
<1> QED
  BY <1>5, <1>6 DEF CountFirst

LEMMA OwnStep ==
  ASSUME OwnerInv, NEW h \in Handlers, BecomeOwner(h)
  PROVE  OwnerInv'
<1>1. req[h].at = "own" /\ UNCHANGED sessions /\ Goto(h, "delete")
  BY DEF BecomeOwner, At
<1>2. PICK u : u = req[h].user
  OBVIOUS
<1>3. u \in Registered /\ u \notin Owners /\ Owners = {} /\ u \in Users /\ user[u] \in Row
  <2>1. u \in Registered /\ u \notin Owners /\ Owners = {}
    BY <1>1, <1>2 DEF OwnerInv, RegistrationsApart, Registering, OneFirst
  <2> QED
    BY <2>1 DEF Registered, EmailExists, OwnerInv, TypeInv
<1>4. /\ \A k \in Handlers \ {h} : req'[k] = req[k]
      /\ req'[h].at = "delete" /\ Shape(req'[h]) /\ ~Privileged(req'[h])
      /\ req' = [k \in Handlers |-> req'[k]]
  <2>1. PICK r : r = [req[h] EXCEPT !.at = "delete"]
    OBVIOUS
  <2>2. r.at = "delete" /\ Shape(r) /\ ~Privileged(r)
    BY <1>1, <2>1 DEF OwnerInv, TypeInv, Shape, Idle, Privileged
  <2> QED
    BY <1>1, <2>1, <2>2 DEF Goto, OwnerInv, TypeInv
<1>5. CASE SetUserRole(u, "owner") /\ UNCHANGED slipped
  <2>1. user' = [user EXCEPT ![u] = [user[u] EXCEPT !.role = "owner"]]
    BY <1>3, <1>5 DEF SetUserRole
  <2>2. /\ [user[u] EXCEPT !.role = "owner"] \in Row
        /\ [user[u] EXCEPT !.role = "owner"].role = "owner"
        /\ [user[u] EXCEPT !.role = "owner"].active = user[u].active
    BY <1>3 DEF Row, Roles
  <2>3. /\ \A v \in Users \ {u} : user'[v] = user[v]
        /\ user'[u] \in Row /\ user'[u].role = "owner" /\ user'[u].active = user[u].active
        /\ user' = [v \in Users |-> user'[v]]
    BY <1>3, <2>1, <2>2 DEF OwnerInv, TypeInv
  <2>4. Owners' = {u}
    BY <1>3, <2>3 DEF Owners
  <2>5. Registered' = Registered
    <3>1. user'[u] # Absent
      BY <2>3 DEF Row, Absent
    <3> QED
      BY <1>3, <2>3, <3>1 DEF Registered, EmailExists
  <2>6. TypeInv'
    BY <1>1, <1>3, <1>4, <2>3 DEF OwnerInv, TypeInv
  <2>7. NobodyBefore'
    BY <2>4 DEF NobodyBefore
  <2>8. WritesSpareOwner'
    BY <1>3, <1>4 DEF OwnerInv, NobodyBefore, WritesSpareOwner
  <2>9. RegistrationsApart'
    BY <1>1, <1>2, <1>3, <1>4, <2>4, <2>5 DEF OwnerInv, RegistrationsApart, Registering
  <2>10. OneFirst'
    <3>1. user'[u].active
      BY <1>3, <2>3 DEF OwnerInv, NobodyBefore
    <3>2. \A k \in Handlers : req'[k].at # "own"
      BY <1>1, <1>4 DEF OwnerInv, OneFirst
    <3> QED
      BY <2>4, <3>1, <3>2 DEF OneFirst
  <2>11. SomeFirst'
    BY <2>4 DEF SomeFirst
  <2> QED
    BY <2>6, <2>7, <2>8, <2>9, <2>10, <2>11 DEF OwnerInv
<1>6. CASE slipped' = TRUE /\ UNCHANGED user
  <2>1. Registered' = Registered /\ Owners' = Owners
    BY <1>6 DEF Registered, EmailExists, Owners
  <2>2. TypeInv'
    BY <1>1, <1>4, <1>6 DEF OwnerInv, TypeInv
  <2>3. NobodyBefore' /\ WritesSpareOwner'
    BY <1>1, <1>4, <1>6, <2>1 DEF OwnerInv, NobodyBefore, WritesSpareOwner
  <2>4. RegistrationsApart'
    BY <1>4, <2>1 DEF OwnerInv, RegistrationsApart, Registering
  <2>5. OneFirst' /\ SomeFirst'
    BY <1>4, <1>6, <2>1 DEF OwnerInv, OneFirst, SomeFirst
  <2> QED
    BY <2>2, <2>3, <2>4, <2>5 DEF OwnerInv
<1> QED
  BY <1>2, <1>5, <1>6 DEF BecomeOwner

(* Only a request at its mail reaches anyone.                              *)
LEMMA MailStep ==
  ASSUME OwnerInv, MailedInv, [Next]_vars
  PROVE  MailedInv'
<1>1. ASSUME NEW h \in Handlers, Arrive(h) PROVE UNCHANGED mailed
  BY <1>1 DEF Arrive, Register, register, Login, checkCredentials, ForgotPassword, forgotPassword, ResendOTP,
     issueOTP, VerifyEmail, verifyEmail, ResetPassword, resetPassword, checkOTP, VerifyLoginOTP, verifyLoginOTP,
     SetRole, setRole, setActive
<1>2. ASSUME NEW h \in Handlers, IssueMails(h) PROVE MailedInv'
  <2>1. req[h].user \in Users
    BY <1>2 DEF IssueMails, At, OwnerInv, TypeInv, Shape, Idle
  <2> QED
    BY <1>2, <2>1 DEF IssueMails, MailedInv
<1>3. ASSUME NEW h \in Handlers, Steps(h), ~IssueMails(h) PROVE UNCHANGED mailed
  BY <1>3 DEF Steps, IssueDeletes, IssueInserts, CreateUser, CountFirst, BecomeOwner, CheckLogin, Consume,
     Finish, AdminWrites
<1>4. ASSUME NEW h \in Handlers, FailRequest(h) PROVE UNCHANGED mailed
  BY <1>4 DEF FailRequest
<1>5. (\E s \in sessions : ExpireSession(s) \/ SetTwoFactor(s)) => UNCHANGED mailed
  BY DEF ExpireSession, SetTwoFactor
<1>6. (\E row \in otp : ExpireCode(row)) => UNCHANGED mailed
  BY DEF ExpireCode
<1>7. CASE UNCHANGED mailed
  BY <1>7 DEF MailedInv
<1>8. CASE UNCHANGED vars
  BY <1>7, <1>8 DEF vars
<1> QED
  BY <1>1, <1>2, <1>3, <1>4, <1>5, <1>6, <1>7, <1>8 DEF Next

LEMMA OwnersStep ==
  ASSUME OwnerInv, MailedInv, [Next]_vars
  PROVE  OwnerInv'
<1>1. CASE UNCHANGED vars
  <2>1. UNCHANGED <<user, req, sessions, slipped>>
    BY <1>1 DEF vars
  <2>2. Registered' = Registered /\ Owners' = Owners
    BY <2>1 DEF Registered, EmailExists, Owners
  <2> QED
    BY <2>1, <2>2
       DEF OwnerInv, TypeInv, NobodyBefore, WritesSpareOwner, RegistrationsApart, OneFirst, SomeFirst
<1>2. ASSUME NEW h \in Handlers, Arrive(h) PROVE OwnerInv'
  <2>1. CASE \/ \E u \in Users : Register(h, u) \/ Login(h, u) \/ ForgotPassword(h, u)
             \/ \E u \in Users, purpose \in Purposes : ResendOTP(h, u, purpose)
    BY <2>1, ArrivalSteps
  <2>2. ASSUME NEW m \in mailed, \/ VerifyEmail(h, m.user, m.code) \/ ResetPassword(h, m.user, m.code)
                                 \/ VerifyLoginOTP(h, m.user, m.code)
        PROVE  OwnerInv'
    BY <2>2, CheckSteps DEF MailedInv
  <2>3. CASE \/ \E s \in sessions, u \in Users, role \in Roles : setRole(h, s, u, role) \/ SetRole(h, s, u, role)
             \/ \E s \in sessions, u \in Users, on \in BOOLEAN : setActive(h, s, u, on)
    BY <2>3, AdminSteps
  <2> QED
    BY <1>2, <2>1, <2>2, <2>3 DEF Arrive
<1>3. ASSUME NEW h \in Handlers, Steps(h) PROVE OwnerInv'
  BY <1>3, CodeSteps, CreateStep, CountStep, OwnStep, FinishSteps, WriteStep DEF Steps
<1> QED
  BY <1>1, <1>2, <1>3, FinishSteps, SessionSteps DEF Next

(* The workspace has one owner, active (service.go:55-100, admin.go), for  *)
(* any number of registrations and administrators at a time.               *)
THEOREM OwnerIsOne == Spec => []OneOwner
<1>1. OwnerInv => OneOwner
  <2> SUFFICES ASSUME OwnerInv PROVE OneOwner
    OBVIOUS
  <2>1. Cardinality(Owners) <= 1
    <3>1. CASE Owners = {}
      BY <3>1, FS_EmptySet
    <3>2. ASSUME NEW u \in Owners PROVE Cardinality(Owners) <= 1
      <4>1. Owners = {u}
        BY <3>2 DEF OwnerInv, OneFirst
      <4> QED
        BY <4>1, FS_Singleton
    <3> QED
      BY <3>1, <3>2
  <2> QED
    BY <2>1 DEF OwnerInv, OneFirst, SomeFirst, Registered, OneOwner
<1>2. Init => OwnerInv /\ MailedInv
  BY Initially DEF Init, MailedInv
<1> QED
  BY <1>1, <1>2, OwnersStep, MailStep, PTL DEF Spec
-----------------------------------------------------------------------------
(* One-time codes.                                                         *)

Issued == [code : Nat, user : Users, purpose : Purposes]
OtpRow == [code : Nat, user : Users, purpose : Purposes, created : Nat, consumed : BOOLEAN, expired : BOOLEAN]

(* A request with a code it has not inserted yet.                          *)
Holding(r) == r.at \in {"create", "count", "own", "delete", "insert"}

CodeTypes ==
  /\ spent \in [{"codes", "changes", "failures"} -> Nat]
  /\ issued \in Seq(Issued)
  /\ otp \subseteq OtpRow
  /\ \A h \in Handlers : Holding(req[h]) => req[h].code \in Nat /\ req[h].purpose \in Purposes
  /\ \A h \in Handlers : req[h].at = "check" => req[h].purpose = "login"

(* Every request that makes a code makes one of its own.                   *)
CodesApart ==
  /\ \A h \in Handlers : Holding(req[h]) => req[h].code <= spent.codes
  /\ \A i \in DOMAIN issued : issued[i].code <= spent.codes
  /\ \A h \in Handlers, i \in DOMAIN issued : Holding(req[h]) => issued[i].code # req[h].code
  /\ \A g, h \in Handlers : Holding(req[g]) /\ Holding(req[h]) /\ req[g].code = req[h].code => g = h
  /\ \A i, j \in DOMAIN issued : issued[i].code = issued[j].code => i = j

(* A row is as it was issued, and consumed once its code was accepted.     *)
RowsAsIssued ==
  /\ \A row \in otp : /\ row.created \in DOMAIN issued
                      /\ issued[row.created].code = row.code /\ Key(issued[row.created]) = Key(row)
  /\ \A used \in accepted : \E i \in DOMAIN issued : issued[i].code = used.code
  /\ \A row \in otp, used \in accepted : row.code = used.code => row.consumed

(* Unless the key is marred a row is the newest code of its key, and none  *)
(* is there when the next is inserted.                                     *)
RowsAreNewest ==
  /\ \A row \in otp, i \in DOMAIN issued :
       Key(row) \notin marred /\ Key(issued[i]) = Key(row) => i <= row.created
  /\ \A h \in Handlers, row \in otp :
       req[h].at = "insert" /\ Key(req[h]) \notin marred => Key(row) # Key(req[h])

(* What a request has checked stays so until somebody writes to the codes  *)
(* of its key.                                                             *)
CheckHolds ==
  \A h \in Handlers : req[h].at = "consume" =>
    /\ \E i \in DOMAIN issued : issued[i].code = req[h].code /\ Key(issued[i]) = Key(req[h])
    /\ ~req[h].overtaken => /\ \A used \in accepted : used.code # req[h].code
                            /\ Key(req[h]) \in marred \/ ~Superseded(h)

CodeInv == CodeTypes /\ CodesApart /\ RowsAsIssued /\ RowsAreNewest /\ CheckHolds /\ CodesWork

(* A step that leaves the codes alone, and asks for or checks none.        *)
LEMMA Undisturbed ==
  ASSUME CodeInv, UNCHANGED <<otp, issued, accepted, marred>>,
         spent' \in [{"codes", "changes", "failures"} -> Nat], spent'.codes = spent.codes,
         \A h \in Handlers :
           \/ req'[h] = req[h]
           \/ /\ ~Holding(req'[h]) /\ req'[h].at # "consume"
              /\ req'[h].at = "check" => req'[h].purpose = "login"
           \/ /\ Holding(req[h]) /\ req'[h].at \in {"count", "own", "delete"}
              /\ req'[h].code = req[h].code /\ req'[h].purpose = req[h].purpose
  PROVE  CodeInv'
<1>1. \A h \in Handlers : Holding(req'[h]) =>
        /\ Holding(req[h]) /\ req'[h].code = req[h].code /\ req'[h].purpose = req[h].purpose
        /\ req'[h].at = "insert" => req'[h] = req[h]
  BY DEF Holding
<1>2. \A h \in Handlers : /\ req'[h].at = "consume" => req'[h] = req[h]
                          /\ req'[h].at = "check" => req'[h] = req[h] \/ req'[h].purpose = "login"
  BY DEF Holding
<1>3. CodeTypes'
  BY <1>1, <1>2 DEF CodeInv, CodeTypes
<1>4. CodesApart'
  BY <1>1 DEF CodeInv, CodesApart
<1>5. RowsAsIssued'
  BY DEF CodeInv, RowsAsIssued, Key
<1>6. RowsAreNewest'
  <2>1. \A h \in Handlers : req'[h].at = "insert" => req'[h] = req[h]
    BY <1>1 DEF Holding
  <2> QED
    BY <2>1 DEF CodeInv, RowsAreNewest, Key
<1>7. CheckHolds'
  BY <1>2 DEF CodeInv, CheckHolds, Superseded, Key
<1>8. CodesWork'
  BY DEF CodeInv, CodesWork
<1> QED
  BY <1>3, <1>4, <1>5, <1>6, <1>7, <1>8 DEF CodeInv

(* One handler's request goes on or ends, and no code is asked for.        *)
LEMMA UndisturbedRequest ==
  ASSUME OwnerInv, CodeInv, NEW h \in Handlers, NEW q, req' = [req EXCEPT ![h] = q],
         UNCHANGED <<otp, issued, accepted, marred>>,
         spent' = spent \/ Spend("failures") \/ Spend("changes"),
         \/ ~Holding(q) /\ q.at # "consume" /\ (q.at = "check" => q.purpose = "login")
         \/ /\ Holding(req[h]) /\ q.at \in {"count", "own", "delete"}
            /\ q.code = req[h].code /\ q.purpose = req[h].purpose
  PROVE  CodeInv'
<1>1. spent' \in [{"codes", "changes", "failures"} -> Nat] /\ spent'.codes = spent.codes
  BY DEF Spend, CodeInv, CodeTypes
<1>2. \A k \in Handlers : req'[k] = IF k = h THEN q ELSE req[k]
  BY DEF OwnerInv, TypeInv
<1> QED
  BY <1>1, <1>2, Undisturbed

(* A request takes the next code.                                          *)
LEMMA AsksForOne ==
  ASSUME OwnerInv, CodeInv, NEW h \in Handlers, NEW r, Asks(h, r),
         UNCHANGED <<otp, issued, accepted, marred>>,
         r.at \in {"create", "delete"}, r.code = Code, r.purpose \in Purposes
  PROVE  CodeInv'
<1>1. /\ spent' \in [{"codes", "changes", "failures"} -> Nat]
      /\ spent.codes \in Nat /\ spent'.codes = spent.codes + 1 /\ r.code = spent.codes + 1
  BY DEF Asks, Spend, CodeInv, CodeTypes, Code
<1>2. \A k \in Handlers : req'[k] = IF k = h THEN r ELSE req[k]
  BY DEF Asks, OwnerInv, TypeInv
<1>3. CodeTypes'
  BY <1>1, <1>2 DEF CodeInv, CodeTypes
<1>4. /\ \A k \in Handlers : Holding(req[k]) => req[k].code \in Nat
      /\ \A i \in DOMAIN issued : issued[i].code \in Nat
  <2>1. \A i \in DOMAIN issued : issued[i] \in Issued
    BY DEF CodeInv, CodeTypes
  <2> QED
    BY <2>1 DEF CodeInv, CodeTypes, Issued
<1>5. CodesApart'
  BY <1>1, <1>2, <1>4 DEF CodeInv, CodesApart
<1>6. RowsAsIssued'
  BY DEF CodeInv, RowsAsIssued, Key
<1>7. RowsAreNewest'
  BY <1>2 DEF CodeInv, RowsAreNewest, Key
<1>8. CheckHolds'
  BY <1>2 DEF CodeInv, CheckHolds, Superseded, Key
<1>9. CodesWork'
  BY DEF CodeInv, CodesWork
<1> QED
  BY <1>3, <1>5, <1>6, <1>7, <1>8, <1>9 DEF CodeInv

(* A request finds its code to be the newest of its key.                   *)
LEMMA ChecksOne ==
  ASSUME OwnerInv, CodeInv, NEW h \in Handlers, NEW r, req' = [req EXCEPT ![h] = r],
         UNCHANGED <<otp, issued, accepted, marred, spent>>,
         NEW row \in GetLatestOTP(r.user, r.purpose), row.code = r.code, r.at = "consume"
  PROVE  CodeInv'
<1>1. \A k \in Handlers : req'[k] = IF k = h THEN r ELSE req[k]
  BY DEF OwnerInv, TypeInv
<1>2. row \in otp /\ Key(row) = Key(r) /\ ~row.consumed
  BY DEF GetLatestOTP, Key
<1>3. CodeTypes' /\ CodesApart'
  BY <1>1 DEF CodeInv, CodeTypes, CodesApart, Holding
<1>4. RowsAsIssued' /\ RowsAreNewest'
  BY <1>1 DEF CodeInv, RowsAsIssued, RowsAreNewest, Key
<1>5. PICK n \in DOMAIN issued : n = row.created /\ issued[n].code = r.code /\ Key(issued[n]) = Key(r)
  BY <1>2 DEF CodeInv, RowsAsIssued
<1>6. \A used \in accepted : used.code # r.code
  BY <1>2 DEF CodeInv, RowsAsIssued
<1>7. Key(r) \in marred \/ ~(\E i, j \in DOMAIN issued :
                               i < j /\ issued[i].code = r.code /\ Key(issued[i]) = Key(issued[j]))
  <2> SUFFICES ASSUME Key(r) \notin marred, NEW i \in DOMAIN issued, NEW j \in DOMAIN issued,
                      i < j, issued[i].code = r.code, Key(issued[i]) = Key(issued[j])
               PROVE  FALSE
    OBVIOUS
  <2>1. i = n
    BY <1>5 DEF CodeInv, CodesApart
  <2>2. j <= n
    BY <1>2, <1>5, <2>1 DEF CodeInv, RowsAreNewest
  <2>3. n \in Int /\ j \in Int
    BY DEF CodeInv, CodeTypes
  <2> QED
    BY <2>1, <2>2, <2>3
<1>8. CheckHolds'
  <2> SUFFICES ASSUME NEW k \in Handlers, req'[k].at = "consume"
               PROVE  /\ \E i \in DOMAIN issued : issued[i].code = req'[k].code /\ Key(issued[i]) = Key(req'[k])
                      /\ ~req'[k].overtaken => /\ \A used \in accepted : used.code # req'[k].code
                                               /\ Key(req'[k]) \in marred \/ ~Superseded(k)'
    BY DEF CheckHolds, Key
  <2>1. CASE k = h
    <3>1. req'[k] = r
      BY <1>1, <2>1
    <3>2. Superseded(k)' <=> \E i, j \in DOMAIN issued :
                               i < j /\ issued[i].code = r.code /\ Key(issued[i]) = Key(issued[j])
      BY <3>1 DEF Superseded, Key
    <3> QED
      BY <1>5, <1>6, <1>7, <3>1, <3>2
  <2>2. CASE k # h
    <3>1. req'[k] = req[k]
      BY <1>1, <2>2
    <3>2. Superseded(k)' <=> Superseded(k)
      BY <3>1 DEF Superseded, Key
    <3> QED
      BY <3>1, <3>2 DEF CodeInv, CheckHolds
  <2> QED
    BY <2>1, <2>2
<1>9. CodesWork'
  BY DEF CodeInv, CodesWork
<1> QED
  BY <1>3, <1>4, <1>8, <1>9 DEF CodeInv

(* Other requests hear of a write to the codes of their key.               *)
LEMMA AfterOvertaken ==
  ASSUME OwnerInv, NEW h \in Handlers, NEW step, Overtaken(h, step), step \notin {"check", "consume"},
         req[h].at \in {"delete", "insert", "consume"}
  PROVE  /\ req'[h].at = step /\ req'[h].user = req[h].user
         /\ \A k \in Handlers : req'[k].at = "check" => req'[k] = req[k]
         /\ req[h].at # "consume" => req'[h].purpose = req[h].purpose /\ req'[h].code = req[h].code
         /\ \A k \in Handlers \ {h} : req'[k].at # "consume" => req'[k] = req[k]
         /\ \A k \in Handlers : req'[k].at = "consume" =>
              /\ k # h /\ req[k].at = "consume"
              /\ Key(req'[k]) = Key(req[k]) /\ req'[k].code = req[k].code
              /\ \/ req'[k].overtaken
                 \/ req'[k] = req[k] /\ Key(req[k]) # Key(req[h])
<1>1. /\ req'[h] = [req[h] EXCEPT !.at = step]
      /\ \A k \in Handlers \ {h} :
           req'[k] = IF At(k, "consume") /\ Key(req[k]) = Key(req[h])
                     THEN [req[k] EXCEPT !.overtaken = TRUE] ELSE req[k]
  BY DEF Overtaken
<1>2. req'[h].at = step /\ req'[h].user = req[h].user
  BY <1>1 DEF OwnerInv, TypeInv, Shape, Idle
<1>3. req[h].at # "consume" => req'[h].purpose = req[h].purpose /\ req'[h].code = req[h].code
  BY <1>1 DEF OwnerInv, TypeInv, Shape, Idle
<1>4. ASSUME NEW k \in Handlers \ {h}
      PROVE  /\ req'[k].at # "consume" => req'[k] = req[k]
             /\ req'[k].at = "consume" =>
                  /\ req[k].at = "consume"
                  /\ Key(req'[k]) = Key(req[k]) /\ req'[k].code = req[k].code
                  /\ \/ req'[k].overtaken
                     \/ req'[k] = req[k] /\ Key(req[k]) # Key(req[h])
  <2>1. CASE At(k, "consume") /\ Key(req[k]) = Key(req[h])
    <3>1. req'[k] = [req[k] EXCEPT !.overtaken = TRUE] /\ req[k].at = "consume"
      BY <1>1, <2>1 DEF At
    <3>2. DOMAIN req[k] = {"at", "op", "user", "purpose", "code", "role", "overtaken"}
      BY <3>1 DEF OwnerInv, TypeInv, Shape, Idle
    <3> QED
      BY <3>1, <3>2 DEF Key
  <2>2. CASE ~(At(k, "consume") /\ Key(req[k]) = Key(req[h]))
    BY <1>1, <2>2 DEF At
  <2> QED
    BY <2>1, <2>2
<1> QED
  BY <1>2, <1>3, <1>4

(* The old codes of the key go, or the error is dropped.                   *)
LEMMA DeletesStep ==
  ASSUME OwnerInv, CodeInv, NEW h \in Handlers, IssueDeletes(h)
  PROVE  CodeInv'
<1>1. req[h].at = "delete" /\ Overtaken(h, "insert") /\ UNCHANGED <<issued, accepted>>
  BY DEF IssueDeletes, At
<1>2. /\ spent' \in [{"codes", "changes", "failures"} -> Nat] /\ spent'.codes = spent.codes
      /\ otp' \subseteq otp /\ marred \subseteq marred'
      /\ Key(req[h]) \in marred' \/ \A row \in otp' : Key(row) # Key(req[h])
  BY DEF IssueDeletes, DeleteOTPs, Spend, CodeInv, CodeTypes, Key
<1>3. /\ req'[h].at = "insert" /\ req'[h].code = req[h].code /\ req'[h].purpose = req[h].purpose
      /\ Key(req'[h]) = Key(req[h]) /\ Holding(req[h])
      /\ \A k \in Handlers \ {h} : Holding(req'[k]) => req'[k] = req[k]
      /\ \A k \in Handlers \ {h} : req'[k].at = "insert" => req'[k] = req[k]
  BY <1>1, AfterOvertaken DEF Holding, Key
<1>4. CodeTypes'
  BY <1>1, <1>2, <1>3, AfterOvertaken DEF CodeInv, CodeTypes
<1>5. CodesApart'
  BY <1>1, <1>2, <1>3 DEF CodeInv, CodesApart
<1>6. RowsAsIssued'
  BY <1>1, <1>2 DEF CodeInv, RowsAsIssued, Key
<1>7. RowsAreNewest'
  BY <1>1, <1>2, <1>3 DEF CodeInv, RowsAreNewest, Key
<1>8. CheckHolds'
  BY <1>1, <1>2, AfterOvertaken DEF CodeInv, CheckHolds, Superseded, Key
<1>9. CodesWork'
  BY <1>1, <1>2 DEF CodeInv, CodesWork
<1> QED
  BY <1>4, <1>5, <1>6, <1>7, <1>8, <1>9 DEF CodeInv

(* The new code is the newest of its key.                                  *)
LEMMA InsertsStep ==
  ASSUME OwnerInv, CodeInv, NEW h \in Handlers, IssueInserts(h)
  PROVE  CodeInv'
<1> DEFINE n == Len(issued) + 1
           new == [code |-> req[h].code, user |-> req[h].user, purpose |-> req[h].purpose]
<1>1. /\ req[h].at = "insert" /\ Holding(req[h]) /\ Overtaken(h, "mail") /\ UNCHANGED <<accepted, spent>>
      /\ issued' = Append(issued, new) /\ marred \subseteq marred'
  BY DEF IssueInserts, CreateOTP, At, Holding
<1>2. new \in Issued
  <2>1. req[h].code \in Nat /\ req[h].purpose \in Purposes
    BY <1>1 DEF CodeInv, CodeTypes
  <2>2. req[h].user \in Users
    BY <1>1 DEF OwnerInv, TypeInv, Shape, Idle
  <2> QED
    BY <2>1, <2>2 DEF Issued
<1>3. /\ issued' \in Seq(Issued) /\ n \in Nat /\ Len(issued') = n
      /\ DOMAIN issued = 1..(n - 1) /\ DOMAIN issued' = 1..n
      /\ issued'[n] = new /\ \A i \in DOMAIN issued : issued'[i] = issued[i] /\ i < n
  BY <1>1, <1>2 DEF CodeInv, CodeTypes
<1>4. PICK row : /\ otp' = otp \cup {row} /\ row \in OtpRow /\ row.code = new.code /\ row.created = n
                 /\ Key(row) = Key(req[h]) /\ ~row.consumed
  <2>1. otp' = otp \cup {[code |-> req[h].code, user |-> req[h].user, purpose |-> req[h].purpose,
                          created |-> n, consumed |-> FALSE, expired |-> FALSE]}
    BY <1>3 DEF IssueInserts, CreateOTP
  <2>2. PICK row : row = [code |-> req[h].code, user |-> req[h].user, purpose |-> req[h].purpose,
                          created |-> n, consumed |-> FALSE, expired |-> FALSE]
    OBVIOUS
  <2>3. row \in OtpRow
    BY <1>2, <1>3, <2>2 DEF OtpRow, Issued
  <2>4. row.code = new.code /\ row.created = n /\ ~row.consumed
    BY <2>2
  <2>5. Key(row) = Key(req[h])
    BY <2>2 DEF Key
  <2>6. otp' = otp \cup {row}
    BY <2>1, <2>2
  <2> QED
    BY <2>3, <2>4, <2>5, <2>6
<1>5. Key(new) = Key(req[h])
  BY DEF Key
<1>6. /\ \A k \in Handlers : Holding(req'[k]) => k # h /\ req'[k] = req[k]
      /\ \A k \in Handlers : req'[k].at = "insert" => k # h /\ req'[k] = req[k]
  BY <1>1, AfterOvertaken DEF Holding
<1>7. \A k \in Handlers : req'[k].at = "insert" /\ Key(req[k]) = Key(req[h]) => Key(req[h]) \in marred'
  <2> SUFFICES ASSUME NEW k \in Handlers, req'[k].at = "insert", Key(req[k]) = Key(req[h])
               PROVE  Key(req[h]) \in marred'
    OBVIOUS
  <2>1. k \in Others(h, "insert")
    BY <1>6 DEF Others, At
  <2> QED
    BY <2>1 DEF IssueInserts
<1>8. \A i \in DOMAIN issued' : i \in DOMAIN issued \/ i = n
  BY <1>3
<1>9. CodeTypes'
  BY <1>1, <1>3, <1>4, <1>6, AfterOvertaken DEF CodeInv, CodeTypes
<1>10. CodesApart'
  <2>1. \A i \in DOMAIN issued : issued[i].code # new.code
    BY <1>1 DEF CodeInv, CodesApart
  <2>2. \A k \in Handlers : Holding(req'[k]) => req[k].code # new.code
    BY <1>1, <1>6 DEF CodeInv, CodesApart
  <2>3. new.code <= spent.codes
    BY <1>1 DEF CodeInv, CodesApart
  <2> QED
    BY <1>1, <1>3, <1>6, <1>8, <2>1, <2>2, <2>3 DEF CodeInv, CodesApart
<1>11. RowsAsIssued'
  <2>1. \A used \in accepted : used.code # new.code
    BY <1>1 DEF CodeInv, RowsAsIssued, CodesApart
  <2>2. \A old \in otp' : /\ old.created \in DOMAIN issued'
                          /\ issued'[old.created].code = old.code /\ Key(issued'[old.created]) = Key(old)
    BY <1>3, <1>4, <1>5 DEF CodeInv, RowsAsIssued, Key
  <2>3. \A used \in accepted : \E i \in DOMAIN issued' : issued'[i].code = used.code
    BY <1>3 DEF CodeInv, RowsAsIssued
  <2> QED
    BY <1>1, <1>4, <2>1, <2>2, <2>3 DEF CodeInv, RowsAsIssued, Key
<1>12. RowsAreNewest'
  <2>1. \A old \in otp : Key(old) = Key(req[h]) => Key(req[h]) \in marred
    BY <1>1 DEF CodeInv, RowsAreNewest
  <2>2. ASSUME NEW old \in otp', NEW i \in DOMAIN issued',
               Key(old) \notin marred', Key(issued'[i]) = Key(old)
        PROVE  i <= old.created
    <3>1. CASE old = row
      BY <1>3, <1>4, <1>8, <3>1
    <3>2. CASE old \in otp /\ i \in DOMAIN issued
      BY <1>1, <1>3, <2>2, <3>2 DEF CodeInv, RowsAreNewest, Key
    <3>3. CASE old \in otp /\ i = n
      BY <1>1, <1>3, <1>5, <2>1, <2>2, <3>3
    <3> QED
      BY <1>4, <1>8, <3>1, <3>2, <3>3
  <2>3. ASSUME NEW k \in Handlers, NEW old \in otp', req'[k].at = "insert", Key(req[k]) \notin marred'
        PROVE  Key(old) # Key(req[k])
    <3>1. CASE old = row
      BY <1>4, <1>7, <2>3, <3>1
    <3>2. CASE old \in otp
      BY <1>1, <1>6, <2>3, <3>2 DEF CodeInv, RowsAreNewest
    <3> QED
      BY <1>4, <3>1, <3>2
  <2> QED
    BY <1>6, <2>2, <2>3 DEF RowsAreNewest, Key
<1>13. CheckHolds'
  <2> SUFFICES ASSUME NEW k \in Handlers, req'[k].at = "consume"
               PROVE  /\ \E i \in DOMAIN issued' : issued'[i].code = req'[k].code
                                                   /\ Key(issued'[i]) = Key(req'[k])
                      /\ ~req'[k].overtaken => /\ \A used \in accepted : used.code # req'[k].code
                                               /\ Key(req'[k]) \in marred' \/ ~Superseded(k)'
    BY <1>1 DEF CheckHolds, Key
  <2>1. /\ k # h /\ req[k].at = "consume" /\ Key(req'[k]) = Key(req[k]) /\ req'[k].code = req[k].code
        /\ req'[k].overtaken \/ (req'[k] = req[k] /\ Key(req[k]) # Key(req[h]))
    BY <1>1, AfterOvertaken
  <2>2. PICK m \in DOMAIN issued : issued[m].code = req[k].code /\ Key(issued[m]) = Key(req[k])
    BY <2>1 DEF CodeInv, CheckHolds
  <2>3. m \in DOMAIN issued' /\ issued'[m].code = req'[k].code /\ Key(issued'[m]) = Key(req'[k])
    BY <1>3, <2>1, <2>2 DEF Key
  <2>4. ASSUME ~req'[k].overtaken
        PROVE  /\ \A used \in accepted : used.code # req'[k].code
               /\ Key(req'[k]) \in marred' \/ ~Superseded(k)'
    <3>1. ~req[k].overtaken /\ req'[k] = req[k] /\ Key(req[k]) # Key(req[h])
      BY <2>1, <2>4
    <3>2. \A used \in accepted : used.code # req[k].code
      BY <2>1, <3>1 DEF CodeInv, CheckHolds
    <3>3. Key(req[k]) \in marred \/ ~Superseded(k)
      BY <2>1, <3>1 DEF CodeInv, CheckHolds
    <3>4. Superseded(k)' => Superseded(k)
      <4> SUFFICES ASSUME NEW i \in DOMAIN issued', NEW j \in DOMAIN issued', i < j,
                          issued'[i].code = req[k].code, Key(issued'[i]) = Key(issued'[j])
                   PROVE  Superseded(k)
        BY <3>1 DEF Superseded, Key
      <4>1. i \in DOMAIN issued
        BY <1>3, <1>8
      <4>2. i = m
        BY <1>3, <2>2, <4>1 DEF CodeInv, CodesApart
      <4>3. j # n
        BY <1>3, <1>5, <2>2, <3>1, <4>2 DEF Key
      <4> QED
        BY <1>3, <1>8, <4>1, <4>3 DEF Superseded, Key
    <3> QED
      BY <1>1, <3>1, <3>2, <3>3, <3>4
  <2> QED
    BY <2>3, <2>4
<1>14. CodesWork'
  BY <1>1 DEF CodeInv, CodesWork
<1> QED
  BY <1>9, <1>10, <1>11, <1>12, <1>13, <1>14 DEF CodeInv

(* A code is consumed.                                                     *)
LEMMA ConsumeStep ==
  ASSUME OwnerInv, CodeInv, NEW h \in Handlers, Consume(h)
  PROVE  CodeInv'
<1>1. req[h].at = "consume" /\ Overtaken(h, "finish") /\ UNCHANGED <<issued, marred, spent>>
  BY DEF Consume, At
<1>2. /\ \A k \in Handlers : Holding(req'[k]) => req'[k] = req[k]
      /\ \A k \in Handlers : req'[k].at = "insert" => req'[k] = req[k]
  BY <1>1, AfterOvertaken DEF Holding
<1>3. PICK new : /\ accepted' = accepted \cup {new} /\ new.code = req[h].code /\ new.key = Key(req[h])
                 /\ new.again => \E used \in accepted : used.code = req[h].code
                 /\ new.superseded => Superseded(h)
                 /\ req[h].overtaken => new.overtaken
  <2>1. PICK new : new = [code |-> req[h].code, again |-> \E used \in accepted : used.code = req[h].code,
                          superseded |-> Superseded(h), overtaken |-> req[h].overtaken, key |-> Key(req[h])]
    OBVIOUS
  <2>2. accepted' = accepted \cup {new}
    BY <2>1, Zenon DEF Consume
  <2>3. new.code = req[h].code /\ new.key = Key(req[h]) /\ new.overtaken = req[h].overtaken
    BY <2>1
  <2>4. new.again => \E used \in accepted : used.code = req[h].code
    BY <2>1
  <2>5. new.superseded => Superseded(h)
    BY <2>1
  <2> QED
    BY <2>2, <2>3, <2>4, <2>5
<1>4. \A row \in otp' : \E old \in otp :
        /\ row \in OtpRow /\ row.code = old.code /\ row.created = old.created /\ Key(row) = Key(old)
        /\ row.consumed <=> old.consumed \/ row.code = req[h].code
  <2> SUFFICES ASSUME NEW old \in otp,
                      NEW row, row = IF old.code = req[h].code THEN [old EXCEPT !.consumed = TRUE] ELSE old
               PROVE  /\ row \in OtpRow /\ row.code = old.code /\ row.created = old.created /\ Key(row) = Key(old)
                      /\ row.consumed <=> old.consumed \/ row.code = req[h].code
    BY DEF Consume, ConsumeOTP
  <2>1. old \in OtpRow
    BY DEF CodeInv, CodeTypes
  <2> QED
    BY <2>1 DEF OtpRow, Key
<1>5. PICK n \in DOMAIN issued : issued[n].code = req[h].code /\ Key(issued[n]) = Key(req[h])
  BY <1>1 DEF CodeInv, CheckHolds
<1>6. CodeTypes'
  BY <1>1, <1>2, <1>4, AfterOvertaken DEF CodeInv, CodeTypes
<1>7. CodesApart'
  BY <1>1, <1>2 DEF CodeInv, CodesApart
<1>8. RowsAsIssued'
  <2>1. \A row \in otp' : /\ row.created \in DOMAIN issued
                          /\ issued[row.created].code = row.code /\ Key(issued[row.created]) = Key(row)
    BY <1>4 DEF CodeInv, RowsAsIssued
  <2>2. \A used \in accepted' : \E i \in DOMAIN issued : issued[i].code = used.code
    BY <1>3, <1>5 DEF CodeInv, RowsAsIssued
  <2>3. \A row \in otp', used \in accepted' : row.code = used.code => row.consumed
    BY <1>3, <1>4 DEF CodeInv, RowsAsIssued
  <2> QED
    BY <1>1, <2>1, <2>2, <2>3 DEF RowsAsIssued, Key
<1>9. RowsAreNewest'
  BY <1>1, <1>2, <1>4 DEF CodeInv, RowsAreNewest, Key
<1>10. CheckHolds'
  <2> SUFFICES ASSUME NEW k \in Handlers, req'[k].at = "consume"
               PROVE  /\ \E i \in DOMAIN issued : issued[i].code = req'[k].code
                                                  /\ Key(issued[i]) = Key(req'[k])
                      /\ ~req'[k].overtaken => /\ \A used \in accepted' : used.code # req'[k].code
                                               /\ Key(req'[k]) \in marred \/ ~Superseded(k)'
    BY <1>1 DEF CheckHolds, Key
  <2>1. /\ k # h /\ req[k].at = "consume" /\ Key(req'[k]) = Key(req[k]) /\ req'[k].code = req[k].code
        /\ req'[k].overtaken \/ (req'[k] = req[k] /\ Key(req[k]) # Key(req[h]))
    BY <1>1, AfterOvertaken
  <2>2. PICK m \in DOMAIN issued : issued[m].code = req[k].code /\ Key(issued[m]) = Key(req[k])
    BY <2>1 DEF CodeInv, CheckHolds
  <2>3. ASSUME ~req'[k].overtaken
        PROVE  /\ \A used \in accepted' : used.code # req'[k].code
               /\ Key(req'[k]) \in marred \/ ~Superseded(k)'
    <3>1. ~req[k].overtaken /\ req'[k] = req[k] /\ Key(req[k]) # Key(req[h])
      BY <2>1, <2>3
    <3>2. req[h].code # req[k].code
      BY <1>5, <2>2, <3>1 DEF CodeInv, CodesApart
    <3>3. /\ \A used \in accepted : used.code # req[k].code
          /\ Key(req[k]) \in marred \/ ~Superseded(k)
      BY <2>1, <3>1 DEF CodeInv, CheckHolds
    <3>4. Superseded(k)' <=> Superseded(k)
      BY <1>1, <3>1 DEF Superseded, Key
    <3> QED
      BY <1>3, <3>1, <3>2, <3>3, <3>4
  <2> QED
    BY <2>1, <2>2, <2>3
<1>11. CodesWork'
  <2>1. new.again \/ new.superseded => new.overtaken \/ new.key \in marred
    BY <1>1, <1>3 DEF CodeInv, CheckHolds
  <2> QED
    BY <1>1, <1>3, <2>1 DEF CodeInv, CodesWork
<1> QED
  BY <1>6, <1>7, <1>8, <1>9, <1>10, <1>11 DEF CodeInv

LEMMA ExpiryStep ==
  ASSUME CodeInv, NEW old \in otp, ExpireCode(old)
  PROVE  CodeInv'
<1>1. UNCHANGED <<req, issued, accepted, marred, spent>>
  BY DEF ExpireCode
<1>2. PICK new : /\ otp' = (otp \ {old}) \cup {new} /\ new \in OtpRow /\ new.code = old.code
                 /\ new.created = old.created /\ Key(new) = Key(old) /\ new.consumed = old.consumed
  <2>1. old \in OtpRow
    BY DEF CodeInv, CodeTypes
  <2>2. PICK new : new = [old EXCEPT !.expired = TRUE]
    OBVIOUS
  <2>3. new \in OtpRow /\ new.code = old.code /\ new.created = old.created /\ new.consumed = old.consumed
    BY <2>1, <2>2 DEF OtpRow
  <2>4. Key(new) = Key(old)
    BY <2>1, <2>2 DEF OtpRow, Key
  <2> QED
    BY <2>2, <2>3, <2>4 DEF ExpireCode
<1>3. CodeTypes' /\ CodesApart'
  BY <1>1, <1>2 DEF CodeInv, CodeTypes, CodesApart
<1>4. RowsAsIssued' /\ RowsAreNewest'
  BY <1>1, <1>2 DEF CodeInv, RowsAsIssued, RowsAreNewest, Key
<1>5. CheckHolds' /\ CodesWork'
  BY <1>1 DEF CodeInv, CheckHolds, CodesWork, Superseded, Key
<1> QED
  BY <1>3, <1>4, <1>5 DEF CodeInv

-----------------------------------------------------------------------------
LEMMA ArrivalCodes ==
  ASSUME OwnerInv, CodeInv, NEW h \in Handlers, Arrive(h)
  PROVE  CodeInv'
<1>1. ASSUME NEW u \in Users, Register(h, u) PROVE CodeInv'
  <2> DEFINE r == [at |-> "create", op |-> "register", user |-> u, purpose |-> "signup", code |-> Code]
  <2>1. Asks(h, r) /\ UNCHANGED <<otp, issued, accepted, marred>>
    BY <1>1 DEF Register, register
  <2> QED
    BY <2>1, AsksForOne DEF Purposes
<1>2. ASSUME NEW u \in Users, NEW purpose \in Purposes, issueOTP(h, u, purpose) PROVE CodeInv'
  <2> DEFINE r == [at |-> "delete", op |-> "issue", user |-> u, purpose |-> purpose, code |-> Code]
  <2>1. Asks(h, r) /\ UNCHANGED <<otp, issued, accepted, marred>>
    BY <1>2 DEF issueOTP
  <2> QED
    BY <2>1, AsksForOne
<1>3. ASSUME NEW u \in Users, Login(h, u) PROVE CodeInv'
  <2>1. CASE GetUserByEmail(u).twoFactor
    <3> DEFINE r == [at |-> "delete", op |-> "issue", user |-> u, purpose |-> "login", code |-> Code]
    <3>1. Asks(h, r) /\ UNCHANGED <<otp, issued, accepted, marred>>
      BY <1>3, <2>1 DEF Login, checkCredentials
    <3> QED
      BY <3>1, AsksForOne DEF Purposes
  <2>2. CASE ~GetUserByEmail(u).twoFactor
    <3> DEFINE r == [at |-> "finish", op |-> "login", user |-> u, role |-> user[u].role]
    <3>1. req' = [req EXCEPT ![h] = r] /\ UNCHANGED <<otp, issued, accepted, marred, spent>>
      BY <1>3, <2>2 DEF Login, checkCredentials
    <3>2. ~Holding(r) /\ r.at # "consume"
      BY DEF Holding
    <3> QED
      BY <3>1, <3>2, UndisturbedRequest
  <2> QED
    BY <2>1, <2>2
<1>4. ASSUME NEW u, NEW code, NEW purpose \in {"signup", "reset"}, checkOTP(h, u, purpose, code)
      PROVE  CodeInv'
  <2> DEFINE r == [at |-> "consume", op |-> purpose, user |-> u, purpose |-> purpose, code |-> code,
                   role |-> user[u].role, overtaken |-> FALSE]
  <2>1. PICK row \in GetLatestOTP(u, purpose) : row.code = code /\ req' = [req EXCEPT ![h] = r]
    BY <1>4 DEF checkOTP
  <2>2. UNCHANGED <<otp, issued, accepted, marred, spent>>
    BY <1>4 DEF checkOTP
  <2>3. r.user = u /\ r.purpose = purpose /\ r.code = code /\ r.at = "consume"
    OBVIOUS
  <2> HIDE DEF r
  <2> QED
    BY <2>1, <2>2, <2>3, ChecksOne
<1>5. ASSUME NEW u, NEW code, VerifyLoginOTP(h, u, code) PROVE CodeInv'
  <2> DEFINE r == [at |-> "check", op |-> "login", user |-> u, purpose |-> "login", code |-> code,
                   role |-> user[u].role, overtaken |-> FALSE]
  <2>1. req' = [req EXCEPT ![h] = r] /\ UNCHANGED <<otp, issued, accepted, marred, spent>>
    BY <1>5 DEF VerifyLoginOTP, verifyLoginOTP
  <2>2. ~Holding(r) /\ r.at # "consume"
    BY DEF Holding
  <2> QED
    BY <2>1, <2>2, UndisturbedRequest
<1>6. ASSUME NEW s, NEW u, NEW role, setRole(h, s, u, role) PROVE CodeInv'
  <2> DEFINE r == [at |-> "write", op |-> "role", user |-> u, role |-> role]
  <2>1. req' = [req EXCEPT ![h] = r] /\ Spend("changes") /\ UNCHANGED <<otp, issued, accepted, marred>>
    BY <1>6 DEF setRole, Changes
  <2>2. ~Holding(r) /\ r.at # "consume"
    BY DEF Holding
  <2> QED
    BY <2>1, <2>2, UndisturbedRequest
<1>7. ASSUME NEW s, NEW u, NEW on, setActive(h, s, u, on) PROVE CodeInv'
  <2> DEFINE r == [at |-> "write", op |-> "active", user |-> u, on |-> on]
  <2>1. req' = [req EXCEPT ![h] = r] /\ Spend("changes") /\ UNCHANGED <<otp, issued, accepted, marred>>
    BY <1>7 DEF setActive, Changes
  <2>2. ~Holding(r) /\ r.at # "consume"
    BY DEF Holding
  <2> QED
    BY <2>1, <2>2, UndisturbedRequest
<1>8. CASE \E u \in Users : Register(h, u) \/ Login(h, u) \/ ForgotPassword(h, u)
  BY <1>1, <1>2, <1>3, <1>8 DEF ForgotPassword, forgotPassword, Purposes
<1>9. CASE \E u \in Users, purpose \in Purposes : ResendOTP(h, u, purpose)
  BY <1>2, <1>9 DEF ResendOTP
<1>10. CASE \E m \in mailed : \/ VerifyEmail(h, m.user, m.code) \/ ResetPassword(h, m.user, m.code)
                              \/ VerifyLoginOTP(h, m.user, m.code)
  BY <1>4, <1>5, <1>10 DEF VerifyEmail, verifyEmail, ResetPassword, resetPassword
<1>11. CASE \/ \E s \in sessions, u \in Users, role \in Roles : setRole(h, s, u, role) \/ SetRole(h, s, u, role)
            \/ \E s \in sessions, u \in Users, on \in BOOLEAN : setActive(h, s, u, on)
  BY <1>6, <1>7, <1>11 DEF SetRole
<1> QED
  BY <1>8, <1>9, <1>10, <1>11 DEF Arrive

(* The steps that neither insert, delete nor consume a code.               *)
LEMMA OtherStepsCodes ==
  ASSUME OwnerInv, CodeInv, NEW h \in Handlers,
         \/ IssueMails(h) \/ CreateUser(h) \/ CountFirst(h) \/ BecomeOwner(h)
         \/ CheckLogin(h) \/ Finish(h) \/ AdminWrites(h) \/ FailRequest(h)
  PROVE  CodeInv'
<1>1. UNCHANGED <<otp, issued, accepted, marred>> /\ (spent' = spent \/ Spend("failures"))
  BY DEF IssueMails, CreateUser, CountFirst, BecomeOwner, CheckLogin, Finish, AdminWrites, FailRequest
<1>2. CASE Return(h)
  <2>1. ~Holding(Idle) /\ Idle.at \notin {"check", "consume"}
    BY DEF Holding, Idle
  <2> QED
    BY <1>1, <1>2, <2>1, UndisturbedRequest DEF Return
<1>3. ASSUME NEW step \in {"count", "own", "delete"}, Goto(h, step), req[h].at \in {"create", "count", "own"}
      PROVE  CodeInv'
  <2>1. PICK r : r = [req[h] EXCEPT !.at = step]
    OBVIOUS
  <2>2. r.at = step /\ r.code = req[h].code /\ r.purpose = req[h].purpose /\ Holding(req[h])
    BY <1>3, <2>1 DEF OwnerInv, TypeInv, Shape, Idle, Holding
  <2>3. req' = [req EXCEPT ![h] = r]
    BY <1>3, <2>1 DEF Goto
  <2> QED
    BY <1>1, <2>2, <2>3, UndisturbedRequest
<1>4. ASSUME CheckLogin(h), Goto(h, "consume"), ~Return(h) PROVE CodeInv'
  <2>1. PICK r : r = [req[h] EXCEPT !.at = "consume"]
    OBVIOUS
  <2>2. req[h].at = "check" /\ req[h].purpose = "login"
    BY <1>4 DEF CheckLogin, At, CodeInv, CodeTypes
  <2>3. r.at = "consume" /\ r.user = req[h].user /\ r.purpose = "login" /\ r.code = req[h].code
    BY <2>1, <2>2 DEF OwnerInv, TypeInv, Shape, Idle
  <2>4. {row \in GetLatestOTP(req[h].user, "login") : ~row.expired /\ row.code = req[h].code} # {}
    BY <1>4 DEF CheckLogin
  <2>5. PICK row \in GetLatestOTP(r.user, r.purpose) : row.code = r.code
    BY <2>3, <2>4
  <2>6. req' = [req EXCEPT ![h] = r] /\ UNCHANGED spent
    BY <1>4, <2>1 DEF Goto, CheckLogin
  <2> QED
    BY <1>1, <2>3, <2>5, <2>6, ChecksOne
<1>5. CASE IssueMails(h) \/ Finish(h) \/ AdminWrites(h) \/ FailRequest(h)
  BY <1>2, <1>5 DEF IssueMails, Finish, AdminWrites, FailRequest
<1>6. CASE CreateUser(h) \/ CountFirst(h) \/ BecomeOwner(h)
  BY <1>2, <1>3, <1>6 DEF CreateUser, CountFirst, BecomeOwner, At
<1>7. CASE CheckLogin(h)
  BY <1>2, <1>4, <1>7 DEF CheckLogin
<1> QED
  BY <1>5, <1>6, <1>7

LEMMA CodesStep ==
  ASSUME OwnerInv, CodeInv, [Next]_vars
  PROVE  CodeInv'
<1>1. CASE UNCHANGED vars
  BY <1>1 DEF vars, CodeInv, CodeTypes, CodesApart, RowsAsIssued, RowsAreNewest, CheckHolds, CodesWork,
     Superseded, Key
<1>2. ASSUME NEW h \in Handlers, Steps(h) PROVE CodeInv'
  BY <1>2, DeletesStep, InsertsStep, ConsumeStep, OtherStepsCodes DEF Steps
<1>3. ASSUME NEW s \in sessions, ExpireSession(s) \/ SetTwoFactor(s) PROVE CodeInv'
  <2>1. UNCHANGED <<otp, issued, accepted, marred, req>> /\ (spent' = spent \/ Spend("changes"))
    BY <1>3 DEF ExpireSession, SetTwoFactor, Changes
  <2>2. spent' \in [{"codes", "changes", "failures"} -> Nat] /\ spent'.codes = spent.codes
    BY <2>1 DEF Spend, CodeInv, CodeTypes
  <2> QED
    BY <2>1, <2>2, Undisturbed
<1> QED
  BY <1>1, <1>2, <1>3, ArrivalCodes, OtherStepsCodes, ExpiryStep DEF Next

(* A code works once, and only until a newer one is made (issueOTP,        *)
(* checkOTP, service.go:268-294), but for the three exceptions CodesWork   *)
(* names, for any number of requests and of codes.                         *)
THEOREM CodesWorkOnce == Spec => []CodesWork
<1>1. Init => OwnerInv /\ MailedInv
  BY Initially DEF Init, MailedInv
<1>2. Init => CodeInv
  <2> SUFFICES ASSUME Init PROVE CodeInv
    OBVIOUS
  <2>1. /\ \A h \in Handlers : req[h].at = "idle"
        /\ issued = <<>> /\ otp = {} /\ accepted = {} /\ DOMAIN issued = {}
        /\ spent = [codes |-> 0, changes |-> 0, failures |-> 0]
    BY DEF Init, Idle
  <2>2. CodeTypes
    BY <2>1 DEF CodeTypes, Holding
  <2> QED
    BY <2>1, <2>2 DEF CodeInv, CodesApart, RowsAsIssued, RowsAreNewest, CheckHolds, CodesWork, Holding
<1>3. CodeInv => CodesWork
  BY DEF CodeInv
<1> QED
  BY <1>1, <1>2, <1>3, OwnersStep, MailStep, CodesStep, PTL DEF Spec

=============================================================================
