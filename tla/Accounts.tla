------------------------------ MODULE Accounts ------------------------------
(***************************************************************************)
(* internal/account and the member administration of handler/admin.go:     *)
(* registration and the bootstrap of the workspace's owner, one-time codes *)
(* by mail, logins with and without the second factor, roles and           *)
(* deactivation.  A request runs in a goroutine of its own, one SQL        *)
(* statement a step.  A session is a signed token that nothing revokes: it *)
(* carries the role of the login and lives until it expires.  Passwords    *)
(* are left out: a request with a wrong one is answered at once.           *)
(***************************************************************************)
EXTENDS Naturals, FiniteSets, Sequences, TLC

CONSTANTS
  Users,        \* email addresses; the row of a user is keyed by it
  Handlers,     \* goroutines that serve account requests
  MaxCodes,     \* bound: requests that may mail a code
  MaxChanges,   \* bound: changes of a role, of is_active, of the second factor
  MaxFailures   \* bound: statements and mails that fail

ASSUME AccountsAssumption ==
  IsFiniteSet(Users) /\ {MaxCodes, MaxChanges, MaxFailures} \subseteq Nat

VARIABLES
  user,      \* users: the role, email_verified, is_active, two_factor_enabled
  otp,       \* otp_codes; created_at orders the rows as they were inserted
  mailed,    \* the codes that reached their user
  sessions,  \* live tokens: whose, and the role they carry
  req,       \* what each handler is doing
  issued,    \* history: every code inserted, in order
  accepted,  \* history: the codes consumed, and what was amiss
  marred,    \* history: the addresses and purposes whose old codes may have survived
  slipped,   \* history: the first registration was crossed or failed
  spent      \* bounds: codes, changes and failures so far

vars == <<user, otp, mailed, sessions, req, issued, accepted, marred, slipped, spent>>

Purposes == {"signup", "reset", "login"}
Roles    == {"owner", "admin", "member", "guest"}

Absent == [role |-> "none"]
NewRow == [role |-> "member", verified |-> FALSE, active |-> TRUE, twoFactor |-> FALSE]
EmailExists(u) == user[u] # Absent
GetUserByEmail(u) == user[u]
GetUserByID(u) == user[u]

Idle == [at |-> "idle"]

Init ==
  /\ user = [u \in Users |-> Absent] /\ otp = {} /\ mailed = {} /\ sessions = {}
  /\ req = [h \in Handlers |-> Idle]
  /\ issued = <<>> /\ accepted = {} /\ marred = {} /\ slipped = FALSE
  /\ spent = [codes |-> 0, changes |-> 0, failures |-> 0]

-----------------------------------------------------------------------------
(* Control of a request.                                                   *)

At(h, step)   == req[h].at = step
Goto(h, step) == req' = [req EXCEPT ![h].at = step]
Return(h)     == req' = [req EXCEPT ![h] = Idle]
Others(h, step) == {k \in Handlers \ {h} : At(k, step)}

Spend(what) == spent' = [spent EXCEPT ![what] = @ + 1]

(* A request that may mail a code takes the next one.                      *)
Asks(h, what) == spent.codes < MaxCodes /\ Spend("codes") /\ req' = [req EXCEPT ![h] = what]
Code == spent.codes + 1

-----------------------------------------------------------------------------
(* One-time codes.                                                         *)

Key(row) == <<row.user, row.purpose>>

DeleteUsedOTPs(u, purpose) == otp' = {row \in otp : Key(row) # <<u, purpose>> \/ ~row.consumed}
DeleteOTPs(u, purpose) == otp' = {row \in otp : Key(row) # <<u, purpose>>}

CreateOTP(code, u, purpose) ==
  /\ issued' = Append(issued, [code |-> code, user |-> u, purpose |-> purpose])
  /\ otp' = otp \cup {[code |-> code, user |-> u, purpose |-> purpose, created |-> Len(issued'),
                       consumed |-> FALSE, expired |-> FALSE]}

(* The newest row of the address and purpose not yet consumed.             *)
GetLatestOTP(u, purpose) ==
  LET rows == {row \in otp : Key(row) = <<u, purpose>> /\ ~row.consumed}
  IN  {row \in rows : \A other \in rows : other.created <= row.created}

ConsumeOTP(code) ==
  otp' = {IF row.code = code THEN [row EXCEPT !.consumed = TRUE] ELSE row : row \in otp}

(* A write to the codes of k's address and purpose after k's read.         *)
Overtaken(h, step) ==
  req' = [k \in Handlers |->
            IF k = h THEN [req[h] EXCEPT !.at = step]
            ELSE IF At(k, "consume") /\ Key(req[k]) = Key(req[h])
                 THEN [req[k] EXCEPT !.overtaken = TRUE] ELSE req[k]]

-----------------------------------------------------------------------------
(* issueOTP: delete the old codes, insert the new one, mail it.            *)

IssueDeletes(h) ==
  /\ At(h, "delete")
  /\ \/ DeleteOTPs(req[h].user, req[h].purpose) /\ UNCHANGED <<marred, spent>>
     \/ /\ spent.failures < MaxFailures /\ Spend("failures")
        /\ marred' = marred \cup {Key(req[h])}
        /\ UNCHANGED otp
  /\ Overtaken(h, "insert")
  /\ UNCHANGED <<user, mailed, sessions, issued, accepted, slipped>>

IssueInserts(h) ==
  /\ At(h, "insert")
  /\ CreateOTP(req[h].code, req[h].user, req[h].purpose)
  /\ Overtaken(h, "mail")
  /\ marred' = IF \E k \in Others(h, "insert") : Key(req[k]) = Key(req[h])
               THEN marred \cup {Key(req[h])} ELSE marred
  /\ UNCHANGED <<user, mailed, sessions, accepted, slipped, spent>>

IssueMails(h) ==
  /\ At(h, "mail")
  /\ mailed' = mailed \cup {[code |-> req[h].code, user |-> req[h].user]}
  /\ Return(h)
  /\ UNCHANGED <<user, otp, sessions, issued, accepted, marred, slipped, spent>>

-----------------------------------------------------------------------------
(* Register: EmailExists, CreateUser, CountUsers, SetUserRole, issueOTP.   *)

register(h, u) ==
  /\ ~EmailExists(u)
  /\ Asks(h, [at |-> "create", op |-> "register", user |-> u, purpose |-> "signup", code |-> Code])
  /\ UNCHANGED <<user, otp, mailed, sessions, issued, accepted, marred, slipped>>

Owners == {u \in Users : user[u].role = "owner"}

InsertUser(u) == user' = [user EXCEPT ![u] = NewRow]

(* The address is unique: of two inserts of it the second fails.           *)
CreateUser(h) ==
  /\ At(h, "create")
  /\ \/ EmailExists(req[h].user) /\ Return(h) /\ UNCHANGED <<user, slipped>>
     \/ /\ ~EmailExists(req[h].user)
        /\ InsertUser(req[h].user)
        /\ slipped' = (slipped \/ (Owners = {} /\ Others(h, "count") # {}))
        /\ Goto(h, "count")
  /\ UNCHANGED <<otp, mailed, sessions, issued, accepted, marred, spent>>

CountUsers == Cardinality({u \in Users : EmailExists(u)})
IsEarly == CountUsers <= 2
IsFirst == CountUsers = 1

(* The first account owns the workspace; an error of either statement is   *)
(* dropped.                                                                *)
CountFirst(h) ==
  /\ At(h, "count")
  /\ \/ Goto(h, IF IsFirst THEN "own" ELSE "delete") /\ UNCHANGED <<slipped, spent>>
     \/ /\ spent.failures < MaxFailures /\ Spend("failures")
        /\ slipped' = (slipped \/ Owners = {})
        /\ Goto(h, "delete")
  /\ UNCHANGED <<user, otp, mailed, sessions, issued, accepted, marred>>

SetUserRole(u, role) == user' = [user EXCEPT ![u].role = role]

BecomeOwner(h) ==
  /\ At(h, "own")
  /\ \/ SetUserRole(req[h].user, "owner") /\ UNCHANGED <<slipped, spent>>
     \/ /\ spent.failures < MaxFailures /\ Spend("failures")
        /\ slipped' = TRUE
        /\ UNCHANGED user
  /\ Goto(h, "delete")
  /\ UNCHANGED <<otp, mailed, sessions, issued, accepted, marred>>

-----------------------------------------------------------------------------
(* The requests that check a code, and what each does with a good one.     *)

checkOTP(h, u, purpose, code) ==
  /\ [code |-> code, user |-> u] \in mailed
  /\ \E row \in GetLatestOTP(u, purpose) :
       /\ ~row.expired /\ row.code = code
       /\ req' = [req EXCEPT ![h] =
            [at |-> "consume", op |-> purpose, user |-> u, purpose |-> purpose, code |-> code,
             role |-> user[u].role, overtaken |-> FALSE]]
  /\ UNCHANGED <<user, otp, mailed, sessions, issued, accepted, marred, slipped, spent>>

verifyEmail(h, u, code)   == checkOTP(h, u, "signup", code)
resetPassword(h, u, code) == checkOTP(h, u, "reset", code)

(* The row is read, and is_active looked at, before the code.              *)
verifyLoginOTP(h, u, code) ==
  /\ EmailExists(u) /\ GetUserByEmail(u).active
  /\ req' = [req EXCEPT ![h] =
       [at |-> "check", op |-> "login", user |-> u, purpose |-> "login", code |-> code,
        role |-> user[u].role, overtaken |-> FALSE]]
  /\ [code |-> code, user |-> u] \in mailed
  /\ UNCHANGED <<user, otp, mailed, sessions, issued, accepted, marred, slipped, spent>>

CheckLogin(h) ==
  /\ At(h, "check")
  /\ LET rows == {row \in GetLatestOTP(req[h].user, "login") : ~row.expired /\ row.code = req[h].code}
     IN  IF rows = {} THEN Return(h) ELSE Goto(h, "consume")
  /\ UNCHANGED <<user, otp, mailed, sessions, issued, accepted, marred, slipped, spent>>

Superseded(h) ==
  \E i, j \in DOMAIN issued :
     i < j /\ issued[i].code = req[h].code /\ Key(issued[i]) = Key(issued[j])

Consume(h) ==
  /\ At(h, "consume")
  /\ ConsumeOTP(req[h].code)
  /\ accepted' = accepted \cup
       {[code |-> req[h].code, again |-> \E a \in accepted : a.code = req[h].code,
         superseded |-> Superseded(h), overtaken |-> req[h].overtaken, key |-> Key(req[h])]}
  /\ Overtaken(h, "finish")
  /\ UNCHANGED <<user, mailed, sessions, issued, marred, slipped, spent>>

MarkEmailVerified(u) ==
  user' = IF EmailExists(u) THEN [user EXCEPT ![u].verified = TRUE] ELSE user

Issue(h) == sessions' = sessions \cup {[user |-> req[h].user, role |-> req[h].role]}

Finish(h) ==
  /\ At(h, "finish")
  /\ \/ /\ req[h].op = "signup" /\ MarkEmailVerified(req[h].user)
        /\ UNCHANGED sessions
     \/ req[h].op = "reset" /\ UNCHANGED <<user, sessions>>
     \/ req[h].op = "login" /\ Issue(h) /\ UNCHANGED user
  /\ Return(h)
  /\ UNCHANGED <<otp, mailed, issued, accepted, marred, slipped, spent>>

-----------------------------------------------------------------------------
(* Login with the right password: a session, or a code to complete it with.*)

checkAnyone(h, u) ==
  /\ EmailExists(u) /\ user[u].verified /\ ~user[u].twoFactor
  /\ req' = [req EXCEPT ![h] = [at |-> "finish", op |-> "login", user |-> u, role |-> user[u].role]]
  /\ UNCHANGED <<user, otp, mailed, sessions, issued, accepted, marred, slipped, spent>>

checkCredentials(h, u) ==
  /\ EmailExists(u) /\ GetUserByEmail(u).verified /\ GetUserByEmail(u).active
  /\ IF GetUserByEmail(u).twoFactor
     THEN Asks(h, [at |-> "delete", op |-> "issue", user |-> u, purpose |-> "login", code |-> Code])
     ELSE /\ req' = [req EXCEPT ![h] = [at |-> "finish", op |-> "login", user |-> u, role |-> user[u].role]]
          /\ UNCHANGED spent
  /\ UNCHANGED <<user, otp, mailed, sessions, issued, accepted, marred, slipped>>

issueOTP(h, u, purpose) ==
  /\ Asks(h, [at |-> "delete", op |-> "issue", user |-> u, purpose |-> purpose, code |-> Code])
  /\ UNCHANGED <<user, otp, mailed, sessions, issued, accepted, marred, slipped>>

forgotPassword(h, u) == EmailExists(u) /\ issueOTP(h, u, "reset")

(* The token's 24 hours, and a code's 10 minutes.                          *)
ExpireSession(s) ==
  /\ s \in sessions /\ sessions' = sessions \ {s}
  /\ UNCHANGED <<user, otp, mailed, req, issued, accepted, marred, slipped, spent>>

ExpireCode(row) ==
  /\ row \in otp /\ ~row.expired
  /\ otp' = (otp \ {row}) \cup {[row EXCEPT !.expired = TRUE]}
  /\ UNCHANGED <<user, mailed, sessions, req, issued, accepted, marred, slipped, spent>>

-----------------------------------------------------------------------------
(* Requests of somebody signed in.                                         *)

Changes == spent.changes < MaxChanges /\ Spend("changes")

isAdmin(s) == s.role \in {"owner", "admin"}

SetUserTwoFactor(u, on) == user' = [user EXCEPT ![u].twoFactor = on]

GuestReadOnly(s) == s \in sessions /\ s.role # "guest"

SetTwoFactor(s) ==
  /\ GuestReadOnly(s) /\ Changes
  /\ SetUserTwoFactor(s.user, ~user[s.user].twoFactor)
  /\ UNCHANGED <<otp, mailed, sessions, req, issued, accepted, marred, slipped>>

(* setRole and setActive look at the row, then write it.                   *)
setRole(h, s, u, role) ==
  /\ At(h, "idle") /\ GuestReadOnly(s) /\ isAdmin(s)
  /\ EmailExists(u) /\ GetUserByID(u).role # "owner" /\ role # "owner"
  /\ Changes
  /\ req' = [req EXCEPT ![h] = [at |-> "write", op |-> "role", user |-> u, role |-> role]]
  /\ UNCHANGED <<user, otp, mailed, sessions, issued, accepted, marred, slipped>>

(* The team page's own way to it knows no guests.                          *)
SetRole(h, s, u, role) == role # "guest" /\ setRole(h, s, u, role)

setActive(h, s, u, on) ==
  /\ At(h, "idle") /\ GuestReadOnly(s) /\ isAdmin(s)
  /\ EmailExists(u) /\ (GetUserByID(u).role = "owner" => on)
  /\ Changes
  /\ req' = [req EXCEPT ![h] = [at |-> "write", op |-> "active", user |-> u, on |-> on]]
  /\ UNCHANGED <<user, otp, mailed, sessions, issued, accepted, marred, slipped>>

SetUserActive(u, on) == user' = [user EXCEPT ![u].active = on]

AdminWrites(h) ==
  /\ At(h, "write")
  /\ \/ req[h].op = "role"   /\ SetUserRole(req[h].user, req[h].role)
     \/ req[h].op = "active" /\ SetUserActive(req[h].user, req[h].on)
  /\ Return(h)
  /\ UNCHANGED <<otp, mailed, sessions, issued, accepted, marred, slipped, spent>>

(* A statement fails, the mail does, or the 30 seconds are up: the request *)
(* is answered with an error.                                              *)
FailRequest(h) ==
  /\ req[h].at \in {"create", "insert", "mail", "check", "consume", "finish", "write"}
  /\ spent.failures < MaxFailures /\ Spend("failures")
  /\ Return(h)
  /\ UNCHANGED <<user, otp, mailed, sessions, issued, accepted, marred, slipped>>

-----------------------------------------------------------------------------
(* The endpoints; a goroutine serves one request.                          *)
Register(h, u) == At(h, "idle") /\ register(h, u)
VerifyEmail(h, u, code) == At(h, "idle") /\ verifyEmail(h, u, code)
Login(h, u) == At(h, "idle") /\ checkCredentials(h, u)
VerifyLoginOTP(h, u, code) == At(h, "idle") /\ verifyLoginOTP(h, u, code)
ForgotPassword(h, u) == At(h, "idle") /\ forgotPassword(h, u)
ResetPassword(h, u, code) == At(h, "idle") /\ resetPassword(h, u, code)
ResendOTP(h, u, purpose) == At(h, "idle") /\ issueOTP(h, u, purpose)

Arrive(h) ==
  \/ \E u \in Users : Register(h, u) \/ Login(h, u) \/ ForgotPassword(h, u)
  \/ \E u \in Users, purpose \in Purposes : ResendOTP(h, u, purpose)
  \/ \E m \in mailed : \/ VerifyEmail(h, m.user, m.code) \/ ResetPassword(h, m.user, m.code)
                       \/ VerifyLoginOTP(h, m.user, m.code)
  \/ \E s \in sessions, u \in Users, role \in Roles : setRole(h, s, u, role) \/ SetRole(h, s, u, role)
  \/ \E s \in sessions, u \in Users, on \in BOOLEAN : setActive(h, s, u, on)

Steps(h) ==
  \/ IssueDeletes(h) \/ IssueInserts(h) \/ IssueMails(h)
  \/ CreateUser(h) \/ CountFirst(h) \/ BecomeOwner(h)
  \/ CheckLogin(h) \/ Consume(h) \/ Finish(h) \/ AdminWrites(h)

Session == [user : Users, role : Roles]

Next ==
  \/ \E h \in Handlers : Arrive(h) \/ Steps(h) \/ FailRequest(h)
  \/ \E s \in sessions : ExpireSession(s) \/ SetTwoFactor(s)
  \/ \E row \in otp : ExpireCode(row)

Spec == Init /\ [][Next]_vars

(* Goroutines go on, and tokens expire; whoever wants to sign in again may.*)
Fairness ==
  /\ \A h \in Handlers : WF_vars(Steps(h))
  /\ \A s \in Session : WF_vars(ExpireSession(s))

-----------------------------------------------------------------------------
(* Users, codes and sessions have their shape.                             *)
TypeOK ==
  /\ \A u \in Users : EmailExists(u) =>
       user[u] \in [role : Roles, verified : BOOLEAN, active : BOOLEAN, twoFactor : BOOLEAN]
  /\ sessions \subseteq Session
  /\ otp \subseteq [user : Users, purpose : Purposes, code : 1..MaxCodes, created : 1..Len(issued),
                   consumed : BOOLEAN, expired : BOOLEAN]
  /\ \A h \in Handlers : At(h, "idle") \/ req[h].user \in Users

(* The workspace never has two owners, its owner is never deactivated, and *)
(* nothing takes the role away again: once the first registration is past  *)
(* its SetUserRole there is an owner, unless a registration came between   *)
(* the insert and the count of another while there was none, or one of the *)
(* two statements whose errors Register drops has failed (service.go:74).  *)
OneOwner ==
  /\ Cardinality(Owners) <= 1
  /\ \A u \in Owners : user[u].active
  /\ (/\ \E u \in Users : EmailExists(u)
      /\ \A h \in Handlers : req[h].at \notin {"count", "own"}
      /\ ~slipped)
     => Owners # {}

(* A code works once, and only until a newer one is made for the address   *)
(* and purpose (issueOTP, checkOTP), unless another request wrote to those *)
(* codes between the check and the consumption, two requests made codes at *)
(* once, or the error of DeleteOTPs was dropped: then the older code comes *)
(* back into force when the newer one is consumed.                         *)
CodesWork ==
  \A a \in accepted : (a.again \/ a.superseded) => (a.overtaken \/ a.key \in marred)

(* Deactivating a user or changing his role takes effect in the end: once  *)
(* nobody changes members any more, every live session is one of an active *)
(* user and carries his role, however many logins were in progress and     *)
(* however many follow.  Tokens are not revoked, so only Login's and       *)
(* VerifyLoginOTP's look at is_active and the expiry bring this about.     *)
AccessEnds == <>[](\A s \in sessions : user[s.user].active /\ user[s.user].role = s.role)
=============================================================================
