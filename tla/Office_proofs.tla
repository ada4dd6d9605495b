---------------------------- MODULE Office_proofs ----------------------------
(***************************************************************************)
(* The properties of the five parts of the office, each for any number of  *)
(* handlers, users, rows and events: acknowledged pushes are stored, an    *)
(* event is posted as subscribed, requesters know where they stand, pages  *)
(* form a tree whose links follow the bodies, sprints are cleared and the  *)
(* two records of who is assigned agree.  Each part has an inductive       *)
(* invariant of its own, and each action of it a lemma.                    *)
(***************************************************************************)
EXTENDS Office, TLAPS
-----------------------------------------------------------------------------
(***************************************************************************)
(* GitPushes.  How far a push has come is how many of its commits, in      *)
(* order, are stored.                                                      *)
(***************************************************************************)
TypeInv ==
  /\ repo = [r \in Repos |-> repo[r]]
  /\ commit = [r \in Repos |-> [c \in Shas |-> commit[r][c]]]
  /\ origin = [r \in Repos |-> [c \in Shas |-> origin[r][c]]]
  /\ desk = [h \in Handlers |-> desk[h]]
  /\ answered \subseteq Pushes

(* How many commits of each push are stored, if its repository is there.   *)
Kept ==
  [p \in Pushes |->
     {n \in Nat : repo[p.repo] = "present" =>
                    \A i \in 1 .. n : p.shas[i] # "none" => commit[p.repo][p.shas[i]] # "none"}]

Posted(d) == Len(d.push.shas) - Len(d.rest)

(* A request has its push, and a rest that is a suffix of it.              *)
OfPush(d) ==
  /\ DOMAIN d = {"at", "push", "rest"}
  /\ d.at = "push" /\ d.push \in Pushes
  /\ d.rest \in Seq(Shas \cup {"none"}) /\ Posted(d) \in Nat
  /\ \A i \in 1 .. Len(d.rest) : d.rest[i] = d.push.shas[Posted(d) + i]

(* What was before the rest is stored.                                     *)
DeskInv ==
  \A h \in Handlers :
    \/ desk[h] = Idle
    \/ /\ OfPush(desk[h])
       /\ repo[desk[h].push.repo] # "unused"
       /\ Posted(desk[h]) \in Kept[desk[h].push]

AnsweredInv ==
  \A p \in answered : repo[p.repo] # "unused" /\ Len(p.shas) \in Kept[p]

(* A repository that is not deleted has its commits as they first came.    *)
BranchInv ==
  \A r \in Repos, c \in Shas :
    /\ repo[r] # "deleted" => commit[r][c] = origin[r][c]
    /\ repo[r] # "present" => commit[r][c] = "none"

PushInv == TypeInv /\ BranchInv /\ DeskInv /\ AnsweredInv

LEMMA Initially ==
  ASSUME Init
  PROVE  PushInv
<1>1. TypeInv
  BY DEF Init, TypeInv
<1>2. BranchInv /\ DeskInv /\ AnsweredInv
  BY DEF Init, BranchInv, DeskInv, AnsweredInv
<1> QED
  BY <1>1, <1>2 DEF PushInv

(* No commit is forgotten while its repository stays.                      *)
LEMMA KeptGrows ==
  ASSUME \A r \in Repos : \/ repo[r] = "unused"
                          \/ repo'[r] = "deleted"
                          \/ /\ repo'[r] = repo[r]
                             /\ \A c \in Shas : commit[r][c] # "none" => commit'[r][c] # "none"
  PROVE  /\ \A r \in Repos : repo[r] # "unused" => repo'[r] # "unused"
         /\ \A p \in Pushes : \A n \in 0 .. Len(p.shas) :
              repo[p.repo] # "unused" /\ n \in Kept[p] => n \in Kept'[p]
<1>1. \A r \in Repos : repo[r] # "unused" => repo'[r] # "unused"
  OBVIOUS
<1>2. ASSUME NEW p \in Pushes, NEW n \in 0 .. Len(p.shas), repo[p.repo] # "unused", n \in Kept[p]
      PROVE  n \in Kept'[p]
  <2>1. p.repo \in Repos /\ p.shas \in Seq(Shas \cup {"none"}) /\ n \in Nat
    BY PushesAssumption
  <2>2. \A i \in 1 .. n : p.shas[i] \in Shas \cup {"none"}
    BY <2>1
  <2>3. repo'[p.repo] = "present" =>
          /\ repo[p.repo] = "present"
          /\ \A c \in Shas : commit[p.repo][c] # "none" => commit'[p.repo][c] # "none"
    BY <1>2, <2>1
  <2>4. repo[p.repo] = "present" =>
          \A i \in 1 .. n : p.shas[i] # "none" => commit[p.repo][p.shas[i]] # "none"
    BY <1>2 DEF Kept
  <2>5. repo'[p.repo] = "present" =>
          \A i \in 1 .. n : p.shas[i] # "none" => commit'[p.repo][p.shas[i]] # "none"
    BY <2>2, <2>3, <2>4
  <2> QED
    BY <2>1, <2>5 DEF Kept
<1> QED
  BY <1>1, <1>2

LEMMA InRange ==
  ASSUME NEW d, OfPush(d)
  PROVE  /\ d.push \in Pushes /\ d.push.repo \in Repos
         /\ d.push.shas \in Seq(Shas \cup {"none"}) /\ Len(d.push.shas) \in Nat
         /\ Len(d.rest) \in Nat
         /\ Posted(d) \in 0 .. Len(d.push.shas)
BY PushesAssumption DEF OfPush, Posted

LEMMA Whole ==
  ASSUME NEW p \in Pushes
  PROVE  p.repo \in Repos /\ Len(p.shas) \in 0 .. Len(p.shas)
<1>1. p.repo \in Repos /\ p.shas \in Seq(Shas \cup {"none"})
  BY PushesAssumption
<1>2. Len(p.shas) \in Nat
  BY <1>1
<1> QED
  BY <1>1, <1>2

(* A step that serves no request.                                          *)
LEMMA TablesStep ==
  ASSUME PushInv, UNCHANGED <<desk, answered>>, TypeInv', BranchInv',
         \A r \in Repos : \/ repo[r] = "unused"
                          \/ repo'[r] = "deleted"
                          \/ /\ repo'[r] = repo[r]
                             /\ \A c \in Shas : commit[r][c] # "none" => commit'[r][c] # "none"
  PROVE  PushInv'
<1>1. DeskInv'
  BY KeptGrows, InRange DEF PushInv, DeskInv
<1>2. AnsweredInv'
  <2>1. /\ \A r \in Repos : repo[r] # "unused" => repo'[r] # "unused"
        /\ \A p \in Pushes : \A n \in 0 .. Len(p.shas) :
             repo[p.repo] # "unused" /\ n \in Kept[p] => n \in Kept'[p]
    BY KeptGrows
  <2> QED
    BY <2>1, Whole DEF PushInv, AnsweredInv, TypeInv
<1> QED
  BY <1>1, <1>2 DEF PushInv

LEMMA CreateRepoStep ==
  ASSUME PushInv, NEW r \in Repos, createRepo(r)
  PROVE  PushInv'
<1>1. repo[r] = "unused" /\ repo' = [repo EXCEPT ![r] = "present"] /\ UNCHANGED <<commit, desk, answered, origin>>
  BY DEF createRepo, CreateRepo
<1>2. TypeInv /\ BranchInv
  BY DEF PushInv
<1>3. TypeInv'
  BY <1>1, <1>2 DEF TypeInv
<1>4. BranchInv'
  BY <1>1, <1>2 DEF TypeInv, BranchInv
<1>5. \A q \in Repos : repo[q] = "unused" \/ repo'[q] = repo[q]
  BY <1>1, <1>2 DEF TypeInv
<1> QED
  BY <1>1, <1>3, <1>4, <1>5, TablesStep

LEMMA DeleteRepoStep ==
  ASSUME PushInv, NEW r \in Repos, deleteRepo(r)
  PROVE  PushInv'
<1>1. /\ repo' = [repo EXCEPT ![r] = "deleted"]
      /\ commit' = [commit EXCEPT ![r] = [c \in Shas |-> "none"]]
      /\ UNCHANGED <<desk, answered, origin>>
  BY DEF deleteRepo, DeleteRepo
<1>2. TypeInv /\ BranchInv
  BY DEF PushInv
<1>3. /\ \A q \in Repos : repo'[q] = IF q = r THEN "deleted" ELSE repo[q]
      /\ \A q \in Repos \ {r} : commit'[q] = commit[q]
      /\ \A c \in Shas : commit'[r][c] = "none"
  BY <1>1, <1>2 DEF TypeInv
<1>4. commit' = [q \in Repos |-> [c \in Shas |-> commit'[q][c]]]
  BY <1>1, <1>2 DEF TypeInv
<1>5. TypeInv'
  BY <1>1, <1>2, <1>4 DEF TypeInv
<1>6. BranchInv'
  BY <1>1, <1>2, <1>3 DEF BranchInv
<1> QED
  BY <1>1, <1>3, <1>5, <1>6, TablesStep

LEMMA WebhookStep ==
  ASSUME PushInv, NEW h \in Handlers, NEW p \in Pushes, Webhook(h, p)
  PROVE  PushInv'
<1>1. PICK d : d = [at |-> "push", push |-> p, rest |-> p.shas]
  OBVIOUS
<1>2. /\ desk' = [desk EXCEPT ![h] = d]
      /\ UNCHANGED <<repo, commit, answered, origin>>
      /\ repo[p.repo] = "present"
  BY <1>1 DEF Webhook, GetRepoByToken
<1>3. p.shas \in Seq(Shas \cup {"none"}) /\ Len(p.shas) \in Nat
  BY PushesAssumption
<1>4. Posted(d) = 0 /\ d.push = p
  BY <1>1, <1>3 DEF Posted
<1>5. OfPush(d)
  BY <1>1, <1>3, <1>4 DEF OfPush
<1>6. 0 \in Kept[p] /\ Kept' = Kept
  BY <1>2 DEF Kept
<1>7. DeskInv'
  BY <1>2, <1>4, <1>5, <1>6 DEF PushInv, TypeInv, DeskInv
<1>8. TypeInv' /\ BranchInv' /\ AnsweredInv'
  BY <1>2, <1>6 DEF PushInv, TypeInv, BranchInv, AnsweredInv
<1> QED
  BY <1>7, <1>8 DEF PushInv

(* One commit further, the commit stored if it has an id.                  *)
LEMMA Advances ==
  ASSUME PushInv, NEW h \in Handlers, Step(h),
         desk[h].at = "push", desk[h].rest # <<>>, UNCHANGED <<repo, answered>>,
         TypeInv', BranchInv',
         \A r \in Repos : \A c \in Shas : commit[r][c] # "none" => commit'[r][c] # "none",
         Head(desk[h].rest) # "none" => commit'[desk[h].push.repo][Head(desk[h].rest)] # "none"
  PROVE  PushInv'
<1>1. PICK d : d = desk[h]
  OBVIOUS
<1>2. PICK n : n = [d EXCEPT !.rest = Tail(d.rest)]
  OBVIOUS
<1>3. OfPush(d) /\ repo[d.push.repo] # "unused" /\ Posted(d) \in Kept[d.push]
  BY <1>1 DEF PushInv, DeskInv, Idle
<1>4. /\ d.push \in Pushes /\ d.push.repo \in Repos
      /\ d.push.shas \in Seq(Shas \cup {"none"}) /\ Len(d.push.shas) \in Nat
      /\ Posted(d) \in 0 .. Len(d.push.shas)
  BY <1>3, InRange
<1>5. n.push = d.push /\ n.rest = Tail(d.rest) /\ n.at = "push" /\ DOMAIN n = {"at", "push", "rest"}
  BY <1>2, <1>3 DEF OfPush
<1>6. d.rest \in Seq(Shas \cup {"none"}) /\ d.rest # <<>>
  BY <1>1, <1>3 DEF OfPush
<1>7. /\ Len(d.rest) \in Nat \ {0}
      /\ Tail(d.rest) \in Seq(Shas \cup {"none"})
      /\ Len(Tail(d.rest)) = Len(d.rest) - 1
      /\ \A i \in 1 .. Len(d.rest) - 1 : Tail(d.rest)[i] = d.rest[i + 1]
      /\ Head(d.rest) = d.rest[1]
  BY <1>6
<1>8. Posted(n) = Posted(d) + 1
  <2>1. Len(n.push.shas) = Len(d.push.shas) /\ Len(n.rest) = Len(d.rest) - 1
    BY <1>5, <1>7
  <2>2. Len(d.push.shas) \in Nat /\ Len(d.rest) \in Nat
    BY <1>4, <1>7
  <2> QED
    BY <2>1, <2>2 DEF Posted
<1>9. \A i \in 1 .. Len(d.rest) : d.rest[i] = d.push.shas[Posted(d) + i]
  BY <1>3 DEF OfPush
<1>10. OfPush(n)
  <2>1. ASSUME NEW i \in 1 .. Len(n.rest) PROVE n.rest[i] = n.push.shas[Posted(n) + i]
    <3>1. i \in 1 .. Len(d.rest) - 1 /\ i + 1 \in 1 .. Len(d.rest)
      BY <1>5, <1>7
    <3>2. n.rest[i] = d.rest[i + 1]
      BY <1>5, <1>7, <3>1
    <3>3. d.rest[i + 1] = d.push.shas[Posted(d) + (i + 1)]
      BY <1>9, <3>1
    <3>4. Posted(d) + (i + 1) = Posted(n) + i
      BY <1>4, <1>8
    <3> QED
      BY <1>5, <3>2, <3>3, <3>4
  <2>2. Posted(n) \in Nat
    BY <1>4, <1>8
  <2> QED
    BY <1>4, <1>5, <1>7, <2>1, <2>2 DEF OfPush
<1>11. /\ \A r \in Repos : repo[r] # "unused" => repo'[r] # "unused"
       /\ \A p \in Pushes : \A m \in 0 .. Len(p.shas) :
            repo[p.repo] # "unused" /\ m \in Kept[p] => m \in Kept'[p]
  BY KeptGrows
<1>12. Posted(n) \in Kept'[n.push]
  <2>1. Posted(d) \in Kept'[d.push]
    BY <1>3, <1>4, <1>11
  <2>2. d.push.shas[Posted(d) + 1] = Head(d.rest)
    BY <1>7, <1>9
  <2>3. Head(d.rest) # "none" => commit'[d.push.repo][Head(d.rest)] # "none"
    BY <1>1
  <2>4. Posted(d) \in Nat
    BY <1>4
  <2>5. repo'[d.push.repo] = "present" =>
          \A i \in 1 .. Posted(d) : d.push.shas[i] # "none" => commit'[d.push.repo][d.push.shas[i]] # "none"
    BY <1>4, <2>1 DEF Kept
  <2>6. repo'[d.push.repo] = "present" =>
          \A i \in 1 .. Posted(d) + 1 : d.push.shas[i] # "none" => commit'[d.push.repo][d.push.shas[i]] # "none"
    BY <2>2, <2>3, <2>4, <2>5
  <2> QED
    BY <1>4, <1>5, <1>8, <2>4, <2>6 DEF Kept
<1>13. \A g \in Handlers : desk'[g] = IF g = h THEN n ELSE desk[g]
  BY <1>1, <1>2 DEF Step, PushInv, TypeInv
<1>14. DeskInv'
  <2>1. ASSUME NEW g \in Handlers, g # h
        PROVE  \/ desk'[g] = Idle
               \/ /\ OfPush(desk'[g]) /\ repo'[desk'[g].push.repo] # "unused"
                  /\ Posted(desk'[g]) \in Kept'[desk'[g].push]
    BY <1>11, <1>13, <2>1, InRange DEF PushInv, DeskInv
  <2>2. OfPush(desk'[h]) /\ repo'[desk'[h].push.repo] # "unused" /\ Posted(desk'[h]) \in Kept'[desk'[h].push]
    BY <1>3, <1>5, <1>10, <1>12, <1>13
  <2> QED
    BY <2>1, <2>2 DEF DeskInv
<1>15. AnsweredInv'
  BY <1>11, Whole DEF PushInv, AnsweredInv, TypeInv
<1> QED
  BY <1>14, <1>15 DEF PushInv

LEMMA PassStep ==
  ASSUME PushInv, NEW h \in Handlers, passesOver(h)
  PROVE  PushInv'
<1>1. /\ Step(h) /\ UNCHANGED <<repo, commit, answered, origin>>
      /\ desk[h].at = "push" /\ desk[h].rest # <<>> /\ Head(desk[h].rest) = "none"
  BY DEF passesOver
<1>2. TypeInv'
  BY <1>1 DEF Step, PushInv, TypeInv
<1>3. BranchInv'
  BY <1>1 DEF PushInv, BranchInv
<1> QED
  BY <1>1, <1>2, <1>3, Advances

LEMMA IngestStep ==
  ASSUME PushInv, NEW h \in Handlers, ingests(h)
  PROVE  PushInv'
<1>1. PICK r, c, b : r = desk[h].push.repo /\ c = Head(desk[h].rest) /\ b = desk[h].push.branch
  OBVIOUS
<1>2. /\ Step(h) /\ UNCHANGED <<repo, answered>> /\ repo[r] = "present"
      /\ desk[h].at = "push" /\ desk[h].rest # <<>> /\ c # "none"
      /\ commit' = [commit EXCEPT ![r][c] = IF @ = "none" THEN b ELSE @]
      /\ origin' = [origin EXCEPT ![r][c] = IF @ = "none" THEN b ELSE @]
  BY <1>1 DEF ingests, InsertCommit
<1>3. r \in Repos /\ c \in Shas /\ b # "none"
  <2>1. OfPush(desk[h])
    BY <1>2 DEF PushInv, DeskInv, Idle
  <2>2. Head(desk[h].rest) \in Shas \cup {"none"}
    BY <1>2, <2>1 DEF OfPush
  <2> QED
    BY <1>1, <1>2, <2>1, <2>2, PushesAssumption DEF OfPush
<1>4. TypeInv /\ BranchInv
  BY DEF PushInv
<1>5. \A q \in Repos, k \in Shas :
        /\ commit'[q][k] = IF q = r /\ k = c /\ commit[q][k] = "none" THEN b ELSE commit[q][k]
        /\ origin'[q][k] = IF q = r /\ k = c /\ origin[q][k] = "none" THEN b ELSE origin[q][k]
  BY <1>2, <1>3, <1>4 DEF TypeInv
<1>6. TypeInv'
  <2>1. commit' = [q \in Repos |-> [k \in Shas |-> commit'[q][k]]]
    BY <1>2, <1>3, <1>4 DEF TypeInv
  <2>2. origin' = [q \in Repos |-> [k \in Shas |-> origin'[q][k]]]
    BY <1>2, <1>3, <1>4 DEF TypeInv
  <2> QED
    BY <1>2, <1>4, <2>1, <2>2 DEF Step, TypeInv
<1>7. BranchInv'
  BY <1>2, <1>3, <1>4, <1>5 DEF BranchInv
<1>8. /\ \A q \in Repos : \A k \in Shas : commit[q][k] # "none" => commit'[q][k] # "none"
      /\ commit'[r][c] # "none"
  BY <1>3, <1>5
<1>9. Head(desk[h].rest) # "none" => commit'[desk[h].push.repo][Head(desk[h].rest)] # "none"
  BY <1>1, <1>8
<1> QED
  BY <1>2, <1>6, <1>7, <1>8, <1>9, Advances

LEMMA EndStep ==
  ASSUME PushInv, NEW h \in Handlers,
         answers(h) \/ (fails(h) /\ UNCHANGED <<repo, commit, answered, origin, posts>>)
  PROVE  PushInv'
<1>1. desk' = [desk EXCEPT ![h] = Idle] /\ UNCHANGED <<repo, commit, origin>>
  BY DEF answers, fails
<1>2. Kept' = Kept
  BY <1>1 DEF Kept
<1>3. DeskInv'
  BY <1>1, <1>2 DEF PushInv, TypeInv, DeskInv
<1>4. answered' \subseteq Pushes /\ AnsweredInv'
  <2>1. CASE answers(h)
    <3>1. OfPush(desk[h]) /\ repo[desk[h].push.repo] # "unused" /\ Posted(desk[h]) \in Kept[desk[h].push]
      BY <2>1 DEF answers, PushInv, DeskInv, Idle
    <3>2. Posted(desk[h]) = Len(desk[h].push.shas) /\ desk[h].push \in Pushes
      <4>1. Len(desk[h].rest) = 0
        BY <2>1 DEF answers
      <4>2. Len(desk[h].push.shas) \in Nat /\ desk[h].push \in Pushes
        BY <3>1, InRange
      <4> QED
        BY <4>1, <4>2 DEF Posted
    <3>3. answered' = answered \cup {desk[h].push}
      BY <2>1 DEF answers
    <3> QED
      BY <1>1, <1>2, <3>1, <3>2, <3>3 DEF PushInv, TypeInv, AnsweredInv
  <2>2. CASE UNCHANGED answered
    BY <1>1, <1>2, <2>2 DEF PushInv, TypeInv, AnsweredInv
  <2> QED
    BY <2>1, <2>2
<1>5. TypeInv' /\ BranchInv'
  BY <1>1, <1>4 DEF PushInv, TypeInv, BranchInv
<1> QED
  BY <1>3, <1>4, <1>5 DEF PushInv

(* What was acknowledged is stored (git.go:218-267), whatever pushes cross,*)
(* fail and are posted again.                                              *)
THEOREM AcknowledgedIsStored == Spec => []PushAcknowledged
<1>1. Init => PushInv
  BY Initially
<1>2. PushInv /\ [Next]_vars => PushInv'
  <2>1. ASSUME PushInv, UNCHANGED vars PROVE PushInv'
    <3>1. Kept' = Kept
      BY <2>1 DEF vars, Kept
    <3> QED
      BY <2>1, <3>1 DEF vars, PushInv, TypeInv, BranchInv, DeskInv, AnsweredInv
  <2> QED
    BY <2>1, CreateRepoStep, DeleteRepoStep, WebhookStep, PassStep, IngestStep, EndStep DEF Next
<1>3. PushInv => PushAcknowledged
  <2> SUFFICES ASSUME PushInv PROVE PushAcknowledged
    OBVIOUS
  <2>1. \A p \in answered : \A i \in DOMAIN p.shas :
          repo[p.repo] = "present" /\ p.shas[i] # "none" => commit[p.repo][p.shas[i]] # "none"
    <3> SUFFICES ASSUME NEW p \in answered, NEW i \in DOMAIN p.shas, repo[p.repo] = "present", p.shas[i] # "none"
                 PROVE  commit[p.repo][p.shas[i]] # "none"
      OBVIOUS
    <3>1. p \in Pushes /\ Len(p.shas) \in Kept[p]
      BY DEF PushInv, TypeInv, AnsweredInv
    <3>2. i \in 1 .. Len(p.shas)
      BY <3>1, PushesAssumption
    <3> QED
      BY <3>1, <3>2 DEF Kept
  <2>2. \A r \in Repos, c \in Shas :
          commit[r][c] # "none" => repo[r] = "present" /\ commit[r][c] = origin[r][c]
    BY DEF PushInv, BranchInv
  <2> QED
    BY <2>1, <2>2 DEF PushAcknowledged
<1> QED
  BY <1>1, <1>2, <1>3, PTL DEF Spec

-----------------------------------------------------------------------------
(***************************************************************************)
(* Webhooks.  An end point that the goroutine of an event has still to     *)
(* list has wanted the event if it wants it now, and wants it now if it    *)
(* has wanted it all along; once listed it is to be told or was told, once.*)
(***************************************************************************)
Stations == {"unused", "listHooks", "postHooks", "listProviders", "postProviders", "done", "lost"}

CourierShape(e) ==
  LET c == courier[e] IN
  /\ c.at \in Stations
  /\ c.at \notin {"unused", "lost"} => DOMAIN c = {"at", "kind", "rest"}
  /\ c.at \in {"listHooks", "listProviders", "done"} => c.rest = {}
  /\ c.at = "postHooks" => c.rest \subseteq Hooks
  /\ c.at = "postProviders" => c.rest \subseteq Providers

Wants(e, x)  == x \in Wh!Wanting(courier[e].kind, hook, integration)
ToTell(e, x) == courier[e].at \in {"postHooks", "postProviders"} /\ x \in courier[e].rest

TellsOf(e, x) ==
  /\ tried[e][x] \in {0, 1}
  /\ tried[e][x] = 1 => x \in ever[e]
  /\ courier[e].at = "unused" => tried[e][x] = 0
  /\ x \in Wh!Open(e) => /\ tried[e][x] = 0
                         /\ Wants(e, x) => x \in ever[e]
                         /\ x \in always[e] => Wants(e, x)
  /\ ToTell(e, x) => tried[e][x] = 0 /\ x \in ever[e]
  /\ courier[e].at \notin {"unused", "lost"} /\ x \notin Wh!Open(e) /\ x \in always[e]
       => ToTell(e, x) \/ tried[e][x] = 1

WebhooksTyped ==
  /\ courier = [e \in Events |-> courier[e]]
  /\ tried = [e \in Events |-> [x \in Wh!Endpoints |-> tried[e][x]]]
  /\ ever = [e \in Events |-> ever[e]] /\ always = [e \in Events |-> always[e]]

WebhooksInv ==
  /\ WebhooksTyped
  /\ \A e \in Events : CourierShape(e)
  /\ \A e \in Events, x \in Wh!Endpoints : TellsOf(e, x)

LEMMA OpenIs ==
  ASSUME NEW e
  PROVE  Wh!Open(e) = IF courier[e].at = "listHooks" THEN Wh!Endpoints
                      ELSE IF courier[e].at \in {"postHooks", "listProviders"} THEN Providers ELSE {}
BY DEF Wh!Open

(* Whatever an administrator does.                                         *)
LEMMA EditKeeps ==
  ASSUME WebhooksInv, Wh!Edit
  PROVE  WebhooksInv'
<1>1. /\ ever' = [e \in Events |-> IF Wh!Open(e) = {} THEN ever[e]
            ELSE ever[e] \cup (Wh!Open(e) \cap Wh!Wanting(courier[e].kind, hook', integration'))]
      /\ always' = [e \in Events |-> IF Wh!Open(e) = {} THEN always[e]
            ELSE always[e] \ (Wh!Open(e) \ Wh!Wanting(courier[e].kind, hook', integration'))]
      /\ UNCHANGED <<courier, tried>>
  BY DEF Wh!Edit
<1>2. WebhooksTyped' /\ \A e \in Events : CourierShape(e)'
  BY <1>1 DEF WebhooksInv, WebhooksTyped, CourierShape
<1>3. ASSUME NEW e \in Events, NEW x \in Wh!Endpoints PROVE TellsOf(e, x)'
  <2> DEFINE wanting == Wh!Wanting(courier[e].kind, hook', integration')
             open == Wh!Open(e)
  <2>1. open' = open /\ ToTell(e, x)' = ToTell(e, x) /\ Wants(e, x)' = (x \in wanting)
    BY <1>1 DEF Wh!Open, ToTell, Wants
  <2>2. TellsOf(e, x)
    BY DEF WebhooksInv
  <2> HIDE DEF wanting, open
  <2>3. /\ ever'[e] = IF open = {} THEN ever[e] ELSE ever[e] \cup (open \cap wanting)
        /\ always'[e] = IF open = {} THEN always[e] ELSE always[e] \ (open \ wanting)
    BY <1>1 DEF wanting, open
  <2>4. CASE x \in open
    BY <1>1, <2>1, <2>2, <2>3, <2>4 DEF TellsOf, open
  <2>5. CASE x \notin open
    BY <1>1, <2>1, <2>2, <2>3, <2>5 DEF TellsOf, open
  <2> QED
    BY <2>4, <2>5
<1> QED
  BY <1>2, <1>3 DEF WebhooksInv

(* A step of one goroutine, which moves on as d.                           *)
LEMMA GoroutineStep ==
  ASSUME WebhooksInv, UNCHANGED <<hook, integration>>, NEW e \in Events,
         WebhooksTyped', \A d \in Events \ {e} : /\ courier'[d] = courier[d] /\ tried'[d] = tried[d]
                                                 /\ ever'[d] = ever[d] /\ always'[d] = always[d],
         CourierShape(e)', \A x \in Wh!Endpoints : TellsOf(e, x)'
  PROVE  WebhooksInv'
<1>1. ASSUME NEW d \in Events, d # e PROVE CourierShape(d)' /\ \A x \in Wh!Endpoints : TellsOf(d, x)'
  BY <1>1 DEF WebhooksInv, CourierShape, TellsOf, Wants, ToTell, Wh!Open
<1> QED
  BY <1>1 DEF WebhooksInv

-----------------------------------------------------------------------------
LEMMA DispatchStep ==
  ASSUME WebhooksInv, NEW e \in Events, Wh!dispatchTaskEvent(e)
  PROVE  WebhooksInv'
<1>1. PICK kind \in Kinds :
        /\ courier' = [courier EXCEPT ![e] = [at |-> "listHooks", kind |-> kind, rest |-> {}]]
        /\ ever' = [ever EXCEPT ![e] = Wh!Wanting(kind, hook, integration)]
        /\ always' = [always EXCEPT ![e] = Wh!Wanting(kind, hook, integration)]
        /\ UNCHANGED <<hook, integration, tried>> /\ courier[e] = Wh!Quiet
  BY DEF Wh!dispatchTaskEvent
<1> DEFINE c == [at |-> "listHooks", kind |-> kind, rest |-> {}]
           wanting == Wh!Wanting(kind, hook, integration)
<1>2. c.at = "listHooks" /\ c.kind = kind /\ c.rest = {} /\ DOMAIN c = {"at", "kind", "rest"}
  OBVIOUS
<1> HIDE DEF c, wanting
<1>3. courier'[e] = c /\ ever'[e] = wanting /\ always'[e] = wanting /\ courier[e].at = "unused"
  BY <1>1 DEF WebhooksInv, WebhooksTyped, Wh!Quiet, c, wanting
<1>4. WebhooksTyped'
  BY <1>1 DEF WebhooksInv, WebhooksTyped
<1>5. CourierShape(e)'
  BY <1>2, <1>3 DEF CourierShape, Stations
<1>6. ASSUME NEW x \in Wh!Endpoints PROVE TellsOf(e, x)'
  <2>1. tried'[e][x] = 0
    BY <1>1, <1>3 DEF WebhooksInv, TellsOf
  <2>2. Wants(e, x)' <=> x \in wanting
    BY <1>1, <1>2, <1>3 DEF Wants, wanting
  <2>3. x \in Wh!Open(e)' /\ ~ToTell(e, x)'
    BY <1>2, <1>3 DEF Wh!Open, ToTell
  <2> QED
    BY <1>2, <1>3, <2>1, <2>2, <2>3 DEF TellsOf
<1>7. \A d \in Events \ {e} : /\ courier'[d] = courier[d] /\ tried'[d] = tried[d]
                              /\ ever'[d] = ever[d] /\ always'[d] = always[d]
  BY <1>1 DEF WebhooksInv, WebhooksTyped
<1> QED
  BY <1>1, <1>4, <1>5, <1>6, <1>7, GoroutineStep

(* The goroutine of e is now at station s and has the end points of r to   *)
(* tell.                                                                   *)
LEMMA Moved ==
  ASSUME WebhooksInv, NEW e \in Events, NEW s \in Stations \ {"unused", "lost"}, NEW r,
         courier[e].at \notin {"unused", "lost"}, Wh!Moves(e, s, r),
         s \in {"listHooks", "listProviders", "done"} => r = {},
         s = "postHooks" => r \subseteq Hooks, s = "postProviders" => r \subseteq Providers
  PROVE  /\ courier'[e].at = s /\ courier'[e].rest = r /\ courier'[e].kind = courier[e].kind
         /\ CourierShape(e)' /\ courier' = [d \in Events |-> courier'[d]]
         /\ \A d \in Events \ {e} : courier'[d] = courier[d]
<1>1. courier' = [courier EXCEPT ![e].at = s, ![e].rest = r]
  BY DEF Wh!Moves
<1>2. courier = [d \in Events |-> courier[d]] /\ DOMAIN courier[e] = {"at", "kind", "rest"}
  BY DEF WebhooksInv, WebhooksTyped, CourierShape
<1>3. courier'[e] = [[courier[e] EXCEPT !.at = s] EXCEPT !.rest = r]
  BY <1>1, <1>2
<1>4. /\ courier'[e].at = s /\ courier'[e].rest = r /\ courier'[e].kind = courier[e].kind
      /\ DOMAIN courier'[e] = {"at", "kind", "rest"}
  BY <1>2, <1>3
<1>5. CourierShape(e)'
  BY <1>4 DEF CourierShape
<1> QED
  BY <1>1, <1>2, <1>4, <1>5

LEMMA WantingIs ==
  ASSUME NEW kind
  PROVE  /\ Wh!Wanting(kind, hook, integration) \cap Hooks = {x \in Wh!ListActiveWebhooks : Wh!subscribed(x, kind)}
         /\ Wh!Wanting(kind, hook, integration) \cap Providers = {p \in Wh!ListConnectedByProvider : Wh!HasUrl(p)}
<1>1. ASSUME NEW x \in Hooks, hook[x].active PROVE Wh!Present(x)
  BY <1>1 DEF Wh!Present, Wh!Unused, Wh!Deleted
<1>2. \A x : ~(x \in Hooks /\ x \in Providers)
  BY OfficeAssumption
<1> QED
  BY <1>1, <1>2 DEF Wh!Wanting, Wh!ListActiveWebhooks, Wh!subscribed, Wh!ListConnectedByProvider, Wh!HasUrl

(* A list is read.                                                         *)
LEMMA DeliverStep ==
  ASSUME WebhooksInv, NEW e \in Events, Wh!deliver(e)
  PROVE  WebhooksInv'
<1>1. PICK L, s : \/ courier[e].at = "listHooks" /\ L = Hooks /\ s = "postHooks"
                  \/ courier[e].at = "listProviders" /\ L = Providers /\ s = "postProviders"
  BY DEF Wh!deliver
<1> DEFINE r == Wh!Wanting(courier[e].kind, hook, integration) \cap L
<1>2. Wh!Moves(e, s, r) /\ UNCHANGED <<hook, integration, tried, ever, always>>
  BY <1>1, WantingIs DEF Wh!deliver
<1>3. \A x : x \in r <=> Wants(e, x) /\ x \in L
  BY DEF Wants
<1> HIDE DEF r
<1>4. r \subseteq L /\ s \in Stations \ {"unused", "lost"} /\ s \notin {"listHooks", "listProviders", "done"}
  BY <1>1, <1>3 DEF Stations
<1>5. courier[e].at \notin {"unused", "lost"}
  BY <1>1
<1>6. /\ courier'[e].at = s /\ courier'[e].rest = r /\ courier'[e].kind = courier[e].kind
      /\ CourierShape(e)' /\ courier' = [d \in Events |-> courier'[d]]
      /\ \A d \in Events \ {e} : courier'[d] = courier[d]
  BY <1>1, <1>2, <1>4, <1>5, Moved
<1>7. ASSUME NEW x \in Wh!Endpoints PROVE TellsOf(e, x)'
  <2>1. TellsOf(e, x)
    BY DEF WebhooksInv
  <2>2. /\ x \in L => x \in Wh!Open(e)
        /\ x \in Wh!Open(e)' <=> x \in Wh!Open(e) /\ x \notin L
    BY <1>1, <1>6, OpenIs, OfficeAssumption DEF Wh!Open, Wh!Endpoints
  <2>3. (Wants(e, x)' <=> Wants(e, x)) /\ ~ToTell(e, x) /\ (ToTell(e, x)' <=> x \in r)
    BY <1>1, <1>2, <1>6 DEF Wants, ToTell
  <2> HIDE DEF Wants
  <2> QED
    BY <1>1, <1>2, <1>3, <1>6, <2>1, <2>2, <2>3 DEF TellsOf
<1>8. WebhooksTyped'
  BY <1>2, <1>6 DEF WebhooksInv, WebhooksTyped
<1> QED
  BY <1>2, <1>6, <1>7, <1>8, GoroutineStep

(* A list that fails.                                                      *)
LEMMA SkipStep ==
  ASSUME WebhooksInv, NEW e \in Events, Wh!skips(e)
  PROVE  WebhooksInv'
<1>1. PICK L, s : \/ courier[e].at = "listHooks" /\ L = Hooks /\ s = "listProviders"
                  \/ courier[e].at = "listProviders" /\ L = Providers /\ s = "done"
  BY DEF Wh!skips
<1>2. /\ Wh!Moves(e, s, {}) /\ always' = [always EXCEPT ![e] = @ \ L]
      /\ UNCHANGED <<hook, integration, tried, ever>>
  BY <1>1 DEF Wh!skips
<1>3. s \in Stations \ {"unused", "lost"} /\ courier[e].at \notin {"unused", "lost"}
  BY <1>1 DEF Stations
<1>4. /\ courier'[e].at = s /\ courier'[e].rest = {} /\ courier'[e].kind = courier[e].kind
      /\ CourierShape(e)' /\ courier' = [d \in Events |-> courier'[d]]
      /\ \A d \in Events \ {e} : courier'[d] = courier[d]
  BY <1>2, <1>3, Moved
<1>5. /\ always'[e] = always[e] \ L /\ always' = [d \in Events |-> always'[d]]
      /\ \A d \in Events \ {e} : always'[d] = always[d]
  BY <1>2 DEF WebhooksInv, WebhooksTyped
<1>6. ASSUME NEW x \in Wh!Endpoints PROVE TellsOf(e, x)'
  <2>1. TellsOf(e, x)
    BY DEF WebhooksInv
  <2>2. /\ x \in L => x \in Wh!Open(e)
        /\ x \in Wh!Open(e)' <=> x \in Wh!Open(e) /\ x \notin L
    BY <1>1, <1>4, OpenIs, OfficeAssumption DEF Wh!Open, Wh!Endpoints
  <2>3. (Wants(e, x)' <=> Wants(e, x)) /\ ~ToTell(e, x) /\ ~ToTell(e, x)'
    BY <1>1, <1>2, <1>4 DEF Wants, ToTell
  <2> QED
    BY <1>1, <1>2, <1>4, <1>5, <2>1, <2>2, <2>3 DEF TellsOf
<1>7. WebhooksTyped'
  BY <1>2, <1>4, <1>5 DEF WebhooksInv, WebhooksTyped
<1> QED
  BY <1>2, <1>4, <1>5, <1>6, <1>7, GoroutineStep

LEMMA PostStep ==
  ASSUME WebhooksInv, NEW e \in Events, Wh!deliverTo(e)
  PROVE  WebhooksInv'
<1>1. courier[e].at \in {"postHooks", "postProviders"}
  BY DEF Wh!deliverTo
<1>2. PICK y \in courier[e].rest :
        /\ Wh!postJSON(e, y) /\ Wh!Moves(e, courier[e].at, courier[e].rest \ {y})
        /\ UNCHANGED <<hook, integration, ever, always>>
  BY DEF Wh!deliverTo
<1>3. y \in Wh!Endpoints /\ ToTell(e, y) /\ CourierShape(e) /\ WebhooksTyped
  BY <1>1, <1>2 DEF WebhooksInv, CourierShape, ToTell, Wh!Endpoints
<1>4. /\ courier'[e].at = courier[e].at /\ courier'[e].rest = courier[e].rest \ {y}
      /\ courier'[e].kind = courier[e].kind
      /\ CourierShape(e)' /\ courier' = [d \in Events |-> courier'[d]]
      /\ \A d \in Events \ {e} : courier'[d] = courier[d]
  <2> DEFINE s == courier[e].at  r == courier[e].rest \ {y}
  <2>1. s \in Stations \ {"unused", "lost"} /\ s \notin {"unused", "lost", "listHooks", "listProviders", "done"}
    BY <1>1 DEF Stations
  <2>2. (s = "postHooks" => r \subseteq Hooks) /\ (s = "postProviders" => r \subseteq Providers)
    BY <1>3 DEF CourierShape
  <2>3. Wh!Moves(e, s, r)
    BY <1>2
  <2> QED
    BY <2>1, <2>2, <2>3, Moved
<1>5. /\ \A x \in Wh!Endpoints : tried'[e][x] = IF x = y THEN tried[e][x] + 1 ELSE tried[e][x]
      /\ tried' = [d \in Events |-> [x \in Wh!Endpoints |-> tried'[d][x]]]
      /\ \A d \in Events \ {e} : tried'[d] = tried[d]
  BY <1>2, <1>3 DEF Wh!postJSON, WebhooksTyped
<1>6. ASSUME NEW x \in Wh!Endpoints PROVE TellsOf(e, x)'
  <2>1. TellsOf(e, x)
    BY DEF WebhooksInv
  <2>2. /\ Wants(e, x)' <=> Wants(e, x)
        /\ x \in Wh!Open(e)' <=> x \in Wh!Open(e)
        /\ ToTell(e, x)' <=> ToTell(e, x) /\ x # y
    BY <1>1, <1>2, <1>4 DEF Wants, ToTell, Wh!Open
  <2>3. ever'[e] = ever[e] /\ always'[e] = always[e] /\ courier'[e].at = courier[e].at
    BY <1>2, <1>4
  <2>4. CASE x # y
    <3>1. tried'[e][x] = tried[e][x]
      BY <1>5, <2>4
    <3> QED
      BY <2>1, <2>2, <2>3, <2>4, <3>1 DEF TellsOf
  <2>5. CASE x = y
    <3>1. tried[e][x] = 0 /\ x \in ever[e] /\ x \notin Wh!Open(e)
      <4>1. tried[e][x] = 0 /\ x \in ever[e]
        BY <1>3, <2>1, <2>5 DEF TellsOf
      <4>2. x \notin Wh!Open(e)
        BY <1>1, <1>2, <1>3, <2>5, OpenIs, OfficeAssumption DEF CourierShape
      <4> QED
        BY <4>1, <4>2
    <3>2. tried'[e][x] = 1
      BY <1>5, <2>5, <3>1
    <3> QED
      BY <1>1, <2>2, <2>3, <2>5, <3>1, <3>2 DEF TellsOf
  <2> QED
    BY <2>4, <2>5
<1>7. WebhooksTyped'
  BY <1>2, <1>3, <1>4, <1>5 DEF WebhooksTyped
<1> QED
  BY <1>2, <1>4, <1>5, <1>6, <1>7, GoroutineStep

LEMMA PassOnStep ==
  ASSUME WebhooksInv, NEW e \in Events, Wh!passes(e)
  PROVE  WebhooksInv'
<1>1. PICK s : \/ courier[e].at = "postHooks" /\ s = "listProviders"
               \/ courier[e].at = "postProviders" /\ s = "done"
  BY DEF Wh!passes
<1>2. Wh!Moves(e, s, {}) /\ courier[e].rest = {} /\ UNCHANGED <<hook, integration, tried, ever, always>>
  BY <1>1 DEF Wh!passes
<1>3. s \in Stations \ {"unused", "lost"} /\ courier[e].at \notin {"unused", "lost"}
  BY <1>1 DEF Stations
<1>4. /\ courier'[e].at = s /\ courier'[e].rest = {} /\ courier'[e].kind = courier[e].kind
      /\ CourierShape(e)' /\ courier' = [d \in Events |-> courier'[d]]
      /\ \A d \in Events \ {e} : courier'[d] = courier[d]
  BY <1>2, <1>3, Moved
<1>5. ASSUME NEW x \in Wh!Endpoints PROVE TellsOf(e, x)'
  <2>1. TellsOf(e, x)
    BY DEF WebhooksInv
  <2>2. x \in Wh!Open(e)' <=> x \in Wh!Open(e)
    BY <1>1, <1>4 DEF Wh!Open
  <2>3. (Wants(e, x)' <=> Wants(e, x)) /\ ~ToTell(e, x) /\ ~ToTell(e, x)'
    BY <1>1, <1>2, <1>4 DEF Wants, ToTell
  <2> QED
    BY <1>1, <1>2, <1>4, <2>1, <2>2, <2>3 DEF TellsOf
<1>6. WebhooksTyped'
  BY <1>2, <1>4 DEF WebhooksInv, WebhooksTyped
<1> QED
  BY <1>2, <1>4, <1>5, <1>6, GoroutineStep

LEMMA ShutdownStep ==
  ASSUME WebhooksInv, Wh!Shutdown
  PROVE  WebhooksInv'
<1>1. /\ courier' = [e \in Events |-> IF courier[e].at \in {"unused", "done"} THEN courier[e] ELSE [at |-> "lost"]]
      /\ UNCHANGED <<hook, integration, tried, ever, always>>
  BY DEF Wh!Shutdown
<1>2. ASSUME NEW e \in Events PROVE CourierShape(e)' /\ \A x \in Wh!Endpoints : TellsOf(e, x)'
  <2>1. CourierShape(e) /\ \A x \in Wh!Endpoints : TellsOf(e, x)
    BY DEF WebhooksInv
  <2>2. CASE courier'[e] = courier[e]
    BY <1>1, <2>1, <2>2 DEF CourierShape, TellsOf, Wants, ToTell, Wh!Open
  <2>3. CASE courier'[e].at = "lost"
    BY <1>1, <2>1, <2>3 DEF CourierShape, TellsOf, ToTell, Wh!Open, Stations
  <2> QED
    BY <1>1, <2>2, <2>3
<1> QED
  BY <1>1, <1>2 DEF WebhooksInv, WebhooksTyped

(* An event is told once to whoever wanted it all along, and to nobody who *)
(* never did (integrations.go:444-489).                                    *)
THEOREM ToldAsSubscribed == Wh!Spec => []DeliveredAsSubscribed
<1>1. Wh!Init => WebhooksInv
  <2> SUFFICES ASSUME Wh!Init PROVE WebhooksInv
    OBVIOUS
  <2>1. \A e \in Events : courier[e].at = "unused" /\ \A x \in Wh!Endpoints : tried[e][x] = 0
    BY DEF Wh!Init, Wh!Quiet
  <2>2. \A e \in Events : CourierShape(e)
    BY <2>1 DEF CourierShape, Stations
  <2>3. \A e \in Events, x \in Wh!Endpoints : TellsOf(e, x)
    BY <2>1 DEF TellsOf, ToTell, Wh!Open
  <2> QED
    BY <2>2, <2>3 DEF Wh!Init, WebhooksInv, WebhooksTyped
<1>2. WebhooksInv /\ [Wh!Next]_(Wh!vars) => WebhooksInv'
  <2>1. ASSUME WebhooksInv, UNCHANGED Wh!vars PROVE WebhooksInv'
    BY <2>1 DEF Wh!vars, WebhooksInv, WebhooksTyped, CourierShape, TellsOf, Wants, ToTell, Wh!Open
  <2>2. ASSUME WebhooksInv, NEW x \in Hooks, Wh!createWebhook(x) \/ Wh!updateWebhook(x) \/ Wh!deleteWebhook(x)
        PROVE  WebhooksInv'
    BY <2>2, EditKeeps DEF Wh!createWebhook, Wh!updateWebhook, Wh!deleteWebhook
  <2>3. ASSUME WebhooksInv, NEW p \in Providers, Wh!connect(p) \/ Wh!disconnect(p)
        PROVE  WebhooksInv'
    BY <2>3, EditKeeps DEF Wh!connect, Wh!disconnect
  <2> QED
    BY <2>1, <2>2, <2>3, DispatchStep, DeliverStep, SkipStep, PostStep, PassOnStep, ShutdownStep DEF Wh!Next
<1>3. WebhooksInv => DeliveredAsSubscribed
  <2> SUFFICES ASSUME WebhooksInv, NEW e \in Events, NEW x \in Wh!Endpoints
               PROVE  /\ tried[e][x] <= 1
                      /\ tried[e][x] = 1 => x \in ever[e]
                      /\ courier[e].at = "done" /\ x \in always[e] => tried[e][x] = 1
    BY DEF DeliveredAsSubscribed, Wh!DeliveredAsSubscribed
  <2>1. TellsOf(e, x)
    BY DEF WebhooksInv
  <2>2. courier[e].at = "done" => x \notin Wh!Open(e) /\ ~ToTell(e, x)
    BY DEF Wh!Open, ToTell
  <2> QED
    BY <2>1, <2>2 DEF TellsOf
<1> QED
  BY <1>1, <1>2, <1>3, PTL DEF Wh!Spec

-----------------------------------------------------------------------------
(***************************************************************************)
(* Decisions.                                                              *)
(***************************************************************************)
Written(i) == /\ {"status", "user", "data"} \subseteq DOMAIN row[i]
              /\ row[i].status \notin {"unused", "deleted"}

DecisionsTyped ==
  /\ row = [i \in Dc!Item |-> row[i]] /\ \A i \in Dc!Item : Dc!Present(i) => Written(i)
  /\ knows = [i \in Dc!Item |-> knows[i]] /\ decided = [i \in Dc!Item |-> decided[i]]
  /\ screen = [u \in Dc!Users |-> [i \in Dc!Item |-> screen[u][i]]]
  /\ \A u \in Dc!Users, i \in Dc!Item : DOMAIN screen[u][i] = {"data", "current"}
  /\ counter = [h \in Handlers |-> counter[h]]
  /\ \A h \in Handlers : counter[h].at \in {"submit", "tell"} => counter[h].item \in Dc!Item

(* While the last decision on a row is being told, the row has its status; *)
(* once nobody tells of it, its requester knows.                           *)
TellerRight(h, i) ==
  counter[h].at = "tell" /\ counter[h].item = i /\ i \notin crossed
    => Dc!Present(i) /\ row[i].status = counter[h].status

Agreed(i) == \/ Dc!Present(i) /\ row[i].status = knows[i]
             \/ row[i] = Dc!Deleted /\ (knows[i] = "pending" \/ i[1] = "expense")

RequesterKnows(i) ==
  i \notin crossed \cup untold /\ knows[i] # "unused" /\ Dc!Telling(i) = {} => Agreed(i)

(* A screen that still stands shows the minutes of the sheet, and so did   *)
(* the one that an approval was made from.                                 *)
SheetShown(u) ==
  LET i == <<"sheet", u>> IN
  /\ \A v \in Dc!Users : screen[v][i].current => row[i].data = screen[v][i].data
  /\ row[i].status = "approved" /\ decided[i].current => row[i].data = decided[i].data

DecisionsInv ==
  /\ DecisionsTyped
  /\ \A h \in Handlers, i \in Dc!Item : TellerRight(h, i)
  /\ \A i \in Dc!Item : RequesterKnows(i)
  /\ \A u \in Dc!Users : SheetShown(u)

LEMMA SheetIsItem ==
  /\ \A u \in Dc!Users : <<"sheet", u>> \in Dc!Item /\ <<"sheet", u>>[1] = "sheet"
  /\ \A i \in Dc!Item : i[1] = "sheet" => \E u \in Dc!Users : i = <<"sheet", u>>
BY DEF Dc!Item

LEMMA IdleAt == Dc!Idle.at = "idle" /\ Dc!Unused.status = "unused" /\ Dc!Deleted.status = "deleted"
BY DEF Dc!Idle, Dc!Unused, Dc!Deleted

(* Nothing but row i, and those who tell of it, is touched.                *)
LEMMA OtherRows ==
  ASSUME DecisionsInv, NEW i \in Dc!Item, DecisionsTyped',
         \A j \in Dc!Item \ {i} : /\ row'[j] = row[j] /\ knows'[j] = knows[j]
                                  /\ (j \in crossed' <=> j \in crossed) /\ (j \in untold' <=> j \in untold),
         \A h \in Handlers : \/ counter'[h] = counter[h]
                             \/ /\ counter'[h].at = "tell" => counter'[h].item = i
                                /\ counter[h].at = "tell" => counter[h].item = i,
         \A h \in Handlers : TellerRight(h, i)', RequesterKnows(i)', \A u \in Dc!Users : SheetShown(u)'
  PROVE  DecisionsInv'
<1>1. ASSUME NEW j \in Dc!Item \ {i} PROVE (\A h \in Handlers : TellerRight(h, j)') /\ RequesterKnows(j)'
  <2>1. (Dc!Telling(j))' = Dc!Telling(j)
    BY <1>1 DEF Dc!Telling
  <2>2. RequesterKnows(j) /\ (Agreed(j)' <=> Agreed(j))
    BY <1>1 DEF DecisionsInv, Agreed, Dc!Present
  <2>3. RequesterKnows(j)'
    BY <1>1, <2>1, <2>2 DEF RequesterKnows
  <2>4. ASSUME NEW h \in Handlers PROVE TellerRight(h, j)'
    BY <1>1, <2>4 DEF DecisionsInv, TellerRight, Dc!Present
  <2> QED
    BY <2>3, <2>4
<1> QED
  BY <1>1 DEF DecisionsInv

LEMMA SheetsKept ==
  ASSUME DecisionsInv, UNCHANGED <<screen, decided>>,
         \A i \in Dc!Item : i[1] = "sheet" => row'[i] = row[i]
  PROVE  \A u \in Dc!Users : SheetShown(u)'
<1> SUFFICES ASSUME NEW u \in Dc!Users PROVE SheetShown(u)'
  OBVIOUS
<1>1. row'[<<"sheet", u>>] = row[<<"sheet", u>>] /\ SheetShown(u)
  BY SheetIsItem DEF DecisionsInv
<1> QED
  BY <1>1 DEF SheetShown

(* A row that is no sheet is written by a request of its requester.        *)
LEMMA OwnWrite ==
  ASSUME DecisionsInv, NEW i \in Dc!Item, i[1] # "sheet", NEW new, Dc!Write(i, new),
         \/ new = Dc!Deleted
         \/ {"status", "user", "data"} \subseteq DOMAIN new /\ new.status \notin {"unused", "deleted"},
         UNCHANGED <<counter, screen, decided, untold>>, NEW told, knows' = [knows EXCEPT ![i] = told],
         i \notin crossed \cup untold /\ told # "unused" /\ Dc!Telling(i) = {}
           => \/ new # Dc!Deleted /\ new.status = told
              \/ new = Dc!Deleted /\ (told = "pending" \/ i[1] = "expense")
  PROVE  DecisionsInv'
<1>1. /\ row' = [row EXCEPT ![i] = new]
      /\ crossed' = IF Dc!Telling(i) = {} THEN crossed ELSE crossed \cup {i}
  BY DEF Dc!Write
<1>2. /\ row'[i] = new /\ knows'[i] = told /\ row' = [j \in Dc!Item |-> row'[j]] /\ knows' = [j \in Dc!Item |-> knows'[j]]
      /\ \A j \in Dc!Item \ {i} : row'[j] = row[j] /\ knows'[j] = knows[j]
  BY <1>1 DEF DecisionsInv, DecisionsTyped
<1>3. DecisionsTyped'
  <2>1. ASSUME NEW j \in Dc!Item PROVE Dc!Present(j)' => Written(j)'
    <3>1. CASE j = i
      BY <1>2, <3>1 DEF Dc!Present, Written
    <3>2. CASE j # i
      <4>1. (Dc!Present(j)' <=> Dc!Present(j)) /\ (Written(j)' <=> Written(j))
        BY <1>2, <3>2 DEF Dc!Present, Written
      <4> QED
        BY <4>1 DEF DecisionsInv, DecisionsTyped
    <3> QED
      BY <3>1, <3>2
  <2> QED
    BY <1>2, <2>1 DEF DecisionsInv, DecisionsTyped
<1>4. ASSUME NEW h \in Handlers PROVE TellerRight(h, i)'
  BY <1>1, <1>4 DEF TellerRight, Dc!Telling
<1>5. RequesterKnows(i)'
  <2> SUFFICES ASSUME i \notin crossed' \cup untold', knows'[i] # "unused", (Dc!Telling(i))' = {} PROVE Agreed(i)'
    BY DEF RequesterKnows
  <2>1. Dc!Telling(i) = {} /\ i \notin crossed \cup untold
    BY <1>1 DEF Dc!Telling
  <2>2. new # Dc!Deleted => Dc!Present(i)'
    BY <1>2, IdleAt DEF Dc!Present
  <2> QED
    BY <1>2, <2>1, <2>2 DEF Agreed
<1>6. \A u \in Dc!Users : SheetShown(u)'
  BY <1>2, SheetsKept
<1> QED
  BY <1>1, <1>2, <1>3, <1>4, <1>5, <1>6, OtherRows

LEMMA OwnSteps ==
  ASSUME DecisionsInv, NEW s \in Sessions, NEW i \in Dc!Item,
         \/ Dc!createLeave(s, i) \/ Dc!cancelLeave(s, i) \/ Dc!requestApproval(s, i)
         \/ Dc!createExpense(s, i) \/ Dc!deleteExpense(i)
  PROVE  DecisionsInv'
<1>1. CASE Dc!createLeave(s, i)
  <2> DEFINE new == [status |-> "pending", user |-> s.user, data |-> 0]
  <2>1. {"status", "user", "data"} \subseteq DOMAIN new /\ new.status = "pending" /\ new # Dc!Deleted
    BY DEF Dc!Deleted
  <2>2. Dc!Write(i, new) /\ i[1] # "sheet" /\ knows' = [knows EXCEPT ![i] = "pending"] /\ UNCHANGED <<counter, screen, decided, untold>>
    BY <1>1 DEF Dc!createLeave, Dc!CreateLeave, Dc!Answered
  <2> HIDE DEF new
  <2> QED
    BY <2>1, <2>2, OwnWrite
<1>2. CASE Dc!cancelLeave(s, i)
  <2> DEFINE new == Dc!Deleted
  <2>1. /\ Dc!Write(i, new) /\ i[1] # "sheet" /\ row[i].status = "pending" /\ knows' = knows
        /\ UNCHANGED <<counter, screen, decided, untold>>
    BY <1>2 DEF Dc!cancelLeave, Dc!CancelLeave
  <2>2. PICK told : told = knows[i] /\ knows' = [knows EXCEPT ![i] = told]
    <3>1. knows = [knows EXCEPT ![i] = knows[i]]
      BY DEF DecisionsInv, DecisionsTyped
    <3> QED
      BY <2>1, <3>1
  <2>3. new = Dc!Deleted
    OBVIOUS
  <2> HIDE DEF new
  <2>4. i \notin crossed \cup untold /\ told # "unused" /\ Dc!Telling(i) = {} => told = "pending"
    BY <2>1, <2>2, IdleAt DEF DecisionsInv, RequesterKnows, Agreed
  <2> QED
    BY <2>1, <2>2, <2>3, <2>4, OwnWrite
<1>3. CASE Dc!requestApproval(s, i)
  <2>1. PICK approver \in Dc!Users : Dc!CreateApproval(i, s.user, approver)
    BY <1>3 DEF Dc!requestApproval
  <2> DEFINE new == [status |-> "pending", user |-> s.user, approver |-> approver, data |-> 0]
  <2>2. {"status", "user", "data"} \subseteq DOMAIN new /\ new.status = "pending" /\ new # Dc!Deleted
    BY DEF Dc!Deleted
  <2>3. Dc!Write(i, new) /\ i[1] # "sheet" /\ knows' = [knows EXCEPT ![i] = "pending"] /\ UNCHANGED <<counter, screen, decided, untold>>
    BY <1>3, <2>1 DEF Dc!requestApproval, Dc!CreateApproval, Dc!Answered
  <2> HIDE DEF new
  <2> QED
    BY <2>2, <2>3, OwnWrite
<1>4. CASE Dc!createExpense(s, i)
  <2>1. PICK cents \in Amounts : Dc!CreateExpense(i, s.user, cents)
    BY <1>4 DEF Dc!createExpense
  <2> DEFINE new == [status |-> "pending", user |-> s.user, data |-> cents]
  <2>2. {"status", "user", "data"} \subseteq DOMAIN new /\ new.status = "pending" /\ new # Dc!Deleted
    BY DEF Dc!Deleted
  <2>3. Dc!Write(i, new) /\ i[1] # "sheet" /\ knows' = [knows EXCEPT ![i] = "pending"] /\ UNCHANGED <<counter, screen, decided, untold>>
    BY <1>4, <2>1 DEF Dc!createExpense, Dc!CreateExpense, Dc!Answered
  <2> HIDE DEF new
  <2> QED
    BY <2>2, <2>3, OwnWrite
<1>5. CASE Dc!deleteExpense(i)
  <2> DEFINE new == Dc!Deleted
  <2>1. /\ Dc!Write(i, new) /\ i[1] = "expense" /\ i[1] # "sheet" /\ knows' = knows
        /\ UNCHANGED <<counter, screen, decided, untold>>
    BY <1>5 DEF Dc!deleteExpense, Dc!DeleteExpense
  <2>2. PICK told : knows' = [knows EXCEPT ![i] = told]
    <3>1. knows = [knows EXCEPT ![i] = knows[i]]
      BY DEF DecisionsInv, DecisionsTyped
    <3> QED
      BY <2>1, <3>1
  <2>3. new = Dc!Deleted
    OBVIOUS
  <2> HIDE DEF new
  <2> QED
    BY <2>1, <2>2, <2>3, OwnWrite
<1> QED
  BY <1>1, <1>2, <1>3, <1>4, <1>5

-----------------------------------------------------------------------------
LEMMA Outdated ==
  ASSUME DecisionsInv, NEW i \in Dc!Item, Dc!Outdate(i)
  PROVE  /\ screen' = [u \in Dc!Users |-> [j \in Dc!Item |-> screen'[u][j]]]
         /\ \A u \in Dc!Users, j \in Dc!Item : DOMAIN screen'[u][j] = {"data", "current"}
         /\ \A u \in Dc!Users : ~screen'[u][i].current
         /\ \A u \in Dc!Users, j \in Dc!Item \ {i} : screen'[u][j] = screen[u][j]
<1>1. screen' = [u \in Dc!Users |-> [screen[u] EXCEPT ![i].current = FALSE]]
  BY DEF Dc!Outdate
<1>2. ASSUME NEW u \in Dc!Users
      PROVE  /\ screen'[u] = [j \in Dc!Item |-> screen'[u][j]]
             /\ \A j \in Dc!Item : DOMAIN screen'[u][j] = {"data", "current"}
             /\ ~screen'[u][i].current
             /\ \A j \in Dc!Item \ {i} : screen'[u][j] = screen[u][j]
  <2>1. screen[u] = [j \in Dc!Item |-> screen[u][j]] /\ \A j \in Dc!Item : DOMAIN screen[u][j] = {"data", "current"}
    BY DEF DecisionsInv, DecisionsTyped
  <2>2. screen'[u] = [screen[u] EXCEPT ![i].current = FALSE]
    BY <1>1
  <2>3. /\ screen'[u] = [j \in Dc!Item |-> screen'[u][j]] /\ screen'[u][i] = [screen[u][i] EXCEPT !.current = FALSE]
        /\ \A j \in Dc!Item \ {i} : screen'[u][j] = screen[u][j]
    BY <2>1, <2>2
  <2>4. DOMAIN screen'[u][i] = {"data", "current"} /\ ~screen'[u][i].current
    BY <2>1, <2>3
  <2> QED
    BY <2>1, <2>3, <2>4
<1> QED
  BY <1>1, <1>2

LEMMA UpdateExpenseStep ==
  ASSUME DecisionsInv, NEW i \in Dc!Item, Dc!updateExpense(i)
  PROVE  DecisionsInv'
<1>1. PICK cents \in Amounts : row' = [row EXCEPT ![i].data = cents]
  BY DEF Dc!updateExpense, Dc!UpdateExpense
<1>2. i[1] = "expense" /\ Dc!Present(i) /\ Dc!Outdate(i) /\ UNCHANGED <<counter, decided, knows, crossed, untold>>
  BY DEF Dc!updateExpense
<1>3. Written(i) /\ row = [j \in Dc!Item |-> row[j]]
  BY <1>2 DEF DecisionsInv, DecisionsTyped
<1>4. /\ row' = [j \in Dc!Item |-> row'[j]] /\ \A j \in Dc!Item \ {i} : row'[j] = row[j]
      /\ row'[i] = [row[i] EXCEPT !.data = cents]
  BY <1>1, <1>3
<1>5. row'[i].status = row[i].status /\ Written(i)'
  BY <1>3, <1>4 DEF Written
<1>6. Dc!Present(i)'
  BY <1>5, IdleAt DEF Dc!Present, Written
<1>7. DecisionsTyped'
  <2>1. ASSUME NEW j \in Dc!Item PROVE Dc!Present(j)' => Written(j)'
    <3>1. CASE j = i
      BY <1>5, <3>1
    <3>2. CASE j # i
      <4>1. (Dc!Present(j)' <=> Dc!Present(j)) /\ (Written(j)' <=> Written(j))
        BY <1>4, <3>2 DEF Dc!Present, Written
      <4> QED
        BY <4>1 DEF DecisionsInv, DecisionsTyped
    <3> QED
      BY <3>1, <3>2
  <2>2. /\ screen' = [u \in Dc!Users |-> [j \in Dc!Item |-> screen'[u][j]]]
        /\ \A u \in Dc!Users, j \in Dc!Item : DOMAIN screen'[u][j] = {"data", "current"}
    BY <1>2, Outdated
  <2> QED
    BY <1>2, <1>4, <2>1, <2>2 DEF DecisionsInv, DecisionsTyped
<1>8. ASSUME NEW h \in Handlers PROVE TellerRight(h, i)'
  BY <1>2, <1>5, <1>6 DEF DecisionsInv, TellerRight
<1>9. RequesterKnows(i)'
  <2>1. (Dc!Telling(i))' = Dc!Telling(i)
    BY <1>2 DEF Dc!Telling
  <2>2. Agreed(i) => Agreed(i)'
    BY <1>2, <1>5, <1>6 DEF Agreed, Dc!Present
  <2> QED
    BY <1>2, <2>1, <2>2 DEF DecisionsInv, RequesterKnows
<1>10. ASSUME NEW u \in Dc!Users PROVE SheetShown(u)'
  <2> DEFINE j == <<"sheet", u>>
  <2>1. j \in Dc!Item \ {i}
    BY <1>2, SheetIsItem
  <2> HIDE DEF j
  <2>2. row'[j] = row[j] /\ decided'[j] = decided[j] /\ \A v \in Dc!Users : screen'[v][j] = screen[v][j]
    BY <1>2, <1>4, <2>1, Outdated
  <2> USE DEF j
  <2> QED
    BY <2>2 DEF DecisionsInv, SheetShown
<1> QED
  BY <1>2, <1>4, <1>7, <1>8, <1>9, <1>10, OtherRows

(* The minutes change, a submission begins or is given up: no row, screen  *)
(* or decision is touched.                                                 *)
LEMMA NoDecision ==
  ASSUME DecisionsInv, UNCHANGED <<row, screen, decided, knows, crossed, untold>>,
         counter' = [h \in Handlers |-> counter'[h]],
         \A h \in Handlers : \/ counter'[h] = counter[h]
                             \/ /\ counter[h].at # "tell" /\ counter'[h].at # "tell"
                                /\ counter'[h].at = "submit" => counter'[h].item \in Dc!Item
  PROVE  DecisionsInv'
<1>1. DecisionsTyped'
  BY DEF DecisionsInv, DecisionsTyped, Dc!Present, Written
<1>2. ASSUME NEW i \in Dc!Item PROVE (\A h \in Handlers : TellerRight(h, i)') /\ RequesterKnows(i)'
  <2>1. (Dc!Telling(i))' = Dc!Telling(i)
    BY DEF Dc!Telling
  <2>2. RequesterKnows(i)'
    BY <2>1 DEF DecisionsInv, RequesterKnows, Agreed, Dc!Present
  <2>3. ASSUME NEW h \in Handlers PROVE TellerRight(h, i)'
    BY <2>3 DEF DecisionsInv, TellerRight, Dc!Present
  <2> QED
    BY <2>2, <2>3
<1>3. \A u \in Dc!Users : SheetShown(u)'
  BY SheetsKept
<1> QED
  BY <1>1, <1>2, <1>3 DEF DecisionsInv

LEMMA NoDecisionSteps ==
  ASSUME DecisionsInv,
         \/ \E s \in Sessions : Dc!LogTime(s.user) \/ \E h \in Handlers : Dc!submit(h, s)
         \/ \E h \in Handlers : Dc!SubmitFails(h)
  PROVE  DecisionsInv'
<1>1. counter = [h \in Handlers |-> counter[h]]
  BY DEF DecisionsInv, DecisionsTyped
<1>2. ASSUME NEW s \in Sessions, Dc!LogTime(s.user) PROVE DecisionsInv'
  <2>1. UNCHANGED <<row, counter, screen, decided, knows, crossed, untold>>
    BY <1>2 DEF Dc!LogTime
  <2> QED
    BY <1>1, <2>1, NoDecision
<1>3. ASSUME NEW s \in Sessions, NEW h \in Handlers, Dc!submit(h, s) PROVE DecisionsInv'
  <2> DEFINE c == [at |-> "submit", item |-> <<"sheet", s.user>>, data |-> Dc!WeekMinutes(s.user)]
  <2>1. /\ counter[h].at = "idle" /\ counter' = [counter EXCEPT ![h] = c]
        /\ UNCHANGED <<row, screen, decided, knows, crossed, untold>>
    BY <1>3, IdleAt DEF Dc!submit
  <2>2. c.at = "submit" /\ c.item \in Dc!Item
    BY SheetIsItem DEF Dc!Users
  <2> HIDE DEF c
  <2> QED
    BY <1>1, <2>1, <2>2, NoDecision
<1>4. ASSUME NEW h \in Handlers, Dc!SubmitFails(h) PROVE DecisionsInv'
  <2>1. /\ counter[h].at = "submit" /\ counter' = [counter EXCEPT ![h] = Dc!Idle]
        /\ UNCHANGED <<row, screen, decided, knows, crossed, untold>>
    BY <1>4 DEF Dc!SubmitFails
  <2> QED
    BY <1>1, <2>1, NoDecision, IdleAt
<1> QED
  BY <1>2, <1>3, <1>4

LEMMA SubmitStep ==
  ASSUME DecisionsInv, NEW h \in Handlers, Dc!SubmitWrites(h)
  PROVE  DecisionsInv'
<1>1. PICK i \in Dc!Item : i = counter[h].item
  BY DEF Dc!SubmitWrites, DecisionsInv, DecisionsTyped
<1> DEFINE new == [status |-> "submitted", user |-> i[2], data |-> counter[h].data]
<1>2. /\ counter[h].at = "submit" /\ row' = [row EXCEPT ![i] = new]
      /\ crossed' = IF Dc!Telling(i) = {} THEN crossed ELSE crossed \cup {i}
      /\ Dc!Outdate(i) /\ knows' = [knows EXCEPT ![i] = "submitted"]
      /\ counter' = [counter EXCEPT ![h] = Dc!Idle] /\ UNCHANGED <<decided, untold>>
  BY <1>1 DEF Dc!SubmitWrites, Dc!SubmitTimesheet, Dc!Write, Dc!Answered
<1>3. {"status", "user", "data"} \subseteq DOMAIN new /\ new.status = "submitted"
  OBVIOUS
<1> HIDE DEF new
<1>4. /\ row'[i] = new /\ row' = [j \in Dc!Item |-> row'[j]] /\ \A j \in Dc!Item \ {i} : row'[j] = row[j]
      /\ knows'[i] = "submitted" /\ knows' = [j \in Dc!Item |-> knows'[j]]
      /\ \A j \in Dc!Item \ {i} : knows'[j] = knows[j]
      /\ counter'[h] = Dc!Idle /\ counter' = [g \in Handlers |-> counter'[g]]
      /\ \A g \in Handlers \ {h} : counter'[g] = counter[g]
  BY <1>2 DEF DecisionsInv, DecisionsTyped
<1>5. Written(i)' /\ Dc!Present(i)'
  BY <1>3, <1>4, IdleAt DEF Written, Dc!Present
<1>6. /\ screen' = [u \in Dc!Users |-> [j \in Dc!Item |-> screen'[u][j]]]
      /\ \A u \in Dc!Users, j \in Dc!Item : DOMAIN screen'[u][j] = {"data", "current"}
      /\ \A u \in Dc!Users : ~screen'[u][i].current
      /\ \A u \in Dc!Users, j \in Dc!Item \ {i} : screen'[u][j] = screen[u][j]
  BY <1>2, Outdated
<1>7. DecisionsTyped'
  <2>1. ASSUME NEW j \in Dc!Item PROVE Dc!Present(j)' => Written(j)'
    <3>1. CASE j = i
      BY <1>5, <3>1
    <3>2. CASE j # i
      <4>1. (Dc!Present(j)' <=> Dc!Present(j)) /\ (Written(j)' <=> Written(j))
        BY <1>4, <3>2 DEF Dc!Present, Written
      <4> QED
        BY <4>1 DEF DecisionsInv, DecisionsTyped
    <3> QED
      BY <3>1, <3>2
  <2>2. \A g \in Handlers : counter'[g].at \in {"submit", "tell"} => counter'[g].item \in Dc!Item
    BY <1>4, IdleAt DEF DecisionsInv, DecisionsTyped
  <2>3. decided' = [j \in Dc!Item |-> decided'[j]]
    BY <1>2 DEF DecisionsInv, DecisionsTyped
  <2> QED
    BY <1>4, <1>6, <2>1, <2>2, <2>3 DEF DecisionsTyped
<1>8. ASSUME NEW g \in Handlers PROVE TellerRight(g, i)'
  BY <1>2, <1>4, <1>8, IdleAt DEF TellerRight, Dc!Telling
<1>9. RequesterKnows(i)'
  BY <1>3, <1>4, <1>5 DEF RequesterKnows, Agreed
<1>10. ASSUME NEW u \in Dc!Users PROVE SheetShown(u)'
  <2>1. CASE <<"sheet", u>> = i
    BY <1>3, <1>4, <1>6, <2>1 DEF SheetShown
  <2>2. CASE <<"sheet", u>> # i
    <3> DEFINE j == <<"sheet", u>>
    <3>1. j \in Dc!Item \ {i}
      BY <2>2, SheetIsItem
    <3> HIDE DEF j
    <3>2. row'[j] = row[j] /\ decided'[j] = decided[j] /\ \A v \in Dc!Users : screen'[v][j] = screen[v][j]
      BY <1>2, <1>4, <1>6, <3>1
    <3> USE DEF j
    <3> QED
      BY <3>2 DEF DecisionsInv, SheetShown
  <2> QED
    BY <2>1, <2>2
<1>11. \A g \in Handlers : \/ counter'[g] = counter[g]
                           \/ /\ counter'[g].at = "tell" => counter'[g].item = i
                              /\ counter[g].at = "tell" => counter[g].item = i
  BY <1>2, <1>4, IdleAt
<1> QED
  BY <1>2, <1>4, <1>7, <1>8, <1>9, <1>10, <1>11, OtherRows

LEMMA LookStep ==
  ASSUME DecisionsInv, NEW s \in Sessions, Dc!Look(s)
  PROVE  DecisionsInv'
<1>1. PICK list \in SUBSET Dc!Item : Dc!Shows(s, list)
  BY DEF Dc!Look, Dc!pendingLeave, Dc!pendingTimesheets, Dc!pendingApprovals, Dc!listExpenses,
         Dc!ListPendingLeave, Dc!ListPendingTimesheets, Dc!ListPendingApprovals, Dc!ListExpenses
<1>2. UNCHANGED <<row, counter, decided, knows, crossed, untold>>
  BY DEF Dc!Look
<1>3. screen' = [screen EXCEPT ![s.user] =
                   [i \in Dc!Item |-> IF i \in list THEN [data |-> row[i].data, current |-> TRUE]
                                      ELSE screen[s.user][i]]]
  BY <1>1 DEF Dc!Shows
<1>4. ASSUME NEW u \in Dc!Users
      PROVE  /\ screen'[u] = [i \in Dc!Item |-> screen'[u][i]]
             /\ \A i \in Dc!Item : \/ screen'[u][i] = screen[u][i]
                                   \/ screen'[u][i] = [data |-> row[i].data, current |-> TRUE]
  BY <1>3 DEF DecisionsInv, DecisionsTyped
<1>5. DecisionsTyped'
  <2>1. screen' = [u \in Dc!Users |-> [i \in Dc!Item |-> screen'[u][i]]]
    BY <1>3, <1>4 DEF DecisionsInv, DecisionsTyped
  <2>2. ASSUME NEW u \in Dc!Users, NEW i \in Dc!Item PROVE DOMAIN screen'[u][i] = {"data", "current"}
    <3>1. DOMAIN screen[u][i] = {"data", "current"}
      BY DEF DecisionsInv, DecisionsTyped
    <3>2. CASE screen'[u][i] = screen[u][i]
      BY <3>1, <3>2
    <3>3. CASE screen'[u][i] = [data |-> row[i].data, current |-> TRUE]
      BY <3>3
    <3> QED
      BY <1>4, <3>2, <3>3
  <2> QED
    BY <1>2, <2>1, <2>2 DEF DecisionsInv, DecisionsTyped, Dc!Present, Written
<1>6. ASSUME NEW i \in Dc!Item PROVE (\A h \in Handlers : TellerRight(h, i)') /\ RequesterKnows(i)'
  <2>1. ASSUME NEW h \in Handlers PROVE TellerRight(h, i)'
    BY <1>2 DEF DecisionsInv, TellerRight, Dc!Present
  <2>2. RequesterKnows(i)'
    BY <1>2 DEF DecisionsInv, RequesterKnows, Agreed, Dc!Present, Dc!Telling
  <2> QED
    BY <2>1, <2>2
<1>7. ASSUME NEW u \in Dc!Users PROVE SheetShown(u)'
  <2> DEFINE j == <<"sheet", u>>
  <2>1. j \in Dc!Item /\ SheetShown(u)
    BY SheetIsItem DEF DecisionsInv
  <2> HIDE DEF j
  <2>2. ASSUME NEW v \in Dc!Users, screen'[v][j].current PROVE row'[j].data = screen'[v][j].data
    <3>1. row'[j] = row[j] /\ (screen[v][j].current => row[j].data = screen[v][j].data)
      BY <1>2, <2>1 DEF SheetShown, j
    <3>2. CASE screen'[v][j] = screen[v][j]
      BY <2>2, <3>1, <3>2
    <3>3. CASE screen'[v][j] = [data |-> row[j].data, current |-> TRUE]
      BY <3>1, <3>3
    <3> QED
      BY <1>4, <2>1, <3>2, <3>3
  <2>3. row'[j].status = "approved" /\ decided'[j].current => row'[j].data = decided'[j].data
    BY <1>2, <2>1 DEF SheetShown, j
  <2> QED
    BY <2>2, <2>3 DEF SheetShown, j
<1> QED
  BY <1>5, <1>6, <1>7 DEF DecisionsInv

LEMMA LookBackStep ==
  ASSUME DecisionsInv, NEW s \in Sessions, Dc!LookBack(s)
  PROVE  DecisionsInv'
<1>1. PICK list : Dc!Learns(s, list)
  BY DEF Dc!LookBack, Dc!myLeave, Dc!calendar, Dc!myTimesheets, Dc!myApprovals, Dc!forSubject, Dc!myExpenses
<1>2. UNCHANGED <<row, counter, screen, decided>>
  BY DEF Dc!LookBack
<1> DEFINE seen == list \cap Dc!Requested(s.user)
<1>3. /\ knows' = [i \in Dc!Item |-> IF i \in seen THEN row[i].status ELSE knows[i]]
      /\ crossed' = {i \in crossed : i \in seen => Dc!Telling(i) # {}}
      /\ untold' = untold \ seen
  BY <1>1 DEF Dc!Learns
<1>4. \A i \in seen : Dc!Present(i)
  BY DEF Dc!Requested
<1> HIDE DEF seen
<1>5. DecisionsTyped'
  <2>1. knows' = [i \in Dc!Item |-> knows'[i]]
    BY <1>3
  <2> QED
    BY <1>2, <2>1 DEF DecisionsInv, DecisionsTyped, Dc!Present, Written
<1>6. ASSUME NEW i \in Dc!Item PROVE (\A h \in Handlers : TellerRight(h, i)') /\ RequesterKnows(i)'
  <2>1. ASSUME NEW h \in Handlers PROVE TellerRight(h, i)'
    <3>1. Dc!Present(i)' = Dc!Present(i) /\ TellerRight(h, i)
      BY <1>2 DEF Dc!Present, DecisionsInv
    <3>2. counter[h].at = "tell" /\ counter[h].item = i /\ i \in crossed => i \in crossed'
      BY <1>3 DEF Dc!Telling
    <3> QED
      BY <1>2, <3>1, <3>2 DEF TellerRight
  <2>2. RequesterKnows(i)'
    <3>1. Dc!Present(i)' = Dc!Present(i) /\ (Dc!Telling(i))' = Dc!Telling(i)
      BY <1>2 DEF Dc!Present, Dc!Telling
    <3>2. CASE i \in seen
      BY <1>2, <1>3, <1>4, <3>1, <3>2 DEF RequesterKnows, Agreed
    <3>3. CASE i \notin seen
      BY <1>2, <1>3, <3>1, <3>3 DEF DecisionsInv, RequesterKnows, Agreed
    <3> QED
      BY <3>2, <3>3
  <2> QED
    BY <2>1, <2>2
<1>7. \A u \in Dc!Users : SheetShown(u)'
  BY <1>2, SheetsKept
<1> QED
  BY <1>5, <1>6, <1>7 DEF DecisionsInv

(* A decision: the row has the status, and whoever decided it was shown    *)
(* what his screen shows.                                                  *)
LEMMA DecisionStep ==
  ASSUME DecisionsInv, NEW h \in Handlers, NEW u \in Dc!Users, NEW i \in Dc!Item, Dc!Present(i),
         NEW status, status \notin {"unused", "deleted"},
         Dc!Write(i, [row[i] EXCEPT !.status = status]),
         decided' = [decided EXCEPT ![i] = screen[u][i]], UNCHANGED <<screen, untold>>,
         \/ Dc!Tells(h, i, status) /\ counter[h] = Dc!Idle /\ UNCHANGED knows
         \/ UNCHANGED counter /\ knows' = [knows EXCEPT ![i] = status]
  PROVE  DecisionsInv'
<1>1. /\ row' = [row EXCEPT ![i] = [row[i] EXCEPT !.status = status]]
      /\ crossed' = IF Dc!Telling(i) = {} THEN crossed ELSE crossed \cup {i}
  BY DEF Dc!Write
<1>2. Written(i) /\ row = [j \in Dc!Item |-> row[j]]
  BY DEF DecisionsInv, DecisionsTyped
<1>3. /\ row' = [j \in Dc!Item |-> row'[j]] /\ row'[i] = [row[i] EXCEPT !.status = status]
      /\ \A j \in Dc!Item \ {i} : row'[j] = row[j]
  BY <1>1, <1>2
<1>4. Written(i)' /\ row'[i].status = status /\ row'[i].data = row[i].data
  BY <1>2, <1>3 DEF Written
<1>5. Dc!Present(i)'
  BY <1>4, IdleAt DEF Dc!Present
<1>6. /\ decided'[i] = screen[u][i] /\ decided' = [j \in Dc!Item |-> decided'[j]]
      /\ \A j \in Dc!Item \ {i} : decided'[j] = decided[j]
  BY DEF DecisionsInv, DecisionsTyped
<1>7. /\ counter' = [g \in Handlers |-> counter'[g]] /\ \A g \in Handlers \ {h} : counter'[g] = counter[g]
      /\ knows' = [j \in Dc!Item |-> knows'[j]] /\ \A j \in Dc!Item \ {i} : knows'[j] = knows[j]
      /\ \/ /\ counter'[h].at = "tell" /\ counter'[h].item = i /\ counter'[h].status = status
            /\ counter[h].at = "idle"
         \/ counter'[h] = counter[h] /\ knows'[i] = status
  <2>1. CASE Dc!Tells(h, i, status) /\ counter[h] = Dc!Idle /\ UNCHANGED knows
    <3> DEFINE c == [at |-> "tell", item |-> i, status |-> status]
    <3>1. counter' = [counter EXCEPT ![h] = c] /\ counter[h].at = "idle" /\ knows' = knows
      BY <2>1, IdleAt DEF Dc!Tells
    <3>2. c.at = "tell" /\ c.item = i /\ c.status = status
      OBVIOUS
    <3> HIDE DEF c
    <3>3. counter'[h] = c /\ counter' = [g \in Handlers |-> counter'[g]] /\ \A g \in Handlers \ {h} : counter'[g] = counter[g]
      BY <3>1 DEF DecisionsInv, DecisionsTyped
    <3>4. knows' = [j \in Dc!Item |-> knows'[j]]
      BY <3>1 DEF DecisionsInv, DecisionsTyped
    <3> QED
      BY <3>1, <3>2, <3>3, <3>4
  <2>2. CASE UNCHANGED counter /\ knows' = [knows EXCEPT ![i] = status]
    BY <2>2 DEF DecisionsInv, DecisionsTyped
  <2> QED
    BY <2>1, <2>2
<1>8. DecisionsTyped'
  <2>1. ASSUME NEW j \in Dc!Item PROVE Dc!Present(j)' => Written(j)'
    <3>1. CASE j = i
      BY <1>4, <3>1
    <3>2. CASE j # i
      <4>1. (Dc!Present(j)' <=> Dc!Present(j)) /\ (Written(j)' <=> Written(j))
        BY <1>3, <3>2 DEF Dc!Present, Written
      <4> QED
        BY <4>1 DEF DecisionsInv, DecisionsTyped
    <3> QED
      BY <3>1, <3>2
  <2>2. \A g \in Handlers : counter'[g].at \in {"submit", "tell"} => counter'[g].item \in Dc!Item
    BY <1>7 DEF DecisionsInv, DecisionsTyped
  <2> QED
    BY <1>3, <1>6, <1>7, <2>1, <2>2 DEF DecisionsInv, DecisionsTyped
<1>9. ASSUME NEW g \in Handlers PROVE TellerRight(g, i)'
  <2>1. CASE g = h /\ counter'[h].at = "tell" /\ counter'[h].item = i /\ counter'[h].status = status
    BY <1>4, <1>5, <2>1 DEF TellerRight
  <2>2. CASE counter'[g] = counter[g]
    BY <1>1, <2>2 DEF TellerRight, Dc!Telling
  <2> QED
    BY <1>7, <2>1, <2>2
<1>10. RequesterKnows(i)'
  <2>1. CASE counter'[h].at = "tell" /\ counter'[h].item = i
    BY <2>1 DEF RequesterKnows, Dc!Telling
  <2>2. CASE knows'[i] = status
    BY <1>4, <1>5, <2>2 DEF RequesterKnows, Agreed
  <2> QED
    BY <1>7, <2>1, <2>2
<1>11. ASSUME NEW v \in Dc!Users PROVE SheetShown(v)'
  <2> DEFINE j == <<"sheet", v>>
  <2>1. j \in Dc!Item /\ SheetShown(v)
    BY SheetIsItem DEF DecisionsInv
  <2>2. /\ \A w \in Dc!Users : screen[w][j].current => row[j].data = screen[w][j].data
        /\ row[j].status = "approved" /\ decided[j].current => row[j].data = decided[j].data
    BY <2>1 DEF SheetShown
  <2> HIDE DEF j
  <2>3. /\ \A w \in Dc!Users : screen'[w][j].current => row'[j].data = screen'[w][j].data
        /\ row'[j].status = "approved" /\ decided'[j].current => row'[j].data = decided'[j].data
    <3>1. row'[j].data = row[j].data
      BY <1>3, <1>4, <2>1
    <3>2. screen' = screen
      OBVIOUS
    <3>3. CASE j = i
      BY <1>6, <2>2, <3>1, <3>2, <3>3
    <3>4. CASE j # i
      BY <1>3, <1>6, <2>1, <2>2, <3>1, <3>2, <3>4
    <3> QED
      BY <3>3, <3>4
  <2> QED
    BY <2>3 DEF SheetShown, j
<1>12. \A g \in Handlers : \/ counter'[g] = counter[g]
                           \/ /\ counter'[g].at = "tell" => counter'[g].item = i
                              /\ counter[g].at = "tell" => counter[g].item = i
  BY <1>7
<1> QED
  BY <1>1, <1>3, <1>7, <1>8, <1>9, <1>10, <1>11, <1>12, OtherRows

-----------------------------------------------------------------------------
LEMMA NotifyStep ==
  ASSUME DecisionsInv, NEW h \in Handlers, Dc!notifyUser(h)
  PROVE  DecisionsInv'
<1>1. PICK i \in Dc!Item : i = counter[h].item
  BY DEF Dc!notifyUser, DecisionsInv, DecisionsTyped
<1>2. /\ counter[h].at = "tell" /\ counter' = [counter EXCEPT ![h] = Dc!Idle]
      /\ UNCHANGED <<row, screen, decided, crossed>>
      /\ \/ knows' = [knows EXCEPT ![i] = counter[h].status] /\ untold' = untold \ {i}
         \/ knows' = knows /\ untold' = untold \cup {i}
  BY <1>1 DEF Dc!notifyUser, Dc!CreateNotification
<1>3. /\ counter'[h] = Dc!Idle /\ counter' = [g \in Handlers |-> counter'[g]]
      /\ \A g \in Handlers \ {h} : counter'[g] = counter[g]
  BY <1>2 DEF DecisionsInv, DecisionsTyped
<1>4. /\ knows' = [j \in Dc!Item |-> knows'[j]] /\ \A j \in Dc!Item \ {i} : knows'[j] = knows[j]
      /\ i \in untold' \/ knows'[i] = counter[h].status
  BY <1>2 DEF DecisionsInv, DecisionsTyped
<1>5. DecisionsTyped'
  <2>1. \A g \in Handlers : counter'[g].at \in {"submit", "tell"} => counter'[g].item \in Dc!Item
    BY <1>3, IdleAt DEF DecisionsInv, DecisionsTyped
  <2> QED
    BY <1>2, <1>3, <1>4, <2>1 DEF DecisionsInv, DecisionsTyped, Dc!Present, Written
<1>6. ASSUME NEW g \in Handlers PROVE TellerRight(g, i)'
  BY <1>2, <1>3, IdleAt DEF DecisionsInv, TellerRight, Dc!Present
<1>7. RequesterKnows(i)'
  <2>1. i \notin crossed => Dc!Present(i) /\ row[i].status = counter[h].status
    BY <1>1, <1>2 DEF DecisionsInv, TellerRight
  <2> QED
    BY <1>2, <1>4, <2>1 DEF RequesterKnows, Agreed, Dc!Present
<1>8. \A u \in Dc!Users : SheetShown(u)'
  BY <1>2, SheetsKept
<1>9. \A g \in Handlers : \/ counter'[g] = counter[g]
                          \/ /\ counter'[g].at = "tell" => counter'[g].item = i
                             /\ counter[g].at = "tell" => counter[g].item = i
  BY <1>1, <1>3, IdleAt
<1>10. \A j \in Dc!Item \ {i} : /\ row'[j] = row[j] /\ knows'[j] = knows[j]
                                /\ (j \in crossed' <=> j \in crossed) /\ (j \in untold' <=> j \in untold)
  BY <1>2, <1>4
<1> QED
  BY <1>5, <1>6, <1>7, <1>8, <1>9, <1>10, OtherRows

LEMMA JudgeStep ==
  ASSUME DecisionsInv, NEW s \in Sessions, Dc!Judge(s)
  PROVE  DecisionsInv'
<1>1. PICK h \in Handlers, i \in Dc!Item : Dc!decide(h, s, i) \/ Dc!setStatus(h, s, i)
  BY DEF Dc!Judge
<1>2. s.user \in Dc!Users
  BY DEF Dc!Users
<1>3. CASE Dc!decide(h, s, i)
  <2>1. PICK status \in Dc!Verdicts : /\ Dc!Write(i, [row[i] EXCEPT !.status = status])
                                      /\ Dc!Tells(h, i, status)
    BY <1>3 DEF Dc!decide, Dc!decideTimesheet, Dc!decideLeave, Dc!decideApproval,
                Dc!DecideTimesheet, Dc!DecideLeave, Dc!DecideApproval, Dc!Decide
  <2>2. status \notin {"unused", "deleted"}
    BY DEF Dc!Verdicts
  <2>3. /\ counter[h] = Dc!Idle /\ Dc!Present(i) /\ decided' = [decided EXCEPT ![i] = screen[s.user][i]]
        /\ UNCHANGED <<screen, untold>> /\ UNCHANGED knows
    BY <1>3 DEF Dc!decide
  <2>4. PICK u \in Dc!Users : u = s.user
    BY <1>2
  <2> QED
    BY <2>1, <2>2, <2>3, <2>4, DecisionStep
<1>4. CASE Dc!setStatus(h, s, i)
  <2>1. PICK status \in Dc!ExpenseStatuses :
               /\ Dc!Write(i, [row[i] EXCEPT !.status = status])
               /\ \/ Dc!Tells(h, i, status) /\ UNCHANGED knows
                  \/ UNCHANGED counter /\ knows' = [knows EXCEPT ![i] = status]
    BY <1>4 DEF Dc!setStatus, Dc!SetExpenseStatus, Dc!Answered
  <2>2. status \notin {"unused", "deleted"}
    BY DEF Dc!ExpenseStatuses
  <2>3. /\ counter[h] = Dc!Idle /\ Dc!Present(i) /\ decided' = [decided EXCEPT ![i] = screen[s.user][i]]
        /\ UNCHANGED <<screen, untold>>
    BY <1>4 DEF Dc!setStatus
  <2>4. PICK u \in Dc!Users : u = s.user
    BY <1>2
  <2> QED
    BY <2>1, <2>2, <2>3, <2>4, DecisionStep
<1> QED
  BY <1>1, <1>3, <1>4

LEMMA DecisionsStart == Dc!Init => DecisionsInv
<1> SUFFICES ASSUME Dc!Init PROVE DecisionsInv
  OBVIOUS
<1>1. /\ \A i \in Dc!Item : /\ row[i] = Dc!Unused /\ decided[i] = Dc!Blank /\ knows[i] = "unused"
      /\ \A u \in Dc!Users, i \in Dc!Item : screen[u][i] = Dc!Blank
      /\ \A h \in Handlers : counter[h].at = "idle"
  BY IdleAt DEF Dc!Init
<1>2. Dc!Blank.current = FALSE /\ DOMAIN Dc!Blank = {"data", "current"}
  BY DEF Dc!Blank
<1>3. DecisionsTyped
  <2>1. /\ row = [i \in Dc!Item |-> row[i]] /\ knows = [i \in Dc!Item |-> knows[i]]
        /\ decided = [i \in Dc!Item |-> decided[i]] /\ counter = [h \in Handlers |-> counter[h]]
        /\ screen = [u \in Dc!Users |-> [i \in Dc!Item |-> screen[u][i]]]
    BY DEF Dc!Init
  <2> QED
    BY <1>1, <1>2, <2>1 DEF DecisionsTyped, Dc!Present
<1>4. \A i \in Dc!Item : RequesterKnows(i) /\ \A h \in Handlers : TellerRight(h, i)
  BY <1>1 DEF RequesterKnows, TellerRight
<1>5. ASSUME NEW u \in Dc!Users PROVE SheetShown(u)
  <2> DEFINE i == <<"sheet", u>>
  <2>1. i \in Dc!Item
    BY SheetIsItem
  <2> HIDE DEF i
  <2>2. row[i] = Dc!Unused /\ ~decided[i].current /\ \A v \in Dc!Users : ~screen[v][i].current
    BY <1>1, <1>2, <2>1
  <2>3. row[i].status # "approved"
    BY <2>2, IdleAt
  <2> QED
    BY <2>2, <2>3 DEF SheetShown, i
<1> QED
  BY <1>3, <1>4, <1>5 DEF DecisionsInv

LEMMA DecisionsNext == DecisionsInv /\ [Dc!Next]_(Dc!vars) => DecisionsInv'
<1>1. ASSUME DecisionsInv, UNCHANGED Dc!vars PROVE DecisionsInv'
  BY <1>1, NoDecision DEF Dc!vars, DecisionsInv, DecisionsTyped
<1>2. ASSUME DecisionsInv, NEW s \in Sessions, Dc!Ask(s) PROVE DecisionsInv'
  BY <1>2, OwnSteps, UpdateExpenseStep, NoDecisionSteps DEF Dc!Ask
<1> QED
  BY <1>1, <1>2, JudgeStep, LookStep, LookBackStep, NoDecisionSteps, SubmitStep, NotifyStep DEF Dc!Next

(* A requester knows where his request stands (leave.go:262).              *)
THEOREM RequestersKnow == Dc!Spec => []LastNoticeAgrees
<1>1. DecisionsInv => LastNoticeAgrees
  <2> SUFFICES ASSUME DecisionsInv, NEW i \in Dc!Item \ (crossed \cup untold), knows[i] # "unused",
                      \A h \in Handlers : counter[h].at = "idle" \/ counter[h].item # i
               PROVE  Agreed(i)
    BY DEF LastNoticeAgrees, Dc!LastNoticeAgrees, Agreed
  <2>1. Dc!Telling(i) = {}
    BY DEF Dc!Telling
  <2> QED
    BY <2>1 DEF DecisionsInv, RequesterKnows
<1> QED
  BY <1>1, DecisionsStart, DecisionsNext, PTL DEF Dc!Spec

(* An approved timesheet has the minutes its approver was shown            *)
(* (timesheets.go:203).                                                    *)
THEOREM ApprovedAsShown == Dc!Spec => []SheetAsShown
<1>1. DecisionsInv => SheetAsShown
  BY DEF DecisionsInv, SheetShown, SheetAsShown, Dc!SheetAsShown
<1> QED
  BY <1>1, DecisionsStart, DecisionsNext, PTL DEF Dc!Spec

-----------------------------------------------------------------------------
(***************************************************************************)
(* Pages.  A page that is there has a parent that is there, or none.       *)
(***************************************************************************)
PageShape(p) ==
  /\ page[p].state = "live" /\ {"state", "parent", "body", "template", "visibility"} \subseteq DOMAIN page[p]
  /\ page[p].parent # None => page[p].parent \in Pages /\ Pg!Present(page[p].parent)

ClerkShape(h) ==
  LET c == clerk[h] IN
  /\ c.at \in {"idle", "clear", "link", "consider", "snapshot", "write", "walk", "move"}
  /\ c.at # "idle" => c.page \in Pages /\ page[c.page] # Pg!Unused
  /\ c.at \in {"clear", "link"} => DOMAIN c = {"at", "page", "body"}
  /\ c.at \in {"consider", "snapshot", "write"} => DOMAIN c = {"at", "page", "body", "old"}
  /\ c.at \in {"walk", "move"} => /\ DOMAIN c = {"at", "page", "parent", "cur", "seen", "hops"}
                                  /\ c.seen \subseteq Pages /\ {c.cur, c.parent} \subseteq Pages \cup {None}
                                  /\ \A q \in c.seen \cup {c.cur} : q = None \/ page[q] # Pg!Unused

PagesTyped ==
  /\ page = [p \in Pages |-> page[p]] /\ clerk = [h \in Handlers |-> clerk[h]]
  /\ since = [p \in Pages |-> since[p]]
  /\ \A p \in Pages : Pg!Present(p) => PageShape(p)
  /\ \A h \in Handlers : ClerkShape(h)

(* What a move has read of the ancestors of its target is still so, but    *)
(* for the pages that were deleted since: above what it has seen there is  *)
(* what it is to read next.                                                *)
WalkOf(h) ==
  LET c == clerk[h] IN
  ~tangled /\ c.at \in {"walk", "move"} =>
    /\ c.parent \in c.seen \cup {c.cur} /\ c.page \notin c.seen
    /\ \A q \in c.seen : Pg!Present(q) => page[q].parent \in c.seen \cup {c.cur, None}
    /\ c.at = "move" /\ ~blind => c.cur = None \/ page[c.cur] = Pg!Deleted

Linked(p) == {t \in Pages : <<p, t>> \in links}
Meant(p)  == page[p].body \ {p}
Wanted(p) == {t \in Meant(p) \cap since[p] : Pg!Present(t)}

SinceOf(p) == \A t \in since[p] : /\ t \in Pages /\ page[t] # Pg!Unused
                                  /\ Pg!Present(t) => ~page[t].template

(* One save at a time makes the links of a page; what it has still to link *)
(* is all that may be missing.                                             *)
LinksOf(p) ==
  Pg!Present(p) /\ p \notin overlapped \cup unlinked =>
    /\ \A g, h \in Pg!Linking(p) : g = h
    /\ Pg!Linking(p) = {} /\ ~page[p].template => Linked(p) \subseteq Meant(p) /\ Wanted(p) \subseteq Linked(p)
    /\ \A h \in Pg!Linking(p) :
         /\ clerk[h].at = "clear" => clerk[h].body = page[p].body
         /\ clerk[h].at = "link" => /\ clerk[h].body \subseteq page[p].body /\ Linked(p) \subseteq Meant(p)
                                    /\ Wanted(p) \ clerk[h].body \subseteq Linked(p)

PagesInv ==
  /\ PagesTyped /\ TreeAcyclic
  /\ \A h \in Handlers : WalkOf(h)
  /\ \A p \in Pages : SinceOf(p) /\ LinksOf(p)

-----------------------------------------------------------------------------
(* What a request leaves of the pages: those that were deleted stay so,    *)
(* those that are there were there, if they had been created, under the    *)
(* same parent or none.                                                    *)
StatesKept ==
  \A q \in Pages : page[q] # Pg!Unused =>
     /\ page'[q] # Pg!Unused
     /\ page[q] = Pg!Deleted => page'[q] = Pg!Deleted
     /\ Pg!Present(q)' => Pg!Present(q) /\ page'[q].template = page[q].template

ParentKept(q) == Pg!Present(q)' => Pg!Present(q) /\ page'[q].parent \in {page[q].parent, None}

HistoryKept == (blind => blind') /\ (tangled => tangled')

LEMMA PageStates ==
  /\ Pg!Idle.at = "idle" /\ Pg!Unused.state = "unused" /\ Pg!Deleted.state = "deleted"
  /\ None \notin Pages
BY OfficeAssumption DEF Pg!Idle, Pg!Unused, Pg!Deleted

LEMMA TreeFrame ==
  ASSUME TreeAcyclic, HistoryKept, \A q \in Pages : ParentKept(q)
  PROVE  TreeAcyclic'
<1> SUFFICES ASSUME ~blind', ~tangled', NEW circle \in (SUBSET Pages) \ {{}}
             PROVE  \E p \in circle : ~(Pg!Present(p)' /\ page'[p].parent \in circle)
  BY DEF TreeAcyclic, Pg!TreeAcyclic
<1>1. PICK p \in circle : ~(Pg!Present(p) /\ page[p].parent \in circle)
  BY DEF TreeAcyclic, Pg!TreeAcyclic, HistoryKept
<1> QED
  BY <1>1, PageStates DEF ParentKept

LEMMA WalkFrame ==
  ASSUME NEW h \in Handlers, WalkOf(h), clerk'[h] = clerk[h], HistoryKept,
         ClerkShape(h),
         clerk[h].at \in {"walk", "move"} => \/ tangled'
                                             \/ \A q \in clerk[h].seen : ParentKept(q),
         \A q \in Pages : page[q] = Pg!Deleted => page'[q] = Pg!Deleted
  PROVE  WalkOf(h)'
<1> SUFFICES ASSUME ~tangled', clerk[h].at \in {"walk", "move"} PROVE WalkOf(h)'
  BY DEF WalkOf
<1>1. \A q \in clerk[h].seen : ParentKept(q)
  OBVIOUS
<1>2. clerk[h].cur \in Pages \cup {None} /\ clerk[h].seen \subseteq Pages
  BY DEF ClerkShape
<1>3. \A q \in clerk[h].seen : Pg!Present(q)' => page'[q].parent \in clerk[h].seen \cup {clerk[h].cur, None}
  BY <1>1 DEF WalkOf, HistoryKept, ParentKept
<1>4. clerk[h].at = "move" /\ ~blind' => clerk[h].cur = None \/ page'[clerk[h].cur] = Pg!Deleted
  BY <1>2 DEF WalkOf, HistoryKept
<1>5. clerk[h].parent \in clerk[h].seen \cup {clerk[h].cur} /\ clerk[h].page \notin clerk[h].seen
  BY DEF WalkOf, HistoryKept
<1> QED
  BY <1>3, <1>4, <1>5 DEF WalkOf

LEMMA ShapeFrame ==
  ASSUME NEW h \in Handlers, ClerkShape(h), clerk'[h] = clerk[h], StatesKept
  PROVE  ClerkShape(h)'
<1>1. \A q \in Pages : page[q] # Pg!Unused => page'[q] # Pg!Unused
  BY DEF StatesKept
<1> QED
  BY <1>1 DEF ClerkShape

LEMMA SinceFrame ==
  ASSUME NEW p \in Pages, SinceOf(p), since'[p] = since[p], StatesKept
  PROVE  SinceOf(p)'
<1> SUFFICES ASSUME NEW t \in since[p]
             PROVE  t \in Pages /\ page'[t] # Pg!Unused /\ (Pg!Present(t)' => ~page'[t].template)
  BY DEF SinceOf
<1>1. t \in Pages /\ page[t] # Pg!Unused /\ (Pg!Present(t) => ~page[t].template)
  BY DEF SinceOf
<1> QED
  BY <1>1 DEF StatesKept

LEMMA LinkFrame ==
  ASSUME NEW p \in Pages, LinksOf(p), SinceOf(p), StatesKept, since'[p] = since[p],
         Pg!Present(p)' => /\ Pg!Present(p)
                           /\ page'[p].body = page[p].body /\ page'[p].template = page[p].template,
         p \in overlapped \cup unlinked => p \in overlapped' \cup unlinked',
         \A h \in Handlers : \/ clerk'[h] = clerk[h]
                             \/ /\ clerk[h].at \in {"clear", "link"} => clerk[h].page # p
                                /\ clerk'[h].at \in {"clear", "link"} => clerk'[h].page # p,
         \A t \in Pages : /\ <<p, t>> \in links' => <<p, t>> \in links
                          /\ <<p, t>> \in links /\ Pg!Present(t)' /\ Pg!Present(p)' => <<p, t>> \in links'
  PROVE  LinksOf(p)'
<1> SUFFICES ASSUME Pg!Present(p)', p \notin overlapped' \cup unlinked' PROVE LinksOf(p)'
  BY DEF LinksOf
<1>1. Pg!Present(p) /\ p \notin overlapped \cup unlinked
  OBVIOUS
<1>2. (Pg!Linking(p))' = Pg!Linking(p) /\ \A h \in Pg!Linking(p) : clerk'[h] = clerk[h]
  BY DEF Pg!Linking
<1>3. Meant(p)' = Meant(p) /\ page'[p].body = page[p].body /\ page'[p].template = page[p].template
  BY DEF Meant
<1>4. Linked(p)' \subseteq Linked(p)
  BY DEF Linked
<1>5. ASSUME NEW t \in Wanted(p)' PROVE t \in Wanted(p) /\ t \in Pages /\ Pg!Present(t)'
  <2>1. t \in Meant(p) /\ t \in since[p] /\ Pg!Present(t)'
    BY <1>3 DEF Wanted
  <2>2. t \in Pages /\ page[t] # Pg!Unused
    BY <2>1 DEF SinceOf
  <2>3. Pg!Present(t)
    BY <2>1, <2>2 DEF StatesKept
  <2> QED
    BY <2>1, <2>2, <2>3 DEF Wanted
<1>6. ASSUME NEW t \in Linked(p), t \in Wanted(p)' PROVE t \in Linked(p)'
  BY <1>5, <1>6 DEF Linked
<1>7. /\ \A g, h \in Pg!Linking(p) : g = h
      /\ Pg!Linking(p) = {} /\ ~page[p].template => Linked(p) \subseteq Meant(p) /\ Wanted(p) \subseteq Linked(p)
      /\ \A h \in Pg!Linking(p) :
           /\ clerk[h].at = "clear" => clerk[h].body = page[p].body
           /\ clerk[h].at = "link" => /\ clerk[h].body \subseteq page[p].body /\ Linked(p) \subseteq Meant(p)
                                      /\ Wanted(p) \ clerk[h].body \subseteq Linked(p)
  BY <1>1 DEF LinksOf
<1>8. (Pg!Linking(p))' = {} /\ ~page'[p].template
        => Linked(p)' \subseteq Meant(p)' /\ Wanted(p)' \subseteq Linked(p)'
  BY <1>2, <1>3, <1>4, <1>5, <1>6, <1>7
<1>9. ASSUME NEW h \in (Pg!Linking(p))'
      PROVE  /\ clerk'[h].at = "clear" => clerk'[h].body = page'[p].body
             /\ clerk'[h].at = "link" => /\ clerk'[h].body \subseteq page'[p].body /\ Linked(p)' \subseteq Meant(p)'
                                         /\ Wanted(p)' \ clerk'[h].body \subseteq Linked(p)'
  <2>1. h \in Pg!Linking(p) /\ clerk'[h] = clerk[h]
    BY <1>2, <1>9
  <2> QED
    BY <1>3, <1>4, <1>5, <1>6, <1>7, <2>1
<1>10. \A g, h \in (Pg!Linking(p))' : g = h
  BY <1>2, <1>7
<1> QED
  BY <1>8, <1>9, <1>10 DEF LinksOf

-----------------------------------------------------------------------------
LEMMA Unmoved ==
  ASSUME PagesInv, UNCHANGED page
  PROVE  /\ StatesKept /\ (\A q \in Pages : ParentKept(q)) /\ (\A q \in Pages : Pg!Present(q)' => PageShape(q)')
         /\ page' = [q \in Pages |-> page'[q]]
  BY DEF PagesInv, PagesTyped, StatesKept, ParentKept, PageShape, Pg!Present

(* A request that makes no links goes on.                                  *)
LEMMA ClerkStep ==
  ASSUME PagesInv, NEW h \in Handlers, UNCHANGED <<page, links, since, overlapped, unlinked, tangled>>,
         blind => blind', clerk' = [g \in Handlers |-> clerk'[g]],
         \A g \in Handlers \ {h} : clerk'[g] = clerk[g],
         clerk[h].at \notin {"clear", "link"}, clerk'[h].at \notin {"clear", "link"},
         ClerkShape(h)', WalkOf(h)'
  PROVE  PagesInv'
<1>1. /\ StatesKept /\ (\A q \in Pages : ParentKept(q)) /\ (\A q \in Pages : Pg!Present(q)' => PageShape(q)')
      /\ page' = [q \in Pages |-> page'[q]]
  BY Unmoved
<1>2. HistoryKept
  BY DEF HistoryKept
<1>3. \A g \in Handlers \ {h} : ClerkShape(g)'
  BY <1>1, ShapeFrame DEF PagesInv, PagesTyped
<1>4. PagesTyped'
  BY <1>1, <1>3 DEF PagesInv, PagesTyped
<1>5. TreeAcyclic'
  BY <1>1, <1>2, TreeFrame DEF PagesInv
<1>6. ASSUME NEW g \in Handlers \ {h} PROVE WalkOf(g)'
  <2>1. WalkOf(g) /\ ClerkShape(g)
    BY DEF PagesInv, PagesTyped
  <2>2. clerk[g].at \in {"walk", "move"} => clerk[g].seen \subseteq Pages
    BY <2>1 DEF ClerkShape
  <2> QED
    BY <1>1, <1>2, <2>1, <2>2, WalkFrame
<1>7. ASSUME NEW p \in Pages PROVE SinceOf(p)' /\ LinksOf(p)'
  <2>1. SinceOf(p)'
    BY <1>1, SinceFrame DEF PagesInv
  <2>2. LinksOf(p)'
    <3>1. Pg!Present(p)' = Pg!Present(p) /\ page'[p] = page[p]
      BY DEF Pg!Present
    <3> QED
      BY <1>1, <3>1, LinkFrame DEF PagesInv
  <2> QED
    BY <2>1, <2>2
<1> QED
  BY <1>4, <1>5, <1>6, <1>7 DEF PagesInv

LEMMA ClerkIs ==
  ASSUME PagesInv, NEW h \in Handlers, NEW c, clerk' = [clerk EXCEPT ![h] = c]
  PROVE  /\ clerk'[h] = c /\ clerk' = [g \in Handlers |-> clerk'[g]]
         /\ \A g \in Handlers \ {h} : clerk'[g] = clerk[g]
BY DEF PagesInv, PagesTyped

(* A request to save a page, until it writes.                              *)
LEMMA SaveBegins ==
  ASSUME PagesInv, NEW h \in Handlers, NEW s \in Members, NEW p \in Pages,
         Pg!update(h, s, p) \/ Pg!restoreVersion(h, s, p)
  PROVE  PagesInv'
<1>1. PICK at \in {"write", "consider", "snapshot"} : \E body, old :
        clerk' = [clerk EXCEPT ![h] = [at |-> at, page |-> p, body |-> body, old |-> old]]
  BY DEF Pg!update, Pg!restoreVersion, Pg!Goes
<1>9. PICK body, old : clerk' = [clerk EXCEPT ![h] = [at |-> at, page |-> p, body |-> body, old |-> old]]
  BY <1>1
<1>2. /\ UNCHANGED <<page, links, since, overlapped, unlinked, tangled, blind>> /\ Pg!Present(p)
      /\ clerk[h] = Pg!Idle
  BY DEF Pg!update, Pg!restoreVersion, Pg!Takes
<1> DEFINE c == [at |-> at, page |-> p, body |-> body, old |-> old]
<1>3. c.at = at /\ c.page = p /\ DOMAIN c = {"at", "page", "body", "old"}
  OBVIOUS
<1>4. clerk' = [clerk EXCEPT ![h] = c]
  BY <1>9
<1> HIDE DEF c
<1>5. /\ clerk'[h] = c /\ clerk' = [g \in Handlers |-> clerk'[g]]
      /\ \A g \in Handlers \ {h} : clerk'[g] = clerk[g]
  BY <1>4, ClerkIs
<1>6. ClerkShape(h)'
  BY <1>2, <1>3, <1>5 DEF ClerkShape, Pg!Present
<1>7. WalkOf(h)'
  BY <1>3, <1>5 DEF WalkOf
<1>8. clerk[h].at \notin {"clear", "link"} /\ clerk'[h].at \notin {"clear", "link"}
  BY <1>2, <1>3, <1>5, PageStates
<1> QED
  BY <1>2, <1>5, <1>6, <1>7, <1>8, ClerkStep

LEMMA SaveGoesOn ==
  ASSUME PagesInv, NEW h \in Handlers, Pg!considers(h) \/ Pg!snapshots(h)
  PROVE  PagesInv'
<1>1. PICK at \in {"write", "snapshot"} : clerk' = [clerk EXCEPT ![h] = [clerk[h] EXCEPT !.at = at]]
  BY DEF Pg!considers, Pg!snapshots, Pg!Goes
<1>2. /\ UNCHANGED <<page, links, since, overlapped, unlinked, tangled, blind>>
      /\ clerk[h].at \in {"consider", "snapshot"}
  BY DEF Pg!considers, Pg!snapshots
<1>3. ClerkShape(h) /\ clerk = [g \in Handlers |-> clerk[g]]
  BY DEF PagesInv, PagesTyped
<1>4. DOMAIN clerk[h] = {"at", "page", "body", "old"}
  BY <1>2, <1>3 DEF ClerkShape
<1>5. /\ clerk'[h] = [clerk[h] EXCEPT !.at = at] /\ clerk' = [g \in Handlers |-> clerk'[g]]
      /\ \A g \in Handlers \ {h} : clerk'[g] = clerk[g]
  BY <1>1, <1>3
<1>6. clerk'[h].at = at /\ clerk'[h].page = clerk[h].page /\ DOMAIN clerk'[h] = {"at", "page", "body", "old"}
  BY <1>4, <1>5
<1>7. ClerkShape(h)'
  BY <1>2, <1>3, <1>6 DEF ClerkShape
<1>8. WalkOf(h)'
  BY <1>6 DEF WalkOf
<1> QED
  BY <1>2, <1>5, <1>6, <1>7, <1>8, ClerkStep

LEMMA FailStep ==
  ASSUME PagesInv, NEW h \in Handlers, Pg!fails(h)
  PROVE  PagesInv'
<1>1. PICK c : c = Pg!Idle
  OBVIOUS
<1>2. /\ UNCHANGED <<page, links, since, overlapped, unlinked, tangled, blind>>
      /\ clerk[h].at \in {"write", "move"} /\ clerk' = [clerk EXCEPT ![h] = c]
  BY <1>1 DEF Pg!fails, Pg!Goes
<1>3. /\ clerk'[h] = c /\ clerk' = [g \in Handlers |-> clerk'[g]]
      /\ \A g \in Handlers \ {h} : clerk'[g] = clerk[g]
  BY <1>2, ClerkIs
<1>4. clerk'[h].at = "idle"
  BY <1>1, <1>3, PageStates
<1>5. ClerkShape(h)' /\ WalkOf(h)'
  BY <1>4 DEF ClerkShape, WalkOf
<1> QED
  BY <1>2, <1>3, <1>4, <1>5, ClerkStep

LEMMA MoveBegins ==
  ASSUME PagesInv, NEW h \in Handlers, NEW p \in Pages, Pg!setParent(h, p)
  PROVE  PagesInv'
<1>1. PICK parent \in {q \in Pages \ {p} : page[q] # Pg!Unused} \cup {None} :
        clerk' = [clerk EXCEPT ![h] = [at |-> IF parent = None THEN "move" ELSE "walk", page |-> p,
                                       parent |-> parent, cur |-> parent, seen |-> {}, hops |-> 0]]
  BY DEF Pg!setParent, Pg!Goes
<1>2. /\ UNCHANGED <<page, links, since, overlapped, unlinked, tangled, blind>> /\ page[p] # Pg!Unused
      /\ clerk[h] = Pg!Idle
  BY DEF Pg!setParent, Pg!Takes
<1> DEFINE c == [at |-> IF parent = None THEN "move" ELSE "walk", page |-> p,
                 parent |-> parent, cur |-> parent, seen |-> {}, hops |-> 0]
<1>3. /\ c.at = (IF parent = None THEN "move" ELSE "walk") /\ c.page = p /\ c.parent = parent /\ c.cur = parent
      /\ c.seen = {} /\ DOMAIN c = {"at", "page", "parent", "cur", "seen", "hops"}
  OBVIOUS
<1>4. clerk' = [clerk EXCEPT ![h] = c]
  BY <1>1
<1> HIDE DEF c
<1>5. /\ clerk'[h] = c /\ clerk' = [g \in Handlers |-> clerk'[g]]
      /\ \A g \in Handlers \ {h} : clerk'[g] = clerk[g]
  BY <1>4, ClerkIs
<1>6. ClerkShape(h)'
  BY <1>1, <1>2, <1>3, <1>5 DEF ClerkShape
<1>7. WalkOf(h)'
  BY <1>1, <1>3, <1>5 DEF WalkOf
<1>8. clerk[h].at \notin {"clear", "link"} /\ clerk'[h].at \notin {"clear", "link"}
  BY <1>2, <1>3, <1>5, PageStates
<1> QED
  BY <1>2, <1>5, <1>6, <1>7, <1>8, ClerkStep

(* A round of the walk.                                                    *)
LEMMA WalkStep ==
  ASSUME PagesInv, NEW h \in Handlers, Pg!walks(h)
  PROVE  PagesInv'
<1>1. UNCHANGED <<page, links, since, overlapped, unlinked, tangled>> /\ clerk[h].at = "walk"
  BY DEF Pg!walks
<1>2. ClerkShape(h) /\ WalkOf(h) /\ clerk = [g \in Handlers |-> clerk[g]]
  BY DEF PagesInv, PagesTyped
<1>3. /\ clerk[h].page \in Pages /\ page[clerk[h].page] # Pg!Unused
      /\ DOMAIN clerk[h] = {"at", "page", "parent", "cur", "seen", "hops"}
      /\ clerk[h].seen \subseteq Pages /\ {clerk[h].cur, clerk[h].parent} \subseteq Pages \cup {None}
      /\ \A q \in clerk[h].seen \cup {clerk[h].cur} : q = None \/ page[q] # Pg!Unused
  BY <1>1, <1>2 DEF ClerkShape
<1>4. CASE clerk' = [clerk EXCEPT ![h] = Pg!Idle] /\ UNCHANGED blind
  <2>1. /\ clerk'[h] = Pg!Idle /\ clerk' = [g \in Handlers |-> clerk'[g]]
        /\ \A g \in Handlers \ {h} : clerk'[g] = clerk[g]
    BY <1>2, <1>4
  <2>2. clerk'[h].at = "idle"
    BY <2>1, PageStates
  <2>3. ClerkShape(h)' /\ WalkOf(h)'
    BY <2>2 DEF ClerkShape, WalkOf
  <2> QED
    BY <1>1, <1>4, <2>1, <2>2, <2>3, ClerkStep
<1>5. CASE /\ clerk[h].cur \notin {clerk[h].page, None} /\ Pg!Present(clerk[h].cur) /\ UNCHANGED blind
           /\ clerk' = [clerk EXCEPT ![h] =
                [clerk[h] EXCEPT !.cur = page[clerk[h].cur].parent, !.seen = clerk[h].seen \cup {clerk[h].cur},
                                 !.hops = clerk[h].hops + 1]]
  <2>1. /\ clerk' = [g \in Handlers |-> clerk'[g]] /\ \A g \in Handlers \ {h} : clerk'[g] = clerk[g]
        /\ clerk'[h] = [clerk[h] EXCEPT !.cur = page[clerk[h].cur].parent, !.seen = clerk[h].seen \cup {clerk[h].cur},
                                        !.hops = clerk[h].hops + 1]
    BY <1>2, <1>5
  <2>2. /\ clerk'[h].at = "walk" /\ clerk'[h].page = clerk[h].page /\ clerk'[h].parent = clerk[h].parent
        /\ clerk'[h].cur = page[clerk[h].cur].parent /\ clerk'[h].seen = clerk[h].seen \cup {clerk[h].cur}
        /\ DOMAIN clerk'[h] = {"at", "page", "parent", "cur", "seen", "hops"}
    BY <1>1, <1>3, <2>1
  <2>3. PageShape(clerk[h].cur) /\ clerk[h].cur \in Pages
    BY <1>3, <1>5 DEF PagesInv, PagesTyped
  <2>4. ClerkShape(h)'
    <3>1. clerk'[h].cur \in Pages \cup {None} /\ (clerk'[h].cur # None => page[clerk'[h].cur] # Pg!Unused)
      BY <2>2, <2>3 DEF PageShape, Pg!Present
    <3>2. clerk'[h].seen \subseteq Pages /\ \A q \in clerk'[h].seen : q = None \/ page[q] # Pg!Unused
      BY <1>3, <2>2, <2>3
    <3> QED
      BY <1>1, <1>3, <2>2, <3>1, <3>2 DEF ClerkShape
  <2>5. WalkOf(h)'
    <3> SUFFICES ASSUME ~tangled PROVE WalkOf(h)'
      BY <1>1 DEF WalkOf
    <3>1. /\ clerk[h].parent \in clerk[h].seen \cup {clerk[h].cur} /\ clerk[h].page \notin clerk[h].seen
          /\ \A q \in clerk[h].seen : Pg!Present(q) => page[q].parent \in clerk[h].seen \cup {clerk[h].cur, None}
      BY <1>1, <1>2 DEF WalkOf
    <3>2. clerk'[h].parent \in clerk'[h].seen \cup {clerk'[h].cur} /\ clerk'[h].page \notin clerk'[h].seen
      BY <1>5, <2>2, <3>1
    <3>3. ASSUME NEW q \in clerk'[h].seen, Pg!Present(q)' PROVE page'[q].parent \in clerk'[h].seen \cup {clerk'[h].cur, None}
      BY <1>1, <2>2, <3>1, <3>3 DEF Pg!Present
    <3> QED
      BY <2>2, <3>2, <3>3 DEF WalkOf
  <2> QED
    BY <1>1, <1>5, <2>1, <2>2, <2>4, <2>5, ClerkStep
<1>6. CASE /\ clerk' = [clerk EXCEPT ![h] = [clerk[h] EXCEPT !.at = "move"]]
           /\ \/ blind'
              \/ (blind => blind') /\ (clerk[h].cur = None \/ ~Pg!Present(clerk[h].cur))
  <2>1. /\ clerk' = [g \in Handlers |-> clerk'[g]] /\ \A g \in Handlers \ {h} : clerk'[g] = clerk[g]
        /\ clerk'[h] = [clerk[h] EXCEPT !.at = "move"]
    BY <1>2, <1>6
  <2>2. /\ clerk'[h].at = "move" /\ clerk'[h].page = clerk[h].page /\ clerk'[h].parent = clerk[h].parent
        /\ clerk'[h].cur = clerk[h].cur /\ clerk'[h].seen = clerk[h].seen
        /\ DOMAIN clerk'[h] = {"at", "page", "parent", "cur", "seen", "hops"}
    BY <1>3, <2>1
  <2>3. ClerkShape(h)'
    BY <1>1, <1>3, <2>2 DEF ClerkShape
  <2>4. WalkOf(h)'
    <3> SUFFICES ASSUME ~tangled PROVE WalkOf(h)'
      BY <1>1 DEF WalkOf
    <3>1. /\ clerk[h].parent \in clerk[h].seen \cup {clerk[h].cur} /\ clerk[h].page \notin clerk[h].seen
          /\ \A q \in clerk[h].seen : Pg!Present(q) => page[q].parent \in clerk[h].seen \cup {clerk[h].cur, None}
      BY <1>1, <1>2 DEF WalkOf
    <3>2. ~blind' => clerk[h].cur = None \/ page[clerk[h].cur] = Pg!Deleted
      BY <1>3, <1>6 DEF Pg!Present
    <3>3. ASSUME NEW q \in clerk'[h].seen, Pg!Present(q)' PROVE page'[q].parent \in clerk'[h].seen \cup {clerk'[h].cur, None}
      BY <1>1, <2>2, <3>1, <3>3 DEF Pg!Present
    <3>4. ~blind' => clerk'[h].cur = None \/ page'[clerk'[h].cur] = Pg!Deleted
      BY <1>1, <2>2, <3>2
    <3> QED
      BY <2>2, <3>1, <3>3, <3>4 DEF WalkOf
  <2>5. blind => blind'
    BY <1>6
  <2> QED
    BY <1>1, <2>1, <2>2, <2>3, <2>4, <2>5, ClerkStep
<1>7. \/ clerk' = [clerk EXCEPT ![h] = Pg!Idle] /\ UNCHANGED blind
      \/ /\ clerk[h].cur \notin {clerk[h].page, None} /\ Pg!Present(clerk[h].cur) /\ UNCHANGED blind
         /\ clerk' = [clerk EXCEPT ![h] =
              [clerk[h] EXCEPT !.cur = page[clerk[h].cur].parent, !.seen = clerk[h].seen \cup {clerk[h].cur},
                               !.hops = clerk[h].hops + 1]]
      \/ /\ clerk' = [clerk EXCEPT ![h] = [clerk[h] EXCEPT !.at = "move"]]
         /\ \/ blind'
            \/ (blind => blind') /\ (clerk[h].cur = None \/ ~Pg!Present(clerk[h].cur))
  <2> DEFINE c == clerk[h]
             Stops == clerk' = [clerk EXCEPT ![h] = Pg!Idle] /\ UNCHANGED blind
             Climbs == clerk' = [clerk EXCEPT ![h] = [c EXCEPT !.cur = page[c.cur].parent,
                                                               !.seen = c.seen \cup {c.cur}, !.hops = c.hops + 1]]
             Ends == clerk' = [clerk EXCEPT ![h] = [c EXCEPT !.at = "move"]]
  <2>1. \/ Stops
        \/ /\ c.cur \notin {c.page, None}
           /\ \/ Pg!Present(c.cur) /\ Climbs /\ UNCHANGED blind
              \/ Ends /\ blind'
              \/ ~Pg!Present(c.cur) /\ Ends /\ UNCHANGED blind
        \/ Ends /\ blind' = (blind \/ c.cur # None)
    BY DEF Pg!walks, Pg!Goes, Pg!Above, Pg!GetPage
  <2>2. ASSUME blind' = (blind \/ c.cur # None) PROVE blind' \/ ((blind => blind') /\ c.cur = None)
    BY <2>2
  <2> QED
    BY <2>1, <2>2
<1> QED
  BY <1>4, <1>5, <1>6, <1>7

-----------------------------------------------------------------------------
(* A save of page p goes on with its links.                                *)
LEMMA LinkingStep ==
  ASSUME PagesInv, NEW h \in Handlers, NEW p \in Pages, clerk[h].at \in {"clear", "link"}, clerk[h].page = p,
         UNCHANGED <<page, since, overlapped, blind, tangled>>, unlinked \subseteq unlinked',
         clerk' = [g \in Handlers |-> clerk'[g]], \A g \in Handlers \ {h} : clerk'[g] = clerk[g],
         clerk'[h].at \notin {"walk", "move"}, ClerkShape(h)',
         clerk'[h].at \in {"clear", "link"} => clerk'[h].page = p,
         \A q \in Pages \ {p}, t \in Pages : <<q, t>> \in links' <=> <<q, t>> \in links,
         LinksOf(p)'
  PROVE  PagesInv'
<1>1. /\ StatesKept /\ (\A q \in Pages : ParentKept(q)) /\ (\A q \in Pages : Pg!Present(q)' => PageShape(q)')
      /\ page' = [q \in Pages |-> page'[q]]
  BY Unmoved
<1>2. HistoryKept
  BY DEF HistoryKept
<1>3. \A g \in Handlers \ {h} : ClerkShape(g)'
  BY <1>1, ShapeFrame DEF PagesInv, PagesTyped
<1>4. PagesTyped'
  BY <1>1, <1>3 DEF PagesInv, PagesTyped
<1>5. TreeAcyclic'
  BY <1>1, <1>2, TreeFrame DEF PagesInv
<1>6. ASSUME NEW g \in Handlers PROVE WalkOf(g)'
  <2>1. CASE g = h
    BY <2>1 DEF WalkOf
  <2>2. CASE g # h
    <3>1. WalkOf(g) /\ ClerkShape(g)
      BY DEF PagesInv, PagesTyped
    <3>2. clerk[g].at \in {"walk", "move"} => clerk[g].seen \subseteq Pages
      BY <3>1 DEF ClerkShape
    <3> QED
      BY <1>1, <1>2, <2>2, <3>1, <3>2, WalkFrame
  <2> QED
    BY <2>1, <2>2
<1>7. ASSUME NEW q \in Pages \ {p} PROVE LinksOf(q)'
  <2>1. Pg!Present(q)' = Pg!Present(q) /\ page'[q] = page[q]
    BY DEF Pg!Present
  <2>2. LinksOf(q) /\ SinceOf(q)
    BY DEF PagesInv
  <2>3. \A g \in Handlers : \/ clerk'[g] = clerk[g]
                            \/ /\ clerk[g].at \in {"clear", "link"} => clerk[g].page # q
                               /\ clerk'[g].at \in {"clear", "link"} => clerk'[g].page # q
    OBVIOUS
  <2> QED
    BY <1>1, <2>1, <2>2, <2>3, LinkFrame
<1>8. \A q \in Pages : SinceOf(q)'
  BY <1>1, SinceFrame DEF PagesInv
<1> QED
  BY <1>4, <1>5, <1>6, <1>7, <1>8 DEF PagesInv

LEMMA ClearStep ==
  ASSUME PagesInv, NEW h \in Handlers, Pg!syncClears(h)
  PROVE  PagesInv'
<1>1. clerk[h].at = "clear" /\ UNCHANGED <<page, since, overlapped, blind, tangled>>
  BY DEF Pg!syncClears
<1>2. ClerkShape(h) /\ clerk = [g \in Handlers |-> clerk[g]]
  BY DEF PagesInv, PagesTyped
<1>3. PICK p \in Pages : p = clerk[h].page
  BY <1>1, <1>2 DEF ClerkShape
<1>4. DOMAIN clerk[h] = {"at", "page", "body"} /\ page[p] # Pg!Unused
  BY <1>1, <1>2, <1>3 DEF ClerkShape
<1>5. /\ clerk' = [clerk EXCEPT ![h] = [clerk[h] EXCEPT !.at = "link"]]
      /\ \/ links' = {l \in links : l[1] # p} /\ unlinked' = unlinked
         \/ unlinked' = unlinked \cup {p} /\ links' = links
  BY <1>3 DEF Pg!syncClears, Pg!Goes, Pg!Unless, Pg!ClearPageLinks
<1>6. /\ clerk' = [g \in Handlers |-> clerk'[g]] /\ \A g \in Handlers \ {h} : clerk'[g] = clerk[g]
      /\ clerk'[h] = [clerk[h] EXCEPT !.at = "link"]
  BY <1>2, <1>5
<1>7. /\ clerk'[h].at = "link" /\ clerk'[h].page = p /\ clerk'[h].body = clerk[h].body
      /\ DOMAIN clerk'[h] = {"at", "page", "body"}
  BY <1>3, <1>4, <1>6
<1>8. ClerkShape(h)'
  BY <1>1, <1>4, <1>7 DEF ClerkShape
<1>9. \A q \in Pages \ {p}, t \in Pages : <<q, t>> \in links' <=> <<q, t>> \in links
  BY <1>5
<1>10. LinksOf(p)'
  <2> SUFFICES ASSUME Pg!Present(p)', p \notin overlapped' \cup unlinked' PROVE LinksOf(p)'
    BY DEF LinksOf
  <2>1. Pg!Present(p) /\ p \notin overlapped \cup unlinked /\ links' = {l \in links : l[1] # p}
    BY <1>1, <1>5 DEF Pg!Present
  <2>2. h \in Pg!Linking(p)
    BY <1>1, <1>3 DEF Pg!Linking
  <2>3. (Pg!Linking(p))' = Pg!Linking(p)
    BY <1>1, <1>3, <1>6, <1>7 DEF Pg!Linking
  <2>4. LinksOf(p)
    BY DEF PagesInv
  <2>5. (\A g \in Pg!Linking(p) : g = h) /\ clerk[h].body = page[p].body
    BY <1>1, <2>1, <2>2, <2>4 DEF LinksOf
  <2>6. Linked(p)' = {}
    BY <2>1 DEF Linked
  <2>7. Wanted(p)' \ clerk'[h].body = {}
    BY <1>1, <1>7, <2>5 DEF Wanted, Meant
  <2>8. clerk'[h].body \subseteq page'[p].body
    BY <1>1, <1>7, <2>5
  <2> QED
    BY <1>7, <2>2, <2>3, <2>5, <2>6, <2>7, <2>8 DEF LinksOf
<1> QED
  BY <1>1, <1>3, <1>5, <1>6, <1>7, <1>8, <1>9, <1>10, LinkingStep

LEMMA LinkStep ==
  ASSUME PagesInv, NEW h \in Handlers, Pg!syncLinks(h)
  PROVE  PagesInv'
<1>1. clerk[h].at = "link" /\ UNCHANGED <<page, since, overlapped, blind, tangled>>
  BY DEF Pg!syncLinks
<1>2. ClerkShape(h) /\ clerk = [g \in Handlers |-> clerk[g]]
  BY DEF PagesInv, PagesTyped
<1>3. PICK p \in Pages : p = clerk[h].page
  BY <1>1, <1>2 DEF ClerkShape
<1>4. DOMAIN clerk[h] = {"at", "page", "body"} /\ page[p] # Pg!Unused
  BY <1>1, <1>2, <1>3 DEF ClerkShape
<1>5. PICK t \in clerk[h].body :
        /\ clerk' = [clerk EXCEPT ![h] = [clerk[h] EXCEPT !.body = clerk[h].body \ {t}]]
        /\ IF Pg!FindPageByTitle(t) \in {None, p} THEN UNCHANGED <<links, unlinked>>
           ELSE Pg!Unless(p, Pg!InsertPageLink(p, t))
  BY <1>3 DEF Pg!syncLinks, Pg!Goes
<1>6. /\ clerk' = [g \in Handlers |-> clerk'[g]] /\ \A g \in Handlers \ {h} : clerk'[g] = clerk[g]
      /\ clerk'[h] = [clerk[h] EXCEPT !.body = clerk[h].body \ {t}]
  BY <1>2, <1>5
<1>7. /\ clerk'[h].at = "link" /\ clerk'[h].page = p /\ clerk'[h].body = clerk[h].body \ {t}
      /\ DOMAIN clerk'[h] = {"at", "page", "body"}
  BY <1>1, <1>3, <1>4, <1>6
<1>8. ClerkShape(h)'
  BY <1>1, <1>4, <1>7 DEF ClerkShape
<1>9. \/ links' = links /\ unlinked' = unlinked \cup {p}
      \/ links' = links /\ unlinked' = unlinked
         /\ (Pg!FindPageByTitle(t) \in {None, p} \/ ~(Pg!Present(p) /\ Pg!Present(t)))
      \/ links' = links \cup {<<p, t>>} /\ unlinked' = unlinked /\ Pg!FindPageByTitle(t) \notin {None, p}
  BY <1>5 DEF Pg!Unless, Pg!InsertPageLink
<1>10. \A q \in Pages \ {p}, x \in Pages : <<q, x>> \in links' <=> <<q, x>> \in links
  BY <1>9
<1>11. LinksOf(p)'
  <2> SUFFICES ASSUME Pg!Present(p)', p \notin overlapped' \cup unlinked' PROVE LinksOf(p)'
    BY DEF LinksOf
  <2>1. Pg!Present(p) /\ p \notin overlapped \cup unlinked
    BY <1>1, <1>9 DEF Pg!Present
  <2>2. h \in Pg!Linking(p)
    BY <1>1, <1>3 DEF Pg!Linking
  <2>3. (Pg!Linking(p))' = Pg!Linking(p)
    BY <1>1, <1>3, <1>6, <1>7 DEF Pg!Linking
  <2>4. LinksOf(p) /\ SinceOf(p)
    BY DEF PagesInv
  <2>5. /\ \A g \in Pg!Linking(p) : g = h
        /\ clerk[h].body \subseteq page[p].body /\ Linked(p) \subseteq Meant(p) /\ Wanted(p) \ clerk[h].body \subseteq Linked(p)
    BY <1>1, <2>1, <2>2, <2>4 DEF LinksOf
  <2>6. Meant(p)' = Meant(p) /\ Wanted(p)' = Wanted(p) /\ page'[p] = page[p]
    BY <1>1 DEF Meant, Wanted, Pg!Present
  <2>7. t \in Wanted(p) => t \in Pages /\ Pg!Present(t) /\ Pg!FindPageByTitle(t) \notin {None, p}
    <3> SUFFICES ASSUME t \in Wanted(p) PROVE t \in Pages /\ Pg!Present(t) /\ Pg!FindPageByTitle(t) \notin {None, p}
      OBVIOUS
    <3>1. t # p /\ t \in since[p] /\ Pg!Present(t)
      BY DEF Wanted, Meant
    <3>2. t \in Pages /\ ~page[t].template
      BY <2>4, <3>1 DEF SinceOf
    <3>3. t \in Pg!Findable
      BY <3>1, <3>2 DEF Pg!Findable
    <3> QED
      BY <3>1, <3>2, <3>3, PageStates DEF Pg!FindPageByTitle
  <2>8. Pg!FindPageByTitle(t) \notin {None, p} => t \in Pages /\ t \in Meant(p)
    BY <1>5, <2>5 DEF Pg!FindPageByTitle, Pg!Findable, Meant
  <2>9. Linked(p) \subseteq Linked(p)' /\ Linked(p)' \subseteq Meant(p)
    <3>1. CASE links' = links
      BY <2>5, <3>1 DEF Linked
    <3>2. CASE links' = links \cup {<<p, t>>} /\ Pg!FindPageByTitle(t) \notin {None, p}
      <4>1. Linked(p)' \subseteq Linked(p) \cup {t} /\ Linked(p) \subseteq Linked(p)'
        BY <3>2 DEF Linked
      <4> QED
        BY <2>5, <2>8, <3>2, <4>1
    <3> QED
      BY <1>9, <3>1, <3>2
  <2>10. t \in Wanted(p) => t \in Linked(p)'
    BY <1>9, <2>1, <2>7 DEF Linked
  <2>11. Wanted(p)' \ clerk'[h].body \subseteq Linked(p)'
    BY <1>7, <2>5, <2>6, <2>9, <2>10
  <2>12. clerk'[h].body \subseteq page'[p].body /\ Linked(p)' \subseteq Meant(p)'
    BY <1>7, <2>5, <2>6, <2>9
  <2> QED
    BY <1>7, <2>2, <2>3, <2>5, <2>11, <2>12 DEF LinksOf
<1>12. unlinked \subseteq unlinked'
  BY <1>9
<1> QED
  BY <1>1, <1>3, <1>6, <1>7, <1>8, <1>10, <1>11, <1>12, LinkingStep

LEMMA SyncEndStep ==
  ASSUME PagesInv, NEW h \in Handlers, Pg!syncEnds(h)
  PROVE  PagesInv'
<1>1. /\ clerk[h].at = "link" /\ clerk[h].body = {} /\ clerk' = [clerk EXCEPT ![h] = Pg!Idle]
      /\ UNCHANGED <<page, links, since, overlapped, unlinked, blind, tangled>>
  BY DEF Pg!syncEnds, Pg!Goes
<1>2. ClerkShape(h) /\ clerk = [g \in Handlers |-> clerk[g]]
  BY DEF PagesInv, PagesTyped
<1>3. PICK p \in Pages : p = clerk[h].page
  BY <1>1, <1>2 DEF ClerkShape
<1>4. /\ clerk' = [g \in Handlers |-> clerk'[g]] /\ \A g \in Handlers \ {h} : clerk'[g] = clerk[g]
      /\ clerk'[h].at = "idle"
  BY <1>1, <1>2, PageStates
<1>5. ClerkShape(h)'
  BY <1>4 DEF ClerkShape
<1>6. LinksOf(p)'
  <2> SUFFICES ASSUME Pg!Present(p), p \notin overlapped \cup unlinked PROVE LinksOf(p)'
    BY <1>1 DEF LinksOf, Pg!Present
  <2>1. h \in Pg!Linking(p) /\ LinksOf(p)
    BY <1>1, <1>3 DEF Pg!Linking, PagesInv
  <2>2. (\A g \in Pg!Linking(p) : g = h) /\ Linked(p) \subseteq Meant(p) /\ Wanted(p) \subseteq Linked(p)
    BY <1>1, <2>1 DEF LinksOf
  <2>3. (Pg!Linking(p))' = {}
    BY <1>4, <2>2 DEF Pg!Linking
  <2>4. Meant(p)' = Meant(p) /\ Wanted(p)' = Wanted(p) /\ Linked(p)' = Linked(p)
    BY <1>1 DEF Meant, Wanted, Linked, Pg!Present
  <2> QED
    BY <2>2, <2>3, <2>4 DEF LinksOf
<1>7. \A q \in Pages \ {p}, x \in Pages : <<q, x>> \in links' <=> <<q, x>> \in links
  BY <1>1
<1> QED
  BY <1>1, <1>3, <1>4, <1>5, <1>6, <1>7, LinkingStep

-----------------------------------------------------------------------------
(* Pages change, but not in their bodies, and no request goes on.          *)
LEMMA PageStep ==
  ASSUME PagesInv, StatesKept, \A q \in Pages : ParentKept(q), page' = [q \in Pages |-> page'[q]],
         \A q \in Pages : Pg!Present(q)' => PageShape(q)' /\ page'[q].body = page[q].body,
         UNCHANGED <<clerk, since, overlapped, unlinked, blind, tangled>>,
         \A q, t \in Pages : /\ <<q, t>> \in links' => <<q, t>> \in links
                             /\ <<q, t>> \in links /\ Pg!Present(t)' /\ Pg!Present(q)' => <<q, t>> \in links'
  PROVE  PagesInv'
<1>1. HistoryKept
  BY DEF HistoryKept
<1>2. \A g \in Handlers : ClerkShape(g)'
  BY ShapeFrame DEF PagesInv, PagesTyped
<1>3. PagesTyped'
  BY <1>2 DEF PagesInv, PagesTyped
<1>4. TreeAcyclic'
  BY <1>1, TreeFrame DEF PagesInv
<1>5. ASSUME NEW g \in Handlers PROVE WalkOf(g)'
  <2>1. WalkOf(g) /\ ClerkShape(g)
    BY DEF PagesInv, PagesTyped
  <2>2. clerk[g].at \in {"walk", "move"} => clerk[g].seen \subseteq Pages
    BY <2>1 DEF ClerkShape
  <2>3. \A q \in Pages : page[q] = Pg!Deleted => page'[q] = Pg!Deleted
    BY PageStates DEF StatesKept
  <2> QED
    BY <1>1, <2>1, <2>2, <2>3, WalkFrame
<1>6. ASSUME NEW q \in Pages PROVE SinceOf(q)' /\ LinksOf(q)'
  <2>1. SinceOf(q) /\ LinksOf(q)
    BY DEF PagesInv
  <2>2. Pg!Present(q)' => /\ Pg!Present(q) /\ page'[q].body = page[q].body /\ page'[q].template = page[q].template
    BY DEF StatesKept, ParentKept, Pg!Present
  <2> QED
    BY <2>1, <2>2, SinceFrame, LinkFrame
<1> QED
  BY <1>3, <1>4, <1>5, <1>6 DEF PagesInv

LEMMA ShareStep ==
  ASSUME PagesInv, UNCHANGED <<page, clerk, links, since, overlapped, unlinked, blind, tangled>>
  PROVE  PagesInv'
<1>1. /\ StatesKept /\ (\A q \in Pages : ParentKept(q)) /\ (\A q \in Pages : Pg!Present(q)' => PageShape(q)')
      /\ page' = [q \in Pages |-> page'[q]]
  BY Unmoved
<1> QED
  BY <1>1, PageStep

LEMMA VisibilityStep ==
  ASSUME PagesInv, NEW s \in Members, NEW p \in Pages, Pg!setVisibility(s, p)
  PROVE  PagesInv'
<1>1. PICK visibility : page' = [page EXCEPT ![p].visibility = visibility]
  BY DEF Pg!setVisibility, Pg!SetPageVisibility
<1>2. Pg!Present(p) /\ UNCHANGED <<links, clerk, since, overlapped, unlinked, blind, tangled>>
  BY DEF Pg!setVisibility, Pg!canManage
<1>3. PageShape(p) /\ page = [q \in Pages |-> page[q]]
  BY <1>2 DEF PagesInv, PagesTyped
<1>4. /\ page' = [q \in Pages |-> page'[q]] /\ \A q \in Pages \ {p} : page'[q] = page[q]
      /\ page'[p] = [page[p] EXCEPT !.visibility = visibility]
  BY <1>1, <1>3
<1>5. /\ page'[p].state = "live" /\ page'[p].parent = page[p].parent /\ page'[p].body = page[p].body
      /\ page'[p].template = page[p].template
      /\ {"state", "parent", "body", "template", "visibility"} \subseteq DOMAIN page'[p]
  BY <1>3, <1>4 DEF PageShape
<1>6. ASSUME NEW q \in Pages PROVE Pg!Present(q)' <=> Pg!Present(q)
  <2>1. Pg!Present(p)'
    BY <1>5, PageStates DEF Pg!Present
  <2> QED
    BY <1>2, <1>4, <2>1 DEF Pg!Present
<1>7. ASSUME NEW q \in Pages, Pg!Present(q)
      PROVE  /\ page'[q].parent = page[q].parent /\ page'[q].body = page[q].body
             /\ page'[q].template = page[q].template /\ PageShape(q)'
  <2>1. PageShape(q)
    BY <1>7 DEF PagesInv, PagesTyped
  <2>2. /\ page'[q].parent = page[q].parent /\ page'[q].body = page[q].body /\ page'[q].template = page[q].template
        /\ page'[q].state = "live" /\ {"state", "parent", "body", "template", "visibility"} \subseteq DOMAIN page'[q]
    BY <1>4, <1>5, <2>1 DEF PageShape
  <2> QED
    BY <1>6, <2>1, <2>2 DEF PageShape
<1>8. StatesKept
  <2>1. ASSUME NEW q \in Pages, page[q] # Pg!Unused PROVE page'[q] # Pg!Unused /\ (page[q] = Pg!Deleted => page'[q] = Pg!Deleted)
    BY <1>2, <1>4, <1>6, <2>1 DEF Pg!Present
  <2> QED
    BY <1>6, <1>7, <2>1 DEF StatesKept
<1>9. \A q \in Pages : ParentKept(q)
  BY <1>6, <1>7 DEF ParentKept
<1> QED
  BY <1>2, <1>4, <1>6, <1>7, <1>8, <1>9, PageStep

LEMMA DeleteStep ==
  ASSUME PagesInv, NEW s \in Members, NEW p \in Pages, Pg!delete(s, p)
  PROVE  PagesInv'
<1>1. /\ page' = [q \in Pages |-> IF q = p THEN Pg!Deleted
                                  ELSE IF Pg!Present(q) /\ page[q].parent = p THEN [page[q] EXCEPT !.parent = None]
                                  ELSE page[q]]
      /\ links' = {l \in links : p \notin {l[1], l[2]}}
      /\ Pg!Present(p) /\ UNCHANGED <<clerk, since, overlapped, unlinked, blind, tangled>>
  BY DEF Pg!delete, Pg!DeletePage, Pg!canManage
<1>2. page'[p] = Pg!Deleted /\ ~Pg!Present(p)'
  BY <1>1 DEF Pg!Present
<1>3. ASSUME NEW q \in Pages \ {p}, Pg!Present(q)
      PROVE  /\ page'[q].state = "live" /\ {"state", "parent", "body", "template", "visibility"} \subseteq DOMAIN page'[q]
             /\ page'[q].body = page[q].body /\ page'[q].template = page[q].template
             /\ page'[q].parent = IF page[q].parent = p THEN None ELSE page[q].parent
             /\ Pg!Present(q)'
  <2>1. PageShape(q)
    BY <1>3 DEF PagesInv, PagesTyped
  <2>2. page'[q] = IF page[q].parent = p THEN [page[q] EXCEPT !.parent = None] ELSE page[q]
    BY <1>1, <1>3
  <2>3. /\ page'[q].state = "live" /\ {"state", "parent", "body", "template", "visibility"} \subseteq DOMAIN page'[q]
        /\ page'[q].body = page[q].body /\ page'[q].template = page[q].template
        /\ page'[q].parent = IF page[q].parent = p THEN None ELSE page[q].parent
    BY <2>1, <2>2 DEF PageShape
  <2> QED
    BY <2>3, PageStates DEF Pg!Present
<1>4. ASSUME NEW q \in Pages \ {p}, ~Pg!Present(q) PROVE page'[q] = page[q] /\ ~Pg!Present(q)'
  BY <1>1, <1>4 DEF Pg!Present
<1>5. StatesKept
  <2>1. Pg!Deleted # Pg!Unused
    BY PageStates
  <2>2. ASSUME NEW q \in Pages, page[q] # Pg!Unused
        PROVE  /\ page'[q] # Pg!Unused
               /\ page[q] = Pg!Deleted => page'[q] = Pg!Deleted
               /\ Pg!Present(q)' => Pg!Present(q) /\ page'[q].template = page[q].template
    <3>1. CASE q = p
      BY <1>2, <2>1, <3>1
    <3>2. CASE q # p /\ Pg!Present(q)
      BY <1>3, <3>2 DEF Pg!Present
    <3>3. CASE q # p /\ ~Pg!Present(q)
      BY <1>4, <2>2, <3>3
    <3> QED
      BY <3>1, <3>2, <3>3
  <2> QED
    BY <2>2 DEF StatesKept
<1>6. \A q \in Pages : ParentKept(q)
  BY <1>2, <1>3, <1>4 DEF ParentKept
<1>7. ASSUME NEW q \in Pages, Pg!Present(q)' PROVE PageShape(q)' /\ page'[q].body = page[q].body
  <2>1. q # p /\ Pg!Present(q)
    BY <1>2, <1>4, <1>7
  <2>2. PageShape(q)
    BY <2>1 DEF PagesInv, PagesTyped
  <2>3. (page[q].parent # None => page[q].parent \in Pages /\ Pg!Present(page[q].parent))'
    <3>1. ASSUME page'[q].parent # None
          PROVE  page'[q].parent = page[q].parent /\ page[q].parent # p /\ page[q].parent # None
      BY <1>3, <2>1, <3>1
    <3>2. ASSUME page[q].parent # None PROVE page[q].parent \in Pages /\ Pg!Present(page[q].parent)
      BY <2>2, <3>2 DEF PageShape
    <3>3. ASSUME NEW r \in Pages \ {p}, Pg!Present(r) PROVE Pg!Present(r)'
      BY <1>3, <3>3
    <3>4. ASSUME page'[q].parent # None PROVE \E r \in Pages \ {p} : Pg!Present(r) /\ page'[q].parent = r
      BY <3>1, <3>2, <3>4
    <3>5. ASSUME page'[q].parent # None
          PROVE  page'[q].parent \in Pages /\ page'[page'[q].parent] \notin {Pg!Unused, Pg!Deleted}
      <4>1. PICK r \in Pages \ {p} : Pg!Present(r) /\ page'[q].parent = r
        BY <3>4, <3>5
      <4>2. page'[r] \notin {Pg!Unused, Pg!Deleted}
        BY <3>3, <4>1 DEF Pg!Present
      <4> QED
        BY <4>1, <4>2
    <3> QED
      BY <3>5 DEF Pg!Present
  <2>4. /\ page'[q].state = "live" /\ {"state", "parent", "body", "template", "visibility"} \subseteq DOMAIN page'[q]
        /\ page'[q].body = page[q].body
    BY <1>3, <2>1
  <2> QED
    BY <2>3, <2>4 DEF PageShape
<1>8. \A q, t \in Pages : /\ <<q, t>> \in links' => <<q, t>> \in links
                          /\ <<q, t>> \in links /\ Pg!Present(t)' /\ Pg!Present(q)' => <<q, t>> \in links'
  BY <1>1, <1>2
<1>9. page' = [q \in Pages |-> page'[q]]
  BY <1>1
<1> QED
  BY <1>1, <1>5, <1>6, <1>7, <1>8, <1>9, PageStep

-----------------------------------------------------------------------------
LEMMA WriteStep ==
  ASSUME PagesInv, NEW h \in Handlers, Pg!writes(h)
  PROVE  PagesInv'
<1>1. clerk[h].at = "write" /\ UNCHANGED <<links, unlinked, blind, tangled>>
  BY DEF Pg!writes
<1>2. PICK p \in Pages : p = clerk[h].page
  BY <1>1 DEF PagesInv, PagesTyped, ClerkShape
<1>3. PICK body : body = clerk[h].body
  OBVIOUS
<1> DEFINE c == [at |-> "clear", page |-> p, body |-> body]
<1>4. /\ page' = IF Pg!Present(p) THEN [page EXCEPT ![p].body = body] ELSE page
      /\ since' = [since EXCEPT ![p] = Pg!Findable]
      /\ overlapped' = IF Pg!Linking(p) = {} THEN overlapped ELSE overlapped \cup {p}
      /\ clerk' = [clerk EXCEPT ![h] = c]
  BY <1>2, <1>3 DEF Pg!writes, Pg!UpdatePage, Pg!Goes
<1>5. c.at = "clear" /\ c.page = p /\ c.body = body /\ DOMAIN c = {"at", "page", "body"}
  OBVIOUS
<1> HIDE DEF c
<1>6. /\ clerk'[h] = c /\ clerk' = [g \in Handlers |-> clerk'[g]]
      /\ \A g \in Handlers \ {h} : clerk'[g] = clerk[g]
  BY <1>4, ClerkIs
<1>7. /\ since'[p] = Pg!Findable /\ since' = [q \in Pages |-> since'[q]]
      /\ \A q \in Pages \ {p} : since'[q] = since[q]
  BY <1>4 DEF PagesInv, PagesTyped
<1>8. page' = [q \in Pages |-> page'[q]] /\ \A q \in Pages \ {p} : page'[q] = page[q]
  BY <1>4 DEF PagesInv, PagesTyped
<1>9. ASSUME Pg!Present(p)
      PROVE  /\ page'[p].state = "live" /\ {"state", "parent", "body", "template", "visibility"} \subseteq DOMAIN page'[p]
             /\ page'[p].body = body /\ page'[p].template = page[p].template /\ page'[p].parent = page[p].parent
             /\ Pg!Present(p)'
  <2>1. PageShape(p)
    BY <1>9 DEF PagesInv, PagesTyped
  <2>2. page'[p] = [page[p] EXCEPT !.body = body]
    BY <1>4, <1>9 DEF PagesInv, PagesTyped
  <2>3. /\ page'[p].state = "live" /\ {"state", "parent", "body", "template", "visibility"} \subseteq DOMAIN page'[p]
        /\ page'[p].body = body /\ page'[p].template = page[p].template /\ page'[p].parent = page[p].parent
    BY <2>1, <2>2 DEF PageShape
  <2> QED
    BY <2>3, PageStates DEF Pg!Present
<1>10. ASSUME ~Pg!Present(p) PROVE page'[p] = page[p] /\ ~Pg!Present(p)'
  BY <1>4, <1>10 DEF Pg!Present
<1>11. ASSUME NEW q \in Pages PROVE Pg!Present(q)' <=> Pg!Present(q)
  BY <1>8, <1>9, <1>10 DEF Pg!Present
<1>12. ASSUME NEW q \in Pages, Pg!Present(q)
       PROVE  page'[q].parent = page[q].parent /\ page'[q].template = page[q].template /\ PageShape(q)'
  <2>1. PageShape(q)
    BY <1>12 DEF PagesInv, PagesTyped
  <2>2. /\ page'[q].parent = page[q].parent /\ page'[q].template = page[q].template
        /\ page'[q].state = "live" /\ {"state", "parent", "body", "template", "visibility"} \subseteq DOMAIN page'[q]
    BY <1>8, <1>9, <1>12, <2>1 DEF PageShape
  <2> QED
    BY <1>11, <2>1, <2>2 DEF PageShape
<1>13. StatesKept
  <2>1. ASSUME NEW q \in Pages, page[q] # Pg!Unused PROVE page'[q] # Pg!Unused /\ (page[q] = Pg!Deleted => page'[q] = Pg!Deleted)
    <3>1. CASE Pg!Present(q)
      BY <1>11, <3>1 DEF Pg!Present
    <3>2. CASE ~Pg!Present(q)
      BY <1>8, <1>10, <2>1, <3>2
    <3> QED
      BY <3>1, <3>2
  <2> QED
    BY <1>11, <1>12, <2>1 DEF StatesKept
<1>14. (\A q \in Pages : ParentKept(q)) /\ HistoryKept
  BY <1>1, <1>11, <1>12 DEF ParentKept, HistoryKept
<1>15. PagesTyped'
  <2>1. ASSUME NEW g \in Handlers PROVE ClerkShape(g)'
    <3>1. CASE g = h
      <4>1. page'[p] # Pg!Unused
        BY <1>1, <1>2, <1>13 DEF PagesInv, PagesTyped, ClerkShape, StatesKept
      <4> QED
        BY <1>5, <1>6, <3>1, <4>1 DEF ClerkShape
    <3>2. CASE g # h
      BY <1>6, <1>13, <3>2, ShapeFrame DEF PagesInv, PagesTyped
    <3> QED
      BY <3>1, <3>2
  <2> QED
    BY <1>6, <1>7, <1>8, <1>11, <1>12, <2>1 DEF PagesTyped
<1>16. TreeAcyclic'
  BY <1>14, TreeFrame DEF PagesInv
<1>17. ASSUME NEW g \in Handlers PROVE WalkOf(g)'
  <2>1. CASE g = h
    BY <1>5, <1>6, <2>1 DEF WalkOf
  <2>2. CASE g # h
    <3>1. WalkOf(g) /\ ClerkShape(g)
      BY DEF PagesInv, PagesTyped
    <3>2. clerk[g].at \in {"walk", "move"} => clerk[g].seen \subseteq Pages
      BY <3>1 DEF ClerkShape
    <3>3. \A q \in Pages : page[q] = Pg!Deleted => page'[q] = Pg!Deleted
      BY <1>13, PageStates DEF StatesKept
    <3> QED
      BY <1>6, <1>14, <2>2, <3>1, <3>2, <3>3, WalkFrame
  <2> QED
    BY <2>1, <2>2
<1>18. ASSUME NEW q \in Pages PROVE SinceOf(q)' /\ LinksOf(q)'
  <2>1. SinceOf(q) /\ LinksOf(q)
    BY DEF PagesInv
  <2>2. CASE q = p
    <3>1. SinceOf(p)'
      <4> SUFFICES ASSUME NEW t \in Pg!Findable
                   PROVE  t \in Pages /\ page'[t] # Pg!Unused /\ (Pg!Present(t)' => ~page'[t].template)
        BY <1>7 DEF SinceOf
      <4>1. t \in Pages /\ Pg!Present(t) /\ ~page[t].template
        BY DEF Pg!Findable
      <4>2. page'[t].template = page[t].template /\ Pg!Present(t)'
        BY <1>11, <1>12, <4>1
      <4> QED
        BY <4>1, <4>2 DEF Pg!Present
    <3>2. LinksOf(p)'
      <4> SUFFICES ASSUME Pg!Present(p)', p \notin overlapped' \cup unlinked' PROVE LinksOf(p)'
        BY DEF LinksOf
      <4>1. Pg!Linking(p) = {} /\ Pg!Present(p)
        BY <1>4, <1>11
      <4>2. \A g \in (Pg!Linking(p))' : g = h
        BY <1>6, <4>1 DEF Pg!Linking
      <4>3. h \in (Pg!Linking(p))'
        BY <1>5, <1>6 DEF Pg!Linking
      <4>4. clerk'[h].at = "clear" /\ clerk'[h].body = page'[p].body
        BY <1>5, <1>6, <1>9, <4>1
      <4> QED
        BY <4>2, <4>3, <4>4 DEF LinksOf
    <3> QED
      BY <2>2, <3>1, <3>2
  <2>3. CASE q # p
    <3>1. SinceOf(q)'
      BY <1>7, <1>13, <2>1, <2>3, SinceFrame
    <3>2. Pg!Present(q)' => /\ Pg!Present(q) /\ page'[q].body = page[q].body /\ page'[q].template = page[q].template
      BY <1>8, <1>11, <2>3
    <3>3. \A g \in Handlers : \/ clerk'[g] = clerk[g]
                              \/ /\ clerk[g].at \in {"clear", "link"} => clerk[g].page # q
                                 /\ clerk'[g].at \in {"clear", "link"} => clerk'[g].page # q
      BY <1>1, <1>5, <1>6, <2>3
    <3>4. q \in overlapped \cup unlinked => q \in overlapped' \cup unlinked'
      BY <1>1, <1>4
    <3>5. since'[q] = since[q] /\ links' = links
      BY <1>1, <1>7, <2>3
    <3>6. LinksOf(q)'
      BY <1>13, <2>1, <3>2, <3>3, <3>4, <3>5, LinkFrame
    <3> QED
      BY <3>1, <3>6
  <2> QED
    BY <2>2, <2>3
<1> QED
  BY <1>15, <1>16, <1>17, <1>18 DEF PagesInv

(* A page is created, as n: by a save, which goes on to make its links, as *)
(* a template, or by the AI.                                               *)
LEMMA NewPageStep ==
  ASSUME PagesInv, NEW p \in Pages, page[p] = Pg!Unused, NEW author, NEW parent, NEW body, NEW template \in BOOLEAN,
         parent # None => parent \in Pages /\ Pg!Present(parent),
         page' = [page EXCEPT ![p] = Pg!New(author, parent, body, template)],
         since' = [since EXCEPT ![p] = Pg!Findable],
         UNCHANGED <<links, overlapped, blind, tangled>>, unlinked \subseteq unlinked',
         \/ clerk' = clerk /\ (template \/ p \in unlinked')
         \/ \E h \in Handlers : clerk[h] = Pg!Idle /\ clerk' = [clerk EXCEPT ![h] = [at |-> "clear", page |-> p, body |-> body]]
  PROVE  PagesInv'
<1> DEFINE n == Pg!New(author, parent, body, template)
<1>1. /\ n.state = "live" /\ n.parent = parent /\ n.body = body /\ n.template = template
      /\ {"state", "parent", "body", "template", "visibility"} \subseteq DOMAIN n
  BY DEF Pg!New
<1>2. page' = [page EXCEPT ![p] = n]
  OBVIOUS
<1> HIDE DEF n
<1>3. page'[p] = n /\ page' = [q \in Pages |-> page'[q]] /\ \A q \in Pages \ {p} : page'[q] = page[q]
  BY <1>2 DEF PagesInv, PagesTyped
<1>4. /\ since'[p] = Pg!Findable /\ since' = [q \in Pages |-> since'[q]]
      /\ \A q \in Pages \ {p} : since'[q] = since[q]
  BY DEF PagesInv, PagesTyped
<1>5. Pg!Present(p)' /\ ~Pg!Present(p) /\ \A q \in Pages \ {p} : Pg!Present(q)' <=> Pg!Present(q)
  BY <1>1, <1>3, PageStates DEF Pg!Present
<1>6. ASSUME NEW q \in Pages, Pg!Present(q)' PROVE PageShape(q)'
  <2>1. CASE q = p
    <3>1. page'[p].parent # None => page'[p].parent \in Pages /\ page'[page'[p].parent] \notin {Pg!Unused, Pg!Deleted}
      BY <1>1, <1>3, <1>5 DEF Pg!Present
    <3> QED
      BY <1>1, <1>3, <2>1, <3>1 DEF PageShape, Pg!Present
  <2>2. CASE q # p
    <3>1. PageShape(q) /\ page'[q] = page[q]
      BY <1>3, <1>5, <1>6, <2>2 DEF PagesInv, PagesTyped
    <3>2. page[q].parent # None => page[q].parent \in Pages /\ page'[page[q].parent] \notin {Pg!Unused, Pg!Deleted}
      BY <1>3, <1>5, <3>1 DEF PageShape, Pg!Present
    <3> QED
      BY <3>1, <3>2 DEF PageShape, Pg!Present
  <2> QED
    BY <2>1, <2>2
<1>7. StatesKept
  <2>1. ASSUME NEW q \in Pages, page[q] # Pg!Unused PROVE page'[q] = page[q] /\ (Pg!Present(q)' <=> Pg!Present(q))
    BY <1>3, <1>5, <2>1
  <2> QED
    BY <2>1 DEF StatesKept
<1>8. HistoryKept
  BY DEF HistoryKept
<1>9. TreeAcyclic'
  <2> SUFFICES ASSUME ~blind, ~tangled, NEW circle \in (SUBSET Pages) \ {{}},
                      \A q \in circle : Pg!Present(q)' /\ page'[q].parent \in circle
               PROVE  FALSE
    BY DEF TreeAcyclic, Pg!TreeAcyclic
  <2>1. ASSUME NEW old \in (SUBSET Pages) \ {{}} PROVE \E q \in old : ~(Pg!Present(q) /\ page[q].parent \in old)
    BY DEF PagesInv, TreeAcyclic, Pg!TreeAcyclic
  <2>2. ASSUME NEW q \in Pages, Pg!Present(q) PROVE page[q].parent # p
    <3>1. PageShape(q)
      BY <2>2 DEF PagesInv, PagesTyped
    <3> QED
      BY <1>5, <3>1, PageStates DEF PageShape
  <2>3. \A q \in circle \ {p} : Pg!Present(q) /\ page[q].parent \in circle \ {p}
    BY <1>3, <1>5, <2>2
  <2>4. circle \ {p} # {}
    <3>1. CASE p \in circle
      <4>1. parent \in circle /\ parent # p
        BY <1>1, <1>3, <1>5, <3>1, PageStates
      <4> QED
        BY <4>1
    <3>2. CASE p \notin circle
      <4>1. circle \ {p} = circle
        BY <3>2
      <4>2. circle # {}
        OBVIOUS
      <4> QED
        BY <4>1, <4>2
    <3> QED
      BY <3>1, <3>2
  <2> QED
    BY <2>1, <2>3, <2>4
<1>10. \A g \in Handlers : \/ clerk'[g] = clerk[g]
                           \/ /\ clerk[g].at = "idle" /\ clerk'[g].at = "clear" /\ clerk'[g].page = p
                              /\ clerk'[g].body = body /\ DOMAIN clerk'[g] = {"at", "page", "body"}
  <2>1. CASE clerk' = clerk
    BY <2>1
  <2>2. ASSUME NEW h \in Handlers, clerk[h] = Pg!Idle, clerk' = [clerk EXCEPT ![h] = [at |-> "clear", page |-> p, body |-> body]]
        PROVE  \A g \in Handlers : \/ clerk'[g] = clerk[g]
                                   \/ /\ clerk[g].at = "idle" /\ clerk'[g].at = "clear" /\ clerk'[g].page = p
                                      /\ clerk'[g].body = body /\ DOMAIN clerk'[g] = {"at", "page", "body"}
    <3>1. clerk'[h] = [at |-> "clear", page |-> p, body |-> body] /\ \A g \in Handlers \ {h} : clerk'[g] = clerk[g]
      BY <2>2 DEF PagesInv, PagesTyped
    <3>2. clerk[h].at = "idle"
      BY <2>2, PageStates
    <3>3. /\ clerk'[h].at = "clear" /\ clerk'[h].page = p
          /\ clerk'[h].body = body /\ DOMAIN clerk'[h] = {"at", "page", "body"}
      BY <3>1
    <3> QED
      BY <3>1, <3>2, <3>3
  <2> QED
    BY <2>1, <2>2
<1>11. clerk' = [g \in Handlers |-> clerk'[g]]
  BY DEF PagesInv, PagesTyped
<1>12. ASSUME NEW g \in Handlers PROVE ClerkShape(g)' /\ WalkOf(g)'
  <2>1. ClerkShape(g) /\ WalkOf(g)
    BY DEF PagesInv, PagesTyped
  <2>2. CASE clerk'[g] = clerk[g]
    <3>1. clerk[g].at \in {"walk", "move"} => \A q \in clerk[g].seen : ParentKept(q)
      <4> SUFFICES ASSUME clerk[g].at \in {"walk", "move"}, NEW q \in clerk[g].seen PROVE ParentKept(q)
        OBVIOUS
      <4>1. q \in Pages \ {p}
        BY <2>1, PageStates DEF ClerkShape
      <4> QED
        BY <1>3, <1>5, <4>1 DEF ParentKept
    <3>2. \A q \in Pages : page[q] = Pg!Deleted => page'[q] = Pg!Deleted
      BY <1>7, PageStates DEF StatesKept
    <3> QED
      BY <1>7, <1>8, <2>1, <2>2, <3>1, <3>2, ShapeFrame, WalkFrame
  <2>3. CASE clerk'[g].at = "clear" /\ clerk'[g].page = p /\ DOMAIN clerk'[g] = {"at", "page", "body"}
    BY <1>5, <2>3 DEF ClerkShape, WalkOf, Pg!Present
  <2> QED
    BY <1>10, <2>2, <2>3
<1>13. PagesTyped'
  BY <1>3, <1>4, <1>6, <1>11, <1>12 DEF PagesTyped
<1>14. Pg!Linking(p) = {}
  BY DEF PagesInv, PagesTyped, ClerkShape, Pg!Linking
<1>15. ASSUME NEW q \in Pages PROVE SinceOf(q)' /\ LinksOf(q)'
  <2>1. SinceOf(q) /\ LinksOf(q)
    BY DEF PagesInv
  <2>2. CASE q = p
    <3>1. SinceOf(p)'
      BY <1>3, <1>4, <1>5 DEF SinceOf, Pg!Findable, Pg!Present
    <3>2. LinksOf(p)'
      <4>1. CASE clerk' = clerk /\ (template \/ p \in unlinked')
        <5>1. (Pg!Linking(p))' = {}
          BY <1>14, <4>1 DEF Pg!Linking
        <5> QED
          BY <1>1, <1>3, <4>1, <5>1 DEF LinksOf
      <4>2. ASSUME NEW h \in Handlers, clerk[h] = Pg!Idle, clerk' = [clerk EXCEPT ![h] = [at |-> "clear", page |-> p, body |-> body]]
            PROVE  LinksOf(p)'
        <5>1. clerk'[h] = [at |-> "clear", page |-> p, body |-> body] /\ \A g \in Handlers \ {h} : clerk'[g] = clerk[g]
          BY <4>2 DEF PagesInv, PagesTyped
        <5>2. clerk'[h].at = "clear" /\ clerk'[h].page = p /\ clerk'[h].body = body
          BY <5>1
        <5>3. \A g \in (Pg!Linking(p))' : g = h
          BY <1>14, <5>1 DEF Pg!Linking
        <5>4. h \in (Pg!Linking(p))'
          BY <5>2 DEF Pg!Linking
        <5>5. page'[p].body = body
          BY <1>1, <1>3
        <5> QED
          BY <5>2, <5>3, <5>4, <5>5 DEF LinksOf
      <4> QED
        BY <4>1, <4>2
    <3> QED
      BY <2>2, <3>1, <3>2
  <2>3. CASE q # p
    <3>1. since'[q] = since[q] /\ links' = links /\ page'[q] = page[q] /\ (Pg!Present(q)' => Pg!Present(q))
      BY <1>3, <1>4, <1>5, <2>3
    <3>2. SinceOf(q)'
      BY <1>7, <2>1, <3>1, SinceFrame
    <3>3. \A g \in Handlers : \/ clerk'[g] = clerk[g]
                              \/ /\ clerk[g].at \in {"clear", "link"} => clerk[g].page # q
                                 /\ clerk'[g].at \in {"clear", "link"} => clerk'[g].page # q
      BY <1>10, <2>3
    <3>4. q \in overlapped \cup unlinked => q \in overlapped' \cup unlinked'
      OBVIOUS
    <3>5. LinksOf(q)'
      BY <1>7, <2>1, <3>1, <3>3, <3>4, LinkFrame
    <3> QED
      BY <3>2, <3>5
  <2> QED
    BY <2>2, <2>3
<1> QED
  BY <1>9, <1>12, <1>13, <1>15 DEF PagesInv

-----------------------------------------------------------------------------
(* A circle that a move would close runs through what the walk has seen,   *)
(* where nothing changed.                                                  *)
LEMMA MoveClosesNone ==
  ASSUME PagesInv, NEW h \in Handlers, clerk[h].at = "move", NEW p \in Pages, p = clerk[h].page,
         Pg!Present(p), NEW parent, parent = clerk[h].parent, parent # None => Pg!Present(parent),
         \A q \in Pages : Pg!Present(q)' <=> Pg!Present(q),
         page'[p].parent = parent, \A q \in Pages \ {p} : page'[q] = page[q], HistoryKept
  PROVE  TreeAcyclic'
<1> SUFFICES ASSUME ~blind, ~tangled, NEW circle \in (SUBSET Pages) \ {{}},
                    \A q \in circle : Pg!Present(q)' /\ page'[q].parent \in circle
             PROVE  FALSE
  BY DEF TreeAcyclic, Pg!TreeAcyclic, HistoryKept
<1>1. ASSUME NEW old \in (SUBSET Pages) \ {{}} PROVE \E q \in old : ~(Pg!Present(q) /\ page[q].parent \in old)
  BY DEF PagesInv, TreeAcyclic, Pg!TreeAcyclic
<1>2. CASE p \notin circle
  <2>1. \A q \in circle : Pg!Present(q) /\ page[q].parent \in circle
    BY <1>2
  <2> QED
    BY <1>1, <2>1
<1>3. CASE p \in circle
  <2> DEFINE seen == clerk[h].seen
             cur == clerk[h].cur
  <2>1. WalkOf(h) /\ ClerkShape(h)
    BY DEF PagesInv, PagesTyped
  <2>2. /\ parent \in seen \cup {cur} /\ p \notin seen /\ (cur = None \/ page[cur] = Pg!Deleted)
        /\ \A q \in seen : Pg!Present(q) => page[q].parent \in seen \cup {cur, None}
        /\ seen \subseteq Pages
    BY <2>1 DEF WalkOf, ClerkShape
  <2> HIDE DEF seen, cur
  <2>3. None \notin circle /\ \A q \in circle : q \in Pages /\ Pg!Present(q)
    BY PageStates
  <2>4. cur \notin circle
    BY <2>2, <2>3 DEF Pg!Present
  <2>5. parent \in circle
    BY <1>3
  <2>6. parent \in circle \cap seen
    BY <2>2, <2>4, <2>5
  <2>7. \A q \in circle \cap seen : Pg!Present(q) /\ page[q].parent \in circle \cap seen
    <3> SUFFICES ASSUME NEW q \in circle \cap seen PROVE Pg!Present(q) /\ page[q].parent \in circle \cap seen
      OBVIOUS
    <3>1. page'[q] = page[q] /\ Pg!Present(q)
      BY <2>2, <2>3
    <3>2. page[q].parent \in circle
      BY <3>1
    <3>3. page[q].parent \in seen \cup {cur, None}
      BY <2>2, <3>1
    <3> QED
      BY <2>3, <2>4, <3>1, <3>2, <3>3
  <2> QED
    BY <1>1, <2>6, <2>7
<1> QED
  BY <1>2, <1>3

LEMMA MoveStep ==
  ASSUME PagesInv, NEW h \in Handlers, Pg!moves(h)
  PROVE  PagesInv'
<1>1. /\ clerk[h].at = "move" /\ UNCHANGED <<links, since, overlapped, unlinked, blind>>
      /\ clerk' = [clerk EXCEPT ![h] = Pg!Idle]
  BY DEF Pg!moves, Pg!Goes
<1>2. PICK p \in Pages : p = clerk[h].page
  BY <1>1 DEF PagesInv, PagesTyped, ClerkShape
<1>3. PICK parent : parent = clerk[h].parent
  OBVIOUS
<1>4. /\ page' = IF Pg!Present(p) /\ (parent = None \/ Pg!Present(parent)) THEN [page EXCEPT ![p].parent = parent] ELSE page
      /\ tangled' = (tangled \/ Pg!Passed(p) # {})
  BY <1>2, <1>3 DEF Pg!moves, Pg!SetPageParent
<1>5. /\ clerk' = [g \in Handlers |-> clerk'[g]] /\ \A g \in Handlers \ {h} : clerk'[g] = clerk[g]
      /\ clerk'[h].at = "idle"
  BY <1>1, PageStates DEF PagesInv, PagesTyped
<1>6. HistoryKept
  BY <1>1, <1>4 DEF HistoryKept
<1>7. parent \in Pages \cup {None} /\ page = [q \in Pages |-> page[q]]
  <2>1. ClerkShape(h)
    BY DEF PagesInv, PagesTyped
  <2> QED
    BY <1>1, <1>3, <2>1 DEF PagesInv, PagesTyped, ClerkShape
<1>8. page' = [q \in Pages |-> page'[q]] /\ \A q \in Pages \ {p} : page'[q] = page[q]
  BY <1>4, <1>7
<1>9. \/ page'[p] = page[p]
      \/ /\ Pg!Present(p) /\ (parent # None => Pg!Present(parent)) /\ page'[p].parent = parent
         /\ page'[p].state = "live" /\ {"state", "parent", "body", "template", "visibility"} \subseteq DOMAIN page'[p]
         /\ page'[p].body = page[p].body /\ page'[p].template = page[p].template
  <2>1. CASE Pg!Present(p) /\ (parent = None \/ Pg!Present(parent))
    <3>1. page'[p] = [page[p] EXCEPT !.parent = parent]
      BY <1>4, <1>7, <2>1
    <3>2. PageShape(p)
      BY <2>1 DEF PagesInv, PagesTyped
    <3> QED
      BY <2>1, <3>1, <3>2 DEF PageShape
  <2>2. CASE ~(Pg!Present(p) /\ (parent = None \/ Pg!Present(parent)))
    BY <1>4, <2>2
  <2> QED
    BY <2>1, <2>2
<1>10. ASSUME NEW q \in Pages PROVE Pg!Present(q)' <=> Pg!Present(q)
  <2>1. CASE page'[q] = page[q]
    BY <2>1 DEF Pg!Present
  <2>2. CASE q = p /\ Pg!Present(p) /\ page'[p].state = "live"
    BY <2>2, PageStates DEF Pg!Present
  <2> QED
    BY <1>8, <1>9, <2>1, <2>2
<1>11. ASSUME NEW q \in Pages, Pg!Present(q)
       PROVE  page'[q].body = page[q].body /\ page'[q].template = page[q].template /\ PageShape(q)'
  <2>1. PageShape(q)
    BY <1>11 DEF PagesInv, PagesTyped
  <2>2. CASE page'[q] = page[q]
    <3>1. page[q].parent # None => page[q].parent \in Pages /\ page'[page[q].parent] \notin {Pg!Unused, Pg!Deleted}
      BY <1>10, <2>1 DEF PageShape, Pg!Present
    <3> QED
      BY <2>1, <2>2, <3>1 DEF PageShape, Pg!Present
  <2>3. CASE /\ q = p /\ (parent # None => Pg!Present(parent)) /\ page'[p].parent = parent
             /\ page'[p].state = "live" /\ {"state", "parent", "body", "template", "visibility"} \subseteq DOMAIN page'[p]
             /\ page'[p].body = page[p].body /\ page'[p].template = page[p].template
    <3>1. parent # None => parent \in Pages /\ page'[parent] \notin {Pg!Unused, Pg!Deleted}
      BY <1>7, <1>10, <2>3 DEF Pg!Present
    <3>2. page'[q].parent = parent
      BY <2>3
    <3> QED
      BY <2>3, <3>1, <3>2 DEF PageShape, Pg!Present
  <2> QED
    BY <1>8, <1>9, <2>2, <2>3
<1>12. StatesKept
  <2>1. ASSUME NEW q \in Pages, page[q] # Pg!Unused PROVE page'[q] # Pg!Unused /\ (page[q] = Pg!Deleted => page'[q] = Pg!Deleted)
    <3>1. CASE Pg!Present(q)
      BY <1>10, <3>1 DEF Pg!Present
    <3>2. CASE ~Pg!Present(q)
      BY <1>8, <1>9, <2>1, <3>2
    <3> QED
      BY <3>1, <3>2
  <2> QED
    BY <1>10, <1>11, <2>1 DEF StatesKept
<1>13. ASSUME NEW g \in Handlers PROVE ClerkShape(g)'
  <2>1. CASE g = h
    BY <1>5, <2>1 DEF ClerkShape
  <2>2. CASE g # h
    BY <1>5, <1>12, <2>2, ShapeFrame DEF PagesInv, PagesTyped
  <2> QED
    BY <2>1, <2>2
<1>14. PagesTyped'
  BY <1>1, <1>5, <1>8, <1>10, <1>11, <1>13 DEF PagesInv, PagesTyped
<1>15. TreeAcyclic'
  <2>1. CASE page'[p] = page[p]
    <3>1. \A q \in Pages : ParentKept(q)
      BY <1>8, <2>1 DEF ParentKept, Pg!Present
    <3> QED
      BY <1>6, <3>1, TreeFrame DEF PagesInv
  <2>2. CASE Pg!Present(p) /\ (parent # None => Pg!Present(parent)) /\ page'[p].parent = parent
    BY <1>1, <1>2, <1>3, <1>6, <1>8, <1>10, <2>2, MoveClosesNone
  <2> QED
    BY <1>9, <2>1, <2>2
<1>16. ASSUME NEW g \in Handlers PROVE WalkOf(g)'
  <2>1. CASE g = h
    BY <1>5, <2>1 DEF WalkOf
  <2>2. CASE g # h
    <3>1. WalkOf(g) /\ ClerkShape(g)
      BY DEF PagesInv, PagesTyped
    <3>2. clerk[g].at \in {"walk", "move"} => tangled' \/ \A q \in clerk[g].seen : ParentKept(q)
      <4> SUFFICES ASSUME clerk[g].at \in {"walk", "move"}, NEW q \in clerk[g].seen PROVE tangled' \/ ParentKept(q)
        OBVIOUS
      <4>1. q \in Pages
        BY <3>1 DEF ClerkShape
      <4>2. CASE q = p
        BY <1>4, <4>2 DEF Pg!Passed
      <4>3. CASE q # p
        BY <1>8, <4>1, <4>3 DEF ParentKept, Pg!Present
      <4> QED
        BY <4>2, <4>3
    <3>3. \A q \in Pages : page[q] = Pg!Deleted => page'[q] = Pg!Deleted
      BY <1>12, PageStates DEF StatesKept
    <3> QED
      BY <1>5, <1>6, <2>2, <3>1, <3>2, <3>3, WalkFrame
  <2> QED
    BY <2>1, <2>2
<1>17. ASSUME NEW q \in Pages PROVE SinceOf(q)' /\ LinksOf(q)'
  <2>1. SinceOf(q) /\ LinksOf(q)
    BY DEF PagesInv
  <2>2. SinceOf(q)'
    BY <1>1, <1>12, <2>1, SinceFrame
  <2>3. \A g \in Handlers : \/ clerk'[g] = clerk[g]
                            \/ /\ clerk[g].at \in {"clear", "link"} => clerk[g].page # q
                               /\ clerk'[g].at \in {"clear", "link"} => clerk'[g].page # q
    BY <1>1, <1>5
  <2>4. LinksOf(q)'
    BY <1>1, <1>10, <1>11, <1>12, <2>1, <2>3, LinkFrame
  <2> QED
    BY <2>2, <2>4
<1> QED
  BY <1>14, <1>15, <1>16, <1>17 DEF PagesInv

LEMMA NewPages ==
  ASSUME PagesInv, NEW s \in Members, NEW p \in Pages,
         Pg!meetingSummary(s, p) \/ \E h \in Handlers : Pg!create(h, s, p)
  PROVE  PagesInv'
<1>1. CASE Pg!meetingSummary(s, p)
  <2>1. PICK body \in Bodies : page' = [page EXCEPT ![p] = Pg!New(s.user, None, body, FALSE)]
    BY <1>1 DEF Pg!meetingSummary, Pg!CreatePage
  <2>2. /\ page[p] = Pg!Unused /\ since' = [since EXCEPT ![p] = Pg!Findable] /\ unlinked' = unlinked \cup {p}
        /\ UNCHANGED <<links, clerk, overlapped, blind, tangled>>
    BY <1>1 DEF Pg!meetingSummary
  <2>3. unlinked \subseteq unlinked' /\ p \in unlinked' /\ FALSE \in BOOLEAN
    BY <2>2
  <2> QED
    BY <2>1, <2>2, <2>3, NewPageStep
<1>2. ASSUME NEW h \in Handlers, Pg!create(h, s, p) PROVE PagesInv'
  <2>1. PICK parent \in {q \in Pages : Pg!Present(q)} \cup {None}, body \in Bodies, template \in BOOLEAN :
          /\ page' = [page EXCEPT ![p] = Pg!New(s.user, parent, body, template)]
          /\ IF template THEN UNCHANGED clerk ELSE clerk' = [clerk EXCEPT ![h] = [at |-> "clear", page |-> p, body |-> body]]
    BY <1>2 DEF Pg!create, Pg!CreatePage, Pg!Goes
  <2>2. /\ page[p] = Pg!Unused /\ since' = [since EXCEPT ![p] = Pg!Findable] /\ clerk[h] = Pg!Idle
        /\ UNCHANGED <<links, overlapped, unlinked, blind, tangled>>
    BY <1>2 DEF Pg!create, Pg!Takes
  <2>3. unlinked \subseteq unlinked' /\ (parent # None => parent \in Pages /\ Pg!Present(parent))
    BY <2>1, <2>2
  <2>4. \/ clerk' = clerk /\ template
        \/ \E g \in Handlers : clerk[g] = Pg!Idle /\ clerk' = [clerk EXCEPT ![g] = [at |-> "clear", page |-> p, body |-> body]]
    BY <2>1, <2>2
  <2> QED
    BY <2>1, <2>2, <2>3, <2>4, NewPageStep
<1> QED
  BY <1>1, <1>2

LEMMA PagesStart == Pg!Init => PagesInv
<1> SUFFICES ASSUME Pg!Init PROVE PagesInv
  OBVIOUS
<1>1. /\ \A p \in Pages : page[p] = Pg!Unused /\ since[p] = {} /\ ~Pg!Present(p)
      /\ \A h \in Handlers : clerk[h].at = "idle"
  BY PageStates DEF Pg!Init, Pg!Present
<1>2. PagesTyped
  <2>1. /\ page = [p \in Pages |-> page[p]] /\ clerk = [h \in Handlers |-> clerk[h]]
        /\ since = [p \in Pages |-> since[p]]
    BY DEF Pg!Init
  <2> QED
    BY <1>1, <2>1 DEF PagesTyped, ClerkShape
<1>3. TreeAcyclic
  <2> SUFFICES ASSUME NEW circle \in (SUBSET Pages) \ {{}}
               PROVE  \E p \in circle : ~(Pg!Present(p) /\ page[p].parent \in circle)
    BY DEF TreeAcyclic, Pg!TreeAcyclic
  <2>1. circle # {} /\ circle \subseteq Pages
    OBVIOUS
  <2>2. PICK p : p \in circle
    BY <2>1
  <2> QED
    BY <1>1, <2>1, <2>2
<1>4. \A h \in Handlers : WalkOf(h)
  BY <1>1 DEF WalkOf
<1>5. \A p \in Pages : SinceOf(p) /\ LinksOf(p)
  BY <1>1 DEF SinceOf, LinksOf
<1> QED
  BY <1>2, <1>3, <1>4, <1>5 DEF PagesInv

LEMMA PagesNext == PagesInv /\ [Pg!Next]_(Pg!vars) => PagesInv'
<1>1. ASSUME PagesInv, UNCHANGED Pg!vars PROVE PagesInv'
  BY <1>1, ShareStep DEF Pg!vars
<1>2. ASSUME PagesInv, NEW s \in Members, NEW p \in Pages, Pg!Manages(s, p) PROVE PagesInv'
  <2>1. CASE Pg!addShare(s, p) \/ Pg!removeShare(s, p)
    BY <1>2, <2>1, ShareStep DEF Pg!addShare, Pg!removeShare
  <2> QED
    BY <1>2, <2>1, VisibilityStep, DeleteStep DEF Pg!Manages
<1>3. ASSUME PagesInv, NEW s \in Members, NEW p \in Pages, NEW h \in Handlers, Pg!Asks(h, s, p) PROVE PagesInv'
  BY <1>3, NewPages, SaveBegins, MoveBegins DEF Pg!Asks
<1>4. ASSUME PagesInv, NEW h \in Handlers, Pg!Works(h) PROVE PagesInv'
  BY <1>4, ClearStep, LinkStep, SyncEndStep, SaveGoesOn, WriteStep, FailStep, WalkStep, MoveStep DEF Pg!Works
<1> QED
  BY <1>1, <1>2, <1>3, <1>4, NewPages DEF Pg!Next

(* The tree of pages has no cycle (pages.go:553).                          *)
THEOREM PagesFormATree == Pg!Spec => []TreeAcyclic
<1>1. PagesInv => TreeAcyclic
  BY DEF PagesInv
<1> QED
  BY <1>1, PagesStart, PagesNext, PTL DEF Pg!Spec

(* The links of a page are the references of its body (pages.go:51).       *)
THEOREM BodiesAreLinked == Pg!Spec => []LinksFollowBody
<1>1. PagesInv => LinksFollowBody
  BY DEF PagesInv, LinksOf, Linked, Meant, Wanted, LinksFollowBody, Pg!LinksFollowBody
<1> QED
  BY <1>1, PagesStart, PagesNext, PTL DEF Pg!Spec

-----------------------------------------------------------------------------
(***************************************************************************)
(* Planning.  A task is in a sprint that is there, or in none.             *)
(***************************************************************************)
TaskShape(t) ==
  /\ task[t].state = "live" /\ {"state", "primary", "sprint", "done"} \subseteq DOMAIN task[t]
  /\ task[t].sprint # None => task[t].sprint \in Pl!Planned

Busy == {"spawn", "copy", "clear", "add"}

WorkerShape(h) ==
  LET w == worker[h] IN
  /\ w.at \in Busy \cup {"idle", "close", "file", "rules"}
  /\ w.at = "rules" => w.task \in Tasks
  /\ w.at \in Busy =>
       /\ {"at", "task", "ids", "all", "from", "rest", "rule"} \subseteq DOMAIN w
       /\ w.task \in Tasks \ w.rest /\ w.rest \subseteq Tasks /\ {w.from, w.rule} \subseteq Tasks \cup {None}
       /\ \A t \in w.rest \cup {w.from} : t # None => task[t] # Pl!Unused
       /\ w.at = "spawn" <=> task[w.task] = Pl!Unused
       /\ w.at \in {"spawn", "copy"} => w.from # None /\ w.rest = {}

PlanningTyped ==
  /\ task = [t \in Tasks |-> task[t]] /\ assigned = [t \in Tasks |-> assigned[t]]
  /\ sprint = [s \in Sprints |-> sprint[s]] /\ worker = [h \in Handlers |-> worker[h]]
  /\ \A t \in Tasks : Pl!Present(t) => TaskShape(t)
  /\ \A t \in Tasks : task[t] = Pl!Unused => assigned[t] = {}
  /\ \A h \in Handlers : WorkerShape(h)
  /\ \A g, h \in Handlers : worker[g].at = "spawn" /\ worker[h].at = "spawn" /\ worker[g].task = worker[h].task => g = h

(* An unfinished task is in no sprint that is closed or being closed.      *)
Behind(t) ==
  t \notin strays /\ Pl!Present(t) /\ ~task[t].done /\ task[t].sprint # None /\ task[t].sprint \notin kept
    => ~Pl!Closed(task[t].sprint)

(* The rows of a task are those of its primary assignee, but for what the  *)
(* one request that is replacing them has still to do.                     *)
Tainted == mixed \cup dropped \cup ruled
Match(primary, rows) == IF primary = None THEN rows = {} ELSE primary \in rows
Writer(t) == {h \in Handlers : worker[h].at \in Busy /\ t \in {worker[h].task} \cup worker[h].rest}

Copied(h, primary) == Match(primary, assigned[worker[h].from]) /\ Writer(worker[h].from) = {}

ToDo(h, t) ==
  LET w == worker[h] IN
  IF t # w.task THEN Match(task[t].primary, w.all)
  ELSE /\ w.at = "clear" => Match(task[t].primary, w.ids)
       /\ w.at = "add" => Match(task[t].primary, assigned[t] \cup w.ids)
       /\ w.at = "copy" => assigned[t] = {} /\ Copied(h, task[t].primary)

AgreeOf(t) ==
  t \notin Tainted =>
    /\ \A g, h \in Writer(t) : g = h
    /\ Pl!Present(t) /\ Writer(t) = {} => Match(task[t].primary, assigned[t])
    /\ \A h \in Writer(t) : Pl!Present(t) => ToDo(h, t)
    /\ \A h \in Handlers : worker[h].at = "spawn" /\ worker[h].task = t => Copied(h, worker[h].row.primary)

PlanningInv ==
  /\ PlanningTyped
  /\ \A t \in Tasks : Behind(t) /\ AgreeOf(t)
-----------------------------------------------------------------------------
LEMMA TaskStates ==
  /\ Pl!Unused # Pl!Deleted /\ Pl!Unused.state = "unused" /\ Pl!Deleted.state = "deleted" /\ Pl!Idle.at = "idle"
  /\ \A p, s, d : LET r == Pl!Row(p, s, d) IN
       /\ r.state = "live" /\ r.primary = p /\ r.sprint = s /\ r.done = d
       /\ DOMAIN r = {"state", "primary", "sprint", "done"} /\ r \notin {Pl!Unused, Pl!Deleted}
<1>1. Pl!Unused.state = "unused" /\ Pl!Deleted.state = "deleted" /\ Pl!Idle.at = "idle"
  BY DEF Pl!Unused, Pl!Deleted, Pl!Idle
<1>2. Pl!Unused # Pl!Deleted
  BY <1>1
<1>3. ASSUME NEW p, NEW s, NEW d
      PROVE  LET r == Pl!Row(p, s, d) IN
             /\ r.state = "live" /\ r.primary = p /\ r.sprint = s /\ r.done = d
             /\ DOMAIN r = {"state", "primary", "sprint", "done"}
  BY DEF Pl!Row
<1>4. ASSUME NEW p, NEW s, NEW d PROVE Pl!Row(p, s, d) \notin {Pl!Unused, Pl!Deleted}
  BY <1>1, <1>3
<1> QED
  BY <1>1, <1>2, <1>3, <1>4

LEMMA WorkIs ==
  \A at, t, ids, from, rest, rule : LET w == Pl!Work(at, t, ids, from, rest, rule) IN
    /\ w.at = at /\ w.task = t /\ w.ids = ids /\ w.all = ids /\ w.from = from /\ w.rest = rest /\ w.rule = rule
    /\ DOMAIN w = {"at", "task", "ids", "all", "from", "rest", "rule"}
BY DEF Pl!Work

(* A row of the table after an UPDATE of one of its columns.               *)
LEMMA TaskEdits ==
  ASSUME PlanningTyped, NEW t \in Tasks, Pl!Present(t), NEW x
  PROVE  /\ LET r == [task[t] EXCEPT !.sprint = x] IN
            /\ r.state = "live" /\ r.sprint = x /\ r.primary = task[t].primary /\ r.done = task[t].done
            /\ DOMAIN r = DOMAIN task[t] /\ r \notin {Pl!Unused, Pl!Deleted}
         /\ LET r == [task[t] EXCEPT !.primary = x] IN
            /\ r.state = "live" /\ r.sprint = task[t].sprint /\ r.primary = x /\ r.done = task[t].done
            /\ DOMAIN r = DOMAIN task[t] /\ r \notin {Pl!Unused, Pl!Deleted}
         /\ LET r == [task[t] EXCEPT !.done = x] IN
            /\ r.state = "live" /\ r.sprint = task[t].sprint /\ r.primary = task[t].primary /\ r.done = x
            /\ DOMAIN r = DOMAIN task[t] /\ r \notin {Pl!Unused, Pl!Deleted}
<1>1. task[t].state = "live" /\ {"state", "primary", "sprint", "done"} \subseteq DOMAIN task[t]
  BY DEF PlanningTyped, TaskShape
<1>2. \A r : r.state = "live" => r \notin {Pl!Unused, Pl!Deleted}
  BY TaskStates
<1> QED
  BY <1>1, <1>2

-----------------------------------------------------------------------------
(* What a step keeps.                                                      *)
PlannedKept == \A s \in Pl!Planned : s \in Pl!Planned'
RowsKept    == \A t \in Tasks : task[t] # Pl!Unused => task'[t] # Pl!Unused
TaintKept   == mixed \subseteq mixed' /\ dropped \subseteq dropped' /\ ruled \subseteq ruled'

LEMMA TaskKept ==
  ASSUME PlanningTyped, NEW t \in Tasks, task'[t] = task[t], PlannedKept, Pl!Present(t)'
  PROVE  TaskShape(t)'
BY DEF PlanningTyped, TaskShape, PlannedKept, Pl!Present

LEMMA WorkerKept ==
  ASSUME PlanningTyped, NEW g \in Handlers, worker'[g] = worker[g], RowsKept,
         \A t \in Tasks : worker[g].at = "spawn" /\ worker[g].task = t => task'[t] = task[t]
  PROVE  WorkerShape(g)'
<1>1. WorkerShape(g)
  BY DEF PlanningTyped
<1> QED
  BY <1>1 DEF WorkerShape, RowsKept, Busy

(* One request, h, goes on.                                                *)
LEMMA TypedStep ==
  ASSUME PlanningTyped, NEW h \in Handlers,
         task' = [t \in Tasks |-> task'[t]], assigned' = [t \in Tasks |-> assigned'[t]],
         sprint' = [s \in Sprints |-> sprint'[s]], worker' = [g \in Handlers |-> worker'[g]],
         \A g \in Handlers \ {h} : worker'[g] = worker[g],
         \A t \in Tasks : Pl!Present(t)' => TaskShape(t)',
         \A t \in Tasks : task'[t] = Pl!Unused => assigned'[t] = {},
         RowsKept,
         \A t \in Tasks, g \in Handlers \ {h} : worker[g].at = "spawn" /\ worker[g].task = t => task'[t] = task[t],
         WorkerShape(h)',
         worker'[h].at = "spawn" =>
           \A g \in Handlers \ {h} : worker[g].at = "spawn" => worker[g].task # worker'[h].task
  PROVE  PlanningTyped'
<1>1. \A g \in Handlers \ {h} : WorkerShape(g)'
  BY WorkerKept
<1> QED
  BY <1>1 DEF PlanningTyped

(* No request goes on.                                                     *)
LEMMA TypedStill ==
  ASSUME PlanningTyped, UNCHANGED worker,
         task' = [t \in Tasks |-> task'[t]], assigned' = [t \in Tasks |-> assigned'[t]],
         sprint' = [s \in Sprints |-> sprint'[s]],
         \A t \in Tasks : Pl!Present(t)' => TaskShape(t)',
         \A t \in Tasks : task'[t] = Pl!Unused => assigned'[t] = {},
         RowsKept,
         \A t \in Tasks, g \in Handlers : worker[g].at = "spawn" /\ worker[g].task = t => task'[t] = task[t]
  PROVE  PlanningTyped'
<1>1. \A g \in Handlers : WorkerShape(g)'
  BY WorkerKept
<1> QED
  BY <1>1 DEF PlanningTyped

(* Nobody is at a task that has an id no task has had.                     *)
LEMMA FreeIsFree ==
  ASSUME PlanningTyped, NEW n \in Pl!Free
  PROVE  /\ n \in Tasks /\ task[n] = Pl!Unused /\ assigned[n] = {} /\ ~Pl!Present(n) /\ Writer(n) = {}
         /\ \A g \in Handlers : worker[g].at = "spawn" => worker[g].task # n
         /\ \A g \in Handlers : worker[g].at \in Busy => n # worker[g].from
<1>1. n \in Tasks /\ task[n] = Pl!Unused /\ \A g \in Handlers : worker[g].at = "spawn" => worker[g].task # n
  BY DEF Pl!Free
<1>2. assigned[n] = {} /\ ~Pl!Present(n)
  BY <1>1 DEF PlanningTyped, Pl!Present
<1>3. ASSUME NEW g \in Handlers, worker[g].at \in Busy PROVE n \notin {worker[g].task, worker[g].from} \cup worker[g].rest
  <2>1. WorkerShape(g)
    BY DEF PlanningTyped
  <2>2. CASE n = worker[g].task
    BY <1>1, <1>3, <2>1, <2>2 DEF WorkerShape
  <2>3. CASE n \in worker[g].rest \cup {worker[g].from}
    <3>1. n # None
      BY <1>1, OfficeAssumption
    <3> QED
      BY <1>1, <1>3, <2>1, <2>3, <3>1 DEF WorkerShape
  <2> QED
    BY <2>2, <2>3
<1> QED
  BY <1>1, <1>2, <1>3 DEF Writer

-----------------------------------------------------------------------------
(* Closed sprints.                                                         *)
LEMMA ClosedKept ==
  ASSUME NEW sid \in Sprints, sprint'[sid] = "completed" => sprint[sid] = "completed",
         \A g \in Handlers : worker'[g] = worker[g] \/ worker'[g].at # "close",
         Pl!Closed(sid)'
  PROVE  Pl!Closed(sid)
BY DEF Pl!Closed, Pl!Closing

LEMMA BehindKept ==
  ASSUME PlanningTyped, NEW t \in Tasks, Behind(t), t \in strays => t \in strays', kept \subseteq kept',
         Pl!Present(t)' => /\ Pl!Present(t) /\ task'[t].sprint \in {task[t].sprint, None}
                           /\ task[t].done => task'[t].done,
         \A s \in Sprints : s = task[t].sprint /\ Pl!Closed(s)' => Pl!Closed(s)
  PROVE  Behind(t)'
<1> SUFFICES ASSUME t \notin strays', Pl!Present(t)', ~task'[t].done, task'[t].sprint # None, task'[t].sprint \notin kept'
             PROVE  ~Pl!Closed(task[t].sprint)'
  BY DEF Behind
<1>1. /\ t \notin strays /\ Pl!Present(t) /\ ~task[t].done /\ task[t].sprint # None /\ task[t].sprint \notin kept
      /\ task'[t].sprint = task[t].sprint
  OBVIOUS
<1>2. ~Pl!Closed(task[t].sprint)
  BY <1>1 DEF Behind
<1>3. PICK s \in Sprints : s = task[t].sprint
  BY <1>1 DEF PlanningTyped, TaskShape, Pl!Planned
<1>4. ~Pl!Closed(s)'
  BY <1>2, <1>3
<1> QED
  BY <1>1, <1>3, <1>4 DEF Pl!Closed, Pl!Closing

-----------------------------------------------------------------------------
(* A task put in a sprint.                                                 *)
LEMMA BehindPut ==
  ASSUME PlanningTyped, NEW t \in Tasks, NEW sid \in Sprints \cup {None}, Pl!Strays(t, sid, task'[t].done),
         task'[t].sprint = sid, \A s \in Sprints : Pl!Closed(s)' => Pl!Closed(s)
  PROVE  /\ Behind(t)'
         /\ \A u \in Tasks \ {t} : u \in strays => u \in strays'
<1>1. strays' = IF Pl!Closed(sid) /\ ~task'[t].done THEN strays \cup {t} ELSE strays \ {t}
  BY DEF Pl!Strays
<1>2. \A u \in Tasks \ {t} : u \in strays => u \in strays'
  BY <1>1
<1>3. ASSUME t \notin strays', ~task'[t].done, sid # None PROVE ~Pl!Closed(sid)'
  BY <1>1, <1>3
<1>4. Pl!Closed(task[t].sprint)' <=> Pl!Closed(sid)'
  BY DEF Pl!Closed, Pl!Closing
<1> QED
  BY <1>2, <1>3, <1>4 DEF Behind

(* The request h only replaces rows, or goes on.                           *)
LEMMA ClosedSame ==
  ASSUME NEW h \in Handlers, UNCHANGED sprint, \A g \in Handlers \ {h} : worker'[g] = worker[g],
         worker'[h].at # "close"
  PROVE  \A s \in Sprints : Pl!Closed(s)' => Pl!Closed(s)
<1> SUFFICES ASSUME NEW s \in Sprints, Pl!Closed(s)' PROVE Pl!Closed(s)
  OBVIOUS
<1> QED
  BY ClosedKept

LEMMA PlannedSame ==
  ASSUME UNCHANGED sprint
  PROVE  PlannedKept
BY DEF PlannedKept, Pl!Planned

-----------------------------------------------------------------------------
(* The two records of who is assigned.                                     *)
LEMMA AgreeKept ==
  ASSUME NEW t \in Tasks, AgreeOf(t), TaintKept,
         \A g \in Handlers : worker'[g] = worker[g] \/ (g \notin Writer(t) /\ g \notin Writer(t)'),
         Pl!Present(t)' => Pl!Present(t) /\ task'[t].primary = task[t].primary,
         assigned'[t] = assigned[t],
         t \notin Tainted' => \A g \in Writer(t) :
            worker[g].at \in {"spawn", "copy"} /\ Writer(worker[g].from) = {} =>
              assigned'[worker[g].from] = assigned[worker[g].from] /\ (Writer(worker[g].from))' = {}
  PROVE  AgreeOf(t)'
<1> SUFFICES ASSUME t \notin Tainted' PROVE AgreeOf(t)'
  BY DEF AgreeOf
<1>1. t \notin Tainted
  BY DEF Tainted, TaintKept
<1>2. \A g \in Handlers : (g \in Writer(t)' <=> g \in Writer(t)) /\ (g \in Writer(t) => worker'[g] = worker[g])
  BY DEF Writer
<1>3. \A g, h \in Writer(t)' : g = h
  BY <1>1, <1>2 DEF AgreeOf, Writer
<1>4. Pl!Present(t)' /\ Writer(t)' = {} => (Match(task[t].primary, assigned[t]))'
  BY <1>1, <1>2 DEF AgreeOf, Writer, Match
<1>5. ASSUME NEW g \in Writer(t), worker[g].at \in {"spawn", "copy"}, NEW p, Copied(g, p) PROVE Copied(g, p)'
  <2>1. worker'[g] = worker[g] /\ g \in Handlers
    BY <1>2 DEF Writer
  <2>2. /\ assigned'[worker[g].from] = assigned[worker[g].from]
        /\ (Writer(worker[g].from))' = {}
    BY <1>5 DEF Copied
  <2> QED
    BY <1>5, <2>1, <2>2 DEF Copied, Match
<1>6. ASSUME NEW g \in Writer(t)', Pl!Present(t)' PROVE ToDo(g, t)'
  <2>1. g \in Writer(t) /\ worker'[g] = worker[g] /\ ToDo(g, t)
    BY <1>1, <1>2, <1>6 DEF AgreeOf, Writer
  <2>2. PICK p : p = task[t].primary
    OBVIOUS
  <2>3. worker[g].at = "copy" /\ t = worker[g].task => Copied(g, p)'
    BY <1>5, <2>1, <2>2 DEF ToDo
  <2> QED
    BY <1>6, <2>1, <2>2, <2>3 DEF ToDo, Match, Copied
<1>7. ASSUME NEW g \in Handlers, worker'[g].at = "spawn", worker'[g].task = t PROVE Copied(g, worker[g].row.primary)'
  <2>1. g \in Writer(t)'
    BY <1>7 DEF Writer, Busy
  <2>2. g \in Writer(t) /\ worker'[g] = worker[g]
    BY <1>2, <2>1
  <2>3. PICK p : p = worker[g].row.primary
    OBVIOUS
  <2>4. Copied(g, p)'
    BY <1>1, <1>5, <1>7, <2>2, <2>3 DEF AgreeOf, Copied
  <2> QED
    BY <2>2, <2>3, <2>4 DEF Copied, Match
<1> QED
  BY <1>3, <1>4, <1>6, <1>7 DEF AgreeOf

(* No request at the rows of a task goes on, and none begins.              *)
Resting == \A g \in Handlers : worker'[g] = worker[g] \/ (worker[g].at \notin Busy /\ worker'[g].at \notin Busy)

LEMMA AgreeResting ==
  ASSUME NEW t \in Tasks, AgreeOf(t), TaintKept, Resting, UNCHANGED assigned,
         Pl!Present(t)' => Pl!Present(t) /\ task'[t].primary = task[t].primary
  PROVE  AgreeOf(t)'
<1>1. \A g \in Handlers : worker'[g] = worker[g] \/ (g \notin Writer(t) /\ g \notin Writer(t)')
  BY DEF Resting, Writer
<1>2. ASSUME NEW g \in Writer(t), Writer(worker[g].from) = {} PROVE (Writer(worker[g].from))' = {}
  <2>1. worker'[g] = worker[g]
    BY <1>1 DEF Writer
  <2>2. PICK f : f = worker[g].from
    OBVIOUS
  <2>3. Writer(f)' = {}
    BY <1>2, <2>2 DEF Resting, Writer
  <2> QED
    BY <2>1, <2>2, <2>3 DEF Writer
<1> QED
  BY <1>1, <1>2, AgreeKept

(* Nobody is at the rows of t any more.                                    *)
LEMMA AgreeFree ==
  ASSUME NEW t \in Tasks,
         t \notin Tainted' => /\ Writer(t)' = {}
                              /\ Pl!Present(t)' => Match(task'[t].primary, assigned'[t])
  PROVE  AgreeOf(t)'
BY DEF AgreeOf, Writer, Busy, Match

(* h alone is at the rows of t.                                            *)
LEMMA AgreeSole ==
  ASSUME NEW t \in Tasks, NEW h \in Handlers,
         t \notin Tainted' =>
           /\ \A g \in Writer(t)' : g = h
           /\ Pl!Present(t)' => h \in Writer(t)' /\ ToDo(h, t)'
           /\ worker'[h].at = "spawn" /\ worker'[h].task = t => (Copied(h, worker[h].row.primary))'
  PROVE  AgreeOf(t)'
BY DEF AgreeOf, Writer, Busy

(* Another task, when h is at the rows of others.                          *)
LEMMA AgreeOther ==
  ASSUME PlanningTyped, NEW t \in Tasks, AgreeOf(t), TaintKept, NEW h \in Handlers,
         \A g \in Handlers \ {h} : worker'[g] = worker[g],
         h \notin Writer(t), h \notin Writer(t)',
         Pl!Present(t)' => Pl!Present(t) /\ task'[t].primary = task[t].primary,
         assigned'[t] = assigned[t],
         t \notin Tainted' => \A g \in Writer(t), f \in Tasks :
            worker[g].at \in {"spawn", "copy"} /\ f = worker[g].from /\ h \notin Writer(f) =>
              assigned'[f] = assigned[f] /\ h \notin Writer(f)'
  PROVE  AgreeOf(t)'
<1> SUFFICES ASSUME t \notin Tainted' PROVE AgreeOf(t)'
  BY DEF AgreeOf
<1>1. ASSUME NEW g \in Writer(t), worker[g].at \in {"spawn", "copy"}, Writer(worker[g].from) = {}
      PROVE  assigned'[worker[g].from] = assigned[worker[g].from] /\ (Writer(worker[g].from))' = {}
  <2>1. g \in Handlers /\ g # h /\ worker'[g] = worker[g] /\ WorkerShape(g)
    BY DEF Writer, PlanningTyped
  <2>2. PICK f \in Tasks : f = worker[g].from
    BY <1>1, <2>1 DEF WorkerShape, Busy
  <2>3. h \notin Writer(f) /\ Writer(f) = {}
    BY <1>1, <2>2 DEF Writer
  <2>4. assigned'[f] = assigned[f] /\ h \notin Writer(f)'
    BY <1>1, <2>2, <2>3
  <2>5. Writer(f)' = {}
    BY <2>3, <2>4 DEF Writer
  <2> QED
    BY <2>1, <2>2, <2>4, <2>5 DEF Writer
<1> QED
  BY <1>1, AgreeKept

-----------------------------------------------------------------------------
(* A step at no rows that leaves the primary assignees as they are.        *)
LEMMA RestStep ==
  ASSUME PlanningInv, UNCHANGED <<assigned, mixed, dropped, ruled>>, Resting,
         task' = [t \in Tasks |-> task'[t]], sprint' = [s \in Sprints |-> sprint'[s]],
         worker' = [g \in Handlers |-> worker'[g]],
         \A t \in Tasks : \/ task'[t] = task[t]
                          \/ Pl!Present(t) /\ Pl!Present(t)' /\ task'[t].primary = task[t].primary,
         \A t \in Tasks : Pl!Present(t)' => TaskShape(t)',
         \A g \in Handlers : worker'[g] # worker[g] => WorkerShape(g)',
         \A t \in Tasks : Behind(t)'
  PROVE  PlanningInv'
<1>1. PlanningTyped /\ RowsKept /\ TaintKept
  BY DEF PlanningInv, RowsKept, TaintKept, Pl!Present
<1>2. \A g \in Handlers : WorkerShape(g)'
  <2> SUFFICES ASSUME NEW g \in Handlers, worker'[g] = worker[g] PROVE WorkerShape(g)'
    OBVIOUS
  <2>1. \A t \in Tasks : worker[g].at = "spawn" /\ worker[g].task = t => task'[t] = task[t]
    BY <1>1 DEF PlanningTyped, WorkerShape, Busy, Pl!Present
  <2> QED
    BY <1>1, <2>1, WorkerKept
<1>3. \A g \in Handlers : worker'[g].at = "spawn" => worker'[g] = worker[g]
  BY DEF Resting, Busy
<1>4. \A t \in Tasks : task'[t] = Pl!Unused => task[t] = Pl!Unused
  BY DEF Pl!Present
<1>5. PlanningTyped'
  BY <1>1, <1>2, <1>3, <1>4 DEF PlanningTyped
<1>6. ASSUME NEW t \in Tasks PROVE AgreeOf(t)'
  <2>1. Pl!Present(t)' => Pl!Present(t) /\ task'[t].primary = task[t].primary
    BY DEF Pl!Present
  <2> QED
    BY <1>1, <2>1, AgreeResting DEF PlanningInv
<1> QED
  BY <1>5, <1>6 DEF PlanningInv

LEMMA StillRests ==
  ASSUME PlanningInv, UNCHANGED worker
  PROVE  Resting /\ worker' = [g \in Handlers |-> worker'[g]]
BY DEF Resting, PlanningInv, PlanningTyped

LEMMA SprintBegins ==
  ASSUME PlanningInv, NEW s \in Sprints, Pl!createSprint(s) \/ Pl!start(s)
  PROVE  PlanningInv'
<1>1. PlanningTyped
  BY DEF PlanningInv
<1>2. PICK status : sprint' = [sprint EXCEPT ![s] = status] /\ status \in {"planned", "active", "completed"}
                    /\ (status = "completed" => sprint[s] = "unused")
  BY <1>1 DEF Pl!createSprint, Pl!CreateSprint, Pl!start, Pl!SetSprintStatus, Pl!Planned
<1>3. UNCHANGED <<task, assigned, worker, mixed, dropped, ruled, strays, kept>>
  BY DEF Pl!createSprint, Pl!start
<1>4. PlannedKept /\ sprint' = [r \in Sprints |-> sprint'[r]] /\ \A r \in Sprints \ {s} : sprint'[r] = sprint[r]
  BY <1>1, <1>2 DEF PlannedKept, Pl!Planned, PlanningTyped
<1>5. \A t \in Tasks : Pl!Present(t)' => TaskShape(t)'
  BY <1>1, <1>3, <1>4, TaskKept
<1>6. ASSUME NEW t \in Tasks PROVE Behind(t)'
  <2>1. ASSUME Pl!Present(t), NEW r \in Sprints, r = task[t].sprint, sprint'[r] = "completed" PROVE sprint[r] = "completed"
    <3>1. r \in Pl!Planned
      BY <1>1, <2>1, OfficeAssumption DEF PlanningTyped, TaskShape
    <3> QED
      BY <1>1, <1>2, <1>4, <2>1, <3>1 DEF Pl!Planned, PlanningTyped
  <2>2. Behind(t) /\ (Pl!Present(t)' <=> Pl!Present(t))
    BY <1>3 DEF PlanningInv, Pl!Present
  <2>3. CASE Pl!Present(t)
    <3>1. \A r \in Sprints : r = task[t].sprint /\ Pl!Closed(r)' => Pl!Closed(r)
      BY <1>3, <2>1, <2>3, ClosedKept
    <3> QED
      BY <1>1, <1>3, <2>2, <3>1, BehindKept
  <2> QED
    BY <2>2, <2>3 DEF Behind
<1>7. Resting /\ worker' = [g \in Handlers |-> worker'[g]]
  BY <1>3, StillRests
<1>8. task' = [t \in Tasks |-> task'[t]]
  BY <1>1, <1>3 DEF PlanningTyped
<1> QED
  BY <1>3, <1>4, <1>5, <1>6, <1>7, <1>8, RestStep

(* The tasks of a sprint return to the backlog, all or the unfinished.     *)
LEMMA Returned ==
  ASSUME PlanningTyped, NEW s \in Sprints, NEW ts \in SUBSET Tasks,
         task' = [t \in Tasks |-> IF Pl!Present(t) /\ task[t].sprint = s /\ t \in ts
                                  THEN [task[t] EXCEPT !.sprint = None] ELSE task[t]]
  PROVE  /\ task' = [t \in Tasks |-> task'[t]]
         /\ \A t \in Tasks : \/ task'[t] = task[t]
                             \/ Pl!Present(t) /\ Pl!Present(t)' /\ task'[t].primary = task[t].primary
         /\ \A t \in Tasks : Pl!Present(t)' =>
              /\ Pl!Present(t) /\ task'[t].done = task[t].done /\ task'[t].state = "live"
              /\ {"state", "primary", "sprint", "done"} \subseteq DOMAIN task'[t]
              /\ task'[t].sprint = IF task[t].sprint = s /\ t \in ts THEN None ELSE task[t].sprint
<1>1. ASSUME NEW t \in Tasks
      PROVE  /\ \/ task'[t] = task[t]
                \/ Pl!Present(t) /\ Pl!Present(t)' /\ task'[t].primary = task[t].primary
             /\ Pl!Present(t)' =>
                  /\ Pl!Present(t) /\ task'[t].done = task[t].done /\ task'[t].state = "live"
                  /\ {"state", "primary", "sprint", "done"} \subseteq DOMAIN task'[t]
                  /\ task'[t].sprint = IF task[t].sprint = s /\ t \in ts THEN None ELSE task[t].sprint
  <2>1. CASE Pl!Present(t) /\ task[t].sprint = s /\ t \in ts
    <3> DEFINE r == [task[t] EXCEPT !.sprint = None]
    <3>1. /\ r.state = "live" /\ r.sprint = None /\ r.primary = task[t].primary /\ r.done = task[t].done
          /\ DOMAIN r = DOMAIN task[t] /\ r \notin {Pl!Unused, Pl!Deleted}
      BY <2>1, TaskEdits
    <3>2. task'[t] = r /\ TaskShape(t)
      BY <2>1 DEF PlanningTyped
    <3> HIDE DEF r
    <3> QED
      BY <2>1, <3>1, <3>2 DEF Pl!Present, TaskShape
  <2>2. CASE ~(Pl!Present(t) /\ task[t].sprint = s /\ t \in ts)
    <3>1. task'[t] = task[t]
      BY <2>2
    <3> QED
      BY <2>2, <3>1 DEF Pl!Present, PlanningTyped, TaskShape
  <2> QED
    BY <2>1, <2>2
<1> QED
  BY <1>1

LEMMA DeleteSprintStep ==
  ASSUME PlanningInv, NEW s \in Sprints, Pl!deleteSprint(s)
  PROVE  PlanningInv'
<1>1. PlanningTyped
  BY DEF PlanningInv
<1>2. /\ sprint' = [sprint EXCEPT ![s] = "deleted"]
      /\ task' = [t \in Tasks |-> IF Pl!Present(t) /\ task[t].sprint = s /\ t \in Tasks
                                  THEN [task[t] EXCEPT !.sprint = None] ELSE task[t]]
      /\ UNCHANGED <<assigned, worker, mixed, dropped, ruled, strays, kept>>
  BY DEF Pl!deleteSprint, Pl!DeleteSprint
<1>3. /\ task' = [t \in Tasks |-> task'[t]]
      /\ \A t \in Tasks : \/ task'[t] = task[t]
                          \/ Pl!Present(t) /\ Pl!Present(t)' /\ task'[t].primary = task[t].primary
      /\ \A t \in Tasks : Pl!Present(t)' =>
           /\ Pl!Present(t) /\ task'[t].done = task[t].done /\ task'[t].state = "live"
           /\ {"state", "primary", "sprint", "done"} \subseteq DOMAIN task'[t]
           /\ task'[t].sprint = IF task[t].sprint = s /\ t \in Tasks THEN None ELSE task[t].sprint
  BY <1>1, <1>2, Returned
<1>4. sprint' = [r \in Sprints |-> sprint'[r]] /\ \A r \in Sprints : sprint'[r] # "completed" \/ sprint'[r] = sprint[r]
  BY <1>1, <1>2 DEF PlanningTyped
<1>5. ASSUME NEW t \in Tasks, Pl!Present(t)' PROVE TaskShape(t)'
  <2>1. task'[t].sprint # None => task'[t].sprint = task[t].sprint /\ task[t].sprint # s /\ TaskShape(t)
    BY <1>1, <1>3, <1>5 DEF PlanningTyped
  <2> QED
    BY <1>1, <1>2, <1>3, <1>5, <2>1 DEF TaskShape, Pl!Planned, PlanningTyped
<1>6. \A r \in Sprints : Pl!Closed(r)' => Pl!Closed(r)
  BY <1>2, <1>4, ClosedKept
<1>7. ASSUME NEW t \in Tasks PROVE Behind(t)'
  BY <1>1, <1>2, <1>3, <1>6, BehindKept DEF PlanningInv
<1>8. Resting /\ worker' = [g \in Handlers |-> worker'[g]]
  BY <1>2, StillRests
<1> QED
  BY <1>2, <1>3, <1>4, <1>5, <1>7, <1>8, RestStep

(* One request goes on, at no rows.                                        *)
LEMMA RestsOn ==
  ASSUME PlanningInv, NEW h \in Handlers, NEW w, worker' = [worker EXCEPT ![h] = w],
         worker[h].at \notin Busy, w.at \notin Busy
  PROVE  /\ Resting /\ worker' = [g \in Handlers |-> worker'[g]] /\ worker'[h] = w
         /\ \A g \in Handlers \ {h} : worker'[g] = worker[g]
BY DEF Resting, PlanningInv, PlanningTyped

LEMMA CompleteStep ==
  ASSUME PlanningInv, NEW h \in Handlers, NEW s \in Sprints, Pl!complete(h, s)
  PROVE  PlanningInv'
<1>1. PlanningTyped
  BY DEF PlanningInv
<1> DEFINE w == [at |-> "close", sprint |-> s]
           ts == {t \in Tasks : ~task[t].done}
<1>2. w.at = "close" /\ w.sprint = s
  OBVIOUS
<1>3. /\ worker[h] = Pl!Idle /\ worker' = [worker EXCEPT ![h] = w]
      /\ strays' = {t \in strays : task'[t].sprint # None}
      /\ UNCHANGED <<assigned, sprint, mixed, dropped, ruled>>
  BY DEF Pl!complete, Pl!Takes, Pl!Goes
<1> HIDE DEF w
<1>4. worker[h].at = "idle"
  BY <1>3, TaskStates
<1>5. /\ Resting /\ worker' = [g \in Handlers |-> worker'[g]] /\ worker'[h] = w
      /\ \A g \in Handlers \ {h} : worker'[g] = worker[g]
  BY <1>2, <1>3, <1>4, RestsOn DEF Busy
<1>6. /\ task' = [t \in Tasks |-> task'[t]]
      /\ \A t \in Tasks : \/ task'[t] = task[t]
                          \/ Pl!Present(t) /\ Pl!Present(t)' /\ task'[t].primary = task[t].primary
      /\ \A t \in Tasks : Pl!Present(t)' =>
           /\ Pl!Present(t) /\ task'[t].done = task[t].done /\ task'[t].state = "live"
           /\ {"state", "primary", "sprint", "done"} \subseteq DOMAIN task'[t]
           /\ \/ task'[t].sprint = task[t].sprint /\ (~task[t].done /\ task[t].sprint = s => s \in kept')
              \/ task'[t].sprint = None
      /\ \A r \in Sprints \ {s} : r \in kept => r \in kept'
  <2>1. CASE Pl!MoveSprintTasksToBacklog(s) /\ kept' = kept \ {s}
    <3>1. task' = [t \in Tasks |-> IF Pl!Present(t) /\ task[t].sprint = s /\ t \in ts
                                   THEN [task[t] EXCEPT !.sprint = None] ELSE task[t]]
      BY <2>1 DEF Pl!MoveSprintTasksToBacklog
    <3>2. ts \in SUBSET Tasks /\ \A t \in Tasks : t \in ts <=> ~task[t].done
      OBVIOUS
    <3> HIDE DEF ts
    <3>3. /\ task' = [t \in Tasks |-> task'[t]]
          /\ \A t \in Tasks : \/ task'[t] = task[t]
                              \/ Pl!Present(t) /\ Pl!Present(t)' /\ task'[t].primary = task[t].primary
          /\ \A t \in Tasks : Pl!Present(t)' =>
               /\ Pl!Present(t) /\ task'[t].done = task[t].done /\ task'[t].state = "live"
               /\ {"state", "primary", "sprint", "done"} \subseteq DOMAIN task'[t]
               /\ task'[t].sprint = IF task[t].sprint = s /\ t \in ts THEN None ELSE task[t].sprint
      <4>1. PICK us \in SUBSET Tasks : us = ts
        BY <3>2
      <4> QED
        BY <1>1, <3>1, <4>1, Returned
    <3> QED
      BY <2>1, <3>2, <3>3
  <2>2. CASE kept' = kept \cup {s} /\ UNCHANGED task
    BY <1>1, <2>2 DEF PlanningTyped, TaskShape, Pl!Present
  <2> QED
    BY <2>1, <2>2 DEF Pl!complete
<1>7. ASSUME NEW t \in Tasks, Pl!Present(t)' PROVE TaskShape(t)'
  BY <1>1, <1>3, <1>6, <1>7 DEF PlanningTyped, TaskShape, Pl!Planned
<1>8. sprint' = [r \in Sprints |-> sprint'[r]]
  BY <1>1, <1>3 DEF PlanningTyped
<1>9. WorkerShape(h)'
  BY <1>2, <1>5 DEF WorkerShape, Busy
<1>10. ASSUME NEW t \in Tasks PROVE Behind(t)'
  <2> SUFFICES ASSUME t \notin strays', Pl!Present(t)', ~task'[t].done, task'[t].sprint # None, task'[t].sprint \notin kept'
               PROVE  ~Pl!Closed(task[t].sprint)'
    BY DEF Behind
  <2>1. /\ Pl!Present(t) /\ ~task[t].done /\ task'[t].sprint = task[t].sprint /\ task[t].sprint # s /\ t \notin strays
    BY <1>3, <1>6
  <2>2. PICK r \in Sprints \ {s} : r = task[t].sprint
    BY <1>1, <2>1 DEF PlanningTyped, TaskShape, Pl!Planned
  <2>3. ~Pl!Closed(r)
    BY <1>6, <2>1, <2>2 DEF PlanningInv, Behind
  <2>4. ~Pl!Closed(r)'
    BY <1>2, <1>3, <1>5, <2>2, <2>3 DEF Pl!Closed, Pl!Closing
  <2> QED
    BY <2>1, <2>2, <2>4 DEF Pl!Closed, Pl!Closing
<1> QED
  BY <1>3, <1>5, <1>6, <1>7, <1>8, <1>9, <1>10, RestStep

LEMMA IdleShape ==
  ASSUME NEW h \in Handlers, worker'[h].at \in {"idle", "file"}
  PROVE  WorkerShape(h)'
BY DEF WorkerShape, Busy

LEMMA ClosesStep ==
  ASSUME PlanningInv, NEW h \in Handlers, Pl!closes(h)
  PROVE  PlanningInv'
<1>1. PlanningTyped
  BY DEF PlanningInv
<1>2. PICK w : w = Pl!Idle
  OBVIOUS
<1>3. w.at = "idle"
  BY <1>2, TaskStates
<1>4. /\ worker[h].at = "close" /\ worker' = [worker EXCEPT ![h] = w]
      /\ UNCHANGED <<task, assigned, mixed, dropped, ruled, strays, kept>>
  BY <1>2 DEF Pl!closes, Pl!Goes
<1>5. /\ Resting /\ worker' = [g \in Handlers |-> worker'[g]] /\ worker'[h] = w
      /\ \A g \in Handlers \ {h} : worker'[g] = worker[g]
  BY <1>3, <1>4, RestsOn DEF Busy
<1>6. /\ sprint' = [r \in Sprints |-> sprint'[r]] /\ PlannedKept
      /\ \A r \in Sprints : sprint'[r] = sprint[r] \/ r = worker[h].sprint
  <2>1. CASE Pl!SetSprintStatus(worker[h].sprint, "completed")
    BY <1>1, <2>1 DEF Pl!SetSprintStatus, PlanningTyped, PlannedKept, Pl!Planned
  <2>2. CASE UNCHANGED sprint
    BY <1>1, <2>2 DEF PlanningTyped, PlannedKept, Pl!Planned
  <2> QED
    BY <2>1, <2>2 DEF Pl!closes
<1>7. ASSUME NEW r \in Sprints, Pl!Closed(r)' PROVE Pl!Closed(r)
  BY <1>3, <1>4, <1>5, <1>6, <1>7 DEF Pl!Closed, Pl!Closing
<1>8. \A t \in Tasks : Pl!Present(t)' => TaskShape(t)'
  BY <1>1, <1>4, <1>6, TaskKept
<1>9. ASSUME NEW t \in Tasks PROVE Behind(t)'
  <2>1. Behind(t) /\ (Pl!Present(t)' <=> Pl!Present(t))
    BY <1>4 DEF PlanningInv, Pl!Present
  <2> QED
    BY <1>1, <1>4, <1>7, <2>1, BehindKept
<1>10. WorkerShape(h)' /\ task' = [t \in Tasks |-> task'[t]]
  BY <1>1, <1>3, <1>4, <1>5, IdleShape DEF PlanningTyped
<1> QED
  BY <1>4, <1>5, <1>6, <1>8, <1>9, <1>10, RestStep

-----------------------------------------------------------------------------
(* The row of t is inserted, or updated.                                   *)
LEMMA RowWritten ==
  ASSUME PlanningInv, NEW t \in Tasks, NEW r, task' = [task EXCEPT ![t] = r],
         r.state = "live", {"state", "primary", "sprint", "done"} \subseteq DOMAIN r, r \notin {Pl!Unused, Pl!Deleted},
         r.sprint \in Pl!Places, Pl!Strays(t, r.sprint, r.done), UNCHANGED <<sprint, kept>>,
         \A s \in Sprints : Pl!Closed(s)' => Pl!Closed(s)
  PROVE  /\ task' = [u \in Tasks |-> task'[u]] /\ sprint' = [s \in Sprints |-> sprint'[s]]
         /\ task'[t] = r /\ Pl!Present(t)' /\ \A u \in Tasks \ {t} : task'[u] = task[u]
         /\ RowsKept
         /\ \A u \in Tasks : Pl!Present(u)' => TaskShape(u)'
         /\ \A u \in Tasks : Behind(u)'
<1>1. PlanningTyped /\ PlannedKept
  BY PlannedSame DEF PlanningInv
<1>2. /\ task' = [u \in Tasks |-> task'[u]] /\ sprint' = [s \in Sprints |-> sprint'[s]]
      /\ task'[t] = r /\ \A u \in Tasks \ {t} : task'[u] = task[u]
  BY <1>1 DEF PlanningTyped
<1>3. Pl!Present(t)' /\ RowsKept
  BY <1>2 DEF Pl!Present, RowsKept
<1>4. TaskShape(t)'
  BY <1>2 DEF TaskShape, Pl!Places, Pl!Planned
<1>5. ASSUME NEW u \in Tasks, Pl!Present(u)' PROVE TaskShape(u)'
  BY <1>1, <1>2, <1>4, <1>5, TaskKept
<1>6. PICK sid \in Sprints \cup {None} : sid = r.sprint
  BY DEF Pl!Places, Pl!Planned
<1>7. Pl!Strays(t, sid, task'[t].done) /\ task'[t].sprint = sid
  BY <1>2, <1>6 DEF Pl!Strays, Pl!Closed, Pl!Closing
<1>8. /\ Behind(t)'
      /\ \A u \in Tasks \ {t} : u \in strays => u \in strays'
  BY <1>1, <1>7, BehindPut
<1>9. ASSUME NEW u \in Tasks \ {t} PROVE Behind(u)'
  <2>1. Behind(u) /\ (Pl!Present(u)' <=> Pl!Present(u)) /\ (u \in strays => u \in strays')
    BY <1>2, <1>8 DEF PlanningInv, Pl!Present
  <2> QED
    BY <1>1, <1>2, <2>1, BehindKept
<1> QED
  BY <1>2, <1>3, <1>5, <1>8, <1>9

(* A column of the row that is not about who is assigned.                  *)
LEMMA ColumnStep ==
  ASSUME PlanningInv, NEW t \in Tasks, Pl!Present(t), NEW r, task' = [task EXCEPT ![t] = r],
         r.state = "live", {"state", "primary", "sprint", "done"} \subseteq DOMAIN r, r \notin {Pl!Unused, Pl!Deleted},
         r.primary = task[t].primary,
         r.sprint \in Pl!Places, Pl!Strays(t, r.sprint, r.done),
         UNCHANGED <<assigned, sprint, worker, mixed, dropped, ruled, kept>>
  PROVE  PlanningInv'
<1>1. \A s \in Sprints : Pl!Closed(s)' => Pl!Closed(s)
  BY ClosedKept
<1>2. /\ task' = [u \in Tasks |-> task'[u]] /\ sprint' = [s \in Sprints |-> sprint'[s]]
      /\ task'[t] = r /\ Pl!Present(t)' /\ \A u \in Tasks \ {t} : task'[u] = task[u]
      /\ \A u \in Tasks : Pl!Present(u)' => TaskShape(u)'
      /\ \A u \in Tasks : Behind(u)'
  BY <1>1, RowWritten
<1>3. Resting /\ worker' = [g \in Handlers |-> worker'[g]]
  BY StillRests
<1> QED
  BY <1>2, <1>3, RestStep

LEMMA SprintStep ==
  ASSUME PlanningInv, NEW t \in Tasks, Pl!Present(t), NEW sid \in Pl!Places, Pl!SetTaskSprint(t, sid),
         UNCHANGED <<assigned, sprint, worker, mixed, dropped, ruled, kept>>
  PROVE  PlanningInv'
<1>1. PlanningTyped /\ TaskShape(t)
  BY DEF PlanningInv, PlanningTyped
<1>2. PICK r : r = [task[t] EXCEPT !.sprint = sid]
  OBVIOUS
<1>3. /\ r.state = "live" /\ r.sprint = sid /\ r.primary = task[t].primary /\ r.done = task[t].done
      /\ DOMAIN r = DOMAIN task[t] /\ r \notin {Pl!Unused, Pl!Deleted}
  BY <1>1, <1>2, TaskEdits
<1>4. task' = [task EXCEPT ![t] = r] /\ Pl!Strays(t, r.sprint, r.done)
  BY <1>2, <1>3 DEF Pl!SetTaskSprint, Pl!Strays, Pl!Closed, Pl!Closing
<1>5. {"state", "primary", "sprint", "done"} \subseteq DOMAIN r
  BY <1>1, <1>3 DEF TaskShape
<1> QED
  BY <1>3, <1>4, <1>5, ColumnStep

(* The row of t, finished or not.                                          *)
LEMMA DoneRow ==
  ASSUME PlanningInv, NEW t \in Tasks, Pl!Present(t), NEW done, Pl!SetTaskDone(t, done)
  PROVE  \E r : /\ task' = [task EXCEPT ![t] = r] /\ r.state = "live" /\ {"state", "primary", "sprint", "done"} \subseteq DOMAIN r
                /\ r \notin {Pl!Unused, Pl!Deleted} /\ r.primary = task[t].primary
                /\ r.sprint \in Pl!Places /\ Pl!Strays(t, r.sprint, r.done)
<1>1. PlanningTyped /\ TaskShape(t)
  BY DEF PlanningInv, PlanningTyped
<1>2. PICK r : r = [task[t] EXCEPT !.done = done]
  OBVIOUS
<1>3. /\ r.state = "live" /\ r.sprint = task[t].sprint /\ r.primary = task[t].primary /\ r.done = done
      /\ DOMAIN r = DOMAIN task[t] /\ r \notin {Pl!Unused, Pl!Deleted}
  BY <1>1, <1>2, TaskEdits
<1>4. task' = [task EXCEPT ![t] = r] /\ Pl!Strays(t, r.sprint, r.done)
  BY <1>2, <1>3 DEF Pl!SetTaskDone, Pl!Strays, Pl!Closed, Pl!Closing
<1>5. {"state", "primary", "sprint", "done"} \subseteq DOMAIN r /\ r.sprint \in Pl!Places
  BY <1>1, <1>3 DEF TaskShape, Pl!Places
<1> QED
  BY <1>3, <1>4, <1>5

LEMMA DoneStep ==
  ASSUME PlanningInv, NEW t \in Tasks, Pl!Present(t), NEW done, Pl!SetTaskDone(t, done),
         UNCHANGED <<assigned, sprint, worker, mixed, dropped, ruled, kept>>
  PROVE  PlanningInv'
BY DoneRow, ColumnStep

LEMMA SetSprintStep ==
  ASSUME PlanningInv, NEW t \in Tasks, Pl!setSprint(t)
  PROVE  PlanningInv'
<1>1. PICK sid \in Pl!Places : Pl!SetTaskSprint(t, sid)
  BY DEF Pl!setSprint
<1>2. Pl!Present(t) /\ UNCHANGED <<assigned, sprint, worker, mixed, dropped, ruled, kept>>
  BY DEF Pl!setSprint
<1>3. PICK x \in Sprints \cup {None} : x = sid
  BY DEF Pl!Places, Pl!Planned
<1> QED
  BY <1>1, <1>2, SprintStep

LEMMA BulkDoneStep ==
  ASSUME PlanningInv, Pl!bulkDone
  PROVE  PlanningInv'
<1>1. PlanningTyped
  BY DEF PlanningInv
<1>2. PICK ts \in SUBSET {t \in Tasks : Pl!Present(t)}, done \in BOOLEAN : Pl!BulkSetTaskDone(ts, done)
  BY DEF Pl!bulkDone
<1>3. UNCHANGED <<assigned, sprint, worker, mixed, dropped, ruled, kept>>
  BY DEF Pl!bulkDone
<1>4. /\ task' = [t \in Tasks |-> IF t \in ts THEN [task[t] EXCEPT !.done = done] ELSE task[t]]
      /\ strays' = IF done THEN strays \ ts ELSE strays \cup {t \in ts : Pl!Closed(task[t].sprint)}
  BY <1>2 DEF Pl!BulkSetTaskDone
<1>5. \A s \in Sprints : Pl!Closed(s)' => Pl!Closed(s)
  BY <1>3, ClosedKept
<1>6. ASSUME NEW t \in ts
      PROVE  /\ task'[t].primary = task[t].primary /\ task'[t].done = done /\ task'[t].sprint = task[t].sprint
             /\ Pl!Present(t) /\ Pl!Present(t)' /\ TaskShape(t)'
  <2>1. t \in Tasks /\ Pl!Present(t) /\ TaskShape(t)
    BY <1>1, <1>2 DEF PlanningTyped
  <2>2. PICK r : r = [task[t] EXCEPT !.done = done]
    OBVIOUS
  <2>3. /\ r.state = "live" /\ r.sprint = task[t].sprint /\ r.primary = task[t].primary /\ r.done = done
        /\ DOMAIN r = DOMAIN task[t] /\ r \notin {Pl!Unused, Pl!Deleted}
    BY <1>1, <2>1, <2>2, TaskEdits
  <2>4. task'[t] = r
    BY <1>4, <2>1, <2>2
  <2> QED
    BY <1>3, <2>1, <2>3, <2>4 DEF Pl!Present, TaskShape, Pl!Planned
<1>7. \A t \in Tasks \ ts : task'[t] = task[t]
  BY <1>4
<1>8. task' = [t \in Tasks |-> task'[t]] /\ sprint' = [s \in Sprints |-> sprint'[s]]
  BY <1>1, <1>3, <1>4 DEF PlanningTyped
<1>9. ASSUME NEW t \in Tasks, Pl!Present(t)' PROVE TaskShape(t)'
  BY <1>1, <1>3, <1>6, <1>7, <1>9, TaskKept, PlannedSame
<1>10. ASSUME NEW t \in Tasks PROVE Behind(t)'
  <2>1. Behind(t)
    BY DEF PlanningInv
  <2>2. CASE t \notin ts
    <3>1. (t \in strays => t \in strays') /\ task'[t] = task[t] /\ (Pl!Present(t)' <=> Pl!Present(t))
      BY <1>4, <1>7, <2>2 DEF Pl!Present
    <3> QED
      BY <1>1, <1>3, <1>5, <2>1, <3>1, BehindKept
  <2>3. CASE t \in ts /\ done
    BY <1>6, <2>3 DEF Behind
  <2>4. CASE t \in ts /\ ~done
    <3> SUFFICES ASSUME t \notin strays' PROVE Behind(t)'
      BY DEF Behind
    <3>1. ~Pl!Closed(task[t].sprint) /\ task'[t].sprint = task[t].sprint
      BY <1>4, <1>6, <2>4
    <3>2. ~(Pl!Closed(task[t].sprint))'
      BY <1>3, <3>1 DEF Pl!Closed, Pl!Closing
    <3> QED
      BY <3>2 DEF Behind
  <2> QED
    BY <2>2, <2>3, <2>4
<1>11. Resting /\ worker' = [g \in Handlers |-> worker'[g]]
  BY <1>3, StillRests
<1> QED
  BY <1>3, <1>6, <1>7, <1>8, <1>9, <1>10, <1>11, RestStep

-----------------------------------------------------------------------------
(* A task is filed, and whoever files it goes on.                          *)
LEMMA FileStep ==
  ASSUME PlanningInv, NEW t \in Tasks, Pl!File(t), Resting, worker' = [g \in Handlers |-> worker'[g]],
         \A g \in Handlers : worker'[g] # worker[g] => WorkerShape(g)' /\ worker'[g].at # "close"
  PROVE  PlanningInv'
<1>1. PlanningTyped
  BY DEF PlanningInv
<1>2. PICK r : r = Pl!Row(None, None, FALSE)
  OBVIOUS
<1>3. /\ r.state = "live" /\ r.primary = None /\ r.sprint = None /\ r.done = FALSE
      /\ DOMAIN r = {"state", "primary", "sprint", "done"} /\ r \notin {Pl!Unused, Pl!Deleted}
  <2>1. /\ r.state = "live" /\ r.primary = None /\ r.sprint = None /\ r.done = FALSE
        /\ DOMAIN r = {"state", "primary", "sprint", "done"}
    BY <1>2 DEF Pl!Row
  <2> QED
    BY <2>1, TaskStates
<1>4. /\ t \in Pl!Free /\ task' = [task EXCEPT ![t] = r] /\ Pl!Strays(t, r.sprint, r.done)
      /\ UNCHANGED <<assigned, sprint, mixed, dropped, ruled, kept>>
  BY <1>2, <1>3 DEF Pl!File, Pl!CreateTask
<1>5. \A s \in Sprints : Pl!Closed(s)' => Pl!Closed(s)
  BY <1>4, ClosedKept
<1>6. /\ task' = [u \in Tasks |-> task'[u]] /\ sprint' = [s \in Sprints |-> sprint'[s]]
      /\ task'[t] = r /\ Pl!Present(t)' /\ \A u \in Tasks \ {t} : task'[u] = task[u]
      /\ RowsKept
      /\ \A u \in Tasks : Pl!Present(u)' => TaskShape(u)'
      /\ \A u \in Tasks : Behind(u)'
  BY <1>3, <1>4, <1>5, RowWritten DEF Pl!Places
<1>7. /\ task[t] = Pl!Unused /\ assigned[t] = {} /\ Writer(t) = {}
      /\ \A g \in Handlers : worker[g].at = "spawn" => worker[g].task # t
  BY <1>1, <1>4, FreeIsFree
<1>8. ASSUME NEW g \in Handlers PROVE WorkerShape(g)'
  <2>1. \A u \in Tasks : worker[g].at = "spawn" /\ worker[g].task = u => task'[u] = task[u]
    BY <1>6, <1>7
  <2> QED
    BY <1>1, <1>6, <2>1, WorkerKept
<1>9. \A g \in Handlers : worker'[g].at = "spawn" => worker'[g] = worker[g]
  BY DEF Resting, Busy
<1>10. ASSUME NEW u \in Tasks, task'[u] = Pl!Unused PROVE assigned'[u] = {}
  BY <1>1, <1>3, <1>4, <1>6, <1>10 DEF PlanningTyped
<1>11. PlanningTyped'
  BY <1>1, <1>4, <1>6, <1>8, <1>9, <1>10 DEF PlanningTyped
<1>12. TaintKept
  BY <1>4 DEF TaintKept
<1>13. ASSUME NEW u \in Tasks \ {t} PROVE AgreeOf(u)'
  <2>1. Pl!Present(u)' => Pl!Present(u) /\ task'[u].primary = task[u].primary
    BY <1>6 DEF Pl!Present
  <2> QED
    BY <1>4, <1>12, <2>1, AgreeResting DEF PlanningInv
<1>14. AgreeOf(t)'
  <2>1. Writer(t)' = {}
    BY <1>7 DEF Writer, Resting
  <2>2. Match(task'[t].primary, assigned'[t])
    BY <1>3, <1>4, <1>6, <1>7 DEF Match
  <2> QED
    BY <2>1, <2>2, AgreeFree
<1> QED
  BY <1>6, <1>11, <1>13, <1>14 DEF PlanningInv

LEMMA FilingSteps ==
  ASSUME PlanningInv, NEW t \in Tasks,
         Pl!Handle(t) \/ \E h \in Handlers : Pl!submitResponse(h, t) \/ Pl!files(h, t)
  PROVE  PlanningInv'
<1>1. CASE Pl!File(t) /\ UNCHANGED worker
  BY <1>1, StillRests, FileStep
<1>2. ASSUME NEW h \in Handlers, Pl!submitResponse(h, t) PROVE PlanningInv'
  <2> DEFINE w == [at |-> "rules", task |-> t]
  <2>1. w.at = "rules" /\ w.task = t
    OBVIOUS
  <2>2. t # None
    BY OfficeAssumption
  <2>3. Pl!File(t) /\ worker' = [worker EXCEPT ![h] = w] /\ worker[h] = Pl!Idle
    BY <1>2, <2>2 DEF Pl!submitResponse, Pl!maybeCreateTaskFromForm, Pl!Then, Pl!Goes, Pl!Takes
  <2> HIDE DEF w
  <2>4. worker[h].at = "idle"
    BY <2>3, TaskStates
  <2>5. /\ Resting /\ worker' = [g \in Handlers |-> worker'[g]] /\ worker'[h] = w
        /\ \A g \in Handlers \ {h} : worker'[g] = worker[g]
    BY <2>1, <2>3, <2>4, RestsOn DEF Busy
  <2>6. WorkerShape(h)' /\ worker'[h].at # "close"
    BY <2>1, <2>5 DEF WorkerShape, Busy
  <2> QED
    BY <2>3, <2>5, <2>6, FileStep
<1> QED
  BY <1>1, <1>2 DEF Pl!Handle, Pl!files

LEMMA AnswerSteps ==
  ASSUME PlanningInv, NEW h \in Handlers, Pl!createTasks(h) \/ Pl!filed(h) \/ Pl!answers(h)
  PROVE  PlanningInv'
<1>1. PlanningTyped
  BY DEF PlanningInv
<1>2. [at |-> "file"].at = "file" /\ Pl!Idle.at = "idle"
  BY TaskStates
<1>3. PICK w : worker' = [worker EXCEPT ![h] = w] /\ w.at \in {"idle", "file"}
  BY <1>2 DEF Pl!createTasks, Pl!filed, Pl!answers, Pl!Goes
<1>4. worker[h].at \in {"idle", "file", "rules"}
  BY <1>2 DEF Pl!createTasks, Pl!filed, Pl!answers, Pl!Takes
<1>5. UNCHANGED <<task, assigned, sprint, mixed, dropped, ruled, strays, kept>>
  BY DEF Pl!createTasks, Pl!filed, Pl!answers
<1>6. /\ Resting /\ worker' = [g \in Handlers |-> worker'[g]] /\ worker'[h] = w
      /\ \A g \in Handlers \ {h} : worker'[g] = worker[g]
  BY <1>3, <1>4, RestsOn DEF Busy
<1>7. WorkerShape(h)'
  BY <1>3, <1>6, IdleShape
<1>8. \A s \in Sprints : Pl!Closed(s)' => Pl!Closed(s)
  BY <1>3, <1>5, <1>6, ClosedSame
<1>9. ASSUME NEW t \in Tasks PROVE Behind(t)' /\ (Pl!Present(t)' => TaskShape(t)')
  <2>1. Pl!Present(t)' <=> Pl!Present(t)
    BY <1>5 DEF Pl!Present
  <2>2. Pl!Present(t)' => TaskShape(t)'
    BY <1>1, <1>5, TaskKept, PlannedSame
  <2> QED
    BY <1>1, <1>5, <1>8, <2>1, <2>2, BehindKept DEF PlanningInv
<1>10. task' = [t \in Tasks |-> task'[t]] /\ sprint' = [s \in Sprints |-> sprint'[s]]
  BY <1>1, <1>5 DEF PlanningTyped
<1> QED
  BY <1>5, <1>6, <1>7, <1>9, <1>10, RestStep

-----------------------------------------------------------------------------
LEMMA WorkerIs ==
  ASSUME PlanningInv, NEW h \in Handlers, NEW w, worker' = [worker EXCEPT ![h] = w]
  PROVE  /\ worker'[h] = w /\ worker' = [g \in Handlers |-> worker'[g]]
         /\ \A g \in Handlers \ {h} : worker'[g] = worker[g]
BY DEF PlanningInv, PlanningTyped

(* Another request at the same rows parts the two records.                 *)
LEMMA Crossing ==
  ASSUME NEW h \in Handlers, NEW ts, Pl!Crosses(h, ts)
  PROVE  /\ mixed \subseteq mixed'
         /\ \A g \in Handlers \ {h}, u \in ts : g \in Pl!At(u) => u \in mixed' /\ worker[g].task \in mixed'
BY DEF Pl!Crosses

LEMMA AtIs ==
  ASSUME NEW g \in Handlers, NEW u
  PROVE  /\ g \in Writer(u) => g \in Pl!At(u)
         /\ worker[g].at \in {"spawn", "copy"} /\ u = worker[g].from => g \in Pl!At(u)
BY DEF Writer, Busy, Pl!At

(* Who copies the rows of another task is at the rows of one.              *)
LEMMA CopierIs ==
  ASSUME PlanningTyped, NEW u \in Tasks, NEW g \in Writer(u), worker[g].at \in {"spawn", "copy"}
  PROVE  g \in Handlers /\ worker[g].task = u /\ worker[g].from \in Tasks
<1>1. g \in Handlers /\ WorkerShape(g)
  BY DEF PlanningTyped, Writer
<1>2. worker[g].task = u /\ worker[g].from \in Tasks
  BY <1>1 DEF WorkerShape, Writer, Busy
<1> QED
  BY <1>1, <1>2

LEMMA Primary ==
  ASSUME NEW ids \in SUBSET Users, NEW primary \in Pl!resolveAssignees(ids)
  PROVE  Match(primary, ids)
BY OfficeAssumption DEF Match, Pl!resolveAssignees

(* A request begins to replace the rows of the tasks ts.                   *)
LEMMA Begins ==
  ASSUME PlanningInv, NEW h \in Handlers, worker[h].at = "idle", NEW w, worker' = [worker EXCEPT ![h] = w],
         NEW ts \in SUBSET Tasks, w.at = "clear", w.task \in ts, w.rest = ts \ {w.task},
         TaintKept, UNCHANGED assigned,
         \A u \in Tasks \ ts : Pl!Present(u)' => Pl!Present(u) /\ task'[u].primary = task[u].primary,
         \A g \in Handlers \ {h}, u \in ts : g \in Pl!At(u) => u \in mixed' /\ worker[g].task \in mixed',
         \A u \in ts : u \notin Tainted' /\ Pl!Present(u)' => ToDo(h, u)'
  PROVE  \A u \in Tasks : AgreeOf(u)'
<1>1. PlanningTyped
  BY DEF PlanningInv
<1>2. /\ worker'[h] = w
      /\ \A g \in Handlers \ {h} : worker'[g] = worker[g]
  BY WorkerIs
<1>3. \A u \in Tasks : h \in Writer(u)' <=> u \in ts
  BY <1>2 DEF Writer, Busy
<1>4. ASSUME NEW u \in ts PROVE AgreeOf(u)'
  <2>1. ASSUME u \notin Tainted', NEW g \in Writer(u)', g # h PROVE FALSE
    <3>1. g \in Handlers \ {h} /\ g \in Writer(u)
      BY <1>2, <2>1 DEF Writer
    <3>2. u \in mixed'
      BY <3>1, AtIs
    <3> QED
      BY <2>1, <3>2 DEF Tainted
  <2>2. worker'[h].at # "spawn"
    BY <1>2
  <2> QED
    BY <1>3, <2>1, <2>2, AgreeSole
<1>5. ASSUME NEW u \in Tasks \ ts PROVE AgreeOf(u)'
  <2>1. h \notin Writer(u) /\ h \notin Writer(u)'
    BY <1>3 DEF Writer, Busy
  <2>2. ASSUME u \notin Tainted', NEW g \in Writer(u), NEW f \in Tasks, worker[g].at \in {"spawn", "copy"}, f = worker[g].from
        PROVE  f \notin ts
    <3>1. g \in Handlers /\ worker[g].task = u
      BY <1>1, <2>2, CopierIs
    <3>2. g # h
      BY <2>2
    <3>3. g \in Pl!At(f)
      BY <2>2, <3>1, AtIs
    <3> QED
      BY <2>2, <3>1, <3>2, <3>3 DEF Tainted
  <2> QED
    BY <1>1, <1>2, <1>3, <2>1, <2>2, AgreeOther DEF PlanningInv
<1> QED
  BY <1>4, <1>5

LEMMA CreateTaskStep ==
  ASSUME PlanningInv, NEW h \in Handlers, NEW t \in Tasks, Pl!create(h, t)
  PROVE  PlanningInv'
<1>1. PlanningTyped
  BY DEF PlanningInv
<1>2. PICK ids \in SUBSET Users, sid \in Pl!Places : \E primary \in Pl!resolveAssignees(ids) :
        /\ Pl!CreateTask(t, primary, sid)
        /\ Pl!Goes(h, Pl!Work("clear", t, ids, None, {}, t))
  BY DEF Pl!create
<1>3. PICK primary \in Pl!resolveAssignees(ids) :
        /\ Pl!CreateTask(t, primary, sid)
        /\ Pl!Goes(h, Pl!Work("clear", t, ids, None, {}, t))
  BY <1>2
<1>4. /\ worker[h] = Pl!Idle /\ t \in Pl!Free
      /\ UNCHANGED <<assigned, sprint, mixed, dropped, ruled, kept>>
  BY DEF Pl!create, Pl!Takes
<1>5. PICK r : r = Pl!Row(primary, sid, FALSE)
  OBVIOUS
<1>6. /\ r.state = "live" /\ r.primary = primary /\ r.sprint = sid /\ r.done = FALSE
      /\ DOMAIN r = {"state", "primary", "sprint", "done"} /\ r \notin {Pl!Unused, Pl!Deleted}
  <2>1. /\ r.state = "live" /\ r.primary = primary /\ r.sprint = sid /\ r.done = FALSE
        /\ DOMAIN r = {"state", "primary", "sprint", "done"}
    BY <1>5 DEF Pl!Row
  <2> QED
    BY <2>1, TaskStates
<1>7. task' = [task EXCEPT ![t] = r] /\ Pl!Strays(t, r.sprint, r.done)
  BY <1>3, <1>5, <1>6 DEF Pl!CreateTask, Pl!Strays, Pl!Closed, Pl!Closing
<1>8. PICK w : w = Pl!Work("clear", t, ids, None, {}, t)
  OBVIOUS
<1>9. /\ w.at = "clear" /\ w.task = t /\ w.ids = ids /\ w.all = ids /\ w.from = None /\ w.rest = {} /\ w.rule = t
      /\ DOMAIN w = {"at", "task", "ids", "all", "from", "rest", "rule"}
  BY <1>8, WorkIs
<1>10. worker' = [worker EXCEPT ![h] = w]
  BY <1>3, <1>8 DEF Pl!Goes
<1>11. /\ worker'[h] = w /\ worker' = [g \in Handlers |-> worker'[g]]
       /\ \A g \in Handlers \ {h} : worker'[g] = worker[g]
  BY <1>10, WorkerIs
<1>12. \A s \in Sprints : Pl!Closed(s)' => Pl!Closed(s)
  BY <1>4, <1>9, <1>11, ClosedSame
<1>13. /\ task' = [u \in Tasks |-> task'[u]] /\ sprint' = [s \in Sprints |-> sprint'[s]]
       /\ task'[t] = r /\ Pl!Present(t)' /\ \A u \in Tasks \ {t} : task'[u] = task[u]
       /\ RowsKept
       /\ \A u \in Tasks : Pl!Present(u)' => TaskShape(u)'
       /\ \A u \in Tasks : Behind(u)'
  BY <1>4, <1>6, <1>7, <1>12, RowWritten
<1>14. /\ task[t] = Pl!Unused /\ Writer(t) = {}
       /\ \A g \in Handlers : worker[g].at = "spawn" => worker[g].task # t
       /\ \A g \in Handlers : worker[g].at \in Busy => t # worker[g].from
  BY <1>1, <1>4, FreeIsFree
<1>15. worker[h].at = "idle"
  BY <1>4, TaskStates
<1>16. WorkerShape(h)'
  BY <1>9, <1>11, <1>13 DEF WorkerShape, Busy, Pl!Present
<1>17. ASSUME NEW u \in Tasks, task'[u] = Pl!Unused PROVE assigned'[u] = {}
  BY <1>1, <1>4, <1>6, <1>13, <1>17 DEF PlanningTyped
<1>18. PlanningTyped'
  <2>1. assigned' = [u \in Tasks |-> assigned'[u]]
    BY <1>1, <1>4 DEF PlanningTyped
  <2>2. \A u \in Tasks, g \in Handlers \ {h} : worker[g].at = "spawn" /\ worker[g].task = u => task'[u] = task[u]
    BY <1>13, <1>14
  <2>3. worker'[h].at # "spawn"
    BY <1>9, <1>11
  <2> QED
    BY <1>1, <1>11, <1>13, <1>16, <1>17, <2>1, <2>2, <2>3, TypedStep
<1>19. \A u \in Tasks : AgreeOf(u)'
  <2>1. TaintKept
    BY <1>4 DEF TaintKept
  <2>2. \A u \in Tasks \ {t} : Pl!Present(u)' => Pl!Present(u) /\ task'[u].primary = task[u].primary
    BY <1>13 DEF Pl!Present
  <2>3. ASSUME NEW g \in Handlers \ {h}, g \in Pl!At(t) PROVE FALSE
    <3>1. WorkerShape(g)
      BY <1>1 DEF PlanningTyped
    <3> QED
      BY <1>14, <2>3, <3>1 DEF Pl!At, Writer, Busy
  <2>4. ToDo(h, t)'
    BY <1>3, <1>6, <1>9, <1>11, <1>13, Primary DEF ToDo, Match
  <2>5. PICK ts \in SUBSET Tasks : ts = {t}
    OBVIOUS
  <2>6. w.task \in ts /\ w.rest = ts \ {w.task} /\ w.at = "clear" /\ UNCHANGED assigned
    BY <1>4, <1>9, <2>5
  <2>7. \A g \in Handlers \ {h}, u \in ts : g \in Pl!At(u) => u \in mixed' /\ worker[g].task \in mixed'
    BY <2>3, <2>5
  <2>8. \A u \in ts : u \notin Tainted' /\ Pl!Present(u)' => ToDo(h, u)'
    BY <2>4, <2>5
  <2>9. \A u \in Tasks \ ts : Pl!Present(u)' => Pl!Present(u) /\ task'[u].primary = task[u].primary
    BY <2>2, <2>5
  <2> QED
    BY <1>10, <1>15, <2>1, <2>6, <2>7, <2>8, <2>9, Begins
<1> QED
  BY <1>13, <1>18, <1>19 DEF PlanningInv

LEMMA UpdateTaskStep ==
  ASSUME PlanningInv, NEW h \in Handlers, NEW t \in Tasks, Pl!update(h, t)
  PROVE  PlanningInv'
<1>1. PlanningTyped
  BY DEF PlanningInv
<1>2. PICK ids \in SUBSET Users, sid \in Pl!Places, done \in BOOLEAN : \E primary \in Pl!resolveAssignees(ids) :
        /\ Pl!UpdateTask(t, primary, sid, done)
        /\ Pl!Goes(h, Pl!Work("clear", t, ids, None, {}, IF ids \subseteq assigned[t] THEN None ELSE t))
  BY DEF Pl!update
<1>3. PICK primary \in Pl!resolveAssignees(ids) :
        /\ Pl!UpdateTask(t, primary, sid, done)
        /\ Pl!Goes(h, Pl!Work("clear", t, ids, None, {}, IF ids \subseteq assigned[t] THEN None ELSE t))
  BY <1>2
<1>4. /\ worker[h] = Pl!Idle /\ Pl!Present(t) /\ Pl!Crosses(h, {t})
      /\ UNCHANGED <<assigned, sprint, dropped, ruled, kept>>
  BY DEF Pl!update, Pl!Takes
<1>5. PICK r : r = Pl!Row(primary, sid, done)
  OBVIOUS
<1>6. /\ r.state = "live" /\ r.primary = primary /\ r.sprint = sid /\ r.done = done
      /\ DOMAIN r = {"state", "primary", "sprint", "done"} /\ r \notin {Pl!Unused, Pl!Deleted}
  <2>1. /\ r.state = "live" /\ r.primary = primary /\ r.sprint = sid /\ r.done = done
        /\ DOMAIN r = {"state", "primary", "sprint", "done"}
    BY <1>5 DEF Pl!Row
  <2> QED
    BY <2>1, TaskStates
<1>7. task' = [task EXCEPT ![t] = r] /\ Pl!Strays(t, r.sprint, r.done)
  BY <1>3, <1>5, <1>6 DEF Pl!UpdateTask, Pl!Strays, Pl!Closed, Pl!Closing
<1>8. PICK w : w = Pl!Work("clear", t, ids, None, {}, IF ids \subseteq assigned[t] THEN None ELSE t)
  OBVIOUS
<1>9. /\ w.at = "clear" /\ w.task = t /\ w.ids = ids /\ w.all = ids /\ w.from = None /\ w.rest = {} /\ w.rule \in {t, None}
      /\ DOMAIN w = {"at", "task", "ids", "all", "from", "rest", "rule"}
  BY <1>8, WorkIs
<1>10. worker' = [worker EXCEPT ![h] = w]
  BY <1>3, <1>8 DEF Pl!Goes
<1>11. /\ worker'[h] = w /\ worker' = [g \in Handlers |-> worker'[g]]
       /\ \A g \in Handlers \ {h} : worker'[g] = worker[g]
  BY <1>10, WorkerIs
<1>12. \A s \in Sprints : Pl!Closed(s)' => Pl!Closed(s)
  BY <1>4, <1>9, <1>11, ClosedSame
<1>13. /\ task' = [u \in Tasks |-> task'[u]] /\ sprint' = [s \in Sprints |-> sprint'[s]]
       /\ task'[t] = r /\ Pl!Present(t)' /\ \A u \in Tasks \ {t} : task'[u] = task[u]
       /\ RowsKept
       /\ \A u \in Tasks : Pl!Present(u)' => TaskShape(u)'
       /\ \A u \in Tasks : Behind(u)'
  BY <1>4, <1>6, <1>7, <1>12, RowWritten
<1>15. worker[h].at = "idle"
  BY <1>4, TaskStates
<1>16. WorkerShape(h)'
  BY <1>9, <1>11, <1>13 DEF WorkerShape, Busy, Pl!Present
<1>18. PlanningTyped'
  <2>1. assigned' = [u \in Tasks |-> assigned'[u]]
    BY <1>1, <1>4 DEF PlanningTyped
  <2>2. ASSUME NEW g \in Handlers, worker[g].at = "spawn", worker[g].task = t PROVE FALSE
    BY <1>1, <1>4, <2>2 DEF PlanningTyped, WorkerShape, Busy, Pl!Present
  <2>3. worker'[h].at # "spawn"
    BY <1>9, <1>11
  <2>4. ASSUME NEW u \in Tasks, task'[u] = Pl!Unused PROVE assigned'[u] = {}
    BY <1>1, <1>4, <1>6, <1>13, <2>4 DEF PlanningTyped
  <2> QED
    BY <1>1, <1>11, <1>13, <1>16, <2>1, <2>2, <2>3, <2>4, TypedStep
<1>19. \A u \in Tasks : AgreeOf(u)'
  <2>1. /\ mixed \subseteq mixed'
        /\ \A g \in Handlers \ {h}, u \in {t} : g \in Pl!At(u) => u \in mixed' /\ worker[g].task \in mixed'
    BY <1>4, Crossing
  <2>2. \A u \in Tasks \ {t} : Pl!Present(u)' => Pl!Present(u) /\ task'[u].primary = task[u].primary
    BY <1>13 DEF Pl!Present
  <2>3. TaintKept
    BY <1>4, <2>1 DEF TaintKept
  <2>4. ToDo(h, t)'
    BY <1>3, <1>6, <1>9, <1>11, <1>13, Primary DEF ToDo, Match
  <2>5. PICK ts \in SUBSET Tasks : ts = {t}
    OBVIOUS
  <2>6. w.task \in ts /\ w.rest = ts \ {w.task} /\ w.at = "clear" /\ UNCHANGED assigned
    BY <1>4, <1>9, <2>5
  <2>7. \A g \in Handlers \ {h}, u \in ts : g \in Pl!At(u) => u \in mixed' /\ worker[g].task \in mixed'
    BY <2>1, <2>5
  <2>8. \A u \in ts : u \notin Tainted' /\ Pl!Present(u)' => ToDo(h, u)'
    BY <2>4, <2>5
  <2>9. \A u \in Tasks \ ts : Pl!Present(u)' => Pl!Present(u) /\ task'[u].primary = task[u].primary
    BY <2>2, <2>5
  <2> QED
    BY <1>10, <1>15, <2>3, <2>6, <2>7, <2>8, <2>9, Begins
<1> QED
  BY <1>13, <1>18, <1>19 DEF PlanningInv

-----------------------------------------------------------------------------
LEMMA BulkAssignStep ==
  ASSUME PlanningInv, NEW h \in Handlers, Pl!bulkAssign(h)
  PROVE  PlanningInv'
<1>1. PlanningTyped
  BY DEF PlanningInv
<1>2. PICK ts \in (SUBSET {t \in Tasks : Pl!Present(t)}) \ {{}}, primary \in Users \cup {None} :
        /\ \/ Pl!BulkSetTaskAssignee(ts, primary) /\ UNCHANGED dropped
           \/ UNCHANGED task /\ dropped' = dropped \cup ts
        /\ \E t \in ts : Pl!Goes(h, Pl!Work("clear", t, {primary} \ {None}, None, ts \ {t}, None))
        /\ Pl!Crosses(h, ts)
  BY DEF Pl!bulkAssign
<1>3. PICK t \in ts : Pl!Goes(h, Pl!Work("clear", t, {primary} \ {None}, None, ts \ {t}, None))
  BY <1>2
<1>4. /\ worker[h] = Pl!Idle /\ UNCHANGED <<assigned, sprint, ruled, strays, kept>>
      /\ ts \in SUBSET Tasks /\ \A u \in ts : Pl!Present(u)
  BY <1>2 DEF Pl!bulkAssign, Pl!Takes
<1>5. PICK w : w = Pl!Work("clear", t, {primary} \ {None}, None, ts \ {t}, None)
  OBVIOUS
<1>6. /\ w.at = "clear" /\ w.task = t /\ w.ids = {primary} \ {None} /\ w.all = {primary} \ {None} /\ w.from = None
      /\ w.rest = ts \ {t} /\ w.rule = None /\ DOMAIN w = {"at", "task", "ids", "all", "from", "rest", "rule"}
  BY <1>5, WorkIs
<1>7. worker' = [worker EXCEPT ![h] = w]
  BY <1>3, <1>5 DEF Pl!Goes
<1>8. /\ worker'[h] = w /\ worker' = [g \in Handlers |-> worker'[g]]
      /\ \A g \in Handlers \ {h} : worker'[g] = worker[g]
  BY <1>7, WorkerIs
<1>9. worker[h].at = "idle"
  BY <1>4, TaskStates
<1>10. \A s \in Sprints : Pl!Closed(s)' => Pl!Closed(s)
  BY <1>4, <1>6, <1>8, ClosedSame
<1>11. ASSUME NEW u \in ts
       PROVE  /\ Pl!Present(u)' /\ TaskShape(u)' /\ task'[u].sprint = task[u].sprint /\ task'[u].done = task[u].done
              /\ u \in dropped' \/ task'[u].primary = primary
  <2>1. u \in Tasks /\ Pl!Present(u) /\ TaskShape(u)
    BY <1>1, <1>4 DEF PlanningTyped
  <2>2. CASE Pl!BulkSetTaskAssignee(ts, primary)
    <3>1. PICK r : r = [task[u] EXCEPT !.primary = primary]
      OBVIOUS
    <3>2. /\ r.state = "live" /\ r.sprint = task[u].sprint /\ r.primary = primary /\ r.done = task[u].done
          /\ DOMAIN r = DOMAIN task[u] /\ r \notin {Pl!Unused, Pl!Deleted}
      BY <1>1, <2>1, <3>1, TaskEdits
    <3>3. task'[u] = r
      BY <2>1, <2>2, <3>1 DEF Pl!BulkSetTaskAssignee
    <3> QED
      BY <1>4, <2>1, <3>2, <3>3 DEF Pl!Present, TaskShape, Pl!Planned
  <2>3. CASE UNCHANGED task /\ dropped' = dropped \cup ts
    BY <1>4, <2>1, <2>3 DEF Pl!Present, TaskShape, Pl!Planned
  <2> QED
    BY <1>2, <2>2, <2>3
<1>12. (\A u \in Tasks \ ts : task'[u] = task[u]) /\ task' = [u \in Tasks |-> task'[u]] /\ dropped \subseteq dropped'
  <2>1. CASE Pl!BulkSetTaskAssignee(ts, primary) /\ UNCHANGED dropped
    BY <1>1, <2>1 DEF Pl!BulkSetTaskAssignee, PlanningTyped
  <2>2. CASE UNCHANGED task /\ dropped' = dropped \cup ts
    BY <1>1, <2>2 DEF PlanningTyped
  <2> QED
    BY <1>2, <2>1, <2>2
<1>13. ASSUME NEW u \in Tasks, Pl!Present(u)' PROVE TaskShape(u)'
  BY <1>1, <1>4, <1>11, <1>12, <1>13, TaskKept, PlannedSame
<1>14. RowsKept
  BY <1>11, <1>12 DEF RowsKept, Pl!Present
<1>15. \A u \in ts : task[u] # Pl!Unused /\ task'[u] # Pl!Unused
  BY <1>4, <1>11 DEF Pl!Present
<1>16. WorkerShape(h)'
  BY <1>4, <1>6, <1>8, <1>15 DEF WorkerShape, Busy
<1>17. PlanningTyped'
  <2>1. assigned' = [u \in Tasks |-> assigned'[u]] /\ sprint' = [s \in Sprints |-> sprint'[s]]
    BY <1>1, <1>4 DEF PlanningTyped
  <2>2. ASSUME NEW u \in ts, NEW g \in Handlers, worker[g].at = "spawn", worker[g].task = u PROVE FALSE
    BY <1>1, <1>15, <2>2 DEF PlanningTyped, WorkerShape, Busy
  <2>3. worker'[h].at # "spawn"
    BY <1>6, <1>8
  <2>4. ASSUME NEW u \in Tasks, task'[u] = Pl!Unused PROVE assigned'[u] = {}
    BY <1>1, <1>4, <1>12, <1>15, <2>4 DEF PlanningTyped
  <2> QED
    BY <1>1, <1>8, <1>12, <1>13, <1>14, <1>16, <2>1, <2>2, <2>3, <2>4, TypedStep
<1>18. ASSUME NEW u \in Tasks PROVE Behind(u)'
  <2>1. Pl!Present(u)' => /\ Pl!Present(u) /\ task'[u].sprint \in {task[u].sprint, None}
                          /\ task[u].done => task'[u].done
    BY <1>4, <1>11, <1>12 DEF Pl!Present
  <2> QED
    BY <1>1, <1>4, <1>10, <2>1, BehindKept DEF PlanningInv
<1>19. \A u \in Tasks : AgreeOf(u)'
  <2>1. /\ mixed \subseteq mixed'
        /\ \A g \in Handlers \ {h}, u \in ts : g \in Pl!At(u) => u \in mixed' /\ worker[g].task \in mixed'
    BY <1>2, Crossing
  <2>2. \A u \in Tasks \ ts : Pl!Present(u)' => Pl!Present(u) /\ task'[u].primary = task[u].primary
    BY <1>12 DEF Pl!Present
  <2>3. TaintKept
    BY <1>4, <1>12, <2>1 DEF TaintKept
  <2>4. ASSUME NEW u \in ts, u \notin Tainted' PROVE ToDo(h, u)'
    <3>1. task'[u].primary = primary
      BY <1>11, <2>4 DEF Tainted
    <3> QED
      BY <1>6, <1>8, <3>1 DEF ToDo, Match
  <2>5. w.task \in ts /\ w.rest = ts \ {w.task} /\ w.at = "clear" /\ UNCHANGED assigned
    BY <1>4, <1>6
  <2> QED
    BY <1>4, <1>7, <1>9, <2>1, <2>2, <2>3, <2>4, <2>5, Begins
<1> QED
  BY <1>17, <1>18, <1>19 DEF PlanningInv

LEMMA ThenIs ==
  ASSUME NEW h \in Handlers, NEW rule \in Tasks \cup {None}, Pl!Then(h, rule)
  PROVE  \E w : /\ worker' = [worker EXCEPT ![h] = w] /\ w.at \in {"idle", "rules"}
                /\ w.at = "rules" => w.task \in Tasks
<1>1. CASE rule = None
  BY <1>1, TaskStates DEF Pl!Then, Pl!Goes
<1>2. CASE rule # None
  <2> DEFINE w == [at |-> "rules", task |-> rule]
  <2>1. w.at = "rules" /\ w.task = rule
    OBVIOUS
  <2>2. worker' = [worker EXCEPT ![h] = w]
    BY <1>2 DEF Pl!Then, Pl!Goes
  <2> HIDE DEF w
  <2> QED
    BY <1>2, <2>1, <2>2
<1> QED
  BY <1>1, <1>2

LEMMA FinishStep ==
  ASSUME PlanningInv, NEW h \in Handlers, NEW t \in Tasks, NEW done \in BOOLEAN, NEW rule \in Tasks \cup {None},
         Pl!Finish(h, t, done, rule)
  PROVE  PlanningInv'
<1>1. PlanningTyped
  BY DEF PlanningInv
<1>2. /\ worker[h] = Pl!Idle /\ Pl!Present(t) /\ Pl!SetTaskDone(t, done)
      /\ UNCHANGED <<assigned, sprint, dropped, ruled, kept>>
  BY DEF Pl!Finish, Pl!Takes
<1>3. worker[h].at = "idle"
  BY <1>2, TaskStates
<1>4. PICK r : /\ task' = [task EXCEPT ![t] = r] /\ r.state = "live" /\ {"state", "primary", "sprint", "done"} \subseteq DOMAIN r
               /\ r \notin {Pl!Unused, Pl!Deleted} /\ r.primary = task[t].primary
               /\ r.sprint \in Pl!Places /\ Pl!Strays(t, r.sprint, r.done)
  BY <1>2, DoneRow
<1>5. ASSUME NEW w, worker' = [worker EXCEPT ![h] = w], w.at # "close"
      PROVE  /\ worker'[h] = w /\ worker' = [g \in Handlers |-> worker'[g]]
             /\ \A g \in Handlers \ {h} : worker'[g] = worker[g]
             /\ task' = [u \in Tasks |-> task'[u]] /\ sprint' = [s \in Sprints |-> sprint'[s]]
             /\ task'[t] = r /\ Pl!Present(t)' /\ \A u \in Tasks \ {t} : task'[u] = task[u]
             /\ RowsKept
             /\ \A u \in Tasks : Pl!Present(u)' => TaskShape(u)'
             /\ \A u \in Tasks : Behind(u)'
  <2>1. /\ worker'[h] = w /\ worker' = [g \in Handlers |-> worker'[g]]
        /\ \A g \in Handlers \ {h} : worker'[g] = worker[g]
    BY <1>5, WorkerIs
  <2>2. \A s \in Sprints : Pl!Closed(s)' => Pl!Closed(s)
    BY <1>2, <1>5, <2>1, ClosedSame
  <2> QED
    BY <1>2, <1>4, <2>1, <2>2, RowWritten
<1>6. ASSUME Pl!Then(h, rule), UNCHANGED mixed PROVE PlanningInv'
  <2>1. PICK w : /\ worker' = [worker EXCEPT ![h] = w] /\ w.at \in {"idle", "rules"}
                 /\ w.at = "rules" => w.task \in Tasks
    BY <1>6, ThenIs
  <2>2. Resting
    BY <1>3, <2>1, RestsOn DEF Busy
  <2>3. WorkerShape(h)'
    BY <1>5, <2>1 DEF WorkerShape, Busy
  <2> QED
    BY <1>2, <1>4, <1>5, <1>6, <2>1, <2>2, <2>3, RestStep
<1>7. ASSUME NEW n \in Pl!Free,
             Pl!Goes(h, [at |-> "spawn", task |-> n, ids |-> {}, all |-> {}, from |-> t, rest |-> {}, rule |-> rule,
                         row |-> task[t]]),
             mixed' = IF Pl!At(t) = {} /\ t \notin mixed \cup dropped \cup ruled THEN mixed ELSE mixed \cup {n}
      PROVE  PlanningInv'
  <2> DEFINE w == [at |-> "spawn", task |-> n, ids |-> {}, all |-> {}, from |-> t, rest |-> {}, rule |-> rule, row |-> task[t]]
  <2>1. /\ w.at = "spawn" /\ w.task = n /\ w.from = t /\ w.rest = {} /\ w.rule = rule /\ w.row = task[t]
        /\ DOMAIN w = {"at", "task", "ids", "all", "from", "rest", "rule", "row"}
    OBVIOUS
  <2>2. worker' = [worker EXCEPT ![h] = w]
    BY <1>7 DEF Pl!Goes
  <2> HIDE DEF w
  <2>3. /\ worker'[h] = w /\ worker' = [g \in Handlers |-> worker'[g]]
        /\ \A g \in Handlers \ {h} : worker'[g] = worker[g]
        /\ task' = [u \in Tasks |-> task'[u]] /\ sprint' = [s \in Sprints |-> sprint'[s]]
        /\ task'[t] = r /\ Pl!Present(t)' /\ \A u \in Tasks \ {t} : task'[u] = task[u]
        /\ RowsKept
        /\ \A u \in Tasks : Pl!Present(u)' => TaskShape(u)'
        /\ \A u \in Tasks : Behind(u)'
    BY <1>5, <2>1, <2>2
  <2>4. /\ n \in Tasks /\ task[n] = Pl!Unused /\ assigned[n] = {} /\ ~Pl!Present(n) /\ Writer(n) = {}
        /\ \A g \in Handlers : worker[g].at = "spawn" => worker[g].task # n
        /\ \A g \in Handlers : worker[g].at \in Busy => n # worker[g].from
    BY <1>1, <1>7, FreeIsFree
  <2>5. n # t /\ task'[n] = Pl!Unused /\ task'[t] # Pl!Unused /\ t # None
    BY <1>2, <2>3, <2>4, OfficeAssumption DEF Pl!Present
  <2>6. WorkerShape(h)'
    BY <2>1, <2>3, <2>4, <2>5 DEF WorkerShape, Busy
  <2>7. PlanningTyped'
    <3>1. assigned' = [u \in Tasks |-> assigned'[u]]
      BY <1>1, <1>2 DEF PlanningTyped
    <3>2. ASSUME NEW g \in Handlers, worker[g].at = "spawn", worker[g].task = t PROVE FALSE
      BY <1>1, <1>2, <3>2 DEF PlanningTyped, WorkerShape, Busy, Pl!Present
    <3>3. \A g \in Handlers \ {h} : worker[g].at = "spawn" => worker[g].task # worker'[h].task
      BY <2>1, <2>3, <2>4
    <3>4. ASSUME NEW u \in Tasks, task'[u] = Pl!Unused PROVE assigned'[u] = {}
      BY <1>1, <1>2, <1>4, <2>3, <3>4 DEF PlanningTyped
    <3> QED
      BY <1>1, <2>3, <2>6, <3>1, <3>2, <3>3, <3>4, TypedStep
  <2>8. TaintKept
    BY <1>2, <1>7 DEF TaintKept
  <2>9. ASSUME NEW u \in Tasks \ {n} PROVE AgreeOf(u)'
    <3>1. h \notin Writer(u) /\ h \notin Writer(u)'
      BY <1>3, <2>1, <2>3 DEF Writer, Busy
    <3>2. Pl!Present(u)' => Pl!Present(u) /\ task'[u].primary = task[u].primary
      BY <1>2, <1>4, <2>3 DEF Pl!Present
    <3>3. ASSUME NEW g \in Writer(u), NEW f \in Tasks, worker[g].at \in {"spawn", "copy"}, f = worker[g].from
          PROVE  h \notin Writer(f)'
      <4>1. f # n
        BY <2>4, <3>3 DEF Writer
      <4> QED
        BY <2>1, <2>3, <4>1 DEF Writer
    <3> QED
      BY <1>1, <1>2, <2>3, <2>8, <3>1, <3>2, <3>3, AgreeOther DEF PlanningInv
  <2>10. AgreeOf(n)'
    <3>1. \A g \in Writer(n)' : g = h
      BY <2>3, <2>4 DEF Writer
    <3>2. ~Pl!Present(n)'
      BY <2>5 DEF Pl!Present
    <3>3. ASSUME n \notin Tainted' PROVE (Copied(h, worker[h].row.primary))'
      <4>1. Pl!At(t) = {} /\ t \notin mixed \cup dropped \cup ruled
        BY <1>7, <3>3 DEF Tainted
      <4>2. Writer(t) = {}
        BY <4>1, AtIs DEF Writer
      <4>3. Match(task[t].primary, assigned[t])
        BY <1>2, <4>1, <4>2 DEF PlanningInv, AgreeOf, Tainted
      <4>4. Writer(t)' = {}
        BY <2>1, <2>3, <2>5, <4>2 DEF Writer
      <4> QED
        BY <1>2, <2>1, <2>3, <4>3, <4>4 DEF Copied, Match, Writer
    <3> QED
      BY <2>4, <3>1, <3>2, <3>3, AgreeSole
  <2> QED
    BY <2>3, <2>7, <2>9, <2>10 DEF PlanningInv
<1> QED
  BY <1>6, <1>7 DEF Pl!Finish

-----------------------------------------------------------------------------
(* h goes on with the rows it is at.                                       *)
LEMMA GoesOn ==
  ASSUME PlanningInv, NEW h \in Handlers, NEW w, worker' = [worker EXCEPT ![h] = w], w.at # "spawn", TaintKept,
         \A u \in Tasks : h \in Writer(u)' => h \in Writer(u),
         \A u \in Tasks : h \notin Writer(u) =>
            /\ assigned'[u] = assigned[u]
            /\ Pl!Present(u)' => Pl!Present(u) /\ task'[u].primary = task[u].primary,
         \A u \in Tasks : h \in Writer(u) /\ u \notin Tainted \cup Tainted' /\ Writer(u) = {h} /\ Pl!Present(u)' =>
            IF h \in Writer(u)' THEN ToDo(h, u)' ELSE Match(task'[u].primary, assigned'[u])
  PROVE  \A u \in Tasks : AgreeOf(u)'
<1> SUFFICES ASSUME NEW u \in Tasks PROVE AgreeOf(u)'
  OBVIOUS
<1>1. PlanningTyped /\ AgreeOf(u)
  BY DEF PlanningInv
<1>2. /\ worker'[h] = w
      /\ \A g \in Handlers \ {h} : worker'[g] = worker[g]
  BY WorkerIs
<1>3. CASE h \notin Writer(u)
  BY <1>1, <1>2, <1>3, AgreeOther
<1>4. CASE h \in Writer(u)
  <2> SUFFICES ASSUME u \notin Tainted' PROVE AgreeOf(u)'
    BY DEF AgreeOf
  <2>1. u \notin Tainted
    BY DEF Tainted, TaintKept
  <2>2. Writer(u) = {h}
    BY <1>1, <1>4, <2>1 DEF AgreeOf
  <2>3. \A g \in Writer(u)' : g = h
    BY <1>2, <2>2 DEF Writer
  <2>4. CASE h \in Writer(u)'
    <3>1. Pl!Present(u)' => ToDo(h, u)'
      BY <1>4, <2>1, <2>2, <2>4
    <3> QED
      BY <1>2, <2>3, <2>4, <3>1, AgreeSole
  <2>5. CASE h \notin Writer(u)'
    <3>1. Pl!Present(u)' => Match(task'[u].primary, assigned'[u])
      BY <1>4, <2>1, <2>2, <2>5
    <3> QED
      BY <2>3, <2>5, <3>1, AgreeFree
  <2> QED
    BY <2>4, <2>5
<1> QED
  BY <1>3, <1>4

(* A step that leaves the tasks and the sprints as they are.               *)
LEMMA TasksStay ==
  ASSUME PlanningInv, NEW h \in Handlers, NEW w, worker' = [worker EXCEPT ![h] = w],
         w.at \notin {"spawn", "close"}, WorkerShape(h)',
         UNCHANGED <<task, sprint, strays, kept>>, assigned' = [u \in Tasks |-> assigned'[u]],
         \A u \in Tasks : task[u] = Pl!Unused => assigned'[u] = {}
  PROVE  PlanningTyped' /\ \A u \in Tasks : Behind(u)'
<1>1. PlanningTyped
  BY DEF PlanningInv
<1>2. /\ worker'[h] = w /\ worker' = [g \in Handlers |-> worker'[g]]
      /\ \A g \in Handlers \ {h} : worker'[g] = worker[g]
  BY WorkerIs
<1>3. \A s \in Sprints : Pl!Closed(s)' => Pl!Closed(s)
  BY <1>2, ClosedSame
<1>4. ASSUME NEW u \in Tasks PROVE Behind(u)' /\ (Pl!Present(u)' => TaskShape(u)')
  <2>1. Pl!Present(u)' <=> Pl!Present(u)
    BY DEF Pl!Present
  <2>2. Pl!Present(u)' => TaskShape(u)'
    BY <1>1, TaskKept, PlannedSame
  <2> QED
    BY <1>1, <1>3, <2>1, <2>2, BehindKept DEF PlanningInv
<1>5. task' = [u \in Tasks |-> task'[u]] /\ sprint' = [s \in Sprints |-> sprint'[s]] /\ RowsKept
  BY <1>1 DEF PlanningTyped, RowsKept
<1> QED
  BY <1>1, <1>2, <1>4, <1>5, TypedStep

(* The rows of one task, t, are being replaced.                            *)
LEMMA RowsStep ==
  ASSUME PlanningInv, NEW h \in Handlers, NEW t \in Tasks, worker[h].at \in {"clear", "add"}, t = worker[h].task,
         NEW w, worker' = [worker EXCEPT ![h] = w], DOMAIN w = DOMAIN worker[h], w.at = "add", w.task = t,
         w.all = worker[h].all, w.from = worker[h].from, w.rest = worker[h].rest, w.rule = worker[h].rule,
         UNCHANGED <<task, sprint, mixed, ruled, strays, kept>>, dropped \subseteq dropped',
         assigned' = [u \in Tasks |-> assigned'[u]], \A u \in Tasks \ {t} : assigned'[u] = assigned[u],
         Pl!Present(t) /\ t \notin Tainted' /\ ToDo(h, t) => Match(task[t].primary, assigned'[t] \cup w.ids)
  PROVE  PlanningInv'
<1>1. PlanningTyped /\ WorkerShape(h)
  BY DEF PlanningInv, PlanningTyped
<1>2. worker'[h] = w
  BY WorkerIs
<1>3. task[t] # Pl!Unused
  BY <1>1 DEF WorkerShape, Busy
<1>4. WorkerShape(h)'
  BY <1>1, <1>2, <1>3 DEF WorkerShape, Busy
<1>5. PlanningTyped' /\ \A u \in Tasks : Behind(u)'
  <2>1. \A u \in Tasks : task[u] = Pl!Unused => assigned'[u] = {}
    BY <1>1, <1>3 DEF PlanningTyped
  <2> QED
    BY <1>4, <2>1, TasksStay
<1>6. TaintKept
  BY DEF TaintKept
<1>7. \A u \in Tasks : (h \in Writer(u)' <=> h \in Writer(u)) /\ (h \in Writer(u) <=> u \in {t} \cup w.rest)
  BY <1>2 DEF Writer, Busy
<1>8. ASSUME NEW u \in Tasks, h \in Writer(u), u \notin Tainted \cup Tainted', Writer(u) = {h}, Pl!Present(u)'
      PROVE  ToDo(h, u)'
  <2>1. Pl!Present(u) /\ ToDo(h, u)
    BY <1>8 DEF PlanningInv, AgreeOf, Pl!Present
  <2>2. CASE u = t
    <3>1. Match(task[t].primary, assigned'[t] \cup w.ids)
      BY <1>8, <2>1, <2>2
    <3> QED
      BY <1>2, <2>2, <3>1 DEF ToDo, Match
  <2>3. CASE u # t
    BY <1>2, <2>1, <2>3 DEF ToDo, Match
  <2> QED
    BY <2>2, <2>3
<1>9. \A u \in Tasks : Pl!Present(u)' <=> Pl!Present(u)
  BY DEF Pl!Present
<1>10. \A u \in Tasks : AgreeOf(u)'
  BY <1>6, <1>7, <1>8, <1>9, GoesOn
<1> QED
  BY <1>5, <1>10 DEF PlanningInv

LEMMA ClearsStep ==
  ASSUME PlanningInv, NEW h \in Handlers, Pl!clears(h)
  PROVE  PlanningInv'
<1>1. PlanningTyped /\ WorkerShape(h)
  BY DEF PlanningInv, PlanningTyped
<1>2. /\ worker[h].at = "clear" /\ UNCHANGED <<task, sprint, mixed, ruled, strays, kept>>
      /\ worker' = [worker EXCEPT ![h] = [worker[h] EXCEPT !.at = "add"]]
      /\ Pl!Unless(worker[h].task, Pl!ClearTaskAssignees(worker[h].task))
  BY DEF Pl!clears, Pl!Goes
<1>3. PICK t \in Tasks : t = worker[h].task
  BY <1>1, <1>2 DEF WorkerShape, Busy
<1>4. PICK w : w = [worker[h] EXCEPT !.at = "add"]
  OBVIOUS
<1>5. /\ DOMAIN w = DOMAIN worker[h] /\ w.at = "add" /\ w.task = t /\ w.ids = worker[h].ids /\ w.all = worker[h].all
      /\ w.from = worker[h].from /\ w.rest = worker[h].rest /\ w.rule = worker[h].rule
  BY <1>1, <1>2, <1>3, <1>4 DEF WorkerShape, Busy
<1>6. /\ dropped \subseteq dropped' /\ assigned' = [u \in Tasks |-> assigned'[u]]
      /\ \A u \in Tasks \ {t} : assigned'[u] = assigned[u]
      /\ t \in dropped' \/ assigned'[t] = {}
  BY <1>1, <1>2, <1>3 DEF Pl!Unless, Pl!ClearTaskAssignees, PlanningTyped
<1>7. ASSUME t \notin Tainted', ToDo(h, t) PROVE Match(task[t].primary, assigned'[t] \cup w.ids)
  BY <1>2, <1>3, <1>5, <1>6, <1>7 DEF ToDo, Match, Tainted
<1> QED
  BY <1>2, <1>3, <1>4, <1>5, <1>6, <1>7, RowsStep

LEMMA AddsStep ==
  ASSUME PlanningInv, NEW h \in Handlers, Pl!adds(h)
  PROVE  PlanningInv'
<1>1. PlanningTyped /\ WorkerShape(h)
  BY DEF PlanningInv, PlanningTyped
<1>2. /\ worker[h].at = "add" /\ UNCHANGED <<task, sprint, mixed, ruled, strays, kept>>
  BY DEF Pl!adds
<1>3. PICK a \in worker[h].ids :
        /\ worker' = [worker EXCEPT ![h] = [worker[h] EXCEPT !.ids = worker[h].ids \ {a}]]
        /\ Pl!Unless(worker[h].task, Pl!AddTaskAssignee(worker[h].task, a))
  BY DEF Pl!adds, Pl!Goes
<1>4. PICK t \in Tasks : t = worker[h].task
  BY <1>1, <1>2 DEF WorkerShape, Busy
<1>5. PICK w : w = [worker[h] EXCEPT !.ids = worker[h].ids \ {a}]
  OBVIOUS
<1>6. /\ DOMAIN w = DOMAIN worker[h] /\ w.at = "add" /\ w.task = t /\ w.ids = worker[h].ids \ {a} /\ w.all = worker[h].all
      /\ w.from = worker[h].from /\ w.rest = worker[h].rest /\ w.rule = worker[h].rule
  BY <1>1, <1>2, <1>4, <1>5 DEF WorkerShape, Busy
<1>7. /\ dropped \subseteq dropped' /\ assigned' = [u \in Tasks |-> assigned'[u]]
      /\ \A u \in Tasks \ {t} : assigned'[u] = assigned[u]
      /\ Pl!Present(t) => t \in dropped' \/ assigned'[t] = assigned[t] \cup {a}
  <2>1. CASE Pl!AddTaskAssignee(t, a) /\ UNCHANGED dropped
    <3>1. assigned' = [assigned EXCEPT ![t] = IF Pl!Present(t) THEN assigned[t] \cup {a} ELSE assigned[t]]
      BY <2>1 DEF Pl!AddTaskAssignee
    <3> QED
      BY <1>1, <2>1, <3>1 DEF PlanningTyped
  <2>2. CASE dropped' = dropped \cup {t} /\ UNCHANGED assigned
    BY <1>1, <2>2 DEF PlanningTyped
  <2> QED
    BY <1>3, <1>4, <2>1, <2>2 DEF Pl!Unless
<1>8. ASSUME Pl!Present(t), t \notin Tainted', ToDo(h, t) PROVE Match(task[t].primary, assigned'[t] \cup w.ids)
  <2>1. assigned'[t] \cup w.ids = assigned[t] \cup worker[h].ids
    BY <1>3, <1>6, <1>7, <1>8 DEF Tainted
  <2> QED
    BY <1>2, <1>4, <1>8, <2>1 DEF ToDo, Match
<1> QED
  BY <1>2, <1>3, <1>4, <1>5, <1>6, <1>7, <1>8, RowsStep

-----------------------------------------------------------------------------
LEMMA GoesOnStep ==
  ASSUME PlanningInv, NEW h \in Handlers, Pl!goesOn(h)
  PROVE  PlanningInv'
<1>1. PlanningTyped /\ WorkerShape(h)
  BY DEF PlanningInv, PlanningTyped
<1>2. /\ worker[h].at = "add" /\ worker[h].ids = {}
      /\ UNCHANGED <<task, assigned, sprint, mixed, dropped, ruled, strays, kept>>
  BY DEF Pl!goesOn
<1>3. PICK w : /\ worker' = [worker EXCEPT ![h] = w]
               /\ \/ worker[h].rest = {} /\ w.at \in {"idle", "rules"} /\ (w.at = "rules" => w.task \in Tasks)
                  \/ /\ w.at = "clear" /\ w.task \in worker[h].rest /\ w.rest = worker[h].rest \ {w.task}
                     /\ w.ids = worker[h].all /\ w.all = worker[h].all /\ w.from = None /\ w.rule = None
                     /\ DOMAIN w = {"at", "task", "ids", "all", "from", "rest", "rule"}
  <2>1. CASE worker[h].rest = {}
    <3>1. PICK rule \in Tasks \cup {None} : rule = worker[h].rule
      BY <1>1, <1>2 DEF WorkerShape, Busy
    <3>2. Pl!Then(h, rule)
      BY <2>1, <3>1 DEF Pl!goesOn
    <3> QED
      BY <2>1, <3>2, ThenIs
  <2>2. CASE worker[h].rest # {}
    <3>1. PICK t \in worker[h].rest : Pl!Goes(h, Pl!Work("clear", t, worker[h].all, None, worker[h].rest \ {t}, None))
      BY <2>2 DEF Pl!goesOn
    <3>2. PICK w : w = Pl!Work("clear", t, worker[h].all, None, worker[h].rest \ {t}, None)
      OBVIOUS
    <3>3. /\ w.at = "clear" /\ w.task = t /\ w.ids = worker[h].all /\ w.all = worker[h].all /\ w.from = None
          /\ w.rest = worker[h].rest \ {t} /\ w.rule = None /\ DOMAIN w = {"at", "task", "ids", "all", "from", "rest", "rule"}
      BY <3>2, WorkIs
    <3>4. worker' = [worker EXCEPT ![h] = w]
      BY <3>1, <3>2 DEF Pl!Goes
    <3> QED
      BY <3>1, <3>3, <3>4
  <2> QED
    BY <2>1, <2>2
<1>4. worker'[h] = w
  BY <1>3, WorkerIs
<1>5. WorkerShape(h)'
  <2>1. CASE w.at \in {"idle", "rules"}
    BY <1>3, <1>4, <2>1 DEF WorkerShape, Busy
  <2>2. CASE w.at = "clear"
    <3>1. w.task \in Tasks /\ w.task # None
      BY <1>1, <1>2, <1>3, <2>2, OfficeAssumption DEF WorkerShape, Busy
    <3> QED
      BY <1>1, <1>2, <1>3, <1>4, <2>2, <3>1 DEF WorkerShape, Busy
  <2> QED
    BY <1>3, <2>1, <2>2
<1>6. PlanningTyped' /\ \A u \in Tasks : Behind(u)'
  BY <1>1, <1>2, <1>3, <1>5, TasksStay DEF PlanningTyped
<1>7. TaintKept /\ w.at # "spawn" /\ \A u \in Tasks : Pl!Present(u)' <=> Pl!Present(u)
  BY <1>2, <1>3 DEF TaintKept, Pl!Present
<1>8. \A u \in Tasks : h \in Writer(u)' => h \in Writer(u) /\ u \in worker[h].rest
  BY <1>2, <1>3, <1>4 DEF Writer, Busy
<1>9. ASSUME NEW u \in Tasks, h \in Writer(u), u \notin Tainted \cup Tainted', Writer(u) = {h}, Pl!Present(u)'
      PROVE  IF h \in Writer(u)' THEN ToDo(h, u)' ELSE Match(task'[u].primary, assigned'[u])
  <2>1. ToDo(h, u)
    BY <1>7, <1>9 DEF PlanningInv, AgreeOf
  <2>2. CASE h \in Writer(u)'
    <3>1. u \in worker[h].rest /\ u # worker[h].task
      BY <1>1, <1>2, <1>8, <2>2 DEF WorkerShape, Busy
    <3>2. Match(task[u].primary, worker[h].all)
      BY <2>1, <3>1 DEF ToDo
    <3>3. w.at = "clear" /\ w.ids = worker[h].all /\ w.all = worker[h].all
      BY <1>3, <1>4, <2>2 DEF Writer, Busy
    <3> QED
      BY <1>2, <1>4, <2>2, <3>2, <3>3 DEF ToDo, Match
  <2>3. CASE h \notin Writer(u)'
    <3>1. u = worker[h].task
      BY <1>3, <1>4, <1>9, <2>3 DEF Writer, Busy
    <3>2. Match(task[u].primary, assigned[u] \cup {})
      BY <1>2, <2>1, <3>1 DEF ToDo
    <3> QED
      BY <1>2, <2>3, <3>2 DEF Match
  <2> QED
    BY <2>2, <2>3
<1>10. \A u \in Tasks : AgreeOf(u)'
  BY <1>2, <1>3, <1>7, <1>8, <1>9, GoesOn
<1> QED
  BY <1>6, <1>10 DEF PlanningInv

LEMMA CopiesStep ==
  ASSUME PlanningInv, NEW h \in Handlers, Pl!copies(h)
  PROVE  PlanningInv'
<1>1. PlanningTyped /\ WorkerShape(h)
  BY DEF PlanningInv, PlanningTyped
<1>2. /\ worker[h].at = "copy" /\ UNCHANGED <<task, assigned, sprint, mixed, ruled, strays, kept>>
  BY DEF Pl!copies
<1>3. PICK t \in Tasks : t = worker[h].task /\ worker[h].rest = {} /\ worker[h].from \in Tasks /\ task[t] # Pl!Unused
  BY <1>1, <1>2 DEF WorkerShape, Busy
<1>4. PICK w : /\ worker' = [worker EXCEPT ![h] = w]
               /\ \/ /\ dropped' = dropped \cup {t} /\ w.at \in {"idle", "rules"}
                     /\ w.at = "rules" => w.task \in Tasks
                  \/ /\ UNCHANGED dropped /\ w.at = "add" /\ w.task = t /\ w.rest = {} /\ w.from = worker[h].from
                     /\ w.ids = assigned[worker[h].from] /\ w.rule = worker[h].rule
                     /\ DOMAIN w = {"at", "task", "ids", "all", "from", "rest", "rule"}
  <2>1. CASE Pl!Then(h, worker[h].rule) /\ dropped' = dropped \cup {worker[h].task}
    <3>1. PICK rule \in Tasks \cup {None} : rule = worker[h].rule
      BY <1>1, <1>2 DEF WorkerShape, Busy
    <3>2. Pl!Then(h, rule)
      BY <2>1, <3>1
    <3> QED
      BY <1>3, <2>1, <3>2, ThenIs
  <2>2. CASE /\ Pl!Goes(h, Pl!Work("add", worker[h].task, Pl!ListTaskAssignees(worker[h].from), worker[h].from, {}, worker[h].rule))
             /\ UNCHANGED dropped
    <3>1. PICK w : w = Pl!Work("add", worker[h].task, assigned[worker[h].from], worker[h].from, {}, worker[h].rule)
      OBVIOUS
    <3>2. /\ w.at = "add" /\ w.task = t /\ w.ids = assigned[worker[h].from] /\ w.from = worker[h].from
          /\ w.rest = {} /\ w.rule = worker[h].rule /\ DOMAIN w = {"at", "task", "ids", "all", "from", "rest", "rule"}
      BY <1>3, <3>1, WorkIs
    <3>3. worker' = [worker EXCEPT ![h] = w]
      BY <2>2, <3>1 DEF Pl!Goes, Pl!ListTaskAssignees
    <3> QED
      BY <2>2, <3>2, <3>3
  <2> QED
    BY <2>1, <2>2 DEF Pl!copies
<1>5. worker'[h] = w
  BY <1>4, WorkerIs
<1>6. WorkerShape(h)'
  BY <1>1, <1>2, <1>3, <1>4, <1>5 DEF WorkerShape, Busy
<1>7. PlanningTyped' /\ \A u \in Tasks : Behind(u)'
  BY <1>1, <1>2, <1>4, <1>6, TasksStay DEF PlanningTyped
<1>8. TaintKept /\ w.at # "spawn" /\ \A u \in Tasks : Pl!Present(u)' <=> Pl!Present(u)
  BY <1>2, <1>4 DEF TaintKept, Pl!Present
<1>9. \A u \in Tasks : (h \in Writer(u)' => h \in Writer(u)) /\ (h \in Writer(u) => u = t)
  BY <1>2, <1>3, <1>4, <1>5 DEF Writer, Busy
<1>10. ASSUME NEW u \in Tasks, h \in Writer(u), u \notin Tainted \cup Tainted', Writer(u) = {h}, Pl!Present(u)'
       PROVE  h \in Writer(u)' /\ ToDo(h, u)'
  <2>1. u = t /\ ToDo(h, u)
    BY <1>8, <1>9, <1>10 DEF PlanningInv, AgreeOf
  <2>2. assigned[t] = {} /\ Match(task[t].primary, assigned[worker[h].from])
    BY <1>2, <1>3, <2>1 DEF ToDo, Copied
  <2>3. w.at = "add" /\ w.task = t /\ w.ids = assigned[worker[h].from]
    BY <1>4, <1>10, <2>1 DEF Tainted
  <2> QED
    BY <1>2, <1>5, <2>1, <2>2, <2>3 DEF ToDo, Match, Writer, Busy
<1>11. \A u \in Tasks : AgreeOf(u)'
  BY <1>2, <1>4, <1>8, <1>9, <1>10, GoesOn
<1> QED
  BY <1>7, <1>11 DEF PlanningInv

LEMMA SpawnsStep ==
  ASSUME PlanningInv, NEW h \in Handlers, Pl!spawns(h)
  PROVE  PlanningInv'
<1>1. PlanningTyped /\ WorkerShape(h)
  BY DEF PlanningInv, PlanningTyped
<1>2. worker[h].at = "spawn" /\ UNCHANGED <<assigned, sprint, mixed, dropped, ruled, kept>>
  BY DEF Pl!spawns
<1>3. PICK n \in Tasks, f \in Tasks, rule \in Tasks \cup {None} :
        /\ n = worker[h].task /\ f = worker[h].from /\ rule = worker[h].rule
        /\ worker[h].rest = {} /\ task[n] = Pl!Unused /\ task[f] # Pl!Unused
  BY <1>1, <1>2 DEF WorkerShape, Busy
<1>4. TaintKept
  BY <1>2 DEF TaintKept
<1>5. \A u \in Tasks : h \in Writer(u) <=> u = n
  BY <1>2, <1>3 DEF Writer, Busy
<1>6. CASE Pl!Then(h, worker[h].rule) /\ UNCHANGED <<task, strays>>
  <2>1. PICK w : /\ worker' = [worker EXCEPT ![h] = w] /\ w.at \in {"idle", "rules"}
                 /\ w.at = "rules" => w.task \in Tasks
    BY <1>3, <1>6, ThenIs
  <2>2. worker'[h] = w
    BY <2>1, WorkerIs
  <2>3. WorkerShape(h)'
    BY <2>1, <2>2 DEF WorkerShape, Busy
  <2>4. PlanningTyped' /\ \A u \in Tasks : Behind(u)'
    BY <1>1, <1>2, <1>6, <2>1, <2>3, TasksStay DEF PlanningTyped
  <2>5. \A u \in Tasks : h \notin Writer(u)' /\ (Pl!Present(u)' <=> Pl!Present(u)) /\ (u = n => ~Pl!Present(u))
    BY <1>3, <1>6, <2>1, <2>2 DEF Writer, Busy, Pl!Present
  <2>6. \A u \in Tasks : AgreeOf(u)'
    BY <1>2, <1>4, <1>5, <1>6, <2>1, <2>5, GoesOn
  <2> QED
    BY <2>4, <2>6 DEF PlanningInv
<1>7. CASE /\ worker[h].row.sprint \in Pl!Places
           /\ Pl!CreateTask(worker[h].task, worker[h].row.primary, worker[h].row.sprint)
           /\ Pl!Goes(h, Pl!Work("copy", worker[h].task, {}, worker[h].from, {}, worker[h].rule))
  <2>1. PICK primary : primary = worker[h].row.primary
    OBVIOUS
  <2>2. PICK sid \in Pl!Places : sid = worker[h].row.sprint
    BY <1>7
  <2>3. PICK r : r = Pl!Row(primary, sid, FALSE)
    OBVIOUS
  <2>4. /\ r.state = "live" /\ r.primary = primary /\ r.sprint = sid /\ r.done = FALSE
        /\ DOMAIN r = {"state", "primary", "sprint", "done"} /\ r \notin {Pl!Unused, Pl!Deleted}
    <3>1. /\ r.state = "live" /\ r.primary = primary /\ r.sprint = sid /\ r.done = FALSE
          /\ DOMAIN r = {"state", "primary", "sprint", "done"}
      BY <2>3 DEF Pl!Row
    <3> QED
      BY <3>1, TaskStates
  <2>5. task' = [task EXCEPT ![n] = r] /\ Pl!Strays(n, r.sprint, r.done)
    <3>1. Pl!CreateTask(n, primary, sid)
      BY <1>3, <1>7, <2>1, <2>2
    <3> QED
      BY <2>3, <2>4, <3>1 DEF Pl!CreateTask, Pl!Strays, Pl!Closed, Pl!Closing
  <2>6. PICK w : w = Pl!Work("copy", n, {}, f, {}, rule)
    OBVIOUS
  <2>7. /\ w.at = "copy" /\ w.task = n /\ w.from = f /\ w.rest = {} /\ w.rule = rule
        /\ DOMAIN w = {"at", "task", "ids", "all", "from", "rest", "rule"}
    BY <2>6, WorkIs
  <2>8. worker' = [worker EXCEPT ![h] = w]
    BY <1>3, <1>7, <2>6 DEF Pl!Goes
  <2>9. /\ worker'[h] = w /\ worker' = [g \in Handlers |-> worker'[g]]
        /\ \A g \in Handlers \ {h} : worker'[g] = worker[g]
    BY <2>8, WorkerIs
  <2>10. \A s \in Sprints : Pl!Closed(s)' => Pl!Closed(s)
    BY <1>2, <2>7, <2>9, ClosedSame
  <2>11. /\ task' = [u \in Tasks |-> task'[u]] /\ sprint' = [s \in Sprints |-> sprint'[s]]
         /\ task'[n] = r /\ Pl!Present(n)' /\ \A u \in Tasks \ {n} : task'[u] = task[u]
         /\ RowsKept
         /\ \A u \in Tasks : Pl!Present(u)' => TaskShape(u)'
         /\ \A u \in Tasks : Behind(u)'
    BY <1>2, <2>4, <2>5, <2>10, RowWritten
  <2>12. f # None /\ f # n
    BY <1>3, OfficeAssumption
  <2>13. WorkerShape(h)'
    BY <1>3, <2>4, <2>7, <2>9, <2>11, <2>12 DEF WorkerShape, Busy
  <2>14. PlanningTyped'
    <3>1. assigned' = [u \in Tasks |-> assigned'[u]]
      BY <1>1, <1>2 DEF PlanningTyped
    <3>2. \A g \in Handlers \ {h} : worker[g].at = "spawn" => worker[g].task # n
      BY <1>1, <1>2, <1>3 DEF PlanningTyped
    <3>3. worker'[h].at # "spawn"
      BY <2>7, <2>9
    <3>4. ASSUME NEW u \in Tasks, task'[u] = Pl!Unused PROVE assigned'[u] = {}
      BY <1>1, <1>2, <2>4, <2>11, <3>4 DEF PlanningTyped
    <3> QED
      BY <1>1, <2>9, <2>11, <2>13, <3>1, <3>2, <3>3, <3>4, TypedStep
  <2>15. \A u \in Tasks : h \in Writer(u)' <=> u = n
    BY <2>7, <2>9 DEF Writer, Busy
  <2>16. ASSUME NEW u \in Tasks, h \in Writer(u), u \notin Tainted \cup Tainted' PROVE ToDo(h, u)'
    <3>1. u = n /\ Copied(h, worker[h].row.primary)
      BY <1>2, <1>3, <1>5, <2>16 DEF PlanningInv, AgreeOf
    <3>2. Match(primary, assigned[f]) /\ Writer(f) = {}
      BY <1>3, <2>1, <3>1 DEF Copied
    <3>3. Writer(f)' = {}
      BY <2>7, <2>9, <2>12, <3>2 DEF Writer
    <3>4. assigned'[n] = {}
      BY <1>1, <1>2, <1>3 DEF PlanningTyped
    <3> QED
      BY <1>2, <2>4, <2>7, <2>9, <2>11, <3>1, <3>2, <3>3, <3>4 DEF ToDo, Copied, Match, Writer
  <2>17. \A u \in Tasks \ {n} : Pl!Present(u)' => Pl!Present(u) /\ task'[u].primary = task[u].primary
    BY <2>11 DEF Pl!Present
  <2>18. \A u \in Tasks : AgreeOf(u)'
    BY <1>2, <1>4, <1>5, <2>7, <2>8, <2>15, <2>16, <2>17, GoesOn
  <2> QED
    BY <2>11, <2>14, <2>18 DEF PlanningInv
<1> QED
  BY <1>6, <1>7 DEF Pl!spawns

-----------------------------------------------------------------------------
(* Whoever was copying the rows of t parts the records of another task.    *)
LEMMA RowsTaken ==
  ASSUME PlanningInv, UNCHANGED worker, NEW t \in Tasks, NEW u \in Tasks \ {t}, TaintKept,
         \A g \in Handlers : g \in Pl!At(t) => worker[g].task \in Tainted',
         \A v \in Tasks \ {t} : task'[v] = task[v] /\ assigned'[v] = assigned[v]
  PROVE  AgreeOf(u)'
<1>1. PlanningTyped /\ AgreeOf(u)
  BY DEF PlanningInv
<1>2. ASSUME u \notin Tainted', NEW g \in Writer(u), worker[g].at \in {"spawn", "copy"}, Writer(worker[g].from) = {}
      PROVE  assigned'[worker[g].from] = assigned[worker[g].from] /\ (Writer(worker[g].from))' = {}
  <2>1. g \in Handlers /\ worker[g].task = u /\ worker[g].from \in Tasks
    BY <1>1, <1>2, CopierIs
  <2>2. PICK f \in Tasks : f = worker[g].from
    BY <2>1
  <2>3. g \in Pl!At(f)
    BY <1>2, <2>1, <2>2, AtIs
  <2>4. f # t
    BY <1>2, <2>1, <2>3
  <2> QED
    BY <1>2, <2>2, <2>4 DEF Writer
<1>3. Pl!Present(u)' => Pl!Present(u) /\ task'[u].primary = task[u].primary
  BY DEF Pl!Present
<1> QED
  BY <1>1, <1>2, <1>3, AgreeKept

LEMMA DeleteTaskStep ==
  ASSUME PlanningInv, NEW t \in Tasks, Pl!delete(t)
  PROVE  PlanningInv'
<1>1. PlanningTyped
  BY DEF PlanningInv
<1>2. /\ Pl!Present(t) /\ task' = [task EXCEPT ![t] = Pl!Deleted] /\ assigned' = [assigned EXCEPT ![t] = {}]
      /\ mixed' = mixed \cup {worker[h].task : h \in Pl!At(t)}
      /\ UNCHANGED <<sprint, worker, dropped, ruled, strays, kept>>
  BY DEF Pl!delete, Pl!DeleteTask
<1>3. /\ task' = [u \in Tasks |-> task'[u]] /\ assigned' = [u \in Tasks |-> assigned'[u]]
      /\ sprint' = [s \in Sprints |-> sprint'[s]]
      /\ task'[t] = Pl!Deleted /\ assigned'[t] = {}
      /\ \A u \in Tasks \ {t} : task'[u] = task[u] /\ assigned'[u] = assigned[u]
  BY <1>1, <1>2 DEF PlanningTyped
<1>4. RowsKept /\ ~Pl!Present(t)'
  BY <1>2, <1>3, TaskStates DEF RowsKept, Pl!Present
<1>5. ASSUME NEW g \in Handlers, worker[g].at = "spawn", worker[g].task = t PROVE FALSE
  BY <1>1, <1>2, <1>5 DEF PlanningTyped, WorkerShape, Busy, Pl!Present
<1>6. ASSUME NEW u \in Tasks, Pl!Present(u)' PROVE TaskShape(u)'
  BY <1>1, <1>2, <1>3, <1>4, <1>6, TaskKept, PlannedSame
<1>7. PlanningTyped'
  <2>1. \A u \in Tasks : task'[u] = Pl!Unused => assigned'[u] = {}
    BY <1>1, <1>3 DEF PlanningTyped
  <2>2. \A u \in Tasks, g \in Handlers : worker[g].at = "spawn" /\ worker[g].task = u => task'[u] = task[u]
    BY <1>3, <1>5
  <2> QED
    BY <1>1, <1>2, <1>3, <1>4, <1>6, <2>1, <2>2, TypedStill
<1>8. ASSUME NEW u \in Tasks PROVE Behind(u)'
  <2>1. CASE u = t
    BY <1>4, <2>1 DEF Behind
  <2>2. CASE u # t
    <3>1. \A s \in Sprints : Pl!Closed(s)' => Pl!Closed(s)
      BY <1>2, ClosedKept
    <3>2. Behind(u) /\ (Pl!Present(u)' <=> Pl!Present(u)) /\ task'[u] = task[u]
      BY <1>3, <2>2 DEF PlanningInv, Pl!Present
    <3> QED
      BY <1>1, <1>2, <3>1, <3>2, BehindKept
  <2> QED
    BY <2>1, <2>2
<1>9. TaintKept
  BY <1>2 DEF TaintKept
<1>10. ASSUME NEW u \in Tasks \ {t} PROVE AgreeOf(u)'
  <2>1. \A g \in Handlers : g \in Pl!At(t) => worker[g].task \in Tainted'
    BY <1>2 DEF Tainted
  <2> QED
    BY <1>2, <1>3, <1>9, <2>1, RowsTaken
<1>11. AgreeOf(t)'
  <2> SUFFICES ASSUME t \notin Tainted' PROVE AgreeOf(t)'
    BY DEF AgreeOf
  <2>1. AgreeOf(t) /\ t \notin Tainted
    BY <1>9 DEF PlanningInv, Tainted, TaintKept
  <2>2. \A g, h \in Writer(t)' : g = h
    BY <1>2, <2>1 DEF AgreeOf, Writer
  <2> QED
    BY <1>2, <1>4, <1>5, <2>2 DEF AgreeOf
<1> QED
  BY <1>7, <1>8, <1>10, <1>11 DEF PlanningInv

LEMMA RulesStep ==
  ASSUME PlanningInv, NEW h \in Handlers, Pl!applyAutoActions(h)
  PROVE  PlanningInv'
<1>1. PlanningTyped /\ WorkerShape(h)
  BY DEF PlanningInv, PlanningTyped
<1>2. worker[h].at = "rules" /\ UNCHANGED <<sprint, worker, mixed, dropped, kept>>
  BY DEF Pl!applyAutoActions
<1>3. PICK t \in Tasks : t = worker[h].task
  BY <1>1, <1>2 DEF WorkerShape
<1>4. ASSUME NEW sid \in Pl!Places, Pl!Present(t), Pl!SetTaskSprint(t, sid), UNCHANGED <<assigned, ruled>>
      PROVE  PlanningInv'
  <2>1. PICK x \in Sprints \cup {None} : x = sid
    BY DEF Pl!Places, Pl!Planned
  <2> QED
    BY <1>2, <1>4, <2>1, SprintStep
<1>5. ASSUME NEW done \in BOOLEAN, Pl!Present(t), Pl!SetTaskDone(t, done), UNCHANGED <<assigned, ruled>>
      PROVE  PlanningInv'
  BY <1>2, <1>5, DoneStep
<1>6. ASSUME Pl!ClearTaskAssignees(t) \/ \E u \in Users : Pl!AddTaskAssignee(t, u),
             ruled' = ruled \cup {t} \cup {worker[g].task : g \in Pl!At(t)}, UNCHANGED <<task, strays>>
      PROVE  PlanningInv'
  <2>1. /\ assigned' = [u \in Tasks |-> assigned'[u]] /\ \A u \in Tasks \ {t} : assigned'[u] = assigned[u]
        /\ task[t] = Pl!Unused => assigned'[t] = {}
    <3>1. CASE Pl!ClearTaskAssignees(t)
      BY <1>1, <3>1 DEF Pl!ClearTaskAssignees, PlanningTyped
    <3>2. CASE \E u \in Users : Pl!AddTaskAssignee(t, u)
      BY <1>1, <3>2 DEF Pl!AddTaskAssignee, PlanningTyped, Pl!Present
    <3> QED
      BY <1>6, <3>1, <3>2
  <2>2. \A u \in Tasks : task[u] = Pl!Unused => assigned'[u] = {}
    BY <1>1, <2>1 DEF PlanningTyped
  <2>3. PlanningTyped'
    <3>1. \A u \in Tasks : Pl!Present(u)' => TaskShape(u)'
      BY <1>1, <1>2, <1>6, TaskKept, PlannedSame
    <3>2. task' = [u \in Tasks |-> task'[u]] /\ sprint' = [s \in Sprints |-> sprint'[s]] /\ RowsKept
      BY <1>1, <1>2, <1>6 DEF PlanningTyped, RowsKept
    <3> QED
      BY <1>1, <1>2, <1>6, <2>1, <2>2, <3>1, <3>2, TypedStill
  <2>4. ASSUME NEW u \in Tasks PROVE Behind(u)'
    <3>1. \A s \in Sprints : Pl!Closed(s)' => Pl!Closed(s)
      BY <1>2, ClosedKept
    <3>2. Behind(u) /\ (Pl!Present(u)' <=> Pl!Present(u))
      BY <1>6 DEF PlanningInv, Pl!Present
    <3> QED
      BY <1>1, <1>2, <1>6, <3>1, <3>2, BehindKept
  <2>5. TaintKept /\ t \in Tainted' /\ \A g \in Handlers : g \in Pl!At(t) => worker[g].task \in Tainted'
    BY <1>2, <1>6 DEF TaintKept, Tainted
  <2>6. AgreeOf(t)'
    BY <2>5 DEF AgreeOf
  <2>7. ASSUME NEW u \in Tasks \ {t} PROVE AgreeOf(u)'
    BY <1>2, <1>6, <2>1, <2>5, RowsTaken
  <2> QED
    BY <2>3, <2>4, <2>6, <2>7 DEF PlanningInv
<1> QED
  BY <1>3, <1>4, <1>5, <1>6 DEF Pl!applyAutoActions

-----------------------------------------------------------------------------
LEMMA PlanningStart ==
  ASSUME Pl!Init
  PROVE  PlanningInv
<1>1. /\ task = [t \in Tasks |-> Pl!Unused] /\ assigned = [t \in Tasks |-> {}]
      /\ sprint = [s \in Sprints |-> "unused"] /\ worker = [h \in Handlers |-> Pl!Idle]
  BY DEF Pl!Init
<1>2. (\A t \in Tasks : ~Pl!Present(t)) /\ \A h \in Handlers : worker[h].at = "idle"
  BY <1>1, TaskStates DEF Pl!Present
<1>3. \A h \in Handlers : WorkerShape(h)
  BY <1>2 DEF WorkerShape, Busy
<1>4. PlanningTyped
  BY <1>1, <1>2, <1>3 DEF PlanningTyped
<1>5. \A t \in Tasks : Behind(t) /\ AgreeOf(t)
  BY <1>2 DEF Behind, AgreeOf, Writer, Busy
<1> QED
  BY <1>4, <1>5 DEF PlanningInv

LEMMA PlanningNext ==
  ASSUME PlanningInv, [Pl!Next]_Pl!vars
  PROVE  PlanningInv'
<1>1. ASSUME UNCHANGED Pl!vars PROVE PlanningInv'
  <2>1. UNCHANGED <<task, assigned, sprint, worker, mixed, dropped, ruled, strays, kept>>
    BY <1>1 DEF Pl!vars
  <2>2. \A s \in Sprints : Pl!Closed(s)' => Pl!Closed(s)
    BY <2>1, ClosedKept
  <2>3. PlanningTyped
    BY DEF PlanningInv
  <2>4. ASSUME NEW t \in Tasks PROVE Behind(t)' /\ (Pl!Present(t)' => TaskShape(t)')
    <3>1. Pl!Present(t)' <=> Pl!Present(t)
      BY <2>1 DEF Pl!Present
    <3> QED
      BY <2>1, <2>2, <2>3, <3>1, BehindKept, TaskKept, PlannedSame DEF PlanningInv
  <2>5. task' = [t \in Tasks |-> task'[t]] /\ sprint' = [s \in Sprints |-> sprint'[s]]
    BY <2>1, <2>3 DEF PlanningTyped
  <2> QED
    BY <2>1, <2>4, <2>5, StillRests, RestStep
<1>2. ASSUME NEW s \in Sprints,
             Pl!createSprint(s) \/ Pl!start(s) \/ Pl!deleteSprint(s) \/ \E h \in Handlers : Pl!complete(h, s)
      PROVE  PlanningInv'
  BY <1>2, SprintBegins, DeleteSprintStep, CompleteStep
<1>3. ASSUME NEW t \in Tasks, Pl!setSprint(t) \/ Pl!delete(t) \/ Pl!Handle(t) PROVE PlanningInv'
  BY <1>3, SetSprintStep, DeleteTaskStep, FilingSteps
<1>4. ASSUME NEW t \in Tasks, NEW h \in Handlers,
             Pl!create(h, t) \/ Pl!update(h, t) \/ Pl!submitResponse(h, t) \/ Pl!files(h, t)
      PROVE  PlanningInv'
  BY <1>4, CreateTaskStep, UpdateTaskStep, FilingSteps
<1>5. ASSUME NEW t \in Tasks, NEW h \in Handlers, Pl!setDone(h, t) \/ Pl!setStatus(h, t) PROVE PlanningInv'
  BY <1>5, FinishStep DEF Pl!setDone, Pl!setStatus
<1>6. CASE Pl!bulkDone
  BY <1>6, BulkDoneStep
<1>7. ASSUME NEW h \in Handlers,
             Pl!createTasks(h) \/ Pl!filed(h) \/ Pl!answers(h) \/ Pl!closes(h) \/ Pl!applyAutoActions(h)
      PROVE  PlanningInv'
  BY <1>7, AnswerSteps, ClosesStep, RulesStep
<1>8. ASSUME NEW h \in Handlers,
             Pl!bulkAssign(h) \/ Pl!clears(h) \/ Pl!adds(h) \/ Pl!goesOn(h) \/ Pl!spawns(h) \/ Pl!copies(h)
      PROVE  PlanningInv'
  BY <1>8, BulkAssignStep, ClearsStep, AddsStep, GoesOnStep, SpawnsStep, CopiesStep
<1> QED
  BY <1>1, <1>2, <1>3, <1>4, <1>5, <1>6, <1>7, <1>8 DEF Pl!Next

(* A completed sprint holds no unfinished task that was not put there, or  *)
(* reopened, once it was closed, unless returning its tasks failed         *)
(* (sprints.go:177): between the statement that returns them and the one   *)
(* that closes the sprint it counts as closed.                             *)
THEOREM SprintsAreCleared == Pl!Spec => []NoneLeftBehind
<1>1. ASSUME PlanningInv PROVE NoneLeftBehind
  BY <1>1 DEF PlanningInv, Behind, NoneLeftBehind, Pl!NoneLeftBehind, Pl!Closed
<1> QED
  BY <1>1, PlanningStart, PlanningNext, PTL DEF Pl!Spec

(* A task that nobody is at has rows if and only if it has a primary       *)
(* assignee, who is among them (tasks.go:190), unless two requests crossed *)
(* at it, an error was dropped or a rule changed its rows: every request   *)
(* that writes one of the two records has the other still to write.        *)
THEOREM AssigneeIsAssigned == Pl!Spec => []AssigneesAgree
<1>1. ASSUME PlanningInv PROVE AssigneesAgree
  <2> SUFFICES ASSUME NEW t \in Tasks \ (mixed \cup dropped \cup ruled), Pl!Present(t), Pl!At(t) = {}
               PROVE  Match(task[t].primary, assigned[t])
    BY DEF AssigneesAgree, Pl!AssigneesAgree, Match
  <2>1. Writer(t) = {}
    BY AtIs DEF Writer
  <2> QED
    BY <1>1, <2>1 DEF PlanningInv, AgreeOf, Tainted
<1> QED
  BY <1>1, PlanningStart, PlanningNext, PTL DEF Pl!Spec
=============================================================================
