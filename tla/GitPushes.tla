----------------------------- MODULE GitPushes -----------------------------
(***************************************************************************)
(* Commits told by a repository's host (handler/git.go).  The host posts   *)
(* the pushes of a registered repository; the handler stores the commits   *)
(* of a push one by one, the first failure answers 500, and the host posts *)
(* again what was not acknowledged - or was, if the answer was lost.  Two  *)
(* posts of one push, or of two pushes with a commit in common, may be     *)
(* under way at once, and the repository may be deleted meanwhile.         *)
(***************************************************************************)
EXTENDS Naturals, Sequences

CONSTANTS
  Repos,      \* ids of repositories, each with its token
  Shas,       \* commits
  Pushes,     \* records: repo, branch, and the sequence of the commits, "none" for one without id
  Handlers,   \* goroutines that serve the host's posts
  MaxPosts    \* bound: posts

(* The commits are those of a registered repository, on a branch that has  *)
(* a name; "none" stands for a commit that is not stored.                  *)
ASSUME PushesAssumption ==
  /\ \A p \in Pushes : p.repo \in Repos /\ p.branch # "none" /\ p.shas \in Seq(Shas \cup {"none"})
  /\ "none" \notin Shas
  /\ MaxPosts \in Nat

VARIABLES
  repo,      \* git_repos: "unused", "present" or "deleted"
  commit,    \* git_commits: the branch each repository's commit came with, "none" when it is not stored
  desk,      \* what each handler is doing
  answered,  \* history: pushes answered with 200
  origin,    \* history: the branch of each commit when it was first stored
  posts      \* bound: posts so far

vars == <<repo, commit, desk, answered, origin, posts>>

Idle == [at |-> "idle"]

Init ==
  /\ repo = [r \in Repos |-> "unused"]
  /\ commit = [r \in Repos |-> [c \in Shas |-> "none"]] /\ origin = commit
  /\ desk = [h \in Handlers |-> Idle]
  /\ answered = {} /\ posts = 0

-----------------------------------------------------------------------------
CreateRepo(r) == repo' = [repo EXCEPT ![r] = "present"]
createRepo(r) ==
  /\ repo[r] = "unused"
  /\ CreateRepo(r)
  /\ UNCHANGED <<commit, desk, answered, origin, posts>>

(* The commits go with their repository (ON DELETE CASCADE).               *)
DeleteRepo(r) ==
  /\ repo' = [repo EXCEPT ![r] = "deleted"]
  /\ commit' = [commit EXCEPT ![r] = [c \in Shas |-> "none"]]
deleteRepo(r) ==
  /\ repo[r] = "present"
  /\ DeleteRepo(r)
  /\ UNCHANGED <<desk, answered, origin, posts>>

-----------------------------------------------------------------------------
GetRepoByToken(p) == repo[p.repo] = "present"

(* An unknown token is answered with 404.                                  *)
Webhook(h, p) ==
  /\ desk[h] = Idle
  /\ posts < MaxPosts /\ posts' = posts + 1
  /\ GetRepoByToken(p)
  /\ desk' = [desk EXCEPT ![h] = [at |-> "push", push |-> p, rest |-> p.shas]]
  /\ UNCHANGED <<repo, commit, answered, origin>>

(* ON CONFLICT (repo_id, sha) DO NOTHING.                                  *)
ReplaceCommit(r, c, branch) ==
  commit' = [commit EXCEPT ![r][c] = branch]
InsertCommit(r, c, branch) ==
  commit' = [commit EXCEPT ![r][c] = IF @ = "none" THEN branch ELSE @]

Step(h) == desk' = [desk EXCEPT ![h].rest = Tail(@)]

passesOver(h) ==
  /\ desk[h].at = "push" /\ desk[h].rest # <<>> /\ Head(desk[h].rest) = "none"
  /\ Step(h)
  /\ UNCHANGED <<repo, commit, answered, origin, posts>>

ingests(h) ==
  /\ desk[h].at = "push" /\ desk[h].rest # <<>> /\ Head(desk[h].rest) # "none"
  /\ LET r == desk[h].push.repo
         c == Head(desk[h].rest) IN
     /\ repo[r] = "present"
     /\ InsertCommit(r, c, desk[h].push.branch)
     /\ origin' = [origin EXCEPT ![r][c] = IF @ = "none" THEN desk[h].push.branch ELSE @]
  /\ Step(h)
  /\ UNCHANGED <<repo, answered, posts>>

(* The database fails, or the repository has gone (the foreign key): 500.  *)
logsFailure(h) ==
  /\ desk[h].at = "push" /\ desk[h].rest # <<>> /\ Head(desk[h].rest) # "none"
  /\ Step(h)
fails(h) ==
  /\ desk[h].at = "push" /\ desk[h].rest # <<>> /\ Head(desk[h].rest) # "none"
  /\ desk' = [desk EXCEPT ![h] = Idle]

answers(h) ==
  /\ desk[h].at = "push" /\ desk[h].rest = <<>>
  /\ answered' = answered \cup {desk[h].push}
  /\ desk' = [desk EXCEPT ![h] = Idle]
  /\ UNCHANGED <<repo, commit, origin, posts>>

-----------------------------------------------------------------------------
Next ==
  \/ \E r \in Repos : createRepo(r) \/ deleteRepo(r)
  \/ \E h \in Handlers : \/ \E p \in Pushes : Webhook(h, p)
                         \/ passesOver(h) \/ ingests(h) \/ answers(h)
                         \/ fails(h) /\ UNCHANGED <<repo, commit, answered, origin, posts>>

Spec == Init /\ [][Next]_vars

-----------------------------------------------------------------------------
(* A push that was acknowledged is not posted again: while its repository  *)
(* is there, all its commits are stored, with the branch they first came   *)
(* with (git.go:241-265; UNIQUE (repo_id, sha), DO NOTHING), however many  *)
(* posts of it, or of another push with the same commits, were cut off     *)
(* before; and a deleted repository has none.                              *)
PushAcknowledged ==
  /\ \A p \in answered : \A i \in DOMAIN p.shas :
        repo[p.repo] = "present" /\ p.shas[i] # "none" => commit[p.repo][p.shas[i]] # "none"
  /\ \A r \in Repos, c \in Shas : commit[r][c] # "none" => repo[r] = "present" /\ commit[r][c] = origin[r][c]
=============================================================================
