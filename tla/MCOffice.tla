------------------------------ MODULE MCOffice ------------------------------
(***************************************************************************)
(* The office: each initial state opens one of its parts and gives it its  *)
(* budget.  The others than Decisions begin in states that their own       *)
(* requests reach from the empty tables.                                   *)
(***************************************************************************)
EXTENDS Office, TLC

CONSTANTS a, b, h1, h2, p1, p2, p3, t1, t2, t3, s1, s2, w1, w2, slack, e1, r1, c1, c2

VARIABLE part \* the one whose requests come

(* Two colleagues: for the decisions both are administrators, for the      *)
(* pages both are members.  Nothing else tells them apart.                 *)
MCSessions == {[user |-> u, role |-> "admin"] : u \in {a, b}}
MCMembers  == {[s EXCEPT !.role = "member"] : s \in MCSessions}
MCHandlers == {h1, h2}
Symmetry   == Permutations(MCHandlers) \cup Permutations({a, b})

MCPages    == {p1, p2, p3}
MCBodies   == {{p2}, {p1, p3}}
MCTasks    == {t1, t2, t3}
MCSprints  == {s1, s2}
MCHooks    == {w1, w2}
MCProviders == {slack}
MCKinds    == {"task.created", "comment.created"}
MCEvents   == {e1}
NoBudgets  == {}

(* Two pushes with a commit in common, on two branches.                    *)
MCRepos  == {r1}
MCShas   == {c1, c2}
MCPushes == {[repo |-> r1, branch |-> "main", shas |-> <<c1, "none", c2>>],
             [repo |-> r1, branch |-> "fix", shas |-> <<c2>>]}

decisionsVars == <<row, minutes, counter, screen, decided, knows, crossed, untold, turns>>
pagesVars     == <<page, share, links, versions, clerk, since, overlapped, unlinked, blind, tangled, pagesLeft>>
webhooksVars  == <<hook, integration, courier, tried, ever, always, edits>>
pushesVars    == vars
planningVars  == <<task, assigned, sprint, worker, mixed, dropped, ruled, strays, kept, planningLeft>>

-----------------------------------------------------------------------------
DecisionsAt(items) ==
  /\ row = [i \in Dc!Item |-> IF i \in items THEN Dc!Unused ELSE Dc!Deleted]
  /\ minutes = [u \in Users |-> CHOOSE n \in Amounts : TRUE]
  /\ counter = [h \in Handlers |-> Idle]
  /\ screen = [u \in Users |-> [i \in Dc!Item |-> Dc!Blank]] /\ decided = [i \in Dc!Item |-> Dc!Blank]
  /\ knows = [i \in Dc!Item |-> "unused"] /\ crossed = {} /\ untold = {}

(* Page p1 is under `parent` and refers to the pages of `body`; those of   *)
(* `gone` are deleted, those of `free` not yet created.                    *)
PagesAt(parent, body, visibility, gone, free) ==
  /\ page = [p \in Pages |->
               IF p \in gone THEN Pg!Deleted ELSE IF p \in free THEN Pg!Unused
               ELSE [Pg!New(a, IF p = p1 THEN parent ELSE None, IF p = p1 THEN body ELSE {}, FALSE)
                  EXCEPT !.visibility = visibility]]
  /\ share = [p \in Pages |-> [u \in Users |-> ""]]
  /\ links = {p1} \X body /\ versions = [p \in Pages |-> {}]
  /\ clerk = [h \in Handlers |-> Idle]
  /\ since = [p \in Pages |-> IF p = p1 THEN body ELSE {}] /\ overlapped = {} /\ unlinked = {}
  /\ blind = FALSE /\ tangled = FALSE

(* The tasks of `open` are unassigned and in sprint s, the others deleted  *)
(* or not yet created.                                                     *)
PlanningAt(open, gone, s, first, second) ==
  /\ task = [t \in Tasks |->
               IF t \in open THEN Pl!Row(None, s, FALSE) ELSE IF t \in gone THEN Pl!Deleted ELSE Pl!Unused]
  /\ sprint = (s1 :> first @@ s2 :> second)
  /\ assigned = [t \in Tasks |-> {}]
  /\ worker = [h \in Handlers |-> Idle]
  /\ mixed = {} /\ dropped = {} /\ ruled = {} /\ strays = {} /\ kept = {}

PagesBudget(save, move, delete, shares) ==
  pagesLeft = [save |-> save, move |-> move, delete |-> delete, share |-> shares]
PlanningBudget(tasks, sprints) == planningLeft = [task |-> tasks, sprint |-> sprints]

WebhooksAt(events, second, connection, used) ==
  /\ hook = (w1 :> [active |-> TRUE, events |-> events, at |-> "present"] @@ w2 :> second)
  /\ integration = [p \in Providers |-> connection]
  /\ courier = [e \in Events |-> Wh!Quiet]
  /\ tried = [e \in Events |-> [x \in Wh!Endpoints |-> 0]]
  /\ ever = [e \in Events |-> {}] /\ always = [e \in Events |-> {}]
  /\ edits = used

PushesAt(state, used) ==
  /\ repo = [r \in Repos |-> state]
  /\ commit = [r \in Repos |-> [c \in Shas |-> "none"]] /\ origin = commit
  /\ desk = [h \in Handlers |-> Idle]
  /\ answered = {} /\ posts = used

DecisionsClosed == DecisionsAt({}) /\ turns = MaxTurns
PagesClosed     == PagesAt(None, {}, "workspace", {p1, p2, p3}, {}) /\ PagesBudget(0, 0, 0, 0)
PlanningClosed  == PlanningAt({}, {t1, t2, t3}, None, "deleted", "deleted") /\ PlanningBudget(0, 0)
WebhooksClosed  == WebhooksAt({}, Wh!Deleted, "none", 3)
PushesClosed    == PushesAt("deleted", MaxPosts)

MCInit ==
  \/ /\ part = "decisions"
     /\ \E kind \in {"leave", "sheet", "approval", "expense"} : DecisionsAt({i \in Dc!Item : i[1] = kind}) /\ turns = 0
     /\ PagesClosed /\ PlanningClosed /\ WebhooksClosed /\ PushesClosed
  \/ /\ part = "pages"
     /\ \/ PagesAt(None, {p2}, "workspace", {p3}, {}) /\ PagesBudget(2, 0, 0, 0)
        \/ PagesAt(None, {}, "workspace", {}, {p3}) /\ PagesBudget(2, 0, 1, 0)
        \/ PagesAt(p2, {}, "workspace", {}, {p3}) /\ PagesBudget(1, 2, 0, 0)
        \/ PagesAt(p2, {}, "workspace", {}, {}) /\ PagesBudget(0, 3, 1, 0)
        \/ PagesAt(None, {}, "private", {p2, p3}, {}) /\ PagesBudget(1, 0, 0, 2)
     /\ DecisionsClosed /\ PlanningClosed /\ WebhooksClosed /\ PushesClosed
  \/ /\ part = "planning"
     /\ \/ PlanningAt({t1}, {t3}, None, "deleted", "deleted") /\ PlanningBudget(2, 0)
        \/ PlanningAt({t1}, {t3}, s1, "active", "unused") /\ PlanningBudget(1, 2)
        \/ PlanningAt({t1, t3}, {t2}, None, "deleted", "deleted") /\ PlanningBudget(2, 0)
     /\ DecisionsClosed /\ PagesClosed /\ WebhooksClosed /\ PushesClosed
  \/ /\ part = "webhooks"
     /\ \/ WebhooksAt({}, Wh!Unused, "none", 0)
        \/ WebhooksAt({"task.created"}, [active |-> FALSE, events |-> {}, at |-> "present"], "url", 0)
     /\ DecisionsClosed /\ PagesClosed /\ PlanningClosed /\ PushesClosed
  \/ /\ part = "pushes" /\ PushesAt("unused", 0)
     /\ DecisionsClosed /\ PagesClosed /\ PlanningClosed /\ WebhooksClosed

MCNext ==
  /\ UNCHANGED part
  /\ \/ part = "decisions" /\ Dc!Next /\ UNCHANGED <<pagesVars, planningVars, webhooksVars, pushesVars>>
     \/ part = "pages" /\ Pg!Next /\ UNCHANGED <<decisionsVars, planningVars, webhooksVars, pushesVars>>
     \/ part = "planning" /\ Pl!Next /\ UNCHANGED <<decisionsVars, pagesVars, webhooksVars, pushesVars>>
     \/ part = "webhooks" /\ Wh!Next /\ UNCHANGED <<decisionsVars, pagesVars, planningVars, pushesVars>>
     \/ part = "pushes" /\ Next /\ UNCHANGED <<decisionsVars, pagesVars, planningVars, webhooksVars>>

MCSpec == MCInit /\ [][MCNext]_<<part, decisionsVars, pagesVars, planningVars, webhooksVars, pushesVars>>

=============================================================================
