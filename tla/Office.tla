------------------------------- MODULE Office -------------------------------
(***************************************************************************)
(* Decisions, Pages, Planning, Webhooks and GitPushes: five parts of the   *)
(* server that share only its handlers and its users, each with tables of  *)
(* its own.  The properties of the parts are those of the office.          *)
(***************************************************************************)
EXTENDS GitPushes

CONSTANTS
  Sessions, Leaves, Approvals, Expenses, Amounts, MaxTurns,          \* of Decisions
  Members, Pages, Bodies, MaxHops, PagesBudgets,                     \* of Pages
  Tasks, Sprints, PlanningBudgets,                                   \* of Planning
  Hooks, Providers, Kinds, Events, MaxEdits,                         \* of Webhooks
  None

Users == {s.user : s \in Sessions}

(* NULL is no id; a provider is no webhook; the parent of a page that is   *)
(* not there is not read.                                                  *)
ASSUME OfficeAssumption ==
  /\ None \notin Pages \cup Sprints \cup Tasks \cup Users
  /\ Hooks \cap Providers = {}

VARIABLES
  row, minutes, counter, screen, decided, knows, crossed, untold, turns,
  page, share, links, versions, clerk, since, overlapped, unlinked, blind, tangled, pagesLeft,
  task, assigned, sprint, worker, mixed, dropped, ruled, strays, kept, planningLeft,
  hook, integration, courier, tried, ever, always, edits

Dc == INSTANCE Decisions WITH desk <- counter
Pg == INSTANCE Pages WITH
        Sessions <- Members, NoPage <- None, left <- pagesLeft, Budgets <- PagesBudgets
Pl == INSTANCE Planning WITH
        crossed <- mixed, left <- planningLeft, Budgets <- PlanningBudgets
Wh == INSTANCE Webhooks WITH posts <- tried

-----------------------------------------------------------------------------
(* Decisions: a requester knows where his request stands (leave.go:262).   *)
LastNoticeAgrees == Dc!LastNoticeAgrees

(* Decisions: an approved timesheet has the minutes its approver was shown *)
(* (timesheets.go:203).                                                    *)
SheetAsShown == Dc!SheetAsShown

(* Pages: the tree of pages has no cycle (pages.go:553).                   *)
TreeAcyclic == Pg!TreeAcyclic

(* Pages: the links of a page are the references of its body               *)
(* (pages.go:51).                                                          *)
LinksFollowBody == Pg!LinksFollowBody

(* Planning: assignee_id and task_assignees agree (tasks.go:190).          *)
AssigneesAgree == Pl!AssigneesAgree

(* Planning: a completed sprint holds no unfinished task (sprints.go:177). *)
NoneLeftBehind == Pl!NoneLeftBehind

(* Webhooks: an event is posted once to whoever wanted it all along, and   *)
(* to nobody who did not want it (integrations.go:444).                    *)
DeliveredAsSubscribed == Wh!DeliveredAsSubscribed
=============================================================================
