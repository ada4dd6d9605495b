------------------------------- MODULE Pages -------------------------------
(***************************************************************************)
(* The workspace's pages (handler/pages.go): a tree of documents whose     *)
(* bodies link to each other by title.  A save is six statements or more - *)
(* read, check, snapshot, write, clear the links, insert them one by one - *)
(* and a move reads the ancestors of its target one by one before it       *)
(* writes; neither is a transaction.  A body is the set of pages whose     *)
(* titles it refers to; titles do not change here.  Forms, the other       *)
(* columns and the live event to open editors are left out.                *)
(***************************************************************************)
EXTENDS Naturals

CONSTANTS
  Sessions,   \* the tokens in use: records of a user and a role
  Pages,      \* ids and titles
  Bodies,     \* what a body may refer to: sets of pages
  NoPage,     \* NULL
  MaxHops,    \* ancestors a move reads at most: 100
  Handlers,   \* goroutines that serve these requests
  Budgets     \* bounds: how many requests of each kind

Users == {s.user : s \in Sessions}

VARIABLES
  page,      \* the table pages
  share,     \* page_shares: the permission of each user on each page
  links,     \* page_links: pairs of a source and a target
  versions,  \* page_versions: the bodies kept of each page
  clerk,     \* what each handler is doing
  since,     \* history: the pages a reference could find when each body was written
  overlapped,\* history: pages written while another save of them was linking
  unlinked,  \* history: pages for which a statement on their links failed or was never made
  blind,     \* history: a move was made without having read all ancestors
  tangled,   \* history: a page was moved behind the back of a move that had passed it
  left       \* bound: requests left, of each kind

vars == <<page, share, links, versions, clerk, since, overlapped, unlinked, blind, tangled, left>>

Unused  == [state |-> "unused"]
Deleted == [state |-> "deleted"]
Present(p) == page[p] \notin {Unused, Deleted}
Idle == [at |-> "idle"]

New(author, parent, body, template) ==
  [state |-> "live", author |-> author, parent |-> parent, body |-> body,
   template |-> template, visibility |-> "workspace"]

Init ==
  /\ page = [p \in Pages |-> Unused] /\ share = [p \in Pages |-> [u \in Users |-> ""]]
  /\ links = {} /\ versions = [p \in Pages |-> {}]
  /\ clerk = [h \in Handlers |-> Idle]
  /\ since = [p \in Pages |-> {}] /\ overlapped = {} /\ unlinked = {}
  /\ blind = FALSE /\ tangled = FALSE /\ left \in Budgets

Request(kind) == left[kind] > 0 /\ left' = [left EXCEPT ![kind] = @ - 1]
Takes(h, kind) == clerk[h] = Idle /\ Request(kind)
Goes(h, doing) == clerk' = [clerk EXCEPT ![h] = doing]

-----------------------------------------------------------------------------
(* Who may do what with a page.                                            *)

isAdmin(s) == s.role \in {"owner", "admin"}
owns(s, p) == page[p].author = s.user

GetPageShare(p, u) == share[p][u]

pageAccessLevel(s, p) ==
  IF isAdmin(s) \/ owns(s, p) \/ page[p].visibility = "workspace" THEN "edit"
  ELSE GetPageShare(p, s.user)

canManage(s, p) == Present(p) /\ (owns(s, p) \/ isAdmin(s))

SetPageVisibility(p, visibility) == page' = [page EXCEPT ![p].visibility = visibility]

setVisibility(s, p) ==
  /\ Request("share") /\ canManage(s, p)
  /\ \E visibility \in {"workspace", "private"} : SetPageVisibility(p, visibility)
  /\ UNCHANGED <<share, links, versions, clerk, since, overlapped, unlinked, blind, tangled>>

SetShare(p, u, permission) == share' = [share EXCEPT ![p][u] = permission]
UpsertPageShare(p, u, permission) == SetShare(p, u, permission)
RemovePageShare(p, u) == SetShare(p, u, "")

addShare(s, p) ==
  /\ Request("share") /\ canManage(s, p)
  /\ \E u \in Users, permission \in {"view", "edit"} : UpsertPageShare(p, u, permission)
  /\ UNCHANGED <<page, links, versions, clerk, since, overlapped, unlinked, blind, tangled>>

removeShare(s, p) ==
  /\ Request("share") /\ canManage(s, p)
  /\ \E u \in Users : share[p][u] # "" /\ RemovePageShare(p, u)
  /\ UNCHANGED <<page, links, versions, clerk, since, overlapped, unlinked, blind, tangled>>

-----------------------------------------------------------------------------
(* The links of a body.                                                    *)

Findable == {t \in Pages : Present(t) /\ ~page[t].template}
FindPageByTitle(t) == IF t \in Findable THEN t ELSE NoPage

Linking(p) == {h \in Handlers : clerk[h].at \in {"clear", "link"} /\ clerk[h].page = p}

KeepPageLinks(p) == links' = links
ClearPageLinks(p) == links' = {l \in links : l[1] # p}

(* The foreign keys: both pages have to be there.                          *)
InsertPageLink(p, t) ==
  links' = IF Present(p) /\ Present(t) THEN links \cup {<<p, t>>} ELSE links

(* An error of a statement on the links is dropped.                        *)
Unless(p, done) ==
  \/ done /\ UNCHANGED unlinked
  \/ unlinked' = unlinked \cup {p} /\ UNCHANGED links

(* syncPageLinks, one statement at a time.                                 *)
syncClears(h) ==
  /\ clerk[h].at = "clear"
  /\ Unless(clerk[h].page, ClearPageLinks(clerk[h].page))
  /\ Goes(h, [clerk[h] EXCEPT !.at = "link"])
  /\ UNCHANGED <<page, share, versions, since, overlapped, blind, tangled, left>>

syncLinks(h) ==
  /\ clerk[h].at = "link"
  /\ \E t \in clerk[h].body :
       /\ IF FindPageByTitle(t) \in {NoPage, clerk[h].page}
          THEN UNCHANGED <<links, unlinked>>
          ELSE Unless(clerk[h].page, InsertPageLink(clerk[h].page, t))
       /\ Goes(h, [clerk[h] EXCEPT !.body = @ \ {t}])
  /\ UNCHANGED <<page, share, versions, since, overlapped, blind, tangled, left>>

(* Reload the page, tell the open editors, answer.                         *)
syncEnds(h) ==
  /\ clerk[h].at = "link" /\ clerk[h].body = {}
  /\ Goes(h, Idle)
  /\ UNCHANGED <<page, share, links, versions, since, overlapped, unlinked, blind, tangled, left>>

-----------------------------------------------------------------------------
(* Writing.                                                                *)

CreatePage(p, author, parent, body, template) ==
  page' = [page EXCEPT ![p] = New(author, parent, body, template)]

(* The parent is whatever the request says; the foreign key wants it.      *)
create(h, s, p) ==
  /\ Takes(h, "save") /\ page[p] = Unused
  /\ \E parent \in {q \in Pages : Present(q)} \cup {NoPage}, body \in Bodies, template \in BOOLEAN :
       /\ CreatePage(p, s.user, parent, body, template)
       /\ IF template THEN UNCHANGED clerk
          ELSE Goes(h, [at |-> "clear", page |-> p, body |-> body])
  /\ since' = [since EXCEPT ![p] = Findable]
  /\ UNCHANGED <<share, links, versions, overlapped, unlinked, blind, tangled>>

(* The AI's summary of a meeting becomes a page, on top of the tree; its   *)
(* links are not made before somebody saves it.                            *)
meetingSummary(s, p) ==
  /\ Request("save") /\ page[p] = Unused
  /\ \E body \in Bodies : CreatePage(p, s.user, NoPage, body, FALSE)
  /\ since' = [since EXCEPT ![p] = Findable]
  /\ unlinked' = unlinked \cup {p}
  /\ UNCHANGED <<share, links, versions, clerk, overlapped, blind, tangled>>

(* update: GetPage and the check of access; the old body is what it read.  *)
update(h, s, p) ==
  /\ Takes(h, "save") /\ Present(p) /\ pageAccessLevel(s, p) = "edit"
  /\ \E body \in Bodies :
       Goes(h, [at |-> IF body = page[p].body THEN "write" ELSE "consider",
                page |-> p, body |-> body, old |-> page[p].body])
  /\ UNCHANGED <<page, share, links, versions, since, overlapped, unlinked, blind, tangled>>

(* A version kept in the last two minutes is enough.                       *)
HasRecentPageVersion(p, recent) == recent => versions[p] # {}

considers(h) ==
  /\ clerk[h].at = "consider"
  /\ \E recent \in BOOLEAN :
       /\ HasRecentPageVersion(clerk[h].page, recent)
       /\ Goes(h, [clerk[h] EXCEPT !.at = IF recent THEN "write" ELSE "snapshot"])
  /\ UNCHANGED <<page, share, links, versions, since, overlapped, unlinked, blind, tangled, left>>

GetPageVersion(p) == versions[p]

(* restoreVersion: GetPage, the check of access, GetPageVersion.           *)
restoreVersion(h, s, p) ==
  /\ Takes(h, "save") /\ Present(p) /\ pageAccessLevel(s, p) = "edit"
  /\ \E body \in GetPageVersion(p) :
       Goes(h, [at |-> "snapshot", page |-> p, body |-> body, old |-> page[p].body])
  /\ UNCHANGED <<page, share, links, versions, since, overlapped, unlinked, blind, tangled>>

(* The snapshot is of what was read; its error is dropped.                 *)
SnapshotPageVersion(p, body) ==
  versions' = [versions EXCEPT ![p] = IF Present(p) THEN @ \cup {body} ELSE @]

snapshots(h) ==
  /\ clerk[h].at = "snapshot"
  /\ SnapshotPageVersion(clerk[h].page, clerk[h].old) \/ UNCHANGED versions
  /\ Goes(h, [clerk[h] EXCEPT !.at = "write"])
  /\ UNCHANGED <<page, share, links, since, overlapped, unlinked, blind, tangled, left>>

(* UpdatePage and RestorePageContent: an UPDATE by id.                     *)
UpdatePage(p, body) ==
  page' = IF Present(p) THEN [page EXCEPT ![p].body = body] ELSE page

writes(h) ==
  /\ clerk[h].at = "write"
  /\ LET p == clerk[h].page IN
     /\ UpdatePage(p, clerk[h].body)
     /\ since' = [since EXCEPT ![p] = Findable]
     /\ overlapped' = IF Linking(p) = {} THEN overlapped ELSE overlapped \cup {p}
  /\ Goes(h, [at |-> "clear", page |-> clerk[h].page, body |-> clerk[h].body])
  /\ UNCHANGED <<share, links, versions, unlinked, blind, tangled, left>>

(* A failed write ends the request.                                        *)
fails(h) ==
  /\ clerk[h].at \in {"write", "move"}
  /\ Goes(h, Idle)
  /\ UNCHANGED <<page, share, links, versions, since, overlapped, unlinked, blind, tangled, left>>

(* Its children become roots; its shares, links and versions go with it.   *)
DeletePage(p) ==
  /\ page' = [q \in Pages |-> IF q = p THEN Deleted
                              ELSE IF Present(q) /\ page[q].parent = p THEN [page[q] EXCEPT !.parent = NoPage]
                              ELSE page[q]]
  /\ share' = [share EXCEPT ![p] = [u \in Users |-> ""]]
  /\ links' = {l \in links : p \notin {l[1], l[2]}}
  /\ versions' = [versions EXCEPT ![p] = {}]

delete(s, p) ==
  /\ Request("delete") /\ canManage(s, p)
  /\ DeletePage(p)
  /\ UNCHANGED <<clerk, since, overlapped, unlinked, blind, tangled>>

-----------------------------------------------------------------------------
(* Moving.                                                                 *)

GetPage(p) == page[p]
TopOf(p) == NoPage
Above(p) == GetPage(p).parent

(* setParent: the walk starts at the new parent; to the top there is none. *)
(* Both pages have existed: the request names what its client was shown.   *)
setParent(h, p) ==
  /\ Takes(h, "move") /\ page[p] # Unused
  /\ \E parent \in {q \in Pages \ {p} : page[q] # Unused} \cup {NoPage} :
       Goes(h, [at |-> IF parent = NoPage THEN "move" ELSE "walk", page |-> p,
                parent |-> parent, cur |-> parent, seen |-> {}, hops |-> 0])
  /\ UNCHANGED <<page, share, links, versions, since, overlapped, unlinked, blind, tangled>>

(* One round of the loop: a descendant is refused; a page that cannot be   *)
(* read, as one that was deleted, ends the walk and the move goes on.      *)
walks(h) ==
  /\ clerk[h].at = "walk"
  /\ LET c == clerk[h] IN
     \/ /\ c.cur = c.page /\ c.hops < MaxHops
        /\ Goes(h, Idle) /\ UNCHANGED blind
     \/ /\ c.cur \notin {c.page, NoPage} /\ c.hops < MaxHops
        /\ IF Present(c.cur)
           THEN \/ /\ Goes(h, [c EXCEPT !.cur = Above(c.cur), !.seen = @ \cup {c.cur}, !.hops = @ + 1])
                   /\ UNCHANGED blind
                \/ Goes(h, [c EXCEPT !.at = "move"]) /\ blind' = TRUE
           ELSE Goes(h, [c EXCEPT !.at = "move"]) /\ UNCHANGED blind
     \/ /\ c.cur = NoPage \/ c.hops = MaxHops
        /\ Goes(h, [c EXCEPT !.at = "move"])
        /\ blind' = (blind \/ c.cur # NoPage)
  /\ UNCHANGED <<page, share, links, versions, since, overlapped, unlinked, tangled, left>>

(* A parent that has gone fails the foreign key.                           *)
SetPageParent(p, parent) ==
  page' = IF Present(p) /\ (parent = NoPage \/ Present(parent))
          THEN [page EXCEPT ![p].parent = parent] ELSE page

Passed(p) == {h \in Handlers : clerk[h].at \in {"walk", "move"} /\ p \in clerk[h].seen}

moves(h) ==
  /\ clerk[h].at = "move"
  /\ SetPageParent(clerk[h].page, clerk[h].parent)
  /\ tangled' = (tangled \/ Passed(clerk[h].page) # {})
  /\ Goes(h, Idle)
  /\ UNCHANGED <<share, links, versions, since, overlapped, unlinked, blind, left>>

-----------------------------------------------------------------------------
Asks(h, s, p) == create(h, s, p) \/ update(h, s, p) \/ restoreVersion(h, s, p) \/ setParent(h, p)
Manages(s, p) == setVisibility(s, p) \/ addShare(s, p) \/ removeShare(s, p) \/ delete(s, p)

Works(h) ==
  \/ syncClears(h) \/ syncLinks(h) \/ syncEnds(h)
  \/ considers(h) \/ snapshots(h) \/ writes(h) \/ fails(h)
  \/ walks(h) \/ moves(h)

Next ==
  \/ \E s \in Sessions, p \in Pages :
       /\ s.role # "guest"
       /\ Manages(s, p) \/ meetingSummary(s, p) \/ \E h \in Handlers : Asks(h, s, p)
  \/ \E h \in Handlers : Works(h)

Spec == Init /\ [][Next]_vars

-----------------------------------------------------------------------------
(* No page is its own ancestor.  A cycle takes a move that did not read    *)
(* every ancestor of its target (a failed read, or a chain longer than the *)
(* hundred the loop follows), or a page moved by another request after the *)
(* walk had passed it (pages.go:553-580).                                  *)
TreeAcyclic ==
  blind \/ tangled \/
  \A circle \in (SUBSET Pages) \ {{}} : \E p \in circle : ~(Present(p) /\ page[p].parent \in circle)

(* When no save of a page is writing its links, they are those of its body *)
(* - no link the body does not have, none missing to a page that was there *)
(* when the body was written - unless a statement on its links failed, it  *)
(* was written again while they were being rebuilt (pages.go:51-75), or    *)
(* the AI wrote it (ai.go:513).                                            *)
LinksFollowBody ==
  \A p \in Pages :
     Present(p) /\ ~page[p].template /\ Linking(p) = {} /\ p \notin overlapped \cup unlinked
     => LET linked == {t \in Pages : <<p, t>> \in links}
            meant  == page[p].body \ {p}
        IN linked \subseteq meant /\ {t \in meant \cap since[p] : Present(t)} \subseteq linked
=============================================================================
