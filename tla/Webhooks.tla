------------------------------ MODULE Webhooks ------------------------------
(***************************************************************************)
(* Task events told to other programs (handler/integrations.go).  The      *)
(* request that causes an event starts a goroutine and does not wait for   *)
(* it; the goroutine lists the active webhooks and posts to each that has  *)
(* subscribed, then does the same with the connected chat providers.       *)
(* Administrators edit webhooks and connections meanwhile, and a stop of   *)
(* the server loses the goroutines under way.  A POST is one attempt: what *)
(* the other side makes of it is not looked at.                            *)
(***************************************************************************)
EXTENDS Naturals

CONSTANTS
  Hooks,      \* ids of webhooks
  Providers,  \* "slack", "teams", "zapier"
  Kinds,      \* kinds of event
  Events,     \* task events, one goroutine each
  MaxEdits    \* bound: requests of administrators

VARIABLES
  hook,         \* webhooks
  integration,  \* integrations: connected with a URL, connected without one, or not connected
  courier,      \* what the goroutine of each event is doing
  posts,        \* history: attempts made for each event at each end point
  ever,         \* history: end points that have wanted an event since it happened
  always,       \* history: end points that have wanted it all the time until they were listed
  edits         \* bound: requests so far

vars == <<hook, integration, courier, posts, ever, always, edits>>

Endpoints == Hooks \cup Providers

Unused  == [active |-> FALSE, events |-> {}, at |-> "unused"]
Deleted == [active |-> FALSE, events |-> {}, at |-> "deleted"]
Present(x) == hook[x] \notin {Unused, Deleted}

Quiet == [at |-> "unused"]

Init ==
  /\ hook = [x \in Hooks |-> Unused] /\ integration = [x \in Providers |-> "none"]
  /\ courier = [e \in Events |-> Quiet]
  /\ posts = [e \in Events |-> [x \in Endpoints |-> 0]]
  /\ ever = [e \in Events |-> {}] /\ always = [e \in Events |-> {}]
  /\ edits = 0

-----------------------------------------------------------------------------
(* Who wants an event of a kind, as the administrators see it.             *)
Wanting(kind, hooks, integrations) ==
  {x \in Hooks : hooks[x].active /\ (hooks[x].events = {} \/ kind \in hooks[x].events)}
    \cup {x \in Providers : integrations[x] = "url"}

(* The end points that the goroutine of e has not listed yet.              *)
Open(e) ==
  CASE courier[e].at = "listHooks"     -> Endpoints
    [] courier[e].at \in {"postHooks", "listProviders"} -> Providers
    [] OTHER -> {}

Edit ==
  /\ edits < MaxEdits /\ edits' = edits + 1
  /\ ever' = [e \in Events |->
                IF Open(e) = {} THEN ever[e]
                ELSE ever[e] \cup (Open(e) \cap Wanting(courier[e].kind, hook', integration'))]
  /\ always' = [e \in Events |->
                  IF Open(e) = {} THEN always[e]
                  ELSE always[e] \ (Open(e) \ Wanting(courier[e].kind, hook', integration'))]
  /\ UNCHANGED <<courier, posts>>

CreateWebhook(x, events) == hook' = [hook EXCEPT ![x] = [active |-> TRUE, events |-> events, at |-> "present"]]
createWebhook(x) ==
  /\ hook[x] = Unused
  /\ \E events \in SUBSET Kinds : CreateWebhook(x, events)
  /\ UNCHANGED integration /\ Edit

(* The URL is written too, unchecked: with none the attempts reach nobody. *)
UpdateWebhook(x, events, active) ==
  hook' = [hook EXCEPT ![x].events = events, ![x].active = active]
updateWebhook(x) ==
  /\ Present(x)
  /\ \E events \in SUBSET Kinds, active \in BOOLEAN : UpdateWebhook(x, events, active)
  /\ UNCHANGED integration /\ Edit

DeleteWebhook(x) == hook' = [hook EXCEPT ![x] = Deleted]
deleteWebhook(x) ==
  /\ Present(x)
  /\ DeleteWebhook(x)
  /\ UNCHANGED integration /\ Edit

UpsertIntegration(p, state) == integration' = [integration EXCEPT ![p] = state]
connect(p) ==
  /\ \E state \in {"url", "connected", "none"} : UpsertIntegration(p, state)
  /\ UNCHANGED hook /\ Edit

DeleteIntegration(p) == integration' = [integration EXCEPT ![p] = "none"]
disconnect(p) ==
  /\ DeleteIntegration(p)
  /\ UNCHANGED hook /\ Edit

-----------------------------------------------------------------------------
dispatchTaskEvent(e) ==
  /\ courier[e] = Quiet
  /\ \E kind \in Kinds :
       /\ courier' = [courier EXCEPT ![e] = [at |-> "listHooks", kind |-> kind, rest |-> {}]]
       /\ ever' = [ever EXCEPT ![e] = Wanting(kind, hook, integration)]
       /\ always' = [always EXCEPT ![e] = Wanting(kind, hook, integration)]
  /\ UNCHANGED <<hook, integration, posts, edits>>

ListEveryWebhook == {x \in Hooks : Present(x)}
ListActiveWebhooks == {x \in Hooks : Present(x) /\ hook[x].active}

subscribed(x, kind) == hook[x].events = {} \/ kind \in hook[x].events

ListConnectedByProvider == {p \in Providers : integration[p] \in {"url", "connected"}}

(* configString of the connection's "url".                                 *)
HasUrl(p) == integration[p] = "url"

Moves(e, at, rest) == courier' = [courier EXCEPT ![e].at = at, ![e].rest = rest]

deliver(e) ==
  /\ \/ /\ courier[e].at = "listHooks"
        /\ Moves(e, "postHooks", {x \in ListActiveWebhooks : subscribed(x, courier[e].kind)})
     \/ /\ courier[e].at = "listProviders"
        /\ Moves(e, "postProviders", {p \in ListConnectedByProvider : HasUrl(p)})
  /\ UNCHANGED <<hook, integration, posts, ever, always, edits>>

(* A list that fails is passed over.                                       *)
skips(e) ==
  /\ \/ /\ courier[e].at = "listHooks"
        /\ Moves(e, "listProviders", {}) /\ always' = [always EXCEPT ![e] = @ \ Hooks]
     \/ /\ courier[e].at = "listProviders"
        /\ Moves(e, "done", {}) /\ always' = [always EXCEPT ![e] = @ \ Providers]
  /\ UNCHANGED <<hook, integration, posts, ever, edits>>

postJSON(e, x) == posts' = [posts EXCEPT ![e][x] = @ + 1]

deliverTo(e) ==
  /\ courier[e].at \in {"postHooks", "postProviders"}
  /\ \E x \in courier[e].rest :
       /\ postJSON(e, x)
       /\ Moves(e, courier[e].at, courier[e].rest \ {x})
  /\ UNCHANGED <<hook, integration, ever, always, edits>>

passes(e) ==
  /\ courier[e].at \in {"postHooks", "postProviders"} /\ courier[e].rest = {}
  /\ Moves(e, IF courier[e].at = "postHooks" THEN "listProviders" ELSE "done", {})
  /\ UNCHANGED <<hook, integration, posts, ever, always, edits>>

(* The server waits for its requests when it stops, not for these.         *)
Shutdown ==
  /\ \E e \in Events : courier[e].at \notin {"unused", "done", "lost"}
  /\ courier' = [e \in Events |-> IF courier[e].at \in {"unused", "done"} THEN courier[e] ELSE [at |-> "lost"]]
  /\ UNCHANGED <<hook, integration, posts, ever, always, edits>>

-----------------------------------------------------------------------------
Next ==
  \/ \E x \in Hooks : createWebhook(x) \/ updateWebhook(x) \/ deleteWebhook(x)
  \/ \E p \in Providers : connect(p) \/ disconnect(p)
  \/ \E e \in Events : dispatchTaskEvent(e) \/ deliver(e) \/ skips(e) \/ deliverTo(e) \/ passes(e)
  \/ Shutdown

Spec == Init /\ [][Next]_vars

-----------------------------------------------------------------------------
(* "delivers a task event to every active webhook and connected delivery   *)
(* integration" (integrations.go:444): nobody is told of an event twice,   *)
(* nor without having wanted it at some moment since it happened; and once *)
(* its goroutine is done, whoever wanted it all along was told - whatever  *)
(* is edited between the event, the two lists and the posts.               *)
DeliveredAsSubscribed ==
  \A e \in Events, x \in Endpoints :
     /\ posts[e][x] <= 1
     /\ posts[e][x] = 1 => x \in ever[e]
     /\ courier[e].at = "done" /\ x \in always[e] => posts[e][x] = 1
=============================================================================
