------------------------------ MODULE MCChatHub ------------------------------
(* Model checking ChatHub: two connections, of one user (the second may be *)
(* a reconnect) or of two, and channels of one event, so that a slow       *)
(* client misses some.                                                     *)
EXTENDS ChatHub

CONSTANTS a, b, c1, c2

MCOwners == {f \in [Conns -> Users] : f[c1] = a}
=============================================================================
