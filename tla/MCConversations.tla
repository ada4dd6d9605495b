----------------------------- MODULE MCConversations -----------------------------
(* Model checking Conversations: two users, two messages, two files, two   *)
(* handlers, and to start with nothing, a direct message of the two, or a  *)
(* public channel with an admin and a member, which has all the steps of a *)
(* group, next to a conversation that is still to be made.                 *)
EXTENDS Conversations, TLC

MCInit ==
  /\ Init
  /\ \E c \in Convs : kind[c] = "none"
  /\ \A c \in Convs :
       /\ kind[c] # "group"
       /\ kind[c] = "public" => Admins(c) # Users /\ ConversationMemberIDs(c) = Users

MCSpec == MCInit /\ [][Next]_vars

MCSymmetry == Permutations(Users) \cup Permutations(Convs) \cup Permutations(Messages)
                \cup Permutations(Files) \cup Permutations(Bodies) \cup Permutations(Handlers)
=============================================================================
