--------------------------- MODULE MCConversation ---------------------------
(* Symmetry of the request slots, for model checking Conversation. *)
EXTENDS Conversation, TLC

RequestSymmetry == Permutations(Requests)
=============================================================================
