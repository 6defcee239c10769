--------------------------- MODULE MCConversation ---------------------------
(* Conversation on small instances.  Runs are interchangeable.             *)
EXTENDS Conversation, TLC

RunSymmetry == Permutations(Runs)
=============================================================================
