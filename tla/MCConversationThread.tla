------------------------ MODULE MCConversationThread ------------------------
(* A small instance of ConversationThread; its turns are interchangeable.   *)
EXTENDS ConversationThread, TLC

Symmetry == Permutations(Turn)
=============================================================================
