--------------------------- MODULE MCConversation ---------------------------
(***************************************************************************)
(* Conversation with a size of its own for each kind of frame.             *)
(***************************************************************************)
EXTENDS Conversation

KindsBySize == [n \in Sizes |-> CASE n = 7 -> "SMS" [] n = 8 -> "ALARM" [] n = 9 -> "LOGIN"]

=============================================================================
