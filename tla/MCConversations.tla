-------------------------- MODULE MCConversations ---------------------------
(* Constants for model-checking Conversations.                             *)
EXTENDS Conversations

CONSTANTS p1, p2

=============================================================================
