----------------------------- MODULE MCDraftSend ----------------------------
(* Constants for model-checking DraftSend.                                 *)
EXTENDS DraftSend

CONSTANTS c1, c2, short, long

=============================================================================
