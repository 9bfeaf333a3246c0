-------------------------- MODULE MCAttachmentSync --------------------------
(* Constants for model-checking AttachmentSync.                            *)
EXTENDS AttachmentSync

MCMessages == 1 .. 2

\* Every block there is for the first message; behind it one with an attachment
\* of no bytes before its others, and one that breaks in the middle.
MCOffered ==
    <<Blocks, {[defect |-> "none", at |-> 0, blank |-> {1}],
               [defect |-> "stream", at |-> Last, blank |-> {}]}>>

=============================================================================
