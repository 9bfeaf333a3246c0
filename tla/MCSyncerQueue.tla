---------------------------- MODULE MCSyncerQueue ---------------------------
(* Constants for model-checking SyncerQueue.                               *)
EXTENDS SyncerQueue

CONSTANTS a1, a2, t1, t2, t3

=============================================================================
