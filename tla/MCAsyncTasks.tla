---------------------------- MODULE MCAsyncTasks ----------------------------
(* Constants for model-checking AsyncTasks.                                *)
EXTENDS AsyncTasks

CONSTANTS p1, p2, t1

=============================================================================
