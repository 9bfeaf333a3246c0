---------------------------- MODULE MCProfileSync ---------------------------
(* Constants for model-checking ProfileSync.                               *)
EXTENDS ProfileSync

CONSTANTS k1, k2, v1, v2

=============================================================================
