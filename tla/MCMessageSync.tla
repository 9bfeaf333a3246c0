---------------------------- MODULE MCMessageSync ---------------------------
(* Constants for model-checking MessageSync.                               *)
EXTENDS MessageSync, TLC

CONSTANTS m1, m2, m3

Meta(v, r, d) == [meta |-> v, read |-> r, done |-> d]

\* A message in the old format, one that another device marked as read, and one that
\* a newer client wrote.
AllFormats == {Meta(0, FALSE, FALSE), Meta(1, TRUE, FALSE), Meta(2, FALSE, FALSE)}

\* Without the old format.
NewFormats == {Meta(1, FALSE, FALSE), Meta(2, FALSE, FALSE)}

\* Two steps of other devices, two of the user, an error or crash and a cancel.
SmallBudget == [k \in Kinds |-> IF k \in {"remote", "user"} THEN 2 ELSE 1]

=============================================================================
