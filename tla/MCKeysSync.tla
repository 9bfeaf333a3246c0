----------------------------- MODULE MCKeysSync -----------------------------
(* Constants for model-checking KeysSync.                                  *)
EXTENDS KeysSync, TLC

CONSTANTS e1, e2, s1, s2, n1, u1, p1

\* e1, s1 and n1, which has no private key, are there from the start; e2 and s2 may
\* be added.  While both are valid, s2 is the newer of s1 and s2; at time 2 only s2 is.
From  == [k \in Pairs |-> IF k = s2 THEN 1 ELSE 0]
Until == [k \in Pairs |-> IF k = s1 THEN 1 ELSE 2]
OneSender == [m \in Msgs |-> p1]
FormOf == [m \in Msgs |-> m]

=============================================================================
