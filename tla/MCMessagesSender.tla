-------------------------- MODULE MCMessagesSender --------------------------
(* Constants for model-checking MessagesSender.                            *)
EXTENDS MessagesSender, TLC

\* Two messages for two, one for one: the second may be removed, the third cannot be
\* encoded.  The first message for 1 is shielded, and for 3 it is not.
Mixed == (1 :> {1, 3}) @@ (2 :> {2, 3}) @@ (3 :> {2})

\* Two messages, each for both recipients.
Both == (1 :> {1, 2}) @@ (2 :> {1, 2})

=============================================================================
