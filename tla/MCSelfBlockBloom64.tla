------------------------- MODULE MCSelfBlockBloom64 -------------------------
(* Instances of SelfBlockBloom64 for TLC.                                  *)
EXTENDS SelfBlockBloom64

\* First halves in different words; second halves whose two groups of three
\* bits are below, at and above the sign bit of the int.
MCKeys == {a + U32 * b : a \in {0, 63}, b \in {0, 3, 4, 36, 63}}
=============================================================================
