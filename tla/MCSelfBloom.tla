---------------------------- MODULE MCSelfBloom ----------------------------
(* Instances of SelfBloom for TLC.                                         *)
EXTENDS SelfBloom

\* Hashes whose halves are zero, small, next to a wrap and next to a byte edge.
MCKeys == {a + U32 * b : a \in {0, 15, 31}, b \in {0, 1, 13, 31}}
=============================================================================
