------------------------ MODULE MCSelfBlockBloom512 -------------------------
(* Instances of SelfBlockBloom512 for TLC.                                 *)
EXTENDS SelfBlockBloom512

\* Hashes whose halves are zero, odd, and next to a wrap.
MCKeys == {a + U32 * b : a \in {0, 15, 31}, b \in {0, 13, 31}}
=============================================================================
