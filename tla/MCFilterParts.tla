--------------------------- MODULE MCFilterParts ---------------------------
(* Instances of FilterParts for TLC.                                       *)
EXTENDS FilterParts, MCSelfBlockBloom64

\* A second hash of zero, and of the number of bits, makes the positions of a
\* key coincide.
MCHashPairs == {0, 3, 14} \X {0, 1, 5, 15}
MCShapes == {<<5, 2>>, <<8, 3>>}

MCFullData == <<"a", "b", "c">>
=============================================================================
