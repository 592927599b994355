---------------------------- MODULE MCHashTables ----------------------------
(* Instances of HashTables for TLC.                                        *)
EXTENDS HashTables

\* Three keys that start in the same group, two of them with the same control
\* byte, and one that starts in another.
MCH1 == [sd \in Seeds |-> [k \in SwissKeys |-> IF k = "d" THEN 3 + sd ELSE 6 + sd]]

MCH2 == [k \in SwissKeys |-> IF k \in {"a", "b"} THEN 1 ELSE 2]

\* Hash functions; 3 and 7 are stored as the same part, and start in the same
\* bucket unless there are 8.
MCHashes == {h \in [Keys -> {0, 2, 3, 7}] :
    h["a"] <= h["b"] /\ h["b"] <= h["c"] /\ h["c"] <= h["d"] /\ h["d"] <= h["e"]
    /\ h["c"] = 3}

MCDenseHashes == {h \in [DenseKeys -> {0, 3, 7}] :
    h["a"] = 0 /\ h["b"] <= h["c"] /\ h["d"] = 7}

MCLoads == <<50, 75>>

MCGrows == <<50, 75>>
=============================================================================
