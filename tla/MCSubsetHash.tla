---------------------------- MODULE MCSubsetHash ----------------------------
(* Instances of SubsetHash for TLC.                                        *)
EXTENDS SubsetHash

\* Every order of up to three of the first four words, lists of four with and
\* without gaps, and a list of six.
MCLists ==
    {s \in UNION {[1..n -> 0..3] : n \in 1..3} : IsInjective(s)}
      \cup {<<2, 0, 3, 1>>, <<5, 0, 3, 1>>, <<3, 0, 5, 1, 2, 4>>}

\* The prefixes up to some length have too little entropy, the others enough.
MCFiles ==
    UNION {{[locations |-> s,
             entropies |-> [i \in DOMAIN s |-> IF i <= n THEN Needed ELSE Needed + 1],
             fixed |-> b] : n \in 0..Len(s), b \in BOOLEAN} : s \in MCLists}

\* Keys that end inside, at and after a word.
MCDatasets == {{12}, {13}, {3, 8, 9}, {4, 7, 12}}
=============================================================================
