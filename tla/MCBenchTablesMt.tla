-------------------------- MODULE MCBenchTablesMt --------------------------
(* Instances of BenchTablesMt for TLC.                                     *)
EXTENDS BenchTablesMt

\* Two trials of one hash function, whose durations and passes add up.
TwoTrials == <<"wyhash", "wyhash">>
=============================================================================
