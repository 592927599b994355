----------------------------- MODULE FilterBench -----------------------------
(***************************************************************************)
(* The false-positive measurement of the filter benchmarks: main draws the *)
(* data, the rest and the probes of a trial, then a filter is measured for *)
(* latency and for throughput (benchmark_filters.cpp, benchmarker.cpp,     *)
(* workload_generator.cpp, storage.cpp).                                   *)
(*                                                                         *)
(* The filter is what ApproxSet promises: a set of keys that test positive *)
(* and that includes every key added.  Rates are represented by their      *)
(* numerators; the denominator is the same in every trial.                 *)
(***************************************************************************)
EXTENDS Integers, Sequences, FiniteSets, FiniteSetsExt, Functions

CONSTANTS FullData,    \* the lines of the data file
          DataSizes,   \* for data_size: how many of them a trial inserts
          NumProbes,   \* num_probes
          Successful,  \* fract_successful * num_probes
          StepSize,    \* step_size
          NumTrials    \* num_trials

ASSUME FilterBenchAssumption ==
    /\ DataSizes \subseteq 0..Len(FullData)
    /\ NumProbes \in Nat /\ Successful \in 0..NumProbes
    /\ StepSize \in Nat \ {0} /\ NumTrials \in Nat

VARIABLES pc, trial,
          data_size,
          metrics,           \* table_metrics
          data, uninserted,  \* as sets of line numbers
          probes,
          positives,         \* the keys the filter reports
          i, j, s,           \* block, probe and result of the measured loop
          fps                \* per metric, the false positives reported so far

benchVars == <<pc, trial, data_size, metrics, data, uninserted, probes, positives, i, j, s, fps>>

KeysOf(lines) == {FullData[n] : n \in lines}

Unsuccessful == NumProbes - Successful

FilterInit ==
    /\ pc = "trial" /\ trial = 0
    /\ data_size \in DataSizes
    /\ metrics \in (SUBSET {"latency", "throughput"}) \ {{}}
    /\ data = {} /\ uninserted = {} /\ probes = <<>>
    /\ positives = {}
    /\ i = 0 /\ j = 0 /\ s = 0
    /\ fps = [latency |-> 0, throughput |-> 0]

\* get_subset shuffles and cuts.  It is given the fraction as a float, and the
\* product with the number of lines, truncated, can be one line short (of files
\* with fewer than 2^23 lines).  With all lines asked for it is not called.
get_subset ==
    LET counts == IF data_size = Len(FullData) THEN {data_size}
                  ELSE {data_size, data_size - 1} \cap Nat
    IN  {<<D, (DOMAIN FullData) \ D>> : D \in UNION {kSubset(n, DOMAIN FullData) : n \in counts}}

\* generate_probes_with_unselected_keys_as_false, in any shuffled order.
generate_probes(D, U) ==
    {p \in [1..NumProbes -> KeysOf(D) \cup KeysOf(U)] :
        \E S \in kSubset(Successful, 1..NumProbes) :
            \A n \in 1..NumProbes : p[n] \in IF n \in S THEN KeysOf(D) ELSE KeysOf(U)}

\* An index drawn for an empty vector is outside it.
DrawsFromEmpty(D, U) == (Successful > 0 /\ D = {}) \/ (Unsuccessful > 0 /\ U = {})

\* main's loop body up to the filter benchmark, which builds an empty filter.
StartTrial ==
    /\ pc = "trial"
    /\ trial < NumTrials
    /\ \E DU \in get_subset :
          /\ data' = DU[1] /\ uninserted' = DU[2]
          /\ IF DrawsFromEmpty(DU[1], DU[2])
             THEN probes' = <<>> /\ pc' = "crashed"
             ELSE /\ probes' \in generate_probes(DU[1], DU[2])
                  /\ pc' = IF "latency" \in metrics THEN "latency" ELSE "throughput"
    /\ positives' = {}
    /\ UNCHANGED <<data_size, trial, metrics, i, j, s, fps>>

\* addValue of every key, with false positives on the way.
AddData == \E P \in SUBSET Range(probes) : positives' = positives \cup KeysOf(data) \cup P

\* Mutant: the throughput experiment trusts that somebody added the data.
AddsDataNever(metric) == metric = "latency"

AddsData(metric) == metric = "latency" \/ "latency" \notin metrics

\* The measured loop of a metric.
LoopOf(metric) == IF metric = "latency" THEN "latency_loop" ELSE "throughput_loop"

\* The head of benchFilter_latency and of benchFilter_throughput: add, assert
\* that every key of the data tests positive, and enter the measured loop.
StartMetric(metric) ==
    /\ pc = metric
    /\ IF AddsData(metric) THEN AddData ELSE UNCHANGED positives
    /\ pc' = IF KeysOf(data) \subseteq positives' THEN LoopOf(metric) ELSE "failed"
    /\ i' = 0 /\ j' = 0 /\ s' = 0
    /\ UNCHANGED <<data_size, trial, metrics, data, uninserted, probes, fps>>

Blocks == Len(probes) \div StepSize

InBlock == i < Blocks /\ j < (i + 1) * StepSize

Positive(n) == probes[n + 1] \in positives

\* A probe depends on the result of the last: a positive skips the next one.
LatencyProbe ==
    /\ pc = "latency_loop" /\ InBlock
    /\ s' = IF Positive(j) /\ probes[j + 1] \notin KeysOf(data) THEN s + 1 ELSE s
    /\ j' = IF Positive(j) THEN j + 2 ELSE j + 1
    /\ UNCHANGED <<data_size, pc, trial, metrics, data, uninserted, probes, positives, i, fps>>

ThroughputProbe ==
    /\ pc = "throughput_loop" /\ InBlock
    /\ s' = IF Positive(j) THEN s + 1 ELSE s
    /\ j' = j + 1
    /\ UNCHANGED <<data_size, pc, trial, metrics, data, uninserted, probes, positives, i, fps>>

\* Mutant: the next block starts where a skip ended.
NextBlockRunsOn ==
    /\ pc \in {"latency_loop", "throughput_loop"}
    /\ i < Blocks /\ ~InBlock
    /\ i' = i + 1
    /\ j' = j
    /\ UNCHANGED <<data_size, pc, trial, metrics, data, uninserted, probes, positives, s, fps>>

NextBlock ==
    /\ pc \in {"latency_loop", "throughput_loop"}
    /\ i < Blocks /\ ~InBlock
    /\ i' = i + 1
    /\ j' = IF i + 1 < Blocks THEN (i + 1) * StepSize ELSE j
    /\ UNCHANGED <<data_size, pc, trial, metrics, data, uninserted, probes, positives, s, fps>>

\* relay_filter_statistics.  Throughput takes the planned successful probes off
\* the positives; latency has counted false positives itself.
RelayLatency ==
    /\ pc = "latency_loop" /\ i = Blocks
    /\ fps' = [fps EXCEPT !.latency = @ + s]
    /\ IF "throughput" \in metrics
       THEN pc' = "throughput" /\ trial' = trial
       ELSE pc' = "trial" /\ trial' = trial + 1
    /\ UNCHANGED <<data_size, metrics, data, uninserted, probes, positives, i, j, s>>

\* Mutant: nothing is taken off.
RelayThroughputAll ==
    /\ pc = "throughput_loop" /\ i = Blocks
    /\ fps' = [fps EXCEPT !.throughput = @ + s]
    /\ pc' = "trial" /\ trial' = trial + 1
    /\ UNCHANGED <<data_size, metrics, data, uninserted, probes, positives, i, j, s>>

RelayThroughput ==
    /\ pc = "throughput_loop" /\ i = Blocks
    /\ fps' = [fps EXCEPT !.throughput = @ + s - (Len(probes) - Unsuccessful)]
    /\ pc' = "trial" /\ trial' = trial + 1
    /\ UNCHANGED <<data_size, metrics, data, uninserted, probes, positives, i, j, s>>

\* All trials are over, or an assertion or a bad index ended the program.
Finished ==
    /\ pc \in {"failed", "crashed"} \/ (pc = "trial" /\ trial = NumTrials)
    /\ UNCHANGED benchVars

FilterNext ==
    \/ StartTrial
    \/ \E m \in {"latency", "throughput"} : StartMetric(m)
    \/ LatencyProbe \/ ThroughputProbe \/ NextBlock
    \/ RelayLatency \/ RelayThroughput
    \/ Finished

FilterSpec == FilterInit /\ [][FilterNext]_benchVars

-----------------------------------------------------------------------------
(* Properties.                                                             *)

FalsePositives(n) ==
    Cardinality({m \in 1..n : probes[m] \in positives \ KeysOf(data)})

\* "test positives return positive": the assertions hold, although throughput
\* relies on the latency experiment for its data.
AssertionsHold == pc # "failed"

\* Throughput's estimate is exact, provided no line of the file occurs twice
\* and the blocks cover all probes.
ThroughputExact ==
    [][ /\ IsInjective(FullData) /\ NumProbes % StepSize = 0
        /\ pc = "throughput_loop" /\ pc' = "trial"
        => fps'.throughput - fps.throughput = FalsePositives(Len(probes)) ]_benchVars

\* A false positive that the latency loop passes over: the probe before it, in
\* the same block, was positive too.
Skippable(n) ==
    /\ n % StepSize # 0
    /\ Positive(n - 1) /\ Positive(n) /\ probes[n + 1] \notin KeysOf(data)

\* "assign probe_to_filter_map for estimating fpr accurately"
\* (benchFilter_latency): of the false positives among the probes of its blocks
\* the latency experiment misses only ones that it skips, and adds none.
LatencyCounts ==
    pc = "latency_loop" /\ i = Blocks =>
        LET all == FalsePositives(StepSize * Blocks)
            skippable == {n \in 0..(StepSize * Blocks - 1) : Skippable(n)}
        IN  s \in (all - Cardinality(skippable))..all
=============================================================================
