----------------------------- MODULE BenchDriver -----------------------------
(***************************************************************************)
(* The driver's trials and the accounting of times (benchmarker.cpp,       *)
(* include/benchmarks.hh), composed with the loops of the hash table       *)
(* benchmarks.  Benchmarks leave the time they measured in global          *)
(* variables; benchmark() picks one of the globals by the class of metric  *)
(* and adds it to the timings, which are averaged at the end.              *)
(*                                                                         *)
(* A time is the experiment and trial whose measured loop produced it, so  *)
(* that a stale time is told apart from a fresh one.  The experiments of   *)
(* partitioning, filters and plain hashing take one step here; those of    *)
(* filters have a module of their own.                                     *)
(***************************************************************************)
EXTENDS Integers, Sequences, FiniteSets

CONSTANTS NumTrials, Keys, Data, NumProbes, StepSize, U

ASSUME BenchDriverAssumption ==
    /\ NumTrials \in Nat
    /\ Data \subseteq Keys /\ IsFiniteSet(Data)
    /\ NumProbes \in Nat /\ StepSize \in Nat \ {0}
    /\ U \in Nat /\ U > NumProbes + 2

\* In the order of main's loop body.
Classes == <<"partition", "filter", "hash_func", "table">>

Globals == {"plain", "filter", "partition"}

\* What benchmark() is called for.
Experiments == {"partition", "filter", "hash_func", "latency", "throughput"}

VARIABLES pc,         \* "trials" or "printed"
          requested,  \* the classes of benchmarks asked for
          trial,
          step,       \* of Classes, the one that is next
          total,      \* the total_time_without_dummy_hashing globals
          timings,    \* per experiment, the times added so far
          build       \* timings["hash_table_build"]: the times it is the sum of

VARIABLES tpc, metrics, p, map, r, i, j, s, blocks

T == INSTANCE TableBench WITH pc <- tpc

tvars == <<tpc, metrics, p, map, r, i, j, s, blocks>>
accounts == <<total, timings, build>>
vars == <<pc, requested, trial, step, accounts, tvars>>

ClassSet == {Classes[n] : n \in DOMAIN Classes}

Never == <<"never", 0>>

Init ==
    /\ pc = "trials"
    /\ requested \in SUBSET ClassSet
    /\ trial = 1
    /\ step = 1
    /\ total = [g \in Globals |-> Never]
    /\ timings = [e \in Experiments |-> <<>>]
    /\ build = <<>>
    /\ T!Init

\* Mutant: the table loops leave the global to the dummy hashing of filters.
SetsGlobalWrong(e) ==
    CASE e \in {"filter", "latency", "throughput"} -> {"filter"}
      [] e = "partition" -> {"partition"}
      [] OTHER -> {}

\* The global that an experiment's measured loop resets and sums into.
SetsGlobal(e) ==
    CASE e = "filter" -> {"filter"}
      [] e \in {"latency", "throughput"} -> {"plain"}
      [] e = "partition" -> {"partition"}
      [] OTHER -> {}

\* The global that benchmark() adds to the timings.
AddsGlobal(e) == IF e \in {"filter", "hash_func"} THEN "filter" ELSE "plain"

\* benchmark(), when its measured function has returned.
Benchmark(e) ==
    /\ total' = [g \in Globals |-> IF g \in SetsGlobal(e) THEN <<e, trial>> ELSE total[g]]
    /\ timings' = [timings EXCEPT ![e] = Append(@, total'[AddsGlobal(e)])]

InTrial(c) == pc = "trials" /\ trial <= NumTrials /\ step <= Len(Classes) /\ c = Classes[step]

\* A class of benchmarks that was not asked for.
Skip(c) ==
    /\ InTrial(c) /\ c \notin requested
    /\ step' = step + 1
    /\ UNCHANGED <<pc, requested, trial, accounts, tvars>>

\* One class of benchmarks other than the tables'.
Run(c) ==
    /\ InTrial(c) /\ c \in requested /\ c # "table"
    /\ Benchmark(c)
    /\ step' = step + 1
    /\ UNCHANGED <<pc, requested, trial, build, tvars>>

CallTable ==
    /\ InTrial("table") /\ "table" \in requested
    /\ T!Call
    /\ UNCHANGED <<pc, requested, trial, step, accounts>>

TableLoop == T!Loop /\ UNCHANGED <<pc, requested, trial, step, accounts>>

\* The latency experiment assigns the time to build the table; the throughput
\* experiment adds it.  Nothing reads the sum: the call that would print it is
\* commented out.
BuildForLatency ==
    /\ T!StartLatency
    /\ build' = << <<"latency", trial>> >>
    /\ UNCHANGED <<pc, requested, trial, step, total, timings>>

BuildForThroughput ==
    /\ T!StartThroughput
    /\ build' = Append(build, <<"throughput", trial>>)
    /\ UNCHANGED <<pc, requested, trial, step, total, timings>>

LatencyMeasured ==
    /\ T!LatencyReturn
    /\ Benchmark("latency")
    /\ UNCHANGED <<pc, requested, trial, step, build>>

ThroughputMeasured ==
    /\ T!ThroughputReturn
    /\ Benchmark("throughput")
    /\ UNCHANGED <<pc, requested, trial, step, build>>

TableReturns ==
    /\ T!Return
    /\ step' = step + 1
    /\ UNCHANGED <<pc, requested, trial, accounts>>

NextTrial ==
    /\ pc = "trials" /\ trial <= NumTrials /\ step > Len(Classes)
    /\ trial' = trial + 1
    /\ step' = 1
    /\ UNCHANGED <<pc, requested, accounts, tvars>>

\* print_benchmark_results divides the sums of the experiments by num_trials.
PrintResults ==
    /\ pc = "trials" /\ trial > NumTrials
    /\ pc' = "printed"
    /\ UNCHANGED <<requested, trial, step, accounts, tvars>>

Finished == pc = "printed" /\ UNCHANGED vars

Next ==
    \/ \E c \in ClassSet : Skip(c) \/ Run(c)
    \/ CallTable \/ TableLoop \/ BuildForLatency \/ BuildForThroughput
    \/ LatencyMeasured \/ ThroughputMeasured \/ TableReturns
    \/ NextTrial \/ PrintResults
    \/ Finished

Spec == Init /\ [][Next]_vars

\* One thread, which keeps running.
FairSpec == Spec /\ WF_vars(Next)

-----------------------------------------------------------------------------
(* Properties.                                                             *)

Own(e) == \A n \in DOMAIN timings[e] : timings[e][n] = <<e, n>>

\* The table experiment that is measured last.
LastOfTable == IF "throughput" \in metrics THEN "throughput" ELSE "latency"

\* The times of filters and tables are their own, one fresh time per trial.
\* Partitioning and plain hashing are charged times that others measured: plain
\* hashing that of the filters in the same trial, partitioning that of the
\* tables in the trial before.  The line of benchmark() that would charge
\* partitioning its own time is commented out.
ChargedTimes ==
    /\ Own("filter") /\ Own("latency") /\ Own("throughput")
    /\ \A n \in DOMAIN timings["hash_func"] :
           timings["hash_func"][n] = IF "filter" \in requested THEN <<"filter", n>> ELSE Never
    /\ \A n \in DOMAIN timings["partition"] :
           timings["partition"][n] =
               IF "table" \in requested /\ n > 1 THEN <<LastOfTable, n - 1>> ELSE Never

\* However hits skip ahead, the index carried from one warm-up round into the
\* next does not wrap, every block of both measured rounds has a timed lookup,
\* and no block takes probes from the next.
SkipsStayInBlocks == T!IndexStaysSmall /\ T!EveryBlockTimed

\* All trials end: skipping ahead never keeps a loop going.
Termination == <>(pc = "printed")
=============================================================================
