----------------------------- MODULE TableBench -----------------------------
(***************************************************************************)
(* The latency and throughput loops of the hash table benchmarks           *)
(* (benchmark_tables.cpp).  Latency makes each lookup depend on the last   *)
(* one: a hit moves the index forward by the value found, 0, 1 or 2.       *)
(*                                                                         *)
(* The table is a function from keys to values: what any of the hash maps  *)
(* promises.  Indices are unsigned int.  The driver calls a benchmark once *)
(* in every trial, with the probes of the trial.                           *)
(***************************************************************************)
EXTENDS Integers, Sequences, FiniteSets, FiniteSetsExt, Functions

CONSTANTS Keys,
          Data,      \* the keys inserted
          NumProbes,
          StepSize,  \* step_size
          U          \* 2^32: unsigned int counts modulo U

VARIABLES pc,      \* "idle" between calls
          metrics, \* table_metrics
          p,
          map,     \* keys of the data to their values
          r, i, j, \* round, index or block, probe
          s,       \* the sum of the values found
          blocks   \* history: <<round, block>> in which a lookup was timed

vars == <<pc, metrics, p, map, r, i, j, s, blocks>>

Init ==
    /\ pc = "idle"
    /\ metrics \in (SUBSET {"latency", "throughput"}) \ {{}}
    /\ p = <<>>
    /\ map = [k \in {} |-> 0]
    /\ r = 0 /\ i = 0 /\ j = 0 /\ s = 0
    /\ blocks = {}

\* A benchmark is called, with an empty table.
Call ==
    /\ pc = "idle"
    /\ pc' = "start"
    /\ p' \in [1..NumProbes -> Keys]
    /\ UNCHANGED <<metrics, map, r, i, j, s, blocks>>

Found(n) == p[n + 1] \in DOMAIN map

Value(n) == IF Found(n) THEN map[p[n + 1]] ELSE 0

\* bench_hashtable: latency first, then throughput on the same table.
StartLatency ==
    /\ pc = "start" /\ "latency" \in metrics
    /\ map' \in [Data -> 0..2]
    /\ pc' = "warm"
    /\ UNCHANGED <<metrics, p, r, i, j, s, blocks>>

\* Mutant: the lookup is not followed by a step of its own.
WarmProbeStays ==
    /\ pc = "warm" /\ r < 2 /\ i < Len(p)
    /\ s' = s + Value(i)
    /\ i' = (i + Value(i)) % U
    /\ UNCHANGED <<pc, metrics, p, map, r, j, blocks>>

WarmProbe ==
    /\ pc = "warm" /\ r < 2 /\ i < Len(p)
    /\ s' = s + Value(i)
    /\ i' = (i + Value(i) + 1) % U
    /\ UNCHANGED <<pc, metrics, p, map, r, j, blocks>>

\* The index runs on into the second round.
WarmRound ==
    /\ pc = "warm" /\ r < 2 /\ i >= Len(p)
    /\ i' = (i - Len(p)) % U
    /\ r' = r + 1
    /\ UNCHANGED <<pc, metrics, p, map, j, s, blocks>>

\* benchmark() starts the measured loops with fresh indices.
StartMeasured ==
    /\ pc = "warm" /\ r = 2
    /\ pc' = "latency"
    /\ r' = 0 /\ i' = 0 /\ j' = 0 /\ blocks' = {}
    /\ UNCHANGED <<metrics, p, map, s>>

Blocks == Len(p) \div StepSize

\* One timed lookup; latency skips ahead by the value, inside its block.
LatencyProbe ==
    /\ pc = "latency" /\ r < 2 /\ i < Blocks /\ j < (i + 1) * StepSize
    /\ s' = s + Value(j)
    /\ j' = (j + Value(j) + 1) % U
    /\ blocks' = blocks \cup {<<r, i>>}
    /\ UNCHANGED <<pc, metrics, p, map, r, i>>

\* Mutant: the next block starts where the skips ended.
LatencyBlockRunsOn ==
    /\ pc = "latency" /\ r < 2 /\ i < Blocks /\ j >= (i + 1) * StepSize
    /\ i' = i + 1
    /\ j' = j
    /\ UNCHANGED <<pc, metrics, p, map, r, s, blocks>>

LatencyBlock ==
    /\ pc = "latency" /\ r < 2 /\ i < Blocks /\ j >= (i + 1) * StepSize
    /\ i' = i + 1
    /\ j' = (i + 1) * StepSize
    /\ UNCHANGED <<pc, metrics, p, map, r, s, blocks>>

LatencyRound ==
    /\ pc = "latency" /\ r < 2 /\ i = Blocks
    /\ i' = i - Blocks
    /\ r' = r + 1
    /\ j' = 0
    /\ UNCHANGED <<pc, metrics, p, map, s, blocks>>

LatencyReturn ==
    /\ pc = "latency" /\ r = 2
    /\ pc' = IF "throughput" \in metrics THEN "throughput_start" ELSE "done"
    /\ UNCHANGED <<metrics, p, map, r, i, j, s, blocks>>

\* Throughput fills the table again, with the line numbers, and warms up by one
\* lookup of every probe.
StartThroughput ==
    /\ \/ pc = "start" /\ "latency" \notin metrics
       \/ pc = "throughput_start"
    /\ \E f \in Injection(Data, 0..(Cardinality(Data) - 1)) : map' = f
    /\ s' = FoldFunctionOnSet(LAMBDA k, t : t + (IF k \in Data THEN map'[k] ELSE 0), 0, p, DOMAIN p)
    /\ i' = 0 /\ j' = 0 /\ blocks' = {}
    /\ pc' = "throughput"
    /\ UNCHANGED <<metrics, p, r>>

ThroughputProbe ==
    /\ pc = "throughput" /\ i < Blocks /\ j < (i + 1) * StepSize
    /\ s' = s + Value(j)
    /\ j' = j + 1
    /\ UNCHANGED <<pc, metrics, p, map, r, i, blocks>>

ThroughputBlock ==
    /\ pc = "throughput" /\ i < Blocks /\ j >= (i + 1) * StepSize
    /\ i' = i + 1
    /\ j' = (i + 1) * StepSize
    /\ UNCHANGED <<pc, metrics, p, map, r, s, blocks>>

ThroughputReturn ==
    /\ pc = "throughput" /\ i = Blocks
    /\ pc' = "done"
    /\ UNCHANGED <<metrics, p, map, r, i, j, s, blocks>>

\* The table and the loops' variables are gone.
Return ==
    /\ pc = "done"
    /\ pc' = "idle"
    /\ p' = <<>> /\ map' = [k \in {} |-> 0]
    /\ r' = 0 /\ i' = 0 /\ j' = 0 /\ s' = 0 /\ blocks' = {}
    /\ UNCHANGED metrics

Loop ==
    \/ WarmProbe \/ WarmRound \/ StartMeasured
    \/ LatencyProbe \/ LatencyBlock \/ LatencyRound
    \/ ThroughputProbe \/ ThroughputBlock

Next ==
    \/ Call \/ StartLatency \/ LatencyReturn \/ StartThroughput \/ ThroughputReturn
    \/ Loop
    \/ Return

Spec == Init /\ [][Next]_vars

-----------------------------------------------------------------------------
(* Properties.                                                             *)

\* The warm-up's index, carried from one round into the next, never wraps: it
\* passes the end by at most the largest value.
IndexStaysSmall == pc = "warm" => i <= Len(p) + 2

\* However hits skip ahead, every block of both rounds has a timed lookup, and a
\* block never takes probes from the next.
EveryBlockTimed ==
    pc = "latency" =>
        /\ \A q \in 0..1, b \in 0..(Blocks - 1) :
              q < r \/ (q = r /\ b < i) => <<q, b>> \in blocks
        /\ r < 2 /\ i < Blocks => j >= i * StepSize
=============================================================================
