-------------------------- MODULE BenchDriverProofs --------------------------
(***************************************************************************)
(* Proofs about the driver's accounting of times and about the latency     *)
(* loops of the hash table benchmarks, for any number of trials, probes    *)
(* and keys and any step size.                                             *)
(***************************************************************************)
EXTENDS BenchDriver, SequenceTheorems, TLAPS

\* table_metrics, and the blocks of a measured loop.
Metrics == (SUBSET {"latency", "throughput"}) \ {{}}

NumBlocks == NumProbes \div StepSize

\* What the loops of the tables preserve.  The warm-up's index passes the end by
\* at most the largest value; a measured block is left only after a lookup in it.
TableInv ==
    /\ tpc \in {"idle", "start", "warm", "latency", "throughput_start", "throughput", "done"}
    /\ metrics \in Metrics
    /\ tpc # "idle" => p \in [1..NumProbes -> Keys]
    /\ tpc \in {"idle", "start"} => r = 0 /\ i = 0
    /\ tpc \in {"warm", "latency"} => map \in [Data -> 0..2] /\ r \in 0..2
    /\ tpc = "warm" => i \in 0..(NumProbes + 2)
    /\ tpc = "latency" =>
           /\ i \in 0..NumBlocks
           /\ r = 2 => i = 0
           /\ j \in Nat
           /\ i < NumBlocks => j >= i * StepSize
           /\ r < 2 /\ i < NumBlocks /\ j > i * StepSize => <<r, i>> \in blocks
           /\ \A q \in 0..1, b \in 0..(NumBlocks - 1) :
                 q < r \/ (q = r /\ b < i) => <<q, b>> \in blocks

\* The blocks of a loop end within the probes.
LEMMA BlockEnds ==
    /\ NumBlocks \in Nat
    /\ \A b \in 0..(NumBlocks - 1) : (b + 1) * StepSize \in Nat /\ (b + 1) * StepSize <= NumProbes
<1>1. StepSize \in Nat \ {0} /\ NumProbes \in Nat
  BY BenchDriverAssumption
<1>2. /\ NumBlocks \in Nat /\ NumProbes % StepSize \in Nat
      /\ NumProbes = StepSize * NumBlocks + (NumProbes % StepSize)
  BY <1>1 DEF NumBlocks
<1>3. \A b \in 0..(NumBlocks - 1) :
          (b + 1) * StepSize \in Nat /\ (b + 1) * StepSize <= StepSize * NumBlocks
  BY <1>1, <1>2
<1>4. StepSize * NumBlocks \in Nat
  BY <1>1, <1>2
<1>5. QED
  BY <1>1, <1>2, <1>3, <1>4

\* A call has NumProbes probes, in as many blocks as they fill.
LEMMA ProbeCount ==
    ASSUME p \in [1..NumProbes -> Keys]
    PROVE  Len(p) = NumProbes /\ T!Blocks = NumBlocks
<1>1. Len(p) = NumProbes
  BY BenchDriverAssumption
<1>2. QED
  BY <1>1 DEF T!Blocks, NumBlocks

\* A lookup of the latency loops finds 0, 1 or 2.
LEMMA ValueRange ==
    ASSUME map \in [Data -> 0..2], NEW n
    PROVE  T!Value(n) \in 0..2
  BY DEF T!Value, T!Found

\* Small numbers are their own remainders.
LEMMA NoWrap ==
    ASSUME NEW n \in 0..(NumProbes + 2)
    PROVE  n % U = n
  BY BenchDriverAssumption

\* Every step of a loop keeps the loops' invariant.
LEMMA LoopKeeps ==
    ASSUME TableInv, T!Loop
    PROVE  TableInv'
<1> USE BenchDriverAssumption DEF Metrics
<1>1. CASE T!WarmProbe
  <2>1. /\ Len(p) = NumProbes /\ i \in 0..(NumProbes - 1) /\ tpc = "warm"
        /\ T!Value(i) \in 0..2
    BY <1>1, ProbeCount, ValueRange DEF T!WarmProbe, TableInv
  <2>2. i' = i + T!Value(i) + 1
    BY <1>1, <2>1, NoWrap DEF T!WarmProbe
  <2>3. QED
    BY <1>1, <2>1, <2>2 DEF T!WarmProbe, TableInv
<1>2. CASE T!WarmRound
  <2>1. Len(p) = NumProbes /\ i - NumProbes \in 0..2 /\ tpc = "warm" /\ r' \in 0..2
    BY <1>2, ProbeCount DEF T!WarmRound, TableInv
  <2>2. i' \in 0..(NumProbes + 2)
    <3>1. i - NumProbes \in 0..(NumProbes + 2)
      BY <2>1
    <3>2. QED
      BY <1>2, <2>1, <3>1, NoWrap DEF T!WarmRound
  <2>3. QED
    BY <1>2, <2>1, <2>2 DEF T!WarmRound, TableInv
<1>3. CASE T!StartMeasured
  BY <1>3, BlockEnds DEF T!StartMeasured, TableInv
<1>4. CASE T!LatencyProbe
  <2>1. /\ tpc = "latency" /\ r < 2 /\ i \in 0..(NumBlocks - 1) /\ j \in Nat
        /\ j < (i + 1) * StepSize /\ j >= i * StepSize /\ T!Value(j) \in 0..2
    BY <1>4, BlockEnds, ProbeCount, ValueRange DEF T!LatencyProbe, TableInv
  <2>2. j + T!Value(j) + 1 \in 0..(NumProbes + 2)
    BY <2>1, BlockEnds
  <2>3. j' = j + T!Value(j) + 1
    BY <1>4, <2>2, NoWrap DEF T!LatencyProbe
  <2>4. i * StepSize \in Nat
    BY <2>1, BlockEnds
  <2>5. j' \in Nat /\ j' >= i * StepSize
    BY <2>1, <2>3, <2>4
  <2>6. blocks' = blocks \cup {<<r, i>>} /\ UNCHANGED <<tpc, metrics, p, map, r, i>>
    BY <1>4 DEF T!LatencyProbe
  <2>7. QED
    BY <2>1, <2>5, <2>6 DEF TableInv
<1>5. CASE T!LatencyBlock
  <2>1. /\ tpc = "latency" /\ r < 2 /\ i \in 0..(NumBlocks - 1) /\ j \in Nat
        /\ j >= (i + 1) * StepSize
    BY <1>5, BlockEnds, ProbeCount DEF T!LatencyBlock, TableInv
  <2>2. (i + 1) * StepSize > i * StepSize /\ (i + 1) * StepSize \in Nat /\ i * StepSize \in Nat
    BY <2>1, BlockEnds
  <2>3. <<r, i>> \in blocks
    BY <2>1, <2>2, BlockEnds DEF TableInv
  <2>4. i' = i + 1 /\ j' = (i + 1) * StepSize /\ UNCHANGED <<tpc, metrics, p, map, r, blocks>>
    BY <1>5 DEF T!LatencyBlock
  <2>5. i' \in 0..NumBlocks /\ j' \in Nat /\ j' = i' * StepSize
    BY <2>1, <2>2, <2>4, BlockEnds
  <2>6. \A q \in 0..1, b \in 0..(NumBlocks - 1) :
            q < r \/ (q = r /\ b < i + 1) => <<q, b>> \in blocks
    BY <2>1, <2>3, BlockEnds DEF TableInv
  <2>7. QED
    BY <2>1, <2>4, <2>5, <2>6 DEF TableInv
<1>6. CASE T!LatencyRound
  <2>1. tpc = "latency" /\ r \in 0..1 /\ i = NumBlocks /\ i \in Nat
    BY <1>6, BlockEnds, ProbeCount DEF T!LatencyRound, TableInv
  <2>2. i' = 0 /\ r' = r + 1 /\ j' = 0 /\ UNCHANGED <<tpc, metrics, p, map, blocks>>
    BY <1>6, <2>1, ProbeCount DEF T!LatencyRound, TableInv
  <2>3. \A q \in 0..1, b \in 0..(NumBlocks - 1) : q < r + 1 => <<q, b>> \in blocks
    BY <2>1, BlockEnds DEF TableInv
  <2>4. QED
    BY <2>1, <2>2, <2>3, BlockEnds DEF TableInv
<1>7. CASE T!ThroughputProbe \/ T!ThroughputBlock
  BY <1>7 DEF T!ThroughputProbe, T!ThroughputBlock, TableInv
<1>8. QED
  BY <1>1, <1>2, <1>3, <1>4, <1>5, <1>6, <1>7 DEF T!Loop

\* Every other step of a table benchmark does, too.
LEMMA CallsKeep ==
    ASSUME TableInv,
           \/ T!Call \/ T!StartLatency \/ T!StartThroughput \/ T!LatencyReturn
           \/ T!ThroughputReturn \/ T!Return
    PROVE  TableInv'
<1>1. CASE T!Call
  BY <1>1 DEF T!Call, TableInv
<1>2. CASE T!StartLatency
  BY <1>2, BenchDriverAssumption DEF T!StartLatency, TableInv
<1>3. CASE T!StartThroughput
  BY <1>3 DEF T!StartThroughput, TableInv
<1>4. CASE T!LatencyReturn \/ T!ThroughputReturn
  BY <1>4 DEF T!LatencyReturn, T!ThroughputReturn, TableInv
<1>5. CASE T!Return
  BY <1>5 DEF T!Return, TableInv
<1>6. QED
  BY <1>1, <1>2, <1>3, <1>4, <1>5

\* So every step of the driver keeps it.
LEMMA TableNext == TableInv /\ [Next]_vars => TableInv'
<1> SUFFICES ASSUME TableInv, [Next]_vars PROVE TableInv'
  OBVIOUS
<1>1. CASE UNCHANGED tvars
  BY <1>1 DEF tvars, TableInv
<1>2. CASE ~UNCHANGED tvars
  <2>1. \/ T!Loop
        \/ T!Call \/ T!StartLatency \/ T!StartThroughput \/ T!LatencyReturn
        \/ T!ThroughputReturn \/ T!Return
    BY <1>2 DEF Next, vars, Skip, Run, CallTable, TableLoop, BuildForLatency,
                BuildForThroughput, LatencyMeasured, ThroughputMeasured, TableReturns,
                NextTrial, PrintResults, Finished
  <2>2. QED
    BY <2>1, LoopKeeps, CallsKeep
<1>3. QED
  BY <1>1, <1>2

\* The loops' invariant holds in every reachable state.
THEOREM TableInvHolds == Spec => []TableInv
<1>1. Init => TableInv
  BY DEF Init, T!Init, TableInv, Metrics
<1>2. QED
  BY <1>1, TableNext, PTL DEF Spec

\* However hits skip ahead, no index of the warm-up wraps and every block of the
\* measured rounds has a timed lookup of its own, for any number of probes and
\* any step size.
THEOREM SkipsStayInBlocksHolds == Spec => []SkipsStayInBlocks
<1>1. TableInv => SkipsStayInBlocks
  <2> SUFFICES ASSUME TableInv PROVE SkipsStayInBlocks
    OBVIOUS
  <2>1. T!IndexStaysSmall
    BY ProbeCount, BenchDriverAssumption DEF TableInv, T!IndexStaysSmall
  <2>2. T!EveryBlockTimed
    BY ProbeCount DEF TableInv, T!EveryBlockTimed
  <2>3. QED
    BY <2>1, <2>2 DEF SkipsStayInBlocks
<1>2. QED
  BY <1>1, TableInvHolds, PTL

-----------------------------------------------------------------------------
(* The accounting of times.                                                *)

\* Whether an experiment is asked for, and whether the current trial has had it.
On(e) ==
    \/ e \in {"latency", "throughput"} /\ "table" \in requested /\ e \in metrics
    \/ e \in {"partition", "filter", "hash_func"} /\ e \in requested

Done(e) ==
    \/ step > 4
    \/ e = "partition" /\ step > 1
    \/ e = "filter" /\ step > 2
    \/ e = "hash_func" /\ step > 3
    \/ e = "latency" /\ tpc \in {"throughput_start", "throughput", "done"}
    \/ e = "throughput" /\ tpc = "done"

\* A time is told by the experiment and the trial that measured it.
Times == (Experiments \cup {"never"}) \X Nat

\* Where the driver can be, and which table loops can be under way there.
ControlInv ==
    /\ pc \in {"trials", "printed"}
    /\ requested \in SUBSET ClassSet
    /\ trial \in 1..(NumTrials + 1)
    /\ step \in 1..5
    /\ trial > NumTrials => step = 1
    /\ pc = "printed" => trial > NumTrials
    /\ tpc # "idle" => /\ pc = "trials" /\ trial <= NumTrials /\ step = 4
                       /\ "table" \in requested
    /\ tpc \in {"warm", "latency", "throughput_start"} => "latency" \in metrics
    /\ tpc \in {"throughput_start", "throughput"} => "throughput" \in metrics

\* What benchmark() preserves.  An experiment has one time per trial it has
\* been in, and each global is as old as the last loop that sums into it.
TimesInv ==
    /\ total \in [Globals -> Times]
    /\ timings \in [Experiments -> Seq(Times)]
    /\ \A e \in Experiments :
           Len(timings[e]) = IF On(e) THEN (IF Done(e) THEN trial ELSE trial - 1) ELSE 0
    /\ "filter" \notin requested => total["filter"] = Never
    /\ "filter" \in requested /\ step > 2 => total["filter"] = <<"filter", trial>>
    /\ "table" \notin requested => total["plain"] = Never
    /\ "table" \in requested /\ (step > 4 \/ tpc = "done") =>
           total["plain"] = <<LastOfTable, trial>>
    /\ "table" \in requested /\ step = 1 =>
           total["plain"] = IF trial > 1 THEN <<LastOfTable, trial - 1>> ELSE Never
    /\ ChargedTimes

\* The time benchmark() should have added for an experiment in trial n.
Charged(e, n) ==
    CASE e = "hash_func" -> IF "filter" \in requested THEN <<"filter", n>> ELSE Never
      [] e = "partition" ->
             IF "table" \in requested /\ n > 1 THEN <<LastOfTable, n - 1>> ELSE Never
      [] OTHER -> <<e, n>>

\* ChargedTimes, experiment by experiment.
LEMMA ChargedTimesIs ==
    ChargedTimes <=> \A e \in Experiments : \A n \in DOMAIN timings[e] : timings[e][n] = Charged(e, n)
  BY DEF ChargedTimes, Own, Charged, Experiments

\* The classes, by their place in the loop body of main.
LEMMA ClassPlaces ==
    /\ Len(Classes) = 4
    /\ ClassSet = {"partition", "filter", "hash_func", "table"}
    /\ Classes[1] = "partition" /\ Classes[2] = "filter"
    /\ Classes[3] = "hash_func" /\ Classes[4] = "table"
<1>1. DOMAIN Classes = {1, 2, 3, 4} /\ Len(Classes) = 4
  BY DEF Classes
<1>2. /\ Classes[1] = "partition" /\ Classes[2] = "filter"
      /\ Classes[3] = "hash_func" /\ Classes[4] = "table"
  BY DEF Classes
<1>3. QED
  BY <1>1, <1>2 DEF ClassSet

\* A class is reached at its own place, in a trial that is under way.
LEMMA InTrialPlace ==
    ASSUME ControlInv, NEW c, InTrial(c)
    PROVE  /\ pc = "trials" /\ trial <= NumTrials /\ step \in 1..4
           /\ c = "partition" => step = 1
           /\ c = "filter" => step = 2
           /\ c = "hash_func" => step = 3
           /\ c = "table" <=> step = 4
  BY ClassPlaces DEF InTrial, ControlInv

\* A step of the driver and what it does to its control state.
LEMMA ControlNext == ControlInv /\ TableInv /\ [Next]_vars => ControlInv'
<1> SUFFICES ASSUME ControlInv, TableInv, [Next]_vars PROVE ControlInv'
  OBVIOUS
<1>0. NumTrials \in Nat
  BY BenchDriverAssumption
<1>1. ASSUME NEW c \in ClassSet, Skip(c) \/ Run(c) PROVE ControlInv'
  <2>1. step \in 1..4 /\ pc = "trials" /\ trial <= NumTrials /\ tpc = "idle"
    BY <1>1, InTrialPlace DEF Skip, Run, ControlInv, InTrial
  <2>2. UNCHANGED <<pc, requested, trial, tpc, metrics>> /\ step' = step + 1
    BY <1>1 DEF Skip, Run, tvars
  <2>3. QED
    BY <2>1, <2>2, <1>0 DEF ControlInv
<1>2. CASE CallTable
  <2>1. step = 4 /\ pc = "trials" /\ trial <= NumTrials /\ "table" \in requested
    BY <1>2, InTrialPlace DEF CallTable
  <2>2. UNCHANGED <<pc, requested, trial, step, metrics>> /\ tpc' = "start"
    BY <1>2 DEF CallTable, T!Call
  <2>3. QED
    BY <2>1, <2>2 DEF ControlInv
<1>3. CASE TableLoop
  <2>1. UNCHANGED <<pc, requested, trial, step, metrics>>
    BY <1>3 DEF TableLoop, T!Loop, T!WarmProbe, T!WarmRound, T!StartMeasured, T!LatencyProbe,
                T!LatencyBlock, T!LatencyRound, T!ThroughputProbe, T!ThroughputBlock
  <2>2. tpc' = tpc \/ (tpc = "warm" /\ tpc' = "latency")
    BY <1>3 DEF TableLoop, T!Loop, T!WarmProbe, T!WarmRound, T!StartMeasured, T!LatencyProbe,
                T!LatencyBlock, T!LatencyRound, T!ThroughputProbe, T!ThroughputBlock
  <2>3. QED
    BY <2>1, <2>2 DEF ControlInv
<1>4. CASE BuildForLatency
  BY <1>4 DEF BuildForLatency, T!StartLatency, ControlInv
<1>5. CASE BuildForThroughput
  <2>1. UNCHANGED <<pc, requested, trial, step, metrics>> /\ tpc' = "throughput"
    BY <1>5 DEF BuildForThroughput, T!StartThroughput
  <2>2. tpc # "idle" /\ "throughput" \in metrics
    BY <1>5 DEF BuildForThroughput, T!StartThroughput, ControlInv, TableInv, Metrics
  <2>3. QED
    BY <2>1, <2>2 DEF ControlInv
<1>6. CASE LatencyMeasured
  BY <1>6 DEF LatencyMeasured, T!LatencyReturn, ControlInv
<1>7. CASE ThroughputMeasured
  BY <1>7 DEF ThroughputMeasured, T!ThroughputReturn, ControlInv
<1>8. CASE TableReturns
  BY <1>8, <1>0 DEF TableReturns, T!Return, ControlInv
<1>9. CASE NextTrial
  <2>1. step = 5 /\ trial <= NumTrials /\ pc = "trials" /\ tpc = "idle"
    BY <1>9, ClassPlaces DEF NextTrial, ControlInv
  <2>2. UNCHANGED <<pc, requested, tpc, metrics>> /\ trial' = trial + 1 /\ step' = 1
    BY <1>9 DEF NextTrial, tvars
  <2>3. QED
    BY <2>1, <2>2, <1>0 DEF ControlInv
<1>10. CASE PrintResults
  BY <1>10 DEF PrintResults, tvars, ControlInv
<1>11. CASE UNCHANGED vars
  BY <1>11 DEF vars, tvars, ControlInv
<1>12. QED
  BY <1>1, <1>2, <1>3, <1>4, <1>5, <1>6, <1>7, <1>8, <1>9, <1>10, <1>11 DEF Next, Finished

\* benchmark() adds one time to its experiment and leaves the others alone.
LEMMA BenchmarkAdds ==
    ASSUME TimesInv, ControlInv, NEW e \in Experiments, Benchmark(e)
    PROVE  /\ total' \in [Globals -> Times]
           /\ timings' \in [Experiments -> Seq(Times)]
           /\ \A g \in Globals :
                 total'[g] = IF g \in SetsGlobal(e) THEN <<e, trial>> ELSE total[g]
           /\ \A f \in Experiments : f # e => timings'[f] = timings[f]
           /\ Len(timings'[e]) = Len(timings[e]) + 1
           /\ \A n \in DOMAIN timings'[e] :
                 timings'[e][n] = IF n \in DOMAIN timings[e] THEN timings[e][n]
                                  ELSE total'[AddsGlobal(e)]
           /\ \A n \in DOMAIN timings'[e] : n \notin DOMAIN timings[e] => n = Len(timings[e]) + 1
<1> DEFINE x == total'[AddsGlobal(e)]
           old == timings[e]
<1>1. total' \in [Globals -> Times]
  <2>1. <<e, trial>> \in Times
    BY DEF Times, ControlInv
  <2>2. QED
    BY <2>1 DEF Benchmark, TimesInv
<1>2. x \in Times
  BY <1>1 DEF AddsGlobal, Globals
<1>3. old \in Seq(Times)
  BY DEF TimesInv
<1>4. timings' = [timings EXCEPT ![e] = Append(old, x)]
  BY DEF Benchmark
<1>5. timings'[e] = Append(old, x) /\ \A f \in Experiments : f # e => timings'[f] = timings[f]
  BY <1>4 DEF TimesInv
<1> HIDE DEF x, old
<1>6. /\ Append(old, x) \in Seq(Times)
      /\ Len(Append(old, x)) = Len(old) + 1
      /\ \A n \in 1..(Len(old) + 1) :
            Append(old, x)[n] = IF n \in 1..Len(old) THEN old[n] ELSE x
      /\ DOMAIN Append(old, x) = 1..(Len(old) + 1) /\ DOMAIN old = 1..Len(old)
      /\ Len(old) \in Nat
  BY <1>2, <1>3
<1>7. timings' \in [Experiments -> Seq(Times)]
  BY <1>4, <1>6 DEF TimesInv
<1>8. \A g \in Globals : total'[g] = IF g \in SetsGlobal(e) THEN <<e, trial>> ELSE total[g]
  BY DEF Benchmark
<1>9. QED
  BY <1>1, <1>5, <1>6, <1>7, <1>8 DEF x, old

\* If the time it adds is the one to charge, every time is.
LEMMA BenchmarkCharges ==
    ASSUME TimesInv, ControlInv, NEW e \in Experiments, Benchmark(e), UNCHANGED <<requested, metrics>>,
           total'[AddsGlobal(e)] = Charged(e, Len(timings[e]) + 1)
    PROVE  ChargedTimes'
<1>1. \A f, n : Charged(f, n)' = Charged(f, n)
  BY DEF Charged, LastOfTable
<1>2. \A f \in Experiments : \A n \in DOMAIN timings[f] : timings[f][n] = Charged(f, n)
  BY ChargedTimesIs DEF TimesInv
<1>3. \A f \in Experiments : \A n \in DOMAIN timings'[f] : timings'[f][n] = Charged(f, n)
  <2> TAKE f \in Experiments
  <2>1. CASE f # e
    <3>1. timings'[f] = timings[f]
      BY <2>1, BenchmarkAdds
    <3>2. QED
      BY <3>1, <1>2
  <2>2. CASE f = e
    <3> SUFFICES ASSUME NEW n \in DOMAIN timings'[e] PROVE timings'[e][n] = Charged(e, n)
      BY <2>2
    <3>1. CASE n \in DOMAIN timings[e]
      BY <3>1, <1>2, BenchmarkAdds
    <3>2. CASE n \notin DOMAIN timings[e]
      <4>1. n = Len(timings[e]) + 1 /\ timings'[e][n] = total'[AddsGlobal(e)]
        BY <3>2, BenchmarkAdds
      <4>2. QED
        BY <4>1
    <3>3. QED
      BY <3>1, <3>2
  <2>3. QED
    BY <2>1, <2>2
<1>4. QED
  BY <1>1, <1>3 DEF ChargedTimes, Own, Charged, Experiments

\* A step that leaves the times alone keeps them charged.
LEMMA ChargesUnchanged ==
    ASSUME ChargedTimes, UNCHANGED <<requested, metrics, timings>>
    PROVE  ChargedTimes'
  BY DEF ChargedTimes, Own, LastOfTable

\* Every step keeps the times charged as they should be.
LEMMA TimesNext == TimesInv /\ ControlInv /\ TableInv /\ [Next]_vars => TimesInv'
<1> SUFFICES ASSUME TimesInv, ControlInv, TableInv, [Next]_vars PROVE TimesInv'
  OBVIOUS
<1>0. trial \in Nat \ {0} /\ step \in 1..5
  BY BenchDriverAssumption DEF ControlInv
<1>a. \A e \in Experiments :
          Len(timings[e]) = IF On(e) THEN (IF Done(e) THEN trial ELSE trial - 1) ELSE 0
  BY DEF TimesInv
<1>1. ASSUME NEW c \in ClassSet, Skip(c) PROVE TimesInv'
  <2>1. step \in 1..4 /\ step' = step + 1 /\ UNCHANGED <<requested, trial, total, timings, tpc, metrics>>
    BY <1>1, InTrialPlace DEF Skip, accounts, tvars
  <2>2. c \notin requested /\ c \in {"partition", "filter", "hash_func", "table"}
    BY <1>1, ClassPlaces DEF Skip
  <2>3. /\ c = "partition" <=> step = 1
        /\ c = "filter" <=> step = 2
        /\ c = "hash_func" <=> step = 3
        /\ c = "table" <=> step = 4
    BY <1>1, <2>1, <2>2, InTrialPlace DEF Skip
  <2>4. \A e \in Experiments : On(e)' = On(e) /\ (On(e) => Done(e)' = Done(e))
    BY <2>1, <2>2, <2>3 DEF On, Done, Experiments
  <2>5. ChargedTimes'
    BY <2>1, ChargesUnchanged DEF TimesInv
  <2>6. QED
    BY <2>1, <2>2, <2>3, <2>4, <2>5 DEF TimesInv, LastOfTable
<1>2. ASSUME NEW c \in ClassSet, Run(c) PROVE TimesInv'
  <2>1. /\ step \in 1..3 /\ step' = step + 1 /\ UNCHANGED <<requested, trial, tpc, metrics>>
        /\ tpc = "idle"
    BY <1>2, InTrialPlace DEF Run, tvars, ControlInv
  <2>2. c \in requested /\ c \in {"partition", "filter", "hash_func"} /\ Benchmark(c)
    BY <1>2, ClassPlaces DEF Run
  <2>3. /\ c = "partition" <=> step = 1
        /\ c = "filter" <=> step = 2
        /\ c = "hash_func" <=> step = 3
    BY <1>2, <2>1, <2>2, InTrialPlace DEF Run
  <2>4. c \in Experiments /\ On(c) /\ ~Done(c) /\ Done(c)'
    BY <2>1, <2>2, <2>3 DEF On, Done, Experiments
  <2>5. \A e \in Experiments : On(e)' = On(e) /\ (e # c => Done(e)' = Done(e))
    BY <2>1, <2>2, <2>3 DEF On, Done, Experiments
  <2>6. Len(timings[c]) = trial - 1 /\ Len(timings'[c]) = trial
    <3>1. Len(timings[c]) = trial - 1
      BY <2>4, <1>a
    <3>2. Len(timings'[c]) = Len(timings[c]) + 1
      BY <2>2, <2>4, BenchmarkAdds
    <3>3. QED
      BY <3>1, <3>2, <1>0
  <2>7. \A e \in Experiments :
            Len(timings'[e]) = IF On(e)' THEN (IF Done(e)' THEN trial' ELSE trial' - 1) ELSE 0
    <3>1. \A e \in Experiments : e # c => timings'[e] = timings[e]
      BY <2>2, <2>4, BenchmarkAdds
    <3>2. QED
      BY <2>1, <1>a, <2>4, <2>5, <2>6, <3>1
  <2>8. total'["plain"] = total["plain"]
    BY <2>2, <2>4, BenchmarkAdds DEF SetsGlobal, Globals
  <2>9. total'["filter"] = IF c = "filter" THEN <<"filter", trial>> ELSE total["filter"]
    BY <2>2, <2>4, BenchmarkAdds DEF SetsGlobal, Globals
  <2>10. total'[AddsGlobal(c)] = Charged(c, trial)
    <3>1. CASE c = "partition"
      BY <3>1, <2>3, <2>8, <1>0 DEF AddsGlobal, Charged, TimesInv
    <3>2. CASE c = "filter"
      BY <3>2, <2>9 DEF AddsGlobal, Charged
    <3>3. CASE c = "hash_func"
      <4>1. total["filter"] = IF "filter" \in requested THEN <<"filter", trial>> ELSE Never
        <5>1. step > 2
          BY <3>3, <2>3
        <5>2. "filter" \notin requested => total["filter"] = Never
          BY DEF TimesInv
        <5>3. "filter" \in requested => total["filter"] = <<"filter", trial>>
          BY <5>1 DEF TimesInv
        <5>4. QED
          BY <5>2, <5>3
      <4>2. AddsGlobal(c) = "filter" /\ total'["filter"] = total["filter"]
        BY <3>3, <2>9 DEF AddsGlobal
      <4>3. QED
        BY <3>3, <4>1, <4>2 DEF Charged
    <3>4. QED
      BY <2>2, <3>1, <3>2, <3>3
  <2>11. ChargedTimes'
    <3>1. Len(timings[c]) + 1 = trial
      BY <2>6, <1>0
    <3>2. QED
      BY <2>1, <2>2, <2>4, <2>10, <3>1, BenchmarkCharges
  <2>12. total' \in [Globals -> Times] /\ timings' \in [Experiments -> Seq(Times)]
    BY <2>2, <2>4, BenchmarkAdds
  <2>13. QED
    BY <2>1, <2>2, <2>3, <2>7, <2>8, <2>9, <2>11, <2>12 DEF TimesInv, LastOfTable
<1>3. ASSUME UNCHANGED <<requested, trial, step, total, timings, metrics>>,
             \/ tpc' = tpc
             \/ tpc \in {"idle", "start", "warm"} /\ tpc' \in {"start", "warm", "latency"}
             \/ tpc = "start" /\ "latency" \notin metrics /\ tpc' = "throughput"
             \/ tpc = "throughput_start" /\ tpc' = "throughput"
      PROVE  TimesInv'
  <2>1. \A e \in Experiments : On(e)' = On(e) /\ (On(e) => Done(e)' = Done(e))
    BY <1>3 DEF On, Done, Experiments
  <2>2. ChargedTimes'
    BY <1>3, ChargesUnchanged DEF TimesInv
  <2>3. tpc' = "done" => tpc = "done"
    BY <1>3
  <2>4. QED
    BY <1>3, <2>1, <2>2, <2>3 DEF TimesInv, LastOfTable
<1>4. CASE CallTable
  BY <1>3, <1>4 DEF CallTable, T!Call, accounts
<1>5. CASE TableLoop
  <2>1. UNCHANGED <<requested, trial, step, total, timings, metrics>>
    BY <1>5 DEF TableLoop, T!Loop, T!WarmProbe, T!WarmRound, T!StartMeasured, T!LatencyProbe,
                T!LatencyBlock, T!LatencyRound, T!ThroughputProbe, T!ThroughputBlock, accounts
  <2>2. tpc' = tpc \/ (tpc = "warm" /\ tpc' = "latency")
    BY <1>5 DEF TableLoop, T!Loop, T!WarmProbe, T!WarmRound, T!StartMeasured, T!LatencyProbe,
                T!LatencyBlock, T!LatencyRound, T!ThroughputProbe, T!ThroughputBlock
  <2>3. QED
    BY <1>3, <2>1, <2>2
<1>6. CASE BuildForLatency
  BY <1>3, <1>6 DEF BuildForLatency, T!StartLatency
<1>7. CASE BuildForThroughput
  BY <1>3, <1>7 DEF BuildForThroughput, T!StartThroughput
<1>8. ASSUME NEW e \in {"latency", "throughput"}, Benchmark(e),
             UNCHANGED <<requested, trial, step, metrics>>,
             "table" \in requested, step = 4, e \in metrics,
             e = "latency" => /\ tpc = "latency"
                              /\ tpc' = IF "throughput" \in metrics THEN "throughput_start" ELSE "done",
             e = "throughput" => tpc = "throughput" /\ tpc' = "done"
      PROVE  TimesInv'
  <2>1. e \in Experiments /\ On(e) /\ ~Done(e) /\ Done(e)'
    BY <1>8 DEF On, Done, Experiments
  <2>2. \A f \in Experiments : On(f)' = On(f) /\ (On(f) /\ f # e => Done(f)' = Done(f))
    BY <1>8 DEF On, Done, Experiments
  <2>3. Len(timings[e]) = trial - 1 /\ Len(timings'[e]) = trial
    <3>1. Len(timings[e]) = trial - 1
      BY <2>1, <1>a
    <3>2. Len(timings'[e]) = Len(timings[e]) + 1
      BY <1>8, <2>1, BenchmarkAdds
    <3>3. QED
      BY <3>1, <3>2, <1>0
  <2>4. \A f \in Experiments :
            Len(timings'[f]) = IF On(f)' THEN (IF Done(f)' THEN trial' ELSE trial' - 1) ELSE 0
    <3>1. \A f \in Experiments : f # e => timings'[f] = timings[f]
      BY <1>8, <2>1, BenchmarkAdds
    <3>2. QED
      BY <1>8, <1>a, <2>1, <2>2, <2>3, <3>1
  <2>5. total'["plain"] = <<e, trial>> /\ total'["filter"] = total["filter"]
    BY <1>8, <2>1, BenchmarkAdds DEF SetsGlobal, Globals
  <2>6. tpc' = "done" => LastOfTable = e
    BY <1>8 DEF LastOfTable
  <2>7. ChargedTimes'
    <3>1. Len(timings[e]) + 1 = trial
      BY <2>3, <1>0
    <3>2. total'[AddsGlobal(e)] = Charged(e, trial)
      BY <1>8, <2>5 DEF AddsGlobal, Charged
    <3>3. QED
      BY <1>8, <2>1, <3>1, <3>2, BenchmarkCharges
  <2>8. total' \in [Globals -> Times] /\ timings' \in [Experiments -> Seq(Times)]
    BY <1>8, <2>1, BenchmarkAdds
  <2>9. QED
    BY <1>8, <2>4, <2>5, <2>6, <2>7, <2>8 DEF TimesInv, LastOfTable
<1>9. CASE LatencyMeasured
  BY <1>8, <1>9 DEF LatencyMeasured, T!LatencyReturn, ControlInv
<1>10. CASE ThroughputMeasured
  BY <1>8, <1>10 DEF ThroughputMeasured, T!ThroughputReturn, ControlInv
<1>11. CASE TableReturns
  <2>1. /\ step = 4 /\ step' = 5 /\ tpc = "done" /\ tpc' = "idle" /\ "table" \in requested
        /\ UNCHANGED <<requested, trial, total, timings, metrics>>
    BY <1>11 DEF TableReturns, T!Return, ControlInv, accounts
  <2>2. \A e \in Experiments : On(e)' = On(e) /\ Done(e)' = Done(e)
    BY <2>1 DEF On, Done, Experiments
  <2>3. ChargedTimes'
    BY <2>1, ChargesUnchanged DEF TimesInv
  <2>4. QED
    BY <2>1, <2>2, <2>3 DEF TimesInv, LastOfTable
<1>12. CASE NextTrial
  <2>1. /\ step = 5 /\ step' = 1 /\ trial' = trial + 1 /\ tpc = "idle"
        /\ UNCHANGED <<requested, total, timings, tpc, metrics>>
    BY <1>12, ClassPlaces DEF NextTrial, ControlInv, accounts, tvars
  <2>2. \A e \in Experiments : On(e)' = On(e) /\ Done(e) /\ ~Done(e)'
    BY <2>1 DEF On, Done, Experiments
  <2>3. ChargedTimes'
    BY <2>1, ChargesUnchanged DEF TimesInv
  <2>4. trial' - 1 = trial /\ trial' > 1
    BY <2>1, <1>0
  <2>5. QED
    BY <2>1, <2>2, <2>3, <2>4 DEF TimesInv, LastOfTable
<1>13. CASE PrintResults \/ UNCHANGED vars
  BY <1>3, <1>13 DEF PrintResults, vars, accounts, tvars
<1>14. QED
  BY <1>1, <1>2, <1>4, <1>5, <1>6, <1>7, <1>9, <1>10, <1>11, <1>12, <1>13 DEF Next, Finished

\* The driver's invariants hold in every reachable state.
THEOREM AccountsInvHolds == Spec => [](ControlInv /\ TimesInv)
<1>1. Init => ControlInv /\ TimesInv
  <2> SUFFICES ASSUME Init PROVE ControlInv /\ TimesInv
    OBVIOUS
  <2>1. ControlInv
    BY BenchDriverAssumption DEF Init, T!Init, ControlInv
  <2>2. total \in [Globals -> Times] /\ timings \in [Experiments -> Seq(Times)]
    BY DEF Init, Never, Times
  <2>3. \A e \in Experiments : Len(timings[e]) = 0 /\ DOMAIN timings[e] = {} /\ ~Done(e)
    BY DEF Init, T!Init, Done
  <2>4. ChargedTimes
    BY <2>3, ChargedTimesIs
  <2>5. TimesInv
    BY <2>2, <2>3, <2>4 DEF Init, T!Init, TimesInv, Globals
  <2>6. QED
    BY <2>1, <2>5
<1>2. QED
  BY <1>1, ControlNext, TimesNext, TableInvHolds, PTL DEF Spec

\* For any number of trials, benchmark() charges filters and tables their own
\* times, plain hashing those of the filters and partitioning those of the
\* tables one trial earlier.
THEOREM ChargedTimesHolds == Spec => []ChargedTimes
<1>1. TimesInv => ChargedTimes
  BY DEF TimesInv
<1>2. QED
  BY <1>1, AccountsInvHolds, PTL
=============================================================================
