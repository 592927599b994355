--------------------------- MODULE BenchTablesMt ---------------------------
(***************************************************************************)
(* The multithreaded Swiss-table throughput benchmark                      *)
(* (benchmark_tables_mt.cpp and benchmark_mt in include/benchmarks.hh).    *)
(*                                                                         *)
(* The main thread makes one bench_hashtable_mt call after the other.  In  *)
(* each it fills a table, arms the two spin barriers, spawns the workers,  *)
(* raises and lowers the warmup and running flags around two sleeps that   *)
(* watch nothing the workers do, joins the workers and adds up what they   *)
(* counted.  Every interleaving of the threads is explored: a flag may     *)
(* change before a slow worker has looked at it even once.                 *)
(*                                                                         *)
(* The table is read-only while workers run and is not part of the state.  *)
(* A pass over the probes is one step that ends with the increment of      *)
(* thread_num_iters.  The flags are volatile and the target is x86, whose  *)
(* stores become visible in program order, so a delayed store is a main    *)
(* thread that is slow to take its next step.                              *)
(***************************************************************************)
EXTENDS Integers, FiniteSets

CONSTANTS NumThreads,  \* num_threads
          NumCalls,    \* bench_hashtable_mt calls the driver makes in all
          Names,       \* names of the benchmarked hash functions
          NameOf,      \* the name each call reports under
          MaxIters,    \* bound on the passes a worker makes in one call
          SizeMax      \* largest size_t

ASSUME MtAssumption ==
    /\ NumThreads \in Nat
    /\ NumCalls \in Nat
    /\ NameOf \in [1..NumCalls -> Names]
    /\ MaxIters \in Nat
    /\ SizeMax \in Nat
    /\ NumThreads <= SizeMax

Threads == 0..(NumThreads - 1)

NoThread == -1

VARIABLES
    mainPc,            \* where the main thread is in bench_hashtable_mt
    calls,             \* bench_hashtable_mt calls completed
    i,                 \* the main thread's loop variable
    pc,                \* where each worker is
    copy,              \* each worker's local copy of n in count_down
    barrier_a,         \* the counter n of the warm-up barrier
    barrier_b,         \* the counter n of the profiling barrier
    warmup,            \* the flag the warm-up loops test
    running,           \* the flag the profiling loops test
    thread_num_iters,  \* passes each worker has counted in this call
    timing,            \* TRUE between the start and the end time stamp
    mylock,            \* the worker that holds the mutex, or NoThread
    loaded,            \* the value a worker loaded of the timings entry
    timings,           \* accumulated duration of each name, one unit per call
    num_iters_total,   \* passes reported under each name
    passes             \* history: passes the workers really made, per name

mainVars == <<mainPc, calls, i, timing, num_iters_total>>
syncVars == <<barrier_a, barrier_b, warmup, running>>
lockVars == <<mylock, loaded, timings>>
vars == <<mainPc, calls, i, pc, copy, barrier_a, barrier_b, warmup, running,
          thread_num_iters, timing, mylock, loaded, timings, num_iters_total,
          passes>>

Name == NameOf[calls + 1]

Init ==
    /\ mainPc = IF NumCalls = 0 THEN "finished" ELSE "fill"
    /\ calls = 0
    /\ i = 0
    /\ pc = [t \in Threads |-> "none"]
    /\ copy = [t \in Threads |-> 0]
    /\ barrier_a = 1
    /\ barrier_b = 1
    /\ warmup = FALSE
    /\ running = FALSE
    /\ thread_num_iters = [t \in Threads |-> 0]
    /\ timing = FALSE
    /\ mylock = NoThread
    /\ loaded = [t \in Threads |-> 0]
    /\ timings = [n \in Names |-> 0]
    /\ num_iters_total = [n \in Names |-> 0]
    /\ passes = [n \in Names |-> 0]

-----------------------------------------------------------------------------
(* Workers: bench_hashtable_throughput_mt.                                 *)

Goto(t, from, to) ==
    /\ pc[t] = from
    /\ pc' = [pc EXCEPT ![t] = to]

\* size_t subtraction wraps.
Dec(n) == IF n = 0 THEN SizeMax ELSE n - 1

\* spin_barrier::count_down loads n ...
LoadA(t) ==
    /\ Goto(t, "loadA", "casA")
    /\ copy' = [copy EXCEPT ![t] = barrier_a]
    /\ UNCHANGED <<mainVars, syncVars, lockVars, thread_num_iters, passes>>

\* ... and swaps in the decremented copy unless n has changed meanwhile.
CasA(t) ==
    /\ IF barrier_a = copy[t]
         THEN Goto(t, "casA", "waitA") /\ barrier_a' = Dec(copy[t])
         ELSE Goto(t, "casA", "loadA") /\ barrier_a' = barrier_a
    /\ UNCHANGED <<mainVars, copy, barrier_b, warmup, running, lockVars,
                   thread_num_iters, passes>>

\* spin_barrier::wait_for leaves its loop once n is zero.
WaitA(t) ==
    /\ barrier_a = 0
    /\ Goto(t, "waitA", "warm")
    /\ UNCHANGED <<mainVars, copy, syncVars, lockVars, thread_num_iters, passes>>

\* The test of the warm-up loop, and one warm-up pass over the probes.
TestWarmup(t) ==
    /\ Goto(t, "warm", IF warmup THEN "warmPass" ELSE "loadB")
    /\ UNCHANGED <<mainVars, copy, syncVars, lockVars, thread_num_iters, passes>>

WarmupPass(t) ==
    /\ Goto(t, "warmPass", "warm")
    /\ UNCHANGED <<mainVars, copy, syncVars, lockVars, thread_num_iters, passes>>

LoadB(t) ==
    /\ Goto(t, "loadB", "casB")
    /\ copy' = [copy EXCEPT ![t] = barrier_b]
    /\ UNCHANGED <<mainVars, syncVars, lockVars, thread_num_iters, passes>>

CasB(t) ==
    /\ IF barrier_b = copy[t]
         THEN Goto(t, "casB", "waitB") /\ barrier_b' = Dec(copy[t])
         ELSE Goto(t, "casB", "loadB") /\ barrier_b' = barrier_b
    /\ UNCHANGED <<mainVars, copy, barrier_a, warmup, running, lockVars,
                   thread_num_iters, passes>>

\* Mutant: the workers wait for barrier_a, which is already down, once more.
WaitBOnA(t) ==
    /\ barrier_a = 0
    /\ Goto(t, "waitB", "run")
    /\ UNCHANGED <<mainVars, copy, syncVars, lockVars, thread_num_iters, passes>>

WaitB(t) ==
    /\ barrier_b = 0
    /\ Goto(t, "waitB", "run")
    /\ UNCHANGED <<mainVars, copy, syncVars, lockVars, thread_num_iters, passes>>

\* The test of the profiling loop.  A worker at the bound waits for the flag.
TestRunning(t) ==
    /\ running => thread_num_iters[t] < MaxIters
    /\ Goto(t, "run", IF running THEN "pass" ELSE "lock")
    /\ UNCHANGED <<mainVars, copy, syncVars, lockVars, thread_num_iters, passes>>

\* One measured pass over the probes, counted in the worker's own slot.
Pass(t) ==
    /\ Goto(t, "pass", "run")
    /\ thread_num_iters' = [thread_num_iters EXCEPT ![t] = @ + 1]
    /\ passes' = [passes EXCEPT ![Name] = @ + 1]
    /\ UNCHANGED <<mainVars, copy, syncVars, lockVars>>

\* Mutant: the mutex is not taken.
LockUnguarded(t) ==
    /\ Goto(t, "lock", "load")
    /\ mylock' = t
    /\ UNCHANGED <<mainVars, copy, syncVars, thread_num_iters, passes, loaded,
                   timings>>

\* The end of benchmark_mt: timings[metric][name] += 0 under the mutex.
Lock(t) ==
    /\ mylock = NoThread
    /\ Goto(t, "lock", "load")
    /\ mylock' = t
    /\ UNCHANGED <<mainVars, copy, syncVars, thread_num_iters, passes, loaded,
                   timings>>

LoadTiming(t) ==
    /\ Goto(t, "load", "store")
    /\ loaded' = [loaded EXCEPT ![t] = timings[Name]]
    /\ UNCHANGED <<mainVars, copy, syncVars, thread_num_iters, passes, mylock,
                   timings>>

StoreTiming(t) ==
    /\ Goto(t, "store", "unlock")
    /\ timings' = [timings EXCEPT ![Name] = loaded[t] + 0]
    /\ UNCHANGED <<mainVars, copy, syncVars, thread_num_iters, passes, mylock,
                   loaded>>

Unlock(t) ==
    /\ Goto(t, "unlock", "done")
    /\ mylock' = NoThread
    /\ UNCHANGED <<mainVars, copy, syncVars, thread_num_iters, passes, loaded,
                   timings>>

Worker(t) ==
    \/ LoadA(t) \/ CasA(t) \/ WaitA(t) \/ TestWarmup(t) \/ WarmupPass(t)
    \/ LoadB(t) \/ CasB(t) \/ WaitB(t) \/ TestRunning(t) \/ Pass(t)
    \/ Lock(t) \/ LoadTiming(t) \/ StoreTiming(t) \/ Unlock(t)

-----------------------------------------------------------------------------
(* The main thread: bench_hashtable_mt, called once per hash function and  *)
(* trial.                                                                  *)

MainGoto(from, to) ==
    /\ mainPc = from
    /\ mainPc' = to

\* Fill the table and generate every worker's probes.
FillMap ==
    /\ MainGoto("fill", "sync")
    /\ UNCHANGED <<calls, i, timing, num_iters_total, pc, copy, syncVars,
                   lockVars, thread_num_iters, passes>>

\* Mutant: the barriers are armed for one worker too few.
SetSyncOneShort ==
    /\ MainGoto("sync", "spawn")
    /\ barrier_a' = NumThreads - 1
    /\ barrier_b' = NumThreads - 1
    /\ warmup' = FALSE
    /\ running' = FALSE
    /\ thread_num_iters' = [t \in Threads |-> 0]
    /\ i' = 0
    /\ UNCHANGED <<calls, timing, num_iters_total, pc, copy, lockVars, passes>>

\* Mutant: the counters keep the passes of the call before.
SetSyncKeepIters ==
    /\ MainGoto("sync", "spawn")
    /\ barrier_a' = NumThreads
    /\ barrier_b' = NumThreads
    /\ warmup' = FALSE
    /\ running' = FALSE
    /\ i' = 0
    /\ UNCHANGED <<calls, timing, num_iters_total, pc, copy, lockVars, passes,
                   thread_num_iters>>

\* Arm the barriers, lower the flags, allocate and zero the counters.
SetSync ==
    /\ MainGoto("sync", "spawn")
    /\ barrier_a' = NumThreads
    /\ barrier_b' = NumThreads
    /\ warmup' = FALSE
    /\ running' = FALSE
    /\ thread_num_iters' = [t \in Threads |-> 0]
    /\ i' = 0
    /\ UNCHANGED <<calls, timing, num_iters_total, pc, copy, lockVars, passes>>

Spawn ==
    /\ i \in Threads
    /\ MainGoto("spawn", "spawn")
    /\ pc' = [pc EXCEPT ![i] = "loadA"]
    /\ i' = i + 1
    /\ UNCHANGED <<calls, timing, num_iters_total, copy, syncVars, lockVars,
                   thread_num_iters, passes>>

StartWarmup ==
    /\ i = NumThreads
    /\ MainGoto("spawn", "warmup")
    /\ warmup' = TRUE
    /\ UNCHANGED <<calls, i, timing, num_iters_total, pc, copy, barrier_a,
                   barrier_b, running, lockVars, thread_num_iters, passes>>

\* Mutant: running is raised with the end of the warm-up, before the time stamp.
StopWarmupAndRun ==
    /\ MainGoto("warmup", "start")
    /\ warmup' = FALSE
    /\ running' = TRUE
    /\ UNCHANGED <<calls, i, timing, num_iters_total, pc, copy, barrier_a,
                   barrier_b, lockVars, thread_num_iters, passes>>

\* Mutant: the warm-up loops never see the flag lowered.
StopWarmupUnseen ==
    /\ MainGoto("warmup", "start")
    /\ UNCHANGED <<calls, i, timing, num_iters_total, pc, copy, syncVars,
                   lockVars, thread_num_iters, passes>>

\* The first sleep is over.
StopWarmup ==
    /\ MainGoto("warmup", "start")
    /\ warmup' = FALSE
    /\ UNCHANGED <<calls, i, timing, num_iters_total, pc, copy, barrier_a,
                   barrier_b, running, lockVars, thread_num_iters, passes>>

TakeStart ==
    /\ MainGoto("start", "startRunning")
    /\ timing' = TRUE
    /\ UNCHANGED <<calls, i, num_iters_total, pc, copy, syncVars, lockVars,
                   thread_num_iters, passes>>

StartRunning ==
    /\ MainGoto("startRunning", "running")
    /\ running' = TRUE
    /\ UNCHANGED <<calls, i, timing, num_iters_total, pc, copy, barrier_a,
                   barrier_b, warmup, lockVars, thread_num_iters, passes>>

\* The second sleep is over.
StopRunning ==
    /\ MainGoto("running", "join")
    /\ running' = FALSE
    /\ i' = 0
    /\ UNCHANGED <<calls, timing, num_iters_total, pc, copy, barrier_a,
                   barrier_b, warmup, lockVars, thread_num_iters, passes>>

\* Mutant: the workers are detached instead of joined.
JoinDetach ==
    /\ i \in Threads
    /\ MainGoto("join", "join")
    /\ i' = i + 1
    /\ UNCHANGED <<calls, timing, num_iters_total, pc, copy, syncVars, lockVars,
                   thread_num_iters, passes>>

Join ==
    /\ i \in Threads
    /\ pc[i] = "done"
    /\ MainGoto("join", "join")
    /\ i' = i + 1
    /\ UNCHANGED <<calls, timing, num_iters_total, pc, copy, syncVars, lockVars,
                   thread_num_iters, passes>>

TakeEnd ==
    /\ i = NumThreads
    /\ MainGoto("join", "sum")
    /\ timing' = FALSE
    /\ i' = 0
    /\ UNCHANGED <<calls, num_iters_total, pc, copy, syncVars, lockVars,
                   thread_num_iters, passes>>

AddIters ==
    /\ i \in Threads
    /\ MainGoto("sum", "sum")
    /\ num_iters_total' =
           [num_iters_total EXCEPT ![Name] = @ + thread_num_iters[i]]
    /\ i' = i + 1
    /\ UNCHANGED <<calls, timing, pc, copy, syncVars, lockVars,
                   thread_num_iters, passes>>

\* Mutant: the duration replaces those of earlier trials.
AddDurationOverwrite ==
    /\ i = NumThreads
    /\ MainGoto("sum", IF calls + 1 = NumCalls THEN "finished" ELSE "fill")
    /\ timings' = [timings EXCEPT ![Name] = 1]
    /\ calls' = calls + 1
    /\ i' = 0
    /\ UNCHANGED <<timing, num_iters_total, pc, copy, syncVars, mylock, loaded,
                   thread_num_iters, passes>>

\* timings[metric][name] += duration, outside the mutex; then the next call.
AddDuration ==
    /\ i = NumThreads
    /\ MainGoto("sum", IF calls + 1 = NumCalls THEN "finished" ELSE "fill")
    /\ timings' = [timings EXCEPT ![Name] = @ + 1]
    /\ calls' = calls + 1
    /\ i' = 0
    /\ UNCHANGED <<timing, num_iters_total, pc, copy, syncVars, mylock, loaded,
                   thread_num_iters, passes>>

Main ==
    \/ FillMap \/ SetSync \/ Spawn \/ StartWarmup \/ StopWarmup
    \/ TakeStart \/ StartRunning \/ StopRunning \/ Join \/ TakeEnd
    \/ AddIters \/ AddDuration

\* The program has printed its results and exited.
Exited == mainPc = "finished" /\ UNCHANGED vars

Next == Main \/ (\E t \in Threads : Worker(t)) \/ Exited

\* The scheduler runs every runnable thread and every sleep ends.
Fairness == WF_vars(Main) /\ \A t \in Threads : WF_vars(Worker(t))

SafetySpec == Init /\ [][Next]_vars
Spec == SafetySpec /\ Fairness

-----------------------------------------------------------------------------
(* Properties.                                                             *)

MainPcs == {"fill", "sync", "spawn", "warmup", "start", "startRunning",
            "running", "join", "sum", "finished"}

NotYetA == {"none", "loadA", "casA"}
BeforeB == {"waitA", "warm", "warmPass", "loadB", "casB"}
AfterB == {"waitB", "run", "pass", "lock", "load", "store", "unlock", "done"}

\* Every variable of the benchmark stays in its type.  The size_t counters of
\* the barriers hold at most the number of threads (or the 1 they are
\* constructed with): count_down never takes one below zero, where it wraps.
TypeOK ==
    /\ mainPc \in MainPcs
    /\ calls \in 0..NumCalls
    /\ i \in 0..NumThreads
    /\ pc \in [Threads -> NotYetA \cup BeforeB \cup AfterB]
    /\ copy \in [Threads -> Nat]
    /\ barrier_a \in 0..NumThreads \cup {1}
    /\ barrier_b \in 0..NumThreads \cup {1}
    /\ warmup \in BOOLEAN
    /\ running \in BOOLEAN
    /\ thread_num_iters \in [Threads -> Nat]
    /\ timing \in BOOLEAN
    /\ mylock \in Threads \cup {NoThread}
    /\ loaded \in [Threads -> Nat]
    /\ timings \in [Names -> Nat]
    /\ num_iters_total \in [Names -> Nat]
    /\ passes \in [Names -> Nat]

\* The call is between arming the barriers and its last addition.
Armed == mainPc \notin {"fill", "sync", "finished"}

\* The workers of the current call that have been spawned.
Spawned == {t \in Threads : Armed /\ (mainPc = "spawn" => t < i)}

\* The workers that have yet to count down each barrier.
MissingA == {t \in Threads : t \in Spawned => pc[t] \in NotYetA}
MissingB == {t \in Threads : t \in Spawned => pc[t] \in NotYetA \cup BeforeB}

\* The barrier for warmup does its work: while any worker is in its warm-up
\* loop, every worker has been spawned and has reached the barrier.
WarmUpTogether ==
    (\E t \in Threads : pc[t] \in {"warm", "warmPass"}) =>
        \A u \in Threads : u \in Spawned /\ pc[u] \notin NotYetA

\* The barrier for profiling does its work: while any worker is in its
\* profiling loop, no worker is still warming up.
MeasureTogether ==
    (\E t \in Threads : pc[t] \in {"run", "pass"}) =>
        \A u \in Threads : u \in Spawned /\ pc[u] \in AfterB

\* Every pass that gets counted is made between the start and the end time
\* stamp, although the main thread never waits for a worker to begin.
MeasuredInsideInterval == \A t \in Threads : pc[t] = "pass" => timing

\* The table is filled, and the barriers, flags and counters are reused for
\* the next hash function, only when no worker of the last call is left.
QuietSetup ==
    mainPc \in {"fill", "sync"} => \A t \in Threads : pc[t] \in {"none", "done"}

\* No two threads touch the timings map at the same time: the workers are
\* kept apart by the mutex, the main thread (which takes no lock) by the joins.
TimingsExclusive ==
    \A t \in Threads : pc[t] \in {"load", "store", "unlock"} =>
        /\ mainPc # "sum"
        /\ \A u \in Threads \ {t} : pc[u] \notin {"load", "store", "unlock"}

\* Between calls every pass the workers made is in the reported totals, once.
AllPassesReported ==
    mainPc \in {"fill", "sync", "finished"} => num_iters_total = passes

\* The calls among the first c that report under name n.
CallsOf(n, c) == {k \in 1..c : NameOf[k] = n}

\* No update of a timings entry is lost: each name has exactly the durations
\* of its completed calls.
NoLostDuration ==
    \A n \in Names : timings[n] = Cardinality(CallsOf(n, calls))

\* The parts of the inductive invariant.  SpawnInv: a worker that has not been
\* spawned in this call is not running.
SpawnInv ==
    /\ \A t \in Threads \ Spawned : pc[t] \in {"none", "done"}
    /\ \A t \in Spawned : pc[t] # "none"

\* CountInv: while a call is armed, each counter is the number of workers that
\* have yet to count the barrier down.
CountInv ==
    Armed => /\ barrier_a = Cardinality(MissingA)
             /\ barrier_b = Cardinality(MissingB)

\* PastInv: a worker is past a barrier only when no worker is missing at it.
PastInv ==
    \A t \in Spawned :
        /\ pc[t] \notin NotYetA \cup {"waitA"} => MissingA = {}
        /\ pc[t] \in AfterB \ {"waitB"} => MissingB = {}

\* MainInv: how far the main thread is, and what the workers may do then.
MainInv ==
    /\ mainPc = "join" => \A t \in Threads : t < i => pc[t] = "done"
    /\ mainPc = "sum" => \A t \in Threads : pc[t] = "done"
    /\ running => mainPc = "running"
    /\ timing <=> mainPc \in {"startRunning", "running", "join"}
    /\ \A t \in Threads : pc[t] = "pass" => mainPc \in {"running", "join"}
    /\ mainPc # "finished" => calls < NumCalls

\* LockInv: the mutex belongs to the one worker inside benchmark_mt's critical
\* section, and what that worker loaded is still the value of the entry.
LockInv ==
    \A t \in Threads :
        /\ pc[t] \in {"load", "store", "unlock"} <=> mylock = t
        /\ pc[t] = "store" => loaded[t] = timings[Name]

\* The inductive invariant the safety properties above follow from: a barrier
\* counter that reads zero means that no worker is missing.
Inv == TypeOK /\ SpawnInv /\ CountInv /\ PastInv /\ MainInv /\ LockInv

\* The driver finishes: no worker and no join waits forever, however the
\* sleeps of the main thread fall relative to the workers.
Termination == <>(mainPc = "finished")

\* The benchmark implements the phased measurement.
StageOf(p) ==
    CASE p \in NotYetA            -> "gathering"
      [] p = "waitA"              -> "gathered"
      [] p \in {"warm", "warmPass", "loadB", "casB"} -> "warming"
      [] p = "waitB"              -> "warmed"
      [] p \in {"run", "pass"}    -> "measured"
      [] OTHER                    -> "finished"

AbsStage ==
    [t \in Threads |-> IF t \in Spawned THEN StageOf(pc[t]) ELSE "gathering"]

AbsIters == IF Armed THEN thread_num_iters ELSE [t \in Threads |-> 0]

Phased == INSTANCE PhasedBench WITH stage <- AbsStage, iters <- AbsIters

\* No worker warms up before all have gathered or is measured before all have
\* warmed up, only measured passes are counted, and a call ends only when all
\* of its workers have.
ImplementsPhasedBench == Phased!PhasedSpec
=============================================================================
