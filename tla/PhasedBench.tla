---------------------------- MODULE PhasedBench ----------------------------
(***************************************************************************)
(* What one multithreaded throughput measurement promises, whatever        *)
(* synchronisation it is built from.  The threads of a call gather, warm   *)
(* up together and are measured together: no thread warms up before all of *)
(* them have gathered, none is measured before all of them have finished   *)
(* warming up, only measured passes are counted, and the counts of a call  *)
(* are collected once all of its threads have finished.                    *)
(*                                                                         *)
(* BenchTablesMt implements this specification with two spin barriers, two *)
(* flags and thread joins.                                                 *)
(***************************************************************************)
EXTENDS Integers

CONSTANTS Threads,   \* the worker threads of a call
          NumCalls   \* how many measurements are made, one after the other

VARIABLES stage,     \* where each thread is in the current call
          iters,     \* passes each thread has counted in the current call
          calls      \* calls completed so far

phaseVars == <<stage, iters, calls>>

BeforeMeasuring == {"gathering", "gathered", "warming"}

PhasedInit ==
    /\ stage = [t \in Threads |-> "gathering"]
    /\ iters = [t \in Threads |-> 0]
    /\ calls = 0

Move(t, from, to) ==
    /\ stage[t] = from
    /\ stage' = [stage EXCEPT ![t] = to]
    /\ UNCHANGED <<iters, calls>>

Gather(t) == Move(t, "gathering", "gathered")

StartWarming(t) ==
    /\ \A u \in Threads : stage[u] # "gathering"
    /\ Move(t, "gathered", "warming")

StopWarming(t) == Move(t, "warming", "warmed")

StartMeasuring(t) ==
    /\ \A u \in Threads : stage[u] \notin BeforeMeasuring
    /\ Move(t, "warmed", "measured")

CountPass(t) ==
    /\ stage[t] = "measured"
    /\ iters' = [iters EXCEPT ![t] = @ + 1]
    /\ UNCHANGED <<stage, calls>>

Finish(t) == Move(t, "measured", "finished")

Collect ==
    /\ calls < NumCalls
    /\ \A t \in Threads : stage[t] = "finished"
    /\ stage' = [t \in Threads |-> "gathering"]
    /\ iters' = [t \in Threads |-> 0]
    /\ calls' = calls + 1

PhasedNext ==
    \/ \E t \in Threads : \/ Gather(t)
                          \/ StartWarming(t)
                          \/ StopWarming(t)
                          \/ StartMeasuring(t)
                          \/ CountPass(t)
                          \/ Finish(t)
    \/ Collect

PhasedSpec == PhasedInit /\ [][PhasedNext]_phaseVars
=============================================================================
