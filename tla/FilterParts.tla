----------------------------- MODULE FilterParts -----------------------------
(***************************************************************************)
(* The register-blocked filter, libbloom and the measurement of a filter's *)
(* false positives, side by side.  They share no state (the measurement    *)
(* knows a filter as ApproxSet promises it), so that a behaviour runs one  *)
(* of them, and the others stay as they start.                             *)
(***************************************************************************)
EXTENDS SelfBlockBloom64, LibBloom, FilterBench

VARIABLE part

PartsInit ==
    /\ part \in {"register", "libbloom", "bench"}
    /\ Init /\ LibInit /\ FilterInit
    /\ part # "bench" => data_size = Min(DataSizes) /\ metrics = {"latency"}

RegisterStep == part = "register" /\ Next /\ UNCHANGED <<part, libVars, benchVars>>

LibBloomStep == part = "libbloom" /\ LibNext /\ UNCHANGED <<part, vars, benchVars>>

BenchStep == part = "bench" /\ FilterNext /\ UNCHANGED <<part, vars, libVars>>

PartsNext == RegisterStep \/ LibBloomStep \/ BenchStep

PartsSpec == PartsInit /\ [][PartsNext]_<<part, vars, libVars, benchVars>>
=============================================================================
