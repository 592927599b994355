----------------------------- MODULE ApproxSet -----------------------------
(***************************************************************************)
(* What every Bloom filter of the repository promises its caller: a set    *)
(* that may report keys nobody added, never misses one that was added, and *)
(* answers a query from what it reports at that moment.  A filter starts   *)
(* empty, reports more and more keys while keys are added, and is thrown   *)
(* away as a whole.                                                        *)
(*                                                                         *)
(* SelfBloom, SelfBlockBloom512 and SelfBlockBloom64 implement it.         *)
(***************************************************************************)
EXTENDS Integers

CONSTANT Keys

VARIABLES members,   \* the keys whose insertion has completed
          reported,  \* the keys a query would find
          last       \* the last query and its answer, or <<>>

approxVars == <<members, reported, last>>

ApproxInit ==
    /\ members = {}
    /\ reported = {}
    /\ last = <<>>

\* Keys may appear, and none disappears.
Grows == reported \subseteq reported' /\ reported' \subseteq Keys

\* An insertion under way may make other keys appear too.
Spread == Grows /\ UNCHANGED <<members, last>>

\* An insertion completes only with its key reported.
Insert(k) ==
    /\ Grows
    /\ k \in reported'
    /\ members' = members \cup {k}
    /\ UNCHANGED last

Query(k) ==
    /\ last' = <<k, k \in reported>>
    /\ UNCHANGED <<members, reported>>

Discard ==
    /\ members' = {}
    /\ reported' = {}
    /\ last' = <<>>

ApproxNext ==
    \/ Spread
    \/ \E k \in Keys : Insert(k) \/ Query(k)
    \/ Discard

ApproxSpec == ApproxInit /\ [][ApproxNext]_approxVars
=============================================================================
