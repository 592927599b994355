----------------------------- MODULE HashTables -----------------------------
(***************************************************************************)
(* The table of a hash table benchmark: bench_swiss_table,                 *)
(* bench_robin_table and bench_google_table call the same template with    *)
(* one table or another.  Each is used alone, and all of them have to be   *)
(* the same set of keys to it.                                             *)
(***************************************************************************)
EXTENDS RobinTable

CONSTANTS SwissKeys, Seeds, H1, H2, kWidth, LoadDivisor, KeptCapacity, BucketCounts,
          MaxCapacity,
          DenseKeys, Delkey, DenseHashes, MinBuckets, StartBuckets, Shrink, Grows,
          Requests, MaxDenseBuckets

VARIABLES kind,
          spc, ctrl, slots, capacity, seed, size, growth_left, sold, si, skey,
          dhash, dpc, table, num_buckets, num_elements, num_deleted, grow, shrink,
          consider_shrink, dold, di, next, dkey, pos, request, resized

S == INSTANCE SwissTable
        WITH Keys <- SwissKeys, pc <- spc, old <- sold, i <- si, key <- skey

D == INSTANCE DenseTable
        WITH Keys <- DenseKeys, Hashes <- DenseHashes, MaxBuckets <- MaxDenseBuckets,
             hash <- dhash, pc <- dpc, old <- dold, i <- di, key <- dkey

ASSUME SwissTableAssumption == S!Parameters

ASSUME DenseTableAssumption == D!Parameters

svars == <<spc, ctrl, slots, capacity, seed, size, growth_left, sold, si, skey>>

dvars == <<dhash, dpc, table, num_buckets, num_elements, num_deleted, grow, shrink,
           consider_shrink, dold, di, next, dkey, pos, request, resized>>

\* What there is of the tables that are not used: nothing.
NoSwiss ==
    /\ spc = "ready" /\ capacity = 0 /\ ctrl = S!ResetCtrl(0) /\ slots = S!EmptySlots(0)
    /\ seed = Min(Seeds) /\ size = 0 /\ growth_left = 0
    /\ sold = S!NoArrays /\ si = 0 /\ skey = None

NoRobin ==
    /\ hash = (CHOOSE h \in Hashes : TRUE)
    /\ pc = "ready" /\ bucket_count = 0 /\ buckets = EmptyBuckets(0)
    /\ nb_elements = 0 /\ grow_on_next_insert = FALSE /\ max_load_factor = Loads[1]
    /\ old = EmptyBuckets(0) /\ i = 0 /\ carry = Empty /\ ibucket = 0 /\ key = None

NoDense ==
    /\ dhash = (CHOOSE h \in DenseHashes : TRUE)
    /\ dpc = "ready" /\ num_buckets = 1 /\ table = D!EmptyTable(1)
    /\ num_elements = 0 /\ num_deleted = 0
    /\ grow = Grows[1] /\ shrink = Shrink /\ consider_shrink = FALSE
    /\ dold = D!EmptyTable(0) /\ di = 0 /\ next = "ready"
    /\ dkey = None /\ pos = D!Illegal /\ request = 0 /\ resized = FALSE

TablesInit ==
    \/ kind = "swiss" /\ S!Init /\ NoRobin /\ NoDense
    \/ kind = "robin" /\ Init /\ NoSwiss /\ NoDense
    \/ kind = "google" /\ D!Init /\ NoSwiss /\ NoRobin

SwissStep == kind = "swiss" /\ S!Next /\ UNCHANGED <<kind, vars, dvars>>

RobinStep == kind = "robin" /\ Next /\ UNCHANGED <<kind, svars, dvars>>

DenseStep == kind = "google" /\ D!Next /\ UNCHANGED <<kind, svars, vars>>

TablesNext == SwissStep \/ RobinStep \/ DenseStep

TablesSpec == TablesInit /\ [][TablesNext]_<<kind, svars, vars, dvars>>

-----------------------------------------------------------------------------
(* Properties.                                                             *)

\* Insert, erase and clear change the set of keys as they should, and no rehash,
\* displacement, squashing of tombstones or copy loses or invents a key.
Set == INSTANCE HashSet
          WITH Keys <- SwissKeys \cup Keys \cup DenseKeys,
               members <- S!Contents \cup Contents \cup D!Contents,
               working <- {spc, pc, dpc} # {"ready"},
               inserting <- CASE kind = "swiss" -> skey
                              [] kind = "robin" -> key
                              [] kind = "google" -> IF dkey \in D!Contents THEN None ELSE dkey
TablesImplementHashSet == Set!Spec

\* find ends for every key and finds exactly the keys of the table, which are in
\* one slot each: nothing that was erased, displaced or moved hides a key.
TableLookupsExact == S!LookupsExact /\ LookupsExact /\ D!LookupsExact

\* The counters by which a table decides to grow agree with its slots, so that
\* an empty slot is left for every probing to end at.
TableAccounting == S!Accounting /\ Accounting /\ D!Accounting

\* No assertion of a table fails: raw_hash_set's on its capacity and its control
\* bytes, densehashtable's that a probing ends before every bucket is seen.
TableAssertionsHold == S!AssertionsHold /\ D!AssertionsHold

\* The control bytes after the sentinel repeat the first ones, in every state: a
\* group that runs over the end sees what one at the start would see.
ClonesAgree == S!ClonesAgree

\* Dropping tombstones ends, although elements change places and the loop stays
\* where it is: every step leaves fewer elements to be placed.
DroppingEnds == S!DroppingEnds
=============================================================================
