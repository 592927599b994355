----------------------------- MODULE DenseTable -----------------------------
(***************************************************************************)
(* The hash table of google::dense_hash_map (densehashtable.h,             *)
(* hashtable-common.h): open addressing with triangular probing.  A        *)
(* reserved key marks empty buckets and another erased ones, which keep    *)
(* their place until the table is copied; a copy also changes the size.    *)
(*                                                                         *)
(* Operations are atomic but for insertion and resize, which may copy the  *)
(* table twice: one step per decision and per element copied.  A failed    *)
(* assertion ends the program.                                             *)
(***************************************************************************)
EXTENDS PowersOfTwo, FiniteSets, FiniteSetsExt

CONSTANTS Keys,
          None,            \* the empty key
          Delkey,          \* the deleted key
          Hashes,          \* hash functions, as functions of the keys
          MinBuckets,      \* HT_MIN_BUCKETS
          StartBuckets,    \* HT_DEFAULT_STARTING_BUCKETS
          Shrink,          \* HT_EMPTY_PCT
          Grows,           \* percentages for max_load_factor, HT_OCCUPANCY_PCT first
          Requests,        \* arguments of the constructor and of resize
          MaxBuckets       \* bound: no table grows beyond it

\* What is assumed of the constants: of a load factor no more than what
\* set_resizing_parameters asserts.
Parameters ==
    /\ IsFiniteSet(Keys) /\ {None, Delkey} \cap Keys = {} /\ None # Delkey
    /\ Hashes # {} /\ Hashes \subseteq [Keys -> Nat]
    /\ IsPowerOfTwo(MinBuckets) /\ IsPowerOfTwo(StartBuckets)
    /\ MinBuckets <= StartBuckets /\ StartBuckets <= MaxBuckets
    /\ 1 \in DOMAIN Grows /\ \A n \in DOMAIN Grows : Grows[n] \in 1..100
    /\ Shrink \in Nat /\ 2 * Shrink <= Grows[1]
    /\ Requests \subseteq Nat

VARIABLES hash,            \* the table's hash function
          pc,              \* "ready", where an operation is, or "aborted"
          table, num_buckets, num_elements, num_deleted,
          grow, shrink,    \* enlarge_factor and shrink_factor, percentages
          consider_shrink,
          old, i,          \* the table being copied, and where the copy is
          next,            \* what follows the copy
          key, pos,        \* what is inserted after resizing, and where
          request,         \* the elements resize was called for
          resized          \* the position found is not to be used

vars == <<hash, pc, table, num_buckets, num_elements, num_deleted, grow, shrink, consider_shrink,
          old, i, next, key, pos, request, resized>>

shape == <<table, num_buckets, num_elements, num_deleted>>
locals == <<key, pos, request, resized>>

EmptyTable(n) == [b \in 0..(n - 1) |-> None]

size == num_elements - num_deleted

enlarge_size(n) == (n * grow) \div 100

shrink_size(n) == (n * shrink) \div 100

Powers == {n \in 1..MaxBuckets : IsPowerOfTwo(n)}

\* Sizes that hold the elements and are no less than wanted; none beyond the bound.
Sizes(elts, wanted) == {n \in Powers : n >= MinBuckets /\ n >= wanted /\ elts < enlarge_size(n)}
min_buckets(elts, wanted) == Min(Sizes(elts, wanted))

\* bucknum after n probes.
Bucket(k, n) == (hash[k] + (n * (n + 1)) \div 2) % num_buckets

\* Mutant: a probing ends at an erased bucket too.
EndsAtDeleted(k) == {n \in 0..(num_buckets - 1) : table[Bucket(k, n)] \in {None, Delkey, k}}

\* The probes of find_position; without an end its assertion fails.
Ends(k) == {n \in 0..(num_buckets - 1) : table[Bucket(k, n)] \in {None, k}}
Last(k) == Min(Ends(k))

Illegal == -1

\* find_position: where the key is, and where it would go.
Where(k) == IF table[Bucket(k, Last(k))] = k THEN Bucket(k, Last(k)) ELSE Illegal

InsertPos(k) ==
    LET dead == {n \in 0..Last(k) : table[Bucket(k, n)] = Delkey} IN
    Bucket(k, IF dead = {} THEN Last(k) ELSE Min(dead))

-----------------------------------------------------------------------------
(* Actions.                                                                *)

Init ==
    /\ hash \in Hashes
    /\ pc = "ready" /\ grow = Grows[1] /\ shrink = Shrink /\ consider_shrink = FALSE
    /\ \E n \in Requests : num_buckets = IF n = 0 THEN StartBuckets ELSE min_buckets(n, 0)
    /\ table = EmptyTable(num_buckets) /\ num_elements = 0 /\ num_deleted = 0
    /\ old = EmptyTable(0) /\ i = 0 /\ next = "ready"
    /\ key = None /\ pos = Illegal /\ request = 0 /\ resized = FALSE

Abort == pc' = "aborted" /\ UNCHANGED <<hash, shape, grow, shrink, consider_shrink, old, i, next, locals>>

\* find_or_insert of a key that is not there: find_position, then resize_delta(1).
Insert(k) ==
    /\ pc = "ready"
    /\ IF Ends(k) = {} THEN Abort
       ELSE /\ Where(k) = Illegal
            /\ key' = k /\ pos' = InsertPos(k) /\ resized' = FALSE
            /\ pc' = IF consider_shrink THEN "shrink" ELSE "enlarge"
            /\ UNCHANGED <<hash, shape, grow, shrink, consider_shrink, old, i, next, request>>

\* insert, which makes room before it looks for the key, there or not.
InsertObj(k) ==
    /\ pc = "ready"
    /\ key' = k /\ pos' = Illegal /\ resized' = TRUE
    /\ pc' = IF consider_shrink THEN "shrink" ELSE "enlarge"
    /\ UNCHANGED <<hash, shape, grow, shrink, consider_shrink, old, i, next, request>>

Resize(n) ==
    /\ pc = "ready"
    /\ request' = n
    /\ pc' = IF consider_shrink \/ n = 0 THEN "shrink" ELSE "enlarge"
    /\ UNCHANGED <<hash, shape, grow, shrink, consider_shrink, old, i, next, key, pos, resized>>

\* The copy constructor, up to copy_from's loop, and the swap that follows.
CopyTo(wanted, then) ==
    LET n == min_buckets(size, wanted) IN
    /\ Sizes(size, wanted) # {}
    /\ pc' = "copy" /\ next' = then
    /\ old' = table /\ i' = 0
    /\ table' = EmptyTable(n) /\ num_buckets' = n
    /\ num_elements' = 0 /\ num_deleted' = 0 /\ consider_shrink' = FALSE

\* The size maybe_shrink picks: halved until it is small enough.
ShrunkSize ==
    Max({n \in Powers : 2 * n <= num_buckets /\ (n <= StartBuckets \/ 100 * size >= n * shrink)})

MaybeShrink ==
    /\ pc = "shrink"
    /\ IF shrink_size(num_buckets) > 0 /\ size < shrink_size(num_buckets) /\ num_buckets > StartBuckets
       THEN CopyTo(ShrunkSize, "enlarge") /\ resized' = TRUE
       ELSE /\ pc' = "enlarge" /\ consider_shrink' = FALSE
            /\ UNCHANGED <<shape, old, i, next, resized>>
    /\ UNCHANGED <<hash, grow, shrink, key, pos, request>>

\* The size resize_delta picks: erased buckets are not counted, but it doubles
\* when most of them would have to be purged again soon.
ResizeTo(delta) ==
    LET n == min_buckets(size + delta, num_buckets) IN
    IF /\ \A m \in Sizes(num_elements - num_deleted \div 4 + delta, 0) : n < m
       /\ size + delta >= shrink_size(2 * n)
    THEN 2 * n ELSE n

\* The rest of resize_delta, for insertion and for resize.
Enlarge ==
    /\ pc = "enlarge"
    /\ LET delta == IF key # None THEN 1 ELSE request - num_elements IN
       IF \/ delta <= 0
          \/ num_elements + delta <= enlarge_size(num_buckets)
          \/ \E n \in Sizes(num_elements + delta, 0) : n <= num_buckets
       THEN /\ pc' = "resized"
            /\ UNCHANGED <<shape, consider_shrink, old, i, next, resized>>
       ELSE /\ Sizes(size + delta, num_buckets) # {}
            /\ CopyTo(ResizeTo(delta), "resized") /\ resized' = TRUE
    /\ UNCHANGED <<hash, grow, shrink, key, pos, request>>

\* The buckets the iterator of copy_from has still to visit.
ToCopy == {b \in DOMAIN old : b >= i /\ old[b] \notin {None, Delkey}}

\* One element of copy_from's loop.
CopyStep ==
    /\ pc = "copy"
    /\ LET k == old[Min(ToCopy)]
           free == {n \in 0..(num_buckets - 1) : table[Bucket(k, n)] = None}
       IN  /\ ToCopy # {}
           /\ IF free = {} THEN Abort
              ELSE /\ table' = [table EXCEPT ![Bucket(k, Min(free))] = k]
                   /\ num_elements' = num_elements + 1 /\ i' = Min(ToCopy) + 1
                   /\ UNCHANGED <<hash, pc, num_buckets, num_deleted, grow, shrink, consider_shrink,
                                  old, next, locals>>

CopyEnd ==
    /\ pc = "copy" /\ ToCopy = {}
    /\ pc' = next /\ next' = "ready" /\ old' = EmptyTable(0) /\ i' = 0
    /\ UNCHANGED <<hash, shape, grow, shrink, consider_shrink, locals>>

\* insert_at
InsertAt(k, b) ==
    /\ table' = [table EXCEPT ![b] = k]
    /\ IF table[b] = Delkey
       THEN num_deleted' = num_deleted - 1 /\ UNCHANGED num_elements
       ELSE num_elements' = num_elements + 1 /\ UNCHANGED num_deleted
    /\ UNCHANGED num_buckets

Return ==
    /\ pc' = "ready" /\ key' = None /\ pos' = Illegal /\ request' = 0 /\ resized' = FALSE
    /\ UNCHANGED <<hash, grow, shrink, consider_shrink, old, i, next>>

\* find_or_insert, where it found room, unless the table has been copied since.
InsertHere == pc = "resized" /\ key # None /\ ~resized /\ InsertAt(key, pos) /\ Return

insert_noresize ==
    /\ pc = "resized" /\ key # None /\ resized
    /\ IF Ends(key) = {} THEN Abort
       ELSE /\ Return
            /\ IF Where(key) = Illegal THEN InsertAt(key, InsertPos(key)) ELSE UNCHANGED shape

ResizeReturns == pc = "resized" /\ key = None /\ UNCHANGED shape /\ Return

\* find, which does not look into a table without elements.
Find(k) == IF size = 0 THEN Illegal ELSE Where(k)

\* erase of a key that is there.
Erase(k) ==
    /\ pc = "ready" /\ size # 0
    /\ IF Ends(k) = {} THEN Abort
       ELSE /\ Find(k) # Illegal
            /\ table' = [table EXCEPT ![Find(k)] = Delkey]
            /\ num_deleted' = num_deleted + 1 /\ consider_shrink' = TRUE
            /\ UNCHANGED <<hash, pc, num_buckets, num_elements, grow, shrink, old, i, next, locals>>

\* clear_to_size
ClearToSize(n) ==
    /\ table' = EmptyTable(n) /\ num_buckets' = n
    /\ num_elements' = 0 /\ num_deleted' = 0 /\ consider_shrink' = FALSE
    /\ UNCHANGED <<hash, pc, grow, shrink, old, i, next, locals>>

Clear ==
    /\ pc = "ready"
    /\ ~(num_elements = 0 /\ num_buckets = min_buckets(0, 0))
    /\ ClearToSize(min_buckets(0, 0))

clear_no_resize == pc = "ready" /\ ClearToSize(num_buckets)

\* set_deleted_key purges erased buckets by a copy.
set_deleted_key ==
    /\ pc = "ready" /\ num_deleted # 0
    /\ CopyTo(StartBuckets, "ready")
    /\ UNCHANGED <<hash, grow, shrink, locals>>

\* max_load_factor(float)
max_load_factor(g) ==
    /\ pc = "ready"
    /\ grow' = g /\ shrink' = Min({shrink, g \div 2}) /\ consider_shrink' = FALSE
    /\ UNCHANGED <<hash, pc, shape, old, i, next, locals>>

Next ==
    \/ \E k \in Keys : Insert(k) \/ InsertObj(k) \/ Erase(k)
    \/ \E n \in Requests : Resize(n)
    \/ \E n \in DOMAIN Grows : max_load_factor(Grows[n])
    \/ Clear \/ clear_no_resize \/ set_deleted_key
    \/ MaybeShrink \/ Enlarge \/ CopyStep \/ CopyEnd
    \/ InsertHere \/ insert_noresize \/ ResizeReturns

Spec == Init /\ [][Next]_vars

-----------------------------------------------------------------------------
(* Properties.                                                             *)

Stored(t) == {t[b] : b \in DOMAIN t} \cap Keys

\* The table's keys, in two places while it is copied.
Contents == Stored(table) \cup {old[b] : b \in ToCopy}

LookupsExact ==
    pc = "ready" =>
        \A k \in Keys : Ends(k) # {} /\ {b \in DOMAIN table : table[b] = k} = {Find(k)} \ {Illegal}

Accounting ==
    pc = "ready" =>
        /\ num_elements = Cardinality({b \in DOMAIN table : table[b] # None})
        /\ num_deleted = Cardinality({b \in DOMAIN table : table[b] = Delkey})
        /\ num_elements < num_buckets

AssertionsHold == pc # "aborted"
=============================================================================
