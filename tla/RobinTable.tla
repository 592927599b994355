----------------------------- MODULE RobinTable -----------------------------
(***************************************************************************)
(* The hash table of tsl::robin_map (tsl/robin_hash.h): linear probing in  *)
(* which an element that is far from its ideal bucket takes the place of   *)
(* one that is nearer to its own, so that a lookup may stop early.         *)
(*                                                                         *)
(* Buckets store 32 bits of the hash; a rehash uses those as long as they  *)
(* determine the new bucket.  The table does not shrink (min_load_factor   *)
(* is 0).  Distances are 16-bit integers in the code: the model is for     *)
(* tables in which none is that long.                                      *)
(*                                                                         *)
(* Operations are atomic but for the loops that place elements: one step   *)
(* per bucket.                                                             *)
(***************************************************************************)
EXTENDS PowersOfTwo, FiniteSets, FiniteSetsExt

CONSTANTS Keys,
          None,         \* no key
          Hashes,       \* hash functions, as functions of the keys
          Truncated,    \* 2^32: what of a hash is stored
          Loads,        \* percentages for max_load_factor, the default first
          DistLimit,    \* DIST_FROM_IDEAL_BUCKET_LIMIT
          MaxMatches,   \* max_matches of find_guaranteed
          IntLimit,     \* 2^31: an int is below it
          Counts,       \* arguments of the constructor, rehash and reserve
          MaxBuckets    \* bound: no table grows beyond it

ASSUME RobinTableAssumption ==
    /\ IsFiniteSet(Keys) /\ None \notin Keys
    /\ Hashes # {} /\ Hashes \subseteq [Keys -> Nat]
    /\ IsPowerOfTwo(Truncated)
    /\ IsPowerOfTwo(MaxBuckets)
    /\ 1 \in DOMAIN Loads /\ \A n \in DOMAIN Loads : Loads[n] \in 20..95
    /\ DistLimit \in Nat /\ MaxMatches \in Nat /\ IntLimit \in Nat \ {0}
    /\ Counts \subseteq 0..MaxBuckets

VARIABLES hash,         \* the table's hash function
          pc,           \* "ready", or the loop that runs
          buckets, bucket_count, nb_elements, grow_on_next_insert,
          max_load_factor,
          old, i,       \* the buckets a rehash reads, and where it is
          carry,        \* the element in hand
          ibucket,      \* the bucket it is compared with
          key           \* the key being inserted

vars == <<hash, pc, buckets, bucket_count, nb_elements, grow_on_next_insert,
          max_load_factor, old, i, carry, ibucket, key>>

\* A bucket; the hash of an empty one is never looked at.
Entry(d, h, k) == [dist |-> d, hash |-> h, key |-> k]
Empty == Entry(-1, 0, None)

\* With a count of 0 there is one bucket, static and empty.
EmptyBuckets(n) == [b \in 0..(Max({n, 1}) - 1) |-> Empty]

truncate(h) == h % Truncated

\* round_up_to_power_of_two
RoundUp(c) == Min({n \in 0..MaxBuckets : n >= c /\ (n = 0 \/ IsPowerOfTwo(n))})

load_threshold(n) == (n * max_load_factor) \div 100

\* The buckets that hold c elements under the load factor, rounded up.
CountFor(c) == (c * 100 + max_load_factor - 1) \div max_load_factor

bucket_for_hash(h, n) == IF n = 0 THEN 0 ELSE h % n

next_bucket(b) == (b + 1) % Max({bucket_count, 1})

\* The bucket at a distance from a key's ideal one.
Away(k, d) == (bucket_for_hash(hash[k], bucket_count) + d) % Max({bucket_count, 1})

Hit(k, d) ==
    LET e == buckets[Away(k, d)] IN
    d <= e.dist /\ e.hash = truncate(hash[k]) /\ e.key = k

\* Where the loop of find_impl and insert_impl ends.
SearchEnd(k) == Min({d \in 0..Max({bucket_count, 1}) : d > buckets[Away(k, d)].dist})

\* find_impl: a bucket, or -1.
find_impl(k) ==
    LET hits == {d \in 0..(SearchEnd(k) - 1) : Hit(k, d)} IN
    IF hits = {} THEN -1 ELSE Away(k, Min(hits))

\* Mutant: the first bucket with the hash is taken for the key's.
find_guaranteed_first(k) ==
    LET matches == {d \in 0..(SearchEnd(k) - 1) : buckets[Away(k, d)].hash = truncate(hash[k])}
    IN  IF matches = {} THEN -1 ELSE Away(k, Min(matches))

\* A bucket number in the array hash_matches, which is one of ints.
hash_match(b) == ((b + IntLimit) % (2 * IntLimit)) - IntLimit

\* find_guaranteed_impl, for keys known to be there: a single bucket with the
\* hash is not compared.
find_guaranteed_impl(k) ==
    LET matches == {d \in 0..(SearchEnd(k) - 1) : buckets[Away(k, d)].hash = truncate(hash[k])}
        own == {d \in matches : buckets[hash_match(Away(k, d))].key = k}
    IN  CASE Cardinality(matches) >= MaxMatches -> find_impl(k)
          [] Cardinality(matches) = 1 -> hash_match(Away(k, Min(matches)))
          [] OTHER -> IF own = {} THEN -1 ELSE hash_match(Away(k, Min(own)))

-----------------------------------------------------------------------------
(* Actions.                                                                *)

Init ==
    /\ hash \in Hashes
    /\ pc = "ready"
    /\ bucket_count \in {RoundUp(c) : c \in Counts}
    /\ buckets = EmptyBuckets(bucket_count)
    /\ nb_elements = 0 /\ grow_on_next_insert = FALSE /\ max_load_factor = Loads[1]
    /\ old = EmptyBuckets(0) /\ i = 0
    /\ carry = Empty /\ ibucket = 0 /\ key = None

\* rehash_impl, up to its loop; k is inserted after it.
RehashTo(n, k) ==
    /\ n <= MaxBuckets
    /\ pc' = "rehash"
    /\ bucket_count' = n /\ buckets' = EmptyBuckets(n)
    /\ old' = buckets /\ i' = 0 /\ key' = k
    /\ grow_on_next_insert' = FALSE
    /\ UNCHANGED <<hash, max_load_factor, nb_elements, carry, ibucket>>

\* The end of insert_impl: an empty bucket is filled; an element is displaced
\* and goes on to the next bucket.
InsertAt(k) ==
    LET d == SearchEnd(k)
        b == Away(k, d)
    IN  /\ buckets' = [buckets EXCEPT ![b] = Entry(d, truncate(hash[k]), k)]
        /\ IF buckets[b] = Empty
           THEN /\ pc' = "ready" /\ nb_elements' = nb_elements + 1 /\ key' = None
                /\ UNCHANGED <<carry, ibucket>>
           ELSE /\ pc' = "displace" /\ key' = k
                /\ carry' = [buckets[b] EXCEPT !.dist = @ + 1] /\ ibucket' = next_bucket(b)
                /\ UNCHANGED nb_elements
        /\ UNCHANGED <<hash, max_load_factor, bucket_count, grow_on_next_insert, old, i>>

\* insert_impl of a key that is not there.
Insert(k) ==
    /\ pc = "ready" /\ find_impl(k) = -1
    /\ IF grow_on_next_insert \/ nb_elements >= load_threshold(bucket_count)
       THEN RehashTo(2 * Max({bucket_count, 1}), k) ELSE InsertAt(k)

\* One bucket of insert_value_impl's loop.
Displace ==
    /\ pc = "displace"
    /\ IF buckets[ibucket] = Empty
       THEN /\ buckets' = [buckets EXCEPT ![ibucket] = carry]
            /\ nb_elements' = nb_elements + 1
            /\ pc' = "ready" /\ carry' = Empty /\ ibucket' = 0 /\ key' = None
            /\ UNCHANGED grow_on_next_insert
       ELSE /\ IF carry.dist > buckets[ibucket].dist
               THEN /\ buckets' = [buckets EXCEPT ![ibucket] = carry]
                    /\ carry' = [buckets[ibucket] EXCEPT !.dist = @ + 1]
                    /\ grow_on_next_insert' = (grow_on_next_insert \/ carry.dist >= DistLimit)
               ELSE /\ carry' = [carry EXCEPT !.dist = @ + 1]
                    /\ UNCHANGED <<buckets, grow_on_next_insert>>
            /\ ibucket' = next_bucket(ibucket)
            /\ UNCHANGED <<pc, nb_elements, key>>
    /\ UNCHANGED <<hash, max_load_factor, bucket_count, old, i>>

\* The hash a rehash uses: the stored part, if it determines the bucket.
RehashHash(e) == IF bucket_count <= Truncated THEN e.hash ELSE hash[e.key]

Unread == {b \in DOMAIN old : b >= i /\ old[b] # Empty}

\* The next element of rehash_impl's loop.
RehashNext ==
    /\ pc = "rehash"
    /\ LET e == old[Min(Unread)]
       IN  /\ Unread # {}
           /\ pc' = "place" /\ i' = Min(Unread) + 1
           /\ carry' = Entry(0, truncate(RehashHash(e)), e.key)
           /\ ibucket' = bucket_for_hash(RehashHash(e), bucket_count)
    /\ UNCHANGED <<hash, max_load_factor, buckets, bucket_count, nb_elements, grow_on_next_insert, old, key>>

\* One bucket of insert_value_on_rehash's loop.
RehashPlace ==
    /\ pc = "place"
    /\ IF buckets[ibucket] = Empty
       THEN /\ buckets' = [buckets EXCEPT ![ibucket] = carry]
            /\ pc' = "rehash" /\ carry' = Empty /\ ibucket' = 0
       ELSE /\ IF carry.dist > buckets[ibucket].dist
               THEN /\ buckets' = [buckets EXCEPT ![ibucket] = carry]
                    /\ carry' = [buckets[ibucket] EXCEPT !.dist = @ + 1]
               ELSE carry' = [carry EXCEPT !.dist = @ + 1] /\ UNCHANGED buckets
            /\ ibucket' = next_bucket(ibucket)
            /\ UNCHANGED pc
    /\ UNCHANGED <<hash, max_load_factor, bucket_count, nb_elements, grow_on_next_insert, old, i, key>>

RehashEnd ==
    /\ pc = "rehash" /\ Unread = {}
    /\ pc' = "rehashed" /\ old' = EmptyBuckets(0) /\ i' = 0
    /\ UNCHANGED <<hash, max_load_factor, buckets, bucket_count, nb_elements,
                   grow_on_next_insert, carry, ibucket, key>>

\* rehash returns, or insert_impl searches again and inserts.
AfterRehash ==
    /\ pc = "rehashed"
    /\ IF key # None THEN InsertAt(key)
       ELSE pc' = "ready" /\ UNCHANGED <<hash, max_load_factor, buckets, bucket_count, nb_elements,
                                        grow_on_next_insert, old, i, carry, ibucket, key>>

\* Mutant: the bucket is emptied and nothing moves up.
EraseHole(k) ==
    /\ pc = "ready" /\ find_impl(k) # -1
    /\ buckets' = [buckets EXCEPT ![find_impl(k)] = Empty]
    /\ nb_elements' = nb_elements - 1
    /\ UNCHANGED <<hash, max_load_factor, pc, bucket_count, grow_on_next_insert, old, i, carry, ibucket, key>>

\* erase(key) and erase_from_bucket: the elements that follow and are not in
\* their ideal buckets move back by one.
Erase(k) ==
    /\ pc = "ready" /\ find_impl(k) # -1
    /\ LET p == find_impl(k)
           run == Min({d \in 1..bucket_count : buckets[(p + d) % bucket_count].dist <= 0})
       IN  buckets' = [b \in DOMAIN buckets |->
               LET d == (b - p) % bucket_count IN
               CASE d < run - 1 -> [buckets[next_bucket(b)] EXCEPT !.dist = @ - 1]
                 [] d = run - 1 -> Empty
                 [] OTHER -> buckets[b]]
    /\ nb_elements' = nb_elements - 1
    /\ UNCHANGED <<hash, max_load_factor, pc, bucket_count, grow_on_next_insert, old, i, carry, ibucket, key>>

Clear ==
    /\ pc = "ready"
    /\ buckets' = EmptyBuckets(bucket_count)
    /\ nb_elements' = 0 /\ grow_on_next_insert' = FALSE
    /\ UNCHANGED <<hash, max_load_factor, pc, bucket_count, old, i, carry, ibucket, key>>

Rehash(c) ==
    /\ pc = "ready"
    /\ Max({c, CountFor(nb_elements)}) <= MaxBuckets
    /\ RehashTo(RoundUp(Max({c, CountFor(nb_elements)})), None)

Reserve(c) == Rehash(CountFor(c))

\* max_load_factor(float)
SetMaxLoadFactor(f) ==
    /\ pc = "ready"
    /\ max_load_factor' = f
    /\ UNCHANGED <<hash, pc, buckets, bucket_count, nb_elements, grow_on_next_insert,
                   old, i, carry, ibucket, key>>

Next ==
    \/ \E k \in Keys : Insert(k) \/ Erase(k)
    \/ \E c \in Counts : Rehash(c) \/ Reserve(c)
    \/ \E n \in DOMAIN Loads : SetMaxLoadFactor(Loads[n])
    \/ Clear
    \/ Displace \/ RehashNext \/ RehashPlace \/ RehashEnd \/ AfterRehash

Spec == Init /\ [][Next]_vars

-----------------------------------------------------------------------------
(* Properties.                                                             *)

Stored(B) == {B[b].key : b \in {b \in DOMAIN B : B[b] # Empty}}

\* The table's keys, wherever they are while elements move.
Contents ==
    (Stored(buckets) \cup ({carry.key} \ {None})
       \cup {old[b].key : b \in Unread}) \ {key}

LookupsExact ==
    pc = "ready" =>
        \A k \in Keys :
            {b \in DOMAIN buckets : buckets[b].key = k} = {find_impl(k)} \ {-1}

Accounting ==
    pc = "ready" =>
        /\ nb_elements = Cardinality({b \in DOMAIN buckets : buckets[b] # Empty})
        /\ \E b \in DOMAIN buckets : buckets[b] = Empty

\* The order that lets a lookup stop at the first element that is nearer to its
\* ideal bucket than the key would be: every distance is the true one, and no
\* element could be one bucket nearer without being nearer than its neighbour.
RobinHoodOrder ==
    bucket_count > 0 =>
        \A b \in DOMAIN buckets : LET e == buckets[b] IN e # Empty =>
            /\ e.hash = truncate(hash[e.key])
            /\ e.dist = (b - bucket_for_hash(hash[e.key], bucket_count)) % bucket_count
            /\ e.dist <= buckets[(b - 1) % bucket_count].dist + 1

\* find_guaranteed, which does not compare keys when only one bucket has the
\* hash, finds every key that is there, in a table whose bucket numbers fit an int.
GuaranteedFindsPresent ==
    pc = "ready" /\ bucket_count <= IntLimit =>
        \A k \in Stored(buckets) : buckets[find_guaranteed_impl(k)].key = k
=============================================================================
