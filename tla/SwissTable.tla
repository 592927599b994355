----------------------------- MODULE SwissTable -----------------------------
(***************************************************************************)
(* The hash table of absl::flat_hash_map (raw_hash_set.h): open addressing *)
(* with one control byte per slot, read a group of kWidth bytes at a time. *)
(* Every table and multithreaded benchmark looks keys up in it.            *)
(*                                                                         *)
(* The first kWidth control bytes are repeated after the sentinel, so that *)
(* a group may start at any slot.  Where a key's probing starts depends on *)
(* its hash and on the address of the control bytes, which changes with    *)
(* every allocation; at which end of a group a key goes is random, since   *)
(* the program is built with assertions.                                   *)
(*                                                                         *)
(* Operations are atomic but for the loops that move elements: one step    *)
(* per element.  A failed assertion ends the program.                      *)
(***************************************************************************)
EXTENDS PowersOfTwo, FiniteSets, FiniteSetsExt

CONSTANTS Keys,
          None,          \* no key
          Seeds,         \* of the control bytes' addresses
          H1,            \* H1[seed][key], the part of the hash that is probed
          H2,            \* H2[key], the part kept in the control byte
          kWidth,        \* the bytes of a group: 16 with SSE2, or 8
          LoadDivisor,   \* 8: one slot in so many stays empty
          KeptCapacity,  \* 127: clear keeps the arrays of tables up to this
          BucketCounts,  \* arguments of the constructor, rehash and reserve
          MaxCapacity    \* bound: no table grows beyond it

\* 2^n - 1, up to the bound.
Capacities == {c \in 1..MaxCapacity : IsPowerOfTwo(c + 1)}

\* What is assumed of the constants.
Parameters ==
    /\ IsFiniteSet(Keys) /\ None \notin Keys /\ Seeds # {}
    /\ H1 \in [Seeds -> [Keys -> Nat]]
    /\ H2 \in [Keys -> 0..127]
    /\ kWidth + kWidth - 1 \in Capacities
    /\ LoadDivisor \in 2..kWidth
    /\ KeptCapacity \in Nat
    /\ BucketCounts \subseteq 0..MaxCapacity
    /\ MaxCapacity \in Capacities

kEmpty == -128
kDeleted == -2
kSentinel == -1

VARIABLES pc,                    \* "ready", in a loop, or "aborted"
          ctrl, slots, capacity, seed,
          size, growth_left,
          old,                   \* the arrays a loop moves elements from
          i,                     \* the loop's index
          key                    \* the key to insert after the loop

vars == <<pc, ctrl, slots, capacity, seed, size, growth_left, old, i, key>>

IsFull(c) == c >= 0

\* is_small
IsSmall(cap) == cap < kWidth - 1

CapacityToGrowth(cap) ==
    IF kWidth = LoadDivisor /\ cap = kWidth - 1 THEN cap - 1 ELSE cap - cap \div LoadDivisor

GrowthToLowerboundCapacity(growth) ==
    CASE growth = 0 -> 0
      [] kWidth = LoadDivisor /\ growth = kWidth - 1 -> kWidth
      [] OTHER -> growth + (growth - 1) \div (LoadDivisor - 1)

NormalizeCapacity(n) == Min({c \in Capacities : c >= n})

\* reset_ctrl; for capacity 0 these are EmptyGroup's bytes.  One more byte is
\* allocated, which may be written but which no group reaches.
ResetCtrl(cap) == [p \in 0..(cap + kWidth - 1) |-> IF p = cap THEN kSentinel ELSE kEmpty]

EmptySlots(cap) == [p \in 0..(cap - 1) |-> None]

\* probe(hash).offset() after n calls of next().
ProbeOffset(sd, cap, k, n) == (H1[sd][k] + kWidth * ((n * (n + 1)) \div 2)) % (cap + 1)

\* The probes after which groups repeat.
Probes(cap) == 0..(cap \div kWidth)

MatchEmpty(c, pos) == {m \in 0..(kWidth - 1) : c[pos + m] = kEmpty}

MatchEmptyOrDeleted(c, pos) == {m \in 0..(kWidth - 1) : c[pos + m] \in {kEmpty, kDeleted}}

\* set_ctrl: the byte and its clone, which are one byte past the first group.
CloneIndex(cap, p) == ((p - kWidth) % (cap + 1)) + 1 + ((kWidth - 1) % (cap + 1))

\* Mutant: only the byte itself.
SetCtrlAlone(c, cap, p, h) == [q \in DOMAIN c |-> IF q = p THEN h ELSE c[q]]

SetCtrl(c, cap, p, h) == [q \in DOMAIN c |-> IF q \in {p, CloneIndex(cap, p)} THEN h ELSE c[q]]

\* find: a slot, "end" or, if no group stops the probing, "endless".
End == -1
Endless == -2

\* The bytes of the n-th group whose slots hold the key.
Match(c, sl, sd, cap, k, n) ==
    LET offset == ProbeOffset(sd, cap, k, n) IN
    {m \in 0..(kWidth - 1) : c[offset + m] = H2[k] /\ sl[(offset + m) % (cap + 1)] = k}

Find(c, sl, sd, cap, k) ==
    LET Hits(n) == Match(c, sl, sd, cap, k, n)
        Stops == {n \in Probes(cap) : Hits(n) # {} \/ MatchEmpty(c, ProbeOffset(sd, cap, k, n)) # {}}
        last == Min(Stops)
    IN  CASE Stops = {} -> Endless
          [] Stops # {} /\ Hits(last) = {} -> End
          [] OTHER -> (ProbeOffset(sd, cap, k, last) + Min(Hits(last))) % (cap + 1)

\* find_first_non_full: the slots it may return; none when the table is full.
FindFirstNonFull(c, sd, cap, k) ==
    LET Free(n) == MatchEmptyOrDeleted(c, ProbeOffset(sd, cap, k, n))
        Groups == {n \in Probes(cap) : Free(n) # {}}
        first == Min(Groups)
        Ends == IF IsSmall(cap) THEN {Min(Free(first))} ELSE {Min(Free(first)), Max(Free(first))}
    IN  IF Groups = {} THEN {}
        ELSE {(ProbeOffset(sd, cap, k, first) + m) % (cap + 1) : m \in Ends}

FirstNonFull(k) == FindFirstNonFull(ctrl, seed, capacity, k)

\* The next index of a loop that skips what it has nothing to do for.
NextFull(c, cap, p) == Min({q \in p..cap : q = cap \/ IsFull(c[q])})

NextDeleted(c, cap, p) == Min({q \in p..cap : q = cap \/ c[q] = kDeleted})

NoArrays == [ctrl |-> ResetCtrl(0), slots |-> EmptySlots(0), capacity |-> 0, size |-> 0]

Arrays == [ctrl |-> ctrl, slots |-> slots, capacity |-> capacity, size |-> size]

\* initialize_slots, apart from growth_left: new arrays at another address.
InitializeSlots(cap) ==
    /\ capacity' = cap
    /\ ctrl' = ResetCtrl(cap) /\ slots' = EmptySlots(cap)
    /\ seed' \in Seeds

-----------------------------------------------------------------------------
(* Actions.                                                                *)

\* raw_hash_set(bucket_count)
Init ==
    /\ pc = "ready"
    /\ \E n \in BucketCounts :
          capacity = IF n = 0 THEN 0 ELSE NormalizeCapacity(n)
    /\ ctrl = ResetCtrl(capacity) /\ slots = EmptySlots(capacity)
    /\ seed \in Seeds
    /\ size = 0 /\ growth_left = CapacityToGrowth(capacity)
    /\ old = NoArrays /\ i = 0 /\ key = None

Abort == pc' = "aborted" /\ UNCHANGED <<ctrl, slots, capacity, seed, size, growth_left, old, i, key>>

\* Mutant: a tombstone that is filled is charged too.
PlaceCharged(k, t) ==
    /\ size' = size + 1
    /\ growth_left' = growth_left - 1
    /\ ctrl' = SetCtrl(ctrl, capacity, t, H2[k])
    /\ slots' = [slots EXCEPT ![t] = k]
    /\ pc' = IF t < capacity /\ Find(ctrl', slots', seed, capacity, k) = t
             THEN "ready" ELSE "aborted"
    /\ old' = NoArrays /\ i' = 0 /\ key' = None
    /\ UNCHANGED <<capacity, seed>>

\* The end of prepare_insert, and emplace_at with its assertion.
Place(k, t) ==
    /\ size' = size + 1
    /\ growth_left' = growth_left - (IF ctrl[t] = kEmpty THEN 1 ELSE 0)
    /\ ctrl' = SetCtrl(ctrl, capacity, t, H2[k])
    /\ slots' = [slots EXCEPT ![t] = k]
    /\ pc' = IF t < capacity /\ Find(ctrl', slots', seed, capacity, k) = t
             THEN "ready" ELSE "aborted"
    /\ old' = NoArrays /\ i' = 0 /\ key' = None
    /\ UNCHANGED <<capacity, seed>>

\* resize, up to its loop; k is inserted after it.
Resize(cap, k) ==
    /\ pc' = "resize"
    /\ old' = Arrays /\ i' = NextFull(ctrl, capacity, 0) /\ key' = k
    /\ InitializeSlots(cap)
    /\ growth_left' = CapacityToGrowth(cap) - size
    /\ UNCHANGED size

\* ConvertDeletedToEmptyAndFullToDeleted
Converted ==
    LET c == [p \in 0..capacity |-> IF IsFull(ctrl[p]) THEN kDeleted ELSE kEmpty] IN
    [p \in DOMAIN ctrl |-> CASE p < capacity -> c[p]
                             [] p = capacity -> kSentinel
                             [] OTHER -> c[p - capacity - 1]]

\* drop_deletes_without_resize, up to its loop.
DropDeletes(k) ==
    IF IsSmall(capacity) THEN Abort
    ELSE /\ pc' = "drop"
         /\ ctrl' = Converted
         /\ i' = NextDeleted(ctrl', capacity, 0) /\ key' = k
         /\ UNCHANGED <<slots, capacity, seed, size, growth_left, old>>

\* Mutant: every table that is not over its growth is cleaned in place.
RehashAndGrowInPlace(k) ==
    CASE capacity = 0 -> Resize(1, k)
      [] capacity # 0 /\ size <= CapacityToGrowth(capacity) -> DropDeletes(k)
      [] OTHER -> 2 * capacity + 1 <= MaxCapacity /\ Resize(2 * capacity + 1, k)

\* rehash_and_grow_if_necessary
RehashAndGrow(k) ==
    CASE capacity = 0 -> Resize(1, k)
      [] capacity # 0 /\ size <= CapacityToGrowth(capacity) \div 2 -> DropDeletes(k)
      [] OTHER -> 2 * capacity + 1 <= MaxCapacity /\ Resize(2 * capacity + 1, k)

\* emplace of a key that find_or_prepare_insert does not find.
Insert(k) ==
    /\ pc = "ready"
    /\ Find(ctrl, slots, seed, capacity, k) = End
    /\ IF FirstNonFull(k) = {} THEN Abort
       ELSE \E t \in FirstNonFull(k) :
               IF growth_left = 0 /\ ctrl[t] # kDeleted THEN RehashAndGrow(k) ELSE Place(k, t)

\* Mutant: the slot after a full one is not looked at.
ResizeStepSkips ==
    /\ pc = "resize" /\ i # old.capacity
    /\ LET k == old.slots[i] IN
       \E t \in FirstNonFull(k) :
          /\ ctrl' = SetCtrl(ctrl, capacity, t, H2[k])
          /\ slots' = [slots EXCEPT ![t] = k]
          /\ i' = IF i + 2 > old.capacity THEN old.capacity
                  ELSE NextFull(old.ctrl, old.capacity, i + 2)
          /\ UNCHANGED <<pc, capacity, seed, size, growth_left, old, key>>

\* One element of resize's loop.
ResizeStep ==
    /\ pc = "resize" /\ i # old.capacity
    /\ LET k == old.slots[i] IN
       IF FirstNonFull(k) = {} THEN Abort
       ELSE \E t \in FirstNonFull(k) :
             /\ ctrl' = SetCtrl(ctrl, capacity, t, H2[k])
             /\ slots' = [slots EXCEPT ![t] = k]
             /\ i' = NextFull(old.ctrl, old.capacity, i + 1)
             /\ pc' = IF t < capacity THEN pc ELSE "aborted"
             /\ UNCHANGED <<capacity, seed, size, growth_left, old, key>>

ResizeEnd ==
    /\ pc = "resize" /\ i = old.capacity
    /\ pc' = "rehashed" /\ old' = NoArrays /\ i' = 0
    /\ UNCHANGED <<ctrl, slots, capacity, seed, size, growth_left, key>>

\* The group of the key's probing that a slot is in.
ProbeIndex(k, p) == ((p - ProbeOffset(seed, capacity, k, 0)) % (capacity + 1)) \div kWidth

\* Mutant: an element that changed places is not marked as placed.
DropStepUnmarked ==
    /\ pc = "drop" /\ i # capacity
    /\ LET k == slots[i] IN
       \E t \in FirstNonFull(k) :
          IF ProbeIndex(k, t) = ProbeIndex(k, i)
          THEN /\ ctrl' = SetCtrl(ctrl, capacity, i, H2[k])
               /\ i' = NextDeleted(ctrl', capacity, i + 1)
               /\ UNCHANGED slots
          ELSE /\ slots' = [slots EXCEPT ![t] = k, ![i] = slots[t]]
               /\ UNCHANGED <<ctrl, i>>
    /\ UNCHANGED <<pc, capacity, seed, size, growth_left, old, key>>

\* One element of drop_deletes_without_resize's loop: it stays, or moves to an
\* empty slot, or changes places with an element that has yet to be placed.
DropStep ==
    /\ pc = "drop" /\ i # capacity
    /\ LET k == slots[i] IN
       IF FirstNonFull(k) = {} THEN Abort
       ELSE \E t \in FirstNonFull(k) :
             /\ CASE ProbeIndex(k, t) = ProbeIndex(k, i) ->
                       /\ ctrl' = SetCtrl(ctrl, capacity, i, H2[k])
                       /\ i' = NextDeleted(ctrl', capacity, i + 1)
                       /\ UNCHANGED slots
                  [] ProbeIndex(k, t) # ProbeIndex(k, i) /\ ctrl[t] = kEmpty ->
                       /\ ctrl' = SetCtrl(SetCtrl(ctrl, capacity, t, H2[k]), capacity, i, kEmpty)
                       /\ slots' = [slots EXCEPT ![t] = k, ![i] = None]
                       /\ i' = NextDeleted(ctrl', capacity, i + 1)
                  [] OTHER ->
                       /\ ctrl' = SetCtrl(ctrl, capacity, t, H2[k])
                       /\ slots' = [slots EXCEPT ![t] = k, ![i] = slots[t]]
                       /\ UNCHANGED i
             /\ pc' = IF t < capacity /\ ctrl[t] \in {kEmpty, kDeleted} THEN pc ELSE "aborted"
    /\ UNCHANGED <<capacity, seed, size, growth_left, old, key>>

DropEnd ==
    /\ pc = "drop" /\ i = capacity
    /\ growth_left' = CapacityToGrowth(capacity) - size
    /\ pc' = "rehashed" /\ i' = 0
    /\ UNCHANGED <<ctrl, slots, capacity, seed, size, old, key>>

\* rehash returns, or prepare_insert goes on.
AfterRehash ==
    /\ pc = "rehashed"
    /\ IF key = None
       THEN pc' = "ready" /\ UNCHANGED <<ctrl, slots, capacity, seed, size, growth_left, old, i, key>>
       ELSE IF FirstNonFull(key) = {} THEN Abort
       ELSE \E t \in FirstNonFull(key) : Place(key, t)

\* erase_meta_only's was_never_full: no group around p can have been full.
WasNeverFull(p) ==
    LET after == MatchEmpty(ctrl, p)
        before == MatchEmpty(ctrl, (p - kWidth) % (capacity + 1))
    IN  /\ before # {} /\ after # {}
        /\ Min(after) + (kWidth - 1 - Max(before)) < kWidth

\* erase of a key that is there.
Erase(k) ==
    /\ pc = "ready"
    /\ LET p == Find(ctrl, slots, seed, capacity, k) IN
       /\ p >= 0
       /\ size' = size - 1
       /\ ctrl' = SetCtrl(ctrl, capacity, p, IF WasNeverFull(p) THEN kEmpty ELSE kDeleted)
       /\ growth_left' = growth_left + (IF WasNeverFull(p) THEN 1 ELSE 0)
       /\ slots' = [slots EXCEPT ![p] = None]
    /\ UNCHANGED <<pc, capacity, seed, old, i, key>>

\* destroy_slots: back to EmptyGroup.
DestroySlots ==
    /\ capacity' = 0 /\ ctrl' = ResetCtrl(0) /\ slots' = EmptySlots(0)
    /\ size' = 0 /\ growth_left' = 0
    /\ UNCHANGED <<pc, seed, old, i, key>>

Clear ==
    /\ pc = "ready"
    /\ IF capacity > KeptCapacity THEN DestroySlots
       ELSE /\ size' = 0
            /\ ctrl' = ResetCtrl(capacity) /\ slots' = EmptySlots(capacity)
            /\ growth_left' = CapacityToGrowth(capacity)
            /\ UNCHANGED <<pc, capacity, seed, old, i, key>>

\* The larger of two numbers: or-ing them rounds up to the same capacity.
Rehash(n) ==
    /\ pc = "ready" /\ (n # 0 \/ capacity # 0)
    /\ LET m == Max({n, GrowthToLowerboundCapacity(size)}) IN
       \/ n = 0 /\ size = 0 /\ DestroySlots
       \/ /\ ~(n = 0 /\ size = 0)
          /\ m <= MaxCapacity
          /\ n = 0 \/ NormalizeCapacity(m) > capacity
          /\ Resize(NormalizeCapacity(m), None)

Reserve(n) == Rehash(GrowthToLowerboundCapacity(n))

\* The copy constructor reserves and takes over the elements in the order of
\* iteration.  The copy replaces the table, as in a copy assignment.
Copy ==
    /\ pc = "ready"
    /\ LET cap == IF size = 0 THEN 0 ELSE NormalizeCapacity(GrowthToLowerboundCapacity(size)) IN
       /\ InitializeSlots(cap)
       /\ growth_left' = CapacityToGrowth(cap)
    /\ old' = Arrays /\ i' = NextFull(ctrl, capacity, 0)
    /\ size' = 0 /\ pc' = "copy"
    /\ UNCHANGED key

CopyStep ==
    /\ pc = "copy" /\ i # old.capacity
    /\ LET k == old.slots[i] IN
       IF FirstNonFull(k) = {} THEN Abort
       ELSE \E t \in FirstNonFull(k) :
             /\ ctrl' = SetCtrl(ctrl, capacity, t, H2[k])
             /\ slots' = [slots EXCEPT ![t] = k]
             /\ i' = NextFull(old.ctrl, old.capacity, i + 1)
             /\ pc' = IF t < capacity /\ Find(ctrl', slots', seed, capacity, k) = t
                      THEN pc ELSE "aborted"
             /\ UNCHANGED <<capacity, seed, size, growth_left, old, key>>

CopyEnd ==
    /\ pc = "copy" /\ i = old.capacity
    /\ size' = old.size /\ growth_left' = growth_left - old.size
    /\ pc' = "ready" /\ old' = NoArrays /\ i' = 0
    /\ UNCHANGED <<ctrl, slots, capacity, seed, key>>

Loop == ResizeStep \/ ResizeEnd \/ DropStep \/ DropEnd \/ AfterRehash \/ CopyStep \/ CopyEnd

Next ==
    \/ \E k \in Keys : Insert(k) \/ Erase(k)
    \/ \E n \in BucketCounts : Rehash(n) \/ Reserve(n)
    \/ Clear \/ Copy
    \/ Loop

Spec == Init /\ [][Next]_vars

-----------------------------------------------------------------------------
(* Properties.                                                             *)

Full(c, cap) == {p \in 0..(cap - 1) : IsFull(c[p])}

\* While it is rehashed a table's elements are in two places.
Contents ==
    CASE pc = "drop" -> {slots[p] : p \in {p \in 0..(capacity - 1) : slots[p] # None}}
      [] pc \in {"resize", "copy"} ->
            {slots[p] : p \in Full(ctrl, capacity)}
            \cup {old.slots[p] : p \in {p \in Full(old.ctrl, old.capacity) : p >= i}}
      [] OTHER -> {slots[p] : p \in Full(ctrl, capacity)}

\* find ends for every key, and finds exactly the keys of the table, which are in
\* one slot each: no erased key hides one that was probed past it.
LookupsExact ==
    pc = "ready" =>
        \A k \in Keys :
            LET at == {p \in Full(ctrl, capacity) : slots[p] = k} IN
            IF at = {} THEN Find(ctrl, slots, seed, capacity, k) = End
            ELSE at = {Find(ctrl, slots, seed, capacity, k)}

\* growth_left counts the empty slots that may still be filled, so that one in
\* LoadDivisor stays empty and every probing of a large table meets one.
Accounting ==
    pc = "ready" =>
        /\ size = Cardinality(Full(ctrl, capacity))
        /\ growth_left >= 0
        /\ growth_left = CapacityToGrowth(capacity)
               - Cardinality({p \in 0..(capacity - 1) : ctrl[p] # kEmpty})

\* The control bytes after the sentinel repeat the first ones, in every state: a
\* group that runs over the end sees what one at the start would see.
ClonesAgree ==
    /\ ctrl[capacity] = kSentinel
    /\ \A p \in (capacity + 1)..(capacity + kWidth - 1) :
           ctrl[p] = IF p - capacity - 1 < capacity THEN ctrl[p - capacity - 1] ELSE kEmpty

\* No assertion of raw_hash_set.h fails: a slot is found when one is needed, an
\* inserted key is found again, and no small table has tombstones to drop.
AssertionsHold == pc # "aborted"

Deleted(c) == {p \in DOMAIN c : c[p] = kDeleted}

\* Dropping tombstones ends, although elements change places and the loop stays
\* where it is: every step leaves fewer elements to be placed.
DroppingEnds ==
    [][pc = "drop" /\ pc' = "drop" =>
          Deleted(ctrl') \subseteq Deleted(ctrl) /\ Deleted(ctrl') # Deleted(ctrl)]_vars
=============================================================================
