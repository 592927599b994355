--------------------------- MODULE SelfBloomProofs --------------------------
(***************************************************************************)
(* Proofs about the standard Bloom filter, for all word and byte sizes,    *)
(* any sizes and any set of keys.                                          *)
(***************************************************************************)
EXTENDS SelfBloom, BloomArithProofs

\* A hash is a natural number.
LEMMA KeysNat == Keys \subseteq Nat
<1>1. U32 * U32 - 1 \in Int
  BY WordAssumption
<1>2. QED
  BY <1>1, SelfBloomAssumption

\* A bit of any key is inside the array.
LEMMA AccessInArray ==
    ASSUME NEW k \in Nat, NEW j \in Nat, sizeInBytes \in Nat, sizeInBytes >= 1
    PROVE  /\ Access(k, j) \in Nat \X (0..(ByteBits - 1))
           /\ Access(k, j)[1] < sizeInBytes
<1> DEFINE p == Position(k, j)
<1>0. ByteBits \in Nat \ {0} /\ U32 \in Nat \ {0}
  BY SelfBloomAssumption, WordAssumption
<1>1. sizeInBits \in Nat \ {0} /\ sizeInBits = ByteBits * sizeInBytes
  BY <1>0 DEF sizeInBits
<1>2. p \in 0..(sizeInBits - 1)
  BY <1>1, HashRange, MultReduceBound DEF Position
<1>3. p \in Nat
  BY <1>1, <1>2
<1> HIDE DEF p
<1>4. /\ p \div ByteBits \in Nat /\ p % ByteBits \in 0..(ByteBits - 1)
      /\ p = ByteBits * (p \div ByteBits) + (p % ByteBits)
  BY <1>0, <1>3, DivMod
<1>5. ByteBits * (p \div ByteBits) < ByteBits * sizeInBytes
  BY <1>0, <1>1, <1>2, <1>4
<1>6. p \div ByteBits < sizeInBytes
  BY <1>0, <1>4, <1>5
<1>7. QED
  BY <1>4, <1>6 DEF Access, Bit, p

\* The bit a key needs depends on the filter's size only.
LEMMA AccessUnchanged ==
    ASSUME sizeInBytes' = sizeInBytes, NEW k, NEW j
    PROVE  Access(k, j)' = Access(k, j)
  BY DEF Access, Bit, Position, sizeInBits

\* Rounding up to bytes gives at least one byte, and fewer than U32 bits.
LEMMA BytesForBound ==
    ASSUME NEW n \in Nat \ {0}, n < I31
    PROVE  BytesFor(n) \in Nat /\ BytesFor(n) >= 1 /\ ByteBits * BytesFor(n) < U32
<1> DEFINE q == n \div ByteBits
           r == n % ByteBits
<1>0. /\ ByteBits \in Nat \ {0} /\ U32 \in Nat /\ I31 \in Nat
      /\ I31 + ByteBits <= U32
  BY SelfBloomAssumption, WordAssumption
<1>1. q \in Nat /\ r \in 0..(ByteBits - 1) /\ n = ByteBits * q + r
  BY <1>0, DivMod
<1> HIDE DEF q, r
<1>2. BytesFor(n) = q + (IF r # 0 THEN 1 ELSE 0)
  BY DEF BytesFor, q, r
<1>3. CASE r = 0
  <2>1. BytesFor(n) = q /\ ByteBits * q = n
    BY <1>0, <1>1, <1>2, <1>3
  <2>2. q # 0
    BY <1>0, <1>1, <1>3
  <2>3. QED
    BY <2>1, <2>2, <1>0, <1>1
<1>4. CASE r # 0
  <2>1. BytesFor(n) = q + 1
    BY <1>2, <1>4
  <2>2. ByteBits * (q + 1) = ByteBits * q + ByteBits
    BY <1>0, <1>1
  <2>3. ByteBits * q \in Nat /\ ByteBits * q <= n
    BY <1>0, <1>1
  <2>4. QED
    BY <2>1, <2>2, <2>3, <1>0, <1>1
<1>5. QED
  BY <1>3, <1>4

\* A filter has at least one hash function.
LEMMA HashesForBound ==
    ASSUME NEW b \in Nat, NEW n \in Nat \ {0}
    PROVE  HashesFor(b, n) \in Nat /\ HashesFor(b, n) >= 1
<1>1. 693147 * b \in Nat /\ 1000000 * n \in Nat \ {0}
  OBVIOUS
<1>2. (693147 * b) \div (1000000 * n) \in Nat
  BY <1>1, DivMod
<1>3. QED
  BY <1>2 DEF HashesFor

\* A new filter satisfies the invariant.
LEMMA InitInv == Init => Inv
<1> SUFFICES ASSUME Init PROVE Inv
  OBVIOUS
<1>1. TypeOK
  <2>1. returnVal \in BOOLEAN
    BY DEF Init
  <2>2. QED
    BY <2>1 DEF Init, TypeOK
<1>2. QED
  BY <1>1 DEF Init, Inv

\* Every step keeps the invariant.
LEMMA NextInv == Inv /\ [Next]_vars => Inv'
<1> SUFFICES ASSUME Inv, [Next]_vars PROVE Inv'
  OBVIOUS
<1> USE WordAssumption, SelfBloomAssumption
<1>k. Keys \subseteq Nat
  BY KeysNat
<1>1. ASSUME NEW r \in Requests, NEW n \in Elements, Construct(r, n) PROVE Inv'
  <2>1. CASE generateNumBits(r) = Unallocatable
    BY <1>1, <2>1 DEF Construct, filterVars, Inv, TypeOK
  <2>2. CASE generateNumBits(r) # Unallocatable
    <3>1. r \in Nat \ {0} /\ r < I31 /\ n \in Nat \ {0}
      BY <2>2 DEF generateNumBits
    <3>2. sizeInBytes' \in Nat /\ sizeInBytes' >= 1 /\ sizeInBits' < U32
      BY <1>1, <2>2, <3>1, BytesForBound DEF Construct, sizeInBits
    <3>3. ByteBits * sizeInBytes' \in Nat
      <4> DEFINE s == sizeInBytes'
      <4>1. s \in Nat /\ ByteBits \in Nat
        BY <3>2
      <4> HIDE DEF s
      <4>2. ByteBits * s \in Nat
        BY <4>1
      <4>3. QED
        BY <4>2 DEF s
    <3>4. numHashes' \in Nat /\ numHashes' >= 1
      BY <1>1, <2>2, <3>1, <3>3, HashesForBound DEF Construct
    <3>5. TypeOK'
      BY <1>1, <2>2, <3>2, <3>4 DEF Construct, Inv, TypeOK
    <3>6. members' = {} /\ state' = "ready" /\ bytes' = {}
      BY <1>1, <2>2 DEF Construct, Inv
    <3>7. QED
      BY <3>2, <3>4, <3>5, <3>6 DEF Inv
  <2>3. QED
    BY <2>1, <2>2
<1>2. ASSUME NEW k \in Keys, AddFirst(k) PROVE Inv'
  <2>1. \A q, j : Access(q, j)' = Access(q, j)
    BY <1>2, AccessUnchanged DEF AddFirst, filterVars
  <2>2. bytes' = bytes \cup {Access(k, 0)}
    BY <1>2 DEF AddFirst, Access
  <2>3. /\ Access(k, 0) \in Nat \X (0..(ByteBits - 1))
        /\ Access(k, 0)[1] < sizeInBytes
    <3>1. k \in Nat /\ 0 \in Nat /\ sizeInBytes \in Nat /\ sizeInBytes >= 1
      BY <1>2, <1>k DEF AddFirst, Inv, TypeOK
    <3>2. QED
      BY <3>1, AccessInArray
  <2>4. TypeOK'
    BY <1>2, <2>2, <2>3 DEF AddFirst, filterVars, Inv, TypeOK
  <2>5. \A b \in bytes' : b[1] < sizeInBytes'
    BY <1>2, <2>2, <2>3 DEF AddFirst, filterVars, Inv
  <2>6. key' \in Keys /\ i' \in 1..numHashes' /\ sizeInBits' = sizeInBits
    BY <1>2 DEF AddFirst, filterVars, Inv, TypeOK, sizeInBits
  <2>7. QED
    BY <1>2, <2>1, <2>2, <2>4, <2>5, <2>6 DEF AddFirst, filterVars, Inv, TypeOK
<1>3. CASE AddStep
  <2>1. \A q, j : Access(q, j)' = Access(q, j)
    BY <1>3, AccessUnchanged DEF AddStep, filterVars
  <2>2. /\ key \in Nat /\ i \in 1..(numHashes - 1) /\ i \in Nat /\ numHashes \in Nat
        /\ sizeInBytes \in Nat /\ sizeInBytes >= 1
    BY <1>3, <1>k DEF AddStep, Inv, TypeOK
  <2>3. bytes' = bytes \cup {Access(key, i)}
    BY <1>3 DEF AddStep, Access
  <2>4. /\ Access(key, i) \in Nat \X (0..(ByteBits - 1))
        /\ Access(key, i)[1] < sizeInBytes
    BY <2>2, AccessInArray
  <2>5. TypeOK'
    BY <1>3, <2>3, <2>4 DEF AddStep, filterVars, Inv, TypeOK
  <2>6. \A b \in bytes' : b[1] < sizeInBytes'
    BY <1>3, <2>3, <2>4 DEF AddStep, filterVars, Inv
  <2>7. \A j \in 0..(i' - 1) : Access(key, j) \in bytes'
    BY <1>3, <2>2, <2>3 DEF AddStep, Inv
  <2>8. i' \in 1..numHashes' /\ sizeInBits' = sizeInBits
    BY <1>3, <2>2 DEF AddStep, filterVars, sizeInBits
  <2>9. QED
    BY <1>3, <2>1, <2>3, <2>5, <2>6, <2>7, <2>8 DEF AddStep, filterVars, Inv
<1>4. CASE AddReturn
  <2>1. \A q, j : Access(q, j)' = Access(q, j)
    BY <1>4, AccessUnchanged DEF AddReturn, filterVars
  <2>2. TypeOK'
    <3>1. key' \in Keys \cup {0} /\ i' \in Nat
      BY <1>4 DEF AddReturn, LocalsGone
    <3>2. returnVal' \in BOOLEAN
      BY <1>4 DEF AddReturn, LocalsGone
    <3>3. QED
      BY <1>4, <3>1, <3>2 DEF AddReturn, filterVars, Inv, TypeOK
  <2>3. \A j \in 0..(numHashes - 1) : Access(key, j) \in bytes
    BY <1>4 DEF AddReturn, Inv, TypeOK
  <2>4. sizeInBits' = sizeInBits
    BY <1>4 DEF AddReturn, filterVars, sizeInBits
  <2>5. QED
    BY <1>4, <2>1, <2>2, <2>3, <2>4 DEF AddReturn, LocalsGone, filterVars, Inv
<1>5. ASSUME NEW k \in Keys, TestFirst(k) PROVE Inv'
  <2>1. \A q, j : Access(q, j)' = Access(q, j)
    BY <1>5, AccessUnchanged DEF TestFirst, filterVars
  <2>2. returnVal' \in BOOLEAN /\ (returnVal' <=> Access(k, 0) \in bytes)
    <3>1. returnVal' = (Access(k, 0) \in bytes)
      BY <1>5 DEF TestFirst, Access
    <3>2. (Access(k, 0) \in bytes) \in BOOLEAN
      OBVIOUS
    <3>3. returnVal' \in BOOLEAN
      BY <3>1, <3>2, Zenon
    <3>4. QED
      BY <3>1, <3>3
  <2>3. TypeOK'
    BY <1>5, <2>2 DEF TestFirst, filterVars, Inv, TypeOK
  <2>4. key' \in Keys /\ i' \in 1..numHashes' /\ sizeInBits' = sizeInBits
    BY <1>5 DEF TestFirst, filterVars, Inv, TypeOK, sizeInBits
  <2>5. returnVal' <=> \A j \in 0..(i' - 1) : Access(key', j) \in bytes
    BY <1>5, <2>2 DEF TestFirst
  <2>6. QED
    BY <1>5, <2>1, <2>3, <2>4, <2>5 DEF TestFirst, filterVars, Inv
<1>6. CASE TestStep
  <2>1. \A q, j : Access(q, j)' = Access(q, j)
    BY <1>6, AccessUnchanged DEF TestStep, filterVars
  <2>2. i \in 1..(numHashes - 1) /\ numHashes \in Nat
    BY <1>6 DEF TestStep, Inv, TypeOK
  <2>3. returnVal' \in BOOLEAN /\ (returnVal' <=> Access(key, i) \in bytes)
    <3>1. returnVal' = (Access(key, i) \in bytes)
      BY <1>6 DEF TestStep, Access
    <3>2. (Access(key, i) \in bytes) \in BOOLEAN
      OBVIOUS
    <3>3. returnVal' \in BOOLEAN
      BY <3>1, <3>2, Zenon
    <3>4. QED
      BY <3>1, <3>3
  <2>4. TypeOK'
    BY <1>6, <2>3 DEF TestStep, filterVars, Inv, TypeOK
  <2>5. \A j \in 0..(i - 1) : Access(key, j) \in bytes
    BY <1>6 DEF TestStep, Inv
  <2>6. returnVal' <=> \A j \in 0..i : Access(key, j) \in bytes
    BY <2>2, <2>3, <2>5
  <2>7. i' \in 1..numHashes' /\ i' - 1 = i /\ sizeInBits' = sizeInBits
    BY <1>6, <2>2 DEF TestStep, filterVars, sizeInBits
  <2>8. QED
    BY <1>6, <2>1, <2>4, <2>6, <2>7 DEF TestStep, filterVars, Inv
<1>7. CASE TestReturn
  <2>1. \A q, j : Access(q, j)' = Access(q, j)
    BY <1>7, AccessUnchanged DEF TestReturn, filterVars
  <2>2. TypeOK'
    <3>1. key' \in Keys \cup {0} /\ i' \in Nat
      BY <1>7 DEF TestReturn, LocalsGone
    <3>2. returnVal' \in BOOLEAN
      BY <1>7 DEF TestReturn, LocalsGone
    <3>3. QED
      BY <1>7, <3>1, <3>2 DEF TestReturn, filterVars, Inv, TypeOK
  <2>3. sizeInBits' = sizeInBits
    BY <1>7 DEF TestReturn, filterVars, sizeInBits
  <2>4. QED
    BY <1>7, <2>1, <2>2, <2>3 DEF TestReturn, LocalsGone, filterVars, Inv
<1>8. CASE Destroy
  BY <1>8 DEF Destroy, Inv, TypeOK
<1>9. CASE UNCHANGED vars
  <2>1. \A q, j : Access(q, j)' = Access(q, j)
    BY <1>9, AccessUnchanged DEF vars
  <2>2. QED
    BY <1>9, <2>1 DEF vars, Inv, TypeOK, sizeInBits
<1>10. QED
  BY <1>1, <1>2, <1>3, <1>4, <1>5, <1>6, <1>7, <1>8, <1>9 DEF Next, Aborted

\* The inductive invariant of the filter holds in every reachable state.
THEOREM InvHolds == Spec => []Inv
  BY InitInv, NextInv, PTL DEF Spec

\* No added key is ever missed, for any hash function and size.
THEOREM NoFalseNegativesHolds == Spec => []NoFalseNegatives
<1>1. Inv => NoFalseNegatives
  <2> SUFFICES ASSUME Inv, state = "testing", key \in members PROVE returnVal
    BY DEF NoFalseNegatives
  <2>1. \A j \in 0..(numHashes - 1) : Access(key, j) \in bytes
    BY DEF Inv
  <2>2. i \in 1..numHashes /\ numHashes \in Nat
    BY DEF Inv, TypeOK
  <2>3. QED
    BY <2>1, <2>2 DEF Inv
<1>2. QED
  BY <1>1, InvHolds, PTL

\* addValue and testValue touch only bytes of the array.
THEOREM InBoundsHolds == Spec => []InBounds
<1>1. Inv => InBounds
  <2> SUFFICES ASSUME Inv, state \in {"adding", "testing"}
               PROVE  Access(key, i)[1] < sizeInBytes
    BY DEF Inv, InBounds
  <2>1. key \in Nat /\ i \in Nat /\ sizeInBytes \in Nat /\ sizeInBytes >= 1
    BY KeysNat DEF Inv, TypeOK
  <2>2. QED
    BY <2>1, AccessInArray
<1>2. QED
  BY <1>1, InvHolds, PTL

\* What is reported depends on the shape and the bits only, while the filter
\* exists.
LEMMA ReportedUnchanged ==
    ASSUME UNCHANGED <<sizeInBytes, numHashes, bytes>>,
           state \notin {"none", "failed"}, state' \notin {"none", "failed"}
    PROVE  Reported' = Reported
<1>1. \A q, j : Access(q, j)' = Access(q, j)
  BY AccessUnchanged
<1>2. QED
  BY <1>1 DEF Reported

\* The standard filter implements an approximate set.
THEOREM RefinesApproxSet == Spec => ImplementsApproxSet
<1>1. Init => Approx!ApproxInit
  BY DEF Init, Approx!ApproxInit, Reported
<1>2. Inv /\ [Next]_vars => [Approx!ApproxNext]_(Approx!approxVars)
  <2> SUFFICES ASSUME Inv, [Next]_vars PROVE [Approx!ApproxNext]_(Approx!approxVars)
    OBVIOUS
  <2> USE DEF Approx!approxVars
  <2>1. ASSUME NEW r \in Requests, NEW n \in Elements, Construct(r, n)
        PROVE  UNCHANGED Approx!approxVars
    <3>1. Reported = {} /\ bytes' = {}
      BY <2>1 DEF Construct, Reported, Inv
    <3>2. Reported' = {}
      <4>1. CASE state' = "failed"
        BY <4>1 DEF Reported
      <4>2. CASE state' = "ready"
        <5>1. numHashes' \in Nat /\ numHashes' >= 1
          BY <4>2, NextInv DEF Inv, TypeOK
        <5>2. 0 \in 0..(numHashes' - 1)
          <6> DEFINE h == numHashes'
          <6>1. h \in Nat /\ h >= 1
            BY <5>1
          <6> HIDE DEF h
          <6>2. 0 \in 0..(h - 1)
            BY <6>1
          <6>3. QED
            BY <6>2 DEF h
        <5>3. QED
          BY <5>2, <3>1 DEF Reported
      <4>3. QED
        BY <2>1, <4>1, <4>2 DEF Construct
    <3>3. QED
      BY <2>1, <3>1, <3>2 DEF Construct
  <2>2. ASSUME NEW k \in Keys, TestFirst(k)
        PROVE  UNCHANGED Approx!approxVars
    BY <2>2, ReportedUnchanged DEF TestFirst, filterVars
  <2>a. ASSUME NEW k \in Keys, AddFirst(k)
        PROVE  Approx!ApproxNext
    <3>1. \A q, j : Access(q, j)' = Access(q, j)
      BY <2>a, AccessUnchanged DEF AddFirst, filterVars
    <3>2. Reported \subseteq Reported' /\ Reported' \subseteq Keys
      BY <2>a, <3>1 DEF AddFirst, Reported, filterVars
    <3>3. Approx!Spread
      BY <2>a, <3>2 DEF AddFirst, Approx!Spread, Approx!Grows
    <3>4. QED
      BY <3>3 DEF Approx!ApproxNext
  <2>3. CASE AddStep
    <3>1. \A q, j : Access(q, j)' = Access(q, j)
      BY <2>3, AccessUnchanged DEF AddStep, filterVars
    <3>2. Reported \subseteq Reported' /\ Reported' \subseteq Keys
      BY <2>3, <3>1 DEF AddStep, Reported, filterVars
    <3>3. Approx!Spread
      BY <2>3, <3>2 DEF AddStep, Approx!Spread, Approx!Grows
    <3>4. QED
      BY <3>3 DEF Approx!ApproxNext
  <2>4. CASE AddReturn
    <3>1. Reported' = Reported
      BY <2>4, ReportedUnchanged DEF AddReturn, filterVars
    <3>2. key \in Keys /\ key \in Reported /\ Reported \subseteq Keys
      BY <2>4 DEF AddReturn, Inv, TypeOK, Reported
    <3>3. Approx!Insert(key)
      BY <2>4, <3>1, <3>2 DEF AddReturn, Approx!Insert, Approx!Grows
    <3>4. QED
      BY <3>2, <3>3 DEF Approx!ApproxNext
  <2>5. CASE TestStep
    BY <2>5, ReportedUnchanged DEF TestStep, filterVars
  <2>6. CASE TestReturn
    <3>1. Reported' = Reported /\ key \in Keys
      BY <2>6, ReportedUnchanged DEF TestReturn, filterVars, Inv
    <3>2. i \in 1..numHashes /\ numHashes \in Nat /\ (returnVal => i = numHashes)
      BY <2>6 DEF TestReturn, Inv, TypeOK
    <3>3. returnVal <=> \A j \in 0..(numHashes - 1) : Access(key, j) \in bytes
      BY <2>6, <3>2 DEF TestReturn, Inv
    <3>4. returnVal <=> key \in Reported
      BY <2>6, <3>1, <3>3 DEF TestReturn, Reported
    <3>5. returnVal = (key \in Reported)
      BY <3>4 DEF Inv, TypeOK
    <3>6. Approx!Query(key)
      BY <2>6, <3>1, <3>5 DEF TestReturn, Approx!Query
    <3>7. QED
      BY <3>1, <3>6 DEF Approx!ApproxNext
  <2>7. CASE Destroy
    <3>1. Approx!Discard
      BY <2>7 DEF Destroy, Approx!Discard, Reported
    <3>2. QED
      BY <3>1 DEF Approx!ApproxNext
  <2>8. CASE UNCHANGED vars
    <3>1. \A q, j : Access(q, j)' = Access(q, j)
      BY <2>8, AccessUnchanged DEF vars
    <3>2. QED
      BY <2>8, <3>1 DEF vars, Reported
  <2>9. QED
    BY <2>1, <2>2, <2>a, <2>3, <2>4, <2>5, <2>6, <2>7, <2>8 DEF Next, Aborted
<1>3. QED
  BY <1>1, <1>2, InvHolds, PTL DEF Spec, ImplementsApproxSet, Approx!ApproxSpec

\* Every bit of the array is the position of some hash, for every size the
\* constructor accepts.
THEOREM EveryBitReachableHolds == Spec => []EveryBitReachable
<1>1. Inv => EveryBitReachable
  <2> SUFFICES ASSUME Inv, state = "ready", NEW p \in 0..(sizeInBits - 1)
               PROVE  \E h \in 0..(U32 - 1) : mult_reduce(h, sizeInBits) = p
    BY DEF EveryBitReachable
  <2>1. sizeInBits \in 1..(U32 - 1)
    <3>1. sizeInBytes \in Nat /\ sizeInBytes >= 1 /\ sizeInBits < U32
      BY DEF Inv, TypeOK
    <3>2. sizeInBits \in Nat \ {0}
      BY <3>1, SelfBloomAssumption DEF sizeInBits
    <3>3. QED
      BY <3>1, <3>2, WordAssumption
  <2>2. QED
    BY <2>1, MultReduceOnto
<1>2. QED
  BY <1>1, InvHolds, PTL
=============================================================================
