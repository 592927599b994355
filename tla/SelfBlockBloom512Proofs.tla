---------------------- MODULE SelfBlockBloom512Proofs -----------------------
(***************************************************************************)
(* Proofs about the blocked Bloom filter, for all word, byte and block     *)
(* sizes, any number of hashes and any set of keys.                        *)
(***************************************************************************)
EXTENDS SelfBlockBloom512, BloomArithProofs

\* A hash is a natural number.
LEMMA KeysNat == Keys \subseteq Nat
<1>1. U32 * U32 - 1 \in Int
  BY WordAssumption
<1>2. QED
  BY <1>1, Block512Assumption

\* A bit of any key is inside the filter's blocks.
LEMMA AccessInBlocks ==
    ASSUME NEW k \in Nat, NEW j \in Nat, numBlocks \in Nat, numBlocks >= 1
    PROVE  /\ Access(k, j) \in Nat \X (0..(ByteBits - 1))
           /\ Access(k, j)[1] < BlockBytes * numBlocks
<1> DEFINE b == mult_reduce(hash1(k), numBlocks)
           d == double_hash(k, j)
           w == d % BlockBits
           o == (BlockBytes * b) % U32
<1>0. /\ ByteBits \in Nat \ {0} /\ BlockBytes \in Nat \ {0} /\ U32 \in Nat \ {0}
      /\ BlockBits = ByteBits * BlockBytes
  BY Block512Assumption, WordAssumption DEF BlockBits
<1>1. BlockBits \in Nat \ {0}
  BY <1>0
<1>2. b \in 0..(numBlocks - 1)
  BY HashRange, MultReduceBound
<1>3. w \in 0..(BlockBits - 1) /\ w \in Nat
  <2>1. d \in Nat
    BY <1>0, HashRange
  <2>2. w \in 0..(BlockBits - 1)
    BY <1>1, <2>1, DivMod
  <2>3. QED
    BY <1>1, <2>2
<1> HIDE DEF b, w
<1>4. BlockBytes * b \in Nat
  BY <1>0, <1>2
<1>5. o \in Nat /\ o <= BlockBytes * b
  <2>1. /\ (BlockBytes * b) \div U32 \in Nat /\ o \in 0..(U32 - 1)
        /\ BlockBytes * b = U32 * ((BlockBytes * b) \div U32) + o
    BY <1>0, <1>4, DivMod
  <2>2. U32 * ((BlockBytes * b) \div U32) \in Nat
    BY <1>0, <2>1
  <2>3. QED
    BY <2>1, <2>2, <1>4
<1> HIDE DEF o
<1>6. w \div ByteBits \in 0..(BlockBytes - 1) /\ w % ByteBits \in 0..(ByteBits - 1)
  <2>1. /\ w \div ByteBits \in Nat /\ w % ByteBits \in 0..(ByteBits - 1)
        /\ w = ByteBits * (w \div ByteBits) + (w % ByteBits)
    BY <1>0, <1>3, DivMod
  <2>2. ByteBits * (w \div ByteBits) < ByteBits * BlockBytes
    BY <2>1, <1>0, <1>3
  <2>3. w \div ByteBits < BlockBytes
    BY <2>1, <2>2, <1>0
  <2>4. QED
    BY <2>1, <2>3, <1>0
<1>7. BlockBytes * b + BlockBytes <= BlockBytes * numBlocks
  BY <1>0, <1>2
<1>8. w \div ByteBits + o \in Nat /\ w \div ByteBits + o < BlockBytes * numBlocks
  BY <1>0, <1>4, <1>5, <1>6, <1>7
<1>9. Access(k, j) = <<w \div ByteBits + o, w % ByteBits>>
  BY DEF Access, BitFor, Bit, blockOffset, b, o, w
<1>10. QED
  BY <1>6, <1>8, <1>9

\* The bit a key needs depends on the filter's shape only.
LEMMA AccessUnchanged ==
    ASSUME numBlocks' = numBlocks, NEW k, NEW j
    PROVE  Access(k, j)' = Access(k, j)
  BY DEF Access, BitFor, Bit, blockOffset

\* A new filter satisfies the invariant.
LEMMA InitInv == Init => Inv
<1> SUFFICES ASSUME Init PROVE Inv
  OBVIOUS
<1>1. TypeOK
  <2>1. running \in 0..(U32 - 1)
    BY WordAssumption DEF Init
  <2>2. returnVal \in BOOLEAN
    BY DEF Init
  <2>3. QED
    BY <2>1, <2>2 DEF Init, TypeOK
<1>2. QED
  BY <1>1 DEF Init, Inv

\* Every step keeps the invariant.
LEMMA NextInv == Inv /\ [Next]_vars => Inv'
<1> SUFFICES ASSUME Inv, [Next]_vars PROVE Inv'
  OBVIOUS
<1> USE WordAssumption, Block512Assumption
<1>k. Keys \subseteq Nat
  BY KeysNat
<1>1. ASSUME NEW bits \in Sizes, NEW n \in 0..MaxHashes, Construct(bits, n) PROVE Inv'
  <2>1. BlockBits \in Nat \ {0}
    BY DEF BlockBits
  <2>2. bits % BlockBits \in 0..(BlockBits - 1)
    BY <2>1, DivMod
  <2>3. numBlocks' \in Nat /\ numBlocks' >= 1
    <3> DEFINE e == bits + (BlockBits - (bits % BlockBits))
    <3>1. e \in Nat /\ e >= BlockBits
      <4>1. /\ bits \div BlockBits \in Nat
            /\ bits = BlockBits * (bits \div BlockBits) + (bits % BlockBits)
        BY <2>1, DivMod
      <4>2. BlockBits * (bits \div BlockBits) \in Nat
        BY <2>1, <4>1
      <4>3. QED
        BY <2>1, <2>2, <4>1, <4>2
    <3>2. numBlocks' = e \div BlockBits
      BY <1>1 DEF Construct
    <3> HIDE DEF e
    <3>3. /\ e \div BlockBits \in Nat /\ e % BlockBits \in 0..(BlockBits - 1)
          /\ e = BlockBits * (e \div BlockBits) + (e % BlockBits)
      BY <2>1, <3>1, DivMod
    <3>4. e \div BlockBits # 0
      BY <2>1, <3>1, <3>3
    <3>5. QED
      BY <3>2, <3>3, <3>4
  <2>4. TypeOK'
    BY <1>1, <2>3 DEF Construct, Inv, TypeOK
  <2>5. QED
    BY <1>1, <2>3, <2>4 DEF Construct, Inv
<1>2. ASSUME NEW k \in Keys, AddStart(k) PROVE Inv'
  <2>1. \A q, j : Access(q, j)' = Access(q, j)
    BY <1>2, AccessUnchanged DEF AddStart, filterVars
  <2>2. TypeOK'
    BY <1>2 DEF AddStart, filterVars, Inv, TypeOK
  <2>3. QED
    BY <1>2, <2>1, <2>2 DEF AddStart, filterVars, Inv, TypeOK
<1>3. CASE AddStep
  <2>1. \A q, j : Access(q, j)' = Access(q, j)
    BY <1>3, AccessUnchanged DEF AddStep, filterVars
  <2>2. key \in Nat /\ i \in 1..numHashes /\ i \in Nat /\ numBlocks \in Nat /\ numBlocks >= 1
    BY <1>3, <1>k DEF AddStep, Inv, TypeOK
  <2>3. bytes' = bytes \cup {Access(key, i)}
    BY <1>3 DEF AddStep, Access
  <2>4. /\ Access(key, i) \in Nat \X (0..(ByteBits - 1))
        /\ Access(key, i)[1] < BlockBytes * numBlocks
    BY <2>2, AccessInBlocks
  <2>5. TypeOK'
    BY <1>3, <2>3, <2>4 DEF AddStep, filterVars, Inv, TypeOK
  <2>6. \A b \in bytes' : b[1] < BlockBytes * numBlocks'
    BY <1>3, <2>3, <2>4 DEF AddStep, filterVars, Inv
  <2>7. \A j \in 1..(i' - 1) : Access(key, j) \in bytes'
    BY <1>3, <2>2, <2>3 DEF AddStep, Inv
  <2>8. QED
    BY <1>3, <2>1, <2>2, <2>3, <2>5, <2>6, <2>7 DEF AddStep, filterVars, Inv, TypeOK
<1>4. CASE AddReturn
  <2>1. \A q, j : Access(q, j)' = Access(q, j)
    BY <1>4, AccessUnchanged DEF AddReturn, filterVars
  <2>2. TypeOK'
    <3>1. key' \in Keys \cup {0} /\ i' \in Nat /\ running' \in 0..(U32 - 1)
      BY <1>4 DEF AddReturn, LocalsGone
    <3>2. returnVal' \in BOOLEAN
      BY <1>4 DEF AddReturn, LocalsGone
    <3>3. QED
      BY <1>4, <3>1, <3>2 DEF AddReturn, filterVars, Inv, TypeOK
  <2>3. \A j \in 1..numHashes : Access(key, j) \in bytes
    BY <1>4 DEF AddReturn, Inv, TypeOK
  <2>4. QED
    BY <1>4, <2>1, <2>2, <2>3 DEF AddReturn, LocalsGone, filterVars, Inv
<1>5. ASSUME NEW k \in Keys, TestStart(k) PROVE Inv'
  <2>1. \A q, j : Access(q, j)' = Access(q, j)
    BY <1>5, AccessUnchanged DEF TestStart, filterVars
  <2>2. hash1(k) \in 0..(U32 - 1) /\ double_hash(k, 0) = hash1(k)
    BY <1>k, HashRange, DoubleHashZero
  <2>3. TypeOK'
    BY <1>5, <2>2 DEF TestStart, filterVars, Inv, TypeOK
  <2>4. QED
    BY <1>5, <2>1, <2>2, <2>3 DEF TestStart, filterVars, Inv, TypeOK
<1>6. CASE TestStep
  <2>1. \A q, j : Access(q, j)' = Access(q, j)
    BY <1>6, AccessUnchanged DEF TestStep, filterVars
  <2>2. key \in Nat /\ i \in 1..numHashes /\ numHashes \in Nat
    BY <1>6, <1>k DEF TestStep, Inv, TypeOK
  <2>3. running' = double_hash(key, i) /\ running' \in 0..(U32 - 1)
    <3>1. running = double_hash(key, i - 1) /\ i - 1 \in Nat /\ i - 1 + 1 = i
      BY <1>6, <2>2 DEF TestStep, Inv
    <3>2. (double_hash(key, i - 1) + hash2(key)) % U32 = double_hash(key, i - 1 + 1)
      BY <3>1, <2>2, DoubleHashStep
    <3>3. double_hash(key, i) \in 0..(U32 - 1)
      BY <2>2, HashRange
    <3>4. QED
      BY <1>6, <3>1, <3>2, <3>3 DEF TestStep
  <2>4. returnVal' <=> Access(key, i) \in bytes
    BY <1>6, <2>3 DEF TestStep, Access, BitFor, Bit, blockOffset, filterVars
  <2>5. TypeOK'
    BY <1>6, <2>3 DEF TestStep, filterVars, Inv, TypeOK
  <2>6. \A j \in 1..(i - 1) : Access(key, j) \in bytes
    BY <1>6 DEF TestStep, Inv
  <2>7. returnVal' <=> \A j \in 1..i : Access(key, j) \in bytes
    BY <2>2, <2>4, <2>6
  <2>8. QED
    BY <1>6, <2>1, <2>2, <2>3, <2>5, <2>7 DEF TestStep, filterVars, Inv
<1>7. CASE TestReturn
  <2>1. \A q, j : Access(q, j)' = Access(q, j)
    BY <1>7, AccessUnchanged DEF TestReturn, filterVars
  <2>2. TypeOK'
    <3>1. key' \in Keys \cup {0} /\ i' \in Nat /\ running' \in 0..(U32 - 1)
      BY <1>7 DEF TestReturn, LocalsGone
    <3>2. returnVal' \in BOOLEAN
      BY <1>7 DEF TestReturn, LocalsGone
    <3>3. QED
      BY <1>7, <3>1, <3>2 DEF TestReturn, filterVars, Inv, TypeOK
  <2>3. QED
    BY <1>7, <2>1, <2>2 DEF TestReturn, LocalsGone, filterVars, Inv
<1>8. CASE Destroy
  BY <1>8 DEF Destroy, Inv, TypeOK
<1>9. CASE UNCHANGED vars
  <2>1. \A q, j : Access(q, j)' = Access(q, j)
    BY <1>9, AccessUnchanged DEF vars
  <2>2. QED
    BY <1>9, <2>1 DEF vars, Inv, TypeOK
<1>10. QED
  BY <1>1, <1>2, <1>3, <1>4, <1>5, <1>6, <1>7, <1>8, <1>9 DEF Next, Aborted

\* The inductive invariant of the blocked filter holds in every reachable state.
THEOREM InvHolds == Spec => []Inv
  BY InitInv, NextInv, PTL DEF Spec

\* No added key is ever missed, for any hash function, size and numHashes.
THEOREM NoFalseNegativesHolds == Spec => []NoFalseNegatives
<1>1. Inv => NoFalseNegatives
  <2> SUFFICES ASSUME Inv, state = "testing", key \in members PROVE returnVal
    BY DEF NoFalseNegatives
  <2>1. \A j \in 1..numHashes : Access(key, j) \in bytes
    BY DEF Inv
  <2>2. i \in 1..(numHashes + 1) /\ numHashes \in Nat
    BY DEF Inv, TypeOK
  <2>3. QED
    BY <2>1, <2>2 DEF Inv
<1>2. QED
  BY <1>1, InvHolds, PTL

\* addValue and testValue touch only bytes inside the filter's blocks.
THEOREM InBoundsHolds == Spec => []InBounds
<1>1. Inv => InBounds
  <2> SUFFICES ASSUME Inv, state \in {"adding", "testing"}
               PROVE  Access(key, i)[1] < BlockBytes * numBlocks
    BY DEF Inv, InBounds
  <2>1. key \in Nat /\ i \in Nat /\ numBlocks \in Nat /\ numBlocks >= 1
    BY KeysNat DEF Inv, TypeOK
  <2>2. QED
    BY <2>1, AccessInBlocks
<1>2. QED
  BY <1>1, InvHolds, PTL

\* What is reported depends on the shape and the bits only, while the filter
\* exists.
LEMMA ReportedUnchanged ==
    ASSUME UNCHANGED <<numBlocks, numHashes, bytes>>,
           state \notin {"none", "failed"}, state' \notin {"none", "failed"}
    PROVE  Reported' = Reported
<1>1. \A q, j : Access(q, j)' = Access(q, j)
  BY AccessUnchanged
<1>2. QED
  BY <1>1 DEF Reported

\* The blocked filter implements an approximate set.
THEOREM RefinesApproxSet == Spec => ImplementsApproxSet
<1>1. Init => Approx!ApproxInit
  BY DEF Init, Approx!ApproxInit, Reported
<1>2. Inv /\ [Next]_vars => [Approx!ApproxNext]_(Approx!approxVars)
  <2> SUFFICES ASSUME Inv, [Next]_vars PROVE [Approx!ApproxNext]_(Approx!approxVars)
    OBVIOUS
  <2> USE DEF Approx!approxVars
  <2>1. ASSUME NEW bits \in Sizes, NEW n \in 0..MaxHashes, Construct(bits, n)
        PROVE  UNCHANGED Approx!approxVars
    <3>1. Reported = {} /\ bytes' = {} /\ numHashes' = n
      BY <2>1 DEF Construct, Reported, Inv
    <3>2. Reported' = {}
      <4>1. CASE n >= 1
        <5>1. 1 \in 1..numHashes'
          BY <4>1, <3>1, Block512Assumption
        <5>2. QED
          BY <5>1, <3>1 DEF Reported
      <4>2. CASE ~(n >= 1)
        BY <4>2, <2>1 DEF Construct, Reported
      <4>3. QED
        BY <4>1, <4>2
    <3>3. QED
      BY <2>1, <3>1, <3>2 DEF Construct
  <2>2. ASSUME NEW k \in Keys, AddStart(k) \/ TestStart(k)
        PROVE  UNCHANGED Approx!approxVars
    BY <2>2, ReportedUnchanged DEF AddStart, TestStart, filterVars
  <2>3. CASE AddStep
    <3>1. \A q, j : Access(q, j)' = Access(q, j)
      BY <2>3, AccessUnchanged DEF AddStep, filterVars
    <3>2. Reported \subseteq Reported' /\ Reported' \subseteq Keys
      BY <2>3, <3>1 DEF AddStep, Reported, filterVars
    <3>3. Approx!Spread
      BY <2>3, <3>2 DEF AddStep, Approx!Spread, Approx!Grows
    <3>4. QED
      BY <3>3 DEF Approx!ApproxNext
  <2>4. CASE AddReturn
    <3>1. Reported' = Reported
      BY <2>4, ReportedUnchanged DEF AddReturn, filterVars
    <3>2. key \in Keys /\ key \in Reported /\ Reported \subseteq Keys
      BY <2>4 DEF AddReturn, Inv, TypeOK, Reported
    <3>3. Approx!Insert(key)
      BY <2>4, <3>1, <3>2 DEF AddReturn, Approx!Insert, Approx!Grows
    <3>4. QED
      BY <3>2, <3>3 DEF Approx!ApproxNext
  <2>5. CASE TestStep
    BY <2>5, ReportedUnchanged DEF TestStep, filterVars
  <2>6. CASE TestReturn
    <3>1. Reported' = Reported /\ key \in Keys
      BY <2>6, ReportedUnchanged DEF TestReturn, filterVars, Inv
    <3>2. i \in 1..(numHashes + 1) /\ numHashes \in Nat /\ (returnVal => i = numHashes + 1)
      BY <2>6 DEF TestReturn, Inv, TypeOK
    <3>3. returnVal <=> \A j \in 1..numHashes : Access(key, j) \in bytes
      BY <2>6, <3>2 DEF TestReturn, Inv
    <3>4. returnVal <=> key \in Reported
      BY <2>6, <3>1, <3>3 DEF TestReturn, Reported
    <3>5. returnVal = (key \in Reported)
      BY <3>4 DEF Inv, TypeOK
    <3>6. Approx!Query(key)
      BY <2>6, <3>1, <3>5 DEF TestReturn, Approx!Query
    <3>7. QED
      BY <3>1, <3>6 DEF Approx!ApproxNext
  <2>7. CASE Destroy
    <3>1. Approx!Discard
      BY <2>7 DEF Destroy, Approx!Discard, Reported
    <3>2. QED
      BY <3>1 DEF Approx!ApproxNext
  <2>8. CASE UNCHANGED vars
    <3>1. \A q, j : Access(q, j)' = Access(q, j)
      BY <2>8, AccessUnchanged DEF vars
    <3>2. QED
      BY <2>8, <3>1 DEF vars, Reported
  <2>9. QED
    BY <2>1, <2>2, <2>3, <2>4, <2>5, <2>6, <2>7, <2>8 DEF Next, Aborted
<1>3. QED
  BY <1>1, <1>2, InvHolds, PTL DEF Spec, ImplementsApproxSet, Approx!ApproxSpec

\* The number of blocks fits an unsigned int, whatever size is asked for.
LEMMA BlocksFit == Spec => [](numBlocks < U32 /\ numBlocks \in Nat)
<1> DEFINE Fit == numBlocks < U32 /\ numBlocks \in Nat
<1>1. U32 \in Nat /\ 0 < U32 /\ BlockBits \in Nat \ {0}
  BY WordAssumption, Block512Assumption DEF BlockBits
<1>2. ASSUME NEW s \in Sizes
      PROVE  /\ (s + (BlockBits - (s % BlockBits))) \div BlockBits \in Nat
             /\ (s + (BlockBits - (s % BlockBits))) \div BlockBits < U32
  <2> DEFINE q == s \div BlockBits
             r == s % BlockBits
  <2>1. s \in Nat /\ s + BlockBits < BlockBits * U32
    BY <1>2, Block512Assumption
  <2>2. q \in Nat /\ r \in 0..(BlockBits - 1) /\ s = BlockBits * q + r
    BY <1>1, <2>1, DivMod
  <2> HIDE DEF q, r
  <2>3. s + (BlockBits - r) = BlockBits * (q + 1) + 0
    BY <1>1, <2>1, <2>2
  <2>4. (s + (BlockBits - r)) \div BlockBits = q + 1
    <3>1. q + 1 \in Nat /\ 0 \in 0..(BlockBits - 1)
      BY <1>1, <2>2
    <3>2. (BlockBits * (q + 1) + 0) \div BlockBits = q + 1
      BY <1>1, <3>1, DivModUnique
    <3>3. QED
      BY <2>3, <3>2
  <2>5. BlockBits * (q + 1) < BlockBits * U32
    <3>1. BlockBits * (q + 1) <= s + BlockBits
      BY <1>1, <2>1, <2>2
    <3>2. BlockBits * (q + 1) \in Nat /\ BlockBits * U32 \in Nat
      BY <1>1, <2>2
    <3>3. QED
      BY <1>1, <2>1, <3>1, <3>2
  <2>6. q + 1 < U32
    BY <1>1, <2>2, <2>5
  <2>7. QED
    BY <2>2, <2>4, <2>6 DEF r
<1>3. Init => Fit
  BY <1>1 DEF Init
<1>4. Fit /\ [Next]_vars => Fit'
  <2> SUFFICES ASSUME Fit, [Next]_vars PROVE Fit'
    OBVIOUS
  <2>1. ASSUME NEW s \in Sizes, NEW n \in 0..MaxHashes, Construct(s, n) PROVE Fit'
    BY <1>2, <2>1 DEF Construct
  <2>2. CASE UNCHANGED numBlocks
    BY <2>2
  <2>3. CASE numBlocks' = 0
    BY <1>1, <2>3
  <2>4. QED
    BY <2>1, <2>2, <2>3
       DEF Next, vars, filterVars, AddStart, AddStep, AddReturn, TestStart, TestStep,
           TestReturn, Destroy, Aborted
<1>5. QED
  BY <1>3, <1>4, PTL DEF Spec

\* Every block is the block of some hash while the bytes of the filter can be
\* counted in a uint32_t: the offset that addValue and testValue compute does not
\* wrap, and range reduction by the number of blocks leaves none out.
THEOREM BlocksReachableTo4GBHolds == Spec => []BlocksReachableTo4GB
<1>1. Inv /\ numBlocks < U32 /\ numBlocks \in Nat => BlocksReachableTo4GB
  <2> SUFFICES ASSUME Inv, numBlocks < U32, numBlocks \in Nat, state = "ready",
                      BlockBytes * numBlocks <= U32, NEW b \in 0..(numBlocks - 1)
               PROVE  \E h \in 0..(U32 - 1) : blockOffset(h) = BlockBytes * b
    BY DEF BlocksReachableTo4GB, AllBlocksReached
  <2>1. /\ U32 \in Nat \ {0} /\ BlockBytes \in Nat \ {0}
        /\ numBlocks \in 1..(U32 - 1)
    BY WordAssumption, Block512Assumption DEF Inv
  <2>2. PICK h \in 0..(U32 - 1) : mult_reduce(h, numBlocks) = b
    BY <2>1, MultReduceOnto
  <2>3. BlockBytes * b \in Nat /\ BlockBytes * b < BlockBytes * numBlocks
    BY <2>1
  <2>4. (BlockBytes * b) % U32 = BlockBytes * b
    <3> DEFINE x == BlockBytes * b
    <3>1. x \in Nat /\ x < U32
      BY <2>1, <2>3
    <3> HIDE DEF x
    <3>2. x % U32 = x
      BY <2>1, <3>1
    <3>3. QED
      BY <3>2 DEF x
  <2>5. QED
    BY <2>2, <2>4 DEF blockOffset
<1>2. QED
  BY <1>1, InvHolds, BlocksFit, PTL
=============================================================================
