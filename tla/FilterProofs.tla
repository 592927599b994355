---------------------------- MODULE FilterProofs ----------------------------
(***************************************************************************)
(* Theorems about the register-blocked Bloom filter, for all word, int and *)
(* cache-line sizes, any number of hashes and any set of keys; about       *)
(* libbloom, for every set of keys and every shape bloom_init may compute; *)
(* and about the measurement of a filter's false positives, for every data *)
(* file, number of probes and step size.                                   *)
(***************************************************************************)
EXTENDS SelfBlockBloom64, BloomArithProofs, LibBloom, FilterBench, FiniteSetTheorems,
        WellFoundedInduction, TLAPS

-----------------------------------------------------------------------------
(* SelfBlockBloom64.                                                       *)

\* What every step preserves: a filter that is ready has a block and a hash,
\* and the word of a key that was added holds the mask addValue built for it.
Inv ==
    /\ numBlocks \in Nat
    /\ numHashes \in Nat
    /\ words = [w \in 0..(numBlocks - 1) |-> words[w]]
    /\ members \subseteq Keys
    /\ state = "ready" => /\ numBlocks >= 1
                          /\ numHashes >= 1
                          /\ \A k \in members : AddWord(k) \subseteq words[wordNum(k)]
    /\ state # "ready" => members = {} /\ last = <<>>

\* A hash is a natural number.
LEMMA KeysNat == Keys \subseteq Nat
<1>1. U32 * U32 - 1 \in Int
  BY WordAssumption
<1>2. QED
  BY <1>1, Block64Assumption

\* The mask testValue builds in a loop one shorter is the one of addValue.
LEMMA SameMask ==
    ASSUME NEW k, numHashes \in Nat, numHashes >= 1
    PROVE  TestWord(k) = AddWord(k)
<1>1. 1..numHashes = (1..(numHashes - 1)) \cup {numHashes}
  OBVIOUS
<1>2. QED
  BY <1>1 DEF TestWord, AddWord

\* The word of a key is one of the filter's.
LEMMA WordInFilter ==
    ASSUME NEW k \in Nat, numBlocks \in Nat, numBlocks >= 1
    PROVE  wordNum(k) \in 0..(numBlocks - 1)
<1>1. hash1(k) \in 0..(U32 - 1) /\ numBlocks \in Nat \ {0}
  BY HashRange
<1>2. QED
  BY <1>1, MultReduceBound DEF wordNum

\* The constructor rounds the size up to at least one block.
LEMMA SomeBlock ==
    ASSUME NEW sizeInBits \in Nat
    PROVE  (sizeInBits + (LineBits - (sizeInBits % LineBits))) \div WordBits \in Nat \ {0}
<1> DEFINE e == sizeInBits + (LineBits - (sizeInBits % LineBits))
<1>1. /\ WordBits \in Nat \ {0} /\ LineBits \in Nat \ {0} /\ WordBits <= LineBits
  <2>1. PICK n \in 1..8 : LineBits = WordBits * n
    BY Block64Assumption
  <2>2. WordBits \in Nat \ {0}
    BY Block64Assumption
  <2>3. WordBits * n >= WordBits /\ WordBits * n \in Nat
    BY <2>2
  <2>4. QED
    BY <2>1, <2>2, <2>3
<1>2. /\ sizeInBits \div LineBits \in Nat
      /\ sizeInBits % LineBits \in 0..(LineBits - 1)
      /\ sizeInBits = LineBits * (sizeInBits \div LineBits) + (sizeInBits % LineBits)
  BY <1>1, DivMod
<1>3. LineBits * (sizeInBits \div LineBits) \in Nat
  BY <1>1, <1>2
<1>4. e \in Nat /\ e >= WordBits
  BY <1>1, <1>2, <1>3
<1> HIDE DEF e
<1>5. /\ e \div WordBits \in Nat /\ e % WordBits \in 0..(WordBits - 1)
      /\ e = WordBits * (e \div WordBits) + (e % WordBits)
  BY <1>1, <1>4, DivMod
<1>6. e \div WordBits # 0
  BY <1>1, <1>4, <1>5
<1>7. QED
  BY <1>5, <1>6 DEF e

\* Masks and word numbers depend on the filter's shape only.
LEMMA ShapeUnchanged ==
    ASSUME UNCHANGED <<numBlocks, numHashes>>, NEW k
    PROVE  /\ AddWord(k)' = AddWord(k)
           /\ TestWord(k)' = TestWord(k)
           /\ wordNum(k)' = wordNum(k)
  BY DEF AddWord, TestWord, wordNum

\* Every step keeps the invariant.
LEMMA NextInv == Inv /\ [Next]_vars => Inv'
<1> SUFFICES ASSUME Inv, [Next]_vars PROVE Inv'
  OBVIOUS
<1>1. ASSUME NEW sz \in Sizes, NEW n \in 0..MaxHashes, Construct(sz, n) PROVE Inv'
  <2>1. sz \in Nat /\ n \in Nat
    BY Block64Assumption
  <2>2. numBlocks' \in Nat \ {0}
    BY <1>1, <2>1, SomeBlock DEF Construct
  <2>3. words' = [w \in 0..(numBlocks' - 1) |-> {}] /\ numHashes' = n
    BY <1>1 DEF Construct
  <2>4. members' = {} /\ last' = <<>>
    BY <1>1 DEF Construct, Inv
  <2>5. state' = "ready" => n >= 1
    BY <1>1 DEF Construct
  <2>6. words' = [w \in 0..(numBlocks' - 1) |-> words'[w]]
    BY <2>3
  <2>7. QED
    BY <2>1, <2>2, <2>3, <2>4, <2>5, <2>6 DEF Inv
<1>2. ASSUME NEW k \in Keys, addValue(k) PROVE Inv'
  <2>1. \A q : AddWord(q)' = AddWord(q) /\ wordNum(q)' = wordNum(q)
    BY <1>2, ShapeUnchanged DEF addValue, filterVars
  <2>2. /\ numBlocks \in Nat /\ numBlocks >= 1 /\ numHashes \in Nat /\ numHashes >= 1
        /\ state = "ready" /\ UNCHANGED <<state, numBlocks, numHashes, last>>
    BY <1>2 DEF addValue, filterVars, Inv
  <2>3. k \in Nat
    BY KeysNat
  <2>4. DOMAIN words = 0..(numBlocks - 1)
    BY DEF Inv
  <2>5. wordNum(k) \in DOMAIN words
    BY <2>2, <2>3, <2>4, WordInFilter
  <2>6. words' = [words EXCEPT ![wordNum(k)] = @ \cup AddWord(k)]
    BY <1>2 DEF addValue
  <2>7. words' = [w \in 0..(numBlocks' - 1) |-> words'[w]]
    BY <2>2, <2>6 DEF Inv
  <2>8. \A w \in DOMAIN words :
            words'[w] = IF w = wordNum(k) THEN words[w] \cup AddWord(k) ELSE words[w]
    BY <2>6 DEF Inv
  <2>9. \A q \in members' : AddWord(q)' \subseteq words'[wordNum(q)']
    <3> SUFFICES ASSUME NEW q \in members' PROVE AddWord(q) \subseteq words'[wordNum(q)]
      BY <2>1
    <3>1. q \in Keys /\ q \in members \cup {k}
      BY <1>2 DEF addValue, Inv
    <3>2. wordNum(q) \in DOMAIN words
      BY <3>1, <2>2, <2>4, KeysNat, WordInFilter
    <3>3. CASE q = k
      BY <3>3, <2>5, <2>8
    <3>4. CASE q \in members
      BY <3>4, <3>2, <2>2, <2>8 DEF Inv
    <3>5. QED
      BY <3>1, <3>3, <3>4
  <2>10. members' \subseteq Keys
    BY <1>2 DEF addValue, Inv
  <2>11. QED
    BY <2>2, <2>7, <2>9, <2>10 DEF Inv
<1>3. ASSUME NEW k \in Keys, TestValue(k) PROVE Inv'
  <2>1. \A q : AddWord(q)' = AddWord(q) /\ wordNum(q)' = wordNum(q)
    BY <1>3, ShapeUnchanged DEF TestValue, filterVars
  <2>2. UNCHANGED <<state, numBlocks, numHashes, words, members>> /\ state = "ready"
    BY <1>3 DEF TestValue, filterVars
  <2>3. QED
    BY <2>1, <2>2 DEF Inv
<1>4. CASE Destroy
  <2>1. words' = [w \in 0..(numBlocks' - 1) |-> words'[w]]
    BY <1>4 DEF Destroy
  <2>2. QED
    BY <1>4, <2>1 DEF Destroy, Inv
<1>5. CASE UNCHANGED vars
  <2>1. \A q : AddWord(q)' = AddWord(q) /\ wordNum(q)' = wordNum(q)
    BY <1>5, ShapeUnchanged DEF vars
  <2>2. QED
    BY <1>5, <2>1 DEF vars, Inv
<1>6. QED
  BY <1>1, <1>2, <1>3, <1>4, <1>5 DEF Next, Aborted

\* The inductive invariant of the register-blocked filter holds in every
\* reachable state.
THEOREM InvHolds == Spec => []Inv
<1>1. Init => Inv
  <2> SUFFICES ASSUME Init PROVE Inv
    OBVIOUS
  <2>1. words = [w \in 0..(numBlocks - 1) |-> words[w]]
    BY DEF Init
  <2>2. QED
    BY <2>1 DEF Init, Inv
<1>2. QED
  BY <1>1, NextInv, PTL DEF Spec

\* The register-blocked filter implements an approximate set: the masks of
\* addValue and testValue agree, so no added key is missed.
THEOREM RefinesApproxSet == Spec => ImplementsApproxSet
<1> DEFINE Rep == IF state = "ready" THEN {k \in Keys : testValue(k)} ELSE {}
<1>1. Init => Approx!ApproxInit
  BY DEF Init, Approx!ApproxInit
<1>2. Inv /\ [Next]_vars => [Approx!ApproxNext]_(Approx!approxVars)
  <2> SUFFICES ASSUME Inv, [Next]_vars PROVE [Approx!ApproxNext]_(Approx!approxVars)
    OBVIOUS
  <2> USE DEF Approx!approxVars
  <2>1. ASSUME NEW sz \in Sizes, NEW n \in 0..MaxHashes, Construct(sz, n)
        PROVE  UNCHANGED Approx!approxVars
    <3>1. Rep = {} /\ n \in Nat /\ numHashes' = n
      BY <2>1, Block64Assumption DEF Construct
    <3>2. numBlocks' \in Nat \ {0} /\ words' = [w \in 0..(numBlocks' - 1) |-> {}]
      BY <2>1, SomeBlock, Block64Assumption DEF Construct
    <3>3. ASSUME n >= 1, NEW q \in Keys PROVE ~testValue(q)'
      <4>1. wordNum(q)' \in 0..(numBlocks' - 1)
        <5>1. hash1(q) \in 0..(U32 - 1)
          BY KeysNat, HashRange
        <5>2. QED
          BY <5>1, <3>2, MultReduceBound DEF wordNum
      <4>2. words'[wordNum(q)'] = {}
        BY <3>2, <4>1
      <4>3. TestWord(q)' # {}
        <5>1. ShiftedOne(positionInBlock(q, n)) # {}
          BY Block64Assumption DEF ShiftedOne
        <5>2. QED
          BY <5>1, <3>1 DEF TestWord
      <4>4. QED
        BY <4>2, <4>3 DEF testValue
    <3>4. Rep' = {}
      BY <2>1, <3>3 DEF Construct
    <3>5. QED
      BY <2>1, <3>1, <3>4 DEF Construct
  <2>2. ASSUME NEW k \in Keys, addValue(k)
        PROVE  Approx!Insert(k)
    <3>1. /\ numBlocks \in Nat /\ numBlocks >= 1 /\ numHashes \in Nat /\ numHashes >= 1
          /\ state = "ready" /\ UNCHANGED <<state, numBlocks, numHashes>>
          /\ DOMAIN words = 0..(numBlocks - 1)
      BY <2>2 DEF addValue, filterVars, Inv
    <3>2. \A q : TestWord(q)' = TestWord(q) /\ wordNum(q)' = wordNum(q)
      BY <3>1, ShapeUnchanged
    <3>3. words' = [words EXCEPT ![wordNum(k)] = @ \cup AddWord(k)]
      BY <2>2 DEF addValue
    <3>4. \A q \in Keys : wordNum(q) \in DOMAIN words
      BY <3>1, KeysNat, WordInFilter
    <3>5. \A q \in Keys : words[wordNum(q)] \subseteq words'[wordNum(q)]
      BY <3>3, <3>4
    <3>6. \A q \in Keys : testValue(q) => testValue(q)'
      BY <3>2, <3>5 DEF testValue
    <3>7. testValue(k)'
      <4>1. TestWord(k) = AddWord(k)
        BY <3>1, SameMask
      <4>2. AddWord(k) \subseteq words'[wordNum(k)]
        BY <3>3, <3>4
      <4>3. QED
        BY <4>1, <4>2, <3>2 DEF testValue
    <3>8. Rep \subseteq Rep' /\ Rep' \subseteq Keys /\ k \in Rep'
      BY <3>1, <3>6, <3>7
    <3>9. QED
      BY <2>2, <3>8 DEF addValue, Approx!Insert, Approx!Grows
  <2>3. ASSUME NEW k \in Keys, TestValue(k)
        PROVE  Approx!Query(k)
    <3>1. UNCHANGED <<state, numBlocks, numHashes, words, members>> /\ state = "ready"
      BY <2>3 DEF TestValue, filterVars
    <3>2. \A q : testValue(q)' = testValue(q)
      BY <3>1, ShapeUnchanged DEF testValue
    <3>3. Rep' = Rep
      BY <3>1, <3>2
    <3>4. testValue(k) = (k \in Rep)
      BY <3>1 DEF testValue
    <3>5. last' = <<k, k \in Rep>>
      BY <2>3, <3>4 DEF TestValue
    <3>6. QED
      BY <3>1, <3>3, <3>5 DEF Approx!Query
  <2>4. CASE Destroy
    BY <2>4 DEF Destroy, Approx!Discard, Approx!ApproxNext
  <2>5. CASE UNCHANGED vars
    <3>1. \A q : testValue(q)' = testValue(q)
      BY <2>5, ShapeUnchanged DEF vars, testValue
    <3>2. QED
      BY <2>5, <3>1 DEF vars
  <2>6. QED
    BY <2>1, <2>2, <2>3, <2>4, <2>5 DEF Next, Aborted, Approx!ApproxNext
<1>3. QED
  BY <1>1, <1>2, InvHolds, PTL DEF Spec, ImplementsApproxSet, Approx!ApproxSpec

-----------------------------------------------------------------------------
(* LibBloom.                                                               *)

\* What every step preserves: a struct that is ready holds every bit of every
\* key added to it.
LibInv ==
    /\ hashes \in Nat
    /\ ready = 1 => \A k \in added, n \in Loop : X(k, n) \in bf

\* An iteration set that is as large as the loop is the loop: the count of
\* bloom_check_add reaches hashes exactly when every iteration hit.
LEMMA CountIsAll ==
    ASSUME hashes \in Nat, NEW S, S \subseteq Loop
    PROVE  Cardinality(S) = hashes <=> S = Loop
<1>1. IsFiniteSet(Loop) /\ Cardinality(Loop) = hashes
  <2>1. 0 \in Int /\ hashes - 1 \in Int
    OBVIOUS
  <2>2. /\ IsFiniteSet(0..(hashes - 1))
        /\ Cardinality(0..(hashes - 1)) = IF 0 > hashes - 1 THEN 0 ELSE (hashes - 1) - 0 + 1
    BY <2>1, FS_Interval
  <2>3. QED
    BY <2>2 DEF Loop
<1>2. Cardinality(Loop) = Cardinality(S) => Loop = S
  BY <1>1, FS_Subset
<1>3. QED
  BY <1>1, <1>2

\* A check counts all its positions exactly when all their bits are set.
LEMMA CheckCountsAll ==
    ASSUME hashes \in Nat, NEW k
    PROVE  Cardinality({n \in Loop : Hit(k, n, 0)}) = hashes
             <=> \A n \in Loop : X(k, n) \in bf
<1>1. \A n : Hit(k, n, 0) <=> X(k, n) \in bf
  BY DEF Hit
<1>2. {n \in Loop : Hit(k, n, 0)} = Loop <=> \A n \in Loop : X(k, n) \in bf
  BY <1>1
<1>3. QED
  BY <1>2, CountIsAll

\* The first position of an add whose bit was clear cannot have been set by an
\* earlier iteration, so an add that hits everywhere met only bits that were
\* set before it.
LEMMA FirstMissIsMissed ==
    ASSUME hashes \in Nat, NEW k
    PROVE  (\A n \in Loop : Hit(k, n, 1)) <=> (\A n \in Loop : X(k, n) \in bf)
<1> DEFINE Miss == {n \in Loop : X(k, n) \notin bf}
<1>1. ASSUME \A n \in Loop : X(k, n) \in bf PROVE \A n \in Loop : Hit(k, n, 1)
  BY <1>1 DEF Hit
<1>2. ASSUME \A n \in Loop : Hit(k, n, 1), Miss # {} PROVE FALSE
  <2>1. Miss \subseteq Nat
    BY DEF Loop
  <2>2. PICK x \in Miss : \A y \in Miss : ~(<<y, x>> \in OpToRel(<, Nat))
    BY <1>2, <2>1, NatLessThanWellFounded, WFMin
  <2>3. \A y \in Miss : ~(y < x)
    BY <2>1, <2>2 DEF OpToRel
  <2>4. Hit(k, x, 1) /\ X(k, x) \notin bf /\ x \in Loop
    BY <1>2
  <2>5. PICK m \in 0..(x - 1) : X(k, m) = X(k, x)
    BY <2>4 DEF Hit
  <2>6. m \in Miss /\ m < x
    BY <2>4, <2>5 DEF Loop
  <2>7. QED
    BY <2>3, <2>6
<1>3. QED
  BY <1>1, <1>2

\* So an add and a check return the same.
LEMMA AddCountsAsCheck ==
    ASSUME hashes \in Nat, NEW k
    PROVE  CheckAdd(k, 1) = CheckAdd(k, 0)
<1>1. {n \in Loop : Hit(k, n, 1)} = Loop <=> \A n \in Loop : X(k, n) \in bf
  BY FirstMissIsMissed
<1>2. Cardinality({n \in Loop : Hit(k, n, 1)}) = hashes
        <=> {n \in Loop : Hit(k, n, 1)} = Loop
  BY CountIsAll
<1>3. QED
  BY <1>1, <1>2, CheckCountsAll DEF CheckAdd

\* Every step keeps the invariant.
LEMMA LibNextInv == LibInv /\ [LibNext]_libVars => LibInv'
<1> SUFFICES ASSUME LibInv, [LibNext]_libVars PROVE LibInv'
  OBVIOUS
<1>1. ASSUME NEW shape \in Shapes, bloom_init(shape) \/ bloom_init_no_memory(shape)
      PROVE  LibInv'
  <2>1. shape[2] \in Nat
    BY LibBloomAssumption
  <2>2. QED
    BY <1>1, <2>1 DEF bloom_init, bloom_init_no_memory, LibInv
<1>2. CASE bloom_init_refuses \/ bloom_free
  BY <1>2 DEF bloom_init_refuses, bloom_free, LibInv
<1>3. ASSUME UNCHANGED <<ready, bits, hashes, bf>>, added' \subseteq added
      PROVE  LibInv'
  <2>1. \A k, n : X(k, n)' = X(k, n)
    BY <1>3 DEF X
  <2>2. QED
    BY <1>3, <2>1 DEF LibInv, Loop
<1>4. ASSUME NEW k \in HashPairs, bloom_add(k) PROVE LibInv'
  <2>1. \A q, n : X(q, n)' = X(q, n)
    BY <1>4 DEF bloom_add, shapeVars, X
  <2>2. CASE ready = 1
    BY <1>4, <2>1, <2>2 DEF bloom_add, shapeVars, LibInv, Loop
  <2>3. CASE ready # 1
    BY <1>4, <2>3 DEF bloom_add, shapeVars, LibInv
  <2>4. QED
    BY <2>2, <2>3
<1>5. ASSUME NEW k \in HashPairs, bloom_check(k) PROVE LibInv'
  BY <1>3, <1>5 DEF bloom_check, shapeVars
<1>6. CASE bloom_reset
  BY <1>3, <1>6 DEF bloom_reset, shapeVars
<1>7. CASE UNCHANGED libVars
  BY <1>3, <1>7 DEF libVars
<1>8. QED
  BY <1>1, <1>2, <1>4, <1>5, <1>6, <1>7 DEF LibNext

\* The inductive invariant of libbloom holds in every reachable state.
THEOREM LibInvariant == LibSpec => []LibInv
<1>1. LibInit => LibInv
  BY DEF LibInit, LibInv
<1>2. QED
  BY <1>1, LibNextInv, PTL DEF LibSpec

\* bloom_check finds every key added since bloom_init or bloom_reset, whatever
\* the keys' hashes and the shape of the filter.
THEOREM NoFalseNegativesHolds == LibSpec => []NoFalseNegatives
<1>1. LibInv => NoFalseNegatives
  <2> SUFFICES ASSUME LibInv, ready = 1, NEW k \in added PROVE CheckAdd(k, 0) = 1
    BY DEF NoFalseNegatives
  <2>1. \A n \in Loop : X(k, n) \in bf
    BY DEF LibInv
  <2>2. Cardinality({n \in Loop : Hit(k, n, 0)}) = hashes
    BY <2>1, CheckCountsAll DEF LibInv
  <2>3. QED
    BY <2>2 DEF CheckAdd
<1>2. QED
  BY <1>1, LibInvariant, PTL

\* bloom_add returns what a bloom_check before it would have, however the
\* key's own positions coincide.
THEOREM AddReportsPresenceHolds == LibSpec => AddReportsPresence
<1> DEFINE Reports == \A k \in HashPairs, r \in {-1, 0, 1} :
                          ret' = <<"add", r, k>> => r = CheckAdd(k, 0)
<1>1. LibInv /\ [LibNext]_libVars => [Reports]_libVars
  <2> SUFFICES ASSUME LibInv, LibNext, NEW k \in HashPairs, NEW r \in {-1, 0, 1},
                      ret' = <<"add", r, k>>
               PROVE  r = CheckAdd(k, 0)
    OBVIOUS
  <2>1. PICK q \in HashPairs : bloom_add(q)
    BY DEF LibNext, bloom_init, bloom_init_no_memory, bloom_init_refuses, bloom_check,
           bloom_reset, bloom_free
  <2>2. q = k /\ r = CheckAdd(k, 1)
    BY <2>1 DEF bloom_add
  <2>3. QED
    BY <2>2, AddCountsAsCheck DEF LibInv
<1>2. QED
  BY <1>1, LibInvariant, PTL DEF LibSpec, AddReportsPresence

-----------------------------------------------------------------------------
(* FilterBench.                                                            *)

\* How many numbers of a range are in a set.
CountIn(S, a, b) == Cardinality({n \in a..b : n \in S})

PositiveSet == {n \in Nat : probes[n] \in positives}

FalseSet == {n \in Nat : probes[n] \in positives \ KeysOf(data)}

SkippableSet == {n \in Nat : Skippable(n)}

\* The probes that the measured loop is done with: a skip out of a block does
\* not reach into the next.
Passed ==
    IF i = Blocks THEN Blocks * StepSize
    ELSE IF j < (i + 1) * StepSize THEN j ELSE (i + 1) * StepSize

\* What StartTrial has drawn.
Drawn ==
    /\ data \subseteq DOMAIN FullData /\ uninserted = (DOMAIN FullData) \ data
    /\ probes \in generate_probes(data, uninserted)

\* The throughput loop has counted the positives among the probes so far.
ThroughputLoop ==
    /\ i * StepSize <= j /\ j = Passed
    /\ s = CountIn(PositiveSet, 1, j)

\* The latency loop has counted the false positives among the probes so far,
\* but for ones it may have skipped.
LatencyLoop ==
    /\ i < Blocks => i * StepSize <= j
    /\ s <= CountIn(FalseSet, 1, Passed)
    /\ CountIn(FalseSet, 1, Passed) <= s + CountIn(SkippableSet, 0, Passed - 1)

\* The invariant of the filter benchmark.
FilterInv ==
    /\ pc \in {"trial", "crashed", "latency", "throughput", "latency_loop", "throughput_loop"}
    /\ fps \in [latency : Int, throughput : Int]
    /\ i \in Nat /\ j \in Nat /\ s \in Nat
    /\ pc \notin {"trial", "crashed"} => Drawn
    /\ pc = "throughput" /\ "latency" \in metrics => KeysOf(data) \subseteq positives
    /\ pc \in {"latency_loop", "throughput_loop"} =>
           KeysOf(data) \subseteq positives /\ i <= Blocks
    /\ pc = "throughput_loop" => ThroughputLoop
    /\ pc = "latency_loop" => LatencyLoop

\* One more number counts if it is in the set.
LEMMA CountOneMore ==
    ASSUME NEW S, NEW a \in Int, NEW b \in Int, a <= b
    PROVE  /\ CountIn(S, a, b - 1) \in Nat
           /\ CountIn(S, a, b) = CountIn(S, a, b - 1) + IF b \in S THEN 1 ELSE 0
<1> DEFINE low == {n \in a..(b - 1) : n \in S}
           all == {n \in a..b : n \in S}
<1>1. IsFiniteSet(a..(b - 1))
  BY FS_Interval
<1>2. low \in SUBSET (a..(b - 1))
  OBVIOUS
<1>3. IsFiniteSet(low) /\ Cardinality(low) \in Nat
  BY <1>1, <1>2, FS_Subset, FS_CardinalityType
<1>4. b \notin low
  OBVIOUS
<1>5. CASE b \in S
  <2>1. all = low \cup {b}
    BY <1>5
  <2> HIDE DEF low, all
  <2>2. Cardinality(all) = Cardinality(low) + 1
    BY <1>3, <1>4, <2>1, FS_AddElement
  <2>3. QED
    BY <1>3, <1>5, <2>2 DEF CountIn, low, all
<1>6. CASE b \notin S
  <2>1. all = low
    BY <1>6
  <2>2. CountIn(S, a, b) = Cardinality(all) /\ CountIn(S, a, b - 1) = Cardinality(low)
    BY DEF CountIn
  <2> HIDE DEF low, all
  <2>3. QED
    BY <1>3, <1>6, <2>1, <2>2
<1>7. QED
  BY <1>5, <1>6

\* A count is a number.
LEMMA CountNat ==
    ASSUME NEW S, NEW a \in Int, NEW b \in Int
    PROVE  CountIn(S, a, b) \in Nat
<1>1. IsFiniteSet(a..b)
  BY FS_Interval
<1>2. {n \in a..b : n \in S} \in SUBSET (a..b)
  OBVIOUS
<1>3. QED
  BY <1>1, <1>2, FS_Subset, FS_CardinalityType DEF CountIn

\* No numbers, no count.
LEMMA CountNone ==
    ASSUME NEW S, NEW a \in Int
    PROVE  CountIn(S, a, a - 1) = 0
<1>1. {n \in a..(a - 1) : n \in S} = {}
  OBVIOUS
<1>2. QED
  BY <1>1, FS_EmptySet DEF CountIn

\* The constants of the measured loop.
LEMMA LoopConstants ==
    ASSUME Drawn
    PROVE  /\ StepSize \in Nat \ {0} /\ NumProbes \in Nat
           /\ probes \in Seq(KeysOf(data) \cup KeysOf(uninserted)) /\ Len(probes) = NumProbes
           /\ Blocks = NumProbes \div StepSize /\ Blocks \in Nat
           /\ NumProbes % StepSize = 0 => Blocks * StepSize = NumProbes
<1>1. StepSize \in Nat \ {0} /\ NumProbes \in Nat
  BY FilterBenchAssumption
<1>2. probes \in [1..NumProbes -> KeysOf(data) \cup KeysOf(uninserted)]
  BY DEF Drawn, generate_probes
<1>3. probes \in Seq(KeysOf(data) \cup KeysOf(uninserted)) /\ Len(probes) = NumProbes
  BY <1>1, <1>2
<1>4. /\ NumProbes \div StepSize \in Nat /\ NumProbes % StepSize \in 0..(StepSize - 1)
      /\ NumProbes = StepSize * (NumProbes \div StepSize) + (NumProbes % StepSize)
  BY <1>1
<1>5. NumProbes % StepSize = 0 => (NumProbes \div StepSize) * StepSize = NumProbes
  BY <1>1, <1>4
<1>6. QED
  BY <1>1, <1>3, <1>4, <1>5 DEF Blocks

\* The bounds of a block, which both loops use.
LEMMA BlockBounds ==
    ASSUME NEW n \in Nat, NEW d \in Nat
    PROVE  /\ n * d \in Nat /\ (n + 1) * d = n * d + d /\ (n + 1) * d \in Nat
           /\ (n + 1 + 1) * d = n * d + d + d
           /\ 0 * d = 0
  OBVIOUS

\* Inside a block only its first probe is at a multiple of the step size.
LEMMA InsideBlock ==
    ASSUME NEW d \in Nat \ {0}, NEW q \in Nat, NEW n \in Nat, q * d < n, n < (q + 1) * d
    PROVE  n % d # 0
<1> DEFINE r == n - q * d
<1>1. q * d \in Nat /\ (q + 1) * d = q * d + d
  BY BlockBounds
<1>2. r \in 1..(d - 1)
  BY <1>1
<1> HIDE DEF r
<1>3. (d * q + r) % d = r
  BY <1>2
<1>4. n = d * q + r
  BY <1>1 DEF r
<1>5. QED
  BY <1>2, <1>3, <1>4

\* What stays the same while a loop runs.
LEMMA LoopFrame ==
    ASSUME UNCHANGED <<data_size, metrics, data, uninserted, probes, positives>>
    PROVE  /\ Drawn' = Drawn /\ Blocks' = Blocks /\ KeysOf(data)' = KeysOf(data)
           /\ PositiveSet' = PositiveSet /\ FalseSet' = FalseSet /\ SkippableSet' = SkippableSet
<1>1. \A lines : KeysOf(lines)' = KeysOf(lines)
  BY DEF KeysOf
<1>2. \A n : Skippable(n)' = Skippable(n)
  BY <1>1 DEF Skippable, Positive
<1>3. Drawn' = Drawn
  BY <1>1 DEF Drawn, generate_probes
<1>4. QED
  BY <1>1, <1>2, <1>3 DEF Blocks, PositiveSet, FalseSet, SkippableSet

\* Entering a measured loop: the data has been added, by this experiment or by
\* the one before, so the assertion holds.
LEMMA StartMetricInv ==
    ASSUME FilterInv, NEW m \in {"latency", "throughput"}, StartMetric(m)
    PROVE  FilterInv'
<1>1. /\ pc = m /\ i' = 0 /\ j' = 0 /\ s' = 0
      /\ data' = data /\ uninserted' = uninserted /\ probes' = probes /\ fps' = fps
  BY DEF StartMetric
<1>2. Drawn /\ Drawn' /\ KeysOf(data)' = KeysOf(data) /\ Blocks' = Blocks
  BY <1>1 DEF FilterInv, Drawn, generate_probes, KeysOf, Blocks
<1>3. StepSize \in Nat \ {0} /\ Blocks \in Nat
  BY <1>2, LoopConstants
<1>4. KeysOf(data) \subseteq positives'
  <2>1. CASE AddsData(m)
    BY <2>1 DEF StartMetric, AddData
  <2>2. CASE ~AddsData(m)
    BY <1>1, <2>2 DEF StartMetric, AddsData, FilterInv
  <2>3. QED
    BY <2>1, <2>2
<1>5. pc' = LoopOf(m)
  BY <1>4 DEF StartMetric
<1>6. Passed' = 0
  <2>1. CASE Blocks = 0
    BY <1>1, <1>2, <1>3, <2>1 DEF Passed
  <2>2. CASE Blocks # 0
    BY <1>1, <1>2, <1>3, <2>2 DEF Passed
  <2>3. QED
    BY <2>1, <2>2
<1>7. \A S : CountIn(S, 1, 0) = 0 /\ CountIn(S, 0, -1) = 0
  BY CountNone
<1>8. ThroughputLoop' /\ LatencyLoop'
  <2>1. 0 * StepSize = 0
    BY <1>3
  <2>2. s' = CountIn(PositiveSet, 1, j)'
    BY <1>1, <1>7 DEF CountIn
  <2>3. CountIn(FalseSet, 1, Passed)' = 0 /\ CountIn(SkippableSet, 0, Passed - 1)' = 0
    BY <1>6, <1>7 DEF CountIn
  <2>4. QED
    BY <1>1, <1>6, <2>1, <2>2, <2>3 DEF ThroughputLoop, LatencyLoop
<1>9. i' <= Blocks'
  BY <1>1, <1>2, <1>3
<1>10. QED
  BY <1>1, <1>2, <1>4, <1>5, <1>8, <1>9 DEF FilterInv, LoopOf

\* A probe of the throughput loop counts one positive if it is one.
LEMMA ThroughputProbeInv ==
    ASSUME FilterInv, ThroughputProbe
    PROVE  FilterInv'
<1>1. /\ pc = "throughput_loop" /\ pc' = pc /\ i' = i /\ j' = j + 1 /\ fps' = fps
      /\ s' = IF Positive(j) THEN s + 1 ELSE s
      /\ i < Blocks /\ j < (i + 1) * StepSize
      /\ UNCHANGED <<data_size, metrics, data, uninserted, probes, positives>>
      /\ metrics' = metrics /\ positives' = positives
  BY DEF ThroughputProbe, InBlock
<1>2. /\ Drawn /\ Drawn' /\ Blocks' = Blocks /\ KeysOf(data)' = KeysOf(data)
      /\ PositiveSet' = PositiveSet
  BY <1>1, LoopFrame DEF FilterInv
<1>3. StepSize \in Nat \ {0} /\ Blocks \in Nat /\ i \in Nat /\ j \in Nat /\ s \in Nat
  BY <1>2, LoopConstants DEF FilterInv
<1>4. i * StepSize \in Nat /\ (i + 1) * StepSize \in Nat
  BY <1>3, BlockBounds
<1>5. Passed' = j + 1 /\ i * StepSize <= j
  <2>1. i * StepSize <= j
    BY <1>1 DEF FilterInv, ThroughputLoop
  <2>2. QED
    BY <1>1, <1>2, <1>3, <1>4, <2>1 DEF Passed
<1>6. s' = CountIn(PositiveSet, 1, j + 1)
  <2>1. s = CountIn(PositiveSet, 1, j)
    BY <1>1 DEF FilterInv, ThroughputLoop
  <2>2. CountIn(PositiveSet, 1, j + 1) = CountIn(PositiveSet, 1, (j + 1) - 1)
                                       + IF j + 1 \in PositiveSet THEN 1 ELSE 0
    BY <1>3, CountOneMore
  <2>3. (j + 1) - 1 = j /\ (j + 1 \in PositiveSet <=> Positive(j))
    BY <1>3 DEF PositiveSet, Positive
  <2>4. QED
    BY <1>1, <1>3, <2>1, <2>2, <2>3
<1>7. ThroughputLoop'
  <2>1. CountIn(PositiveSet, 1, j)' = CountIn(PositiveSet, 1, j + 1)
    BY <1>1, <1>2 DEF CountIn
  <2>2. QED
    BY <1>1, <1>3, <1>4, <1>5, <1>6, <2>1 DEF ThroughputLoop
<1>8. i' \in Nat /\ j' \in Nat /\ s' \in Nat
  BY <1>1, <1>3
<1>9. QED
  BY <1>1, <1>2, <1>7, <1>8 DEF FilterInv

\* A probe of the latency loop counts a false positive, and skips at most one
\* that Skippable describes.
LEMMA LatencyProbeInv ==
    ASSUME FilterInv, LatencyProbe
    PROVE  FilterInv'
<1> DEFINE F(b) == CountIn(FalseSet, 1, b)
           G(b) == CountIn(SkippableSet, 0, b - 1)
           fp == IF j + 1 \in FalseSet THEN 1 ELSE 0
<1>1. /\ pc = "latency_loop" /\ pc' = pc /\ i' = i /\ fps' = fps
      /\ s' = IF Positive(j) /\ probes[j + 1] \notin KeysOf(data) THEN s + 1 ELSE s
      /\ j' = IF Positive(j) THEN j + 2 ELSE j + 1
      /\ i < Blocks /\ j < (i + 1) * StepSize
      /\ UNCHANGED <<data_size, metrics, data, uninserted, probes, positives>>
      /\ metrics' = metrics /\ positives' = positives
  BY DEF LatencyProbe, InBlock
<1>2. /\ Drawn /\ Drawn' /\ Blocks' = Blocks /\ KeysOf(data)' = KeysOf(data)
      /\ FalseSet' = FalseSet /\ SkippableSet' = SkippableSet
  BY <1>1, LoopFrame DEF FilterInv
<1>3. StepSize \in Nat \ {0} /\ Blocks \in Nat /\ i \in Nat /\ j \in Nat /\ s \in Nat
  BY <1>2, LoopConstants DEF FilterInv
<1>4. i * StepSize \in Nat /\ (i + 1) * StepSize \in Nat /\ i * StepSize <= j
  BY <1>1, <1>3, BlockBounds DEF FilterInv, LatencyLoop
<1>5. Passed = j
  BY <1>1, <1>3, <1>4 DEF Passed
<1>6. s <= F(j) /\ F(j) <= s + G(j)
  BY <1>1, <1>5 DEF FilterInv, LatencyLoop
<1>7. s' = s + fp
  <2>1. j + 1 \in FalseSet <=> Positive(j) /\ probes[j + 1] \notin KeysOf(data)
    BY <1>3 DEF FalseSet, Positive
  <2>2. QED
    BY <1>1, <1>3, <2>1
<1>8. ASSUME NEW b \in Nat
      PROVE  /\ F(b) \in Nat /\ F(b + 1) = F(b) + IF b + 1 \in FalseSet THEN 1 ELSE 0
             /\ G(b) \in Nat /\ G(b + 1) = G(b) + IF b \in SkippableSet THEN 1 ELSE 0
  <2>1. (b + 1) - 1 = b /\ 1 <= b + 1 /\ 0 <= b /\ b + 1 \in Int /\ b \in Int
    OBVIOUS
  <2>2. /\ CountIn(FalseSet, 1, (b + 1) - 1) \in Nat
        /\ CountIn(FalseSet, 1, b + 1) = CountIn(FalseSet, 1, (b + 1) - 1)
                                        + IF b + 1 \in FalseSet THEN 1 ELSE 0
    BY <2>1, CountOneMore
  <2>3. /\ CountIn(SkippableSet, 0, b - 1) \in Nat
        /\ CountIn(SkippableSet, 0, b) = CountIn(SkippableSet, 0, b - 1)
                                        + IF b \in SkippableSet THEN 1 ELSE 0
    BY <2>1, CountOneMore
  <2>4. QED
    BY <2>1, <2>2, <2>3
<1>9. /\ Passed' \in Nat
      /\ s' <= F(Passed') /\ F(Passed') <= s' + G(Passed')
  <2>1. CASE Passed' = j + 1
    <3> HIDE DEF F, G
    <3>1. F(j + 1) = F(j) + fp /\ F(j) \in Nat /\ G(j) \in Nat /\ G(j + 1) \in Nat /\ G(j) <= G(j + 1)
      <4>1. /\ F(j + 1) = F(j) + fp /\ F(j) \in Nat /\ G(j) \in Nat
            /\ G(j + 1) = G(j) + IF j \in SkippableSet THEN 1 ELSE 0
        BY <1>3, <1>8
      <4>2. QED
        BY <4>1
    <3>2. QED
      BY <1>3, <1>6, <1>7, <2>1, <3>1
  <2>2. CASE Passed' # j + 1
    <3>1. Positive(j) /\ Passed' = j + 2 /\ j + 1 < (i + 1) * StepSize
      BY <1>1, <1>2, <1>3, <1>4, <2>2 DEF Passed
    <3>2. (j + 1) % StepSize # 0
      <4>1. j + 1 \in Nat /\ i * StepSize < j + 1 /\ j + 1 < (i + 1) * StepSize
        BY <1>3, <1>4, <3>1
      <4>2. QED
        BY <1>3, <4>1, InsideBlock
    <3>3. j + 1 \in SkippableSet <=> (j + 1) + 1 \in FalseSet
      <4>1. (j + 1) - 1 = j
        BY <1>3
      <4>2. Skippable(j + 1) <=> Positive(j + 1) /\ probes[(j + 1) + 1] \notin KeysOf(data)
        BY <3>1, <3>2, <4>1 DEF Skippable
      <4>3. QED
        BY <1>3, <4>2 DEF SkippableSet, FalseSet, Positive
    <3> HIDE DEF F, G
    <3>4. /\ F(j + 1) = F(j) + fp /\ F(j) \in Nat /\ G(j) \in Nat /\ G(j + 1) \in Nat
          /\ G(j) <= G(j + 1)
      <4>1. /\ F(j + 1) = F(j) + fp /\ F(j) \in Nat /\ G(j) \in Nat
            /\ G(j + 1) = G(j) + IF j \in SkippableSet THEN 1 ELSE 0
        BY <1>3, <1>8
      <4>2. QED
        BY <4>1
    <3>5. /\ F((j + 1) + 1) = F(j + 1) + IF (j + 1) + 1 \in FalseSet THEN 1 ELSE 0
          /\ G((j + 1) + 1) = G(j + 1) + IF j + 1 \in SkippableSet THEN 1 ELSE 0
      BY <1>3, <1>8
    <3>6. (j + 1) + 1 = j + 2
      BY <1>3
    <3>7. /\ F(Passed') = F(j + 1) + IF j + 1 \in SkippableSet THEN 1 ELSE 0
          /\ G(Passed') = G(j + 1) + IF j + 1 \in SkippableSet THEN 1 ELSE 0
      BY <3>1, <3>3, <3>5, <3>6
    <3>8. QED
      BY <1>3, <1>6, <1>7, <3>1, <3>4, <3>7
  <2>3. QED
    BY <2>1, <2>2
<1>10. LatencyLoop'
  <2>1. i * StepSize <= j'
    BY <1>1, <1>3, <1>4
  <2>2. CountIn(FalseSet, 1, Passed)' = F(Passed') /\ CountIn(SkippableSet, 0, Passed - 1)' = G(Passed')
    BY <1>2 DEF CountIn
  <2> HIDE DEF F, G
  <2>3. QED
    BY <1>1, <1>9, <2>1, <2>2 DEF LatencyLoop
<1>11. i' \in Nat /\ j' \in Nat /\ s' \in Nat
  BY <1>1, <1>3
<1>12. QED
  BY <1>1, <1>2, <1>10, <1>11 DEF FilterInv

\* The step to the next block, back over what a skip ran into.
LEMMA NextBlockInv ==
    ASSUME FilterInv, NextBlock
    PROVE  FilterInv'
<1>1. /\ pc \in {"latency_loop", "throughput_loop"} /\ pc' = pc /\ i' = i + 1 /\ s' = s /\ fps' = fps
      /\ j' = IF i + 1 < Blocks THEN (i + 1) * StepSize ELSE j
      /\ i < Blocks /\ ~(j < (i + 1) * StepSize)
      /\ UNCHANGED <<data_size, metrics, data, uninserted, probes, positives>>
      /\ metrics' = metrics /\ positives' = positives
  BY DEF NextBlock, InBlock
<1>2. /\ Drawn /\ Drawn' /\ Blocks' = Blocks /\ KeysOf(data)' = KeysOf(data)
      /\ PositiveSet' = PositiveSet /\ FalseSet' = FalseSet /\ SkippableSet' = SkippableSet
  BY <1>1, LoopFrame DEF FilterInv
<1>3. StepSize \in Nat \ {0} /\ Blocks \in Nat /\ i \in Nat /\ j \in Nat /\ s \in Nat
  BY <1>2, LoopConstants DEF FilterInv
<1>4. /\ i * StepSize \in Nat /\ (i + 1) * StepSize = i * StepSize + StepSize
      /\ (i + 1) * StepSize \in Nat
      /\ (i + 1 + 1) * StepSize = (i + 1) * StepSize + StepSize
  BY <1>3, BlockBounds
<1>5. Passed = (i + 1) * StepSize
  BY <1>1, <1>3, <1>4 DEF Passed
<1>6. Passed' = Passed
  <2>1. CASE i + 1 < Blocks
    <3>1. j' = (i + 1) * StepSize /\ i' # Blocks' /\ j' < (i + 1 + 1) * StepSize
      BY <1>1, <1>2, <1>3, <1>4, <2>1
    <3>2. QED
      BY <1>1, <1>5, <3>1 DEF Passed
  <2>2. CASE i + 1 = Blocks
    BY <1>1, <1>2, <1>5, <2>2 DEF Passed
  <2>3. QED
    BY <1>1, <1>3, <2>1, <2>2
<1>7. i' \in Nat /\ j' \in Nat /\ s' \in Nat /\ i' <= Blocks'
  BY <1>1, <1>2, <1>3, <1>4
<1>8. ASSUME pc = "throughput_loop" PROVE ThroughputLoop'
  <2>1. ThroughputLoop /\ j = Passed
    BY <1>8 DEF FilterInv, ThroughputLoop
  <2>2. j' = j
    BY <1>1, <1>5, <2>1
  <2>3. CountIn(PositiveSet, 1, j)' = CountIn(PositiveSet, 1, j)
    BY <1>2, <2>2 DEF CountIn
  <2>4. i' * StepSize <= j'
    BY <1>1, <1>4, <1>5, <2>1, <2>2
  <2>5. QED
    BY <1>1, <1>6, <2>1, <2>2, <2>3, <2>4 DEF ThroughputLoop
<1>9. ASSUME pc = "latency_loop" PROVE LatencyLoop'
  <2>1. LatencyLoop
    BY <1>9 DEF FilterInv
  <2>2. /\ CountIn(FalseSet, 1, Passed)' = CountIn(FalseSet, 1, Passed)
        /\ CountIn(SkippableSet, 0, Passed - 1)' = CountIn(SkippableSet, 0, Passed - 1)
    BY <1>2, <1>6 DEF CountIn
  <2>3. i' < Blocks' => i' * StepSize <= j'
    BY <1>1, <1>2, <1>4
  <2>4. QED
    BY <1>1, <2>1, <2>2, <2>3 DEF LatencyLoop
<1>10. QED
  BY <1>1, <1>2, <1>7, <1>8, <1>9 DEF FilterInv

\* The invariant of the filter benchmark, for every data file, number of
\* probes, share of successful ones, step size and number of trials.
THEOREM FilterInvariant == FilterSpec => []FilterInv
<1>1. FilterInit => FilterInv
  BY DEF FilterInit, FilterInv
<1>2. FilterInv /\ [FilterNext]_benchVars => FilterInv'
  <2> SUFFICES ASSUME FilterInv, [FilterNext]_benchVars PROVE FilterInv'
    OBVIOUS
  <2>1. CASE StartTrial
    <3>1. PICK DU \in get_subset :
            /\ data' = DU[1] /\ uninserted' = DU[2]
            /\ IF DrawsFromEmpty(DU[1], DU[2])
               THEN probes' = <<>> /\ pc' = "crashed"
               ELSE /\ probes' \in generate_probes(DU[1], DU[2])
                    /\ pc' = IF "latency" \in metrics THEN "latency" ELSE "throughput"
      BY <2>1 DEF StartTrial
    <3>2. i' = i /\ j' = j /\ s' = s /\ fps' = fps /\ metrics' = metrics
      BY <2>1 DEF StartTrial
    <3>3. PICK D : D \in SUBSET DOMAIN FullData /\ DU = <<D, (DOMAIN FullData) \ D>>
      BY DEF get_subset, kSubset
    <3>4. D \subseteq DOMAIN FullData
      BY <3>3
    <3>5. pc' # "crashed" => Drawn'
      BY <3>1, <3>3, <3>4 DEF Drawn, generate_probes, KeysOf
    <3>6. pc' \in {"crashed", "latency", "throughput"} /\ (pc' = "throughput" => "latency" \notin metrics')
      BY <3>1, <3>2
    <3>7. QED
      BY <3>2, <3>5, <3>6 DEF FilterInv
  <2>2. ASSUME NEW m \in {"latency", "throughput"}, StartMetric(m) PROVE FilterInv'
    BY <2>2, StartMetricInv
  <2>3. CASE LatencyProbe
    BY <2>3, LatencyProbeInv
  <2>4. CASE ThroughputProbe
    BY <2>4, ThroughputProbeInv
  <2>5. CASE NextBlock
    BY <2>5, NextBlockInv
  <2>6. CASE RelayLatency
    <3>1. UNCHANGED <<data_size, metrics, data, uninserted, probes, positives>>
          /\ i' = i /\ j' = j /\ s' = s /\ pc = "latency_loop" /\ pc' \in {"throughput", "trial"}
          /\ metrics' = metrics /\ positives' = positives
          /\ fps' = [fps EXCEPT !.latency = @ + s]
      BY <2>6 DEF RelayLatency
    <3>2. fps' \in [latency : Int, throughput : Int]
      BY <3>1 DEF FilterInv
    <3>3. QED
      BY <3>1, <3>2, LoopFrame DEF FilterInv
  <2>7. CASE RelayThroughput
    <3>1. /\ i' = i /\ j' = j /\ s' = s /\ pc = "throughput_loop" /\ pc' = "trial"
          /\ fps' = [fps EXCEPT !.throughput = @ + s - (Len(probes) - Unsuccessful)]
      BY <2>7 DEF RelayThroughput
    <3>2. Len(probes) - Unsuccessful \in Int
      BY <3>1, LoopConstants, FilterBenchAssumption DEF FilterInv, Unsuccessful
    <3>3. fps' \in [latency : Int, throughput : Int]
      BY <3>1, <3>2 DEF FilterInv
    <3>4. QED
      BY <3>1, <3>3 DEF FilterInv
  <2>8. CASE UNCHANGED benchVars
    <3>1. UNCHANGED <<data_size, metrics, data, uninserted, probes, positives>>
          /\ i' = i /\ j' = j /\ s' = s /\ pc' = pc /\ metrics' = metrics
          /\ positives' = positives /\ fps' = fps
      BY <2>8 DEF benchVars
    <3>2. ThroughputLoop' = ThroughputLoop /\ LatencyLoop' = LatencyLoop
      BY <3>1, LoopFrame DEF ThroughputLoop, LatencyLoop, Passed, CountIn
    <3>3. QED
      BY <3>1, <3>2, LoopFrame DEF FilterInv
  <2>9. QED
    BY <2>1, <2>2, <2>3, <2>4, <2>5, <2>6, <2>7, <2>8 DEF FilterNext, Finished
<1>3. QED
  BY <1>1, <1>2, PTL DEF FilterSpec

\* Every assertion that the data tests positive holds, whichever metrics are
\* asked for.
THEOREM AssertionsHoldHolds == FilterSpec => []AssertionsHold
<1>1. FilterInv => AssertionsHold
  BY DEF FilterInv, AssertionsHold
<1>2. QED
  BY <1>1, FilterInvariant, PTL

\* Of the false positives among the probes of its blocks the latency experiment
\* misses only ones that it skips, and adds none.
THEOREM LatencyCountsHolds == FilterSpec => []LatencyCounts
<1>1. FilterInv => LatencyCounts
  <2> SUFFICES ASSUME FilterInv, pc = "latency_loop", i = Blocks
               PROVE  s \in (FalsePositives(StepSize * Blocks)
                               - Cardinality({n \in 0..(StepSize * Blocks - 1) : Skippable(n)}))
                            ..FalsePositives(StepSize * Blocks)
    BY DEF LatencyCounts
  <2> DEFINE final == StepSize * Blocks
  <2>1. StepSize \in Nat \ {0} /\ Blocks \in Nat /\ s \in Nat
    BY LoopConstants DEF FilterInv
  <2>2. final \in Nat /\ Passed = final
    BY <2>1 DEF Passed
  <2> HIDE DEF final
  <2>3. FalsePositives(final) = CountIn(FalseSet, 1, final)
    <3>1. {m \in 1..final : probes[m] \in positives \ KeysOf(data)} = {n \in 1..final : n \in FalseSet}
      BY <2>2 DEF FalseSet
    <3>2. QED
      BY <3>1 DEF FalsePositives, CountIn
  <2>4. Cardinality({n \in 0..(final - 1) : Skippable(n)}) = CountIn(SkippableSet, 0, final - 1)
    <3>1. {n \in 0..(final - 1) : Skippable(n)} = {n \in 0..(final - 1) : n \in SkippableSet}
      BY <2>2 DEF SkippableSet
    <3>2. QED
      BY <3>1 DEF CountIn
  <2>5. CountIn(SkippableSet, 0, final - 1) \in Nat
    BY <2>2, CountNat
  <2>6. CountIn(FalseSet, 1, final) \in Nat
    BY <2>2, CountNat
  <2>7. s <= CountIn(FalseSet, 1, final) /\ CountIn(FalseSet, 1, final) <= s + CountIn(SkippableSet, 0, final - 1)
    BY <2>2 DEF FilterInv, LatencyLoop
  <2>8. s \in (FalsePositives(final) - Cardinality({n \in 0..(final - 1) : Skippable(n)}))
              ..FalsePositives(final)
    BY <2>1, <2>3, <2>4, <2>5, <2>6, <2>7
  <2>9. QED
    BY <2>8 DEF final
<1>2. QED
  BY <1>1, FilterInvariant, PTL

\* When no line of the file occurs twice, as many probes are in the data as
\* were drawn from it.
LEMMA SuccessfulProbes ==
    ASSUME Drawn, IsInjective(FullData)
    PROVE  /\ IsFiniteSet({n \in 1..NumProbes : probes[n] \in KeysOf(data)})
           /\ Cardinality({n \in 1..NumProbes : probes[n] \in KeysOf(data)}) = Successful
<1>1. PICK S \in kSubset(Successful, 1..NumProbes) :
          \A n \in 1..NumProbes :
              probes[n] \in IF n \in S THEN KeysOf(data) ELSE KeysOf(uninserted)
  BY DEF Drawn, generate_probes
<1>2. S \subseteq 1..NumProbes /\ Cardinality(S) = Successful
  BY DEF kSubset
<1>3. KeysOf(data) \cap KeysOf(uninserted) = {}
  BY DEF Drawn, KeysOf, IsInjective
<1>4. {n \in 1..NumProbes : probes[n] \in KeysOf(data)} = S
  BY <1>1, <1>2, <1>3
<1>5. IsFiniteSet(S)
  <2>1. NumProbes \in Nat
    BY FilterBenchAssumption
  <2>2. IsFiniteSet(1..NumProbes)
    BY <2>1, FS_Interval
  <2>3. QED
    BY <1>2, <2>2, FS_Subset
<1>6. QED
  BY <1>2, <1>4, <1>5

\* The false positives that throughput reports are the false positives among
\* its probes, when no line occurs twice and the blocks cover all probes.
THEOREM ThroughputExactHolds == FilterSpec => ThroughputExact
<1> DEFINE Exact == /\ IsInjective(FullData) /\ NumProbes % StepSize = 0
                    /\ pc = "throughput_loop" /\ pc' = "trial"
                    => fps'.throughput - fps.throughput = FalsePositives(Len(probes))
<1>1. FilterInv /\ [FilterNext]_benchVars => [Exact]_benchVars
  <2> SUFFICES ASSUME FilterInv, FilterNext, IsInjective(FullData), NumProbes % StepSize = 0,
                      pc = "throughput_loop", pc' = "trial"
               PROVE  fps'.throughput - fps.throughput = FalsePositives(Len(probes))
    OBVIOUS
  <2> DEFINE good == {n \in 1..NumProbes : probes[n] \in KeysOf(data)}
             false == {n \in 1..NumProbes : probes[n] \in positives \ KeysOf(data)}
             all == {n \in 1..NumProbes : n \in PositiveSet}
  <2>1. RelayThroughput
    BY DEF FilterNext, StartTrial, StartMetric, LatencyProbe, ThroughputProbe, NextBlock,
       RelayLatency, Finished, benchVars
  <2>2. i = Blocks /\ fps' = [fps EXCEPT !.throughput = @ + s - (Len(probes) - Unsuccessful)]
    BY <2>1 DEF RelayThroughput
  <2>3. /\ NumProbes \in Nat /\ Len(probes) = NumProbes /\ Drawn
        /\ Blocks * StepSize = NumProbes
    BY LoopConstants DEF FilterInv
  <2>4. s = Cardinality(all)
    <3>1. s = CountIn(PositiveSet, 1, j) /\ j = NumProbes
      BY <2>2, <2>3 DEF FilterInv, ThroughputLoop, Passed
    <3>2. QED
      BY <3>1 DEF CountIn
  <2>5. all = good \cup false /\ good \cap false = {}
    BY <2>3 DEF FilterInv, PositiveSet
  <2>6. IsFiniteSet(good) /\ Cardinality(good) = Successful
    BY <2>3, SuccessfulProbes
  <2>7. IsFiniteSet(false) /\ Cardinality(false) \in Nat
    <3>1. IsFiniteSet(1..NumProbes)
      BY <2>3, FS_Interval
    <3>2. false \in SUBSET (1..NumProbes)
      OBVIOUS
    <3>3. QED
      BY <3>1, <3>2, FS_Subset, FS_CardinalityType
  <2>8. FalsePositives(Len(probes)) = Cardinality(false)
    BY <2>3 DEF FalsePositives
  <2> HIDE DEF good, false, all
  <2>9. Cardinality(all) = Cardinality(good) + Cardinality(false)
    <3>1. Cardinality(good \cup false) = Cardinality(good) + Cardinality(false) - Cardinality(good \cap false)
      BY <2>6, <2>7, FS_Union
    <3>2. Cardinality(good \cap false) = 0
      BY <2>5, FS_EmptySet
    <3>3. Successful \in Nat
      BY FilterBenchAssumption
    <3>4. QED
      BY <2>5, <2>6, <2>7, <3>1, <3>2, <3>3
  <2>10. fps.throughput \in Int /\ Successful \in Nat /\ Unsuccessful = NumProbes - Successful
    BY FilterBenchAssumption DEF FilterInv, Unsuccessful
  <2>11. fps'.throughput = fps.throughput + s - (Len(probes) - Unsuccessful)
    BY <2>2 DEF FilterInv
  <2>12. QED
    BY <2>3, <2>4, <2>6, <2>7, <2>8, <2>9, <2>10, <2>11
<1>2. QED
  BY <1>1, FilterInvariant, PTL DEF FilterSpec, ThroughputExact
=============================================================================
