--------------------------- MODULE LocationProofs ---------------------------
(***************************************************************************)
(* Theorems about how word locations are chosen and used, for every        *)
(* sample, location file, data set and error bound: what the functors      *)
(* built from a location file read (SubsetHash), and that the greedy       *)
(* selector picks and reports what it says (EntropySelector).              *)
(***************************************************************************)
EXTENDS SubsetHash, EntropySelector, TLAPS, FiniteSetTheorems, SequenceTheorems,
        WellFoundedInduction

-----------------------------------------------------------------------------
(* Division, least and greatest elements.                                            *)

\* Division with remainder.
LEMMA DivMod ==
    ASSUME NEW a \in Nat, NEW m \in Nat \ {0}
    PROVE  /\ a \div m \in Nat /\ a % m \in 0..(m - 1)
           /\ a = m * (a \div m) + (a % m)
  OBVIOUS

\* A set of numbers that is not empty has a least one.
LEMMA LeastExists ==
    ASSUME NEW S \in SUBSET Nat, S # {}
    PROVE  \E x \in S : \A y \in S : x <= y
<1>1. IsWellFoundedOn(OpToRel(<, Nat), Nat)
  BY NatLessThanWellFounded
<1>2. PICK x \in S : \A y \in S : ~(<<y, x>> \in OpToRel(<, Nat))
  BY <1>1, WFMin
<1>3. \A y \in S : ~(y < x)
  BY <1>2 DEF OpToRel
<1>4. \A y \in S : y \in Nat /\ x \in Nat
  OBVIOUS
<1>5. QED
  BY <1>3, <1>4

\* Min is the only least element.
LEMMA MinLeast ==
    ASSUME NEW S \in SUBSET Nat, S # {}
    PROVE  /\ Min(S) \in S /\ \A y \in S : Min(S) <= y
           /\ \A x \in S : (\A y \in S : x <= y) => x = Min(S)
<1>1. Min(S) \in S /\ \A y \in S : Min(S) <= y
  BY LeastExists DEF Min
<1>2. ASSUME NEW x \in S, \A y \in S : x <= y
      PROVE  x = Min(S)
  <2>1. PICK m \in S : m = Min(S)
    BY <1>1
  <2>2. x \in Nat /\ m \in Nat /\ x <= m /\ m <= x
    BY <1>1, <1>2, <2>1
  <2>3. QED
    BY <2>1, <2>2
<1>3. QED
  BY <1>1, <1>2

\* Max of a set with one element.
LEMMA MaxSingle ==
    ASSUME NEW x \in Nat
    PROVE  Max({x}) = x
  BY DEF Max

-----------------------------------------------------------------------------
(* SubsetHash.                                                             *)

\* The prefixes of the locations that have the entropy the error bound needs.
Enough == {i \in DOMAIN file.entropies : file.entropies[i] > Needed}

\* The first good prefix, where it is one of the first four.
FirstFour == {i \in 1..4 \cap DOMAIN file.entropies : file.entropies[i] > Needed}

\* What ChooseLocations has stored.
ChosenInv ==
    /\ bench \in Benches
    /\ num = numLocations(bench)
    /\ hash_locations \in SortedPrefix(num)

\* What the whole run of a benchmark keeps: the number of locations and the
\* sorted locations are those of the file, the functor is the one the if-chain
\* selects for that number, and the last key was hashed with it.
LocationInv ==
    /\ file \in Files
    /\ state \in {"start", "loaded", "chosen", "built", "hashed", "crashed"}
    /\ state # "start" =>
           /\ lens \in Datasets
           /\ \A l \in Range(file.locations) : Word * (l + 1) <= Max(lens)
           /\ Cardinality(lens) = 1 => file.fixed
    /\ state \in {"chosen", "built", "hashed", "crashed"} => ChosenInv
    /\ state \in {"built", "hashed", "crashed"} =>
           \E f \in Families :
               /\ fn = <<f, Arity(f)>>
               /\ state = "crashed" <=> (Arity(f) > 0 /\ hash_locations = <<>>)
    /\ IF state = "hashed" THEN len \in lens /\ read = Reads(fn[1], fn[2], len)
       ELSE read = {}

\* Steps that leave the file and the choice alone.
LEMMA ChoiceUnchanged ==
    ASSUME UNCHANGED <<file, bench, num, hash_locations>>
    PROVE  /\ ChosenInv' <=> ChosenInv
           /\ \A f \in Families : Arity(f)' = Arity(f)
<1>1. numLocations(bench)' = numLocations(bench)
  BY DEF numLocations, Prefix
<1>2. SortedPrefix(num)' = SortedPrefix(num)
  BY DEF SortedPrefix
<1>3. ChosenInv' <=> ChosenInv
  BY <1>1, <1>2 DEF ChosenInv
<1>4. \A f \in Families : Arity(f)' = Arity(f)
  BY DEF Arity, bench_selfbloom, bench_blockbloom, bench_register_block_bloom,
     bench_partitioners, bench_std_table, bench_swiss_table, bench_swiss_table_mt
<1>5. QED
  BY <1>3, <1>4

\* How many locations a benchmark takes: with a good prefix among the first
\* four the shortest one, and never more than the file has or than five.
LEMMA NumLocations ==
    ASSUME file \in Files, NEW b \in Benches
    PROVE  /\ numLocations(b) \in 0..5
           /\ numLocations(b) <= Len(file.locations)
           /\ FirstFour # {} => numLocations(b) = Min(FirstFour) /\ Min(FirstFour) \in 1..4
           /\ numLocations(b) = 0 => Enough = {}
<1> DEFINE size == Len(file.entropies)
<1>1. /\ DOMAIN file.entropies = 1..size /\ size \in Nat \ {0}
      /\ size = Len(file.locations)
      /\ \A n \in 1..size : file.entropies[n] \in Int
      /\ Needed \in Int
  BY SubsetHashAssumption
<1> HIDE DEF size
<1>2. Enough \in SUBSET Nat /\ Enough \subseteq 1..size
  BY <1>1 DEF Enough
<1>3. Enough # {} => Min(Enough) \in 1..size /\ Min(Enough) \in Enough
  BY <1>2, MinLeast
<1>4. ASSUME FirstFour # {}
      PROVE  Enough # {} /\ Min(FirstFour) = Min(Enough) /\ Min(FirstFour) \in 1..4
  <2>1. FirstFour \in SUBSET Nat /\ FirstFour \subseteq Enough
        /\ \A n \in Enough : n <= 4 => n \in FirstFour
    BY <1>1 DEF FirstFour, Enough
  <2>2. Min(FirstFour) \in FirstFour /\ \A y \in FirstFour : Min(FirstFour) <= y
    BY <1>4, <2>1, MinLeast
  <2>3. Min(FirstFour) \in 1..4
    BY <2>2 DEF FirstFour
  <2>4. \A y \in Enough : Min(FirstFour) <= y
    BY <1>2, <2>1, <2>2, <2>3
  <2>5. QED
    BY <1>2, <2>1, <2>2, <2>3, <2>4, MinLeast
<1>5. ASSUME NEW default \in {0, size - 1}, NEW cap \in {4, 5}
      PROVE  /\ Prefix(default, cap) \in 0..5
             /\ Prefix(default, cap) <= size
             /\ FirstFour # {} => Prefix(default, cap) = Min(FirstFour)
             /\ Prefix(default, cap) = 0 => Enough = {}
  <2> DEFINE n == IF Enough # {} THEN Min(Enough) ELSE default
  <2>1. Prefix(default, cap) = IF n > 4 THEN cap ELSE n
    BY DEF Prefix, Enough
  <2>2. n \in 0..size /\ (n = 0 => Enough = {})
    BY <1>1, <1>3
  <2>3. FirstFour # {} => n = Min(FirstFour) /\ n \in 1..4
    BY <1>4
  <2> HIDE DEF n
  <2>4. QED
    BY <1>1, <2>1, <2>2, <2>3
<1>6. \E default \in {0, size - 1}, cap \in {4, 5} : numLocations(b) = Prefix(default, cap)
  BY DEF numLocations, size
<1>7. QED
  BY <1>1, <1>4, <1>5, <1>6

\* Which functor the if-chain of a benchmark takes for a number of locations.
LEMMA ArityOf ==
    ASSUME bench \in Benches, NEW f \in Families, num \in 0..5
    PROVE  /\ Arity(f) \in 0..4
           /\ num \in 1..4 => Arity(f) = num
<1> USE DEF Arity, Normal
<1>1. CASE bench = "selfbloom"
  BY <1>1 DEF bench_selfbloom
<1>2. CASE bench = "blockbloom"
  BY <1>2 DEF bench_blockbloom
<1>3. CASE bench = "register_block_bloom"
  BY <1>3 DEF bench_register_block_bloom
<1>4. CASE bench = "partitioners"
  BY <1>4 DEF bench_partitioners
<1>5. CASE bench = "std_table"
  BY <1>5 DEF bench_std_table
<1>6. CASE bench = "swiss_table"
  BY <1>6 DEF bench_swiss_table
<1>7. CASE bench = "swiss_table_mt"
  BY <1>7 DEF bench_swiss_table_mt
<1>8. QED
  BY <1>1, <1>2, <1>3, <1>4, <1>5, <1>6, <1>7, SubsetHashAssumption

\* The invariant holds from the start, and every step keeps it.
THEOREM LocationInvariant == Spec => []LocationInv
<1>1. Init => LocationInv
  BY DEF Init, LocationInv
<1>2. LocationInv /\ [Next]_vars => LocationInv'
  <2> SUFFICES ASSUME LocationInv, [Next]_vars PROVE LocationInv'
    OBVIOUS
  <2>1. ASSUME NEW L \in Datasets, setLocationData(L)
        PROVE  LocationInv'
    BY <2>1 DEF LocationInv, setLocationData
  <2>2. ASSUME NEW b \in Benches, ChooseLocations(b)
        PROVE  LocationInv'
    <3>1. file' = file /\ bench' = b /\ num' = numLocations(b)
          /\ hash_locations' \in SortedPrefix(num')
      BY <2>2 DEF ChooseLocations
    <3>2. numLocations(bench)' = numLocations(b)
      BY <3>1 DEF numLocations, Prefix
    <3>3. SortedPrefix(num)' = SortedPrefix(num')
      BY <3>1 DEF SortedPrefix
    <3>4. ChosenInv'
      BY <3>1, <3>2, <3>3 DEF ChosenInv
    <3>5. QED
      BY <2>2, <3>4 DEF LocationInv, ChooseLocations
  <2>3. ASSUME NEW f \in Families, Construct(f)
        PROVE  LocationInv'
    <3>0. UNCHANGED <<file, bench, num, hash_locations>> /\ ChosenInv
      BY <2>3 DEF Construct, LocationInv
    <3>1. ChosenInv' /\ Arity(f)' = Arity(f)
      BY <3>0, ChoiceUnchanged
    <3>2. QED
      BY <2>3, <3>1 DEF LocationInv, Construct
  <2>4. ASSUME NEW n \in lens, Hash(n)
        PROVE  LocationInv'
    <3>0. UNCHANGED <<file, bench, num, hash_locations>> /\ ChosenInv
      BY <2>4 DEF Hash, LocationInv
    <3>1. ChosenInv' /\ \A f \in Families : Arity(f)' = Arity(f)
      BY <3>0, ChoiceUnchanged
    <3>2. Reads(fn[1], fn[2], n)' = Reads(fn[1], fn[2], n)
      BY <2>4 DEF Hash, Reads, LongEnough, Endpoint, FixedReads, XXH3_fixed,
         wyhash_fixed, crc32_wyhash_fixed, Words, Bytes, At
    <3>3. QED
      BY <2>4, <3>1, <3>2 DEF LocationInv, Hash
  <2>5. CASE Return
    BY <2>5 DEF LocationInv, Return
  <2>6. CASE UNCHANGED vars
    <3>0. UNCHANGED <<file, bench, num, hash_locations>>
      BY <2>6 DEF vars
    <3>1. ChosenInv' <=> ChosenInv
      BY <3>0, ChoiceUnchanged
    <3>2. \A f \in Families : Arity(f)' = Arity(f)
      BY <3>0, ChoiceUnchanged
    <3>3. Reads(fn[1], fn[2], len)' = Reads(fn[1], fn[2], len)
      BY <2>6 DEF vars, Reads, LongEnough, Endpoint, FixedReads, XXH3_fixed,
         wyhash_fixed, crc32_wyhash_fixed, Words, Bytes, At
    <3>4. QED
      BY <2>6, <3>1, <3>2, <3>3 DEF LocationInv, vars
  <2>7. QED
    BY <2>1, <2>2, <2>3, <2>4, <2>5, <2>6 DEF Next, Crashed
<1>3. QED
  BY <1>1, <1>2, PTL DEF Spec

\* When four locations or fewer have the entropy the error bound asks for,
\* every benchmark builds the functor for the fewest that do.
THEOREM FewestLocationsHolds == Spec => []FewestLocations
<1>1. LocationInv => FewestLocations
  <2> SUFFICES ASSUME LocationInv, state = "built", FirstFour # {}
               PROVE  fn[2] = Min(FirstFour)
    BY DEF FewestLocations, FirstFour
  <2>1. num = Min(FirstFour) /\ num \in 1..4
    BY NumLocations DEF LocationInv, ChosenInv
  <2>2. PICK f \in Families : fn = <<f, Arity(f)>>
    BY DEF LocationInv
  <2>3. Arity(f) = num
    BY <2>1, ArityOf DEF LocationInv, ChosenInv
  <2>4. QED
    BY <2>1, <2>2, <2>3
<1>2. QED
  BY <1>1, LocationInvariant, PTL

\* No functor copies a location from behind the vector it is given, whichever
\* branch of an if-chain built it.
THEOREM FunctorInsideLocationsHolds == Spec => []FunctorInsideLocations
<1>1. LocationInv => FunctorInsideLocations
  <2> SUFFICES ASSUME LocationInv, state \in {"built", "hashed"}
               PROVE  1..fn[2] \subseteq DOMAIN hash_locations
    BY DEF FunctorInsideLocations
  <2>1. /\ bench \in Benches /\ num = numLocations(bench) /\ file \in Files
        /\ hash_locations \in SortedPrefix(num)
    BY DEF LocationInv, ChosenInv
  <2>2. PICK f \in Families : fn = <<f, Arity(f)>> /\ ~(Arity(f) > 0 /\ hash_locations = <<>>)
    BY DEF LocationInv
  <2>3. num \in 0..5
    BY <2>1, NumLocations
  <2>4. Arity(f) \in 0..4 /\ (num \in 1..4 => Arity(f) = num)
    BY <2>1, <2>3, ArityOf
  <2>5. hash_locations \in [1..num -> {file.locations[n] : n \in 1..num}]
    BY <2>1 DEF SortedPrefix
  <2>6. num = 0 => Arity(f) = 0
    <3> SUFFICES ASSUME num = 0 PROVE hash_locations = <<>>
      BY <2>2, <2>4
    <3>1. 1..0 = {}
      OBVIOUS
    <3>2. QED
      BY <2>5, <3>1
  <2>7. Arity(f) <= num /\ fn[2] = Arity(f)
    BY <2>2, <2>3, <2>4, <2>6
  <2>8. QED
    BY <2>3, <2>4, <2>5, <2>7
<1>2. QED
  BY <1>1, LocationInvariant, PTL

\* A functor is built from an empty vector only when no prefix of the locations
\* has enough entropy.
THEOREM EmptyOnlyWithoutEntropyHolds == Spec => []EmptyOnlyWithoutEntropy
<1>1. LocationInv => EmptyOnlyWithoutEntropy
  <2> SUFFICES ASSUME LocationInv, state = "crashed"
               PROVE  \A n \in DOMAIN file.entropies : file.entropies[n] <= Needed
    BY DEF EmptyOnlyWithoutEntropy
  <2>1. hash_locations = <<>> /\ hash_locations \in SortedPrefix(num) /\ bench \in Benches
        /\ num = numLocations(bench) /\ file \in Files
    BY DEF LocationInv, ChosenInv
  <2>2. num \in 0..5
    BY <2>1, NumLocations
  <2>3. DOMAIN hash_locations = 1..num /\ DOMAIN hash_locations = {}
    BY <2>1 DEF SortedPrefix
  <2>4. num = 0
    BY <2>2, <2>3
  <2>5. Enough = {}
    BY <2>1, <2>4, NumLocations
  <2>6. \A n \in DOMAIN file.entropies : file.entropies[n] \in Int
    BY <2>1, SubsetHashAssumption
  <2>7. QED
    BY <2>5, <2>6, SubsetHashAssumption DEF Enough
<1>2. QED
  BY <1>1, LocationInvariant, PTL

\* Offsets grow with the locations.
LEMMA OffsetsGrow ==
    ASSUME NEW a \in Nat, NEW b \in Nat
    PROVE  /\ Word * a \in Nat /\ Word * (a + 1) = Word * a + Word
           /\ a <= b => Word * a <= Word * b
           /\ a < b => Word * a + Word <= Word * b
<1>1. Word \in Nat
  BY SubsetHashAssumption
<1>2. Word * a \in Nat /\ Word * (a + 1) = Word * a + Word
  BY <1>1
<1>3. a <= b => Word * a <= Word * b
  <2> SUFFICES ASSUME a <= b PROVE Word * a <= Word * b
    OBVIOUS
  <2>1. b - a \in Nat /\ Word * (b - a) \in Nat
    BY <1>1
  <2>2. Word * b = Word * a + Word * (b - a)
    BY <1>1
  <2>3. Word * a \in Nat /\ Word * b \in Nat
    BY <1>1
  <2>4. QED
    BY <2>1, <2>2, <2>3
<1>4. a < b => Word * a + Word <= Word * b
  <2> SUFFICES ASSUME a < b PROVE Word * a + Word <= Word * b
    OBVIOUS
  <2>1. b - a - 1 \in Nat /\ Word * (b - a - 1) \in Nat
    BY <1>1
  <2>2. Word * b = Word * (a + 1) + Word * (b - a - 1)
    BY <1>1
  <2>3. Word * a \in Nat /\ Word * b \in Nat
    BY <1>1
  <2>4. QED
    BY <1>1, <1>2, <2>1, <2>2, <2>3
<1>5. QED
  BY <1>2, <1>3, <1>4

\* The fixed functors stay below a bound that is past the end of the last of
\* their locations: the 16-byte reads of xxh3 reach into the next location, and
\* the locations are sorted and distinct, so that there is one.
LEMMA FixedReadsBelow ==
    ASSUME NEW f \in Families, NEW m \in 1..4, NEW top \in Nat,
           \A n \in 1..m : hash_locations[n] \in Nat,
           \A n, k \in 1..m : n < k => hash_locations[n] < hash_locations[k],
           Word * hash_locations[m] + Word <= top
    PROVE  FixedReads(f, m) \subseteq 0..(top - 1)
<1>1. Word \in Nat
  BY SubsetHashAssumption
<1>2. \A n \in 1..m : At(n) \in Nat /\ At(n) + Word <= top
  <2> SUFFICES ASSUME NEW n \in 1..m PROVE At(n) \in Nat /\ At(n) + Word <= top
    OBVIOUS
  <2>1. hash_locations[n] <= hash_locations[m] /\ m \in 1..m
    OBVIOUS
  <2>2. At(n) \in Nat /\ At(m) \in Nat /\ At(n) <= At(m)
    BY <2>1, OffsetsGrow DEF At
  <2>3. QED
    BY <1>1, <2>2 DEF At
<1>3. \A n, k \in 1..m : n < k => At(n) + 2 * Word <= top
  <2> SUFFICES ASSUME NEW n \in 1..m, NEW k \in 1..m, n < k
               PROVE  At(n) + 2 * Word <= top
    OBVIOUS
  <2>1. At(n) + Word <= At(k)
    BY OffsetsGrow DEF At
  <2>2. QED
    BY <1>1, <1>2, <2>1
<1>4. Words(m) \subseteq 0..(top - 1)
  BY <1>1, <1>2 DEF Words, Bytes
<1>5. XXH3_fixed(m) \subseteq 0..(top - 1)
  <2>1. CASE m = 3
    <3>1. At(1) \in Nat /\ At(2) \in Nat /\ At(1) + 2 * Word <= top /\ At(2) + 2 * Word <= top
      BY <1>2, <1>3, <2>1
    <3>2. XXH3_fixed(m) = Bytes(At(1), 2 * Word) \cup Bytes(At(2), 2 * Word)
      BY <2>1 DEF XXH3_fixed
    <3>3. QED
      BY <1>1, <3>1, <3>2 DEF Bytes
  <2>2. CASE m = 4
    <3>1. At(1) \in Nat /\ At(3) \in Nat /\ At(1) + 2 * Word <= top /\ At(3) + 2 * Word <= top
      BY <1>2, <1>3, <2>2
    <3>2. XXH3_fixed(m) = Bytes(At(1), 2 * Word) \cup Bytes(At(3), 2 * Word)
      BY <2>2 DEF XXH3_fixed
    <3>3. QED
      BY <1>1, <3>1, <3>2 DEF Bytes
  <2>3. CASE m \notin {3, 4}
    BY <1>4, <2>3 DEF XXH3_fixed
  <2>4. QED
    BY <2>1, <2>2, <2>3
<1>6. FixedReads(f, m) \in {XXH3_fixed(m), Words(m)}
  BY SubsetHashAssumption DEF FixedReads, wyhash_fixed, crc32_wyhash_fixed
<1>7. QED
  BY <1>4, <1>5, <1>6

\* No hash function reads outside its key, for every location file, unless the
\* file was written for data that looked fixed-length, the keys have several
\* lengths and this one ends before the functor's last location.
THEOREM ReadsInsideKeyHolds == Spec => []ReadsInsideKey
<1>1. LocationInv => ReadsInsideKey
  <2> SUFFICES ASSUME LocationInv, state = "hashed",
                      ~(file.fixed /\ Cardinality(lens) > 1 /\ TooShort)
               PROVE  read \subseteq 0..(len - 1)
    BY DEF ReadsInsideKey
  <2>1. /\ file \in Files /\ bench \in Benches /\ num = numLocations(bench)
        /\ hash_locations \in SortedPrefix(num)
        /\ lens \in Datasets /\ len \in lens
        /\ \A l \in Range(file.locations) : Word * (l + 1) <= Max(lens)
        /\ read = Reads(fn[1], fn[2], len)
    BY DEF LocationInv, ChosenInv
  <2>2. PICK f \in Families : fn = <<f, Arity(f)>> /\ ~(Arity(f) > 0 /\ hash_locations = <<>>)
    BY DEF LocationInv
  <2> DEFINE m == Arity(f)
  <2>3. num \in 0..5 /\ num <= Len(file.locations)
    BY <2>1, NumLocations
  <2>4. m \in 0..4 /\ (num \in 1..4 => m = num) /\ fn[1] = f /\ fn[2] = m
    BY <2>1, <2>2, <2>3, ArityOf
  <2> HIDE DEF m
  <2>5. len \in Nat /\ Word \in Nat
    BY <2>1, SubsetHashAssumption
  <2>6. CASE m = Normal \/ ~(file.fixed \/ LongEnough(f, m, len))
    BY <2>1, <2>4, <2>5, <2>6 DEF Reads
  <2>7. CASE m # Normal /\ (file.fixed \/ LongEnough(f, m, len))
    <3>1. read = FixedReads(f, m)
      BY <2>1, <2>4, <2>7 DEF Reads
    <3>2. m \in 1..4 /\ m <= num
      <4>1. m \in 1..4
        BY <2>4, <2>7 DEF Normal
      <4>2. num # 0
        <5>1. SUFFICES ASSUME num = 0 PROVE hash_locations = <<>>
          BY <2>2, <4>1 DEF m
        <5>2. hash_locations \in [1..0 -> {file.locations[n] : n \in 1..0}]
          BY <2>1, <5>1 DEF SortedPrefix
        <5>3. 1..0 = {}
          OBVIOUS
        <5>4. QED
          BY <5>2, <5>3
      <4>3. QED
        BY <2>3, <2>4, <4>1, <4>2
    <3>3. \A n \in 1..m : hash_locations[n] \in Nat /\ hash_locations[n] \in Range(file.locations)
      <4>1. file.locations \in Seq(Nat) /\ DOMAIN file.locations = 1..Len(file.locations)
        BY <2>1, SubsetHashAssumption
      <4>2. \A n \in 1..m : \E k \in 1..num : hash_locations[n] = file.locations[k]
        <5>1. hash_locations \in [1..num -> {file.locations[k] : k \in 1..num}]
          BY <2>1 DEF SortedPrefix
        <5>2. \A n \in 1..m : n \in 1..num
          BY <2>3, <3>2
        <5>3. QED
          BY <5>1, <5>2
      <4>3. \A k \in 1..num : file.locations[k] \in Nat /\ file.locations[k] \in Range(file.locations)
        BY <2>3, <4>1 DEF Range
      <4>4. QED
        BY <4>2, <4>3
    <3>4. \A n, k \in 1..m : n < k => hash_locations[n] < hash_locations[k]
      BY <2>1, <2>3, <3>2 DEF SortedPrefix
    <3>5. Word * hash_locations[m] + Word <= len
      <4>1. CASE file.fixed /\ ~(Cardinality(lens) > 1)
        <5>1. IsFiniteSet(lens) /\ Cardinality(lens) \in Nat /\ lens # {}
          BY <2>1, SubsetHashAssumption, FS_CardinalityType
        <5>2. Cardinality(lens) = 1
          BY <4>1, <5>1, FS_EmptySet
        <5>3. lens = {len}
          BY <2>1, <5>1, <5>2, FS_Singleton
        <5>4. Word * (hash_locations[m] + 1) <= len
          BY <2>1, <2>5, <3>2, <3>3, <5>3, MaxSingle
        <5>5. hash_locations[m] \in Nat
          BY <3>2, <3>3
        <5>6. QED
          BY <2>5, <5>4, <5>5, OffsetsGrow
      <4>2. CASE LongEnough(f, m, len)
        <5>1. Word * hash_locations[m] \in Nat
          BY <3>2, <3>3, OffsetsGrow
        <5>2. QED
          BY <2>5, <4>2, <5>1 DEF LongEnough, Endpoint
      <4>3. CASE ~TooShort
        <5>1. Word * hash_locations[m] \in Nat
          BY <3>2, <3>3, OffsetsGrow
        <5>2. ~(len < Word * hash_locations[m] + Word)
          BY <2>4, <2>7, <4>3 DEF TooShort, Endpoint
        <5>3. QED
          BY <2>5, <5>1, <5>2
      <4>4. QED
        BY <2>7, <4>1, <4>2, <4>3
    <3>6. QED
      BY <2>5, <3>1, <3>2, <3>3, <3>4, <3>5, FixedReadsBelow
  <2>8. QED
    BY <2>6, <2>7
<1>2. QED
  BY <1>1, LocationInvariant, PTL

-----------------------------------------------------------------------------
(* EntropySelector.                                                        *)

\* What the theorems about the selector ask of a sample: bytes, or strings that
\* all have equally many whole chunks.  Otherwise the chunk after the last whole
\* one of a shorter string is read from outside it.
WholeChunks(s) ==
    \/ s[1] = 1
    \/ \A x, y \in Range(s[2]) \cup Range(s[3]) : Len(x) \div s[1] = Len(y) \div s[1]

\* The call's arguments are one of the samples.
SampleInv == \E s \in Samples : chunk = s[1] /\ input = s[2] /\ validation = s[3]

\* What one round promises, from the positions before it.
GreedyStep(before, pick) ==
    LET E(p) == StatedEntropy(input, Append(before, p))
        open == 0..(Chunks - 1) \ Range(before)
        useful == {p \in open : E(p) < Pairs(input)}
        top == {p \in useful : \A q \in useful : E(p) <= E(q)}
    IN  -1 \notin Range(before) => pick = IF useful = {} THEN -1 ELSE Min(top)

\* The loop invariant of chooseBestPositionRenyi: the best candidate so far is
\* the first with the fewest colliding pairs, or none has told strings apart.
BestInv ==
    LET E(p) == StatedEntropy(input, Append(positions, p))
        tried == 0..(candidate - 1) \ Range(positions)
    IN  /\ \A q \in tried : best[2] <= E(q)
        /\ best[1] = -1 => best[2] = Pairs(input)
        /\ best[1] # -1 => /\ best[1] \in tried
                          /\ best[2] = E(best[1]) /\ best[2] < Pairs(input)
                          /\ \A q \in tried : q < best[1] => best[2] < E(q)

\* The invariant of the selector.
SelectorInv ==
    /\ SampleInv
    /\ positions \in Seq(Int)
    /\ \A n \in DOMAIN positions : positions[n] \in -1..(Chunks - 1)
    /\ entropies \in Seq(Nat)
    /\ Len(entropies) = IF mode = "StopK" THEN Len(positions) ELSE 0
    /\ GreedyChoice
    /\ ReportedEntropy
    /\ stage = "choose" =>
           /\ candidate \in 0..Chunks
           /\ best[1] \in -1..(candidate - 1) /\ best[2] \in Nat
           /\ -1 \notin Range(positions) => BestInv

\* Among finitely many numbers, which are not none, one is largest.
LEMMA LargestOf ==
    ASSUME NEW n \in Nat \ {0}, NEW f \in [1..n -> Nat]
    PROVE  \E k \in 1..n : \A l \in 1..n : f[l] <= f[k]
<1> DEFINE Good(m, g) == \E k \in 1..m : \A l \in 1..m : g[l] <= g[k]
           Bad == {m \in Nat \ {0} : \E g \in [1..m -> Nat] : ~Good(m, g)}
<1>1. SUFFICES ASSUME Bad # {} PROVE FALSE
  OBVIOUS
<1>2. PICK m \in Bad : \A y \in Bad : m <= y
  BY <1>1, LeastExists
<1>3. PICK g \in [1..m -> Nat] : ~Good(m, g)
  BY <1>2
<1> m \in Nat \ {0}
  BY <1>2
<1>0. \A h \in [1..(m - 1) -> Nat] : m - 1 \in Nat \ {0} => Good(m - 1, h)
  <2> HIDE DEF Good
  <2>1. m - 1 \in Nat => m - 1 \notin Bad
    <3> HIDE DEF Bad
    <3>1. QED
      BY <1>2
  <2>2. QED
    BY <2>1
<1> HIDE DEF Bad
<1>4. CASE m = 1
  BY <1>3, <1>4
<1>5. CASE m # 1
  <2> DEFINE h == [l \in 1..(m - 1) |-> g[l]]
  <2>1. m - 1 \in Nat \ {0} /\ m \in Nat
    BY <1>5
  <2>2. h \in [1..(m - 1) -> Nat]
    BY <2>1
  <2>3. Good(m - 1, h)
    BY <1>0, <2>1, <2>2
  <2>4. PICK k \in 1..(m - 1) : \A l \in 1..(m - 1) : g[l] <= g[k]
    BY <2>3
  <2>5. g[k] \in Nat /\ g[m] \in Nat /\ \A l \in 1..m : g[l] \in Nat
    BY <2>1
  <2>6. CASE g[m] <= g[k]
    <3>0. \A l \in 1..m : l \in 1..(m - 1) \/ l = m
      BY <2>1
    <3>1. \A l \in 1..m : g[l] <= g[k]
      BY <2>4, <2>6, <3>0
    <3>2. QED
      BY <1>3, <2>1, <3>1
  <2>7. CASE g[m] > g[k]
    <3>0. \A l \in 1..m : l \in 1..(m - 1) \/ l = m
      BY <2>1
    <3>1. \A l \in 1..m : g[l] <= g[m]
      <4>1. ASSUME NEW l \in 1..(m - 1) PROVE g[l] <= g[m]
        <5>1. g[l] <= g[k] /\ g[l] \in Nat
          BY <2>1, <2>4, <2>5
        <5>2. QED
          BY <2>5, <2>7, <5>1
      <4>2. g[m] <= g[m]
        BY <2>5
      <4>3. QED
        BY <3>0, <4>1, <4>2
    <3>2. QED
      BY <1>3, <2>1, <3>1
  <2>8. QED
    BY <2>5, <2>6, <2>7
<1>6. QED
  BY <1>4, <1>5

\* A sample's strings are sequences of bytes, and some string is a longest one.
LEMMA SampleTypes ==
    ASSUME SampleInv
    PROVE  /\ chunk \in Nat \ {0}
           /\ input \in Seq(Seq(Nat)) /\ Len(input) \in Nat \ {0}
           /\ validation \in Seq(Seq(Nat)) /\ Len(validation) \in Nat
           /\ DOMAIN input = 1..Len(input) /\ DOMAIN validation = 1..Len(validation)
           /\ Pairs(input) \in Nat
           /\ \A x \in Range(input) \cup Range(validation) : x \in Seq(Nat) /\ Len(x) \in Nat
           /\ \E x \in Range(input) \cup Range(validation) : maxLength = Len(x)
           /\ Chunks \in Nat
<1>1. /\ chunk \in Nat \ {0}
      /\ input \in Seq(Seq(Nat)) /\ Len(input) \in Nat \ {0}
      /\ validation \in Seq(Seq(Nat)) /\ Len(validation) \in Nat
      /\ DOMAIN input = 1..Len(input) /\ DOMAIN validation = 1..Len(validation)
  BY EntropySelectorAssumption DEF SampleInv
<1>2. \A x \in Range(input) \cup Range(validation) : x \in Seq(Nat) /\ Len(x) \in Nat
  BY <1>1, LenProperties DEF Range
<1>3. Pairs(input) \in Nat
  <2>1. Len(input) - 1 \in Nat /\ Len(input) \in Nat
    BY <1>1
  <2>2. \A a, b \in Nat : a * b \in Nat
    OBVIOUS
  <2>3. QED
    BY <2>1, <2>2 DEF Pairs
<1>4. \E x \in Range(input) \cup Range(validation) :
          \A y \in Range(input) \cup Range(validation) : Len(y) <= Len(x)
  <2>1. ASSUME NEW V \in {input, validation}, Len(V) # 0
        PROVE  \E x \in Range(V) : \A y \in Range(V) : Len(y) <= Len(x)
    <3> DEFINE lengths == [n \in 1..Len(V) |-> Len(V[n])]
    <3>1. Len(V) \in Nat \ {0} /\ DOMAIN V = 1..Len(V)
      BY <1>1, <2>1
    <3>2. \A n \in 1..Len(V) : Len(V[n]) \in Nat
      BY <1>2, <3>1 DEF Range
    <3>3. lengths \in [1..Len(V) -> Nat]
      BY <3>2
    <3>4. PICK k \in 1..Len(V) : \A l \in 1..Len(V) : lengths[l] <= lengths[k]
      BY <3>1, <3>3, LargestOf
    <3>5. \A l \in 1..Len(V) : Len(V[l]) <= Len(V[k])
      BY <3>4
    <3>6. QED
      BY <3>1, <3>5 DEF Range
  <2>2. PICK x \in Range(input) : \A y \in Range(input) : Len(y) <= Len(x)
    BY <1>1, <2>1
  <2>3. CASE Len(validation) = 0
    <3>1. Range(validation) = {}
      BY <1>1, <2>3 DEF Range
    <3>2. QED
      BY <2>2, <3>1
  <2>4. CASE Len(validation) # 0
    <3>1. PICK z \in Range(validation) : \A y \in Range(validation) : Len(y) <= Len(z)
      BY <2>1, <2>4
    <3>2. Len(x) \in Nat /\ Len(z) \in Nat
      BY <1>2
    <3>3. CASE Len(z) <= Len(x)
      BY <1>2, <2>2, <3>1, <3>2, <3>3
    <3>4. CASE Len(x) < Len(z)
      BY <1>2, <2>2, <3>1, <3>2, <3>4
    <3>5. QED
      BY <3>2, <3>3, <3>4
  <2>5. QED
    BY <2>3, <2>4
<1>5. \E x \in Range(input) \cup Range(validation) : maxLength = Len(x)
  <2> DEFINE lengths == {Len(x) : x \in Range(input) \cup Range(validation)}
  <2>1. \E m \in lengths : \A l \in lengths : m >= l
    BY <1>2, <1>4
  <2>2. maxLength \in lengths
    BY <2>1 DEF maxLength, Max
  <2>3. QED
    BY <2>2
<1>6. Chunks \in Nat
  <2>1. maxLength \in Nat
    BY <1>2, <1>5
  <2>2. QED
    BY <1>1, <2>1, DivMod DEF Chunks
<1>7. QED
  BY <1>1, <1>2, <1>3, <1>5, <1>6

\* Counting pairs gives a number.
LEMMA CollidingNat ==
    ASSUME NEW n \in Nat, NEW partials, DOMAIN partials = 1..n
    PROVE  Colliding(partials) \in Nat
<1> DEFINE P == {ab \in (1..n) \X (1..n) : ab[1] # ab[2] /\ partials[ab[1]] = partials[ab[2]]}
<1>1. IsFiniteSet(1..n)
  BY FS_Interval
<1>2. IsFiniteSet((1..n) \X (1..n))
  BY <1>1, FS_Product
<1>3. P \in SUBSET ((1..n) \X (1..n))
  OBVIOUS
<1>4. Cardinality(P) \in Nat
  BY <1>2, <1>3, FS_Subset, FS_CardinalityType
<1>5. QED
  BY <1>4 DEF Colliding

\* Both entropies are numbers of pairs.
LEMMA EntropyNat ==
    ASSUME SampleInv, NEW V \in {input, validation}, NEW ps, NEW junk
    PROVE  evaluateEntropy(V, ps, junk) \in Nat /\ StatedEntropy(V, ps) \in Nat
<1>1. Len(V) \in Nat /\ DOMAIN V = 1..Len(V)
  BY SampleTypes
<1>2. QED
  BY <1>1, CollidingNat DEF evaluateEntropy, StatedEntropy

\* Inside the string a chunk has the string's bytes.
LEMMA ByteInside ==
    ASSUME NEW x \in Seq(Nat), NEW junk, NEW o \in 0..(Len(x) - 1)
    PROVE  ByteAt(x, o, junk) = x[o + 1]
<1>1. Len(x) \in Nat
  BY LenProperties
<1>2. o # Len(x)
  BY <1>1
<1>3. QED
  BY <1>2 DEF ByteAt

\* At the length of the string there is its terminator.
LEMMA ByteTerminator ==
    ASSUME NEW x \in Seq(Nat), NEW junk
    PROVE  ByteAt(x, Len(x), junk) = 0
<1>1. Len(x) \in Nat
  BY LenProperties
<1>2. Len(x) \notin 0..(Len(x) - 1)
  BY <1>1
<1>3. QED
  BY <1>2 DEF ByteAt

\* Where a sample is made of whole chunks, formPartialString copies what its
\* comment says: the position in the string if it exists, and 0 otherwise.
LEMMA ChunkStated ==
    ASSUME SampleInv, \A s \in Samples : WholeChunks(s),
           NEW x \in Range(input) \cup Range(validation), NEW p \in 0..(Chunks - 1), NEW junk
    PROVE  ChunkAt(x, p, junk) = StatedChunk(x, p)
<1> DEFINE q == Len(x) \div chunk
<1>1. x \in Seq(Nat) /\ Len(x) \in Nat /\ chunk \in Nat \ {0} /\ p \in Nat /\ Chunks \in Nat
  BY SampleTypes
<1>2. q \in Nat /\ chunk * q <= Len(x)
  <2> DEFINE r == Len(x) % chunk
  <2>1. q \in Nat /\ r \in 0..(chunk - 1) /\ Len(x) = chunk * q + r
    BY <1>1, DivMod
  <2> HIDE DEF q, r
  <2>2. QED
    BY <1>1, <2>1
<1> HIDE DEF q
<1>3. CASE p < q
  <2>1. ASSUME NEW b \in 0..(chunk - 1)
        PROVE  ByteAt(x, chunk * p + b, junk) = x[chunk * p + b + 1]
    <3>1. chunk * p \in Nat /\ chunk * (q - p - 1) \in Nat
      BY <1>1, <1>2, <1>3
    <3>2. chunk * q = chunk * p + chunk + chunk * (q - p - 1)
      BY <1>1, <1>2
    <3>3. chunk * p + b \in 0..(Len(x) - 1)
      BY <1>1, <1>2, <3>1, <3>2
    <3>4. QED
      BY <1>1, <3>3, ByteInside
  <2>2. p <= q /\ p >= 0
    BY <1>1, <1>2, <1>3
  <2>3. QED
    BY <1>3, <2>1, <2>2 DEF ChunkAt, StatedChunk, q
<1>4. CASE p > q
  <2>1. ~(p <= q) /\ ~(p < q)
    BY <1>1, <1>2, <1>4
  <2>2. QED
    BY <2>1 DEF ChunkAt, StatedChunk, q
<1>5. CASE p = q
  <2>1. chunk = 1
    <3>1. SUFFICES ASSUME chunk # 1 PROVE FALSE
      OBVIOUS
    <3>2. \A y \in Range(input) \cup Range(validation) : Len(y) \div chunk = q
      BY <3>1 DEF SampleInv, WholeChunks, q
    <3>3. Chunks = q
      BY <3>2, SampleTypes DEF Chunks
    <3>4. QED
      BY <1>1, <1>2, <1>5, <3>3
  <2>2. q = Len(x)
    <3>1. Len(x) \div 1 = Len(x)
      BY <1>1
    <3>2. QED
      BY <2>1, <3>1 DEF q
  <2>3. \A b \in 0..(chunk - 1) : chunk * p + b = Len(x)
    BY <1>1, <1>5, <2>1, <2>2
  <2>4. \A b \in 0..(chunk - 1) : ByteAt(x, chunk * p + b, junk) = 0
    BY <1>1, <2>3, ByteTerminator
  <2>5. p <= q /\ ~(p < q)
    BY <1>1, <1>2, <1>5
  <2>6. QED
    BY <2>4, <2>5 DEF ChunkAt, StatedChunk, Zero, q
<1>6. QED
  BY <1>1, <1>2, <1>3, <1>4, <1>5

\* Hence the entropy evaluated is the entropy stated, whatever lies around the
\* strings.
LEMMA EntropyStated ==
    ASSUME SampleInv, \A s \in Samples : WholeChunks(s),
           NEW V \in {input, validation}, NEW ps, NEW junk,
           \A k \in DOMAIN ps : ps[k] \in 0..(Chunks - 1)
    PROVE  evaluateEntropy(V, ps, junk) = StatedEntropy(V, ps)
<1>1. ASSUME NEW n \in DOMAIN V
      PROVE  formPartialString(V[n], ps, junk[n]) =
               <<[k \in DOMAIN ps |-> StatedChunk(V[n], ps[k])], Len(V[n])>>
  <2>1. V[n] \in Range(input) \cup Range(validation)
    BY DEF Range
  <2>2. \A k \in DOMAIN ps : ChunkAt(V[n], ps[k], junk[n]) = StatedChunk(V[n], ps[k])
    BY <2>1, ChunkStated
  <2>3. QED
    BY <2>2 DEF formPartialString
<1>2. [n \in DOMAIN V |-> formPartialString(V[n], ps, junk[n])] =
      [n \in DOMAIN V |-> <<[k \in DOMAIN ps |-> StatedChunk(V[n], ps[k])], Len(V[n])>>]
  BY <1>1
<1>3. QED
  BY <1>2 DEF evaluateEntropy, StatedEntropy

\* GreedyChoice says of every round what GreedyStep says.
LEMMA GreedyChoiceByStep ==
    GreedyChoice <=> \A n \in DOMAIN positions : GreedyStep(Chosen(n - 1), positions[n])
  BY DEF GreedyChoice, GreedyStep

\* Appending a position keeps the ones before it.
LEMMA ChosenAppend ==
    ASSUME NEW ps \in Seq(Int), NEW c \in Int
    PROVE  /\ Append(ps, c) \in Seq(Int)
           /\ DOMAIN Append(ps, c) = 1..(Len(ps) + 1) /\ DOMAIN ps = 1..Len(ps)
           /\ Len(Append(ps, c)) = Len(ps) + 1 /\ Len(ps) \in Nat
           /\ \A n \in 1..Len(ps) : Append(ps, c)[n] = ps[n]
           /\ Append(ps, c)[Len(ps) + 1] = c
           /\ \A n \in 0..Len(ps) : SubSeq(Append(ps, c), 1, n) = SubSeq(ps, 1, n)
           /\ SubSeq(Append(ps, c), 1, Len(ps)) = ps
           /\ SubSeq(Append(ps, c), 1, Len(ps) + 1) = Append(ps, c)
           /\ Range(Append(ps, c)) = Range(ps) \cup {c}
<1>1. /\ Append(ps, c) \in Seq(Int)
      /\ DOMAIN Append(ps, c) = 1..(Len(ps) + 1) /\ DOMAIN ps = 1..Len(ps)
      /\ Len(Append(ps, c)) = Len(ps) + 1 /\ Len(ps) \in Nat
      /\ \A n \in 1..Len(ps) : Append(ps, c)[n] = ps[n]
      /\ Append(ps, c)[Len(ps) + 1] = c
  OBVIOUS
<1>2. ASSUME NEW n \in 0..Len(ps)
      PROVE  SubSeq(Append(ps, c), 1, n) = SubSeq(ps, 1, n)
  <2>1. \A k \in 1..n : ps[k] \in Int /\ Append(ps, c)[k] = ps[k]
    BY <1>1
  <2>2. /\ SubSeq(ps, 1, n) \in Seq(Int) /\ Len(SubSeq(ps, 1, n)) = n
        /\ \A k \in 1..n : SubSeq(ps, 1, n)[k] = ps[k]
    BY <1>1, <2>1
  <2>3. /\ SubSeq(Append(ps, c), 1, n) \in Seq(Int) /\ Len(SubSeq(Append(ps, c), 1, n)) = n
        /\ \A k \in 1..n : SubSeq(Append(ps, c), 1, n)[k] = Append(ps, c)[k]
    BY <1>1, <2>1
  <2>4. QED
    BY <2>1, <2>2, <2>3, SeqEqual
<1>3. SubSeq(ps, 1, Len(ps)) = ps /\ SubSeq(Append(ps, c), 1, Len(ps) + 1) = Append(ps, c)
  BY <1>1, SubSeqFull
<1>4. Range(Append(ps, c)) = Range(ps) \cup {c}
  BY <1>1 DEF Range
<1>5. QED
  BY <1>1, <1>2, <1>3, <1>4

\* Steps that leave the call's arguments, and the positions, alone keep what has
\* been shown of the positions.
LEMMA CallUnchanged ==
    ASSUME UNCHANGED callVars
    PROVE  /\ SampleInv' = SampleInv /\ Chunks' = Chunks /\ Pairs(input)' = Pairs(input)
           /\ \A V, ps : StatedEntropy(V, ps)' = StatedEntropy(V, ps)
           /\ \A before, pick : GreedyStep(before, pick)' = GreedyStep(before, pick)
<1>1. chunk' = chunk /\ input' = input /\ validation' = validation
  BY DEF callVars
<1>2. SampleInv' = SampleInv /\ Chunks' = Chunks /\ Pairs(input)' = Pairs(input)
  BY <1>1 DEF SampleInv, Chunks, maxLength, Pairs
<1>3. \A V, ps : StatedEntropy(V, ps)' = StatedEntropy(V, ps)
  BY <1>1 DEF StatedEntropy, StatedChunk, Zero
<1>4. \A before, pick : GreedyStep(before, pick)' = GreedyStep(before, pick)
  BY <1>1, <1>2, <1>3 DEF GreedyStep
<1>5. QED
  BY <1>2, <1>3, <1>4

\* Steps that also leave the positions and entropies alone.
LEMMA PositionsUnchanged ==
    ASSUME SelectorInv, UNCHANGED callVars, UNCHANGED <<positions, entropies>>
    PROVE  /\ SampleInv'
           /\ positions' \in Seq(Int)
           /\ \A n \in DOMAIN positions' : positions'[n] \in -1..(Chunks' - 1)
           /\ entropies' \in Seq(Nat)
           /\ Len(entropies') = IF mode' = "StopK" THEN Len(positions') ELSE 0
           /\ GreedyChoice' /\ ReportedEntropy'
<1>1. /\ chunk' = chunk /\ input' = input /\ validation' = validation /\ mode' = mode
      /\ positions' = positions /\ entropies' = entropies
  BY DEF callVars
<1>2. SampleInv' /\ Chunks' = Chunks
  BY CallUnchanged DEF SelectorInv
<1>3. GreedyChoice'
  <2>1. GreedyChoice' <=> (\A n \in DOMAIN positions : GreedyStep(Chosen(n - 1), positions[n]))'
    BY DEF GreedyChoice, GreedyStep
  <2>2. \A n \in DOMAIN positions : GreedyStep(Chosen(n - 1), positions[n])
    BY GreedyChoiceByStep DEF SelectorInv
  <2>3. QED
    BY <1>1, <2>1, <2>2, CallUnchanged DEF Chosen
<1>4. ReportedEntropy'
  BY <1>1, CallUnchanged DEF SelectorInv, ReportedEntropy, Chosen
<1>5. QED
  BY <1>1, <1>2, <1>3, <1>4 DEF SelectorInv

\* One candidate: the best so far stays the first best so far.
LEMMA TryPositionInv ==
    ASSUME SelectorInv, \A s \in Samples : WholeChunks(s), TryPosition
    PROVE  SelectorInv'
<1> DEFINE E(p) == StatedEntropy(input, Append(positions, p))
<1>1. /\ stage = "choose" /\ candidate < Chunks /\ candidate' = candidate + 1
      /\ UNCHANGED callVars /\ UNCHANGED <<positions, entropies>>
      /\ positions' = positions
  BY DEF TryPosition
<1>2. /\ candidate \in 0..Chunks /\ best[1] \in -1..(candidate - 1) /\ best[2] \in Nat
      /\ Chunks \in Nat /\ Pairs(input) \in Nat /\ SampleInv /\ positions \in Seq(Int)
      /\ DOMAIN positions = 1..Len(positions)
  BY <1>1, SampleTypes, LenProperties DEF SelectorInv
<1>3. candidate' \in 0..Chunks' /\ \A p : E(p)' = E(p)
  <2>1. \A p : E(p)' = StatedEntropy(input, Append(positions, p))
    <3>1. input' = input
      BY <1>1 DEF callVars
    <3>2. QED
      BY <1>1, <3>1, CallUnchanged
  <2>2. Chunks' = Chunks
    BY <1>1, CallUnchanged
  <2> HIDE DEF E
  <2>3. candidate' \in 0..Chunks'
    BY <1>1, <1>2, <2>2
  <2>4. QED
    BY <2>1, <2>3 DEF E
<1>4. \A p : E(p) \in Nat
  BY <1>2, EntropyNat
<1>5. CASE candidate \in Range(positions) /\ best' = best
  <2>1. 0..(candidate' - 1) \ Range(positions') = 0..(candidate - 1) \ Range(positions)
    BY <1>1, <1>2, <1>5
  <2>2. ASSUME -1 \notin Range(positions') PROVE BestInv'
    <3>1. BestInv
      BY <1>1, <2>2 DEF SelectorInv
    <3>2. QED
      BY <1>1, <1>3, <1>5, <2>1, <3>1, CallUnchanged DEF BestInv
  <2>3. best'[1] \in -1..(candidate' - 1) /\ best'[2] \in Nat
    BY <1>1, <1>2, <1>5
  <2>4. QED
    BY <1>1, <1>3, <2>2, <2>3, PositionsUnchanged DEF SelectorInv
<1>6. CASE candidate \notin Range(positions)
  <2>1. PICK junk \in Junk(input) :
            best' = IF evaluateEntropy(input, Append(positions, candidate), junk) < best[2]
                    THEN <<candidate, evaluateEntropy(input, Append(positions, candidate), junk)>>
                    ELSE best
    BY <1>6 DEF TryPosition
  <2> DEFINE e == evaluateEntropy(input, Append(positions, candidate), junk)
  <2>2. e \in Nat
    BY <1>2, EntropyNat
  <2>3. best' = IF e < best[2] THEN <<candidate, e>> ELSE best
    BY <2>1
  <2>4. ASSUME -1 \notin Range(positions) PROVE e = E(candidate)
    <3>1. candidate \in Int /\ candidate \in 0..(Chunks - 1)
      BY <1>1, <1>2
    <3>2. \A k \in DOMAIN positions : positions[k] \in 0..(Chunks - 1)
      <4>1. \A k \in DOMAIN positions : positions[k] \in -1..(Chunks - 1) /\ positions[k] # -1
        BY <2>4 DEF SelectorInv, Range
      <4>2. QED
        BY <1>2, <4>1
    <3>3. \A k \in DOMAIN Append(positions, candidate) :
              Append(positions, candidate)[k] \in 0..(Chunks - 1)
      BY <1>2, <3>1, <3>2, ChosenAppend
    <3>4. QED
      BY <1>2, <3>3, EntropyStated
  <2> HIDE DEF e, E
  <2>5. best'[1] \in -1..(candidate' - 1) /\ best'[2] \in Nat
    BY <1>1, <1>2, <2>2, <2>3
  <2>6. ASSUME -1 \notin Range(positions') PROVE BestInv'
    <3>1. /\ \A q \in 0..(candidate - 1) \ Range(positions) : best[2] <= E(q)
          /\ best[1] = -1 => best[2] = Pairs(input)
          /\ best[1] # -1 =>
                 /\ best[1] \in 0..(candidate - 1) \ Range(positions)
                 /\ best[2] = E(best[1]) /\ best[2] < Pairs(input)
                 /\ \A q \in 0..(candidate - 1) \ Range(positions) : q < best[1] => best[2] < E(q)
      BY <1>1, <2>6 DEF SelectorInv, BestInv, E
    <3>2. \A q \in 0..(candidate' - 1) \ Range(positions) :
              q \in 0..(candidate - 1) \ Range(positions) \/ q = candidate
      BY <1>1, <1>2
    <3>3. e = E(candidate)
      BY <1>1, <2>4, <2>6
    <3>4. /\ \A q \in 0..(candidate' - 1) \ Range(positions) : best'[2] <= E(q)
          /\ best'[1] = -1 => best'[2] = Pairs(input)
          /\ best'[1] # -1 =>
                 /\ best'[1] \in 0..(candidate' - 1) \ Range(positions)
                 /\ best'[2] = E(best'[1]) /\ best'[2] < Pairs(input)
                 /\ \A q \in 0..(candidate' - 1) \ Range(positions) : q < best'[1] => best'[2] < E(q)
      <4>1. CASE e < best[2]
        <5>1. best'[1] = candidate /\ best'[2] = e
          BY <2>3, <4>1
        <5>2. best[2] <= Pairs(input)
          BY <1>2, <3>1
        <5>3. \A q \in 0..(candidate - 1) \ Range(positions) : e < E(q)
          BY <1>2, <1>4, <2>2, <3>1, <4>1
        <5>4. candidate \in 0..(candidate' - 1) /\ candidate # -1
          BY <1>1, <1>2
        <5>5. \A q \in 0..(candidate' - 1) \ Range(positions) : e <= E(q)
          BY <1>4, <2>2, <3>2, <3>3, <5>3
        <5>6. \A q \in 0..(candidate' - 1) \ Range(positions) : q < candidate => e < E(q)
          BY <1>2, <3>2, <5>3
        <5>7. e < Pairs(input)
          BY <1>2, <2>2, <4>1, <5>2
        <5>8. QED
          BY <1>6, <3>3, <5>1, <5>4, <5>5, <5>6, <5>7
      <4>2. CASE ~(e < best[2])
        <5>1. best' = best /\ best[2] <= e
          BY <1>2, <2>2, <2>3, <4>2
        <5>2. \A q \in 0..(candidate' - 1) \ Range(positions) : best[2] <= E(q)
          BY <3>1, <3>2, <3>3, <5>1
        <5>3. best[1] # -1 => best[1] \in 0..(candidate' - 1) \ Range(positions)
          BY <1>1, <1>2, <3>1
        <5>4. best[1] # -1 =>
                \A q \in 0..(candidate' - 1) \ Range(positions) : q < best[1] => best[2] < E(q)
          BY <1>2, <3>1, <3>2
        <5>5. QED
          BY <3>1, <5>1, <5>2, <5>3, <5>4
      <4>3. QED
        BY <4>1, <4>2
    <3>5. QED
      BY <1>1, <1>3, <3>4, CallUnchanged DEF BestInv, E
  <2>7. QED
    BY <1>1, <1>3, <2>5, <2>6, PositionsUnchanged DEF SelectorInv
<1>7. QED
  BY <1>5, <1>6 DEF TryPosition

\* After the last candidate the best one is what the round promises.
LEMMA BestIsGreedy ==
    ASSUME SelectorInv, stage = "choose", candidate = Chunks
    PROVE  GreedyStep(positions, best[1])
<1> DEFINE E(p) == StatedEntropy(input, Append(positions, p))
           open == 0..(Chunks - 1) \ Range(positions)
           useful == {p \in open : E(p) < Pairs(input)}
           top == {p \in useful : \A q \in useful : E(p) <= E(q)}
<1>1. SUFFICES ASSUME -1 \notin Range(positions)
               PROVE  best[1] = IF useful = {} THEN -1 ELSE Min(top)
  BY DEF GreedyStep
<1>2. /\ Chunks \in Nat /\ Pairs(input) \in Nat /\ SampleInv
      /\ best[1] \in -1..(Chunks - 1) /\ best[2] \in Nat
  BY SampleTypes DEF SelectorInv
<1>3. \A p : E(p) \in Nat
  BY <1>2, EntropyNat
<1>4. /\ \A q \in open : best[2] <= E(q)
      /\ best[1] = -1 => best[2] = Pairs(input)
      /\ best[1] # -1 => /\ best[1] \in open
                        /\ best[2] = E(best[1]) /\ best[2] < Pairs(input)
                        /\ \A q \in open : q < best[1] => best[2] < E(q)
  BY <1>1 DEF SelectorInv, BestInv
<1>5. open \subseteq Nat
  OBVIOUS
<1> HIDE DEF E, open
<1>6. CASE best[1] = -1
  <2>1. useful = {}
    BY <1>2, <1>3, <1>4, <1>6
  <2>2. QED
    BY <1>6, <2>1
<1>7. CASE best[1] # -1
  <2>1. best[1] \in useful
    BY <1>4, <1>7
  <2>2. best[1] \in top
    BY <1>4, <1>7, <2>1
  <2>3. \A q \in top : best[1] <= q
    <3>1. SUFFICES ASSUME NEW q \in top, ~(best[1] <= q) PROVE FALSE
      OBVIOUS
    <3>2. q \in open /\ q \in Nat /\ best[1] \in Nat
      BY <1>4, <1>5, <1>7
    <3>3. best[2] < E(q)
      BY <1>4, <1>7, <3>1, <3>2
    <3>4. E(q) <= E(best[1])
      BY <2>1
    <3>5. QED
      BY <1>2, <1>3, <1>4, <1>7, <3>3, <3>4
  <2>4. top \in SUBSET Nat
    BY <1>5
  <2> HIDE DEF top
  <2>5. best[1] = Min(top)
    BY <2>2, <2>3, <2>4, MinLeast
  <2>6. QED
    BY <2>1, <2>5
<1>8. QED
  BY <1>6, <1>7

\* The end of a round appends what the round promises, and its entropy.
LEMMA PushInv ==
    ASSUME SelectorInv, \A s \in Samples : WholeChunks(s), Push
    PROVE  SelectorInv'
<1> DEFINE c == best[1]
           len0 == Len(positions)
<1>1. /\ stage = "choose" /\ candidate = Chunks /\ stage' = "round"
      /\ positions' = Append(positions, c)
      /\ entropies' = IF mode = "StopK" THEN Append(entropies, entropy') ELSE entropies
      /\ UNCHANGED callVars
  BY DEF Push
<1>2. /\ chunk' = chunk /\ input' = input /\ validation' = validation /\ mode' = mode
      /\ Chunks' = Chunks /\ SampleInv' /\ SampleInv
  BY <1>1, CallUnchanged DEF callVars, SelectorInv
<1>3. /\ Chunks \in Nat /\ c \in Int /\ c \in -1..(Chunks - 1) /\ best[2] \in Nat
      /\ positions \in Seq(Int) /\ entropies \in Seq(Nat)
  <2>1. Chunks \in Nat
    BY <1>2, SampleTypes
  <2>2. /\ candidate \in 0..Chunks /\ c \in -1..(candidate - 1) /\ best[2] \in Nat
        /\ positions \in Seq(Int) /\ entropies \in Seq(Nat)
    BY <1>1 DEF SelectorInv
  <2>3. QED
    BY <1>1, <2>1, <2>2
<1>4. /\ positions' \in Seq(Int)
      /\ DOMAIN positions' = 1..(len0 + 1) /\ DOMAIN positions = 1..len0
      /\ Len(positions') = len0 + 1 /\ len0 \in Nat
      /\ \A n \in 1..len0 : positions'[n] = positions[n]
      /\ positions'[len0 + 1] = c
      /\ \A n \in 0..len0 : SubSeq(positions', 1, n) = SubSeq(positions, 1, n)
      /\ SubSeq(positions', 1, len0) = positions
      /\ SubSeq(positions', 1, len0 + 1) = positions'
      /\ Range(positions') = Range(positions) \cup {c}
  <2>1. positions' = Append(positions, c) /\ positions \in Seq(Int) /\ c \in Int
    BY <1>1, <1>3
  <2> HIDE DEF c
  <2>2. QED
    BY <2>1, ChosenAppend
<1> HIDE DEF len0
<1>5. \A n \in DOMAIN positions' : positions'[n] \in -1..(Chunks' - 1)
  <2>1. \A n \in 1..len0 : positions'[n] \in -1..(Chunks - 1)
    BY <1>4 DEF SelectorInv
  <2>2. \A n \in 1..(len0 + 1) : n \in 1..len0 \/ n = len0 + 1
    BY <1>4
  <2>3. QED
    BY <1>2, <1>3, <1>4, <2>1, <2>2
<1>6. GreedyChoice'
  <2>1. GreedyChoice' <=> (\A n \in DOMAIN positions : GreedyStep(Chosen(n - 1), positions[n]))'
    BY DEF GreedyChoice, GreedyStep
  <2>2. \A n \in 1..len0 : GreedyStep(SubSeq(positions, 1, n - 1), positions[n])
    BY <1>4, GreedyChoiceByStep DEF SelectorInv, Chosen
  <2>3. GreedyStep(positions, c)
    BY <1>1, BestIsGreedy
  <2>4. \A n \in 1..(len0 + 1) : GreedyStep(SubSeq(positions', 1, n - 1), positions'[n])
    <3>1. SUFFICES ASSUME NEW n \in 1..(len0 + 1)
                   PROVE  GreedyStep(SubSeq(positions', 1, n - 1), positions'[n])
      OBVIOUS
    <3>2. CASE n \in 1..len0
      <4>1. SubSeq(positions', 1, n - 1) = SubSeq(positions, 1, n - 1)
        <5>1. n - 1 \in 0..len0
          BY <1>4, <3>2
        <5>2. QED
          BY <1>4, <5>1
      <4>2. QED
        BY <1>4, <2>2, <3>2, <4>1
    <3>3. CASE n = len0 + 1
      <4>1. n - 1 = len0
        BY <1>4, <3>3
      <4>2. QED
        BY <1>4, <2>3, <3>3, <4>1
    <3>4. QED
      BY <1>4, <3>2, <3>3
  <2>5. \A ps, p : GreedyStep(ps, p)' = GreedyStep(ps, p)
    BY <1>1, CallUnchanged
  <2>6. QED
    BY <1>4, <2>1, <2>4, <2>5 DEF Chosen
<1>7. /\ entropy' \in Nat
      /\ mode = "StopK" /\ -1 \notin Range(positions') => entropy' = StatedEntropy(validation, positions')
  <2>1. PICK junk \in Junk(validation) :
            entropy' = IF mode = "StopEntropy" \/ validation = input THEN best[2]
                       ELSE evaluateEntropy(validation, positions', junk)
    BY DEF Push
  <2>2. evaluateEntropy(validation, positions', junk) \in Nat
    BY <1>2, EntropyNat
  <2>3. entropy' \in Nat
    BY <1>3, <2>1, <2>2
  <2>4. ASSUME mode = "StopK", -1 \notin Range(positions')
        PROVE  entropy' = StatedEntropy(validation, positions')
    <3>1. -1 \notin Range(positions) /\ c # -1
      BY <1>4, <2>4
    <3>2. CASE validation = input
      <4>1. best[2] = StatedEntropy(input, Append(positions, c))
        BY <1>1, <3>1 DEF SelectorInv, BestInv
      <4>2. QED
        BY <1>1, <2>1, <3>2, <4>1
    <3>3. CASE validation # input
      <4>1. \A k \in DOMAIN positions' : positions'[k] \in 0..(Chunks - 1)
        <5>1. \A k \in DOMAIN positions' : positions'[k] \in -1..(Chunks - 1) /\ positions'[k] # -1
          BY <1>2, <1>5, <2>4 DEF Range
        <5>2. QED
          BY <1>3, <5>1
      <4>2. evaluateEntropy(validation, positions', junk) = StatedEntropy(validation, positions')
        BY <1>2, <4>1, EntropyStated
      <4>3. QED
        BY <2>1, <2>4, <3>3, <4>2
    <3>4. QED
      BY <3>2, <3>3
  <2>5. QED
    BY <2>3, <2>4
<1>8. /\ entropies' \in Seq(Nat)
      /\ Len(entropies') = IF mode' = "StopK" THEN Len(positions') ELSE 0
      /\ ReportedEntropy'
  <2>1. CASE mode # "StopK"
    <3>1. entropies' = entropies /\ Len(entropies) = 0 /\ DOMAIN entropies = 1..Len(entropies)
      BY <1>1, <1>3, <2>1, LenProperties DEF SelectorInv
    <3>2. QED
      BY <1>2, <1>3, <2>1, <3>1 DEF ReportedEntropy
  <2>2. CASE mode = "StopK"
    <3>1. /\ entropies' \in Seq(Nat) /\ Len(entropies) = len0
          /\ Len(entropies') = len0 + 1 /\ DOMAIN entropies' = 1..(len0 + 1)
          /\ DOMAIN entropies = 1..len0
          /\ \A n \in 1..len0 : entropies'[n] = entropies[n]
          /\ entropies'[len0 + 1] = entropy'
      <4>1. Len(entropies) = len0
        BY <2>2 DEF SelectorInv, len0
      <4>2. entropies' = Append(entropies, entropy')
        BY <1>1, <2>2
      <4>3. QED
        BY <1>3, <1>4, <1>7, <4>1, <4>2
    <3>2. \A n \in 1..len0 : -1 \notin Range(SubSeq(positions', 1, n)) =>
              entropies'[n] = StatedEntropy(validation, SubSeq(positions', 1, n))
      <4>1. \A n \in 1..len0 : SubSeq(positions', 1, n) = SubSeq(positions, 1, n)
        BY <1>4
      <4>2. QED
        BY <3>1, <4>1 DEF SelectorInv, ReportedEntropy, Chosen
    <3>3. -1 \notin Range(SubSeq(positions', 1, len0 + 1)) =>
              entropies'[len0 + 1] = StatedEntropy(validation, SubSeq(positions', 1, len0 + 1))
      BY <1>4, <1>7, <2>2, <3>1
    <3>4. \A n \in 1..(len0 + 1) : n \in 1..len0 \/ n = len0 + 1
      BY <1>4
    <3>5. \A n \in DOMAIN entropies' : -1 \notin Range(SubSeq(positions', 1, n)) =>
              entropies'[n] = StatedEntropy(validation, SubSeq(positions', 1, n))
      BY <3>1, <3>2, <3>3, <3>4
    <3>6. ReportedEntropy'
      BY <1>1, <1>2, <3>5, CallUnchanged DEF ReportedEntropy, Chosen
    <3>7. QED
      BY <1>2, <1>4, <2>2, <3>1, <3>6
  <2>3. QED
    BY <2>1, <2>2
<1>9. QED
  BY <1>1, <1>2, <1>4, <1>5, <1>6, <1>8 DEF SelectorInv

\* For every sample of whole chunks, every number of positions and whatever
\* lies in memory around the strings, the selector keeps its invariant.
THEOREM SelectorInvariant ==
    ASSUME \A s \in Samples : WholeChunks(s)
    PROVE  SelectorSpec => []SelectorInv
<1>1. SelectorInit => SelectorInv
  <2> SUFFICES ASSUME SelectorInit PROVE SelectorInv
    OBVIOUS
  <2>1. SampleInv /\ positions = <<>> /\ entropies = <<>> /\ stage = "enter"
    BY DEF SelectorInit, SampleInv
  <2>2. GreedyChoice /\ ReportedEntropy
    BY <2>1 DEF GreedyChoice, ReportedEntropy
  <2>3. QED
    BY <2>1, <2>2 DEF SelectorInv
<1>2. SelectorInv /\ [SelectorNext]_selectorVars => SelectorInv'
  <2> SUFFICES ASSUME SelectorInv, [SelectorNext]_selectorVars PROVE SelectorInv'
    OBVIOUS
  <2>1. CASE Enter \/ Stop
    <3>1. UNCHANGED callVars /\ UNCHANGED <<positions, entropies>> /\ stage' # "choose"
      BY <2>1 DEF Enter, Stop
    <3>2. QED
      BY <3>1, PositionsUnchanged DEF SelectorInv
  <2>2. CASE StartRound
    <3>1. UNCHANGED callVars /\ UNCHANGED <<positions, entropies>>
          /\ candidate' = 0 /\ best' = <<-1, Pairs(input)>>
      BY <2>2 DEF StartRound
    <3>2. Chunks \in Nat /\ Chunks' = Chunks /\ Pairs(input) \in Nat /\ Pairs(input)' = Pairs(input)
      BY <3>1, SampleTypes, CallUnchanged DEF SelectorInv
    <3>3. BestInv'
      BY <3>1, <3>2 DEF BestInv
    <3>4. candidate' \in 0..Chunks' /\ best'[1] \in -1..(candidate' - 1) /\ best'[2] \in Nat
      BY <3>1, <3>2
    <3>5. QED
      BY <3>1, <3>3, <3>4, PositionsUnchanged DEF SelectorInv
  <2>3. CASE TryPosition
    BY <2>3, TryPositionInv
  <2>4. CASE Push
    BY <2>4, PushInv
  <2>5. CASE UNCHANGED selectorVars
    <3>1. UNCHANGED callVars /\ UNCHANGED <<positions, entropies>>
          /\ stage' = stage /\ candidate' = candidate /\ best' = best /\ positions' = positions
      BY <2>5 DEF selectorVars, callVars
    <3>2. Chunks' = Chunks
      BY <3>1, CallUnchanged
    <3>3. BestInv => BestInv'
      <4>1. input' = input
        BY <3>1 DEF callVars
      <4>2. QED
        BY <3>1, <4>1, CallUnchanged DEF BestInv
    <3>4. QED
      BY <3>1, <3>2, <3>3, PositionsUnchanged DEF SelectorInv
  <2>6. QED
    BY <2>1, <2>2, <2>3, <2>4, <2>5 DEF SelectorNext, Finished
<1>3. QED
  BY <1>1, <1>2, PTL DEF SelectorSpec

\* Every round picks the first of the best unused positions, for every sample
\* of whole chunks and every content of the memory around the strings.
THEOREM GreedyChoiceHolds ==
    ASSUME \A s \in Samples : WholeChunks(s)
    PROVE  SelectorSpec => []GreedyChoice
<1>1. SelectorInv => GreedyChoice
  BY DEF SelectorInv
<1>2. QED
  BY <1>1, SelectorInvariant, PTL

\* The entropies written beside the locations are those of their prefixes, for
\* every sample of whole chunks.
THEOREM ReportedEntropyHolds ==
    ASSUME \A s \in Samples : WholeChunks(s)
    PROVE  SelectorSpec => []ReportedEntropy
<1>1. SelectorInv => ReportedEntropy
  BY DEF SelectorInv
<1>2. QED
  BY <1>1, SelectorInvariant, PTL
=============================================================================
