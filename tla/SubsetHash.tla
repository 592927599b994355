----------------------------- MODULE SubsetHash -----------------------------
(***************************************************************************)
(* From a location file to the bytes that get hashed.  A benchmark reads   *)
(* the word locations that the entropy estimator chose and the entropy of  *)
(* every prefix of them, takes as many as its error bound needs, builds a  *)
(* hash functor for that number and hashes keys with it                    *)
(* (include/hash/*_customs.hh, the bench_... functions).                   *)
(*                                                                         *)
(* A key is its length; what hashing it does is the set of byte offsets    *)
(* that are read.  Only 8-byte locations are modelled.                     *)
(***************************************************************************)
EXTENDS Integers, Sequences, FiniteSets, FiniteSetsExt, Functions

CONSTANTS Word,      \* 8: bytes of a location
          Files,     \* location files: [locations, entropies, fixed]
          Datasets,  \* sets of key lengths
          Needed,    \* needed_entropy
          Benches,
          Families   \* of hash functions: "xxh3", "wyhash", "crc_wyhash"

ASSUME SubsetHashAssumption ==
    /\ Word \in Nat \ {0}
    /\ \A L \in Datasets : L \subseteq Nat /\ IsFiniteSet(L) /\ L # {}
    /\ \A f \in Files :
           /\ f.locations \in Seq(Nat) /\ f.locations # <<>>
           /\ IsInjective(f.locations)
           /\ f.entropies \in Seq(Int)
           /\ Len(f.entropies) = Len(f.locations)
           /\ f.fixed \in BOOLEAN
    /\ Needed \in Int
    /\ Benches \subseteq {"selfbloom", "blockbloom", "register_block_bloom",
                          "partitioners", "std_table", "swiss_table", "swiss_table_mt"}
    /\ Families \subseteq {"xxh3", "wyhash", "crc_wyhash"}

VARIABLES state,           \* "start", "loaded", "chosen", "built", "hashed" or "crashed"
          file, lens,      \* the location file and the lengths of the keys
          bench,
          num,             \* numLocationsForChunkSize[8]
          hash_locations,  \* the sorted locations
          fn,              \* the functor: <<family, number of locations>>
          len, read        \* the last key hashed and the offsets read of it

vars == <<state, file, lens, bench, num, hash_locations, fn, len, read>>

\* The filters in blocks have no code for crc_wyhash.
Has(b, f) == f = "crc_wyhash" => b \notin {"blockbloom", "register_block_bloom"}

Normal == 0

Init ==
    /\ state = "start"
    /\ file \in Files
    /\ lens = {}
    /\ bench = "none"
    /\ num = 0
    /\ hash_locations = <<>>
    /\ fn = <<"none", Normal>>
    /\ len = 0
    /\ read = {}

\* setLocationData.  The estimator picked locations inside the longest key and
\* took the data for fixed-length when half of it was.
setLocationData(L) ==
    /\ state = "start"
    /\ \A l \in Range(file.locations) : Word * (l + 1) <= Max(L)
    /\ Cardinality(L) = 1 => file.fixed
    /\ state' = "loaded"
    /\ lens' = L
    /\ UNCHANGED <<file, bench, num, hash_locations, fn, len, read>>

\* Mutant: the index of the first sufficient entropy, not the count.
PrefixShort(default, cap) ==
    LET enough == {i \in DOMAIN file.entropies : file.entropies[i] > Needed}
        n == IF enough # {} THEN Min(enough) - 1 ELSE default
    IN  IF n > 4 THEN cap ELSE n

\* The first prefix with enough entropy, or a default; more than four locations
\* are too many.
Prefix(default, cap) ==
    LET enough == {i \in DOMAIN file.entropies : file.entropies[i] > Needed}
        n == IF enough # {} THEN Min(enough) ELSE default
    IN  IF n > 4 THEN cap ELSE n

\* bench_blockbloom finds the zero of a new map entry, the others all locations
\* but one.
numLocations(b) ==
    CASE b = "blockbloom" -> Prefix(0, 4)
      [] b \in {"selfbloom", "register_block_bloom", "partitioners"} ->
             Prefix(Len(file.entropies) - 1, 5)
      [] OTHER -> Prefix(Len(file.entropies) - 1, 4)

\* The first num locations, sorted.
SortedPrefix(n) ==
    {s \in [1..n -> {file.locations[i] : i \in 1..n}] :
        \A i, j \in 1..n : i < j => s[i] < s[j]}

ChooseLocations(b) ==
    /\ state = "loaded"
    /\ state' = "chosen"
    /\ bench' = b
    /\ num' = numLocations(b)
    /\ hash_locations' \in SortedPrefix(num')
    /\ UNCHANGED <<file, lens, fn, len, read>>

\* How many locations the functor takes that a benchmark's if-chain selects.
bench_selfbloom(f) ==
    IF num \in 1..4 THEN num ELSE IF f = "crc_wyhash" THEN 4 ELSE Normal

bench_blockbloom == IF num \in 1..3 THEN num ELSE 4

bench_register_block_bloom == IF num \in 1..4 THEN num ELSE Normal

bench_partitioners == IF num \in 1..4 THEN num ELSE Normal

\* Mutant: the branch for three locations is missing.
bench_std_table_two == IF num \in 1..2 THEN num ELSE 4

bench_std_table == IF num \in 1..3 THEN num ELSE 4

bench_swiss_table == IF num \in 1..3 THEN num ELSE 4

bench_swiss_table_mt == IF num \in 1..3 THEN num ELSE 4

Arity(f) ==
    CASE bench = "selfbloom" -> bench_selfbloom(f)
      [] bench = "blockbloom" -> bench_blockbloom
      [] bench = "register_block_bloom" -> bench_register_block_bloom
      [] bench = "partitioners" -> bench_partitioners
      [] bench = "std_table" -> bench_std_table
      [] bench = "swiss_table" -> bench_swiss_table
      [] bench = "swiss_table_mt" -> bench_swiss_table_mt

\* The constructor copies its locations; the array of an empty vector is null.
Construct(f) ==
    /\ state = "chosen"
    /\ Has(bench, f)
    /\ fn' = <<f, Arity(f)>>
    /\ state' = IF Arity(f) > 0 /\ hash_locations = <<>> THEN "crashed" ELSE "built"
    /\ UNCHANGED <<file, lens, bench, num, hash_locations, len, read>>

Bytes(from, n) == from..(from + n - 1)

At(n) == Word * hash_locations[n]

Words(m) == UNION {Bytes(At(n), Word) : n \in 1..m}

\* What the _fixed functors read.  XXH3 mixes two 16-byte blocks for three and
\* for four locations.
XXH3_fixed(m) ==
    CASE m = 3 -> Bytes(At(1), 2 * Word) \cup Bytes(At(2), 2 * Word)
      [] m = 4 -> Bytes(At(1), 2 * Word) \cup Bytes(At(3), 2 * Word)
      [] OTHER -> Words(m)

wyhash_fixed(m) == Words(m)

crc32_wyhash_fixed(m) == Words(m)

FixedReads(f, m) ==
    CASE f = "xxh3" -> XXH3_fixed(m)
      [] f = "wyhash" -> wyhash_fixed(m)
      [] f = "crc_wyhash" -> crc32_wyhash_fixed(m)

\* Mutant: the cached endpoint is where the last word starts.
EndpointShort(m) == Word * hash_locations[m]

\* The cached endpoint.
Endpoint(m) == Word * hash_locations[m] + Word

LongEnough(f, m, n) == IF f = "xxh3" THEN n > Endpoint(m) ELSE n >= Endpoint(m)

\* Keys that are too short, and normal hash functions, use the whole key.
Reads(f, m, n) ==
    IF m # Normal /\ (file.fixed \/ LongEnough(f, m, n))
    THEN FixedReads(f, m) ELSE 0..(n - 1)

Hash(n) ==
    /\ state \in {"built", "hashed"}
    /\ state' = "hashed"
    /\ len' = n
    /\ read' = Reads(fn[1], fn[2], n)
    /\ UNCHANGED <<file, lens, bench, num, hash_locations, fn>>

\* The benchmark returns; main calls the next.
Return ==
    /\ state = "hashed"
    /\ state' = "loaded"
    /\ bench' = "none"
    /\ num' = 0
    /\ hash_locations' = <<>>
    /\ fn' = <<"none", Normal>>
    /\ len' = 0
    /\ read' = {}
    /\ UNCHANGED <<file, lens>>

\* A null pointer has ended the program.
Crashed == state = "crashed" /\ UNCHANGED vars

Next ==
    \/ \E L \in Datasets : setLocationData(L)
    \/ \E b \in Benches : ChooseLocations(b)
    \/ \E f \in Families : Construct(f)
    \/ \E n \in lens : Hash(n)
    \/ Return \/ Crashed

Spec == Init /\ [][Next]_vars

-----------------------------------------------------------------------------
(* Properties.                                                             *)

\* A key that ends before the last location of the functor.
TooShort == fn[2] # Normal /\ len < Endpoint(fn[2])

\* No hash function reads outside its key, not even the 16-byte reads of xxh3
\* that start at 8-byte locations.  The exception are the short keys of a data set
\* that half of the data made look fixed-length and is not: the _fixed functors
\* do not compare the length with their endpoint.
ReadsInsideKey ==
    state = "hashed" =>
        \/ file.fixed /\ Cardinality(lens) > 1 /\ TooShort
        \/ read \subseteq 0..(len - 1)

\* When four locations or fewer have the entropy the error bound asks for, the
\* benchmark hashes the fewest that do.
FewestLocations ==
    LET enough == {i \in 1..4 \cap DOMAIN file.entropies : file.entropies[i] > Needed}
    IN  state = "built" /\ enough # {} => fn[2] = Min(enough)

\* "selects best bytes to use in hashing until k bytes used"
\* (entropy_estimators.hh:203): the bytes selected are the bytes hashed.
SelectedBytesUsed ==
    state = "hashed" /\ fn[2] # Normal =>
        \A i \in 1..fn[2] :
            Bytes(Word * hash_locations[i], Word) \subseteq read
              \/ read = 0..(len - 1)

\* The last else of an if-chain is taken for no locations, for four and for more:
\* the functor it builds never copies a location from behind the vector it is
\* given, whose length the search for a prefix decided.
FunctorInsideLocations ==
    state \in {"built", "hashed"} => 1..fn[2] \subseteq DOMAIN hash_locations

\* A functor is built from an empty vector only when no prefix of the locations
\* has enough entropy: a list that suffices never ends in a null array.
EmptyOnlyWithoutEntropy ==
    state = "crashed" =>
        \A i \in DOMAIN file.entropies : file.entropies[i] <= Needed
=============================================================================
