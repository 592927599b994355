# Entropy-Learned Hashing: TLA+ models, checks and proofs

Entropy-Learned Hashing hashes only the bytes of a key that carry entropy. The
repository estimates which bytes those are, builds hash functors that read only
them, and measures the functors in Bloom filters, hash tables and partitioning.
This directory holds TLA+ models of that program, TLC configurations that check
them on small instances, and TLAPS proofs that hold for every value of their constants.

## The system and its modules

| Part of the code | State and operations | Modules |
|---|---|---|
| `benchmark_tables_mt.cpp`, `benchmark_mt` | main thread, workers, two spin barriers, two flags, mutex, totals | `BenchTablesMt`, abstract `PhasedBench`, `BenchTablesMtProofs` |
| `self_reg_bloom.hh` | standard Bloom filter | `SelfBloom`, `BloomArith`, abstract `ApproxSet`, `SelfBloomProofs` |
| `self_block_bloom.hh` | cache-line blocked filter | `SelfBlockBloom512`, `SelfBlockBloom512Proofs` |
| `register_blocked_bloom.hh` | register blocked filter | `SelfBlockBloom64`, `FilterParts`, `FilterProofs` |
| `libbloom.cpp` | struct with return codes (its benchmark is commented out) | `LibBloom`, `FilterParts`, `FilterProofs` |
| `entropy_estimators.hh` | greedy choice of positions | `EntropySelector`, `LocationProofs` |
| `*_customs.hh`, if-chains of the `bench_*` functions | from a location file to the bytes read | `SubsetHash`, `LocationProofs` |
| `benchmark_filters.cpp`, `workload_generator.cpp`, `storage.cpp` | trials, probes, false-positive counts | `FilterBench`, `FilterParts`, `FilterProofs` |
| `benchmark_tables.cpp` | latency and throughput loops | `TableBench` |
| `benchmarker.cpp`, `benchmarks.hh` | trial loop, global times, averages | `BenchDriver` (with `TableBench`), `BenchDriverProofs` |
| `raw_hash_set.h` (absl::flat_hash_map) | control bytes, groups, tombstones, growth | `SwissTable` |
| `robin_hash.h` (tsl::robin_map) | displacement, backward shift, stored hashes | `RobinTable`, `PowersOfTwo`, `RobinTableProofs` |
| `densehashtable.h` (google::dense_hash_map) | erased keys, copies that grow, shrink or purge | `DenseTable` |
| the table a benchmark is given | one of the three | `HashTables`, abstract `HashSet` |

The parts meet as follows. The selector writes a location file. A benchmark
reads it, takes the shortest prefix with enough entropy and builds a functor
(`SubsetHash`). The functor is the hash of a filter, table or partitioner, and
the filters see of a key only that 64-bit hash. The benchmark loops use filters
through what `ApproxSet` promises (`FilterBench`) and tables as maps
(`TableBench`); that the three tables are such maps is what `HashTables` checks.
`BenchDriver` runs the loops of the tables inside its trials and adds up the
times of all classes. `PROJECT.json` lists every part, what is left out and why,
and the source lines of every definition.

`MC*` modules give the constants of a model their values. Operators marked
"Mutant" are wrong variants of the definition that follows them. No behaviour of
a model uses them: they stand for plausible bugs, and each property is known to
fail for one of them.

## How the models correspond to the code

**BenchTablesMt.** `pc[t]` is the line a worker is at, `mainPc` that of the main
thread. `count_down` is two steps, the load (`LoadA`) and the compare-and-swap
(`CasA`). A pass over the probes is one step. The sleeps are not timed: the main
thread may go on at any moment, so a slow worker can miss the warm-up or the
measurement. The unlocked `timings += duration` of the main thread and the
locked load and store of the workers are separate steps. Flags are volatile and
x86 makes stores visible in program order, so no store buffer is modelled.

**Filters.** A key is its 64-bit hash. The bit array is the set of its one-bits.
Word, byte and block sizes are constants (`U32`, `I31`, `ByteBits`, ...), so
wrapping and truncation are the code's at any width. The loops of the first two
filters take one step per bit; the register filter touches one word once per
call and is one step. The false-positive estimates that pick `numHashes` are
floating point: any result is allowed, and 0 meets the `assert`, which is live
(the build does not define `NDEBUG`). An out-of-range conversion to `int` gives
INT_MIN, and an `int` shift takes its count modulo 32 and widens with its sign,
as x86 instructions do.

**LibBloom.** One action per function; `bloom_init` can refuse its arguments or
run out of memory after it has stored the new shape.

**EntropySelector.** One step per candidate position. An entropy is represented
by the number of colliding pairs, lower being better, which orders the
candidates as the logarithm does. Bytes around a string are arbitrary each time
they are read, except the terminating zero. Samples have at least two strings
(the formula divides by N(N-1)), and comparing with infinite entropy is taken to
work under `-Ofast`.

**FilterParts.** The register blocked filter, libbloom and the measurement of a filter
share no state. `FilterParts` puts them side by side: a behaviour runs one of them.

**SubsetHash.** A key is its length, and a hash is the set of offsets it reads.
All seven benchmarks and three hash families are there, for 8-byte locations. A
location of -1, which the selector writes when no position helps, is excluded
from the files.

**FilterBench, TableBench, BenchDriver.** One step per probe, block and trial.
Rates are represented by numerators. `get_subset` computes the number of lines from
a `float` fraction, so it may be one less than asked for. `probe_to_filter_map`, which
is reserved but never resized, is taken to store what is written to it. A time in `BenchDriver` is
the experiment and trial whose loop measured it; `T!Loop` are the steps of
`TableBench`, and the steps that start, return and measure carry the driver's
additions with them.

**SwissTable, RobinTable, DenseTable.** A key stands for its hash values, which
are constants or chosen at the start; values are left out. Operations are atomic
except for the loops that move elements (`resize`, `drop_deletes_without_resize`
and the copy constructor; `insert_value_on_rehash` and the displacing insertion;
`copy_from`), which take one step per element, so that the invariants are checked
between any two moves. `SwissTable` keeps the control bytes behind the sentinel,
chooses a new `seed` with every allocation (probing depends on the address of
the control bytes) and either end of a group for an insertion, as the assertion
build does. Its `Copy` stands for copy construction followed by assignment.
`RobinTable` stores a part of the hash (`Truncated` for 2^32) and uses it in a
rehash under the code's condition. In `DenseTable` an insertion may shrink, enlarge
or purge the table before it uses, or throws away, the position it found first.
`assert`s end in "aborted"; those of robin_map are compiled out.

**HashTables.** The benchmark templates take one kind of table or another. The
composition picks the kind at the start, and the unused tables stay empty. It extends
`RobinTable` and has the other two as instances, since all three use the same names.

## Runs

Passing runs, with the number of distinct states:

| Run | States | What it shows |
|---|---|---|
| `bench_mt` | 143,269 | Barriers separate the phases; counted passes fall between the time stamps; setup meets no straggler; `timings` is never touched by two threads; no duration and no pass is lost; refines `PhasedBench`; the benchmark ends. |
| `self_bloom` | 130,264 | No access outside the array, every bit reachable; refines `ApproxSet`, so no added key is missed. |
| `block_bloom` | 247,001 | The same for blocks, in filters of up to 4 GB (`BlocksReachableTo4GB`). |
| `filter_parts` | 102,171 | The register blocked filter refines `ApproxSet`, whatever the shift of an `int` does. libbloom: no false negatives; `bloom_add` returns what `bloom_check` would have. The measurement of a filter: the assertions hold for any choice of metrics; throughput's count is exact, latency misses only false positives it skips. |
| `subset_hash` | 63,754 | Reads stay inside the key, with the exception below; the fewest sufficient locations are used; no functor takes more locations than there are (`FunctorInsideLocations`); a list that suffices never ends in an empty functor. |
| `selector` | 61,204 | Greedy choice among unused positions, reported entropies, termination, for bytes and for two-byte chunks. |
| `driver` | 572,240 | Which time of which trial each experiment is charged (`ChargedTimes`), indices that jump by looked-up values stay in their blocks (`SkipsStayInBlocks`), all trials end. |
| `hash_tables` | 430,075 | Each table refines `HashSet`, finds exactly its keys, keeps its counters, clones (`ClonesAgree`), order (`RobinHoodOrder`) and assertions; `find_guaranteed` finds every present key; dropping tombstones ends. |

`Inv` of `bench_mt` is the inductive invariant of the proofs and implies
`MeasuredInsideInterval`, `QuietSetup` and `TimingsExclusive`: these say what the
invariant is for in terms a reader of the code can judge. Some other properties are
not checked by name: type correctness of `BenchTablesMt` is part of `Inv`;
`WarmUpTogether` and `MeasureTogether` follow from the refinement of `PhasedBench`, and
`NoFalseNegatives` of the first two filters from that of `ApproxSet`.

`ReadsInsideKey` has one exception. `dataIsFixedLength` was decided on half of the
data. When the lengths do differ, the `_fixed` functors read outside a key that ends
before the last location: nothing in the code prevents it.

Four runs end in a violation. Each shows a comment that the code does not live up to;
`PROJECT.json` quotes the lines.

| Run | Property | The code |
|---|---|---|
| `block_bloom_size` | `EveryBlockReachable` | "up to 2 TB": the offset of a block is computed in 32 bits, so beyond 4 GB blocks are never used. No key is missed. |
| `register_bloom_bits` | `BitPerPosition` | "64 bit blocks": `1 << positionInBlock` shifts an `int`, so positions share bits. With a 64-bit one the property holds. No key is missed. |
| `subset_hash_selected` | `SelectedBytesUsed` | xxh3 with three or four locations leaves selected words out. |
| `selector_missing` | `GreedyChoice` | The comparison with `<=` reads a chunk behind the string, and it can decide the choice. |

### Other differences between code and comments

The models follow the code in all of these.

- `self_reg_bloom.hh:21` states 512 MB; sizes from 256 MB on fail in a conversion
  to `int` (`Construct` of `SelfBloom` ends in "failed").
- `libbloom.h:134` says that `bloom_reset` erases; its `memset` is commented out.
- `benchmark_filters.cpp:310` announces a normal hash function where it sets the number
  of locations to five; the last else of the crc chain (`:468`) then uses four
  (`bench_selfbloom` of `SubsetHash`).
- `benchmark_filters.cpp:496` means to match a false-positive rate; without enough
  entropy `bench_blockbloom` builds a functor from no locations
  (`EmptyOnlyWithoutEntropy` says that this is the only such case).
- `benchmark_filters.cpp:214` wants an accurate rate; the latency loop skips the
  probe after a positive one (`Skippable` in `LatencyCounts`).
- `benchmarks.hh:71` has the partition benchmark's own time as a commented-out
  configuration; it is charged the tables' of the trial before (`ChargedTimes`).
- `entropy_estimators.hh:258` compares a number of chunks with a length in bytes:
  `StopEntropy`, which nothing instantiates today, pushes -1 when the chunks run
  out.
- `benchmark_tables.cpp:324` replaces the build time where the throughput
  experiment adds to it (`:48`). Nothing reads it: the call that would print it
  (`benchmarker.cpp:456`) is commented out, so no property speaks of it.
- The options allow a load factor of 1.0 and dense_hash_map accepts it. The table then
  fills up, and the next lookup of an absent key fails the assertion "Hashtable is full".
  `DenseTable` does the same: with 100 in `Grows` and five keys `TableAssertionsHold` is
  violated. The run `hash_tables` has factors below 1.
- `find_guaranteed` of robin_map keeps bucket numbers in `int`s (`hash_match`), which
  are wrong from 2^31 buckets on; `GuaranteedFindsPresent` stops there.
- All workers may leave `barrier_b` between `warmup = false` and `running = true`.
  They then count no pass, and `print_benchmark_results_mt` divides by zero. The
  sleeps make this unlikely, and no comment speaks of it.

### Bounds, and why they suffice

- Threads: three give a barrier a first, a middle and a last worker and a failed
  compare-and-swap against each. Two calls reuse the barriers and add to the
  same totals. `MaxIters` bounds passes; a worker at the bound waits for the
  flag, so no flag change is lost.
- Filters: words of 4 to 6 bits instead of 32, and hash halves at the ends and in
  the middle of their range, so that sums wrap and sizes round; filter sizes on
  both sides of the limits of an `int` and of a `uint32_t`; few added keys, since
  bits only accumulate and each further key adds no new kind of overlap. The
  proofs remove these bounds.
- `SubsetHash`: every order of up to three of four words, lists of four and six,
  key lengths ending inside, at and after a word. Four is the code's own limit.
- `EntropySelector`: two or three strings per half, enough for ties and partial
  collisions. The passing run has strings of different lengths for bytes only;
  `selector_missing` shows why larger chunks need one length.
- `FilterBench`: three keys, one, two or all of them inserted, four probes in blocks
  of two, two trials, all false-positive sets. Some properties assume that no data line
  occurs twice and that the block size divides the number of probes; each says so.
- `TableBench` inside `BenchDriver`: all probe vectors of four over three keys, values
  0 to 2, blocks of two, two trials of every choice of classes and metrics.
- `SwissTable`: groups of 4 bytes instead of 16 or 8, one slot in two kept empty
  (`LoadDivisor`, 8 in the code) and at most 15 slots (`MaxCapacity`), so that four
  keys of which three collide fill small tables, wrap around, leave tombstones and
  have them dropped in place. Two address seeds.
- `RobinTable`: five keys, hash functions with ties and with hashes that differ only
  in what is not stored, at most 8 buckets; `DistLimit` 2 (4096 in the code) makes long
  probings force growth, two load factors below 1, and an `int` of at most 8
  (`IntLimit`).
- `DenseTable`: starts with 4 buckets (32 in the code) and may reach 16, so that
  four keys suffice to enlarge, shrink and purge; load factors of 50% and 75%.
- A table that would pass its bound does not take the step; all other operations
  stay possible there.

### Fairness

`BenchTablesMt` assumes weak fairness of the main thread and of each worker: the
operating system runs runnable threads, and a sleep ends. The compare-and-swap
loop needs no more, because a swap fails only when another worker's succeeded.
`EntropySelector` and `BenchDriver` assume that their single thread keeps running.
`HashTables` needs no fairness: `DroppingEnds` is an action property that gives the
only loop that can stay in place a decreasing measure.

## Proofs

TLAPS checks the theorems of eight modules, with no step left unproved. They
are about every model but those of the Swiss and the dense table.

**BenchTablesMtProofs**, for any number of threads, calls and passes (assuming
`MtAssumption`: the number of threads fits a `size_t`). The safety properties
are not inductive: that a barrier reads zero says nothing by itself. The
invariant `Inv` adds what the counters mean. `CountInv`: each counter is the
number of workers that have yet to count it down (`MissingA`, `MissingB`).
`PastInv`: a worker is past a barrier only if none is missing. `SpawnInv`: a
worker outside the current call does not run. `MainInv` relates flags, time
stamps and joins to `mainPc`. `LockInv`: the mutex belongs to the worker in the
critical section, whose loaded value is current. `InvHolds` proves it by one
step per action. Type correctness, `WarmUpTogether`, `MeasureTogether`,
`MeasuredInsideInterval`, `QuietSetup`, `TimingsExclusive`, `NoLostDuration` and
the refinement of `PhasedBench` follow. `AllPassesReported` needs a second invariant,
`PassInv`, on top of `Inv`: every pass made so far is in the totals, or in the counter
of a worker that the main thread has not collected yet (`Unreported`). The passes are
counted as a set of pairs, so that moving a counter into the total moves pairs.

**BloomArithProofs** holds lemmas on division, wrapping sums and range
reduction. `DoubleHashStep`: adding `hash2` to a wrapped running sum gives the double
hash of the next iteration. `MultReduceBound` and `MultReduceOnto`: range reduction
by n yields exactly the numbers below n.

**SelfBloomProofs** and **SelfBlockBloom512Proofs**, for all word, byte and block
sizes, shapes and sets of hashes within the named assumptions. `Inv` says that
the bits of every added key are set, that the loop under way has set or seen the
bits of the iterations before, and, for the blocked filter, that the running sum
of `testValue` is `addValue`'s double hash. No false negatives, accesses inside
the array and the refinement of `ApproxSet` follow. Every bit of the standard filter
is reachable, and every block of a blocked one whose bytes a 32-bit number can count
(`Block512Assumption`: a power of two of bytes in a block divides 2^32).

**FilterProofs**, first for `SelfBlockBloom64`, for all word, int and line sizes. `Inv`
says that the word of an added key holds the mask `addValue` built. The refinement of
`ApproxSet` follows with the lemma `SameMask`: the masks of the two loops of different
length are equal.

Then for `LibBloom`, for any shapes and hash pairs. `LibInv`: a ready struct holds every
bit of every key added. The counter of `bloom_check_add` is a cardinality, which
`CountIsAll` turns into "all positions hit". For `AddReportsPresence`, the first
position whose bit was clear cannot have been set by an earlier iteration
(`FirstMissIsMissed`, from the well-foundedness of the natural numbers).

Last for `FilterBench`, for any data, probes, metrics, false positives and step size.
What a loop reports is a count over the probes it has passed, so `FilterInv` relates
the loop's counter, index and block to the sets `PositiveSet`, `FalseSet` and
`SkippableSet` of those probes (`ThroughputLoop`, `LatencyLoop`), and says where the
filter holds the data. `AssertionsHold`, `LatencyCounts` and `ThroughputExact` follow.

**LocationProofs**, for `SubsetHash` and `EntropySelector`. `LocationInv` follows a
location file through the if-chains: how many locations were taken and why, that they
are sorted in the functor, that the last one and its word fit the shortest key, which
functor was built. `ReadsInsideKey`, `FewestLocations`, `FunctorInsideLocations` and
`EmptyOnlyWithoutEntropy` follow, for all files, key lengths and location sizes within
`SubsetHashAssumption`. `SelectorInv` has the loop invariant of
`chooseBestPositionRenyi` (the position held is the first of the best so far) and, for
every position chosen earlier, that it was the greedy choice at its turn.
`GreedyChoice` and `ReportedEntropy` follow for samples in which chunks are whole
(`WholeChunks`: single bytes, or strings with equally many chunks). Without that
hypothesis they are false, as the run `selector_missing` shows.

**BenchDriverProofs**, for any number of trials, probes and keys and any step size
(`BenchDriverAssumption`: `unsigned int` holds the number of probes and 2 more).
`TableInv` bounds the warm-up index and says that an index beyond the start of a
block has left a timed lookup in it. `ControlInv` says where in a trial each loop can
run. `TimesInv` adds how many times each experiment has been charged and how old each
global is. `SkipsStayInBlocks` and `ChargedTimes` follow.

**RobinTableProofs**, for any finite set of keys, any hash functions, load factors
between 20% and 95% (robin_map clamps them), and any power of two as the part of a hash
that is stored (`RobinTableAssumption`). It is about `Spec` of `RobinTable`, which
`RobinStep` runs in `HashTables`. `RobinHoodOrder` is about the buckets alone and not
inductive: an insertion holds an element in its hand while it displaces others, and a
rehash has part of the elements in the old array. `RobinInv` has four parts:

- `Shape`: the size is a power of two or zero, the buckets are in order (`OrderOf`) and no
  key is in two of them (`UniqueIn`);
- `OldInv`: the part of the old array that is still unread has other keys than the buckets
  and the right stored hashes, and there is none between operations;
- `CarryInv`: the element in hand belongs at the bucket it is compared with (`Carried`:
  its distance is the true one and at most one more than that of the bucket before), and
  its key is nowhere else; there is none between operations;
- `CountInv`: `nb_elements` counts the keys that are present, wherever they are, and while
  elements move they are fewer than the buckets, which is why every loop meets an empty
  bucket.

Four facts carry the steps. `TakePlace`: putting an element in hand where it is farther from
home than what is there keeps the order and leaves an element in hand that belongs at the
next bucket. `ShiftOrder`: the backward shift of `erase` up to the first bucket that is
empty or at home keeps the order, around the end of the array too. `SearchEnds`: the buckets
a lookup passes are exactly those before the first nearer one, so that a key found nowhere
among them is nowhere (`FindExact`). `RehashHashRight`: while the size is at most 2^32, or
whatever `Truncated` stands for, the stored part of a hash determines the bucket, because a
power of two divides a larger one (`PowerDividesPower`). `RobinHoodOrder`,
`GuaranteedFindsPresent` (an `int` holds the bucket numbers of a table of at most
`IntLimit` buckets, `HashMatch`), the exactness of lookups and the counters of robin_map (its parts
of `TableLookupsExact` and `TableAccounting`) follow, and that robin_map implements
`HashSet` (`RobinImplementsHashSet`), by one abstract step or none for each of its steps.
The prover does not interpret exponentiation, so `IsPowerOfTwo` is stated with divisors.

Only model-checked: liveness under fairness, which is beyond the prover, and what
`HashTables` says of the Swiss and the dense table (exact lookups, counters,
`ClonesAgree`, `DroppingEnds`, assertions, the refinement of `HashSet`).

## Not modelled

- Hash mixing arithmetic; option parsing, file formats and printing; the
  `TimeCounter`; scripts and data generators.
- Code that is never compiled or called: old estimators, the commented-out programs,
  the `only_swiss_table` variants, `bench_hashtable_st`, copy and move operations of
  the filters.
- The 1-byte and 4-byte functors (`sdbm_sub1`, `mmh2_sub4`); the loops of
  `bench_hashes` and `benchPartition`, whose only state is the time they leave behind
  (the `push_back` of the latter is commented out).
- Of the tables, what no benchmark uses: merge, extract, swap, move and heterogeneous
  lookup of flat_hash_map, its sampling and sanitizer hooks; shrinking, range
  erasure, copy and swap of robin_map, and distances beyond 16 bits; range operations,
  `min_load_factor` and serialization of dense_hash_map.
- The rest of the vendored libraries. About nine tenths of the lines under `src/`
  belong to abseil, sparsehash and tsl, of which the program uses three containers.
  The models cover those containers' operations and the program's own code; models
  of the remaining libraries would say nothing about this program.

## Plan

1. Proofs: `ClonesAgree`, `DroppingEnds` and `Accounting` of `SwissTable`; the lookups of
   `DenseTable`.
2. Composition: `EntropySelector` feeding `SubsetHash`, with -1 locations and the
   half-sample decision on fixed length; a filter module under `FilterBench` in
   place of its abstraction.
3. The 1-byte and 4-byte functors and their location lists.
