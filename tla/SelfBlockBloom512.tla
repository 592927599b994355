------------------------- MODULE SelfBlockBloom512 --------------------------
(***************************************************************************)
(* The cache-line blocked Bloom filter selfBlockBloom512                   *)
(* (include/self_block_bloom.hh): the first half of the hash picks a       *)
(* block, double hashing picks the bits inside it.  addValue computes      *)
(* hash1 + i * hash2 afresh in every iteration, testValue keeps adding     *)
(* hash2 to a running sum, so the loops take one step per bit here too.    *)
(***************************************************************************)
EXTENDS BloomArith, FiniteSets

CONSTANTS Keys,        \* the hashes of the keys
          Sizes,       \* sizeInBits arguments of the constructor
          ByteBits,    \* bits of a byte
          BlockBytes,  \* bytes of a block
          MaxHashes,   \* bound on numHashes
          MaxKeys      \* bound on the keys added to one filter

BlockBits == ByteBits * BlockBytes

ASSUME Block512Assumption ==
    /\ Keys \subseteq 0..(U32 * U32 - 1)
    /\ Sizes \subseteq Nat
    /\ ByteBits \in Nat \ {0}
    /\ BlockBytes \in Nat \ {0}
    /\ U32 % BlockBytes = 0
    /\ MaxHashes \in Nat
    /\ MaxKeys \in Nat
    \* numBlocks fits an unsigned int: the filter is smaller than 256 GB.
    /\ \A s \in Sizes : s + BlockBits < BlockBits * U32

VARIABLES state,       \* "none", "ready", "adding", "testing" or "failed"
          numBlocks,
          numHashes,
          bytes,       \* the one-bits of the array
          key, i,      \* the key and loop variable of the call under way
          running,     \* the running sum double_hash of testValue
          returnVal,   \* the local of testValue
          members,     \* history: keys whose addValue has returned
          last         \* history: the last testValue call that returned

filterVars == <<numBlocks, numHashes>>
vars == <<state, numBlocks, numHashes, bytes, key, i, running, returnVal,
          members, last>>

\* Mutant: the last block is left out.
blockOffsetShort(h1) == (BlockBytes * mult_reduce(h1, numBlocks - 1)) % U32

\* uint32_t blockOffset: the product wraps.
blockOffset(h1) == (BlockBytes * mult_reduce(h1, numBlocks)) % U32

\* Where setBit and testBit find a position of a block.
Bit(offset, positionInBlock) ==
    <<positionInBlock \div ByteBits + offset, positionInBlock % ByteBits>>

\* Mutant: the position is not reduced to the block.
BitForUnmasked(k, dh) == Bit(blockOffset(hash1(k)), dh)

\* The bit for key k and a double hash.
BitFor(k, dh) == Bit(blockOffset(hash1(k)), dh % BlockBits)

LocalsGone == key' = 0 /\ i' = 0 /\ running' = 0 /\ returnVal' = FALSE

Init ==
    /\ state = "none"
    /\ numBlocks = 0
    /\ numHashes = 0
    /\ bytes = {}
    /\ key = 0
    /\ i = 0
    /\ running = 0
    /\ returnVal = FALSE
    /\ members = {}
    /\ last = <<>>

\* The constructor rounds the size up to whole blocks, one more than needed
\* when it is a multiple already.  numHashes is the one of 1..4 with the lowest
\* estimated false-positive rate, and is left uninitialised if no estimate is
\* below 1.0: any number n.  assert(numHashes >= 1) ends the program at zero.
Construct(sizeInBits, n) ==
    /\ state = "none"
    /\ state' = IF n >= 1 THEN "ready" ELSE "failed"
    /\ numBlocks' = (sizeInBits + (BlockBits - (sizeInBits % BlockBits))) \div BlockBits
    /\ numHashes' = n
    /\ UNCHANGED <<bytes, key, i, running, returnVal, members, last>>

\* addValue.
AddStart(k) ==
    /\ state = "ready"
    /\ k \in members \/ Cardinality(members) < MaxKeys
    /\ state' = "adding"
    /\ key' = k
    /\ i' = 1
    /\ UNCHANGED <<filterVars, bytes, running, returnVal, members, last>>

AddStep ==
    /\ state = "adding"
    /\ i <= numHashes
    /\ bytes' = bytes \cup {BitFor(key, double_hash(key, i))}
    /\ i' = i + 1
    /\ UNCHANGED <<state, filterVars, key, running, returnVal, members, last>>

AddReturn ==
    /\ state = "adding"
    /\ i > numHashes
    /\ state' = "ready"
    /\ members' = members \cup {key}
    /\ LocalsGone
    /\ UNCHANGED <<filterVars, bytes, last>>

\* Mutant: the running sum starts from zero.
TestStartZero(k) ==
    /\ state = "ready"
    /\ state' = "testing"
    /\ key' = k
    /\ i' = 1
    /\ running' = 0
    /\ returnVal' = TRUE
    /\ UNCHANGED <<filterVars, bytes, members, last>>

\* testValue.
TestStart(k) ==
    /\ state = "ready"
    /\ state' = "testing"
    /\ key' = k
    /\ i' = 1
    /\ running' = hash1(k)
    /\ returnVal' = TRUE
    /\ UNCHANGED <<filterVars, bytes, members, last>>

TestStep ==
    /\ state = "testing"
    /\ returnVal /\ i <= numHashes
    /\ running' = (running + hash2(key)) % U32
    /\ returnVal' = (BitFor(key, running') \in bytes)
    /\ i' = i + 1
    /\ UNCHANGED <<state, filterVars, bytes, key, members, last>>

TestReturn ==
    /\ state = "testing"
    /\ ~(returnVal /\ i <= numHashes)
    /\ state' = "ready"
    /\ last' = <<key, returnVal>>
    /\ LocalsGone
    /\ UNCHANGED <<filterVars, bytes, members>>

\* The destructor; the next filter is a new object.
Destroy ==
    /\ state = "ready"
    /\ state' = "none"
    /\ numBlocks' = 0
    /\ numHashes' = 0
    /\ bytes' = {}
    /\ members' = {}
    /\ last' = <<>>
    /\ UNCHANGED <<key, i, running, returnVal>>

\* The assertion has ended the program.
Aborted == state = "failed" /\ UNCHANGED vars

Next ==
    \/ \E bits \in Sizes, n \in 0..MaxHashes : Construct(bits, n)
    \/ \E k \in Keys : AddStart(k) \/ TestStart(k)
    \/ AddStep \/ AddReturn \/ TestStep \/ TestReturn
    \/ Destroy \/ Aborted

Spec == Init /\ [][Next]_vars

-----------------------------------------------------------------------------
(* Properties.                                                             *)

\* Every variable stays in its type.
TypeOK ==
    /\ state \in {"none", "ready", "adding", "testing", "failed"}
    /\ numBlocks \in Nat
    /\ numHashes \in Nat
    /\ bytes \subseteq Nat \X (0..(ByteBits - 1))
    /\ key \in Keys \cup {0}
    /\ i \in Nat
    /\ running \in 0..(U32 - 1)
    /\ returnVal \in BOOLEAN
    /\ members \subseteq Keys

\* The bit that iteration j of addValue sets for key k.
Access(k, j) == BitFor(k, double_hash(k, j))

\* No key that was added is missed, although testValue computes its positions
\* another way than addValue (the asserts of benchFilter_latency and
\* benchFilter_throughput that every added key tests positive).
NoFalseNegatives == state = "testing" /\ key \in members => returnVal

\* The filter writes, and the next iteration of a loop touches, only bytes
\* inside its numBlocks blocks.
InBounds ==
    /\ \A b \in bytes : b[1] < BlockBytes * numBlocks
    /\ state \in {"adding", "testing"} =>
           Access(key, i)[1] < BlockBytes * numBlocks

AllBlocksReached ==
    \A b \in 0..(numBlocks - 1) : \E h \in 0..(U32 - 1) : blockOffset(h) = BlockBytes * b

\* "This class supports Bloom Filters up to 2 TB in size"
\* (self_block_bloom.hh:14): whatever the size, each block the filter pays for
\* is the block of some hash.
EveryBlockReachable == state = "ready" => AllBlocksReached

\* What addValue and testValue achieve of that: no block is out of reach in a
\* filter whose bytes a uint32_t can count, that is up to 4 GB.
BlocksReachableTo4GB ==
    state = "ready" /\ BlockBytes * numBlocks <= U32 => AllBlocksReached

\* The inductive invariant: the running sum of testValue is the double hash
\* that addValue computed in the same iteration.
Inv ==
    /\ TypeOK
    /\ state \in {"ready", "adding", "testing"} => numBlocks >= 1 /\ numHashes >= 1
    /\ \A b \in bytes : b[1] < BlockBytes * numBlocks
    /\ \A k \in members : \A j \in 1..numHashes : Access(k, j) \in bytes
    /\ state \in {"none", "failed"} => members = {} /\ bytes = {} /\ last = <<>>
    /\ state \in {"adding", "testing"} => key \in Keys /\ i \in 1..(numHashes + 1)
    /\ state = "adding" => \A j \in 1..(i - 1) : Access(key, j) \in bytes
    /\ state = "testing" =>
           /\ running = double_hash(key, i - 1)
           /\ returnVal <=> \A j \in 1..(i - 1) : Access(key, j) \in bytes

\* The filter is an approximate set.
Reported ==
    IF state \in {"none", "failed"} THEN {}
    ELSE {k \in Keys : \A j \in 1..numHashes : Access(k, j) \in bytes}

Approx == INSTANCE ApproxSet WITH reported <- Reported

\* The two loops implement an approximate set: a test answers exactly whether
\* every bit addValue would set for the key is set.
ImplementsApproxSet == Approx!ApproxSpec
=============================================================================
