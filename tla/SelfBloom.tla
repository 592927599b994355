----------------------------- MODULE SelfBloom ------------------------------
(***************************************************************************)
(* The standard Bloom filter selfBloom (include/self_reg_bloom.hh).        *)
(*                                                                         *)
(* A key is its 64-bit hash: nothing else of it reaches the filter.  The   *)
(* loops of addValue and testValue take one step per bit, so their bounds, *)
(* their early exit and the order of their accesses are the code's.  The   *)
(* bit array is the set of its one-bits, each a byte index and a bit.      *)
(***************************************************************************)
EXTENDS BloomArith, FiniteSets

CONSTANTS Keys,      \* the hashes of the keys
          Requests,  \* whole parts of numElementsExpected * bitsPerElement
          Elements,  \* values of numElementsExpected
          ByteBits,  \* bits of a byte
          MaxKeys    \* bound on the keys added to one filter

ASSUME SelfBloomAssumption ==
    /\ Keys \subseteq 0..(U32 * U32 - 1)
    /\ Requests \subseteq Nat \ {0}
    /\ Elements \subseteq Nat \ {0}
    /\ ByteBits \in Nat \ {0}
    /\ MaxKeys \in Nat
    /\ I31 + ByteBits <= U32

VARIABLES state,        \* "none", "ready", "adding", "testing" or "failed"
          sizeInBytes,  \* bytes allocated
          numHashes,
          bytes,        \* the one-bits of the array
          key, i,       \* the key and loop variable of the call under way
          returnVal,    \* the local of testValue
          members,      \* history: keys whose addValue has returned
          last          \* history: the last testValue call that returned

filterVars == <<sizeInBytes, numHashes>>
vars == <<state, sizeInBytes, numHashes, bytes, key, i, returnVal, members, last>>

sizeInBits == ByteBits * sizeInBytes

\* Where setBit and testBit find a position.
Bit(position) == <<position \div ByteBits, position % ByteBits>>

Position(k, j) == mult_reduce(double_hash(k, j), sizeInBits)

Init ==
    /\ state = "none"
    /\ sizeInBytes = 0
    /\ numHashes = 0
    /\ bytes = {}
    /\ key = 0
    /\ i = 0
    /\ returnVal = FALSE
    /\ members = {}
    /\ last = <<>>

\* Mutant: the size is rounded down to whole bytes.
BytesForDown(bits) == bits \div ByteBits

\* sizeInBits rounded up to whole bytes.
BytesFor(bits) == bits \div ByteBits + (IF bits % ByteBits # 0 THEN 1 ELSE 0)

\* max(1.0, ln(2) * bits / n), converted to unsigned int.
HashesFor(bits, n) ==
    LET h == (693147 * bits) \div (1000000 * n) IN IF h < 1 THEN 1 ELSE h

\* The constructor, its array zeroed; new throws when it cannot allocate.
Construct(product, n) ==
    /\ state = "none"
    /\ IF generateNumBits(product) = Unallocatable
         THEN /\ state' = "failed"
              /\ UNCHANGED filterVars
         ELSE /\ state' = "ready"
              /\ sizeInBytes' = BytesFor(product)
              /\ numHashes' = HashesFor(ByteBits * sizeInBytes', n)
    /\ bytes' = {}
    /\ UNCHANGED <<key, i, returnVal, members, last>>

\* The locals of a call end with it.
LocalsGone == key' = 0 /\ i' = 0 /\ returnVal' = FALSE

\* addValue: the first position, the others, the return.
AddFirst(k) ==
    /\ state = "ready"
    /\ k \in members \/ Cardinality(members) < MaxKeys
    /\ state' = "adding"
    /\ key' = k
    /\ bytes' = bytes \cup {Bit(Position(k, 0))}
    /\ i' = 1
    /\ UNCHANGED <<filterVars, returnVal, members, last>>

AddStep ==
    /\ state = "adding"
    /\ i < numHashes
    /\ bytes' = bytes \cup {Bit(Position(key, i))}
    /\ i' = i + 1
    /\ UNCHANGED <<state, filterVars, key, returnVal, members, last>>

\* Mutant: the loop ends one iteration early.
AddReturnEarly ==
    /\ state = "adding"
    /\ i >= numHashes - 1
    /\ state' = "ready"
    /\ members' = members \cup {key}
    /\ LocalsGone
    /\ UNCHANGED <<filterVars, bytes, last>>

AddReturn ==
    /\ state = "adding"
    /\ i >= numHashes
    /\ state' = "ready"
    /\ members' = members \cup {key}
    /\ LocalsGone
    /\ UNCHANGED <<filterVars, bytes, last>>

\* testValue: the same positions, up to the first bit that is not set.
TestFirst(k) ==
    /\ state = "ready"
    /\ state' = "testing"
    /\ key' = k
    /\ returnVal' = (Bit(Position(k, 0)) \in bytes)
    /\ i' = 1
    /\ UNCHANGED <<filterVars, bytes, members, last>>

TestStep ==
    /\ state = "testing"
    /\ returnVal /\ i < numHashes
    /\ returnVal' = (Bit(Position(key, i)) \in bytes)
    /\ i' = i + 1
    /\ UNCHANGED <<state, filterVars, bytes, key, members, last>>

TestReturn ==
    /\ state = "testing"
    /\ ~(returnVal /\ i < numHashes)
    /\ state' = "ready"
    /\ last' = <<key, returnVal>>
    /\ LocalsGone
    /\ UNCHANGED <<filterVars, bytes, members>>

\* The destructor; the next filter is a new object.
Destroy ==
    /\ state = "ready"
    /\ state' = "none"
    /\ bytes' = {}
    /\ members' = {}
    /\ last' = <<>>
    /\ sizeInBytes' = 0
    /\ numHashes' = 0
    /\ UNCHANGED <<key, i, returnVal>>

\* bad_alloc has ended the program.
Aborted == state = "failed" /\ UNCHANGED vars

Next ==
    \/ \E product \in Requests, n \in Elements : Construct(product, n)
    \/ \E k \in Keys : AddFirst(k) \/ TestFirst(k)
    \/ AddStep \/ AddReturn \/ TestStep \/ TestReturn
    \/ Destroy \/ Aborted

Spec == Init /\ [][Next]_vars

-----------------------------------------------------------------------------
(* Properties.                                                             *)

\* Every variable stays in its type.
TypeOK ==
    /\ state \in {"none", "ready", "adding", "testing", "failed"}
    /\ sizeInBytes \in Nat
    /\ numHashes \in Nat
    /\ bytes \subseteq Nat \X (0..(ByteBits - 1))
    /\ key \in Keys \cup {0}
    /\ i \in Nat
    /\ returnVal \in BOOLEAN
    /\ members \subseteq Keys

\* The bit that iteration j of either loop accesses for key k.
Access(k, j) == Bit(Position(k, j))

\* No key that was added is missed (the asserts "result == data.size()" of
\* benchFilter_throughput and benchFilter_latency): a test of such a key never
\* finds a bit that is not set, whatever was added before or after it.
NoFalseNegatives == state = "testing" /\ key \in members => returnVal

\* Every byte the filter writes, and every byte the next iteration of a loop
\* will touch, is inside the allocation.
InBounds ==
    /\ \A b \in bytes : b[1] < sizeInBytes
    /\ state \in {"adding", "testing"} => Access(key, i)[1] < sizeInBytes

\* The inductive invariant: a bit that an added key needs, or that the call
\* under way has visited, is set.
Inv ==
    /\ TypeOK
    /\ state \in {"ready", "adding", "testing"} =>
           sizeInBytes >= 1 /\ sizeInBits < U32 /\ numHashes >= 1
    /\ \A b \in bytes : b[1] < sizeInBytes
    /\ \A k \in members : \A j \in 0..(numHashes - 1) : Access(k, j) \in bytes
    /\ state = "none" => members = {} /\ bytes = {}
    /\ state = "failed" => members = {} /\ bytes = {}
    /\ state \in {"adding", "testing"} => key \in Keys /\ i \in 1..numHashes
    /\ state = "adding" => \A j \in 0..(i - 1) : Access(key, j) \in bytes
    /\ state = "testing" =>
           returnVal <=> \A j \in 0..(i - 1) : Access(key, j) \in bytes

\* The filter is an approximate set.
Reported ==
    IF state \in {"none", "failed"} THEN {}
    ELSE {k \in Keys : \A j \in 0..(numHashes - 1) : Access(k, j) \in bytes}

Approx == INSTANCE ApproxSet WITH reported <- Reported

\* The loops over single bits implement an approximate set: a test answers
\* exactly whether all bits of the key are set, adding only ever makes more
\* keys reported, and addValue returns once its own key is.
ImplementsApproxSet == Approx!ApproxSpec

\* Range reduction wastes nothing: every bit of the array is the position of
\* some 32-bit hash.
EveryBitReachable ==
    state = "ready" => \A p \in 0..(sizeInBits - 1) :
                           \E h \in 0..(U32 - 1) : mult_reduce(h, sizeInBits) = p
=============================================================================
