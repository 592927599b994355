-------------------------- MODULE SelfBlockBloom64 --------------------------
(***************************************************************************)
(* The register-blocked Bloom filter selfBlockBloom64                      *)
(* (include/register_blocked_bloom.hh): the first half of the hash picks a *)
(* 64-bit word, successive groups of bits of the second half pick bits of  *)
(* it.  A call touches its word once, so each is one step.  addValue       *)
(* builds its mask in a loop of numHashes iterations, testValue in one of  *)
(* numHashes - 1 and a last position after the loop.                       *)
(*                                                                         *)
(* A mask is the set of its one-bits.  The literal in 1 << positionInBlock *)
(* is an int: the shift count is taken modulo the bits of an int (what the *)
(* x86 shift does with a count the language leaves undefined), and an int  *)
(* with its sign bit set becomes a word with all higher bits set.          *)
(***************************************************************************)
EXTENDS BloomArith, FiniteSets

CONSTANTS Keys,        \* the hashes of the keys
          Sizes,       \* sizeInBits arguments of the constructor
          LineBits,    \* 512: sizes are rounded up to whole cache lines
          WordBits,    \* 64: bits of a block
          IntBits,     \* 32: bits of an int
          MaxHashes,   \* bound on numHashes
          MaxKeys      \* bound on the keys added to one filter

ASSUME Block64Assumption ==
    /\ Keys \subseteq 0..(U32 * U32 - 1)
    /\ Sizes \subseteq Nat
    /\ WordBits \in Nat \ {0}
    /\ LineBits \in {WordBits * n : n \in 1..8}
    /\ IntBits \in 1..WordBits
    /\ MaxHashes \in Nat
    /\ MaxKeys \in Nat

VARIABLES state,      \* "none", "ready" or "failed"
          numBlocks,
          numHashes,
          words,      \* the one-bits of each word
          members,    \* history: keys that have been added
          last        \* history: the last testValue call and its answer

filterVars == <<state, numBlocks, numHashes>>
vars == <<state, numBlocks, numHashes, words, members, last>>

\* positionInBlock of iteration j: hash2 >> 6 * (j - 1), & 63.
positionInBlock(k, j) == (hash2(k) \div WordBits ^ (j - 1)) % WordBits

\* (uint64_t)(1 << position).
ShiftedOne(position) ==
    LET q == position % IntBits
    IN  IF q = IntBits - 1 THEN q..(WordBits - 1) ELSE {q}

wordNum(k) == mult_reduce(hash1(k), numBlocks)

\* testWord at the end of addValue, and of testValue.
AddWord(k) == UNION {ShiftedOne(positionInBlock(k, j)) : j \in 1..numHashes}

\* Mutant: the loop of testValue is as long as that of addValue.
TestWordOneMore(k) ==
    UNION {ShiftedOne(positionInBlock(k, j)) : j \in 1..(numHashes + 1)}

TestWord(k) ==
    (UNION {ShiftedOne(positionInBlock(k, j)) : j \in 1..(numHashes - 1)})
      \cup ShiftedOne(positionInBlock(k, numHashes))

testValue(k) == TestWord(k) \subseteq words[wordNum(k)]

Init ==
    /\ state = "none"
    /\ numBlocks = 0
    /\ numHashes = 0
    /\ words = <<>>
    /\ members = {}
    /\ last = <<>>

\* The constructor.  numHashes is the one of 1..2 with the lowest estimated
\* false-positive rate, and is left uninitialised if no estimate is below 1.0:
\* any number n.  assert(numHashes >= 1) ends the program at zero.
Construct(sizeInBits, n) ==
    /\ state = "none"
    /\ state' = IF n >= 1 THEN "ready" ELSE "failed"
    /\ numBlocks' = (sizeInBits + (LineBits - (sizeInBits % LineBits))) \div WordBits
    /\ numHashes' = n
    /\ words' = [w \in 0..(numBlocks' - 1) |-> {}]
    /\ UNCHANGED <<members, last>>

addValue(k) ==
    /\ state = "ready"
    /\ k \in members \/ Cardinality(members) < MaxKeys
    /\ words' = [words EXCEPT ![wordNum(k)] = @ \cup AddWord(k)]
    /\ members' = members \cup {k}
    /\ UNCHANGED <<filterVars, last>>

TestValue(k) ==
    /\ state = "ready"
    /\ last' = <<k, testValue(k)>>
    /\ UNCHANGED <<filterVars, words, members>>

\* The destructor; the next filter is a new object.
Destroy ==
    /\ state = "ready"
    /\ state' = "none"
    /\ numBlocks' = 0
    /\ numHashes' = 0
    /\ words' = <<>>
    /\ members' = {}
    /\ last' = <<>>

\* The assertion has ended the program.
Aborted == state = "failed" /\ UNCHANGED vars

Next ==
    \/ \E bits \in Sizes, n \in 0..MaxHashes : Construct(bits, n)
    \/ \E k \in Keys : addValue(k) \/ TestValue(k)
    \/ Destroy \/ Aborted

Spec == Init /\ [][Next]_vars

-----------------------------------------------------------------------------
(* Properties.                                                             *)

\* The filter is an approximate set.
Approx == INSTANCE ApproxSet WITH
    members <- members,
    reported <- IF state = "ready" THEN {k \in Keys : testValue(k)} ELSE {}

\* No key that was added is missed (the asserts of benchFilter_latency and
\* benchFilter_throughput), although the two functions build their masks in
\* loops of different lengths, and whatever the shift does: adding a key only
\* makes more keys reported, its own among them, and a test answers from the
\* words as they are.
ImplementsApproxSet == Approx!ApproxSpec

\* "64 bit blocks" (register_blocked_bloom.hh:96): each of the positions that the
\* second half of a hash can pick in a block has a bit of its own, so that the
\* one-bits of a block are the positions of the keys added to it.
BitPerPosition ==
    \A w \in DOMAIN words :
        words[w] = UNION {{positionInBlock(k, j) : j \in 1..numHashes} :
                             k \in {m \in members : wordNum(m) = w}}
=============================================================================
