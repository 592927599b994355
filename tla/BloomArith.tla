---------------------------- MODULE BloomArith -----------------------------
(***************************************************************************)
(* The integer arithmetic the Bloom filters share: 64-bit hashes split in  *)
(* two, double hashing modulo 2^32, multiply-and-shift range reduction and *)
(* the conversion of the requested size.  The word sizes are constants, so *)
(* that TLC can use small ones.                                            *)
(***************************************************************************)
EXTENDS Integers

CONSTANTS U32,   \* 2^32: unsigned arithmetic wraps here
          I31    \* 2^31: the first value an int cannot hold

ASSUME WordAssumption == U32 \in Nat /\ I31 \in Nat /\ 0 < I31 /\ I31 < U32

\* (uint32_t)(hash_full) and (uint32_t)(hash_full >> 32).
hash1(hash_full) == hash_full % U32
hash2(hash_full) == (hash_full \div U32) % U32

\* hash1 + i * hash2, in uint32_t.
double_hash(hash_full, i) == (hash1(hash_full) + i * hash2(hash_full)) % U32

\* Mutant: the range is one too short.
mult_reduce_short(hash, n) == ((hash * ((n - 1) % U32)) \div U32) % U32

\* (uint32_t)(((uint64_t)hash * n) >> 32), n converted to uint32_t by the call.
mult_reduce(hash, n) == ((hash * (n % U32)) \div U32) % U32

\* (int)(numElementsExpected * bitsPerElement), given the whole part of the
\* product.  Out of the range of int, the x86 conversion yields INT_MIN, which
\* size_t holds as a number no allocation can satisfy: Unallocatable.
Unallocatable == -I31
generateNumBits(product) == IF product < I31 THEN product ELSE Unallocatable
=============================================================================
