------------------------------ MODULE LibBloom ------------------------------
(***************************************************************************)
(* libbloom (libbloom.cpp, libbloom.h): a struct bloom that is             *)
(* initialised, added to, checked, reset and freed through functions with  *)
(* return codes.  A key stands for its two MurmurHash2 values a and b.     *)
(***************************************************************************)
EXTENDS Integers, FiniteSets

CONSTANTS UInt,       \* 2^32: unsigned arithmetic wraps here
          HashPairs,  \* pairs <<a, b>>
          Shapes,     \* pairs <<bits, hashes>> that bloom_init may compute
          MaxAdded    \* bound on the keys added between two initialisations

ASSUME LibBloomAssumption ==
    /\ UInt \in Nat \ {0}
    /\ HashPairs \subseteq (0..(UInt - 1)) \X (0..(UInt - 1))
    /\ Shapes \subseteq (Nat \ {0}) \X (Nat \ {0})
    /\ MaxAdded \in Nat

VARIABLES ready,    \* bloom->ready
          bits, hashes,
          bf,       \* the one-bits of the bit field
          ret,      \* what the last call returned, and for which key
          added     \* history: keys added since bloom_init or bloom_reset

shapeVars == <<ready, bits, hashes>>
libVars == <<ready, bits, hashes, bf, ret, added>>

\* x = (a + i*b) % bits, in unsigned int.
X(k, j) == ((k[1] + j * k[2]) % UInt) % bits

Loop == 0..(hashes - 1)

\* Mutant: an add sets the bit before it tests it.
HitAfterSet(k, j, add) ==
    X(k, j) \in bf \/ (add = 1 /\ \E m \in 0..j : X(k, m) = X(k, j))

\* test_bit_set_bit finds the bit of iteration j set: it was before the call,
\* or an earlier iteration of an adding call has set it.
Hit(k, j, add) ==
    X(k, j) \in bf \/ (add = 1 /\ \E m \in 0..(j - 1) : X(k, m) = X(k, j))

\* bloom_check_add: a check returns 0 at its first miss, an add counts on.
CheckAdd(k, add) ==
    IF ready = 0 THEN -1
    ELSE IF Cardinality({j \in Loop : Hit(k, j, add)}) = hashes THEN 1 ELSE 0

LibInit ==
    /\ ready = 0
    /\ bits = 0
    /\ hashes = 0
    /\ bf = {}
    /\ ret = <<>>
    /\ added = {}

\* bloom_init with arguments it accepts and memory at hand.
bloom_init(shape) ==
    /\ ready' = 1
    /\ bits' = shape[1]
    /\ hashes' = shape[2]
    /\ bf' = {}
    /\ ret' = <<"init", 0>>
    /\ added' = {}

\* bloom_init refuses its arguments before it computes a shape.
bloom_init_refuses ==
    /\ ready' = 0
    /\ ret' = <<"init", 1>>
    /\ added' = {}
    /\ UNCHANGED <<bits, hashes, bf>>

\* calloc returns NULL: the new shape stays in a struct that is not ready.
bloom_init_no_memory(shape) ==
    /\ ready' = 0
    /\ bits' = shape[1]
    /\ hashes' = shape[2]
    /\ bf' = {}
    /\ ret' = <<"init", 1>>
    /\ added' = {}

bloom_check(k) ==
    /\ ret' = <<"check", CheckAdd(k, 0), k>>
    /\ UNCHANGED <<shapeVars, bf, added>>

\* Mutant: the last position is not set.
bloom_add_short(k) ==
    /\ k \in added \/ Cardinality(added) < MaxAdded
    /\ ret' = <<"add", CheckAdd(k, 1), k>>
    /\ bf' = IF ready = 0 THEN bf ELSE bf \cup {X(k, j) : j \in 0..(hashes - 2)}
    /\ added' = IF ready = 0 THEN added ELSE added \cup {k}
    /\ UNCHANGED shapeVars

bloom_add(k) ==
    /\ k \in added \/ Cardinality(added) < MaxAdded
    /\ ret' = <<"add", CheckAdd(k, 1), k>>
    /\ bf' = IF ready = 0 THEN bf ELSE bf \cup {X(k, j) : j \in Loop}
    /\ added' = IF ready = 0 THEN added ELSE added \cup {k}
    /\ UNCHANGED shapeVars

\* The memset of bloom_reset is commented out.
bloom_reset ==
    /\ ret' = <<"reset", IF ready = 0 THEN 1 ELSE 0>>
    /\ added' = IF ready = 0 THEN added ELSE {}
    /\ UNCHANGED <<shapeVars, bf>>

bloom_free ==
    /\ ready' = 0
    /\ ret' = <<"free">>
    /\ added' = {}
    /\ UNCHANGED <<bits, hashes, bf>>

LibNext ==
    \/ \E shape \in Shapes : bloom_init(shape) \/ bloom_init_no_memory(shape)
    \/ bloom_init_refuses
    \/ \E k \in HashPairs : bloom_check(k) \/ bloom_add(k)
    \/ bloom_reset \/ bloom_free

LibSpec == LibInit /\ [][LibNext]_libVars

-----------------------------------------------------------------------------
(* Properties.                                                             *)

\* bloom_check returns 1 for every key added since bloom_init or bloom_reset.
NoFalseNegatives == ready = 1 => \A k \in added : CheckAdd(k, 0) = 1

\* bloom_add returns what bloom_check would have just before it, even when some
\* of the key's own positions coincide and its later iterations meet bits that
\* its earlier ones have set ("no need to call check separately").
AddReportsPresence ==
    [][\A k \in HashPairs, r \in {-1, 0, 1} :
           ret' = <<"add", r, k>> => r = CheckAdd(k, 0)]_libVars
=============================================================================
