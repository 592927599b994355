---------------------------- MODULE PowersOfTwo ----------------------------
(***************************************************************************)
(* The sizes of hash tables.                                               *)
(***************************************************************************)
EXTENDS Integers

\* is_power_of_two: what value & (value - 1) = 0 says is that no odd number
\* but 1 divides value.
IsPowerOfTwo(n) ==
    n \in Nat \ {0} /\ \A d \in 1..n : n % d = 0 => d = 1 \/ d % 2 = 0
=============================================================================
