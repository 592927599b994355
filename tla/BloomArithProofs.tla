-------------------------- MODULE BloomArithProofs --------------------------
(***************************************************************************)
(* Facts about the filters' arithmetic, for every word size.               *)
(***************************************************************************)
EXTENDS BloomArith, TLAPS

\* Division with remainder.
LEMMA DivMod ==
    ASSUME NEW m \in Nat \ {0}, NEW a \in Nat
    PROVE  /\ a \div m \in Nat
           /\ a % m \in 0..(m - 1)
           /\ a = m * (a \div m) + (a % m)
  OBVIOUS

\* Quotient and remainder are unique.
LEMMA DivModUnique ==
    ASSUME NEW m \in Nat \ {0}, NEW q \in Nat, NEW r \in 0..(m - 1)
    PROVE  (m * q + r) % m = r /\ (m * q + r) \div m = q
  OBVIOUS

\* Reducing a summand first does not change a sum modulo m.
LEMMA ModAdd ==
    ASSUME NEW m \in Nat \ {0}, NEW a \in Nat, NEW b \in Nat
    PROVE  ((a % m) + b) % m = (a + b) % m
<1> DEFINE r == a % m
           q == a \div m
           s == (r + b) % m
           p == (r + b) \div m
<1>1. q \in Nat /\ r \in 0..(m - 1) /\ a = m * q + r
  BY DivMod
<1>2. r + b \in Nat
  BY <1>1
<1>3. p \in Nat /\ s \in 0..(m - 1) /\ r + b = m * p + s
  BY <1>2, DivMod
<1> HIDE DEF r, q, s, p
<1>4. a + b = m * (q + p) + s
  BY <1>1, <1>3
<1>5. q + p \in Nat
  BY <1>1, <1>3
<1>6. (m * (q + p) + s) % m = s
  BY <1>3, <1>5, DivModUnique
<1>7. QED
  BY <1>4, <1>6 DEF s, r

\* Both halves of a hash, and every double hash, are 32-bit numbers.
LEMMA HashRange ==
    ASSUME NEW k \in Nat, NEW j \in Nat
    PROVE  /\ hash1(k) \in 0..(U32 - 1)
           /\ hash2(k) \in 0..(U32 - 1)
           /\ double_hash(k, j) \in 0..(U32 - 1)
<1>1. U32 \in Nat \ {0}
  BY WordAssumption
<1>2. hash1(k) \in 0..(U32 - 1)
  BY <1>1, DivMod DEF hash1
<1>3. hash2(k) \in 0..(U32 - 1)
  BY <1>1, DivMod DEF hash2
<1>4. hash1(k) + j * hash2(k) \in Nat
  BY <1>1, <1>2, <1>3
<1>5. double_hash(k, j) \in 0..(U32 - 1)
  BY <1>1, <1>4, DivMod DEF double_hash
<1>6. QED
  BY <1>2, <1>3, <1>5

\* The double hash of iteration zero is the first hash.
LEMMA DoubleHashZero ==
    ASSUME NEW k \in Nat
    PROVE  double_hash(k, 0) = hash1(k)
<1>1. U32 \in Nat \ {0} /\ hash1(k) \in 0..(U32 - 1) /\ hash2(k) \in 0..(U32 - 1)
  BY WordAssumption, HashRange
<1>2. hash1(k) + 0 * hash2(k) = hash1(k)
  BY <1>1
<1>3. QED
  BY <1>1, <1>2 DEF double_hash

\* Adding hash2 once more gives the double hash of the next iteration: the
\* running sum of testValue and the product of addValue agree, wraps included.
LEMMA DoubleHashStep ==
    ASSUME NEW k \in Nat, NEW j \in Nat
    PROVE  (double_hash(k, j) + hash2(k)) % U32 = double_hash(k, j + 1)
<1> DEFINE a == hash1(k) + j * hash2(k)
<1>1. U32 \in Nat \ {0} /\ hash1(k) \in Nat /\ hash2(k) \in Nat
  BY WordAssumption, HashRange
<1>2. a \in Nat
  BY <1>1
<1>3. ((a % U32) + hash2(k)) % U32 = (a + hash2(k)) % U32
  BY <1>1, <1>2, ModAdd
<1>4. a + hash2(k) = hash1(k) + (j + 1) * hash2(k)
  BY <1>1
<1>5. QED
  BY <1>3, <1>4 DEF double_hash

\* Range reduction stays in range, even for a size that does not fit 32 bits.
LEMMA MultReduceBound ==
    ASSUME NEW h \in 0..(U32 - 1), NEW n \in Nat \ {0}
    PROVE  mult_reduce(h, n) \in 0..(n - 1)
<1> DEFINE m == n % U32
           p == (h * m) \div U32
<1>1. U32 \in Nat \ {0}
  BY WordAssumption
<1>2. m \in 0..(U32 - 1) /\ m <= n
  <2>1. n \div U32 \in Nat /\ m \in 0..(U32 - 1) /\ n = U32 * (n \div U32) + m
    BY <1>1, DivMod
  <2>2. U32 * (n \div U32) \in Nat
    BY <1>1, <2>1
  <2>3. QED
    BY <2>1, <2>2
<1> HIDE DEF m
<1>3. h * m \in Nat
  BY <1>1, <1>2
<1>4. p \in Nat /\ h * m = U32 * p + ((h * m) % U32) /\ (h * m) % U32 \in 0..(U32 - 1)
  BY <1>1, <1>3, DivMod
<1> HIDE DEF p
<1>5. p <= n - 1
  <2>1. CASE m = 0
    <3>1. h * m = 0
      BY <2>1, <1>1
    <3>2. U32 * p = 0
      <4>1. U32 * p \in Nat
        BY <1>1, <1>4
      <4>2. U32 * p + ((h * m) % U32) = 0 /\ (h * m) % U32 \in Nat
        BY <3>1, <1>1, <1>4
      <4>3. QED
        BY <4>1, <4>2
    <3>3. p = 0
      BY <3>2, <1>1, <1>4
    <3>4. QED
      BY <3>3
  <2>2. CASE m # 0
    <3>1. U32 * p <= h * m
      BY <1>1, <1>3, <1>4
    <3>2. h * m < U32 * m
      BY <2>2, <1>1, <1>2
    <3>3. U32 * p < U32 * m
      BY <3>1, <3>2, <1>1, <1>2, <1>3, <1>4
    <3>4. p < m
      BY <3>3, <1>1, <1>2, <1>4
    <3>5. QED
      BY <3>4, <1>2, <1>4
  <2>3. QED
    BY <2>1, <2>2
<1>6. p % U32 \in 0..p
  <2>1. p \div U32 \in Nat /\ p % U32 \in 0..(U32 - 1) /\ p = U32 * (p \div U32) + (p % U32)
    BY <1>1, <1>4, DivMod
  <2>2. U32 * (p \div U32) \in Nat
    BY <1>1, <2>1
  <2>3. QED
    BY <2>1, <2>2
<1>7. QED
  BY <1>4, <1>5, <1>6 DEF mult_reduce, m, p

\* Range reduction is onto: every number below n is the reduction of some hash,
\* the least h with h * n >= p * U32.
LEMMA MultReduceOnto ==
    ASSUME NEW n \in 1..(U32 - 1), NEW p \in 0..(n - 1)
    PROVE  \E h \in 0..(U32 - 1) : mult_reduce(h, n) = p
<1> DEFINE a == U32 * p
           q == a \div n
           r == a % n
           h == IF r = 0 THEN q ELSE q + 1
           d == IF r = 0 THEN 0 ELSE n - r
<1>1. U32 \in Nat \ {0} /\ n \in Nat \ {0} /\ p \in Nat /\ n < U32 /\ p < n
  BY WordAssumption
<1>2. a \in Nat
  BY <1>1
<1>3. q \in Nat /\ r \in 0..(n - 1) /\ a = n * q + r
  <2> HIDE DEF a
  <2>1. QED
    BY <1>1, <1>2, DivMod
<1> HIDE DEF a, q, r
<1>4. h \in Nat /\ d \in 0..(n - 1) /\ h * n = a + d
  BY <1>1, <1>2, <1>3
<1> HIDE DEF h, d
<1>5. h * n = U32 * p + d /\ d \in 0..(U32 - 1)
  BY <1>1, <1>4 DEF a
<1>6. h < U32
  <2>1. U32 * p + U32 <= U32 * n
    BY <1>1
  <2>2. h * n < U32 * n
    BY <1>1, <1>2, <1>5, <2>1 DEF a
  <2>3. QED
    BY <1>1, <1>4, <2>2
<1>7. n % U32 = n /\ p % U32 = p
  BY <1>1
<1>8. (h * n) \div U32 = p
  BY <1>1, <1>5, DivModUnique
<1>9. mult_reduce(h, n) = p
  BY <1>7, <1>8 DEF mult_reduce
<1>10. QED
  BY <1>1, <1>4, <1>6, <1>9
=============================================================================
