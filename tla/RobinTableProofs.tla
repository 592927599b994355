-------------------------- MODULE RobinTableProofs --------------------------
(***************************************************************************)
(* Proofs about RobinTable, for all keys, hash functions and sizes.        *)
(***************************************************************************)
EXTENDS RobinTable, FiniteSetTheorems, WellFoundedInduction, TLAPS

-----------------------------------------------------------------------------
(* Numbers.                                                                *)

\* A set of naturals has a least element.
LEMMA LeastExists ==
    ASSUME NEW S \in SUBSET Nat, S # {}
    PROVE  \E x \in S : \A y \in S : x <= y
<1>1. IsWellFoundedOn(OpToRel(<, Nat), Nat)
  BY NatLessThanWellFounded, Zenon
<1>2. PICK x \in S : \A y \in S : ~(<<y, x>> \in OpToRel(<, Nat))
  BY <1>1, WFMin, Zenon
<1>3. \A y \in S : ~(y < x)
  BY <1>2, Zenon DEF OpToRel
<1>4. \A y \in S : y \in Nat /\ x \in Nat
  OBVIOUS
<1>5. QED
  BY <1>3, <1>4

\* Min is it.
LEMMA MinLeast ==
    ASSUME NEW S \in SUBSET Nat, S # {}
    PROVE  Min(S) \in S /\ \A y \in S : Min(S) <= y
  BY LeastExists, Zenon DEF Min

\* Max of a number and 1.
LEMMA MaxOne ==
    ASSUME NEW n \in Nat
    PROVE  Max({n, 1}) = IF n = 0 THEN 1 ELSE n
<1>1. PICK m \in {n, 1} : m = IF n = 0 THEN 1 ELSE n
  OBVIOUS
<1>2. \A y \in {n, 1} : m >= y
  BY <1>1
<1>3. ASSUME NEW x \in {n, 1}, \A y \in {n, 1} : x >= y PROVE x = m
  BY <1>1, <1>3
<1>4. QED
  BY <1>1, <1>2, <1>3 DEF Max

\* A remainder is determined by the quotient.
LEMMA ModUnique ==
    ASSUME NEW n \in Nat \ {0}, NEW q \in Int, NEW r \in 0..(n - 1)
    PROVE  (n * q + r) % n = r
<1> DEFINE x == n * q + r
<1>1. x \in Int /\ x = n * (x \div n) + (x % n) /\ x % n \in 0..(n - 1) /\ x \div n \in Int
  OBVIOUS
<1>2. n * (q - (x \div n)) = (x % n) - r
  BY <1>1
<1>3. q - (x \div n) = 0
  <2> DEFINE d == q - (x \div n)
  <2>1. d \in Int /\ n * d < n /\ n * d > -n
    BY <1>1, <1>2
  <2> HIDE DEF d
  <2>2. ~(d >= 1) /\ ~(d <= -1)
    BY <2>1
  <2>3. QED
    BY <2>1, <2>2 DEF d
<1>4. QED
  BY <1>1, <1>2, <1>3

\* Remainders of numbers that are less than n away from 0..n-1.
LEMMA Wrap ==
    ASSUME NEW n \in Nat \ {0}, NEW x \in Int
    PROVE  /\ x % n \in 0..(n - 1)
           /\ 0 <= x /\ x < n => x % n = x
           /\ n <= x /\ x < 2 * n => x % n = x - n
           /\ -n <= x /\ x < 0 => x % n = x + n
<1>1. x % n \in 0..(n - 1)
  OBVIOUS
<1>2. ASSUME 0 <= x, x < n PROVE x % n = x
  BY <1>2, ModUnique, n * 0 + x = x
<1>3. ASSUME n <= x, x < 2 * n PROVE x % n = x - n
  <2>1. x - n \in 0..(n - 1) /\ n * 1 + (x - n) = x
    BY <1>3
  <2>2. QED
    BY <2>1, ModUnique
<1>4. ASSUME -n <= x, x < 0 PROVE x % n = x + n
  <2>1. x + n \in 0..(n - 1) /\ n * (-1) + (x + n) = x
    BY <1>4
  <2>2. QED
    BY <2>1, ModUnique
<1>5. QED
  BY <1>1, <1>2, <1>3, <1>4

\* A number that is its own remainder.
LEMMA Within ==
    ASSUME NEW n \in Nat \ {0}, NEW x \in 0..(n - 1)
    PROVE  x % n = x
  BY x \in Int, 0 <= x, x < n, Wrap

\* The bucket s before b in a ring of n.
LEMMA Back ==
    ASSUME NEW n \in Nat \ {0}, NEW b \in 0..(n - 1), NEW s \in 0..n
    PROVE  /\ (b - s) % n = IF b >= s THEN b - s ELSE b - s + n
           /\ (b - s) % n \in 0..(n - 1)
<1> DEFINE x == b - s
<1>1. x \in Int /\ -n <= x /\ x < n /\ (b >= s <=> x >= 0)
  OBVIOUS
<1> HIDE DEF x
<1>2. x % n = (IF x >= 0 THEN x ELSE x + n) /\ x % n \in 0..(n - 1)
  <2>1. x \in Int
    BY <1>1
  <2>2. /\ x % n \in 0..(n - 1)
        /\ 0 <= x /\ x < n => x % n = x
        /\ -n <= x /\ x < 0 => x % n = x + n
    BY <2>1, Wrap, Zenon
  <2>3. QED
    BY <1>1, <2>2
<1>3. QED
  BY <1>1, <1>2 DEF x

\* The bucket s after b in a ring of n.
LEMMA Ahead ==
    ASSUME NEW n \in Nat \ {0}, NEW b \in 0..(n - 1), NEW s \in 0..n
    PROVE  /\ (b + s) % n = IF b + s < n THEN b + s ELSE b + s - n
           /\ (b + s) % n \in 0..(n - 1)
<1> DEFINE x == b + s
<1>1. x \in Int /\ 0 <= x /\ x < 2 * n
  OBVIOUS
<1> HIDE DEF x
<1>2. x % n = (IF x < n THEN x ELSE x - n) /\ x % n \in 0..(n - 1)
  <2>1. x \in Int
    BY <1>1
  <2>2. /\ x % n \in 0..(n - 1)
        /\ 0 <= x /\ x < n => x % n = x
        /\ n <= x /\ x < 2 * n => x % n = x - n
    BY <2>1, Wrap, Zenon
  <2>3. QED
    BY <1>1, <2>2
<1>3. QED
  BY <1>1, <1>2 DEF x

\* What it means to divide a number.
LEMMA Divides ==
    ASSUME NEW n \in Nat \ {0}, NEW x \in Nat
    PROVE  x % n = 0 <=> \E q \in Nat : x = n * q
<1>1. ASSUME x % n = 0 PROVE \E q \in Nat : x = n * q
  <2>1. x = n * (x \div n) + (x % n) /\ x \div n \in Int
    OBVIOUS
  <2>2. x = n * (x \div n)
    BY <1>1, <2>1
  <2>3. ASSUME x \div n < 0 PROVE FALSE
    <3> DEFINE q == x \div n
    <3>1. q \in Int /\ q <= -1 /\ x = n * q
      BY <2>1, <2>2, <2>3
    <3> HIDE DEF q
    <3>2. n * q <= -1
      BY <3>1
    <3>3. QED
      BY <3>1, <3>2
  <2>4. QED
    BY <2>1, <2>2, <2>3
<1>2. ASSUME NEW q \in Nat, x = n * q PROVE x % n = 0
  <2>1. n * q + 0 = x /\ 0 \in 0..(n - 1) /\ q \in Int
    BY <1>2
  <2>2. QED
    BY <2>1, ModUnique, Zenon
<1>3. QED
  BY <1>1, <1>2, Zenon

\* Half of a power of two.
LEMMA HalfPower ==
    ASSUME NEW n, IsPowerOfTwo(n), n # 1
    PROVE  \E m \in Nat \ {0} : n = 2 * m /\ IsPowerOfTwo(m)
<1>1. n \in Nat \ {0} /\ n % n = 0 /\ n \in 1..n
  <2>1. n \in Nat \ {0}
    BY DEF IsPowerOfTwo
  <2>2. n * 1 + 0 = n /\ 1 \in Int /\ 0 \in 0..(n - 1)
    BY <2>1
  <2>3. QED
    BY <2>1, <2>2, ModUnique
<1>2. n % 2 = 0
  BY <1>1 DEF IsPowerOfTwo
<1>3. PICK m \in Nat : n = 2 * m
  BY <1>1, <1>2
<1>4. m \in Nat \ {0}
  BY <1>1, <1>3
<1>5. ASSUME NEW d \in 1..m, m % d = 0 PROVE d = 1 \/ d % 2 = 0
  <2>1. PICK q \in Nat : m = d * q
    BY <1>5, Divides
  <2>2. n = d * (2 * q) /\ 2 * q \in Nat
    BY <1>3, <2>1
  <2>3. n % d = 0
    BY <2>2, <1>1, Divides
  <2>4. d \in 1..n
    BY <1>3
  <2>5. QED
    BY <2>3, <2>4 DEF IsPowerOfTwo
<1>6. QED
  BY <1>3, <1>4, <1>5, Zenon DEF IsPowerOfTwo

\* Twice a power of two: an odd divisor of 2n divides n.
LEMMA DoublePower ==
    ASSUME NEW n, IsPowerOfTwo(n)
    PROVE  IsPowerOfTwo(2 * n)
<1>1. n \in Nat \ {0}
  BY DEF IsPowerOfTwo
<1>2. ASSUME NEW d \in 1..(2 * n), (2 * n) % d = 0, d % 2 # 0 PROVE d = 1
  <2>0. 2 * n \in Nat /\ d \in Nat \ {0}
    BY <1>1
  <2>1. PICK q \in Nat : 2 * n = d * q
    BY <1>2, <2>0, Divides, Zenon
  <2>2. PICK a \in Nat : d = 2 * a + 1
    BY <1>2
  <2>3. q = 2 * (n - a * q)
    BY <1>1, <2>1, <2>2
  <2>4. PICK p \in Nat : q = 2 * p
    <3> DEFINE p == n - a * q
    <3>1. p \in Int /\ q = 2 * p
      BY <1>1, <2>3
    <3> HIDE DEF p
    <3>2. p \in Nat
      BY <3>1
    <3>3. QED
      BY <3>1, <3>2
  <2>5. n = d * p
    BY <1>1, <2>1, <2>4
  <2>6. n % d = 0
    BY <1>1, <2>5, Divides
  <2>7. d <= n
    <3>1. p # 0
      BY <1>1, <2>5
    <3>2. QED
      BY <1>1, <2>5, <3>1
  <2>8. QED
    BY <1>1, <1>2, <2>6, <2>7 DEF IsPowerOfTwo
<1>3. QED
  BY <1>1, <1>2 DEF IsPowerOfTwo

\* Of two powers of two, the smaller divides the other.
LEMMA PowerDividesPower ==
    ASSUME NEW n, IsPowerOfTwo(n), NEW t, IsPowerOfTwo(t), n <= t
    PROVE  t % n = 0
<1> DEFINE Bad == {m \in Nat : /\ IsPowerOfTwo(m)
                               /\ \E u \in Nat : IsPowerOfTwo(u) /\ m <= u /\ u % m # 0}
<1>1. SUFFICES ASSUME Bad # {} PROVE FALSE
  BY Zenon DEF IsPowerOfTwo
<1>2. PICK m \in Bad : \A y \in Bad : m <= y
  BY <1>1, LeastExists, Zenon
<1>3. PICK u \in Nat : IsPowerOfTwo(u) /\ m <= u /\ u % m # 0
  BY <1>2
<1>4. m \in Nat \ {0} /\ u \in Nat \ {0} /\ IsPowerOfTwo(m)
  BY <1>2, <1>3 DEF IsPowerOfTwo
<1>5. m # 1 /\ u # 1
  BY <1>3, <1>4
<1>6. PICK m2 \in Nat \ {0} : m = 2 * m2 /\ IsPowerOfTwo(m2)
  BY <1>4, <1>5, HalfPower
<1>7. PICK u2 \in Nat \ {0} : u = 2 * u2 /\ IsPowerOfTwo(u2)
  BY <1>3, <1>5, HalfPower
<1>8. m2 \notin Bad
  BY <1>2, <1>4, <1>6
<1>9. m2 <= u2
  BY <1>3, <1>6, <1>7
<1>10. u2 % m2 = 0
  BY <1>6, <1>7, <1>8, <1>9
<1>11. PICK q \in Nat : u2 = m2 * q
  BY <1>6, <1>7, <1>10, Divides, Zenon
<1>12. u = m * q
  BY <1>4, <1>6, <1>7, <1>11
<1>13. QED
  BY <1>3, <1>4, <1>12, Divides

\* A remainder by a multiple of n leaves the remainder by n.
LEMMA ModMod ==
    ASSUME NEW n \in Nat \ {0}, NEW t \in Nat \ {0}, t % n = 0, NEW x \in Nat
    PROVE  (x % t) % n = x % n
<1>1. PICK q \in Nat : t = n * q
  BY Divides
<1>2. x = t * (x \div t) + (x % t) /\ x \div t \in Int /\ x % t \in 0..(t - 1)
  OBVIOUS
<1> DEFINE y == x % t
           z == x \div t
<1>3. y \in Nat /\ z \in Int /\ x = t * z + y
  BY <1>2
<1> HIDE DEF y, z
<1>4. y = n * (y \div n) + (y % n) /\ y \div n \in Int /\ y % n \in 0..(n - 1)
  BY <1>3
<1> DEFINE w == y \div n
           r == y % n
<1>5. w \in Int /\ r \in 0..(n - 1) /\ y = n * w + r
  BY <1>4
<1> HIDE DEF w, r
<1>6. x = n * (q * z + w) + r /\ q * z + w \in Int
  BY <1>1, <1>3, <1>5
<1>7. x % n = r
  BY <1>5, <1>6, ModUnique, Zenon
<1>8. QED
  BY <1>7 DEF y, r

-----------------------------------------------------------------------------
(* Arrays of buckets of robin_map.                                         *)

Element == [dist : Nat, hash : Nat, key : Keys]

Cell == Element \cup {Empty}

\* Arrays of n buckets.
Arrays(n) == [0..(n - 1) -> Cell]

\* RobinHoodOrder of any array of n buckets.
OrderOf(B, n, h) ==
    \A b \in 0..(n - 1) : B[b] # Empty =>
        /\ B[b].hash = truncate(h[B[b].key])
        /\ B[b].dist = (b - (h[B[b].key] % n)) % n
        /\ B[b].dist <= B[(b - 1) % n].dist + 1

\* No key is in two buckets.
UniqueIn(B) ==
    \A b, c \in DOMAIN B : B[b] # Empty /\ B[c] # Empty /\ B[b].key = B[c].key => b = c

\* What there can be in a bucket.
LEMMA CellFacts ==
    ASSUME NEW e \in Cell
    PROVE  /\ e.dist \in Int /\ e.dist >= -1
           /\ e = Empty <=> e.dist = -1
           /\ e = Empty <=> e.key = None
           /\ e # Empty => e \in Element /\ e.dist \in Nat /\ e.key \in Keys /\ e.hash \in Nat
<1>1. Empty.dist = -1 /\ Empty.key = None
  BY DEF Empty, Entry
<1>2. CASE e = Empty
  BY <1>1, <1>2
<1>3. CASE e \in Element
  <2>1. e.dist \in Nat /\ e.key \in Keys /\ e.hash \in Nat
    BY <1>3 DEF Element
  <2>2. e.key # None /\ e.dist # -1
    BY <2>1, RobinTableAssumption
  <2>3. QED
    BY <1>1, <1>3, <2>1, <2>2
<1>4. QED
  BY <1>2, <1>3 DEF Cell

\* A chain of elements leads from an element back towards its ideal bucket: the
\* bucket s before it holds an element at most s nearer.
LEMMA Chain ==
    ASSUME NEW n \in Nat \ {0}, NEW B \in Arrays(n), NEW h, OrderOf(B, n, h),
           NEW b \in 0..(n - 1), NEW s \in Nat, s <= n, s <= B[b].dist
    PROVE  B[(b - s) % n].dist >= B[b].dist - s
<1> DEFINE Bad == {t \in Nat : t <= s /\ ~(B[(b - t) % n].dist >= B[b].dist - t)}
<1>1. SUFFICES ASSUME Bad # {} PROVE FALSE
  OBVIOUS
<1>2. PICK t \in Bad : \A y \in Bad : t <= y
  BY <1>1, LeastExists, Zenon
<1>3. \A x \in Int : x % n \in 0..(n - 1) /\ B[x % n] \in Cell
  BY DEF Arrays
<1>4. B[b] \in Cell /\ B[b].dist \in Int
  BY CellFacts DEF Arrays
<1>5. t # 0
  <2>1. (b - 0) % n = b
    BY Wrap, b - 0 = b
  <2>2. QED
    BY <1>2, <1>4, <2>1
<1>6. t \in Nat /\ t - 1 \in Nat /\ t - 1 < t /\ t <= s
  BY <1>2, <1>5
<1>7. t - 1 \notin Bad
  BY <1>2, <1>6
<1> DEFINE c == (b - (t - 1)) % n
<1>8. B[c].dist >= B[b].dist - (t - 1)
  BY <1>6, <1>7
<1>9. c \in 0..(n - 1) /\ B[c] \in Cell /\ B[c].dist \in Int
  BY <1>3, <1>6, CellFacts
<1>10. (b - t) % n = (c - 1) % n
  <2>1. t - 1 \in 0..n /\ t \in 0..n /\ 1 \in 0..n
    BY <1>6
  <2>2. c = IF b >= t - 1 THEN b - (t - 1) ELSE b - (t - 1) + n
    BY <2>1, Back
  <2>4. (b - t) % n = IF b >= t THEN b - t ELSE b - t + n
    BY <2>1, Back
  <2>5. (c - 1) % n = IF c >= 1 THEN c - 1 ELSE c - 1 + n
    BY <2>1, <1>9, Back
  <2>6. QED
    BY <2>2, <2>4, <2>5, <1>6, <1>9
<1> HIDE DEF c
<1>11. B[c].dist >= 1
  BY <1>4, <1>6, <1>8, <1>9
<1>12. B[c] # Empty
  BY <1>9, <1>11, CellFacts
<1>13. B[c].dist <= B[(c - 1) % n].dist + 1
  BY <1>9, <1>12 DEF OrderOf
<1>14. B[(c - 1) % n].dist \in Int
  <2>1. c - 1 \in Int
    BY <1>9
  <2>2. B[(c - 1) % n] \in Cell
    BY <1>3, <2>1
  <2>3. QED
    BY <2>2, CellFacts
<1>15. B[(b - t) % n].dist >= B[b].dist - t
  BY <1>4, <1>6, <1>8, <1>9, <1>10, <1>13, <1>14
<1>16. QED
  BY <1>2, <1>15

\* With an empty bucket somewhere, no element is as far from its ideal bucket as
\* a table allows: the buckets on the way would all be full.
LEMMA NoWrap ==
    ASSUME NEW n \in Nat \ {0}, NEW B \in Arrays(n), NEW h, OrderOf(B, n, h),
           NEW z \in 0..(n - 1), B[z] = Empty, NEW b \in 0..(n - 1)
    PROVE  B[b].dist <= n - 2
<1>1. B[b] \in Cell /\ B[b].dist \in Int
  BY CellFacts DEF Arrays
<1>2. SUFFICES ASSUME B[b].dist >= n - 1 PROVE FALSE
  BY <1>1
<1> DEFINE s == (b - z) % n
<1>3. s \in Nat /\ s <= n - 1
  OBVIOUS
<1>4. s = IF b >= z THEN b - z ELSE b - z + n
  BY Back
<1>5. (b - s) % n = z
  <2>1. s \in 0..n
    BY <1>3
  <2> HIDE DEF s
  <2>2. (b - s) % n = IF b >= s THEN b - s ELSE b - s + n
    BY <2>1, Back
  <2>3. QED
    BY <1>3, <1>4, <2>2
<1> HIDE DEF s
<1>6. B[z].dist >= B[b].dist - s
  <2>1. s <= n /\ s <= B[b].dist
    BY <1>1, <1>2, <1>3
  <2>2. QED
    BY <2>1, <1>3, <1>5, Chain
<1>7. B[z].dist = -1
  BY CellFacts DEF Arrays
<1>8. QED
  BY <1>1, <1>2, <1>3, <1>6, <1>7

\* An element goes where the one before it is at most one nearer to its ideal
\* bucket, and takes the place of one that is nearer: the order stays.
LEMMA PutOrder ==
    ASSUME NEW n \in Nat \ {0}, NEW B \in Arrays(n), NEW h, OrderOf(B, n, h),
           NEW b \in 0..(n - 1), NEW e \in Element,
           e.hash = truncate(h[e.key]), e.dist = (b - (h[e.key] % n)) % n,
           e.dist <= B[(b - 1) % n].dist + 1, e.dist > B[b].dist
    PROVE  /\ [B EXCEPT ![b] = e] \in Arrays(n)
           /\ OrderOf([B EXCEPT ![b] = e], n, h)
<1> DEFINE C == [B EXCEPT ![b] = e]
<1>1. C \in Arrays(n) /\ C[b] = e /\ \A c \in 0..(n - 1) : c # b => C[c] = B[c]
  BY DEF Arrays, Cell
<1> HIDE DEF C
<1>2. e.dist \in Nat /\ e \in Cell /\ e # Empty
  BY CellFacts DEF Element, Cell, Empty, Entry
<1>3. \A c \in 0..(n - 1) : B[c] \in Cell /\ B[c].dist \in Int
  BY CellFacts DEF Arrays
<1>4. ASSUME NEW c \in 0..(n - 1), C[c] # Empty
      PROVE  /\ C[c].hash = truncate(h[C[c].key])
             /\ C[c].dist = (c - (h[C[c].key] % n)) % n
             /\ C[c].dist <= C[(c - 1) % n].dist + 1
  <2>1. (c - 1) % n \in 0..(n - 1)
    BY Back, 1 \in 0..n
  <2>2. CASE c = b
    <3>1. CASE (b - 1) % n = b
      BY <1>1, <1>2, <2>2, <3>1
    <3>2. CASE (b - 1) % n # b
      BY <1>1, <1>2, <2>1, <2>2, <3>2
    <3>3. QED
      BY <3>1, <3>2
  <2>3. CASE c # b
    <3>1. C[c] = B[c] /\ B[c] # Empty
      BY <1>1, <1>4, <2>3
    <3>2. /\ B[c].hash = truncate(h[B[c].key])
          /\ B[c].dist = (c - (h[B[c].key] % n)) % n
          /\ B[c].dist <= B[(c - 1) % n].dist + 1
      BY <3>1 DEF OrderOf
    <3>3. C[(c - 1) % n].dist >= B[(c - 1) % n].dist
      BY <1>1, <1>2, <1>3, <2>1
    <3>4. C[(c - 1) % n].dist \in Int /\ B[(c - 1) % n].dist \in Int /\ B[c].dist \in Int
      BY <1>1, <1>2, <1>3, <2>1
    <3>5. QED
      BY <3>1, <3>2, <3>3, <3>4
  <2>4. QED
    BY <2>2, <2>3
<1>5. OrderOf(C, n, h)
  BY <1>4 DEF OrderOf
<1>6. QED
  BY <1>1, <1>5 DEF C

\* The keys of an array after an element was put into a bucket.
LEMMA PutStored ==
    ASSUME NEW n \in Nat \ {0}, NEW B \in Arrays(n), UniqueIn(B),
           NEW b \in 0..(n - 1), NEW e \in Element, e.key \notin Stored(B)
    PROVE  /\ UniqueIn([B EXCEPT ![b] = e])
           /\ B[b] = Empty => Stored([B EXCEPT ![b] = e]) = Stored(B) \cup {e.key}
           /\ B[b] # Empty =>
                /\ Stored([B EXCEPT ![b] = e]) = (Stored(B) \ {B[b].key}) \cup {e.key}
                /\ B[b].key \in Stored(B)
<1> DEFINE C == [B EXCEPT ![b] = e]
<1>1. /\ DOMAIN C = 0..(n - 1) /\ DOMAIN B = 0..(n - 1)
      /\ C[b] = e /\ \A c \in 0..(n - 1) : c # b => C[c] = B[c]
  BY DEF Arrays
<1>2. e # Empty
  BY CellFacts DEF Element, Cell, Empty, Entry
<1> HIDE DEF C
<1>3. \A k : k \in Stored(B) <=> \E c \in 0..(n - 1) : B[c] # Empty /\ B[c].key = k
  BY <1>1 DEF Stored
<1>4. \A k : k \in Stored(C) <=> \E c \in 0..(n - 1) : C[c] # Empty /\ C[c].key = k
  BY <1>1 DEF Stored
<1>5. UniqueIn(C)
  <2>1. SUFFICES ASSUME NEW c \in 0..(n - 1), NEW d \in 0..(n - 1), C[c] # Empty,
                        C[d] # Empty, C[c].key = C[d].key, c # d
                 PROVE  FALSE
    BY <1>1 DEF UniqueIn
  <2>2. CASE c = b
    BY <1>1, <1>3, <2>1, <2>2
  <2>3. CASE d = b
    BY <1>1, <1>3, <2>1, <2>3
  <2>4. CASE c # b /\ d # b
    BY <1>1, <2>1, <2>4 DEF UniqueIn
  <2>5. QED
    BY <2>2, <2>3, <2>4
<1>6. ASSUME B[b] = Empty PROVE Stored(C) = Stored(B) \cup {e.key}
  BY <1>1, <1>2, <1>3, <1>4, <1>6
<1>7. ASSUME B[b] # Empty
      PROVE  /\ Stored(C) = (Stored(B) \ {B[b].key}) \cup {e.key}
             /\ B[b].key \in Stored(B)
  <2>1. B[b].key \in Stored(B)
    BY <1>3, <1>7
  <2>2. \A c \in 0..(n - 1) : c # b /\ B[c] # Empty => B[c].key # B[b].key
    BY <1>1, <1>7 DEF UniqueIn
  <2>3. ASSUME NEW k
        PROVE  k \in Stored(C) <=> k \in (Stored(B) \ {B[b].key}) \cup {e.key}
    <3>1. ASSUME k \in Stored(C) PROVE k \in (Stored(B) \ {B[b].key}) \cup {e.key}
      <4>1. PICK c \in 0..(n - 1) : C[c] # Empty /\ C[c].key = k
        BY <1>4, <3>1
      <4>2. CASE c = b
        BY <1>1, <4>1, <4>2
      <4>3. CASE c # b
        BY <1>1, <1>3, <2>2, <4>1, <4>3
      <4>4. QED
        BY <4>2, <4>3
    <3>2. ASSUME k \in Stored(B), k # B[b].key PROVE k \in Stored(C)
      <4>1. PICK c \in 0..(n - 1) : B[c] # Empty /\ B[c].key = k
        BY <1>3, <3>2
      <4>2. c # b
        BY <3>2, <4>1
      <4>3. QED
        BY <1>1, <1>4, <4>1, <4>2
    <3>3. e.key \in Stored(C)
      BY <1>1, <1>2, <1>4
    <3>4. QED
      BY <3>1, <3>2, <3>3
  <2>4. QED
    BY <2>1, <2>3
<1>8. QED
  BY <1>5, <1>6, <1>7, Zenon DEF C

\* In particular, into an empty bucket.
LEMMA PutEmpty ==
    ASSUME NEW n \in Nat \ {0}, NEW B \in Arrays(n), UniqueIn(B),
           NEW b \in 0..(n - 1), NEW e \in Element, e.key \notin Stored(B), B[b] = Empty
    PROVE  Stored([B EXCEPT ![b] = e]) = Stored(B) \cup {e.key}
  BY PutStored

\* The bucket after the one before b is b, and so is the one before the one after.
LEMMA Neighbours ==
    ASSUME NEW n \in Nat \ {0}, NEW b \in 0..(n - 1)
    PROVE  (((b + 1) % n) - 1) % n = b /\ (((b - 1) % n) + 1) % n = b
<1>0. 1 \in 0..n
  OBVIOUS
<1> DEFINE u == (b + 1) % n
           v == (b - 1) % n
<1>2. u = (IF b + 1 < n THEN b + 1 ELSE b + 1 - n) /\ u \in 0..(n - 1)
  BY <1>0, Ahead, Zenon
<1>3. v = (IF b >= 1 THEN b - 1 ELSE b - 1 + n) /\ v \in 0..(n - 1)
  BY <1>0, Back
<1> HIDE DEF u, v
<1>7. (u - 1) % n = b
  <2>1. (u - 1) % n = IF u >= 1 THEN u - 1 ELSE u - 1 + n
    BY <1>0, <1>2, Back
  <2>2. QED
    BY <1>2, <2>1
<1>8. (v + 1) % n = b
  <2>1. (v + 1) % n = IF v + 1 < n THEN v + 1 ELSE v + 1 - n
    BY <1>0, <1>3, Ahead, Zenon
  <2>2. QED
    BY <1>3, <2>1
<1>9. QED
  BY <1>7, <1>8 DEF u, v

\* Offsets from p in a ring of n: those of a bucket and of its neighbours.
LEMMA Offsets ==
    ASSUME NEW n \in Nat \ {0}, NEW p \in 0..(n - 1), NEW b \in 0..(n - 1)
    PROVE  /\ (b - p) % n \in 0..(n - 1)
           /\ (p + ((b - p) % n)) % n = b
           /\ (b + 1) % n \in 0..(n - 1) /\ (b - 1) % n \in 0..(n - 1)
           /\ (((b + 1) % n) - p) % n = IF (b - p) % n = n - 1 THEN 0 ELSE ((b - p) % n) + 1
           /\ (((b - 1) % n) - p) % n = IF (b - p) % n = 0 THEN n - 1 ELSE ((b - p) % n) - 1
<1>0. 1 \in 0..n /\ p \in 0..n
  OBVIOUS
<1> DEFINE d == (b - p) % n
           u == (b + 1) % n
           v == (b - 1) % n
<1>1. d = (IF b >= p THEN b - p ELSE b - p + n) /\ d \in 0..(n - 1)
  BY <1>0, Back
<1>2. u = (IF b + 1 < n THEN b + 1 ELSE b + 1 - n) /\ u \in 0..(n - 1)
  BY <1>0, Ahead, Zenon
<1>3. v = (IF b >= 1 THEN b - 1 ELSE b - 1 + n) /\ v \in 0..(n - 1)
  BY <1>0, Back
<1> HIDE DEF d, u, v
<1>4. (p + d) % n = b
  <2>1. (p + d) % n = IF p + d < n THEN p + d ELSE p + d - n
    BY <1>1, d \in 0..n, Ahead, Zenon
  <2>2. QED
    BY <1>1, <2>1
<1>5. (u - p) % n = IF d = n - 1 THEN 0 ELSE d + 1
  <2>1. (u - p) % n = IF u >= p THEN u - p ELSE u - p + n
    BY <1>0, <1>2, Back
  <2>2. QED
    BY <1>1, <1>2, <2>1
<1>6. (v - p) % n = IF d = 0 THEN n - 1 ELSE d - 1
  <2>1. (v - p) % n = IF v >= p THEN v - p ELSE v - p + n
    BY <1>0, <1>3, Back
  <2>2. QED
    BY <1>1, <1>3, <2>1
<1>9. QED
  BY <1>1, <1>2, <1>3, <1>4, <1>5, <1>6 DEF d, u, v

\* A bucket is found again from its offset.
LEMMA OffsetBack ==
    ASSUME NEW n \in Nat \ {0}, NEW p \in 0..(n - 1), NEW b \in 0..(n - 1)
    PROVE  (b - p) % n \in 0..(n - 1) /\ (p + ((b - p) % n)) % n = b
  BY Offsets, Zenon

\* Offsets determine buckets.
LEMMA SameOffset ==
    ASSUME NEW n \in Nat \ {0}, NEW p \in 0..(n - 1), NEW b \in 0..(n - 1), NEW c \in 0..(n - 1),
           (b - p) % n = (c - p) % n
    PROVE  b = c
<1>1. (p + ((b - p) % n)) % n = b
  BY Offsets, Zenon
<1>2. (p + ((c - p) % n)) % n = c
  BY Offsets, ZenonT(30)
<1>3. QED
  BY <1>1, <1>2

\* What erase_from_bucket leaves: from p on, run - 1 elements move back by one.
Shifted(B, n, p, run) ==
    [b \in 0..(n - 1) |->
        CASE (b - p) % n < run - 1 -> [B[(b + 1) % n] EXCEPT !.dist = @ - 1]
          [] (b - p) % n = run - 1 -> Empty
          [] OTHER -> B[b]]

\* The first element after p that stays, or an empty bucket, is run away.
RunEnds(B, n, p, run) ==
    /\ B[(p + run) % n].dist <= 0
    /\ \A d \in 1..(run - 1) : B[(p + d) % n].dist > 0

\* Moving elements back keeps the order, and takes away the key at p only.
LEMMA ShiftOrder ==
    ASSUME NEW n \in Nat \ {0}, NEW B \in Arrays(n), NEW h \in [Keys -> Nat],
           OrderOf(B, n, h), UniqueIn(B),
           NEW p \in 0..(n - 1), B[p] # Empty, NEW run \in 1..(n - 1),
           RunEnds(B, n, p, run)
    PROVE  /\ Shifted(B, n, p, run) \in Arrays(n)
           /\ OrderOf(Shifted(B, n, p, run), n, h)
           /\ UniqueIn(Shifted(B, n, p, run))
           /\ Stored(Shifted(B, n, p, run)) = Stored(B) \ {B[p].key}
<1> DEFINE C == Shifted(B, n, p, run)
           off(b) == (b - p) % n
           up(b) == (b + 1) % n
           dn(b) == (b - 1) % n
<1>1. \A b \in 0..(n - 1) :
          /\ off(b) \in 0..(n - 1) /\ (p + off(b)) % n = b
          /\ up(b) \in 0..(n - 1) /\ dn(b) \in 0..(n - 1)
          /\ off(up(b)) = IF off(b) = n - 1 THEN 0 ELSE off(b) + 1
          /\ off(dn(b)) = IF off(b) = 0 THEN n - 1 ELSE off(b) - 1
          /\ dn(up(b)) = b
          /\ up(dn(b)) = b
  <2> TAKE b \in 0..(n - 1)
  <2>1. off(b) \in 0..(n - 1) /\ (p + off(b)) % n = b
    BY Offsets, ZenonT(30)
  <2>2. up(b) \in 0..(n - 1) /\ dn(b) \in 0..(n - 1)
    BY Offsets
  <2>3. off(up(b)) = IF off(b) = n - 1 THEN 0 ELSE off(b) + 1
    BY Offsets, Zenon
  <2>4. off(dn(b)) = IF off(b) = 0 THEN n - 1 ELSE off(b) - 1
    BY Offsets, Zenon
  <2>5. dn(up(b)) = b /\ up(dn(b)) = b
    BY Neighbours, Zenon
  <2> HIDE DEF off, up, dn
  <2>6. QED
    BY <2>1, <2>2, <2>3, <2>4, <2>5
<1>2. \A b, c \in 0..(n - 1) : off(b) = off(c) => b = c
  BY SameOffset
<1>3. DOMAIN C = 0..(n - 1) /\ DOMAIN B = 0..(n - 1)
  BY DEF Shifted, Arrays
<1>4. \A b \in 0..(n - 1) :
          /\ off(b) < run - 1 => C[b] = [B[up(b)] EXCEPT !.dist = @ - 1]
          /\ off(b) = run - 1 => C[b] = Empty
          /\ off(b) \in run..(n - 1) => C[b] = B[b]
  <2>1. SUFFICES ASSUME NEW b \in 0..(n - 1)
                 PROVE  /\ off(b) < run - 1 => C[b] = [B[up(b)] EXCEPT !.dist = @ - 1]
                        /\ off(b) = run - 1 => C[b] = Empty
                        /\ off(b) \in run..(n - 1) => C[b] = B[b]
    OBVIOUS
  <2>2. C[b] = CASE off(b) < run - 1 -> [B[up(b)] EXCEPT !.dist = @ - 1]
                 [] off(b) = run - 1 -> Empty
                 [] OTHER -> B[b]
    BY DEF Shifted
  <2>3. off(b) \in Int
    BY <1>1
  <2> HIDE DEF C, off, up
  <2>4. off(b) \in run..(n - 1) => ~(off(b) < run - 1) /\ off(b) # run - 1
    BY <2>3
  <2>5. QED
    BY <2>2, <2>3, <2>4
<1>5. \A b \in 0..(n - 1) : off(b) = 0 <=> b = p
  <2>1. off(p) = 0
    BY Back, p \in 0..n
  <2>2. QED
    BY <1>2, <2>1
<1> HIDE DEF C, off, up, dn
<1>6. \A b \in 0..(n - 1) : B[b] \in Cell /\ B[b].dist \in Int
  BY CellFacts DEF Arrays
<1>7. \A b \in 0..(n - 1) : off(b) \in 1..(run - 1) => B[b].dist > 0
  BY <1>1 DEF RunEnds
<1>8. \A b \in 0..(n - 1) : off(b) = run => B[b].dist <= 0
  BY <1>1 DEF RunEnds
\* The elements that move.
<1>9. \A b \in 0..(n - 1) : off(b) < run - 1 =>
          /\ B[up(b)] \in Element /\ B[up(b)].dist >= 1
          /\ C[b] \in Element
          /\ C[b].dist = B[up(b)].dist - 1
          /\ C[b].key = B[up(b)].key /\ C[b].hash = B[up(b)].hash
  <2>1. SUFFICES ASSUME NEW b \in 0..(n - 1), off(b) < run - 1
                 PROVE  /\ B[up(b)] \in Element /\ B[up(b)].dist >= 1
                        /\ C[b] \in Element
                        /\ C[b].dist = B[up(b)].dist - 1
                        /\ C[b].key = B[up(b)].key /\ C[b].hash = B[up(b)].hash
    OBVIOUS
  <2>2. up(b) \in 0..(n - 1) /\ off(up(b)) = off(b) + 1 /\ off(b) \in 0..(n - 1)
    BY <1>1, <2>1
  <2>3. off(up(b)) \in 1..(run - 1)
    BY <2>1, <2>2
  <2>4. B[up(b)] \in Cell /\ B[up(b)].dist \in Int /\ B[up(b)].dist > 0
    BY <1>6, <1>7, <2>2, <2>3
  <2>5. B[up(b)] \in Element
    BY <2>4, CellFacts
  <2>6. C[b] = [B[up(b)] EXCEPT !.dist = @ - 1]
    BY <1>4, <2>1
  <2>7. QED
    BY <2>4, <2>5, <2>6 DEF Element
<1>10. C \in Arrays(n)
  <2>1. ASSUME NEW b \in 0..(n - 1) PROVE C[b] \in Cell
    <3>1. off(b) \in 0..(n - 1)
      BY <1>1
    <3>2. CASE off(b) < run - 1
      BY <1>9, <3>2 DEF Cell
    <3>3. CASE off(b) = run - 1
      BY <1>4, <3>3, Zenon DEF Cell
    <3>4. CASE off(b) \in run..(n - 1)
      <4>1. C[b] = B[b]
        BY <1>4, <3>4, Zenon
      <4>2. QED
        BY <1>6, <4>1
    <3>5. QED
      BY <3>1, <3>2, <3>3, <3>4
  <2>2. C = [b \in 0..(n - 1) |-> C[b]]
    BY DEF C, Shifted
  <2>3. QED
    BY <2>1, <2>2 DEF Arrays
\* Every element comes from one bucket, and not from p.
<1> DEFINE src(b) == IF off(b) < run - 1 THEN up(b) ELSE b
<1>11. \A b \in 0..(n - 1) : C[b] # Empty =>
          /\ src(b) \in 0..(n - 1) /\ src(b) # p /\ B[src(b)] # Empty
          /\ C[b].key = B[src(b)].key
          /\ off(src(b)) = IF off(b) < run - 1 THEN off(b) + 1 ELSE off(b)
          /\ off(b) >= run - 1 => off(b) >= run
  <2>1. SUFFICES ASSUME NEW b \in 0..(n - 1), C[b] # Empty
                 PROVE  /\ src(b) \in 0..(n - 1) /\ src(b) # p /\ B[src(b)] # Empty
                        /\ C[b].key = B[src(b)].key
                        /\ off(src(b)) = IF off(b) < run - 1 THEN off(b) + 1 ELSE off(b)
                        /\ off(b) >= run - 1 => off(b) >= run
    OBVIOUS
  <2>2. off(b) \in 0..(n - 1) /\ off(b) # run - 1
    BY <1>1, <1>4, <2>1, Zenon
  <2>3. CASE off(b) < run - 1
    <3>1. up(b) \in 0..(n - 1) /\ off(up(b)) = off(b) + 1
      BY <1>1, <2>2, <2>3
    <3>2. up(b) # p
      BY <1>5, <2>2, <3>1
    <3>3. B[up(b)] # Empty
      BY <1>9, <2>3, CellFacts DEF Element, Empty, Entry
    <3>4. C[b].key = B[up(b)].key
      BY <1>9, <2>3
    <3>5. QED
      BY <2>2, <2>3, <3>1, <3>2, <3>3, <3>4
  <2>4. CASE off(b) \in run..(n - 1)
    <3>0. C[b] = B[b]
      BY <1>4, <2>4, Zenon
    <3>1. C[b] = B[b] /\ off(b) # 0
      BY <2>4, <3>0
    <3>2. b # p
      BY <1>5, <3>1
    <3>3. QED
      BY <2>1, <2>2, <2>4, <3>1, <3>2
  <2>5. QED
    BY <2>2, <2>3, <2>4
<1>12. UniqueIn(C)
  <2>1. SUFFICES ASSUME NEW b \in 0..(n - 1), NEW c \in 0..(n - 1), C[b] # Empty,
                        C[c] # Empty, C[b].key = C[c].key
                 PROVE  b = c
    BY <1>3 DEF UniqueIn
  <2>2. src(b) = src(c)
    BY <1>3, <1>11, <2>1 DEF UniqueIn
  <2>3. off(src(b)) = off(src(c)) /\ off(b) \in 0..(n - 1) /\ off(c) \in 0..(n - 1)
    BY <1>1, <2>2
  <2>4. /\ off(src(b)) = IF off(b) < run - 1 THEN off(b) + 1 ELSE off(b)
        /\ off(src(c)) = IF off(c) < run - 1 THEN off(c) + 1 ELSE off(c)
        /\ off(b) >= run - 1 => off(b) >= run
        /\ off(c) >= run - 1 => off(c) >= run
    BY <1>11, <2>1
  <2> HIDE DEF src
  <2>5. off(b) = off(c)
    <3>1. CASE off(b) < run - 1 /\ off(c) < run - 1
      <4>1. off(b) + 1 = off(c) + 1
        BY <2>3, <2>4, <3>1, Zenon
      <4>2. QED
        BY <2>3, <4>1
    <3>2. CASE ~(off(b) < run - 1) /\ ~(off(c) < run - 1)
      <4>1. off(b) = off(src(b)) /\ off(c) = off(src(c))
        BY <2>4, <3>2
      <4>2. QED
        BY <2>3, <4>1
    <3>3. CASE off(b) < run - 1 /\ ~(off(c) < run - 1)
      <4>1. off(src(b)) = off(b) + 1 /\ off(src(c)) = off(c)
        BY <2>4, <3>3
      <4>0. off(c) >= run - 1
        BY <2>3, <3>3
      <4>2. off(c) >= run
        BY <2>4, <4>0
      <4>3. off(b) + 1 = off(c)
        BY <2>3, <4>1, Zenon
      <4>4. off(b) \in Int /\ off(c) \in Int
        BY <2>3
      <4>5. QED
        BY <3>3, <4>2, <4>3, <4>4
    <3>4. CASE ~(off(b) < run - 1) /\ off(c) < run - 1
      <4>1. off(src(c)) = off(c) + 1 /\ off(src(b)) = off(b)
        BY <2>4, <3>4
      <4>0. off(b) >= run - 1
        BY <2>3, <3>4
      <4>2. off(b) >= run
        BY <2>4, <4>0
      <4>3. off(c) + 1 = off(b)
        BY <2>3, <4>1
      <4>4. off(c) \in Int /\ off(b) \in Int
        BY <2>3
      <4>5. QED
        BY <3>4, <4>2, <4>3, <4>4
    <3>5. QED
      BY <3>1, <3>2, <3>3, <3>4
  <2>6. QED
    BY <1>2, <2>5
<1>13. Stored(C) = Stored(B) \ {B[p].key}
  <2>1. \A k : k \in Stored(B) <=> \E c \in 0..(n - 1) : B[c] # Empty /\ B[c].key = k
    BY <1>3 DEF Stored
  <2>2. \A k : k \in Stored(C) <=> \E c \in 0..(n - 1) : C[c] # Empty /\ C[c].key = k
    BY <1>3 DEF Stored
  <2>3. \A c \in 0..(n - 1) : B[c] # Empty /\ c # p => B[c].key # B[p].key
    BY <1>3 DEF UniqueIn
  <2>4. ASSUME NEW k \in Stored(C) PROVE k \in Stored(B) /\ k # B[p].key
    <3>1. PICK b \in 0..(n - 1) : C[b] # Empty /\ C[b].key = k
      BY <2>2
    <3>2. src(b) \in 0..(n - 1) /\ src(b) # p /\ B[src(b)] # Empty /\ k = B[src(b)].key
      BY <1>11, <3>1
    <3> HIDE DEF src
    <3>3. QED
      BY <2>1, <2>3, <3>2
  <2>5. ASSUME NEW k \in Stored(B), k # B[p].key PROVE k \in Stored(C)
    <3>1. PICK c \in 0..(n - 1) : B[c] # Empty /\ B[c].key = k
      BY <2>1
    <3>2. off(c) \in 0..(n - 1) /\ off(c) # 0
      BY <1>1, <1>5, <2>5, <3>1, Zenon
    <3>3. CASE off(c) >= run
      <4>1. off(c) \in run..(n - 1)
        BY <3>2, <3>3
      <4>2. C[c] = B[c]
        BY <1>4, <4>1, Zenon
      <4>3. QED
        BY <2>2, <3>1, <4>2
    <3>4. CASE off(c) < run
      <4>1. dn(c) \in 0..(n - 1) /\ off(dn(c)) = off(c) - 1 /\ up(dn(c)) = c
        BY <1>1, <3>2
      <4>2. off(dn(c)) < run - 1
        BY <3>2, <3>4, <4>1
      <4>3. C[dn(c)] \in Element /\ C[dn(c)].key = k
        BY <1>9, <3>1, <4>1, <4>2
      <4>4. C[dn(c)] # Empty
        BY <4>3, CellFacts DEF Element, Empty, Entry
      <4>5. QED
        BY <2>2, <4>1, <4>3, <4>4
    <3>5. QED
      BY <3>2, <3>3, <3>4
  <2>6. QED
    BY <2>4, <2>5
\* The order.
<1>14. ASSUME NEW b \in 0..(n - 1), C[b] # Empty
       PROVE  /\ C[b].hash = truncate(h[C[b].key])
              /\ C[b].dist = (b - (h[C[b].key] % n)) % n
              /\ C[b].dist <= C[(b - 1) % n].dist + 1
  <2>0. /\ off(b) \in 0..(n - 1) /\ off(b) # run - 1
        /\ up(b) \in 0..(n - 1) /\ dn(b) \in 0..(n - 1) /\ dn(up(b)) = b
        /\ off(dn(b)) = IF off(b) = 0 THEN n - 1 ELSE off(b) - 1
    BY <1>1, <1>4, <1>14, Zenon
  <2>1. \A c \in 0..(n - 1) : B[c] # Empty =>
            /\ B[c].hash = truncate(h[B[c].key])
            /\ B[c].dist = (c - (h[B[c].key] % n)) % n
            /\ B[c].dist <= B[dn(c)].dist + 1
    BY DEF OrderOf, dn
  <2>2. CASE off(b) < run - 1
    <3>1. /\ B[up(b)] \in Element /\ B[up(b)].dist >= 1 /\ B[up(b)].dist \in Nat
          /\ C[b].dist = B[up(b)].dist - 1
          /\ C[b].key = B[up(b)].key /\ C[b].hash = B[up(b)].hash
      BY <1>9, <2>2 DEF Element
    <3>2. B[up(b)] # Empty
      BY <3>1, CellFacts DEF Element, Empty, Entry
    <3>3. /\ B[up(b)].hash = truncate(h[B[up(b)].key])
          /\ B[up(b)].dist = (up(b) - (h[B[up(b)].key] % n)) % n
          /\ B[up(b)].dist <= B[b].dist + 1
      BY <2>0, <2>1, <3>2
    <3>4. C[b].dist = (b - (h[C[b].key] % n)) % n
      <4> DEFINE q == h[C[b].key] % n
      <4>1. h[C[b].key] \in Nat
        BY <3>1 DEF Element
      <4>2. q \in 0..(n - 1)
        BY <4>1
      <4> HIDE DEF q
      <4>3. (up(b) - q) % n = IF (b - q) % n = n - 1 THEN 0 ELSE ((b - q) % n) + 1
        BY <4>2, Offsets, Zenon DEF up
      <4>4. (b - q) % n \in 0..(n - 1)
        BY <4>2, Offsets
      <4>5. QED
        BY <3>1, <3>3, <4>3, <4>4, SMTT(30) DEF q
    <3>5. C[b].dist <= C[dn(b)].dist + 1
      <4>1. CASE off(b) = 0
        <5>1. b = p /\ off(dn(b)) = n - 1
          BY <1>5, <2>0, <4>1
        <5>2. C[dn(b)] = B[dn(b)]
          <6>1. off(dn(b)) \in run..(n - 1)
            BY <5>1
          <6>2. QED
            BY <1>4, <2>0, <6>1, Zenon
        <5>3. B[b].dist <= B[dn(b)].dist + 1
          BY <2>1, <5>1
        <5>4. B[b].dist \in Int /\ B[dn(b)].dist \in Int
          BY <1>6, <2>0
        <5>5. QED
          BY <3>1, <3>3, <5>2, <5>3, <5>4
      <4>2. CASE off(b) # 0
        <5>1. off(dn(b)) < run - 1 /\ up(dn(b)) = b
          BY <1>1, <2>0, <2>2, <4>2
        <5>2. C[dn(b)].dist = B[b].dist - 1
          BY <1>9, <2>0, <5>1
        <5>3. B[b].dist \in Int
          BY <1>6
        <5>4. QED
          BY <3>1, <3>3, <5>2, <5>3
      <4>3. QED
        BY <4>1, <4>2
    <3>6. QED
      BY <3>1, <3>3, <3>4, <3>5 DEF dn
  <2>3. CASE off(b) \in run..(n - 1)
    <3>1. C[b] = B[b]
      BY <1>4, <2>3, Zenon
    <3>2. /\ B[b].hash = truncate(h[B[b].key])
          /\ B[b].dist = (b - (h[B[b].key] % n)) % n
          /\ B[b].dist <= B[dn(b)].dist + 1
      BY <1>14, <2>1, <3>1
    <3>3. off(dn(b)) = off(b) - 1
      BY <2>0, <2>3
    <3>4. C[b].dist <= C[dn(b)].dist + 1
      <4>1. CASE off(b) = run
        <5>1. B[b].dist <= 0 /\ B[b].dist \in Int
          BY <1>6, <1>8, <4>1
        <5>2. C[dn(b)] = Empty
          BY <1>4, <2>0, <3>3, <4>1, Zenon
        <5>3. C[dn(b)].dist = -1
          BY <5>2 DEF Empty, Entry
        <5>4. QED
          BY <3>1, <5>1, <5>3
      <4>2. CASE off(b) > run
        <5>0. off(dn(b)) \in run..(n - 1)
          BY <2>0, <3>3, <4>2
        <5>1. C[dn(b)] = B[dn(b)]
          BY <1>4, <2>0, <5>0, Zenon
        <5>2. QED
          BY <3>1, <3>2, <5>1
      <4>3. QED
        BY <2>0, <2>3, <4>1, <4>2
    <3>5. QED
      BY <3>1, <3>2, <3>4 DEF dn
  <2>4. QED
    BY <2>0, <2>2, <2>3
<1>15. OrderOf(C, n, h)
  BY <1>14 DEF OrderOf
<1>16. QED
  BY <1>10, <1>12, <1>13, <1>15 DEF C

\* The keys of an array are as many as its full buckets, and if there are fewer
\* of them than buckets then some bucket is empty.
LEMMA StoredCount ==
    ASSUME NEW n \in Nat \ {0}, NEW B \in Arrays(n), UniqueIn(B)
    PROVE  /\ Stored(B) \subseteq Keys /\ IsFiniteSet(Stored(B))
           /\ Cardinality({b \in DOMAIN B : B[b] # Empty}) = Cardinality(Stored(B))
           /\ Cardinality(Stored(B)) < n => \E z \in 0..(n - 1) : B[z] = Empty
<1> DEFINE F == {b \in DOMAIN B : B[b] # Empty}
           f == [b \in F |-> B[b].key]
<1>1. DOMAIN B = 0..(n - 1) /\ \A b \in DOMAIN B : B[b] \in Cell
  BY DEF Arrays
<1>2. Stored(B) = {B[b].key : b \in F}
  BY DEF Stored
<1>3. Stored(B) \subseteq Keys
  BY <1>1, <1>2, CellFacts
<1>4. IsFiniteSet(Stored(B))
  BY <1>3, FS_Subset, RobinTableAssumption
<1>5. IsFiniteSet(F) /\ F \subseteq 0..(n - 1) /\ Cardinality(0..(n - 1)) = n /\ IsFiniteSet(0..(n - 1))
  <2>1. IsFiniteSet(0..(n - 1)) /\ Cardinality(0..(n - 1)) = n
    BY FS_Interval
  <2>2. F \subseteq 0..(n - 1)
    BY <1>1
  <2>3. QED
    BY <2>1, <2>2, FS_Subset
<1>6. f \in Bijection(F, Stored(B))
  <2>1. f \in [F -> Stored(B)]
    BY <1>2
  <2>2. \A b, c \in F : f[b] = f[c] => b = c
    BY DEF UniqueIn
  <2>3. \A k \in Stored(B) : \E b \in F : f[b] = k
    BY <1>2
  <2> HIDE DEF f, F
  <2>4. QED
    BY <2>1, <2>2, <2>3 DEF Bijection, Injection, Surjection, IsInjective
<1>7. Cardinality(F) = Cardinality(Stored(B))
  BY <1>5, <1>6, FS_Bijection DEF ExistsBijection
<1>8. ASSUME Cardinality(Stored(B)) < n PROVE \E z \in 0..(n - 1) : B[z] = Empty
  <2>1. SUFFICES ASSUME \A z \in 0..(n - 1) : B[z] # Empty PROVE FALSE
    OBVIOUS
  <2>2. F = 0..(n - 1)
    BY <1>1, <2>1
  <2>3. Cardinality(F) = n
    BY <1>5, <2>2, Zenon
  <2> HIDE DEF F
  <2>4. QED
    BY <1>7, <1>8, <2>3
<1>9. QED
  BY <1>3, <1>4, <1>7, <1>8

-----------------------------------------------------------------------------
(* The invariant of robin_map.                                             *)

Size == Max({bucket_count, 1})

UnreadKeys == {old[b].key : b \in Unread}

\* All the keys there are, the one just inserted included.
Present == Stored(buckets) \cup ({carry.key} \ {None}) \cup UnreadKeys

\* The buckets: in order, and every key at most once.
Shape ==
    /\ hash \in [Keys -> Nat]
    /\ pc \in {"ready", "rehash", "place", "rehashed", "displace"}
    /\ bucket_count \in 0..MaxBuckets /\ (bucket_count # 0 => IsPowerOfTwo(bucket_count))
    /\ buckets \in Arrays(Size)
    /\ OrderOf(buckets, Size, hash)
    /\ UniqueIn(buckets)
    /\ max_load_factor \in 20..95
    /\ key \in Keys \cup {None}

\* The buckets a rehash has still to read hold other keys, with their hashes.
OldInv ==
    /\ \E m \in 1..MaxBuckets : old \in Arrays(m)
    /\ UniqueIn(old)
    /\ \A b \in DOMAIN old : old[b] # Empty => old[b].hash = truncate(hash[old[b].key])
    /\ i \in Nat
    /\ UnreadKeys \cap Stored(buckets) = {}
    /\ pc \notin {"rehash", "place"} => Unread = {}

\* The element in hand is at its true distance from its ideal bucket, and the
\* one before it is at most one nearer.
Carried ==
    /\ carry \in Element
    /\ carry.hash = truncate(hash[carry.key])
    /\ ibucket \in 0..(Size - 1)
    /\ carry.dist = (ibucket - (hash[carry.key] % Size)) % Size
    /\ carry.dist <= buckets[(ibucket - 1) % Size].dist + 1
    /\ carry.key \notin Stored(buckets) \cup UnreadKeys

CarryInv == IF pc \in {"place", "displace"} THEN Carried ELSE carry = Empty

\* The counter counts the keys, and a bucket is left for the one to be inserted.
CountInv ==
    /\ nb_elements \in Nat
    /\ Cardinality(Present) = nb_elements + (IF pc = "displace" THEN 1 ELSE 0)
    /\ Cardinality(Present \cup ({key} \ {None})) < Size
    /\ pc = "ready" => key = None
    /\ pc = "displace" => key \in Present
    /\ pc \in {"rehash", "place", "rehashed"} => key \notin Present

RobinInv == Shape /\ OldInv /\ CarryInv /\ CountInv

\* The size of the table, and the ideal bucket of a hash.
LEMMA Sizes ==
    ASSUME Shape
    PROVE  /\ Size \in 1..MaxBuckets /\ Size \in Nat \ {0} /\ IsPowerOfTwo(Size)
           /\ Size = IF bucket_count = 0 THEN 1 ELSE bucket_count
           /\ \A x \in Nat : bucket_for_hash(x, bucket_count) = x % Size
           /\ \A k \in Keys : hash[k] \in Nat
<1>1. bucket_count \in Nat /\ bucket_count <= MaxBuckets /\ MaxBuckets \in Nat \ {0}
  BY RobinTableAssumption DEF Shape, IsPowerOfTwo
<1>2. Size = IF bucket_count = 0 THEN 1 ELSE bucket_count
  BY <1>1, MaxOne DEF Size
<1>3. Size \in 1..MaxBuckets
  BY <1>1, <1>2
<1>4. IsPowerOfTwo(1)
  BY DEF IsPowerOfTwo
<1>5. IsPowerOfTwo(Size)
  BY <1>2, <1>4 DEF Shape
<1>6. \A x \in Nat : bucket_for_hash(x, bucket_count) = x % Size
  <2>1. \A x \in Nat : x % 1 = 0
    OBVIOUS
  <2>2. QED
    BY <1>2, <2>1 DEF bucket_for_hash
<1>7. \A k \in Keys : hash[k] \in Nat
  BY DEF Shape
<1>8. QED
  BY <1>2, <1>3, <1>5, <1>6, <1>7

\* The keys there are, wherever they are, are keys.
LEMMA AllKeys ==
    ASSUME Shape, OldInv, CarryInv
    PROVE  /\ Present \subseteq Keys /\ IsFiniteSet(Present)
           /\ Cardinality(Present) \in Nat
           /\ Stored(buckets) \subseteq Keys /\ UnreadKeys \subseteq Keys
<1>1. Stored(buckets) \subseteq Keys
  BY Sizes, StoredCount, Zenon DEF Shape
<1>2. PICK m \in 1..MaxBuckets : old \in Arrays(m)
  BY DEF OldInv
<1>3. \A b \in DOMAIN old : old[b] \in Cell
  BY <1>2 DEF Arrays
<1>4. UnreadKeys \subseteq Keys
  BY <1>3, CellFacts DEF UnreadKeys, Unread
<1>5. {carry.key} \ {None} \subseteq Keys
  BY CellFacts DEF CarryInv, Carried, Element, Cell, Empty, Entry
<1>6. Present \subseteq Keys
  BY <1>1, <1>4, <1>5 DEF Present
<1>7. IsFiniteSet(Present)
  BY <1>6, FS_Subset, RobinTableAssumption
<1>8. QED
  BY <1>1, <1>4, <1>6, <1>7, FS_CardinalityType

\* There is an empty bucket at all times.
LEMMA Hole ==
    ASSUME RobinInv
    PROVE  \E z \in 0..(Size - 1) : buckets[z] = Empty
<1>1. Shape /\ OldInv /\ CarryInv /\ CountInv
  BY DEF RobinInv
<1> DEFINE A == Present \cup ({key} \ {None})
<1>2. IsFiniteSet(A) /\ Stored(buckets) \subseteq A
  <2>1. IsFiniteSet({key}) /\ IsFiniteSet({key} \ {None})
    BY FS_Singleton, FS_RemoveElement, Zenon
  <2>2. IsFiniteSet(Present)
    BY <1>1, AllKeys
  <2>3. QED
    BY <2>1, <2>2, FS_Union, Zenon DEF Present
<1>3. Cardinality(Stored(buckets)) <= Cardinality(A) /\ Cardinality(A) < Size
  BY <1>1, <1>2, FS_Subset DEF CountInv
<1> HIDE DEF A
<1>4. Cardinality(A) \in Nat /\ Cardinality(Stored(buckets)) \in Nat /\ Size \in Nat \ {0}
  <2>1. IsFiniteSet(Stored(buckets))
    BY <1>2, FS_Subset
  <2>2. QED
    BY <1>1, <1>2, <2>1, FS_CardinalityType, Sizes
<1>5. Cardinality(Stored(buckets)) < Size
  BY <1>3, <1>4
<1>6. QED
  BY <1>1, <1>4, <1>5, StoredCount, Zenon DEF Shape

\* The bucket at a distance from the ideal one of a key.
LEMMA AwayIs ==
    ASSUME Shape, NEW k \in Keys, NEW d \in 0..Size
    PROVE  /\ hash[k] % Size \in 0..(Size - 1)
           /\ Away(k, d) = ((hash[k] % Size) + d) % Size
           /\ Away(k, d) \in 0..(Size - 1)
           /\ buckets[Away(k, d)] \in Cell /\ buckets[Away(k, d)].dist \in Int
<1>1. Size \in Nat \ {0} /\ hash[k] \in Nat
      /\ bucket_for_hash(hash[k], bucket_count) = hash[k] % Size
  BY Sizes
<1>2. hash[k] % Size \in 0..(Size - 1)
  BY <1>1
<1>3. Away(k, d) = ((hash[k] % Size) + d) % Size
  BY <1>1 DEF Away, Size
<1>4. Away(k, d) \in 0..(Size - 1)
  BY <1>1, <1>2, <1>3, Ahead, Zenon
<1>5. buckets[Away(k, d)] \in Cell
  BY <1>4 DEF Shape, Arrays
<1>6. QED
  BY <1>2, <1>3, <1>4, <1>5, CellFacts

\* The search for a key ends, before it is back where it started, at the first
\* element that is nearer to its ideal bucket than the key would be.
LEMMA SearchEnds ==
    ASSUME RobinInv, NEW k \in Keys
    PROVE  /\ SearchEnd(k) \in 0..(Size - 1)
           /\ SearchEnd(k) > buckets[Away(k, SearchEnd(k))].dist
           /\ \A d \in 0..(SearchEnd(k) - 1) : d <= buckets[Away(k, d)].dist
<1>1. Shape
  BY DEF RobinInv
<1>2. Size \in Nat \ {0}
  BY <1>1, Sizes
<1> DEFINE S == {d \in 0..Size : d > buckets[Away(k, d)].dist}
           q == hash[k] % Size
<1>3. SearchEnd(k) = Min(S)
  BY DEF SearchEnd, Size
<1>4. PICK z \in 0..(Size - 1) : buckets[z] = Empty
  BY Hole
<1>5. q \in 0..(Size - 1)
  BY <1>1, <1>2, AwayIs, 0 \in 0..Size
<1> DEFINE e == (z - q) % Size
<1>6. e \in 0..(Size - 1) /\ (q + e) % Size = z
  <2> HIDE DEF q
  <2>1. QED
    BY <1>2, <1>5, Offsets, Zenon
<1>7. e \in 0..Size
  BY <1>2, <1>6
<1>8. Away(k, e) = z
  <2> HIDE DEF e
  <2>1. QED
    BY <1>1, <1>6, <1>7, AwayIs
<1>9. buckets[z].dist = -1
  BY <1>4 DEF Empty, Entry
<1> HIDE DEF e, q
<1>10. e \in S
  BY <1>6, <1>7, <1>8, <1>9
<1>11. S \in SUBSET Nat
  BY <1>2
<1>12. Min(S) \in S /\ \A y \in S : Min(S) <= y
  BY <1>10, <1>11, MinLeast
<1>13. Min(S) \in 0..(Size - 1)
  BY <1>2, <1>6, <1>10, <1>12
<1>14. ASSUME NEW d \in 0..(Min(S) - 1) PROVE d <= buckets[Away(k, d)].dist
  <2>1. d \in 0..Size /\ d < Min(S)
    BY <1>2, <1>13
  <2>2. d \notin S
    BY <1>12, <1>13, <2>1
  <2>3. buckets[Away(k, d)].dist \in Int
    BY <1>1, <2>1, AwayIs
  <2>4. QED
    BY <2>1, <2>2, <2>3
<1>15. QED
  BY <1>3, <1>12, <1>13, <1>14

\* The search passes the bucket of every key that is there.
LEMMA OnTheWay ==
    ASSUME RobinInv, NEW k \in Keys, NEW b \in 0..(Size - 1), buckets[b].key = k
    PROVE  /\ buckets[b] # Empty /\ buckets[b].hash = truncate(hash[k])
           /\ buckets[b].dist \in 0..(SearchEnd(k) - 1)
           /\ Away(k, buckets[b].dist) = b
<1>1. Shape /\ Size \in Nat \ {0}
  BY Sizes DEF RobinInv
<1>2. buckets[b] \in Cell /\ buckets[b] # Empty /\ buckets[b].dist \in Nat
  <2>1. buckets[b] \in Cell
    BY <1>1 DEF Shape, Arrays
  <2>2. k # None
    BY RobinTableAssumption
  <2>3. QED
    BY <2>1, <2>2, CellFacts
<1> DEFINE q == hash[k] % Size
           e == buckets[b].dist
           s == SearchEnd(k)
<1>3. buckets[b].hash = truncate(hash[k]) /\ e = (b - q) % Size
  BY <1>1, <1>2 DEF Shape, OrderOf
<1>4. q \in 0..(Size - 1)
  BY <1>1, AwayIs, 0 \in 0..Size
<1>5. e \in 0..(Size - 1) /\ (q + e) % Size = b
  <2> HIDE DEF q, e
  <2>1. (b - q) % Size \in 0..(Size - 1) /\ (q + ((b - q) % Size)) % Size = b
    BY <1>1, <1>4, OffsetBack, Zenon
  <2>2. QED
    BY <1>3, <2>1
<1>6. Away(k, e) = b
  <2> HIDE DEF e
  <2>1. e \in 0..Size
    BY <1>1, <1>5
  <2>2. QED
    BY <1>1, <1>5, <2>1, AwayIs
<1>7. /\ s \in 0..(Size - 1)
      /\ s > buckets[Away(k, s)].dist
  BY SearchEnds
<1>8. ASSUME s <= e PROVE FALSE
  <2> HIDE DEF q, s, e
  <2> DEFINE t == e - s
  <2>1. t \in Nat /\ t <= Size /\ t <= e /\ s \in 0..Size /\ e \in 0..Size /\ t \in 0..Size
    BY <1>1, <1>5, <1>7, <1>8
  <2>2. Away(k, s) = (q + s) % Size
    BY <1>1, <2>1, AwayIs DEF q
  <2>3. (q + s) % Size = (b - t) % Size
    <3>1. (q + s) % Size = IF q + s < Size THEN q + s ELSE q + s - Size
      BY <1>1, <1>4, <2>1, Ahead, Zenon
    <3>2. (q + e) % Size = IF q + e < Size THEN q + e ELSE q + e - Size
      BY <1>1, <1>4, <2>1, Ahead, Zenon
    <3> HIDE DEF t
    <3>3. (b - t) % Size = IF b >= t THEN b - t ELSE b - t + Size
      BY <1>1, <2>1, Back
    <3>4. QED
      BY <1>1, <1>4, <1>5, <1>7, <1>8, <3>1, <3>2, <3>3 DEF t
  <2>4. buckets[(b - t) % Size].dist >= e - t
    <3> HIDE DEF t
    <3>1. t <= buckets[b].dist
      BY <2>1 DEF e
    <3>2. buckets[(b - t) % Size].dist >= buckets[b].dist - t
      BY <1>1, <2>1, <3>1, Chain DEF Shape
    <3>3. QED
      BY <3>2 DEF e
  <2>5. buckets[Away(k, s)].dist \in Int
    BY <1>1, <2>1, AwayIs
  <2>6. QED
    BY <1>5, <1>7, <2>2, <2>3, <2>4, <2>5
<1>9. QED
  BY <1>2, <1>3, <1>5, <1>6, <1>7, <1>8

\* find_impl finds exactly the bucket of a key, at all times.
LEMMA FindExact ==
    ASSUME RobinInv, NEW k \in Keys
    PROVE  /\ {b \in DOMAIN buckets : buckets[b].key = k} = {find_impl(k)} \ {-1}
           /\ find_impl(k) = -1 \/ find_impl(k) \in 0..(Size - 1)
           /\ find_impl(k) = -1 <=> k \notin Stored(buckets)
<1>1. Shape /\ Size \in Nat \ {0}
  BY Sizes DEF RobinInv
<1> DEFINE H == {d \in 0..(SearchEnd(k) - 1) : Hit(k, d)}
           K == {b \in DOMAIN buckets : buckets[b].key = k}
<1>2. find_impl(k) = IF H = {} THEN -1 ELSE Away(k, Min(H))
  BY DEF find_impl
<1>3. SearchEnd(k) \in 0..(Size - 1)
  BY SearchEnds
<1>4. DOMAIN buckets = 0..(Size - 1) /\ \A b \in DOMAIN buckets : buckets[b] \in Cell
  BY <1>1 DEF Shape, Arrays
<1>5. \A d \in H : Away(k, d) \in K
  <2>1. ASSUME NEW d \in H PROVE Away(k, d) \in K
    <3>1. d \in 0..Size
      BY <1>1, <1>3
    <3>2. Away(k, d) \in 0..(Size - 1)
      BY <1>1, <3>1, AwayIs
    <3>3. buckets[Away(k, d)].key = k
      BY DEF Hit
    <3>4. QED
      BY <1>4, <3>2, <3>3
  <2>2. QED
    BY <2>1
<1>6. k # None
  BY RobinTableAssumption
<1>7. \A b \in K : buckets[b] # Empty
  BY <1>4, <1>6, CellFacts
<1>8. \A b, c \in K : b = c
  BY <1>1, <1>7 DEF Shape, UniqueIn
<1>9. \A b \in K : buckets[b].dist \in H
  <2>1. ASSUME NEW b \in K PROVE buckets[b].dist \in H
    <3>1. b \in 0..(Size - 1) /\ buckets[b].key = k
      BY <1>4
    <3>2. /\ buckets[b].hash = truncate(hash[k])
          /\ buckets[b].dist \in 0..(SearchEnd(k) - 1)
          /\ Away(k, buckets[b].dist) = b
      BY <3>1, OnTheWay
    <3>3. Hit(k, buckets[b].dist)
      <4>1. buckets[b].dist <= buckets[b].dist
        BY <3>2
      <4>2. QED
        BY <3>1, <3>2, <4>1 DEF Hit
    <3>4. QED
      BY <3>2, <3>3
  <2>2. QED
    BY <2>1
<1>10. k \in Stored(buckets) <=> K # {}
  BY <1>7 DEF Stored
<1>11. CASE H = {}
  <2>1. K = {}
    BY <1>9, <1>11
  <2> HIDE DEF H, K
  <2>2. QED
    BY <1>2, <1>10, <1>11, <2>1 DEF K
<1>12. CASE H # {}
  <2>1. H \in SUBSET Nat
    OBVIOUS
  <2>2. Min(H) \in H
    BY <1>12, <2>1, MinLeast
  <2> HIDE DEF H
  <2>3. find_impl(k) \in K
    BY <1>2, <1>5, <1>12, <2>2
  <2>4. find_impl(k) \in 0..(Size - 1)
    BY <1>4, <2>3
  <2>5. find_impl(k) # -1
    BY <2>4
  <2>6. K = {find_impl(k)}
    BY <1>8, <2>3
  <2> HIDE DEF K
  <2>7. QED
    BY <1>10, <2>4, <2>5, <2>6 DEF K
<1>13. QED
  BY <1>11, <1>12

\* A bucket number that fits an int is kept as it is.
LEMMA HashMatch ==
    ASSUME NEW b \in 0..(IntLimit - 1)
    PROVE  hash_match(b) = b
<1> DEFINE x == b + IntLimit
           m == 2 * IntLimit
<1>1. x \in Nat /\ m \in Nat \ {0} /\ x < m
  BY RobinTableAssumption
<1> HIDE DEF x, m
<1>2. x % m = x
  BY <1>1
<1>3. hash_match(b) = x - IntLimit
  BY <1>2 DEF hash_match, x, m
<1>4. QED
  BY <1>3, RobinTableAssumption DEF x

\* find_guaranteed_impl finds every key that is there, whether or not it compares.
LEMMA GuaranteedFinds ==
    ASSUME RobinInv, bucket_count <= IntLimit, NEW k \in Stored(buckets)
    PROVE  buckets[find_guaranteed_impl(k)].key = k
<1>1. Shape /\ OldInv /\ CarryInv /\ Size \in Nat \ {0}
  BY Sizes DEF RobinInv
<1>2. k \in Keys
  BY <1>1, AllKeys
<1>3. PICK b \in DOMAIN buckets : buckets[b].key = k
  BY DEF Stored
<1>4. b \in 0..(Size - 1)
  BY <1>1, <1>3 DEF Shape, Arrays
<1> DEFINE M == {d \in 0..(SearchEnd(k) - 1) : buckets[Away(k, d)].hash = truncate(hash[k])}
           O == {d \in M : buckets[Away(k, d)].key = k}
           e == buckets[b].dist
<1>a. \A d \in M : hash_match(Away(k, d)) = Away(k, d)
  <2> SUFFICES ASSUME NEW d \in M PROVE hash_match(Away(k, d)) = Away(k, d)
    OBVIOUS
  <2>1. Size <= IntLimit /\ IntLimit \in Nat
    BY <1>1, Sizes, RobinTableAssumption
  <2>2. d \in 0..Size
    <3>1. SearchEnd(k) \in 0..(Size - 1)
      BY <1>2, SearchEnds
    <3>2. QED
      BY <1>1, <3>1
  <2>3. Away(k, d) \in 0..(Size - 1)
    BY <1>1, <1>2, <2>2, AwayIs
  <2>4. QED
    BY <1>1, <2>1, <2>3, HashMatch
<1>5. e \in O /\ e \in M /\ Away(k, e) = b
  BY <1>2, <1>3, <1>4, OnTheWay
<1>b. O = {d \in M : buckets[hash_match(Away(k, d))].key = k}
  BY <1>a
<1>6. O \in SUBSET Nat /\ M \in SUBSET Nat
  OBVIOUS
<1>7. IsFiniteSet(M)
  <2>1. SearchEnd(k) - 1 \in Int
    BY <1>2, SearchEnds
  <2>2. IsFiniteSet(0..(SearchEnd(k) - 1))
    BY <2>1, FS_Interval
  <2>3. QED
    BY <2>2, FS_Subset, Zenon
<1>8. find_guaranteed_impl(k) =
          CASE Cardinality(M) >= MaxMatches -> find_impl(k)
            [] Cardinality(M) = 1 -> Away(k, Min(M))
            [] OTHER -> IF O = {} THEN -1 ELSE Away(k, Min(O))
  <2>1. find_guaranteed_impl(k) =
            CASE Cardinality(M) >= MaxMatches -> find_impl(k)
              [] Cardinality(M) = 1 -> hash_match(Away(k, Min(M)))
              [] OTHER -> IF O = {} THEN -1 ELSE hash_match(Away(k, Min(O)))
    BY <1>b DEF find_guaranteed_impl
  <2>2. Min(M) \in M /\ Min(O) \in M
    BY <1>5, <1>6, MinLeast
  <2>3. hash_match(Away(k, Min(M))) = Away(k, Min(M)) /\ hash_match(Away(k, Min(O))) = Away(k, Min(O))
    BY <1>a, <2>2
  <2> HIDE DEF M, O
  <2>4. QED
    BY <2>1, <2>3
<1>9. buckets[find_impl(k)].key = k
  <2>1. {c \in DOMAIN buckets : buckets[c].key = k} = {find_impl(k)} \ {-1}
    BY <1>2, FindExact
  <2>2. b = find_impl(k)
    BY <1>3, <2>1
  <2>3. QED
    BY <1>3, <2>2
<1>10. ASSUME Cardinality(M) = 1 PROVE buckets[Away(k, Min(M))].key = k
  <2>1. M = {e}
    BY <1>5, <1>7, <1>10, FS_Singleton
  <2>2. Min(M) \in M
    BY <1>5, <1>6, MinLeast
  <2> HIDE DEF M, e
  <2>3. Min(M) = e
    BY <2>1, <2>2
  <2>4. QED
    BY <1>3, <1>5, <2>3
<1>11. O # {} /\ buckets[Away(k, Min(O))].key = k
  BY <1>5, <1>6, MinLeast
<1> HIDE DEF M, O
<1>12. CASE Cardinality(M) >= MaxMatches /\ Cardinality(M) # 1
  BY <1>8, <1>9, <1>12
<1>13. CASE ~(Cardinality(M) >= MaxMatches) /\ Cardinality(M) = 1
  BY <1>8, <1>10, <1>13
<1>14. CASE Cardinality(M) >= MaxMatches /\ Cardinality(M) = 1
  BY <1>8, <1>9, <1>10, <1>14
<1>15. CASE ~(Cardinality(M) >= MaxMatches) /\ Cardinality(M) # 1
  BY <1>8, <1>11, <1>15
<1>16. QED
  BY <1>12, <1>13, <1>14, <1>15

-----------------------------------------------------------------------------
(* The invariant is kept.                                                  *)

\* An array of empty buckets.
LEMMA EmptyArray ==
    ASSUME NEW n \in Nat, NEW h
    PROVE  /\ EmptyBuckets(n) \in Arrays(Max({n, 1}))
           /\ OrderOf(EmptyBuckets(n), Max({n, 1}), h)
           /\ UniqueIn(EmptyBuckets(n))
           /\ Stored(EmptyBuckets(n)) = {}
           /\ \A b \in DOMAIN EmptyBuckets(n) : EmptyBuckets(n)[b] = Empty
<1>1. \A b \in 0..(Max({n, 1}) - 1) : EmptyBuckets(n)[b] = Empty
  BY DEF EmptyBuckets
<1>2. DOMAIN EmptyBuckets(n) = 0..(Max({n, 1}) - 1)
  BY DEF EmptyBuckets
<1>3. EmptyBuckets(n) \in Arrays(Max({n, 1}))
  BY DEF EmptyBuckets, Arrays, Cell
<1>4. OrderOf(EmptyBuckets(n), Max({n, 1}), h)
  BY <1>1, Zenon DEF OrderOf
<1>5. UniqueIn(EmptyBuckets(n))
  BY <1>1, <1>2 DEF UniqueIn
<1>6. Stored(EmptyBuckets(n)) = {}
  BY <1>1, <1>2, Zenon DEF Stored
<1>7. QED
  BY <1>1, <1>2, <1>3, <1>4, <1>5, <1>6, Zenon

\* An element that goes on to the next bucket is one further from its own.
LEMMA Onward ==
    ASSUME NEW n \in Nat \ {0}, NEW b \in 0..(n - 1), NEW e \in Element,
           NEW x \in Nat, e.dist = (b - (x % n)) % n, e.dist <= n - 2
    PROVE  LET c == [e EXCEPT !.dist = @ + 1]
           IN  /\ c \in Element /\ c.dist = e.dist + 1
               /\ c.key = e.key /\ c.hash = e.hash
               /\ (b + 1) % n \in 0..(n - 1)
               /\ c.dist = (((b + 1) % n) - (x % n)) % n
               /\ (((b + 1) % n) - 1) % n = b
<1> DEFINE c == [e EXCEPT !.dist = @ + 1]
           q == x % n
<1>1. c \in Element /\ c.dist = e.dist + 1 /\ c.key = e.key /\ c.hash = e.hash
  BY DEF Element
<1>2. q \in 0..(n - 1)
  OBVIOUS
<1>3. e.dist \in Nat
  BY DEF Element
<1> HIDE DEF q, c
<1>4. (((b + 1) % n) - q) % n = IF (b - q) % n = n - 1 THEN 0 ELSE ((b - q) % n) + 1
  BY <1>2, Offsets, Zenon
<1>5. (b + 1) % n \in 0..(n - 1) /\ (((b + 1) % n) - 1) % n = b
  BY <1>2, Offsets, Neighbours, Zenon
<1>6. e.dist = (b - q) % n
  BY DEF q
<1> DEFINE w == (b - q) % n
<1>7. c.dist = (((b + 1) % n) - q) % n
  <2>1. w = e.dist /\ w # n - 1
    BY <1>3, <1>6
  <2>2. (((b + 1) % n) - q) % n = w + 1
    BY <1>4, <2>1
  <2>3. QED
    BY <1>1, <2>1, <2>2
<1>8. QED
  BY <1>1, <1>5, <1>7 DEF c, q

\* Between operations, and when a rehash has ended, every key is in a bucket.
LEMMA AllStored ==
    ASSUME RobinInv, pc \in {"ready", "rehashed"}
    PROVE  /\ carry = Empty /\ carry.key = None
           /\ Unread = {} /\ UnreadKeys = {}
           /\ Present = Stored(buckets)
           /\ Cardinality(Present) = nb_elements
<1>1. carry = Empty /\ carry.key = None
  BY DEF RobinInv, CarryInv, Empty, Entry
<1>2. Unread = {} /\ UnreadKeys = {}
  BY DEF RobinInv, OldInv, UnreadKeys
<1>3. Present = Stored(buckets)
  BY <1>1, <1>2 DEF Present
<1>4. Cardinality(Present) = nb_elements + 0 /\ nb_elements \in Nat
  BY DEF RobinInv, CountInv
<1>5. QED
  BY <1>1, <1>2, <1>3, <1>4

\* Steps that do not touch the table.
LEMMA Frame ==
    ASSUME RobinInv, UNCHANGED vars
    PROVE  RobinInv'
<1>1. /\ hash' = hash /\ pc' = pc /\ buckets' = buckets /\ bucket_count' = bucket_count
      /\ nb_elements' = nb_elements /\ max_load_factor' = max_load_factor
      /\ old' = old /\ i' = i /\ carry' = carry /\ ibucket' = ibucket /\ key' = key
  BY DEF vars
<1>2. Size' = Size
  BY <1>1 DEF Size
<1>3. Unread' = Unread /\ UnreadKeys' = UnreadKeys
  BY <1>1 DEF Unread, UnreadKeys
<1>4. Present' = Present
  BY <1>1, <1>3 DEF Present
<1>5. Shape'
  BY <1>1, <1>2 DEF RobinInv, Shape
<1>6. OldInv'
  BY <1>1, <1>3 DEF RobinInv, OldInv
<1>7. CarryInv'
  BY <1>1, <1>2, <1>3 DEF RobinInv, CarryInv, Carried
<1>8. CountInv'
  BY <1>1, <1>2, <1>4 DEF RobinInv, CountInv
<1>9. QED
  BY <1>5, <1>6, <1>7, <1>8 DEF RobinInv

\* rehash_impl, into a table that has room for all the keys.
LEMMA RehashStep ==
    ASSUME RobinInv, pc = "ready", NEW n \in 0..MaxBuckets, n = 0 \/ IsPowerOfTwo(n),
           NEW k \in Keys \cup {None}, k \notin Present,
           Cardinality(Present \cup ({k} \ {None})) < Max({n, 1}), RehashTo(n, k)
    PROVE  RobinInv' /\ Present' = Present
<1>0. n \in Nat /\ n <= MaxBuckets /\ Shape /\ OldInv /\ CarryInv /\ CountInv
  BY RobinTableAssumption DEF RobinInv, IsPowerOfTwo
<1>1. /\ hash' = hash /\ pc' = "rehash" /\ buckets' = EmptyBuckets(n) /\ bucket_count' = n
      /\ nb_elements' = nb_elements /\ max_load_factor' = max_load_factor
      /\ old' = buckets /\ i' = 0 /\ carry' = carry /\ ibucket' = ibucket /\ key' = k
  BY DEF RehashTo
<1>2. Size' = Max({n, 1})
  BY <1>1 DEF Size
<1>3. /\ carry = Empty /\ carry.key = None /\ Present = Stored(buckets)
      /\ Cardinality(Present) = nb_elements
  BY AllStored
<1>4. Shape'
  <2>1. /\ buckets' \in Arrays(Size') /\ OrderOf(buckets', Size', hash')
        /\ UniqueIn(buckets')
    BY <1>0, <1>1, <1>2, EmptyArray
  <2>2. QED
    BY <1>0, <1>1, <2>1 DEF Shape
<1>5. DOMAIN buckets = 0..(Size - 1) /\ Size \in 1..MaxBuckets /\ buckets \in Arrays(Size)
  BY <1>0, Sizes DEF Shape, Arrays
<1>6. Unread' = {b \in DOMAIN buckets : buckets[b] # Empty}
  BY <1>1, <1>5 DEF Unread
<1>7. UnreadKeys' = Stored(buckets)
  BY <1>1, <1>6 DEF UnreadKeys, Stored
<1>8. Stored(buckets)' = {}
  BY <1>0, <1>1, EmptyArray
<1>9. OldInv'
  <2>1. \E m \in 1..MaxBuckets : old' \in Arrays(m)
    BY <1>1, <1>5
  <2>2. UniqueIn(old')
    BY <1>0, <1>1 DEF Shape
  <2>3. \A b \in DOMAIN old' : old'[b] # Empty => old'[b].hash = truncate(hash'[old'[b].key])
    BY <1>0, <1>1, <1>5 DEF Shape, OrderOf
  <2>4. QED
    BY <1>1, <1>8, <2>1, <2>2, <2>3 DEF OldInv
<1>10. CarryInv'
  BY <1>1, <1>3 DEF CarryInv
<1>11. Present' = Present
  BY <1>1, <1>3, <1>7, <1>8 DEF Present
<1>12. CountInv'
  <2>1. nb_elements + 0 = nb_elements /\ nb_elements \in Nat
    BY <1>0 DEF CountInv
  <2>2. QED
    BY <1>1, <1>2, <1>3, <1>11, <2>1 DEF CountInv
<1>13. QED
  BY <1>4, <1>9, <1>10, <1>12, <1>11 DEF RobinInv

\* The element that insert_impl puts where its search ended.
LEMMA InsertPlace ==
    ASSUME RobinInv, NEW k \in Keys, NEW d, d = SearchEnd(k), NEW b, b = Away(k, d),
           NEW e, e = Entry(d, truncate(hash[k]), k)
    PROVE  /\ b \in 0..(Size - 1) /\ e \in Element /\ e.key = k /\ e.dist = d
           /\ e.hash = truncate(hash[e.key])
           /\ e.dist = (b - (hash[e.key] % Size)) % Size
           /\ e.dist <= buckets[(b - 1) % Size].dist + 1
           /\ e.dist > buckets[b].dist
<1>0. Shape /\ Size \in Nat \ {0} /\ hash[k] \in Nat
  BY Sizes DEF RobinInv
<1>1. /\ d \in 0..(Size - 1) /\ d > buckets[b].dist
      /\ \A x \in 0..(d - 1) : x <= buckets[Away(k, x)].dist
  BY SearchEnds
<1>2. d \in 0..Size /\ d \in Nat
  BY <1>0, <1>1, SMTT(30)
<1> DEFINE q == hash[k] % Size
<1>3. q \in 0..(Size - 1) /\ b = (q + d) % Size /\ b \in 0..(Size - 1)
  BY <1>0, <1>2, AwayIs
<1>4. e \in Element /\ e.key = k /\ e.dist = d /\ e.hash = truncate(hash[k])
  <2>1. truncate(hash[k]) \in Nat
    <3>1. Truncated \in Nat \ {0}
      BY RobinTableAssumption DEF IsPowerOfTwo
    <3>2. QED
      BY <1>0, <3>1 DEF truncate
  <2>2. QED
    BY <1>2, <2>1 DEF Entry, Element
<1> HIDE DEF q
<1>5. b = IF q + d < Size THEN q + d ELSE q + d - Size
  BY <1>0, <1>2, <1>3, Ahead, Zenon
<1>6. (b - q) % Size = d
  <2>1. (b - q) % Size = IF b >= q THEN b - q ELSE b - q + Size
    BY <1>0, <1>3, q \in 0..Size, Back
  <2>2. QED
    BY <1>0, <1>1, <1>3, <1>5, <2>1
<1>7. buckets[(b - 1) % Size] \in Cell /\ (b - 1) % Size \in 0..(Size - 1)
  <2>1. (b - 1) % Size \in 0..(Size - 1)
    BY <1>0, <1>3
  <2>2. QED
    BY <1>0, <2>1 DEF Shape, Arrays
<1>8. d <= buckets[(b - 1) % Size].dist + 1
  <2>0. buckets[(b - 1) % Size].dist \in Int /\ buckets[(b - 1) % Size].dist >= -1
    BY <1>7, CellFacts
  <2>1. CASE d = 0
    BY <2>0, <2>1
  <2>2. CASE d # 0
    <3>1. d - 1 \in 0..(d - 1) /\ d - 1 \in 0..Size
      BY <1>0, <1>1, <2>2
    <3>2. Away(k, d - 1) = (q + (d - 1)) % Size
      BY <1>0, <3>1, AwayIs DEF q
    <3>3. (q + (d - 1)) % Size =
              IF q + (d - 1) < Size THEN q + (d - 1) ELSE q + (d - 1) - Size
      BY <1>0, <1>3, <3>1, Ahead, Zenon
    <3>4. (b - 1) % Size = IF b >= 1 THEN b - 1 ELSE b - 1 + Size
      BY <1>0, <1>3, 1 \in 0..Size, Back, Zenon
    <3>5. (q + (d - 1)) % Size = (b - 1) % Size
      BY <1>0, <1>1, <1>3, <1>5, <2>2, <3>3, <3>4
    <3>6. d - 1 <= buckets[(b - 1) % Size].dist
      BY <1>1, <3>1, <3>2, <3>5
    <3>7. QED
      BY <1>2, <2>0, <3>6
  <2>3. QED
    BY <2>1, <2>2
<1>9. QED
  BY <1>1, <1>3, <1>4, <1>6, <1>8 DEF q

\* What taking an element's place in the table leaves: the buckets in order, and
\* in hand an element that may go on to the next bucket.
LEMMA TakePlace ==
    ASSUME RobinInv, NEW b \in 0..(Size - 1), NEW e \in Element,
           e.hash = truncate(hash[e.key]),
           e.dist = (b - (hash[e.key] % Size)) % Size,
           e.dist <= buckets[(b - 1) % Size].dist + 1, e.dist > buckets[b].dist,
           e.key \notin Stored(buckets),
           NEW B, B = [buckets EXCEPT ![b] = e],
           NEW c, c = [buckets[b] EXCEPT !.dist = @ + 1],
           NEW f, f = (b + 1) % Size
    PROVE  /\ B \in Arrays(Size) /\ OrderOf(B, Size, hash) /\ UniqueIn(B)
           /\ buckets[b] = Empty => Stored(B) = Stored(buckets) \cup {e.key}
           /\ buckets[b] # Empty =>
                /\ c \in Element /\ c.hash = truncate(hash[c.key])
                /\ f \in 0..(Size - 1)
                /\ c.dist = (f - (hash[c.key] % Size)) % Size
                /\ c.dist <= B[(f - 1) % Size].dist + 1
                /\ c.key \in Stored(buckets) /\ c.key \notin Stored(B)
                /\ Stored(B) \cup {c.key} = Stored(buckets) \cup {e.key}
<1>0. Shape /\ Size \in Nat \ {0}
  BY Sizes DEF RobinInv
<1>1. /\ buckets \in Arrays(Size) /\ OrderOf(buckets, Size, hash) /\ UniqueIn(buckets)
      /\ hash \in [Keys -> Nat]
  BY <1>0 DEF Shape
<1>2. B \in Arrays(Size) /\ OrderOf(B, Size, hash)
  BY <1>0, <1>1, PutOrder, Zenon
<1>3. /\ UniqueIn(B)
      /\ buckets[b] = Empty => Stored(B) = Stored(buckets) \cup {e.key}
      /\ buckets[b] # Empty =>
           /\ Stored(B) = (Stored(buckets) \ {buckets[b].key}) \cup {e.key}
           /\ buckets[b].key \in Stored(buckets)
  <2>1. UniqueIn([buckets EXCEPT ![b] = e])
    BY <1>0, <1>1, PutStored, Zenon
  <2>2. buckets[b] = Empty => Stored([buckets EXCEPT ![b] = e]) = Stored(buckets) \cup {e.key}
    BY <1>0, <1>1, PutEmpty, Zenon
  <2>3. ASSUME buckets[b] # Empty
        PROVE  /\ Stored([buckets EXCEPT ![b] = e]) = (Stored(buckets) \ {buckets[b].key}) \cup {e.key}
               /\ buckets[b].key \in Stored(buckets)
    BY <1>0, <1>1, <2>3, PutStored, Zenon
  <2>4. QED
    BY <2>1, <2>2, <2>3, Zenon
<1>4. B[b] = e
  BY <1>1 DEF Arrays
<1>5. ASSUME buckets[b] # Empty
      PROVE  /\ c \in Element /\ c.hash = truncate(hash[c.key])
             /\ f \in 0..(Size - 1)
             /\ c.dist = (f - (hash[c.key] % Size)) % Size
             /\ c.dist <= B[(f - 1) % Size].dist + 1
             /\ c.key = buckets[b].key
  <2>1. /\ buckets[b] \in Element /\ buckets[b].dist \in Nat /\ buckets[b].key \in Keys
    <3>1. buckets[b] \in Cell
      BY <1>1 DEF Arrays
    <3>2. QED
      BY <1>5, <3>1, CellFacts
  <2>2. /\ buckets[b].hash = truncate(hash[buckets[b].key])
        /\ buckets[b].dist = (b - (hash[buckets[b].key] % Size)) % Size
    BY <1>1, <1>5 DEF OrderOf
  <2>3. buckets[b].dist <= Size - 2
    <3>1. PICK z \in 0..(Size - 1) : buckets[z] = Empty
      BY Hole
    <3>2. QED
      BY <1>0, <1>1, <3>1, NoWrap
  <2>4. hash[buckets[b].key] \in Nat
    BY <1>1, <2>1
  <2>5. /\ c \in Element /\ c.dist = buckets[b].dist + 1
        /\ c.key = buckets[b].key /\ c.hash = buckets[b].hash
        /\ f \in 0..(Size - 1)
        /\ c.dist = (f - (hash[buckets[b].key] % Size)) % Size
        /\ (f - 1) % Size = b
    BY <1>0, <2>1, <2>2, <2>3, <2>4, Onward
  <2>6. e.dist \in Nat
    BY DEF Element
  <2>7. c.dist <= B[(f - 1) % Size].dist + 1
    BY <1>4, <2>1, <2>5, <2>6
  <2>8. QED
    BY <2>2, <2>5, <2>7
<1>6. QED
  BY <1>2, <1>3, <1>5, Zenon

\* The end of insert_impl.
LEMMA InsertStep ==
    ASSUME RobinInv, pc \in {"ready", "rehashed"}, NEW k \in Keys, k \notin Present,
           Cardinality(Present \cup {k}) < Size, InsertAt(k)
    PROVE  RobinInv' /\ Present' = Present \cup {k}
<1> DEFINE d == SearchEnd(k)
           b == Away(k, d)
           e == Entry(d, truncate(hash[k]), k)
           c == [buckets[b] EXCEPT !.dist = @ + 1]
           f == (b + 1) % Size
<1>0. Shape /\ OldInv /\ CarryInv /\ CountInv
  BY DEF RobinInv
<1>1. /\ hash' = hash /\ buckets' = [buckets EXCEPT ![b] = e] /\ bucket_count' = bucket_count
      /\ max_load_factor' = max_load_factor /\ old' = old /\ i' = i
      /\ buckets[b] = Empty =>
           /\ pc' = "ready" /\ nb_elements' = nb_elements + 1 /\ key' = None
           /\ carry' = carry /\ ibucket' = ibucket
      /\ buckets[b] # Empty =>
           /\ pc' = "displace" /\ key' = k /\ nb_elements' = nb_elements
           /\ carry' = c /\ ibucket' = f
  BY DEF InsertAt, next_bucket, Size
<1>2. Size' = Size
  BY <1>1 DEF Size
<1>3. /\ carry = Empty /\ carry.key = None /\ Present = Stored(buckets)
      /\ Cardinality(Present) = nb_elements /\ Unread = {} /\ UnreadKeys = {}
  BY AllStored
<1>4. Unread' = {} /\ UnreadKeys' = {}
  BY <1>1, <1>3 DEF Unread, UnreadKeys
<1>5. /\ b \in 0..(Size - 1) /\ e \in Element /\ e.key = k
      /\ e.hash = truncate(hash[e.key])
      /\ e.dist = (b - (hash[e.key] % Size)) % Size
      /\ e.dist <= buckets[(b - 1) % Size].dist + 1
      /\ e.dist > buckets[b].dist
  <2> HIDE DEF d, b, e, c, f
  <2>1. d = SearchEnd(k) /\ b = Away(k, d) /\ e = Entry(d, truncate(hash[k]), k)
    BY DEF d, b, e
  <2>2. QED
    BY <2>1, InsertPlace
<1> HIDE DEF d, b, e, c, f
<1>6. /\ buckets' \in Arrays(Size) /\ OrderOf(buckets', Size, hash) /\ UniqueIn(buckets')
      /\ buckets[b] = Empty => Stored(buckets') = Stored(buckets) \cup {e.key}
      /\ buckets[b] # Empty =>
           /\ c \in Element /\ c.hash = truncate(hash[c.key])
           /\ f \in 0..(Size - 1)
           /\ c.dist = (f - (hash[c.key] % Size)) % Size
           /\ c.dist <= buckets'[(f - 1) % Size].dist + 1
           /\ c.key \in Stored(buckets) /\ c.key \notin Stored(buckets')
           /\ Stored(buckets') \cup {c.key} = Stored(buckets) \cup {e.key}
  <2>1. e.key \notin Stored(buckets)
    BY <1>3, <1>5
  <2>2. QED
    BY <1>1, <1>5, <2>1, TakePlace, ZenonT(30) DEF c, f
<1>7. Shape'
  BY <1>0, <1>1, <1>2, <1>6 DEF Shape
<1>8. OldInv'
  BY <1>0, <1>1, <1>4 DEF OldInv
<1>9. CarryInv'
  <2>1. CASE buckets[b] = Empty
    BY <1>1, <1>3, <2>1 DEF CarryInv
  <2>2. CASE buckets[b] # Empty
    <3>1. Carried'
      BY <1>1, <1>2, <1>4, <1>6, <2>2 DEF Carried
    <3>2. QED
      BY <1>1, <2>2, <3>1 DEF CarryInv
  <2>3. QED
    BY <2>1, <2>2
<1>10. Present' = Present \cup {k}
  <2>1. CASE buckets[b] = Empty
    BY <1>1, <1>3, <1>4, <1>5, <1>6, <2>1, Zenon DEF Present
  <2>2. CASE buckets[b] # Empty
    <3>1. c.key # None
      BY <1>6, <2>2, RobinTableAssumption DEF Element
    <3>2. QED
      BY <1>1, <1>3, <1>4, <1>5, <1>6, <2>2, <3>1, Zenon DEF Present
  <2>3. QED
    BY <2>1, <2>2
<1>11. Cardinality(Present') = nb_elements + 1 /\ nb_elements \in Nat
  <2>1. IsFiniteSet(Present)
    BY <1>0, AllKeys
  <2>2. QED
    BY <1>0, <1>3, <1>10, <2>1, FS_AddElement, Zenon DEF CountInv
<1>12. CountInv'
  <2>1. CASE buckets[b] = Empty
    <3>1. Present' \cup ({key'} \ {None}) = Present \cup {k}
      BY <1>1, <1>10, <2>1
    <3>2. Cardinality(Present') = nb_elements' + 0 /\ nb_elements' \in Nat
      BY <1>1, <1>11, <2>1
    <3>3. QED
      BY <1>1, <1>2, <2>1, <3>1, <3>2 DEF CountInv
  <2>2. CASE buckets[b] # Empty
    <3>1. Present' \cup ({key'} \ {None}) = Present \cup {k} /\ k \in Present'
      BY <1>1, <1>10, <2>2
    <3>2. QED
      BY <1>1, <1>2, <1>11, <2>2, <3>1 DEF CountInv
  <2>3. QED
    BY <2>1, <2>2
<1>13. QED
  BY <1>7, <1>8, <1>9, <1>12, <1>10 DEF RobinInv

\* Either the key is in, or it is and an element is in hand.
LEMMA InsertAtEnds ==
    ASSUME NEW k, InsertAt(k)
    PROVE  (pc' = "ready" /\ key' = None) \/ (pc' = "displace" /\ key' = k)
  BY DEF InsertAt

\* What the loops of insert_value_impl and insert_value_on_rehash have in common.
PlaceAction ==
    /\ IF buckets[ibucket] = Empty
       THEN buckets' = [buckets EXCEPT ![ibucket] = carry] /\ carry' = Empty
       ELSE /\ IF carry.dist > buckets[ibucket].dist
               THEN /\ buckets' = [buckets EXCEPT ![ibucket] = carry]
                    /\ carry' = [buckets[ibucket] EXCEPT !.dist = @ + 1]
               ELSE carry' = [carry EXCEPT !.dist = @ + 1] /\ buckets' = buckets
            /\ ibucket' = (ibucket + 1) % Size
    /\ hash' = hash /\ bucket_count' = bucket_count /\ old' = old /\ i' = i

\* One bucket of these loops: the element in hand is put down, exchanged for one
\* that is nearer to its ideal bucket, or carried on.
LEMMA PlaceStep ==
    ASSUME RobinInv, pc \in {"place", "displace"}, PlaceAction
    PROVE  /\ Size' = Size /\ Unread' = Unread /\ UnreadKeys' = UnreadKeys
           /\ buckets' \in Arrays(Size) /\ OrderOf(buckets', Size, hash)
           /\ UniqueIn(buckets')
           /\ Present' = Present
           /\ UnreadKeys \cap Stored(buckets') = {}
           /\ buckets[ibucket] # Empty => Carried'
<1> DEFINE c == [buckets[ibucket] EXCEPT !.dist = @ + 1]
           f == (ibucket + 1) % Size
           B == [buckets EXCEPT ![ibucket] = carry]
           g == [carry EXCEPT !.dist = @ + 1]
<1>0. /\ Shape /\ OldInv /\ Carried /\ Size \in Nat \ {0}
      /\ buckets \in Arrays(Size) /\ OrderOf(buckets, Size, hash) /\ UniqueIn(buckets)
      /\ UnreadKeys \cap Stored(buckets) = {}
  <2>1. Shape /\ OldInv /\ CarryInv
    BY DEF RobinInv
  <2>2. QED
    BY <2>1, Sizes DEF Shape, OldInv, CarryInv
<1>1. hash' = hash /\ bucket_count' = bucket_count /\ old' = old /\ i' = i
  BY DEF PlaceAction
<1>2. Size' = Size /\ Unread' = Unread /\ UnreadKeys' = UnreadKeys
  BY <1>1 DEF Size, Unread, UnreadKeys
<1>3. /\ carry \in Element /\ carry.hash = truncate(hash[carry.key])
      /\ ibucket \in 0..(Size - 1)
      /\ carry.dist = (ibucket - (hash[carry.key] % Size)) % Size
      /\ carry.dist <= buckets[(ibucket - 1) % Size].dist + 1
      /\ carry.key \notin Stored(buckets) /\ carry.key \notin UnreadKeys
  BY <1>0 DEF Carried
<1>4. carry.dist \in Nat /\ carry.key \in Keys /\ carry.key # None
  BY <1>3, RobinTableAssumption DEF Element
<1>5. buckets[ibucket] \in Cell /\ buckets[ibucket].dist \in Int
  BY <1>0, <1>3, CellFacts DEF Arrays
<1> HIDE DEF c, f, B, g
<1>6. ASSUME carry.dist > buckets[ibucket].dist
      PROVE  /\ B \in Arrays(Size) /\ OrderOf(B, Size, hash) /\ UniqueIn(B)
             /\ buckets[ibucket] = Empty => Stored(B) = Stored(buckets) \cup {carry.key}
             /\ buckets[ibucket] # Empty =>
                  /\ c \in Element /\ c.hash = truncate(hash[c.key])
                  /\ f \in 0..(Size - 1)
                  /\ c.dist = (f - (hash[c.key] % Size)) % Size
                  /\ c.dist <= B[(f - 1) % Size].dist + 1
                  /\ c.key \in Stored(buckets) /\ c.key \notin Stored(B)
                  /\ Stored(B) \cup {c.key} = Stored(buckets) \cup {carry.key}
  BY <1>3, <1>6, TakePlace, ZenonT(30) DEF c, f, B
<1>7. CASE buckets[ibucket] = Empty
  <2>1. buckets' = B /\ carry' = Empty
    BY <1>7 DEF PlaceAction, B
  <2>2. carry.dist > buckets[ibucket].dist
    BY <1>4, <1>5, <1>7, CellFacts
  <2>3. Stored(B) = Stored(buckets) \cup {carry.key}
    BY <1>6, <1>7, <2>2
  <2>4. carry'.key = None
    BY <2>1 DEF Empty, Entry
  <2>5. Present' = Present
    BY <1>2, <1>4, <2>1, <2>3, <2>4 DEF Present
  <2>6. UnreadKeys \cap Stored(B) = {}
    BY <1>0, <1>3, <2>3
  <2>7. QED
    BY <1>2, <1>6, <1>7, <2>1, <2>2, <2>5, <2>6
<1>8. CASE buckets[ibucket] # Empty /\ carry.dist > buckets[ibucket].dist
  <2>1. buckets' = B /\ carry' = c /\ ibucket' = f
    BY <1>8 DEF PlaceAction, B, c, f
  <2>2. /\ c \in Element /\ c.hash = truncate(hash[c.key])
        /\ f \in 0..(Size - 1)
        /\ c.dist = (f - (hash[c.key] % Size)) % Size
        /\ c.dist <= B[(f - 1) % Size].dist + 1
        /\ c.key \in Stored(buckets) /\ c.key \notin Stored(B)
        /\ Stored(B) \cup {c.key} = Stored(buckets) \cup {carry.key}
    BY <1>6, <1>8
  <2>3. c.key # None
    BY <2>2, RobinTableAssumption DEF Element
  <2>4. Present' = Present
    BY <1>2, <1>4, <2>1, <2>2, <2>3 DEF Present
  <2>5. UnreadKeys \cap Stored(B) = {} /\ c.key \notin UnreadKeys
    BY <1>0, <1>3, <2>2
  <2>6. Carried'
    BY <1>1, <1>2, <2>1, <2>2, <2>5 DEF Carried
  <2>7. QED
    BY <1>2, <1>6, <1>8, <2>1, <2>4, <2>5, <2>6
<1>9. CASE buckets[ibucket] # Empty /\ ~(carry.dist > buckets[ibucket].dist)
  <2>1. buckets' = buckets /\ carry' = g /\ ibucket' = f
    BY <1>9 DEF PlaceAction, g, f
  <2>2. buckets[ibucket].dist <= Size - 2
    <3>1. PICK z \in 0..(Size - 1) : buckets[z] = Empty
      BY Hole
    <3>2. QED
      BY <1>0, <1>3, <3>1, NoWrap
  <2>3. carry.dist <= Size - 2 /\ hash[carry.key] \in Nat
    <3>1. hash[carry.key] \in Nat
      BY <1>0, <1>4, Sizes
    <3>2. QED
      BY <1>0, <1>4, <1>5, <1>9, <2>2, <3>1
  <2>4. /\ g \in Element /\ g.dist = carry.dist + 1
        /\ g.key = carry.key /\ g.hash = carry.hash
        /\ f \in 0..(Size - 1)
        /\ g.dist = (f - (hash[carry.key] % Size)) % Size
        /\ (f - 1) % Size = ibucket
    BY <1>0, <1>3, <2>3, Onward DEF g, f
  <2>5. Present' = Present
    BY <1>2, <2>1, <2>4 DEF Present
  <2>6. g.dist <= buckets[(f - 1) % Size].dist + 1
    BY <1>4, <1>5, <1>9, <2>4
  <2>7. Carried'
    BY <1>1, <1>2, <1>3, <2>1, <2>4, <2>6 DEF Carried
  <2>8. QED
    BY <1>0, <1>2, <2>1, <2>5, <2>7
<1>10. QED
  BY <1>7, <1>8, <1>9

\* insert_value_impl keeps the invariant.
LEMMA DisplaceStep ==
    ASSUME RobinInv, Displace
    PROVE  RobinInv' /\ Present' = Present
<1>0. Shape /\ OldInv /\ CarryInv /\ CountInv /\ pc = "displace"
  BY DEF RobinInv, Displace
<1>1. PlaceAction /\ max_load_factor' = max_load_factor
  BY DEF Displace, PlaceAction, next_bucket, Size
<1>2. /\ buckets[ibucket] = Empty =>
           nb_elements' = nb_elements + 1 /\ pc' = "ready" /\ carry' = Empty /\ key' = None
      /\ buckets[ibucket] # Empty =>
           nb_elements' = nb_elements /\ pc' = pc /\ key' = key
      /\ hash' = hash /\ bucket_count' = bucket_count /\ old' = old /\ i' = i
  BY DEF Displace
<1>3. /\ Size' = Size /\ Unread' = Unread /\ UnreadKeys' = UnreadKeys
      /\ buckets' \in Arrays(Size) /\ OrderOf(buckets', Size, hash)
      /\ UniqueIn(buckets')
      /\ Present' = Present
      /\ UnreadKeys \cap Stored(buckets') = {}
      /\ buckets[ibucket] # Empty => Carried'
  BY <1>0, <1>1, PlaceStep
<1>4. Shape'
  BY <1>0, <1>1, <1>2, <1>3 DEF Shape
<1>5. OldInv'
  BY <1>0, <1>2, <1>3 DEF OldInv
<1>6. CarryInv'
  BY <1>0, <1>2, <1>3 DEF CarryInv
<1>7. CountInv'
  <2>1. /\ nb_elements \in Nat /\ Cardinality(Present) = nb_elements + 1
        /\ key \in Present
        /\ Cardinality(Present \cup ({key} \ {None})) < Size
    BY <1>0 DEF CountInv
  <2>2. Present \cup ({key} \ {None}) = Present /\ Present \cup ({None} \ {None}) = Present
    BY <2>1
  <2>3. CASE buckets[ibucket] = Empty
    <3>1. nb_elements' \in Nat /\ Cardinality(Present') = nb_elements' + 0
      BY <1>2, <1>3, <2>1, <2>3
    <3>2. QED
      BY <1>2, <1>3, <2>1, <2>2, <2>3, <3>1, Zenon DEF CountInv
  <2>4. CASE buckets[ibucket] # Empty
    BY <1>0, <1>2, <1>3, <2>1, <2>4, Zenon DEF CountInv
  <2>5. QED
    BY <2>3, <2>4
<1>8. QED
  BY <1>4, <1>5, <1>6, <1>7, <1>3 DEF RobinInv

\* insert_value_on_rehash keeps the invariant.
LEMMA RehashPlaceStep ==
    ASSUME RobinInv, RehashPlace
    PROVE  RobinInv' /\ Present' = Present
<1>0. Shape /\ OldInv /\ CarryInv /\ CountInv /\ pc = "place"
  BY DEF RobinInv, RehashPlace
<1>1. PlaceAction /\ max_load_factor' = max_load_factor
  BY DEF RehashPlace, PlaceAction, next_bucket, Size
<1>2. /\ buckets[ibucket] = Empty => pc' = "rehash" /\ carry' = Empty
      /\ buckets[ibucket] # Empty => pc' = pc
      /\ nb_elements' = nb_elements /\ key' = key
      /\ hash' = hash /\ bucket_count' = bucket_count /\ old' = old /\ i' = i
  BY DEF RehashPlace
<1>3. /\ Size' = Size /\ Unread' = Unread /\ UnreadKeys' = UnreadKeys
      /\ buckets' \in Arrays(Size) /\ OrderOf(buckets', Size, hash)
      /\ UniqueIn(buckets')
      /\ Present' = Present
      /\ UnreadKeys \cap Stored(buckets') = {}
      /\ buckets[ibucket] # Empty => Carried'
  BY <1>0, <1>1, PlaceStep
<1>4. Shape'
  BY <1>0, <1>1, <1>2, <1>3 DEF Shape
<1>5. OldInv'
  BY <1>0, <1>2, <1>3 DEF OldInv
<1>6. CarryInv'
  BY <1>0, <1>2, <1>3 DEF CarryInv
<1>7. CountInv'
  BY <1>0, <1>2, <1>3 DEF CountInv
<1>8. QED
  BY <1>4, <1>5, <1>6, <1>7, <1>3 DEF RobinInv

\* The stored part of a hash is enough for a rehash when it is used.
LEMMA RehashHashRight ==
    ASSUME Shape, NEW e \in Element, e.hash = truncate(hash[e.key])
    PROVE  /\ RehashHash(e) \in Nat
           /\ truncate(RehashHash(e)) = truncate(hash[e.key])
           /\ bucket_for_hash(RehashHash(e), bucket_count) = hash[e.key] % Size
<1>1. /\ Size \in Nat \ {0} /\ IsPowerOfTwo(Size)
      /\ Size = IF bucket_count = 0 THEN 1 ELSE bucket_count
      /\ \A x \in Nat : bucket_for_hash(x, bucket_count) = x % Size
      /\ hash[e.key] \in Nat
  BY Sizes DEF Element
<1>2. Truncated \in Nat \ {0} /\ IsPowerOfTwo(Truncated)
  BY RobinTableAssumption DEF IsPowerOfTwo
<1>3. CASE ~(bucket_count <= Truncated)
  <2>1. RehashHash(e) = hash[e.key]
    BY <1>3 DEF RehashHash
  <2>2. QED
    BY <1>1, <2>1
<1>4. CASE bucket_count <= Truncated
  <2>1. RehashHash(e) = hash[e.key] % Truncated
    BY <1>4 DEF RehashHash, truncate
  <2> DEFINE x == hash[e.key]
             y == x % Truncated
  <2>2. x \in Nat /\ y \in 0..(Truncated - 1) /\ y \in Nat
    BY <1>1, <1>2
  <2>3. Size <= Truncated
    BY <1>1, <1>2, <1>4
  <2>4. Truncated % Size = 0
    BY <1>1, <1>2, <2>3, PowerDividesPower, Zenon
  <2>5. y % Size = x % Size
    <3> HIDE DEF x
    <3>1. QED
      BY <1>1, <1>2, <2>2, <2>4, ModMod, Zenon
  <2>6. y % Truncated = y
    <3> HIDE DEF y
    <3>1. QED
      BY <1>2, <2>2, Within
  <2>7. QED
    BY <1>1, <2>1, <2>2, <2>5, <2>6 DEF truncate
<1>5. QED
  BY <1>3, <1>4

\* The loop of rehash_impl takes the next element in hand.
LEMMA RehashNextStep ==
    ASSUME RobinInv, RehashNext
    PROVE  RobinInv' /\ Present' = Present
<1>0. Shape /\ OldInv /\ CarryInv /\ CountInv /\ pc = "rehash" /\ Unread # {}
  BY DEF RobinInv, RehashNext
<1> DEFINE p == Min(Unread)
           e == old[p]
<1>1. /\ pc' = "place" /\ i' = p + 1
      /\ carry' = Entry(0, truncate(RehashHash(e)), e.key)
      /\ ibucket' = bucket_for_hash(RehashHash(e), bucket_count)
      /\ hash' = hash /\ max_load_factor' = max_load_factor /\ buckets' = buckets
      /\ bucket_count' = bucket_count /\ nb_elements' = nb_elements /\ old' = old /\ key' = key
  BY DEF RehashNext
<1>2. PICK m \in 1..MaxBuckets : old \in Arrays(m)
  BY <1>0 DEF OldInv
<1>3. DOMAIN old = 0..(m - 1) /\ \A b \in DOMAIN old : old[b] \in Cell
  BY <1>2 DEF Arrays
<1>4. Unread \in SUBSET Nat
  BY <1>3 DEF Unread
<1>5. p \in Unread /\ p \in Nat /\ \A y \in Unread : p <= y
  BY <1>0, <1>4, MinLeast, Zenon
<1> HIDE DEF p
<1>6. p \in DOMAIN old /\ p >= i /\ e # Empty /\ e \in Element /\ e.key \in Keys
  <2>1. p \in DOMAIN old /\ p >= i /\ e # Empty
    BY <1>5 DEF Unread
  <2>2. QED
    BY <1>3, <2>1, CellFacts
<1>7. Unread' = Unread \ {p}
  <2>1. Unread' = {b \in DOMAIN old : b >= p + 1 /\ old[b] # Empty}
    BY <1>1 DEF Unread
  <2>2. ASSUME NEW b \in DOMAIN old PROVE b >= p + 1 /\ old[b] # Empty <=> b \in Unread /\ b # p
    <3>1. b \in Nat /\ i \in Nat /\ p \in Nat /\ p >= i
      BY <1>0, <1>3, <1>5, <1>6 DEF OldInv
    <3>2. b \in Unread <=> b >= i /\ old[b] # Empty
      BY DEF Unread
    <3>3. b \in Unread => p <= b
      BY <1>5, Zenon
    <3>4. QED
      BY <3>1, <3>2, <3>3
  <2>3. Unread \subseteq DOMAIN old
    BY DEF Unread
  <2>4. QED
    BY <2>1, <2>2, <2>3
<1>8. UnreadKeys' = UnreadKeys \ {e.key} /\ e.key \in UnreadKeys
  <2>1. UnreadKeys' = {old[b].key : b \in Unread \ {p}}
    BY <1>1, <1>7 DEF UnreadKeys
  <2>2. \A b \in Unread : old[b].key = e.key => b = p
    BY <1>0, <1>5 DEF OldInv, UniqueIn, Unread
  <2>3. QED
    BY <1>5, <2>1, <2>2 DEF UnreadKeys
<1>9. e.hash = truncate(hash[e.key])
  BY <1>0, <1>6 DEF OldInv
<1>10. /\ RehashHash(e) \in Nat
       /\ truncate(RehashHash(e)) = truncate(hash[e.key])
       /\ bucket_for_hash(RehashHash(e), bucket_count) = hash[e.key] % Size
  BY <1>0, <1>6, <1>9, RehashHashRight
<1>11. Size' = Size /\ Size \in Nat \ {0} /\ hash[e.key] \in Nat
  BY <1>0, <1>1, <1>6, Sizes DEF Size
<1>12. Shape'
  BY <1>0, <1>1, <1>11 DEF Shape
<1>13. OldInv'
  <2>1. i' \in Nat
    BY <1>1, <1>5
  <2>2. UnreadKeys' \cap Stored(buckets)' = {}
    BY <1>0, <1>1, <1>8 DEF OldInv
  <2>3. QED
    BY <1>0, <1>1, <2>1, <2>2 DEF OldInv
<1>14. Carried'
  <2>1. carry' \in Element /\ carry'.dist = 0 /\ carry'.hash = e.hash /\ carry'.key = e.key
    BY <1>1, <1>6, <1>9, <1>10 DEF Element, Entry
  <2>2. ibucket' = hash[e.key] % Size /\ ibucket' \in 0..(Size - 1)
    <3>1. ibucket' = hash[e.key] % Size
      BY <1>1, <1>10
    <3>2. hash[e.key] % Size \in 0..(Size - 1)
      BY <1>11
    <3>3. QED
      BY <3>1, <3>2
  <2>3. (ibucket' - ibucket') % Size = 0
    <3>1. ibucket' - ibucket' = 0
      BY <1>11, <2>2
    <3>2. QED
      BY <1>11, <3>1
  <2>4. 0 <= buckets[(ibucket' - 1) % Size].dist + 1
    <3>1. (ibucket' - 1) % Size \in 0..(Size - 1)
      BY <1>11, <2>2
    <3>2. buckets[(ibucket' - 1) % Size] \in Cell
      BY <1>0, <3>1 DEF Shape, Arrays
    <3>3. QED
      BY <3>2, CellFacts
  <2>5. e.key \notin Stored(buckets) \cup UnreadKeys'
    BY <1>0, <1>8 DEF OldInv
  <2>6. QED
    BY <1>1, <1>9, <1>11, <2>1, <2>2, <2>3, <2>4, <2>5 DEF Carried
<1>15. CarryInv'
  BY <1>1, <1>14 DEF CarryInv
<1>16. Present' = Present
  <2>1. carry.key = None /\ e.key # None /\ carry'.key = e.key
    <3>1. carry.key = None
      BY <1>0 DEF CarryInv, Empty, Entry
    <3>2. e.key # None
      BY <1>6, RobinTableAssumption
    <3>3. carry'.key = e.key
      BY <1>1 DEF Entry
    <3>4. QED
      BY <3>1, <3>2, <3>3
  <2>2. QED
    BY <1>1, <1>8, <2>1 DEF Present
<1>17. CountInv'
  BY <1>0, <1>1, <1>11, <1>16 DEF CountInv
<1>18. QED
  BY <1>12, <1>13, <1>15, <1>17, <1>16 DEF RobinInv

\* The loop ends and the old buckets are gone.
LEMMA RehashEndStep ==
    ASSUME RobinInv, RehashEnd
    PROVE  RobinInv' /\ Present' = Present
<1>0. Shape /\ OldInv /\ CarryInv /\ CountInv /\ pc = "rehash" /\ Unread = {}
  BY DEF RobinInv, RehashEnd
<1>1. /\ pc' = "rehashed" /\ old' = EmptyBuckets(0) /\ i' = 0
      /\ hash' = hash /\ max_load_factor' = max_load_factor /\ buckets' = buckets
      /\ bucket_count' = bucket_count /\ nb_elements' = nb_elements /\ carry' = carry
      /\ ibucket' = ibucket /\ key' = key
  BY DEF RehashEnd
<1>2. /\ EmptyBuckets(0) \in Arrays(1) /\ UniqueIn(EmptyBuckets(0))
      /\ \A b \in DOMAIN EmptyBuckets(0) : EmptyBuckets(0)[b] = Empty
  <2>1. Max({0, 1}) = 1
    BY MaxOne
  <2>2. QED
    BY <2>1, EmptyArray
<1>3. Unread' = {} /\ UnreadKeys' = {} /\ UnreadKeys = {}
  BY <1>0, <1>1, <1>2 DEF Unread, UnreadKeys
<1>4. Size' = Size /\ Present' = Present
  BY <1>1, <1>3 DEF Size, Present
<1>5. Shape'
  BY <1>0, <1>1, <1>4 DEF Shape
<1>6. OldInv'
  <2>1. 1 \in 1..MaxBuckets
    BY RobinTableAssumption DEF IsPowerOfTwo
  <2>2. QED
    BY <1>1, <1>2, <1>3, <2>1 DEF OldInv
<1>7. CarryInv'
  BY <1>0, <1>1 DEF CarryInv
<1>8. CountInv'
  BY <1>0, <1>1, <1>4 DEF CountInv
<1>9. QED
  BY <1>5, <1>6, <1>7, <1>8, <1>4 DEF RobinInv

\* rehash returns, or the key is inserted.
LEMMA AfterRehashStep ==
    ASSUME RobinInv, AfterRehash
    PROVE  /\ RobinInv'
           /\ \/ pc' = "ready" /\ key' = None /\ Present' = Present \cup ({key} \ {None})
              \/ pc' = "displace" /\ key' = key /\ key # None /\ Present' = Present \cup {key}
<1>0. Shape /\ OldInv /\ CarryInv /\ CountInv /\ pc = "rehashed"
  BY DEF RobinInv, AfterRehash
<1>1. CASE key # None
  <2>1. InsertAt(key) /\ key \in Keys /\ key \notin Present
    BY <1>0, <1>1 DEF AfterRehash, Shape, CountInv
  <2>2. Present \cup ({key} \ {None}) = Present \cup {key}
    BY <1>1
  <2>3. Cardinality(Present \cup {key}) < Size
    BY <1>0, <2>2 DEF CountInv
  <2>4. RobinInv' /\ Present' = Present \cup {key}
    BY <1>0, <2>1, <2>3, InsertStep
  <2>5. QED
    BY <1>1, <2>1, <2>4, InsertAtEnds
<1>2. CASE key = None
  <2>1. /\ pc' = "ready"
        /\ hash' = hash /\ max_load_factor' = max_load_factor /\ buckets' = buckets
        /\ bucket_count' = bucket_count /\ nb_elements' = nb_elements /\ old' = old /\ i' = i
        /\ carry' = carry /\ ibucket' = ibucket /\ key' = key
    BY <1>2 DEF AfterRehash
  <2>2. Size' = Size /\ Unread' = Unread /\ UnreadKeys' = UnreadKeys /\ Present' = Present
    BY <2>1 DEF Size, Unread, UnreadKeys, Present
  <2>3. Shape'
    BY <1>0, <2>1, <2>2 DEF Shape
  <2>4. OldInv'
    BY <1>0, <2>1, <2>2 DEF OldInv
  <2>5. CarryInv'
    BY <1>0, <2>1 DEF CarryInv
  <2>6. CountInv'
    BY <1>0, <1>2, <2>1, <2>2 DEF CountInv
  <2>7. Present' = Present \cup ({key} \ {None})
    BY <1>2, <2>2
  <2>8. QED
    BY <1>2, <2>1, <2>3, <2>4, <2>5, <2>6, <2>7 DEF RobinInv
<1>3. QED
  BY <1>1, <1>2

\* The load factor leaves a bucket free after the next insertion.
LEMMA BelowThreshold ==
    ASSUME Shape, NEW x \in Nat, ~(x >= load_threshold(bucket_count))
    PROVE  x + 1 < Size
<1>1. bucket_count \in Nat /\ max_load_factor \in 20..95 /\ Size = IF bucket_count = 0 THEN 1 ELSE bucket_count
  BY Sizes, RobinTableAssumption DEF Shape, IsPowerOfTwo
<1> DEFINE t == (bucket_count * max_load_factor) \div 100
           y == bucket_count * max_load_factor
<1>2. y \in Nat /\ y <= 95 * bucket_count
  BY <1>1
<1>3. t = y \div 100 /\ load_threshold(bucket_count) = t
  BY DEF load_threshold
<1> HIDE DEF y, t
<1>4. t \in Int /\ 100 * t <= y
  BY <1>2, <1>3
<1>5. x < t
  BY <1>3, <1>4
<1>6. QED
  BY <1>1, <1>2, <1>4, <1>5

\* The count computed for a number of elements is larger than the number.
LEMMA CountForMore ==
    ASSUME Shape, NEW x \in Nat
    PROVE  CountFor(x) \in Nat /\ (x # 0 => x < CountFor(x))
<1> DEFINE m == max_load_factor
           y == x * 100 + m - 1
           t == y \div m
<1>1. m \in 20..95
  BY DEF Shape
<1>2. CountFor(x) = t
  BY DEF CountFor
<1> HIDE DEF m
<1>3. y \in Nat /\ m \in Nat \ {0}
  BY <1>1
<1> HIDE DEF y
<1>4. t \in Int /\ y = m * t + (y % m) /\ y % m \in 0..(m - 1)
  BY <1>3
<1> HIDE DEF t
<1>5. y < m * (t + 1)
  BY <1>1, <1>3, <1>4
<1>6. x * 100 <= m * t
  <2>1. y = x * 100 + m - 1
    BY DEF y
  <2>2. m * (t + 1) = m * t + m
    BY <1>1, <1>4
  <2>3. QED
    BY <1>1, <1>4, <1>5, <2>1, <2>2
<1>7. t >= 0
  <2>1. SUFFICES ASSUME t <= -1 PROVE FALSE
    BY <1>4
  <2>2. m * t <= -1
    BY <1>1, <1>4, <2>1
  <2>3. QED
    BY <1>6, <2>2, <1>1, <1>4
<1>8. ASSUME x # 0, t <= x PROVE FALSE
  <2>1. m * t <= m * x
    BY <1>1, <1>4, <1>8
  <2>2. m * x <= 95 * x
    BY <1>1
  <2>3. m * t \in Int /\ m * x \in Int
    BY <1>1, <1>4
  <2>4. QED
    BY <1>6, <1>8, <2>1, <2>2, <2>3
<1>9. QED
  BY <1>2, <1>4, <1>7, <1>8

\* A count rounded up to a power of two.
LEMMA RoundUpIs ==
    ASSUME NEW c \in Nat, c <= MaxBuckets
    PROVE  /\ RoundUp(c) \in 0..MaxBuckets /\ RoundUp(c) >= c
           /\ RoundUp(c) = 0 \/ IsPowerOfTwo(RoundUp(c))
<1> DEFINE S == {n \in 0..MaxBuckets : n >= c /\ (n = 0 \/ IsPowerOfTwo(n))}
<1>1. MaxBuckets \in Nat \ {0} /\ IsPowerOfTwo(MaxBuckets)
  BY RobinTableAssumption DEF IsPowerOfTwo
<1>2. RoundUp(c) = Min(S)
  BY DEF RoundUp
<1>3. MaxBuckets \in S
  BY <1>1
<1>4. S \in SUBSET Nat
  BY <1>1
<1>5. Min(S) \in S
  BY <1>3, <1>4, MinLeast
<1>6. QED
  BY <1>2, <1>5

\* insert_impl keeps the invariant.
LEMMA RobinInsertStep ==
    ASSUME RobinInv, NEW k \in Keys, Insert(k)
    PROVE  /\ RobinInv' /\ k \notin Present
           /\ \/ pc' = "ready" /\ key' = None /\ Present' = Present \cup {k}
              \/ pc' = "rehash" /\ key' = k /\ Present' = Present
              \/ pc' = "displace" /\ key' = k /\ Present' = Present \cup {k}
<1>0. Shape /\ OldInv /\ CarryInv /\ CountInv /\ pc = "ready" /\ find_impl(k) = -1
  BY DEF RobinInv, Insert
<1>1. Present = Stored(buckets) /\ Cardinality(Present) = nb_elements /\ nb_elements \in Nat
  BY <1>0, AllStored DEF CountInv
<1>2. k \notin Present
  BY <1>0, <1>1, FindExact
<1>3. k # None
  BY RobinTableAssumption
<1>4. Cardinality(Present \cup {k}) = nb_elements + 1
  <2>1. IsFiniteSet(Present)
    BY <1>0, AllKeys
  <2>2. QED
    BY <1>1, <1>2, <2>1, FS_AddElement
<1>5. Size \in Nat \ {0} /\ IsPowerOfTwo(Size)
  BY <1>0, Sizes
<1>6. CASE grow_on_next_insert \/ nb_elements >= load_threshold(bucket_count)
  <2>1. RehashTo(2 * Size, k)
    BY <1>6 DEF Insert, Size
  <2>2. 2 * Size <= MaxBuckets /\ MaxBuckets \in Nat
    BY <2>1, RobinTableAssumption DEF RehashTo, IsPowerOfTwo
  <2>3. 2 * Size \in 0..MaxBuckets /\ 2 * Size # 0
    BY <1>5, <2>2
  <2>4. IsPowerOfTwo(2 * Size)
    BY <1>5, DoublePower
  <2>5. nb_elements < Size
    <3>1. key = None /\ Cardinality(Present \cup ({key} \ {None})) < Size
      BY <1>0 DEF CountInv
    <3>2. Present \cup ({key} \ {None}) = Present
      BY <3>1
    <3>3. QED
      BY <1>1, <3>1, <3>2, Zenon
  <2>6. Max({2 * Size, 1}) = 2 * Size
    <3>1. 2 * Size \in Nat
      BY <1>5
    <3>2. QED
      BY <2>3, <3>1, MaxOne
  <2>7. Cardinality(Present \cup ({k} \ {None})) < Max({2 * Size, 1})
    <3>1. Present \cup ({k} \ {None}) = Present \cup {k}
      BY <1>3
    <3>2. nb_elements + 1 < 2 * Size
      BY <1>1, <1>5, <2>5
    <3>3. QED
      BY <1>4, <2>6, <3>1, <3>2
  <2>8. RobinInv' /\ Present' = Present
    BY <1>0, <1>2, <2>1, <2>3, <2>4, <2>7, RehashStep
  <2>9. QED
    BY <1>2, <2>1, <2>8 DEF RehashTo
<1>7. CASE ~(grow_on_next_insert \/ nb_elements >= load_threshold(bucket_count))
  <2>1. InsertAt(k)
    BY <1>7 DEF Insert
  <2>2. nb_elements + 1 < Size
    BY <1>0, <1>1, <1>7, BelowThreshold
  <2>3. Cardinality(Present \cup {k}) < Size
    BY <1>4, <2>2
  <2>4. RobinInv' /\ Present' = Present \cup {k}
    BY <1>0, <1>2, <2>1, <2>3, InsertStep
  <2>5. QED
    BY <1>2, <2>1, <2>4, InsertAtEnds
<1>8. QED
  BY <1>6, <1>7

\* Max of two naturals.
LEMMA MaxTwo ==
    ASSUME NEW x \in Nat, NEW y \in Nat
    PROVE  Max({x, y}) = IF x >= y THEN x ELSE y
<1>1. PICK m \in {x, y} : m = IF x >= y THEN x ELSE y
  OBVIOUS
<1>2. \A z \in {x, y} : m >= z
  BY <1>1
<1>3. ASSUME NEW w \in {x, y}, \A z \in {x, y} : w >= z PROVE w = m
  BY <1>1, <1>3
<1>4. QED
  BY <1>1, <1>2, <1>3 DEF Max

\* rehash keeps the invariant.
LEMMA RobinRehashStep ==
    ASSUME RobinInv, NEW c \in Nat, Rehash(c)
    PROVE  RobinInv' /\ Present' = Present /\ pc' = "rehash" /\ key' = None
<1>0. Shape /\ OldInv /\ CarryInv /\ CountInv /\ pc = "ready"
  BY DEF RobinInv, Rehash
<1>1. Cardinality(Present) = nb_elements /\ nb_elements \in Nat
  BY <1>0, AllStored DEF CountInv
<1> DEFINE x == CountFor(nb_elements)
           y == Max({c, x})
           n == RoundUp(y)
<1>2. x \in Nat /\ (nb_elements # 0 => nb_elements < x)
  BY <1>0, <1>1, CountForMore
<1>3. y \in Nat /\ y >= x
  <2> HIDE DEF x
  <2>1. y = IF c >= x THEN c ELSE x
    BY <1>2, MaxTwo
  <2>2. QED
    BY <1>2, <2>1
<1>4. y <= MaxBuckets /\ RehashTo(n, None)
  BY DEF Rehash
<1> HIDE DEF y
<1>5. n \in 0..MaxBuckets /\ n >= y /\ (n = 0 \/ IsPowerOfTwo(n))
  BY <1>3, <1>4, RoundUpIs
<1>6. n \in Nat
  BY <1>5
<1> HIDE DEF n, x
<1>7. nb_elements < Max({n, 1})
  <2>1. Max({n, 1}) = IF n = 0 THEN 1 ELSE n
    BY <1>6, MaxOne
  <2>2. QED
    BY <1>1, <1>2, <1>3, <1>5, <1>6, <2>1
<1>8. Present \cup ({None} \ {None}) = Present
  OBVIOUS
<1>9. None \notin Present
  BY <1>0, AllKeys, RobinTableAssumption
<1>10. RobinInv' /\ Present' = Present
  BY <1>0, <1>1, <1>4, <1>5, <1>7, <1>8, <1>9, RehashStep
<1>11. QED
  BY <1>4, <1>10 DEF RehashTo

\* erase_from_bucket keeps the invariant.
LEMMA RobinEraseStep ==
    ASSUME RobinInv, NEW k \in Keys, Erase(k)
    PROVE  RobinInv' /\ k \in Present /\ Present' = Present \ {k}
<1>0. Shape /\ OldInv /\ CarryInv /\ CountInv /\ pc = "ready" /\ find_impl(k) # -1
  BY DEF RobinInv, Erase
<1> DEFINE n == Size
           p == find_impl(k)
           S == {d \in 1..bucket_count : buckets[(p + d) % bucket_count].dist <= 0}
           run == Min(S)
<1>1. n \in Nat \ {0} /\ n = IF bucket_count = 0 THEN 1 ELSE bucket_count
  BY <1>0, Sizes
<1>2. /\ buckets \in Arrays(n) /\ OrderOf(buckets, n, hash) /\ UniqueIn(buckets)
      /\ hash \in [Keys -> Nat] /\ DOMAIN buckets = 0..(n - 1)
  BY <1>0 DEF Shape, Arrays
<1>3. p \in 0..(n - 1) /\ buckets[p].key = k /\ k \in Stored(buckets)
  <2>1. /\ {b \in DOMAIN buckets : buckets[b].key = k} = {p} \ {-1}
        /\ p = -1 \/ p \in 0..(n - 1)
        /\ p = -1 <=> k \notin Stored(buckets)
    BY FindExact
  <2> HIDE DEF p, n
  <2>2. p # -1
    BY <1>0 DEF p
  <2>3. p \in {b \in DOMAIN buckets : buckets[b].key = k}
    BY <2>1, <2>2
  <2>4. QED
    BY <2>1, <2>2, <2>3
<1>4. buckets[p] # Empty
  <2> HIDE DEF p, n
  <2>1. Empty.key = None /\ k # None
    BY RobinTableAssumption DEF Empty, Entry
  <2>2. QED
    BY <1>3, <2>1
<1>5. PICK z \in 0..(n - 1) : buckets[z] = Empty
  BY Hole
<1> HIDE DEF p
<1>6. bucket_count = n
  <2>1. z # p
    BY <1>4, <1>5
  <2> HIDE DEF n
  <2>2. n # 1
    BY <1>1, <1>3, <1>5, <2>1
  <2>3. QED
    BY <1>1, <2>2
<1> HIDE DEF n, S, run
<1> DEFINE w == (z - p) % n
<1>7. w \in 1..(n - 1) /\ (p + w) % n = z
  <2>0. n \in Nat \ {0} /\ p \in 0..(n - 1)
    BY <1>1, <1>3
  <2>1. w \in 0..(n - 1) /\ (p + w) % n = z
    BY <2>0, OffsetBack, Zenon
  <2>2. w # 0
    <3>1. ASSUME w = 0 PROVE FALSE
      <4>0. p % n = p /\ p + 0 = p
        BY <2>0, Within
      <4>1. (p + 0) % n = p
        BY <4>0
      <4>2. QED
        BY <1>4, <1>5, <2>1, <3>1, <4>1
    <3>2. QED
      BY <3>1
  <2> HIDE DEF w
  <2>3. QED
    BY <1>1, <2>1, <2>2
<1> HIDE DEF w
<1>8. w \in S
  <2>1. buckets[z].dist = -1
    BY <1>5 DEF Empty, Entry
  <2>2. QED
    BY <1>1, <1>6, <1>7, <2>1 DEF S
<1>9. run \in S /\ \A y \in S : run <= y
  <2>1. S \in SUBSET Nat
    BY DEF S
  <2>2. QED
    BY <1>8, <2>1, MinLeast DEF run
<1>10. run \in 1..(n - 1)
  <2>1. run \in 1..n /\ run <= w
    BY <1>6, <1>8, <1>9 DEF S
  <2>2. QED
    BY <1>1, <1>7, <2>1
<1>11. RunEnds(buckets, n, p, run)
  <2>1. buckets[(p + run) % n].dist <= 0
    BY <1>6, <1>9 DEF S
  <2>2. ASSUME NEW d \in 1..(run - 1) PROVE buckets[(p + d) % n].dist > 0
    <3>1. d \in 1..bucket_count /\ d < run
      BY <1>1, <1>6, <1>10
    <3>2. d \notin S
      BY <1>9, <1>10, <3>1
    <3>3. ~(buckets[(p + d) % n].dist <= 0)
      BY <1>6, <3>1, <3>2 DEF S
    <3>4. buckets[(p + d) % n].dist \in Int
      <4>1. (p + d) % n \in 0..(n - 1)
        BY <1>1, <1>3, <3>1, <1>6, d \in 0..n, Ahead
      <4>2. buckets[(p + d) % n] \in Cell
        BY <1>2, <4>1 DEF Arrays
      <4>3. QED
        BY <4>2, CellFacts
    <3>5. QED
      BY <3>3, <3>4
  <2>3. QED
    BY <2>1, <2>2 DEF RunEnds
<1>12. buckets' = Shifted(buckets, n, p, run)
  <2>1. buckets' = [b \in DOMAIN buckets |->
            CASE (b - p) % bucket_count < run - 1 -> [buckets[next_bucket(b)] EXCEPT !.dist = @ - 1]
              [] (b - p) % bucket_count = run - 1 -> Empty
              [] OTHER -> buckets[b]]
    BY DEF Erase, p, run, S
  <2>2. \A b : next_bucket(b) = (b + 1) % n
    BY DEF next_bucket, n, Size
  <2>3. QED
    BY <1>2, <1>6, <2>1, <2>2 DEF Shifted
<1>13. /\ buckets' \in Arrays(n) /\ OrderOf(buckets', n, hash) /\ UniqueIn(buckets')
       /\ Stored(buckets') = Stored(buckets) \ {k}
  BY <1>1, <1>2, <1>3, <1>4, <1>10, <1>11, <1>12, ShiftOrder
<1>14. /\ nb_elements' = nb_elements - 1 /\ hash' = hash /\ max_load_factor' = max_load_factor
       /\ pc' = pc /\ bucket_count' = bucket_count /\ old' = old /\ i' = i
       /\ carry' = carry /\ ibucket' = ibucket /\ key' = key
  BY DEF Erase
<1>15. Size' = n /\ Unread' = Unread /\ UnreadKeys' = UnreadKeys
  BY <1>14 DEF n, Size, Unread, UnreadKeys
<1>16. carry = Empty /\ carry.key = None /\ UnreadKeys = {} /\ Unread = {}
       /\ Present = Stored(buckets) /\ Cardinality(Present) = nb_elements
  BY <1>0, AllStored
<1>17. Present' = Present \ {k} /\ k \in Present
  BY <1>3, <1>13, <1>14, <1>15, <1>16 DEF Present
<1>18. Shape'
  BY <1>0, <1>13, <1>14, <1>15 DEF Shape
<1>19. OldInv'
  BY <1>0, <1>14, <1>15, <1>16 DEF OldInv
<1>20. CarryInv'
  BY <1>0, <1>14 DEF CarryInv
<1>21. CountInv'
  <2>1. IsFiniteSet(Present) /\ Cardinality(Present) \in Nat
    BY <1>0, AllKeys
  <2>2. Cardinality(Present') = Cardinality(Present) - 1 /\ Cardinality(Present') \in Nat
    <3>1. IsFiniteSet(Present') /\ Cardinality(Present') = Cardinality(Present) - 1
      BY <1>17, <2>1, FS_RemoveElement
    <3>2. QED
      BY <3>1, FS_CardinalityType
  <2>3. key' = None /\ pc' = "ready"
    BY <1>0, <1>14 DEF CountInv
  <2>4. Present' \cup ({key'} \ {None}) = Present'
    BY <2>3
  <2>5. nb_elements < n
    <3>1. key = None /\ Cardinality(Present \cup ({key} \ {None})) < Size
      BY <1>0 DEF CountInv
    <3>2. Present \cup ({key} \ {None}) = Present
      BY <3>1
    <3>3. QED
      BY <1>16, <3>1, <3>2, Zenon DEF n
  <2>6. Cardinality(Present') = nb_elements' + 0 /\ nb_elements' \in Nat /\ Cardinality(Present') < n
    BY <1>1, <1>14, <1>16, <2>1, <2>2, <2>5
  <2>7. QED
    BY <1>15, <2>3, <2>4, <2>6, Zenon DEF CountInv
<1>22. QED
  BY <1>18, <1>19, <1>20, <1>21, <1>17 DEF RobinInv

\* clear keeps the invariant.
LEMMA RobinClearStep ==
    ASSUME RobinInv, Clear
    PROVE  RobinInv' /\ Present' = {}
<1>0. Shape /\ OldInv /\ CarryInv /\ CountInv /\ pc = "ready"
  BY DEF RobinInv, Clear
<1>1. /\ buckets' = EmptyBuckets(bucket_count) /\ nb_elements' = 0
      /\ hash' = hash /\ max_load_factor' = max_load_factor
      /\ pc' = pc /\ bucket_count' = bucket_count /\ old' = old /\ i' = i
      /\ carry' = carry /\ ibucket' = ibucket /\ key' = key
  BY DEF Clear
<1>2. bucket_count \in Nat
  BY <1>0, RobinTableAssumption DEF Shape, IsPowerOfTwo
<1>3. Size' = Size /\ Unread' = Unread /\ UnreadKeys' = UnreadKeys /\ Size \in Nat \ {0}
  BY <1>0, <1>1, Sizes DEF Size, Unread, UnreadKeys
<1>4. /\ buckets' \in Arrays(Size) /\ OrderOf(buckets', Size, hash) /\ UniqueIn(buckets')
      /\ Stored(buckets') = {}
  BY <1>1, <1>2, EmptyArray DEF Size
<1>5. carry = Empty /\ carry.key = None /\ UnreadKeys = {} /\ Unread = {}
  BY <1>0, AllStored
<1>6. Present' = {}
  BY <1>1, <1>3, <1>4, <1>5 DEF Present
<1>7. Shape'
  BY <1>0, <1>1, <1>3, <1>4 DEF Shape
<1>8. OldInv'
  BY <1>0, <1>1, <1>3, <1>5 DEF OldInv
<1>9. CarryInv'
  BY <1>0, <1>1 DEF CarryInv
<1>10. CountInv'
  <2>1. key' = None /\ pc' = "ready"
    BY <1>0, <1>1 DEF CountInv
  <2>2. Present' \cup ({key'} \ {None}) = {}
    BY <1>6, <2>1
  <2>3. Cardinality({}) = 0
    BY FS_EmptySet
  <2>4. 0 < Size /\ 0 = 0 + 0
    BY <1>3
  <2>5. QED
    BY <1>1, <1>3, <1>6, <2>1, <2>2, <2>3, <2>4 DEF CountInv
<1>11. QED
  BY <1>7, <1>8, <1>9, <1>10, <1>6 DEF RobinInv

\* max_load_factor keeps the invariant.
LEMMA SetMaxStep ==
    ASSUME RobinInv, NEW x \in 20..95, SetMaxLoadFactor(x)
    PROVE  RobinInv' /\ Present' = Present
<1>0. Shape /\ OldInv /\ CarryInv /\ CountInv
  BY DEF RobinInv
<1>1. /\ max_load_factor' = x /\ buckets' = buckets /\ nb_elements' = nb_elements
      /\ hash' = hash /\ pc' = pc /\ bucket_count' = bucket_count /\ old' = old /\ i' = i
      /\ carry' = carry /\ ibucket' = ibucket /\ key' = key
  BY DEF SetMaxLoadFactor
<1>2. Size' = Size /\ Unread' = Unread /\ UnreadKeys' = UnreadKeys /\ Present' = Present
  BY <1>1 DEF Size, Unread, UnreadKeys, Present
<1>3. Shape'
  BY <1>0, <1>1, <1>2 DEF Shape
<1>4. OldInv'
  BY <1>0, <1>1, <1>2 DEF OldInv
<1>5. CarryInv'
  BY <1>0, <1>1, <1>2 DEF CarryInv, Carried
<1>6. CountInv'
  BY <1>0, <1>1, <1>2 DEF CountInv
<1>7. QED
  BY <1>3, <1>4, <1>5, <1>6, <1>2 DEF RobinInv

\* An empty table satisfies the invariant.
LEMMA RobinEmpty ==
    ASSUME hash \in Hashes, pc = "ready", bucket_count \in 0..MaxBuckets,
           bucket_count = 0 \/ IsPowerOfTwo(bucket_count),
           buckets = EmptyBuckets(bucket_count), nb_elements = 0, max_load_factor = Loads[1],
           old = EmptyBuckets(0), i = 0, carry = Empty, key = None
    PROVE  RobinInv
<1>1. bucket_count \in Nat /\ 1 \in 1..MaxBuckets
  BY RobinTableAssumption DEF IsPowerOfTwo
<1>2. Shape
  <2>1. max_load_factor \in 20..95
    BY RobinTableAssumption
  <2>2. /\ buckets \in Arrays(Size) /\ OrderOf(buckets, Size, hash) /\ UniqueIn(buckets)
    BY <1>1, EmptyArray DEF Size
  <2>3. hash \in [Keys -> Nat]
    BY RobinTableAssumption
  <2>4. QED
    BY <2>1, <2>2, <2>3 DEF Shape
<1>3. /\ old \in Arrays(1) /\ UniqueIn(old)
      /\ \A b \in DOMAIN old : old[b] = Empty
  <2>1. Max({0, 1}) = 1
    BY MaxOne
  <2>2. QED
    BY <2>1, EmptyArray
<1>4. Unread = {} /\ UnreadKeys = {}
  BY <1>3 DEF Unread, UnreadKeys
<1>5. OldInv
  BY <1>1, <1>3, <1>4 DEF OldInv
<1>6. CarryInv
  BY DEF CarryInv
<1>7. Present = {}
  <2>1. Stored(buckets) = {}
    BY <1>1, EmptyArray, Zenon
  <2>2. QED
    BY <1>4, <2>1 DEF Present, Empty, Entry
<1>8. CountInv
  <2>1. Present \cup ({key} \ {None}) = {}
    BY <1>7
  <2>2. Cardinality({}) = 0
    BY FS_EmptySet
  <2>3. 0 < Size /\ 0 = 0 + 0
    BY <1>2, Sizes
  <2>4. QED
    BY <1>7, <2>1, <2>2, <2>3 DEF CountInv
<1>9. QED
  BY <1>2, <1>5, <1>6, <1>8 DEF RobinInv

-----------------------------------------------------------------------------
(* The theorems.                                                           *)

\* Every reachable state of a robin_map satisfies its invariant: the buckets are
\* in robin hood order, no key is in two places, the element in hand is at its
\* true distance, the counter is right and a bucket is empty.
THEOREM RobinInvariant == Spec => []RobinInv
<1>1. Init => RobinInv
  <2>1. SUFFICES ASSUME Init PROVE RobinInv
    OBVIOUS
  <2>2. PICK c \in Counts : bucket_count = RoundUp(c)
    BY <2>1 DEF Init
  <2>3. c \in Nat /\ c <= MaxBuckets
    BY RobinTableAssumption DEF IsPowerOfTwo
  <2>4. bucket_count \in 0..MaxBuckets /\ (bucket_count = 0 \/ IsPowerOfTwo(bucket_count))
    BY <2>2, <2>3, RoundUpIs
  <2>5. QED
    BY <2>1, <2>4, RobinEmpty DEF Init
<1>2. RobinInv /\ [Next]_vars => RobinInv'
  <2>1. SUFFICES ASSUME RobinInv, [Next]_vars PROVE RobinInv'
    OBVIOUS
  <2>2. CASE UNCHANGED vars
    BY <2>1, <2>2, Frame
  <2>3. CASE Next
    <3>1. ASSUME NEW k \in Keys, Insert(k) \/ Erase(k) PROVE RobinInv'
      BY <2>1, <3>1, RobinInsertStep, RobinEraseStep
    <3>2. ASSUME NEW c \in Counts, Rehash(c) \/ Reserve(c) PROVE RobinInv'
      <4>1. c \in Nat
        BY RobinTableAssumption DEF IsPowerOfTwo
      <4>2. CountFor(c) \in Nat
        BY <2>1, <4>1, CountForMore DEF RobinInv
      <4>3. QED
        BY <2>1, <3>2, <4>1, <4>2, RobinRehashStep DEF Reserve
    <3>3. ASSUME NEW n \in DOMAIN Loads, SetMaxLoadFactor(Loads[n]) PROVE RobinInv'
      <4>1. Loads[n] \in 20..95
        BY RobinTableAssumption
      <4>2. QED
        BY <2>1, <3>3, <4>1, SetMaxStep
    <3>4. ASSUME Clear PROVE RobinInv'
      BY <2>1, <3>4, RobinClearStep
    <3>5. ASSUME Displace \/ RehashNext \/ RehashPlace \/ RehashEnd \/ AfterRehash PROVE RobinInv'
      BY <2>1, <3>5, DisplaceStep, RehashNextStep, RehashPlaceStep, RehashEndStep, AfterRehashStep
    <3>6. QED
      BY <2>3, <3>1, <3>2, <3>3, <3>4, <3>5 DEF Next
  <2>4. QED
    BY <2>1, <2>2, <2>3
<1>3. QED
  BY <1>1, <1>2, PTL DEF Spec

\* The order a lookup relies on holds in every state, while elements move too.
THEOREM RobinHoodOrderHolds == Spec => []RobinHoodOrder
<1>1. RobinInv => RobinHoodOrder
  <2>1. SUFFICES ASSUME RobinInv, bucket_count > 0, NEW b \in DOMAIN buckets, buckets[b] # Empty
                 PROVE  /\ buckets[b].hash = truncate(hash[buckets[b].key])
                        /\ buckets[b].dist = (b - bucket_for_hash(hash[buckets[b].key], bucket_count)) % bucket_count
                        /\ buckets[b].dist <= buckets[(b - 1) % bucket_count].dist + 1
    BY DEF RobinHoodOrder
  <2>2. Shape
    BY <2>1 DEF RobinInv
  <2>3. Size = bucket_count /\ b \in 0..(Size - 1)
    BY <2>1, <2>2, Sizes, SMTT(30) DEF Shape, Arrays
  <2>4. buckets[b].key \in Keys
    <3>1. buckets[b] \in Cell
      BY <2>2, <2>3 DEF Shape, Arrays
    <3>2. QED
      BY <2>1, <3>1, CellFacts
  <2>5. bucket_for_hash(hash[buckets[b].key], bucket_count) = hash[buckets[b].key] % Size
    BY <2>2, <2>4, Sizes
  <2>6. QED
    BY <2>1, <2>2, <2>3, <2>5 DEF Shape, OrderOf
<1>2. QED
  BY <1>1, RobinInvariant, PTL

\* robin_map's find finds exactly the keys of the table, each in one bucket.
THEOREM RobinLookupsExact == Spec => []LookupsExact
<1>1. RobinInv => LookupsExact
  BY FindExact DEF LookupsExact
<1>2. QED
  BY <1>1, RobinInvariant, PTL

\* robin_map's counter is the number of full buckets, and one bucket is empty.
THEOREM RobinAccounting == Spec => []Accounting
<1>1. RobinInv => Accounting
  <2>1. SUFFICES ASSUME RobinInv, pc = "ready" PROVE Accounting
    BY DEF Accounting
  <2>2. Shape /\ Size \in Nat \ {0}
    BY <2>1, Sizes DEF RobinInv
  <2>3. Cardinality({b \in DOMAIN buckets : buckets[b] # Empty}) = Cardinality(Stored(buckets))
    BY <2>2, StoredCount DEF Shape
  <2>4. Cardinality(Stored(buckets)) = nb_elements
    BY <2>1, AllStored
  <2>5. \E b \in DOMAIN buckets : buckets[b] = Empty
    BY <2>1, <2>2, Hole DEF Shape, Arrays
  <2>6. QED
    BY <2>3, <2>4, <2>5 DEF Accounting
<1>2. QED
  BY <1>1, RobinInvariant, PTL

\* find_guaranteed finds every key that is there, though it does not compare the
\* key of a bucket that is the only one with the hash, in every table of at most
\* 2^31 buckets: beyond them a bucket number does not fit an int.
THEOREM GuaranteedFindsPresentHolds == Spec => []GuaranteedFindsPresent
<1>1. RobinInv => GuaranteedFindsPresent
  BY GuaranteedFinds DEF GuaranteedFindsPresent
<1>2. QED
  BY <1>1, RobinInvariant, PTL

-----------------------------------------------------------------------------
(* robin_map is a set of keys.                                             *)

RobinSet == INSTANCE HashSet
               WITH members <- Contents, working <- pc # "ready", inserting <- key

\* The keys of the table are those present, without the one being inserted.
LEMMA ContentsIs == Contents = Present \ {key}
  BY DEF Contents, Present, UnreadKeys

\* Every step of the table is one of the set, or leaves it as it is.
LEMMA RefinementStep ==
    ASSUME RobinInv, Next
    PROVE  RobinSet!Next \/ UNCHANGED <<Contents, pc # "ready", key>>
<1>0. Shape /\ OldInv /\ CarryInv /\ CountInv
  BY DEF RobinInv
<1>1. Contents = Present \ {key} /\ Contents' = Present' \ {key'}
  BY ContentsIs DEF Contents, Present, UnreadKeys
<1>2. None \notin Present /\ (pc = "ready" => key = None /\ Contents = Present)
  <2>1. None \notin Present
    BY <1>0, AllKeys, RobinTableAssumption
  <2>2. QED
    BY <1>0, <1>1, <2>1 DEF CountInv
<1>3. ASSUME NEW k \in Keys, Insert(k) PROVE RobinSet!Next
  <2>0. pc = "ready" /\ k # None
    BY <1>3, RobinTableAssumption DEF Insert
  <2>1. /\ k \notin Present
        /\ \/ pc' = "ready" /\ key' = None /\ Present' = Present \cup {k}
           \/ pc' = "rehash" /\ key' = k /\ Present' = Present
           \/ pc' = "displace" /\ key' = k /\ Present' = Present \cup {k}
    BY <1>3, RobinInsertStep
  <2>2. CASE pc' = "ready" /\ key' = None /\ Present' = Present \cup {k}
    <3>1. Contents' = Contents \cup {k}
      BY <1>1, <1>2, <2>0, <2>2
    <3>2. RobinSet!Insert(k)
      BY <1>2, <2>0, <2>1, <2>2, <3>1 DEF RobinSet!Insert
    <3>3. QED
      BY <3>2 DEF RobinSet!Next
  <2>3. CASE pc' \in {"rehash", "displace"} /\ key' = k /\ Present' \ {k} = Present
    <3>1. Contents' = Contents
      BY <1>1, <1>2, <2>0, <2>3
    <3>2. RobinSet!Begin(k)
      BY <1>2, <2>0, <2>1, <2>3, <3>1 DEF RobinSet!Begin
    <3>3. QED
      BY <3>2 DEF RobinSet!Next
  <2>4. QED
    BY <2>1, <2>2, <2>3
<1>4. ASSUME NEW k \in Keys, Erase(k) PROVE RobinSet!Next
  <2>0. pc = "ready" /\ pc' = pc /\ key' = key
    BY <1>4 DEF Erase
  <2>1. k \in Present /\ Present' = Present \ {k}
    BY <1>4, RobinEraseStep
  <2>2. Contents' = Contents \ {k}
    BY <1>1, <1>2, <2>0, <2>1
  <2>3. RobinSet!Erase(k)
    BY <1>2, <2>0, <2>1, <2>2 DEF RobinSet!Erase
  <2>4. QED
    BY <2>3 DEF RobinSet!Next
<1>5. ASSUME NEW c \in Nat, Rehash(c) PROVE RobinSet!Next
  <2>0. pc = "ready"
    BY <1>5 DEF Rehash
  <2>1. Present' = Present /\ pc' = "rehash" /\ key' = None
    BY <1>5, RobinRehashStep
  <2>2. RobinSet!Begin(None)
    BY <1>1, <1>2, <2>0, <2>1 DEF RobinSet!Begin
  <2>3. QED
    BY <2>2 DEF RobinSet!Next
<1>6. ASSUME NEW x \in 20..95, SetMaxLoadFactor(x) PROVE UNCHANGED <<Contents, pc # "ready", key>>
  <2>1. Present' = Present /\ pc' = pc /\ key' = key
    BY <1>6, SetMaxStep DEF SetMaxLoadFactor
  <2>2. QED
    BY <1>1, <2>1
<1>7. ASSUME Clear PROVE RobinSet!Next
  <2>0. pc = "ready" /\ pc' = pc /\ key' = key
    BY <1>7 DEF Clear
  <2>1. Present' = {}
    BY <1>7, RobinClearStep
  <2>2. RobinSet!Clear
    BY <1>1, <2>0, <2>1 DEF RobinSet!Clear
  <2>3. QED
    BY <2>2 DEF RobinSet!Next
<1>8. ASSUME Displace PROVE RobinSet!Next \/ UNCHANGED <<Contents, pc # "ready", key>>
  <2>0. /\ pc = "displace" /\ key \in Present
        /\ (pc' = "ready" /\ key' = None) \/ (pc' = pc /\ key' = key)
    BY <1>0, <1>8 DEF Displace, CountInv
  <2>1. Present' = Present
    BY <1>8, DisplaceStep
  <2>2. CASE pc' = "ready" /\ key' = None
    <3>1. Contents' = Contents \cup ({key} \ {None})
      BY <1>1, <1>2, <2>0, <2>1, <2>2
    <3>2. RobinSet!Finish
      BY <2>0, <2>2, <3>1 DEF RobinSet!Finish
    <3>3. QED
      BY <3>2 DEF RobinSet!Next
  <2>3. CASE pc' = pc /\ key' = key
    BY <1>1, <2>1, <2>3
  <2>4. QED
    BY <2>0, <2>2, <2>3
<1>9. ASSUME RehashNext \/ RehashPlace \/ RehashEnd PROVE UNCHANGED <<Contents, pc # "ready", key>>
  <2>1. Present' = Present
    BY <1>9, RehashNextStep, RehashPlaceStep, RehashEndStep
  <2>2. pc # "ready" /\ pc' # "ready" /\ key' = key
    BY <1>9 DEF RehashNext, RehashPlace, RehashEnd
  <2>3. QED
    BY <1>1, <2>1, <2>2
<1>10. ASSUME AfterRehash PROVE RobinSet!Next \/ UNCHANGED <<Contents, pc # "ready", key>>
  <2>0. pc = "rehashed" /\ key \notin Present
    BY <1>0, <1>10 DEF AfterRehash, CountInv
  <2>1. \/ pc' = "ready" /\ key' = None /\ Present' = Present \cup ({key} \ {None})
        \/ pc' = "displace" /\ key' = key /\ key # None /\ Present' = Present \cup {key}
    BY <1>10, AfterRehashStep
  <2>2. CASE pc' = "ready" /\ key' = None /\ Present' = Present \cup ({key} \ {None})
    <3>1. Contents' = Contents \cup ({key} \ {None})
      BY <1>1, <1>2, <2>0, <2>2
    <3>2. RobinSet!Finish
      BY <2>0, <2>2, <3>1 DEF RobinSet!Finish
    <3>3. QED
      BY <3>2 DEF RobinSet!Next
  <2>3. CASE pc' = "displace" /\ key' = key /\ Present' = Present \cup {key}
    <3>1. Contents' = Contents
      BY <1>1, <2>0, <2>3
    <3>2. QED
      BY <2>0, <2>3, <3>1
  <2>4. QED
    BY <2>1, <2>2, <2>3
<1>11. \A c \in Counts : c \in Nat /\ CountFor(c) \in Nat
  <2>1. \A c \in Counts : c \in Nat
    BY RobinTableAssumption DEF IsPowerOfTwo
  <2>2. QED
    BY <1>0, <2>1, CountForMore
<1>12. \A n \in DOMAIN Loads : Loads[n] \in 20..95
  BY RobinTableAssumption
<1>13. QED
  BY <1>3, <1>4, <1>5, <1>6, <1>7, <1>8, <1>9, <1>10, <1>11, <1>12 DEF Next, Reserve

\* Insert, erase and clear change the set of keys as they should, and no rehash
\* or displacement loses or invents a key: robin_map implements HashSet.
THEOREM RobinImplementsHashSet == Spec => RobinSet!Spec
<1>1. Init => RobinSet!Init
  <2>1. SUFFICES ASSUME Init PROVE RobinSet!Init
    OBVIOUS
  <2>2. Present = {} /\ key = None /\ pc = "ready"
    <3>1. bucket_count \in Nat
      <4>1. PICK c \in Counts : bucket_count = RoundUp(c)
        BY <2>1 DEF Init
      <4>2. c \in Nat /\ c <= MaxBuckets
        BY RobinTableAssumption DEF IsPowerOfTwo
      <4>3. QED
        BY <4>1, <4>2, RoundUpIs
    <3>2. Stored(buckets) = {} /\ carry.key = None
      BY <2>1, <3>1, EmptyArray, Zenon DEF Init, Empty, Entry
    <3>3. UnreadKeys = {}
      BY <2>1, EmptyArray, Zenon DEF Init, UnreadKeys, Unread
    <3>4. QED
      BY <2>1, <3>2, <3>3 DEF Init, Present
  <2>3. QED
    BY <2>2, ContentsIs DEF RobinSet!Init
<1>2. RobinInv /\ [Next]_vars => [RobinSet!Next]_RobinSet!hvars
  <2>1. SUFFICES ASSUME RobinInv, [Next]_vars PROVE [RobinSet!Next]_RobinSet!hvars
    OBVIOUS
  <2>2. CASE Next
    BY <2>1, <2>2, RefinementStep DEF RobinSet!hvars
  <2>3. CASE UNCHANGED vars
    BY <2>3 DEF vars, RobinSet!hvars, Contents, Stored, Unread
  <2>4. QED
    BY <2>1, <2>2, <2>3
<1>3. QED
  BY <1>1, <1>2, RobinInvariant, PTL DEF Spec, RobinSet!Spec
=============================================================================
