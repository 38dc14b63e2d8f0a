---------------------------- MODULE NumberFacts ----------------------------
(***************************************************************************)
(* Facts about numbers and sequences that the proofs need: a set of        *)
(* natural numbers has a smallest, which is how these proofs do induction, *)
(* and a bounded one has a largest; what the remainder of a division by k  *)
(* says of numbers that are k apart, and what the digits of a number in a  *)
(* mixed base are, as div and % compute them; that a loop which updates    *)
(* one value is well defined; that a finite sum, as MapThenSumSet computes *)
(* it, can be taken in any order, in parts, under other names, and with a  *)
(* factor taken out of it; and what FlattenSeq makes of sequences.         *)
(***************************************************************************)
EXTENDS FiniteSetTheorems, FiniteSetsExt, SequencesExt, TLAPS

LessNat == {p \in Nat \X Nat : p[1] < p[2]}

\* m % k, under a name that is expanded only where it is meant to be.
Rem(m, k) == m % k

----------------------------------------------------------------------------
(* Induction.                                                              *)

\* The order of the natural numbers as a relation.
LEMMA LessNatWellFounded == IsWellFoundedOn(LessNat, Nat)
<1>1. IsWellFoundedOn(OpToRel(<, Nat), Nat)
  BY NatLessThanWellFounded
<1> QED
  BY <1>1 DEF LessNat, OpToRel

\* A set of natural numbers has a smallest.
LEMMA Smallest ==
  ASSUME NEW S \in SUBSET Nat, S # {}
  PROVE  \E n \in S : \A m \in S : n <= m
<1>1. PICK n \in S : \A m \in S : <<m, n>> \notin LessNat
  BY LessNatWellFounded, WFMin
<1>2. ASSUME NEW m \in S
      PROVE  n <= m
  <2>1. m \in Nat /\ n \in Nat
    OBVIOUS
  <2>2. ~(m < n)
    BY <1>1, <2>1 DEF LessNat
  <2> QED
    BY <2>1, <2>2
<1> QED
  BY <1>2

\* A bounded set of natural numbers has a largest.
LEMMA Largest ==
  ASSUME NEW b \in Nat, NEW S \in SUBSET (0..b), S # {}
  PROVE  \E n \in S : \A m \in S : n >= m
<1> DEFINE D == {d \in Nat : \E x \in S : d = b - x}
<1>1. D \in SUBSET Nat /\ D # {}
  <2>1. PICK x \in S : TRUE
    OBVIOUS
  <2>2. b - x \in D
    OBVIOUS
  <2> QED
    BY <2>2
<1>2. PICK d \in D : \A e \in D : d <= e
  BY <1>1, Smallest
<1>3. PICK x \in S : d = b - x
  BY <1>2
<1>4. ASSUME NEW y \in S
      PROVE  x >= y
  <2>1. b - y \in D
    OBVIOUS
  <2> QED
    BY <1>2, <1>3, <2>1
<1> QED
  BY <1>3, <1>4

\* Induction up to a bound: what holds of 0 and is handed from one number to
\* the next holds up to b.
LEMMA UpTo ==
  ASSUME NEW b \in Nat, NEW S, 0 \in S,
         \A i \in 0..(b - 1) : i \in S => i + 1 \in S
  PROVE  \A i \in 0..b : i \in S
<1> SUFFICES ASSUME NEW x \in 0..b, x \notin S
             PROVE  FALSE
  OBVIOUS
<1> DEFINE Bad == {n \in 0..b : n \notin S}
<1>1. Bad \in SUBSET Nat /\ Bad # {}
  OBVIOUS
<1>2. PICK n \in Bad : \A m \in Bad : n <= m
  BY <1>1, Smallest
<1>3. n # 0 /\ n \in 0..b
  BY <1>2
<1>4. n - 1 \in 0..(b - 1) /\ n - 1 \notin Bad
  BY <1>2, <1>3
<1>5. n - 1 \in S
  BY <1>4
<1>6. (n - 1) + 1 \in S
  BY <1>4, <1>5
<1>7. (n - 1) + 1 = n
  BY <1>3
<1> QED
  BY <1>2, <1>6, <1>7

\* A loop that updates a value of V n times, with step[1], ..., step[n], and
\* the values it has after 0, 1, ..., n turns.
IsLoop(n, V, base, step) ==
  n \in Nat /\ base \in V /\ step \in [1..n -> [V -> V]]
Turns(h, n, V, base, step) ==
  /\ h \in [0..n -> V]
  /\ h[0] = base
  /\ \A k \in 1..n : h[k] = step[k][h[k - 1]]

\* What a loop computes is well defined.
LEMMA Iterates ==
  ASSUME NEW n, NEW V, NEW base, NEW step, IsLoop(n, V, base, step)
  PROVE  \E h : Turns(h, n, V, base, step)
<1> DEFINE Right(h, m) ==
             h[0] = base /\ \A k \in 1..m : h[k] = step[k][h[k - 1]]
           T == {m \in 0..n : \E h \in [0..n -> V] : Right(h, m)}
<1> USE DEF IsLoop
<1>1. 0 \in T
  <2> DEFINE h == [k \in 0..n |-> base]
  <2>1. h \in [0..n -> V] /\ h[0] = base
    OBVIOUS
  <2>2. 1..0 = {} /\ 0 \in 0..n
    OBVIOUS
  <2> HIDE DEF h
  <2> QED
    BY <2>1, <2>2
<1>2. \A m \in 0..(n - 1) : m \in T => m + 1 \in T
  <2> SUFFICES ASSUME NEW m \in 0..(n - 1), m \in T
               PROVE  m + 1 \in T
    OBVIOUS
  <2>1. PICK h \in [0..n -> V] : Right(h, m)
    OBVIOUS
  <2> DEFINE g == [k \in 0..n |-> IF k = m + 1 THEN step[m + 1][h[m]]
                                  ELSE h[k]]
  <2>2. m + 1 \in 1..n /\ m \in 0..n /\ m + 1 \in 0..n /\ m + 1 # 0
    OBVIOUS
  <2>3. step[m + 1][h[m]] \in V
    BY <2>2
  <2>4. /\ g \in [0..n -> V] /\ g[0] = h[0]
        /\ \A k \in 0..m : g[k] = h[k]
        /\ g[m + 1] = step[m + 1][h[m]]
    BY <2>2, <2>3
  <2> HIDE DEF g
  <2>5. ASSUME NEW k \in 1..(m + 1)
        PROVE  g[k] = step[k][g[k - 1]]
    <3>1. CASE k = m + 1
      <4>1. k - 1 = m /\ m \in 0..m
        BY <3>1
      <4> QED
        BY <2>4, <3>1, <4>1
    <3>2. CASE k # m + 1
      <4>1. k \in 1..m /\ k \in 0..m /\ k - 1 \in 0..m
        BY <3>2
      <4> QED
        BY <2>1, <2>4, <4>1
    <3> QED
      BY <3>1, <3>2
  <2>6. Right(g, m + 1)
    BY <2>1, <2>4, <2>5
  <2> HIDE DEF Right
  <2> QED
    BY <2>2, <2>4, <2>6
<1>3. n \in T
  <2> HIDE DEF T
  <2>1. \A m \in 0..n : m \in T
    BY <1>1, <1>2, UpTo
  <2> QED
    BY <2>1
<1> QED
  BY <1>3 DEF Turns

----------------------------------------------------------------------------
(* Remainders.                                                             *)

\* Division with remainder.
LEMMA Division ==
  ASSUME NEW k \in Nat \ {0}, NEW m \in Int
  PROVE  \E a \in Int : \E r \in 0..(k - 1) : Rem(m, k) = r /\ m = k * a + r
<1> DEFINE a == m \div k
           r == m % k
<1>1. r = m - k * a /\ a \in Int /\ r \in 0..(k - 1)
  OBVIOUS
<1>2. r = Rem(m, k)
  BY DEF Rem
<1> HIDE DEF a, r
<1>3. m = k * a + r
  BY <1>1
<1> QED
  BY <1>1, <1>2, <1>3

\* The remainder is the only one.
LEMMA OneRemainder ==
  ASSUME NEW k \in Nat \ {0}, NEW a \in Int, NEW b \in Int,
         NEW r \in 0..(k - 1), NEW q \in 0..(k - 1), k * a + r = k * b + q
  PROVE  r = q
<1> DEFINE d == a - b
<1>1. d \in Int /\ k * d = q - r
  OBVIOUS
<1> HIDE DEF d
<1>2. CASE d >= 1
  <2>1. k * d >= k
    BY <1>1, <1>2
  <2> QED
    BY <1>1, <2>1
<1>3. CASE d <= -1
  <2>1. k * d <= -k
    BY <1>1, <1>3
  <2> QED
    BY <1>1, <2>1
<1>4. CASE d = 0
  BY <1>1, <1>4
<1> QED
  BY <1>1, <1>2, <1>3, <1>4

\* How to find it.
LEMMA RemainderIs ==
  ASSUME NEW k \in Nat \ {0}, NEW a \in Int, NEW r \in 0..(k - 1),
         NEW m \in Int, m = k * a + r
  PROVE  Rem(m, k) = r
<1>1. PICK b \in Int, q \in 0..(k - 1) : Rem(m, k) = q /\ m = k * b + q
  BY Division
<1> QED
  BY <1>1, OneRemainder

\* It is the same k further on.
LEMMA RemainderShift ==
  ASSUME NEW k \in Nat \ {0}, NEW m \in Int
  PROVE  Rem(m + k, k) = Rem(m, k)
<1>1. PICK a \in Int, r \in 0..(k - 1) : Rem(m, k) = r /\ m = k * a + r
  BY Division
<1> DEFINE c == a + 1
           n == m + k
<1>2. n = k * c + r /\ c \in Int /\ n \in Int
  <2>1. k * c = k * a + k
    BY <1>1
  <2> QED
    BY <1>1, <2>1
<1> HIDE DEF c, n
<1>3. Rem(n, k) = r
  BY <1>2, RemainderIs, ZenonT(60)
<1> QED
  BY <1>1, <1>3 DEF n

\* Fewer than k behind a multiple of k there is none.
LEMMA RemainderOnce ==
  ASSUME NEW k \in Nat \ {0}, NEW m \in Int, NEW j \in 1..(k - 1),
         Rem(m, k) = 0
  PROVE  Rem(m + j, k) # 0
<1>1. PICK a \in Int, r \in 0..(k - 1) : Rem(m, k) = r /\ m = k * a + r
  BY Division
<1> DEFINE n == m + j
<1>2. n = k * a + j /\ n \in Int /\ j \in 0..(k - 1)
  BY <1>1
<1> HIDE DEF n
<1>3. Rem(n, k) = j
  <2>1. PICK b \in Int, q \in 0..(k - 1) : Rem(n, k) = q /\ n = k * b + q
    BY <1>2, Division
  <2>2. k * a + j = k * b + q
    BY <1>2, <2>1
  <2>3. j = q
    BY <1>2, <2>1, <2>2, OneRemainder
  <2> QED
    BY <2>1, <2>3
<1> QED
  BY <1>3 DEF n

\* One of k numbers in a row is a multiple of k.
LEMMA RemainderBelow ==
  ASSUME NEW k \in Nat \ {0}, NEW m \in Int
  PROVE  \E j \in 0..(k - 1) : Rem(m - j, k) = 0
<1>1. PICK a \in Int, r \in 0..(k - 1) : Rem(m, k) = r /\ m = k * a + r
  BY Division
<1> DEFINE n == m - r
           zero == 0
<1>2. n = k * a + zero /\ n \in Int /\ zero \in 0..(k - 1)
  BY <1>1
<1> HIDE DEF n, zero
<1>3. Rem(n, k) = zero
  BY <1>2, RemainderIs, Zenon
<1> QED
  BY <1>3 DEF n, zero

\* The quotient is the only one too.
LEMMA OneQuotient ==
  ASSUME NEW k \in Nat \ {0}, NEW a \in Int, NEW b \in Int,
         NEW r \in 0..(k - 1), NEW q \in 0..(k - 1), k * a + r = k * b + q
  PROVE  a = b /\ r = q
<1> DEFINE d == a - b
<1>1. r = q
  BY OneRemainder
<1>2. d \in Int /\ k * d = 0
  BY <1>1
<1>3. d = 0 => a = b
  OBVIOUS
<1> HIDE DEF d
<1>4. CASE d >= 1
  <2>1. k * d >= k
    BY <1>2, <1>4
  <2> QED
    BY <1>2, <2>1
<1>5. CASE d <= -1
  <2>1. k * d <= -k
    BY <1>2, <1>5
  <2> QED
    BY <1>2, <2>1
<1> QED
  BY <1>1, <1>2, <1>3, <1>4, <1>5

\* Division by a factor.
LEMMA ExactQuotient ==
  ASSUME NEW k \in Nat \ {0}, NEW a \in Int, NEW m \in Int, m = a * k
  PROVE  m \div k = a
  OBVIOUS

\* A number is its quotient times k, and the remainder.
LEMMA Quotient ==
  ASSUME NEW k \in Nat \ {0}, NEW m \in Int
  PROVE  /\ m \div k \in Int /\ m % k \in 0..(k - 1)
         /\ m = k * (m \div k) + (m % k)
OBVIOUS

\* What m \div k is.
LEMMA QuotientIs ==
  ASSUME NEW k \in Nat \ {0}, NEW a \in Int, NEW r \in 0..(k - 1),
         NEW m \in Int, m = k * a + r
  PROVE  m \div k = a /\ m % k = r
<1>1. m \div k \in Int /\ m % k \in 0..(k - 1) /\ m = k * (m \div k) + (m % k)
  BY Quotient
<1> DEFINE b == m \div k
           q == m % k
<1>2. b \in Int /\ q \in 0..(k - 1) /\ k * a + r = k * b + q
  BY <1>1
<1> HIDE DEF b, q
<1>3. a = b /\ r = q
  BY <1>2, OneQuotient
<1> QED
  BY <1>3 DEF b, q

\* The three digits of a number, the last below k and the one before below i.
OfDigits(m, i, k, a, b, c) == m = (a * i + b) * k + c

\* How they are computed.
LEMMA ThreeDigits ==
  ASSUME NEW i \in Nat \ {0}, NEW k \in Nat \ {0},
         NEW a \in Int, NEW b \in 0..(i - 1), NEW c \in 0..(k - 1),
         NEW m \in Int, OfDigits(m, i, k, a, b, c)
  PROVE  m \div (i * k) = a /\ (m \div k) % i = b /\ m % k = c
<1> USE DEF OfDigits
<1>1. a * i + b \in Int /\ m = k * (a * i + b) + c
  OBVIOUS
<1> DEFINE d == a * i + b
<1>2. m \div k = d /\ m % k = c
  <2> HIDE DEF d
  <2> QED
    BY <1>1, QuotientIs DEF d
<1>3. d % i = b
  <2>1. d \in Int /\ d = i * a + b
    OBVIOUS
  <2> HIDE DEF d
  <2> QED
    BY <2>1, QuotientIs
<1>4. m \div (i * k) = a
  <2> DEFINE j == i * k
             r == b * k + c
  <2>1. j \in Nat \ {0} /\ r \in Nat
    OBVIOUS
  <2>2. m = j * a + r
    OBVIOUS
  <2>3. r < j
    <3>1. b * k <= (i - 1) * k
      <4>1. b <= i - 1 /\ b \in Nat /\ i - 1 \in Nat
        OBVIOUS
      <4> QED
        BY <4>1
    <3>2. (i - 1) * k = j - k
      OBVIOUS
    <3> QED
      BY <3>1, <3>2
  <2>4. r \in 0..(j - 1)
    BY <2>1, <2>3
  <2> HIDE DEF j, r
  <2>5. m \div j = a
    BY <2>1, <2>2, <2>4, QuotientIs
  <2> QED
    BY <2>5 DEF j
<1> QED
  BY <1>2, <1>3, <1>4

\* Each number has them, and what the first is below.
LEMMA DigitsBelow ==
  ASSUME NEW i \in Nat \ {0}, NEW k \in Nat \ {0}, NEW n \in Nat,
         NEW m \in Nat, NEW size, size = n * i * k, m < size
  PROVE  \E a \in 0..(n - 1) : \E b \in 0..(i - 1) : \E c \in 0..(k - 1) :
           OfDigits(m, i, k, a, b, c)
<1> USE DEF OfDigits
<1> DEFINE q == m \div k
           c == m % k
           a == q \div i
           b == q % i
<1>1. q \in Int /\ c \in 0..(k - 1) /\ m = k * q + c
  BY Quotient
<1> HIDE DEF q, c
<1>2. a \in Int /\ b \in 0..(i - 1) /\ q = i * a + b
  BY <1>1, Quotient
<1> HIDE DEF a, b
<1>3. m = (a * i + b) * k + c
  BY <1>1, <1>2
<1>4. a >= 0
  <2> SUFFICES ASSUME a <= -1
               PROVE  FALSE
    BY <1>2
  <2>1. i * a <= -i
    BY <1>2
  <2>2. q <= -1
    BY <1>2, <2>1
  <2>3. k * q <= -k
    BY <1>1, <2>2
  <2> QED
    BY <1>1, <2>3
<1>5. a <= n - 1
  <2> SUFFICES ASSUME a >= n
               PROVE  FALSE
    BY <1>2
  <2>1. i * a >= i * n
    BY <1>2, <1>4
  <2>2. q >= i * n /\ i * n \in Nat
    BY <1>2, <2>1
  <2>3. k * q >= k * (i * n)
    BY <1>1, <2>2
  <2>4. k * (i * n) = n * i * k
    OBVIOUS
  <2> QED
    BY <1>1, <2>3, <2>4
<1> QED
  BY <1>1, <1>2, <1>3, <1>4, <1>5

\* Any such digits are those of a number below the bound.
LEMMA DigitsInside ==
  ASSUME NEW i \in Nat \ {0}, NEW k \in Nat \ {0}, NEW n \in Nat,
         NEW a \in 0..(n - 1), NEW b \in 0..(i - 1), NEW c \in 0..(k - 1),
         NEW m, OfDigits(m, i, k, a, b, c), NEW size, size = n * i * k
  PROVE  m \in Nat /\ m < size
<1> USE DEF OfDigits
<1> DEFINE d == a * i + b
<1>1. d \in Nat /\ d + 1 <= n * i
  <2>1. a * i <= (n - 1) * i
    <3>1. a <= n - 1 /\ a \in Nat /\ n - 1 \in Nat
      OBVIOUS
    <3> QED
      BY <3>1
  <2>2. (n - 1) * i = n * i - i
    OBVIOUS
  <2> QED
    BY <2>1, <2>2
<1> DEFINE e == n * i
<1>2. e \in Nat
  OBVIOUS
<1> HIDE DEF d, e
<1>3. d * k + c >= 0 /\ d * k + k <= e * k
  <2>1. (d + 1) * k <= e * k
    BY <1>1, <1>2 DEF e
  <2>2. (d + 1) * k = d * k + k
    BY <1>1
  <2>3. d * k \in Nat
    BY <1>1
  <2> QED
    BY <2>1, <2>2, <2>3
<1>4. d * k + c <= e * k - 1
  BY <1>1, <1>2, <1>3
<1>5. d * k + c \in Int /\ e * k \in Int
  BY <1>1, <1>2
<1>6. d * k + c \in Nat /\ d * k + c < e * k
  BY <1>3, <1>4, <1>5
<1> QED
  BY <1>6 DEF d, e

----------------------------------------------------------------------------
(* Sums.                                                                   *)

\* The sum of the values of f, as MapThenSumSet computes it.
Total(f) == MapThenSumSet(LAMBDA x : f[x], DOMAIN f)

\* Some element of a set: the one that MapThenSumSet takes first.
Some(set) == CHOOSE x \in set : TRUE

\* g has the sum of f over each subset of its domain: the recursion
\* MapThenSumSet stands for.
SumsUp(g, f, S) ==
  g = [s \in SUBSET S |->
         IF s = {} THEN 0 ELSE f[Some(s)] + g[s \ {Some(s)}]]

\* There is what the recursion defines.
LEMMA SumExists ==
  ASSUME NEW S, IsFiniteSet(S), NEW f \in [S -> Int]
  PROVE  \E g \in [SUBSET S -> Int] : SumsUp(g, f, S)
<1> DEFINE b == Cardinality(S)
           Right(g, s) == g[s] = IF s = {} THEN 0
                                 ELSE f[Some(s)] + g[s \ {Some(s)}]
           T == {k \in Nat : \E g \in [SUBSET S -> Int] :
                   \A s \in SUBSET S : Cardinality(s) <= k => Right(g, s)}
<1>1. /\ b \in Nat
      /\ \A s \in SUBSET S : /\ IsFiniteSet(s)
                             /\ Cardinality(s) \in Nat
                             /\ Cardinality(s) <= b
                             /\ Cardinality(s) = 0 <=> s = {}
  BY FS_CardinalityType, FS_Subset, FS_EmptySet
<1>2. \A s \in SUBSET S : s # {} =>
        /\ Some(s) \in S /\ s \ {Some(s)} \in SUBSET S
        /\ Cardinality(s \ {Some(s)}) = Cardinality(s) - 1
  <2> SUFFICES ASSUME NEW s \in SUBSET S, s # {}
               PROVE  /\ Some(s) \in S /\ s \ {Some(s)} \in SUBSET S
                      /\ Cardinality(s \ {Some(s)}) = Cardinality(s) - 1
    OBVIOUS
  <2>1. Some(s) \in s
    BY DEF Some
  <2> QED
    BY <1>1, <2>1, FS_RemoveElement
<1>3. 0 \in T
  <2> DEFINE g == [s \in SUBSET S |-> 0]
  <2>1. g \in [SUBSET S -> Int]
    OBVIOUS
  <2>2. ASSUME NEW s \in SUBSET S, Cardinality(s) <= 0
        PROVE  Right(g, s)
    BY <1>1, <2>2
  <2> HIDE DEF g, Right
  <2> QED
    BY <2>1, <2>2
<1>4. \A k \in 0..(b - 1) : k \in T => k + 1 \in T
  <2> SUFFICES ASSUME NEW k \in 0..(b - 1), k \in T
               PROVE  k + 1 \in T
    OBVIOUS
  <2>1. PICK g \in [SUBSET S -> Int] :
          \A s \in SUBSET S : Cardinality(s) <= k => Right(g, s)
    OBVIOUS
  <2> DEFINE h == [s \in SUBSET S |->
                     IF Cardinality(s) = k + 1
                     THEN f[Some(s)] + g[s \ {Some(s)}] ELSE g[s]]
  <2>2. h \in [SUBSET S -> Int]
    <3> SUFFICES ASSUME NEW s \in SUBSET S
                 PROVE  (IF Cardinality(s) = k + 1
                         THEN f[Some(s)] + g[s \ {Some(s)}] ELSE g[s]) \in Int
      OBVIOUS
    <3>1. Cardinality(s) = k + 1 => s # {}
      BY <1>1
    <3> QED
      BY <1>2, <3>1
  <2>3. ASSUME NEW s \in SUBSET S, Cardinality(s) <= k + 1
        PROVE  Right(h, s)
    <3>1. CASE s = {}
      <4>1. Cardinality(s) <= k /\ Cardinality(s) # k + 1
        BY <1>1, <3>1
      <4>2. h[s] = g[s] /\ g[s] = 0
        BY <2>1, <3>1, <4>1
      <4> QED
        BY <3>1, <4>2
    <3>2. CASE s # {}
      <4> DEFINE r == s \ {Some(s)}
      <4>1. r \in SUBSET S /\ Cardinality(r) = Cardinality(s) - 1
        BY <1>2, <3>2
      <4>2. h[r] = g[r]
        BY <1>1, <2>3, <4>1
      <4>3. h[s] = f[Some(s)] + g[r]
        <5>1. CASE Cardinality(s) = k + 1
          BY <5>1
        <5>2. CASE Cardinality(s) # k + 1
          <6>1. Cardinality(s) <= k
            BY <1>1, <2>3, <5>2
          <6>2. Right(g, s)
            BY <2>1, <6>1
          <6>3. h[s] = g[s]
            BY <5>2
          <6> QED
            BY <3>2, <6>2, <6>3
        <5> QED
          BY <5>1, <5>2
      <4> HIDE DEF h
      <4> QED
        BY <3>2, <4>2, <4>3
    <3> QED
      BY <3>1, <3>2
  <2>4. k + 1 \in Nat
    OBVIOUS
  <2> HIDE DEF h, Right
  <2> QED
    BY <2>2, <2>3, <2>4
<1>5. b \in T
  <2> HIDE DEF T, b
  <2>1. \A k \in 0..b : k \in T
    BY <1>1, <1>3, <1>4, UpTo
  <2> QED
    BY <1>1, <2>1
<1>6. PICK g \in [SUBSET S -> Int] : \A s \in SUBSET S : Right(g, s)
  BY <1>1, <1>5
<1>7. SumsUp(g, f, S)
  BY <1>6 DEF SumsUp
<1> QED
  BY <1>7

\* It is what MapThenSumSet computes.
LEMMA TotalIs ==
  ASSUME NEW S, IsFiniteSet(S), NEW f \in [S -> Int]
  PROVE  \E g : SumsUp(g, f, S) /\ Total(f) = g[S]
<1> DEFINE g == CHOOSE g : SumsUp(g, f, S)
<1>1. SumsUp(g, f, S)
  BY SumExists
<1>2. DOMAIN f = S
  OBVIOUS
<1>3. Total(f) = g[S]
  BY <1>2 DEF Total, MapThenSumSet, MapThenFoldSet, SumsUp, Some
<1> QED
  BY <1>1, <1>3

\* Induction over the subsets of a finite set: what each set has when all
\* those with one element less have it.
LEMMA SetUp ==
  ASSUME NEW S, IsFiniteSet(S), NEW T,
         \A s \in SUBSET S : (\A x \in s : s \ {x} \in T) => s \in T
  PROVE  \A s \in SUBSET S : s \in T
<1> DEFINE b == Cardinality(S)
           U == {k \in Nat : \A s \in SUBSET S :
                               Cardinality(s) <= k => s \in T}
<1>1. /\ b \in Nat
      /\ \A s \in SUBSET S : /\ IsFiniteSet(s)
                             /\ Cardinality(s) \in Nat
                             /\ Cardinality(s) <= b
                             /\ Cardinality(s) = 0 <=> s = {}
  BY FS_CardinalityType, FS_Subset, FS_EmptySet
<1>2. 0 \in U
  BY <1>1
<1>3. \A k \in 0..(b - 1) : k \in U => k + 1 \in U
  <2> SUFFICES ASSUME NEW k \in 0..(b - 1), k \in U,
                      NEW s \in SUBSET S, Cardinality(s) <= k + 1
               PROVE  s \in T
    OBVIOUS
  <2>1. ASSUME NEW x \in s
        PROVE  s \ {x} \in T
    <3>1. Cardinality(s \ {x}) = Cardinality(s) - 1
      BY <1>1, FS_RemoveElement
    <3>2. s \ {x} \in SUBSET S /\ Cardinality(s \ {x}) <= k
      BY <1>1, <3>1
    <3> QED
      BY <3>2
  <2> QED
    BY <2>1
<1>4. b \in U
  <2> HIDE DEF U, b
  <2>1. \A k \in 0..b : k \in U
    BY <1>1, <1>2, <1>3, UpTo
  <2> QED
    BY <1>1, <2>1
<1> QED
  BY <1>1, <1>4

\* g has the sums, taken in any order.
Sums(g, f, S) ==
  /\ g[{}] = 0
  /\ \A s \in SUBSET S : /\ g[s] \in Int
                         /\ \A x \in s : g[s] = f[x] + g[s \ {x}]

\* A sum does not depend on the order in which it is taken.
LEMMA SumAnyOrder ==
  ASSUME NEW S, IsFiniteSet(S), NEW f \in [S -> Int], NEW g, SumsUp(g, f, S)
  PROVE  Sums(g, f, S)
<1> DEFINE N == {s \in SUBSET S : g[s] \in Int}
           T == {s \in SUBSET S : \A x \in s : g[s] = f[x] + g[s \ {x}]}
<1>1. g[{}] = 0
  BY DEF SumsUp
<1>2. \A s \in SUBSET S : g[s] \in Int
  <2>1. ASSUME NEW s \in SUBSET S, \A x \in s : s \ {x} \in N
        PROVE  s \in N
    <3>1. CASE s = {}
      BY <1>1, <3>1
    <3>2. CASE s # {}
      <4>1. Some(s) \in s
        BY <3>2 DEF Some
      <4>2. g[s] = f[Some(s)] + g[s \ {Some(s)}]
        BY <3>2 DEF SumsUp
      <4>3. f[Some(s)] \in Int /\ g[s \ {Some(s)}] \in Int
        BY <2>1, <4>1
      <4> QED
        BY <4>2, <4>3
    <3> QED
      BY <3>1, <3>2
  <2> HIDE DEF N
  <2>2. \A s \in SUBSET S : s \in N
    BY <2>1, SetUp
  <2> QED
    BY <2>2 DEF N
<1>3. ASSUME NEW s \in SUBSET S, \A x \in s : s \ {x} \in T
      PROVE  s \in T
  <2>1. CASE s = {}
    BY <1>1, <2>1
  <2>2. CASE s # {}
    <3> DEFINE y == Some(s)
    <3>1. y \in s
      BY <2>2 DEF Some
    <3>2. g[s] = f[y] + g[s \ {y}]
      BY <2>2 DEF SumsUp
    <3> HIDE DEF y
    <3>3. g[s] \in Int /\ f[y] \in Int /\ g[s \ {y}] \in Int
      BY <1>2, <3>1
    <3>4. ASSUME NEW x \in s, x # y
          PROVE  g[s] = f[x] + g[s \ {x}]
      <4> DEFINE r == (s \ {y}) \ {x}
      <4>1. r = (s \ {x}) \ {y}
        OBVIOUS
      <4>2. g[s \ {y}] = f[x] + g[r]
        BY <1>3, <3>1, <3>4
      <4>3. g[s \ {x}] = f[y] + g[r]
        <5>1. s \ {x} \in T /\ y \in s \ {x}
          BY <1>3, <3>1, <3>4
        <5>2. g[s \ {x}] = f[y] + g[(s \ {x}) \ {y}]
          BY <5>1
        <5> QED
          BY <4>1, <5>2
      <4>4. g[r] \in Int /\ f[x] \in Int
        BY <1>2
      <4> HIDE DEF r
      <4> QED
        BY <3>2, <3>3, <4>2, <4>3, <4>4
    <3> QED
      BY <3>2, <3>3, <3>4
  <2> QED
    BY <2>1, <2>2
<1>4. \A s \in SUBSET S : s \in T
  <2> HIDE DEF T
  <2> QED
    BY <1>3, SetUp
<1> QED
  BY <1>1, <1>2, <1>4 DEF Sums

\* A sum over a subset is the same whatever the function is elsewhere.
LEMMA SumSame ==
  ASSUME NEW S, IsFiniteSet(S), NEW f \in [S -> Int], NEW g, SumsUp(g, f, S),
         NEW R \in SUBSET S, NEW e \in [R -> Int], NEW h, SumsUp(h, e, R),
         \A x \in R : e[x] = f[x]
  PROVE  \A s \in SUBSET R : h[s] = g[s]
<1> DEFINE T == {s \in SUBSET R : h[s] = g[s]}
<1>1. IsFiniteSet(R)
  BY FS_Subset
<1>2. /\ \A s \in SUBSET R : s \in SUBSET S
      /\ g[{}] = 0 /\ h[{}] = 0
      /\ \A s \in SUBSET R : \A x \in s : g[s] = f[x] + g[s \ {x}]
      /\ \A s \in SUBSET R : \A x \in s : h[s] = e[x] + h[s \ {x}]
  <2>1. Sums(g, f, S) /\ Sums(h, e, R)
    BY <1>1, SumAnyOrder
  <2> QED
    BY <2>1 DEF Sums
<1>3. ASSUME NEW s \in SUBSET R, \A x \in s : s \ {x} \in T
      PROVE  s \in T
  <2>1. CASE s = {}
    BY <1>2, <2>1
  <2>2. CASE s # {}
    <3>1. PICK x \in s : TRUE
      BY <2>2
    <3>2. h[s \ {x}] = g[s \ {x}] /\ e[x] = f[x]
      BY <1>3, <3>1
    <3>3. h[s] = e[x] + h[s \ {x}] /\ g[s] = f[x] + g[s \ {x}]
      BY <1>2, <3>1
    <3> QED
      BY <3>2, <3>3
  <2> QED
    BY <2>1, <2>2
<1> HIDE DEF T
<1>4. \A s \in SUBSET R : s \in T
  BY <1>1, <1>3, SetUp
<1> QED
  BY <1>4 DEF T

\* f, but for its value at x.
Without(f, x) == [y \in DOMAIN f \ {x} |-> f[y]]

\* The sum is what is left with any one value taken out, and that value.
TotalSplits(f, S) ==
  /\ Total(f) \in Int
  /\ S = {} => Total(f) = 0
  /\ \A x \in S : /\ Without(f, x) \in [S \ {x} -> Int]
                  /\ Total(f) = f[x] + Total(Without(f, x))

\* So it is for every finite sum of integers.
LEMMA TotalMore ==
  ASSUME NEW S, IsFiniteSet(S), NEW f \in [S -> Int]
  PROVE  TotalSplits(f, S)
<1>1. PICK g : SumsUp(g, f, S) /\ Total(f) = g[S]
  BY TotalIs
<1>2. /\ g[{}] = 0
      /\ \A s \in SUBSET S : /\ g[s] \in Int
                             /\ \A x \in s : g[s] = f[x] + g[s \ {x}]
  <2>1. Sums(g, f, S)
    BY <1>1, SumAnyOrder
  <2> QED
    BY <2>1 DEF Sums
<1>3. ASSUME NEW x \in S
      PROVE  /\ Without(f, x) \in [S \ {x} -> Int]
             /\ Total(f) = f[x] + Total(Without(f, x))
  <2> DEFINE R == S \ {x}
             e == Without(f, x)
  <2>1. /\ R \in SUBSET S /\ IsFiniteSet(R) /\ e \in [R -> Int]
        /\ \A y \in R : e[y] = f[y]
    BY FS_RemoveElement DEF Without
  <2> HIDE DEF e, R
  <2>2. PICK h : SumsUp(h, e, R) /\ Total(e) = h[R]
    BY <2>1, TotalIs
  <2>3. \A s \in SUBSET R : h[s] = g[s]
    BY <1>1, <2>1, <2>2, SumSame
  <2>4. h[R] = g[R]
    BY <2>3
  <2> QED
    BY <1>1, <1>2, <2>1, <2>2, <2>4 DEF e, R
<1> QED
  BY <1>1, <1>2, <1>3 DEF TotalSplits

\* The sum of what is not negative is not, and does not grow when values are
\* left out.
LEMMA TotalNat ==
  ASSUME NEW S, IsFiniteSet(S), NEW f \in [S -> Nat]
  PROVE  Total(f) \in Nat
<1> DEFINE part(s) == [y \in s |-> f[y]]
           T == {s \in SUBSET S : Total(part(s)) \in Nat}
<1>1. ASSUME NEW s \in SUBSET S, \A x \in s : s \ {x} \in T
      PROVE  s \in T
  <2> DEFINE p == part(s)
  <2>1. p \in [s -> Int] /\ IsFiniteSet(s) /\ \A x \in s : p[x] \in Nat
    BY FS_Subset
  <2>2. ASSUME NEW x \in s
        PROVE  Without(p, x) = part(s \ {x})
    BY DEF Without
  <2>3. ASSUME NEW x \in s
        PROVE  Total(Without(p, x)) \in Nat
    BY <1>1, <2>2
  <2> HIDE DEF p
  <2>4. TotalSplits(p, s)
    BY <2>1, TotalMore
  <2>5. Total(p) \in Nat
    <3>1. CASE s = {}
      BY <2>4, <3>1 DEF TotalSplits
    <3>2. CASE s # {}
      <4>1. PICK x \in s : TRUE
        BY <3>2
      <4>2. Total(p) = p[x] + Total(Without(p, x))
        BY <2>4 DEF TotalSplits
      <4> QED
        BY <2>1, <2>3, <4>2
    <3> QED
      BY <3>1, <3>2
  <2> QED
    BY <2>5 DEF p
<1>2. S \in T
  <2> HIDE DEF T
  <2>1. \A s \in SUBSET S : s \in T
    BY <1>1, SetUp
  <2> QED
    BY <2>1
<1>3. part(S) = f
  OBVIOUS
<1> QED
  BY <1>2, <1>3

\* f on the set R only.
Only(f, R) == [x \in R |-> f[x]]

\* The sum over two sets that have nothing in common is that of their sums.
LEMMA TotalJoins ==
  ASSUME NEW S, IsFiniteSet(S), NEW f \in [S -> Int],
         NEW A \in SUBSET S, NEW B \in SUBSET S, A \cap B = {}
  PROVE  Total(Only(f, A \cup B)) = Total(Only(f, A)) + Total(Only(f, B))
<1> DEFINE T == {s \in SUBSET B : Total(Only(f, A \cup s)) =
                                    Total(Only(f, A)) + Total(Only(f, s))}
<1>1. IsFiniteSet(B)
  BY FS_Subset
<1>2. ASSUME NEW R \in SUBSET S
      PROVE  /\ TotalSplits(Only(f, R), R)
             /\ Total(Only(f, R)) \in Int
             /\ \A x \in R : Total(Only(f, R)) =
                               f[x] + Total(Only(f, R \ {x}))
  <2> DEFINE e == Only(f, R)
  <2>1. IsFiniteSet(R) /\ e \in [R -> Int]
    BY FS_Subset DEF Only
  <2>2. \A x \in R : Without(e, x) = Only(f, R \ {x}) /\ e[x] = f[x]
    BY DEF Without, Only
  <2> HIDE DEF e
  <2>3. TotalSplits(e, R)
    BY <2>1, TotalMore
  <2>4. /\ Total(e) \in Int
        /\ \A x \in R : Total(e) = f[x] + Total(Only(f, R \ {x}))
    BY <2>2, <2>3 DEF TotalSplits
  <2> QED
    BY <2>3, <2>4 DEF e
<1>3. ASSUME NEW s \in SUBSET B, \A x \in s : s \ {x} \in T
      PROVE  s \in T
  <2>1. CASE s = {}
    <3>1. A \cup s = A
      BY <2>1
    <3>2. Total(Only(f, s)) = 0 /\ Total(Only(f, A)) \in Int
      BY <1>2, <2>1 DEF TotalSplits
    <3> DEFINE a == Total(Only(f, A))
               z == Total(Only(f, s))
    <3>3. a = a + z
      <4>1. z = 0 /\ a \in Int
        BY <3>2
      <4> HIDE DEF a, z
      <4> QED
        BY <4>1
    <3>4. Total(Only(f, A \cup s)) = Total(Only(f, A)) + Total(Only(f, s))
      BY <3>1, <3>3, Zenon
    <3> QED
      BY <3>4
  <2>2. CASE s # {}
    <3>1. PICK x \in s : TRUE
      BY <2>2
    <3>2. (A \cup s) \ {x} = A \cup (s \ {x})
      BY <3>1
    <3> DEFINE r == s \ {x}
               u == A \cup s
               v == A \cup r
    <3>3. Total(Only(f, v)) = Total(Only(f, A)) + Total(Only(f, r))
      BY <1>3, <3>1
    <3>4. u \in SUBSET S /\ s \in SUBSET S /\ r \in SUBSET S /\ x \in u
      BY <3>1
    <3>5. u \ {x} = v /\ s \ {x} = r
      BY <3>2
    <3> HIDE DEF r, u, v
    <3>6. Total(Only(f, u)) = f[x] + Total(Only(f, v))
      BY <1>2, <3>4, <3>5
    <3>7. Total(Only(f, s)) = f[x] + Total(Only(f, r))
      BY <1>2, <3>1, <3>4, <3>5
    <3>8. /\ f[x] \in Int /\ Total(Only(f, A)) \in Int
          /\ Total(Only(f, r)) \in Int
      BY <1>2, <3>4
    <3>9. Total(Only(f, u)) = Total(Only(f, A)) + Total(Only(f, s))
      BY <3>3, <3>6, <3>7, <3>8
    <3> QED
      BY <3>9 DEF u
  <2> QED
    BY <2>1, <2>2
<1>4. B \in T
  <2> HIDE DEF T
  <2>1. \A s \in SUBSET B : s \in T
    BY <1>1, <1>3, SetUp
  <2> QED
    BY <2>1
<1> QED
  BY <1>4

\* A factor can be taken out of a sum.
LEMMA TotalScales ==
  ASSUME NEW S, IsFiniteSet(S), NEW f \in [S -> Int], NEW c \in Int
  PROVE  Total([x \in S |-> f[x] * c]) = c * Total(f)
<1> DEFINE scaled(s) == [x \in s |-> f[x] * c]
           T == {s \in SUBSET S : Total(scaled(s)) = c * Total(Only(f, s))}
<1>1. ASSUME NEW s \in SUBSET S, \A x \in s : s \ {x} \in T
      PROVE  s \in T
  <2> DEFINE p == scaled(s)
             q == Only(f, s)
  <2>1. /\ IsFiniteSet(s) /\ p \in [s -> Int] /\ q \in [s -> Int]
        /\ \A x \in s : p[x] = f[x] * c /\ q[x] = f[x] /\ f[x] \in Int
    BY FS_Subset DEF Only
  <2>2. ASSUME NEW x \in s
        PROVE  /\ Without(p, x) = scaled(s \ {x})
               /\ Without(q, x) = Only(f, s \ {x})
    BY DEF Without, Only
  <2>3. ASSUME NEW x \in s
        PROVE  Total(Without(p, x)) = c * Total(Without(q, x))
    BY <1>1, <2>2
  <2> HIDE DEF p, q
  <2>4. TotalSplits(p, s) /\ TotalSplits(q, s)
    BY <2>1, TotalMore
  <2>5. Total(p) = c * Total(q)
    <3>1. CASE s = {}
      BY <2>4, <3>1 DEF TotalSplits
    <3>2. CASE s # {}
      <4>1. PICK x \in s : TRUE
        BY <3>2
      <4> DEFINE a == Total(Without(q, x))
      <4>2. /\ Total(p) = p[x] + Total(Without(p, x))
            /\ Total(q) = q[x] + Total(Without(q, x))
        BY <2>4 DEF TotalSplits
      <4>3. IsFiniteSet(s \ {x}) /\ Without(q, x) \in [s \ {x} -> Int]
        BY <2>1, <2>4, FS_RemoveElement DEF TotalSplits
      <4>4. a \in Int
        BY <4>3, TotalMore DEF TotalSplits
      <4>5. Total(p) = f[x] * c + c * a /\ Total(q) = f[x] + a
        BY <2>1, <2>3, <4>2
      <4>6. f[x] \in Int
        BY <2>1
      <4> HIDE DEF a
      <4> QED
        BY <4>4, <4>5, <4>6
    <3> QED
      BY <3>1, <3>2
  <2> QED
    BY <2>5 DEF p, q
<1>2. S \in T
  <2> HIDE DEF T
  <2>1. \A s \in SUBSET S : s \in T
    BY <1>1, SetUp
  <2> QED
    BY <2>1
<1>3. Only(f, S) = f
  BY DEF Only
<1> QED
  BY <1>2, <1>3

\* A sum is the same under other names for what is added up.
LEMMA TotalMoves ==
  ASSUME NEW S, IsFiniteSet(S), NEW T, NEW f \in [T -> Int],
         NEW name \in [S -> T], \A t \in T : \E x \in S : name[x] = t,
         \A x, y \in S : name[x] = name[y] => x = y
  PROVE  Total([x \in S |-> f[name[x]]]) = Total(f)
<1> DEFINE moved(s) == [x \in s |-> f[name[x]]]
           names(s) == {name[x] : x \in s}
           U == {s \in SUBSET S : Total(moved(s)) = Total(Only(f, names(s)))}
<1>1. ASSUME NEW s \in SUBSET S, \A x \in s : s \ {x} \in U
      PROVE  s \in U
  <2> DEFINE p == moved(s)
             q == Only(f, names(s))
  <2>1. IsFiniteSet(s) /\ IsFiniteSet(names(s))
    <3>1. IsFiniteSet(s)
      BY FS_Subset
    <3> DEFINE g == [x \in s |-> name[x]]
    <3>2. g \in [s -> T] /\ names(s) = {g[x] : x \in s}
      OBVIOUS
    <3> HIDE DEF g, names
    <3>3. g \in Surjection(s, {g[x] : x \in s})
      BY <3>2 DEF Surjection
    <3> QED
      BY <3>1, <3>2, <3>3, FS_Surjection
  <2>2. /\ p \in [s -> Int] /\ q \in [names(s) -> Int]
        /\ \A x \in s : /\ name[x] \in names(s) /\ f[name[x]] \in Int
                        /\ p[x] = f[name[x]] /\ q[name[x]] = f[name[x]]
    BY DEF Only
  <2>3. ASSUME NEW x \in s
        PROVE  /\ Without(p, x) = moved(s \ {x})
               /\ Without(q, name[x]) = Only(f, names(s \ {x}))
    <3>1. names(s) \ {name[x]} = names(s \ {x})
      OBVIOUS
    <3>2. Without(q, name[x]) = Only(f, names(s) \ {name[x]})
      <4> HIDE DEF names
      <4> QED
        BY DEF Without, Only
    <3>3. Without(p, x) = moved(s \ {x})
      BY DEF Without
    <3> HIDE DEF names, moved, p, q
    <3> QED
      BY <3>1, <3>2, <3>3
  <2>4. ASSUME NEW x \in s
        PROVE  Total(Without(p, x)) = Total(Without(q, name[x]))
    BY <1>1, <2>3
  <2> DEFINE n == names(s)
  <2>5. s = {} <=> n = {}
    OBVIOUS
  <2> HIDE DEF p, q, n
  <2>6. TotalSplits(p, s) /\ TotalSplits(q, n)
    BY <2>1, <2>2, TotalMore DEF n
  <2>7. Total(p) = Total(q)
    <3>1. CASE s = {}
      BY <2>5, <2>6, <3>1 DEF TotalSplits
    <3>2. CASE s # {}
      <4>1. PICK x \in s : TRUE
        BY <3>2
      <4>2. name[x] \in n
        BY <2>2 DEF n
      <4>3. /\ Total(p) = p[x] + Total(Without(p, x))
            /\ Total(q) = q[name[x]] + Total(Without(q, name[x]))
        BY <2>6, <4>2 DEF TotalSplits
      <4> QED
        BY <2>2, <2>4, <4>3
    <3> QED
      BY <3>1, <3>2
  <2> QED
    BY <2>7 DEF p, q
<1>2. S \in U
  <2> HIDE DEF U
  <2>1. \A s \in SUBSET S : s \in U
    BY <1>1, SetUp
  <2> QED
    BY <2>1
<1>3. names(S) = T /\ Only(f, T) = f
  BY DEF Only
<1> QED
  BY <1>2, <1>3

----------------------------------------------------------------------------
(* Finite sets.                                                            *)

\* A finite set of numbers has a largest.
LEMMA FiniteLargest ==
  ASSUME NEW S \in SUBSET Nat, IsFiniteSet(S), S # {}
  PROVE  \E n \in S : \A m \in S : n >= m
<1> DEFINE T == {s \in SUBSET S : s = {} \/ \E n \in s : \A m \in s : n >= m}
<1>1. ASSUME NEW s \in SUBSET S, \A x \in s : s \ {x} \in T
      PROVE  s \in T
  <2>1. CASE s = {}
    BY <2>1
  <2>2. CASE s # {}
    <3>1. PICK x \in s : TRUE
      BY <2>2
    <3>2. s \ {x} = {} \/ \E n \in s \ {x} : \A m \in s \ {x} : n >= m
      BY <1>1, <3>1
    <3>3. CASE s \ {x} = {}
      <4>1. \A m \in s : x >= m
        BY <3>1, <3>3
      <4> QED
        BY <3>1, <4>1
    <3>4. ASSUME NEW n \in s \ {x}, \A m \in s \ {x} : n >= m
          PROVE  s \in T
      <4>1. CASE x >= n
        <5>1. \A m \in s : x >= m
          BY <3>4, <4>1
        <5> QED
          BY <3>1, <5>1
      <4>2. CASE ~(x >= n)
        <5>1. \A m \in s : n >= m
          BY <3>4, <4>2
        <5> QED
          BY <5>1
      <4> QED
        BY <4>1, <4>2
    <3> QED
      BY <3>2, <3>3, <3>4
  <2> QED
    BY <2>1, <2>2
<1>2. \A s \in SUBSET S : s \in T
  <2> HIDE DEF T
  <2> QED
    BY <1>1, SetUp
<1>3. S \in T
  BY <1>2
<1> QED
  BY <1>3

\* Max is this number.
LEMMA FiniteMax ==
  ASSUME NEW S \in SUBSET Nat, IsFiniteSet(S), S # {}
  PROVE  Max(S) \in S /\ \A m \in S : m <= Max(S)
<1>1. \E n \in S : \A m \in S : n >= m
  BY FiniteLargest
<1>2. Max(S) \in S /\ \A m \in S : Max(S) >= m
  BY <1>1 DEF Max
<1> QED
  BY <1>2

\* Min yields the smallest of a set of natural numbers.
LEMMA FiniteMin ==
  ASSUME NEW S \in SUBSET Nat, S # {}
  PROVE  Min(S) \in S /\ \A m \in S : Min(S) <= m
<1>1. \E n \in S : \A m \in S : n <= m
  BY Smallest
<1> QED
  BY <1>1 DEF Min

\* The members of the sets f[i].
AllOf(f) == UNION {f[i] : i \in DOMAIN f}

\* There are finitely many in finitely many finite sets.
LEMMA FiniteFamily ==
  ASSUME NEW f, IsFiniteSet(DOMAIN f), \A i \in DOMAIN f : IsFiniteSet(f[i])
  PROVE  IsFiniteSet(AllOf(f))
<1> DEFINE I == DOMAIN f
           R == {f[i] : i \in I}
           g == [i \in I |-> f[i]]
<1>1. g \in [I -> R] /\ \A r \in R : \E i \in I : g[i] = r
  OBVIOUS
<1> HIDE DEF R, g
<1>2. g \in Surjection(I, R)
  BY <1>1 DEF Surjection
<1>3. IsFiniteSet(R)
  BY <1>2, FS_Surjection
<1>4. \A s \in R : IsFiniteSet(s)
  BY DEF R
<1>5. IsFiniteSet(UNION R)
  BY <1>3, <1>4, FS_UNION
<1> QED
  BY <1>5 DEF R, AllOf

\* Different things have as many names as there are things.
LEMMA ImageSize ==
  ASSUME NEW S, IsFiniteSet(S), NEW f, f = [x \in S |-> f[x]],
         \A x, y \in S : f[x] = f[y] => x = y
  PROVE  Cardinality({f[x] : x \in S}) = Cardinality(S)
<1> DEFINE T == {f[x] : x \in S}
<1>1. f \in [S -> T]
  OBVIOUS
<1>2. \A t \in T : \E x \in S : f[x] = t
  OBVIOUS
<1> HIDE DEF T
<1>3. f \in Bijection(S, T)
  BY <1>1, <1>2 DEF Bijection, Injection, Surjection, IsInjective
<1>4. ExistsBijection(S, T)
  BY <1>3 DEF ExistsBijection
<1>5. Cardinality(T) = Cardinality(S)
  BY <1>4, FS_Bijection
<1> QED
  BY <1>5 DEF T

\* The pairs of an index i and a member of S[i].
Pairs(I, S) == UNION {{i} \X S[i] : i \in I}

\* There are as many as the sets have members together.
LEMMA PairsSize ==
  ASSUME NEW I, IsFiniteSet(I), NEW S, \A i \in I : IsFiniteSet(S[i])
  PROVE  /\ IsFiniteSet(Pairs(I, S))
         /\ Cardinality(Pairs(I, S)) = Total([i \in I |-> Cardinality(S[i])])
<1> DEFINE size(s) == [i \in s |-> Cardinality(S[i])]
           T == {s \in SUBSET I : /\ IsFiniteSet(Pairs(s, S))
                                  /\ Cardinality(Pairs(s, S)) =
                                       Total(size(s))}
<1>1. ASSUME NEW s \in SUBSET I, \A x \in s : s \ {x} \in T
      PROVE  s \in T
  <2> DEFINE z == size(s)
  <2>1. z \in [s -> Int] /\ IsFiniteSet(s)
    BY FS_CardinalityType, FS_Subset
  <2>2. \A x \in s : Without(z, x) = size(s \ {x}) /\ z[x] = Cardinality(S[x])
    BY DEF Without
  <2> HIDE DEF z
  <2>3. TotalSplits(z, s)
    BY <2>1, TotalMore
  <2>4. CASE s = {}
    <3>1. Pairs(s, S) = {}
      BY <2>4 DEF Pairs
    <3>2. IsFiniteSet(Pairs(s, S)) /\ Cardinality(Pairs(s, S)) = 0
      BY <3>1, FS_EmptySet
    <3>3. Total(z) = 0
      BY <2>3, <2>4 DEF TotalSplits
    <3> QED
      BY <3>2, <3>3 DEF z
  <2>5. CASE s # {}
    <3>1. PICK x \in s : TRUE
      BY <2>5
    <3> DEFINE P == Pairs(s \ {x}, S)
               Q == {x} \X S[x]
               f == [y \in S[x] |-> <<x, y>>]
    <3>2. /\ IsFiniteSet(P)
          /\ Cardinality(P) = Total(size(s \ {x}))
      BY <1>1, <3>1
    <3>3. Cardinality(Q) = Cardinality(S[x]) /\ IsFiniteSet(Q)
      <4>1. IsFiniteSet(S[x])
        BY <3>1
      <4>2. f \in [S[x] -> Q] /\ \A q \in Q : \E y \in S[x] : f[y] = q
        OBVIOUS
      <4>3. \A y, w \in S[x] : f[y] = f[w] => y = w
        OBVIOUS
      <4> HIDE DEF f, Q
      <4>4. f \in Bijection(S[x], Q)
        BY <4>2, <4>3 DEF Bijection, Injection, Surjection, IsInjective
      <4>5. ExistsBijection(S[x], Q)
        BY <4>4 DEF ExistsBijection
      <4> QED
        BY <4>1, <4>5, FS_Bijection
    <3>4. Pairs(s, S) = P \cup Q /\ P \cap Q = {}
      <4>1. \A p : p \in Pairs(s, S) <=> \E i \in s : p \in {i} \X S[i]
        BY DEF Pairs
      <4>2. \A p : p \in P <=> \E i \in s \ {x} : p \in {i} \X S[i]
        BY DEF Pairs
      <4> HIDE DEF P
      <4>3. \A p : p \in Pairs(s, S) <=> p \in P \/ p \in Q
        BY <3>1, <4>1, <4>2
      <4>4. \A p \in P : p[1] # x
        BY <4>2
      <4>5. \A p \in Q : p[1] = x
        OBVIOUS
      <4> QED
        BY <4>3, <4>4, <4>5
    <3> HIDE DEF P, Q
    <3>5. /\ IsFiniteSet(P \cup Q)
          /\ Cardinality(P \cup Q) =
               Cardinality(P) + Cardinality(Q) - Cardinality(P \cap Q)
      BY <3>2, <3>3, FS_Union
    <3>6. Cardinality(P \cap Q) = 0
      BY <3>4, FS_EmptySet
    <3>7. Total(z) = z[x] + Total(Without(z, x))
      BY <2>3, <3>1 DEF TotalSplits
    <3>8. Cardinality(P) \in Nat /\ Cardinality(Q) \in Nat
      BY <3>2, <3>3, FS_CardinalityType
    <3>9. Total(Without(z, x)) = Cardinality(P) /\ z[x] = Cardinality(Q)
      BY <2>2, <3>1, <3>2, <3>3
    <3>10. Cardinality(P \cup Q) = Total(z)
      BY <3>5, <3>6, <3>7, <3>8, <3>9
    <3> QED
      BY <3>4, <3>5, <3>10 DEF z
  <2> QED
    BY <2>4, <2>5
<1>2. \A s \in SUBSET I : s \in T
  <2> HIDE DEF T
  <2> QED
    BY <1>1, SetUp
<1>3. I \in T
  BY <1>2
<1> QED
  BY <1>3

----------------------------------------------------------------------------
(* Sequences of sequences.                                                 *)

\* FlattenSeq appends one after the other: h[k] is what the first k make.
LEMMA Flattens ==
  ASSUME NEW G, \A x, y \in G : x \o y \in G,
         NEW ss \in Seq(G), ss # <<>>
  PROVE  \E h \in [1..Len(ss) -> G] :
           /\ \A k \in 1..Len(ss) :
                h[k] = IF k = 1 THEN ss[k] ELSE h[k - 1] \o ss[k]
           /\ h[Len(ss)] = FlattenSeq(ss)
<1> DEFINE n == Len(ss)
           Right(g) == g = [i \in 1..n |-> IF i = 1 THEN ss[i]
                                           ELSE g[i - 1] \o ss[i]]
           step == [k \in 1..n |-> [x \in G |-> IF k = 1 THEN ss[k]
                                                ELSE x \o ss[k]]]
<1>1. n \in Nat /\ n # 0 /\ \A k \in 1..n : ss[k] \in G
  OBVIOUS
<1>2. IsLoop(n, G, ss[1], step)
  <2> HIDE DEF n
  <2>1. 1 \in 1..n
    BY <1>1
  <2> QED
    BY <1>1, <2>1 DEF IsLoop
<1>3. PICK h : Turns(h, n, G, ss[1], step)
  BY <1>2, Iterates
<1>4. \A k \in 1..n : h[k] = IF k = 1 THEN ss[k] ELSE h[k - 1] \o ss[k]
  <2> SUFFICES ASSUME NEW k \in 1..n
               PROVE  h[k] = IF k = 1 THEN ss[k] ELSE h[k - 1] \o ss[k]
    OBVIOUS
  <2> HIDE DEF n
  <2>1. k - 1 \in 0..n
    BY <1>1
  <2>2. h[k - 1] \in G /\ h[k] = step[k][h[k - 1]]
    BY <1>3, <2>1 DEF Turns
  <2> QED
    BY <2>2
<1> DEFINE f == [i \in 1..n |-> h[i]]
<1>5. Right(f)
  <2>1. ASSUME NEW i \in 1..n
        PROVE  f[i] = IF i = 1 THEN ss[i] ELSE f[i - 1] \o ss[i]
    <3>1. CASE i = 1
      BY <1>4, <3>1
    <3>2. CASE i # 1
      <4> HIDE DEF n
      <4>1. i - 1 \in 1..n
        BY <1>1, <3>2
      <4> QED
        BY <1>4, <3>2, <4>1
    <3> QED
      BY <3>1, <3>2
  <2> QED
    BY <2>1
<1> DEFINE g == CHOOSE z : Right(z)
<1>6. Right(g)
  <2> HIDE DEF Right, f
  <2> QED
    BY <1>5
<1>7. FlattenSeq(ss) = g[n]
  BY <1>1 DEF FlattenSeq
<1> HIDE DEF g
<1>8. /\ g = [i \in 1..n |-> g[i]]
      /\ \A i \in 1..n : g[i] = IF i = 1 THEN ss[i] ELSE g[i - 1] \o ss[i]
  BY <1>6
<1> HIDE DEF Right, step, f
<1> DEFINE S == {i \in Nat : i = 0 \/ g[i] \in G}
<1>9. 0 \in S
  OBVIOUS
<1>10. \A i \in 0..(n - 1) : i \in S => i + 1 \in S
  <2> SUFFICES ASSUME NEW i \in 0..(n - 1), i \in S
               PROVE  i + 1 \in S
    OBVIOUS
  <2> HIDE DEF n
  <2>1. i + 1 \in 1..n /\ (i + 1) - 1 = i
    BY <1>1
  <2>2. g[i + 1] = IF i + 1 = 1 THEN ss[i + 1] ELSE g[i] \o ss[i + 1]
    BY <1>8, <2>1
  <2>3. g[i + 1] \in G
    BY <1>1, <2>1, <2>2
  <2> QED
    BY <2>3
<1>11. g \in [1..n -> G]
  <2> HIDE DEF S, n
  <2>1. \A i \in 0..n : i \in S
    BY <1>1, <1>9, <1>10, UpTo
  <2>2. \A i \in 1..n : g[i] \in G
    BY <1>1, <2>1 DEF S
  <2> QED
    BY <1>8, <2>2
<1> HIDE DEF S
<1> QED
  BY <1>7, <1>8, <1>11

\* Whatever can be appended to each other can be flattened.
LEMMA FlattenIn ==
  ASSUME NEW G, <<>> \in G, \A x, y \in G : x \o y \in G,
         NEW ss \in Seq(G)
  PROVE  FlattenSeq(ss) \in G
<1>1. CASE ss = <<>>
  <2>1. Len(ss) = 0
    BY <1>1
  <2> QED
    BY <1>1, <2>1 DEF FlattenSeq
<1>2. CASE ss # <<>>
  <2>1. PICK h \in [1..Len(ss) -> G] : h[Len(ss)] = FlattenSeq(ss)
    BY <1>2, Flattens
  <2>2. Len(ss) \in 1..Len(ss)
    BY <1>2
  <2> QED
    BY <2>1, <2>2
<1> QED
  BY <1>1, <1>2

\* When all but the first are empty, nothing is added to it.
LEMMA FlattenFirst ==
  ASSUME NEW S, NEW first \in Seq(S), NEW n \in Nat \ {0},
         NEW ss, ss = [i \in 1..n |-> IF i = 1 THEN first ELSE <<>>]
  PROVE  FlattenSeq(ss) = first
<1>1. ss \in Seq(Seq(S)) /\ Len(ss) = n /\ ss # <<>>
  <2>1. <<>> \in Seq(S)
    OBVIOUS
  <2>2. ss \in Seq(Seq(S)) /\ Len(ss) = n
    BY <2>1
  <2> QED
    BY <2>2
<1>2. \A x, y \in Seq(S) : x \o y \in Seq(S)
  OBVIOUS
<1>3. PICK h \in [1..n -> Seq(S)] :
        /\ \A k \in 1..n :
             h[k] = IF k = 1 THEN ss[k] ELSE h[k - 1] \o ss[k]
        /\ h[n] = FlattenSeq(ss)
  <2> HIDE DEF FlattenSeq
  <2>1. \E h \in [1..Len(ss) -> Seq(S)] :
          /\ \A k \in 1..Len(ss) :
               h[k] = IF k = 1 THEN ss[k] ELSE h[k - 1] \o ss[k]
          /\ h[Len(ss)] = FlattenSeq(ss)
    BY <1>1, <1>2, Flattens, Zenon
  <2> QED
    BY <1>1, <2>1
<1> DEFINE T == {i \in Nat : i = 0 \/ h[i] = first}
<1>4. 0 \in T
  OBVIOUS
<1>5. \A i \in 0..(n - 1) : i \in T => i + 1 \in T
  <2> SUFFICES ASSUME NEW i \in 0..(n - 1), i \in T
               PROVE  i + 1 \in T
    OBVIOUS
  <2>1. i + 1 \in 1..n /\ (i + 1) - 1 = i
    OBVIOUS
  <2>2. h[i + 1] = IF i + 1 = 1 THEN ss[i + 1] ELSE h[i] \o ss[i + 1]
    BY <1>3, <2>1
  <2>3. ss[i + 1] = IF i + 1 = 1 THEN first ELSE <<>>
    BY <2>1
  <2>4. first \o <<>> = first
    OBVIOUS
  <2>5. h[i + 1] = first
    BY <2>1, <2>2, <2>3, <2>4
  <2> QED
    BY <2>5
<1>6. n \in T
  <2> HIDE DEF T
  <2>1. \A i \in 0..n : i \in T
    BY <1>4, <1>5, UpTo
  <2> QED
    BY <2>1
<1> QED
  BY <1>3, <1>6
=============================================================================
