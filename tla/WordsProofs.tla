---------------------------- MODULE WordsProofs ----------------------------
(* The linker compares addresses without an unsigned type.  Its comparison *)
(* is right for every word size.  At the end, what several proofs need of  *)
(* recursive functions on a range of numbers.                              *)
EXTENDS Words, WellFoundedInduction, TLAPS

\* The two halves of the words are equally large.
LEMMA Halves == HALF \in Nat /\ WORD = 2 * HALF /\ HALF > 0
PROOF
<1>1. PICK k \in Nat : BYTE = 2 * k
  <2>1. BYTE = 2 * (BYTE \div 2) /\ BYTE \div 2 \in Nat
    BY ByteAssumption
  <2>2. QED
    BY <2>1
<1>2. k * k \in Nat /\ k * k > 0
  BY <1>1, ByteAssumption
<1>3. WORD = 4 * (k * k)
  BY <1>1 DEF WORD
<1>4. QED
  BY <1>2, <1>3 DEF HALF

\* A difference of two words, wrapped.
LEMMA Wrapped ==
  ASSUME NEW n \in Nat, NEW d \in Int, n > 0, -n < d, d < n
  PROVE  d % n = IF d >= 0 THEN d ELSE d + n
PROOF
<1> DEFINE q == d \div n
           m == d % n
<1>1. q \in Int /\ m \in 0..(n - 1) /\ d = n * q + m
  OBVIOUS
<1> HIDE DEF q, m
<1>2. CASE d >= 0
  <2>1. ~ (q >= 1)
    <3>1. SUFFICES ASSUME q >= 1 PROVE FALSE
      OBVIOUS
    <3>2. n * q >= n
      BY <1>1, <3>1
    <3>3. QED
      BY <1>1, <3>2
  <2>2. ~ (q <= -1)
    <3>1. SUFFICES ASSUME q <= -1 PROVE FALSE
      OBVIOUS
    <3>2. n * q <= -n
      BY <1>1, <3>1
    <3>3. QED
      BY <1>1, <3>2, <1>2
  <2>3. q = 0
    BY <1>1, <2>1, <2>2
  <2>4. m = d
    BY <1>1, <2>3
  <2>5. QED
    BY <1>2, <2>4 DEF m
<1>3. CASE d < 0
  <2>1. ~ (q >= 0)
    <3>1. SUFFICES ASSUME q >= 0 PROVE FALSE
      OBVIOUS
    <3>2. n * q >= 0
      BY <1>1, <3>1
    <3>3. QED
      BY <1>1, <3>2, <1>3
  <2>2. ~ (q <= -2)
    <3>1. SUFFICES ASSUME q <= -2 PROVE FALSE
      OBVIOUS
    <3>2. n * q <= -(2 * n)
      BY <1>1, <3>1
    <3>3. QED
      BY <1>1, <3>2
  <2>3. q = -1
    BY <1>1, <2>1, <2>2
  <2>4. n * q = -n
    BY <2>3
  <2>5. m = d + n
    BY <1>1, <2>4
  <2>6. QED
    BY <1>3, <2>5 DEF m
<1>4. QED
  BY <1>2, <1>3

\* The comment over unsigned_GT says that "trying all possibilities reveals"
\* the formula.  It holds for words of every size, not only those tried.
THEOREM UnsignedCompare ==
  ASSUME NEW i \in Word, NEW j \in Word
  PROVE  unsigned_GT(i, j) <=> i > j
PROOF
<1>1. i \in Nat /\ j \in Nat /\ i < WORD /\ j < WORD
  BY Halves DEF Word
<1>2. Sub(j, i) = IF j - i >= 0 THEN j - i ELSE j - i + WORD
  BY <1>1, Halves, Wrapped DEF Sub
<1>3. QED
  BY <1>1, <1>2, Halves DEF unsigned_GT, SignBit

-----------------------------------------------------------------------------
(* Running values                                                          *)

\* Every set of naturals has a least element: induction without an operator.
LEMMA LeastNat ==
  ASSUME NEW T \in SUBSET Nat, T # {}
  PROVE  \E n \in T : \A m \in T : n <= m
<1> DEFINE R == OpToRel(<, Nat)
<1>1. IsWellFoundedOn(R, Nat)
  BY NatLessThanWellFounded
<1>2. \A a, b \in Nat : a < b => <<a, b>> \in R
  BY DEF OpToRel
<1> HIDE DEF R
<1>3. PICK n \in T : \A m \in T : ~ (<<m, n>> \in R)
  BY <1>1, WFMin
<1>4. \A m \in T : n <= m
  <2> SUFFICES ASSUME NEW m \in T PROVE n <= m
    OBVIOUS
  <2>1. m \in Nat /\ n \in Nat
    OBVIOUS
  <2>2. ~ (m < n)
    BY <1>2, <1>3, <2>1
  <2>3. QED
    BY <2>1, <2>2
<1>5. QED
  BY <1>4

\* Values in T, from a, each the next step of the one before.
Runs(n, T, a, F, g) ==
  /\ g \in [0..n -> T] /\ g[0] = a
  /\ \A k \in 1..n : g[k] = F[k][g[k - 1]]

LEMMA RunExists ==
  ASSUME NEW n \in Nat, NEW T, NEW a \in T, NEW F, \A k \in 1..n : F[k] \in [T -> T]
  PROVE  \E g : Runs(n, T, a, F, g)
<1> DEFINE Is(m) == \E g : Runs(m, T, a, F, g)
           B == {m \in 0..n : ~ Is(m)}
<1>1. Is(0)
  <2> DEFINE g == [k \in 0..0 |-> a]
  <2>1. g \in [0..0 -> T] /\ g[0] = a /\ 1..0 = {}
    OBVIOUS
  <2> HIDE DEF g
  <2>2. Runs(0, T, a, F, g)
    BY <2>1 DEF Runs
  <2>3. QED
    BY <2>2
<1>2. ASSUME NEW m \in Nat, m + 1 <= n, Is(m)
      PROVE  Is(m + 1)
  <2>1. PICK g \in [0..m -> T] : g[0] = a /\ \A k \in 1..m : g[k] = F[k][g[k - 1]]
    BY <1>2 DEF Runs
  <2> DEFINE x == F[m + 1][g[m]]
             h == [k \in 0..(m + 1) |-> IF k <= m THEN g[k] ELSE x]
  <2>2. x \in T
    <3>1. m + 1 \in 1..n /\ g[m] \in T
      BY <1>2, <2>1
    <3>2. F[m + 1] \in [T -> T]
      BY <3>1
    <3>3. QED
      BY <3>1, <3>2
  <2> HIDE DEF x
  <2>3. h \in [0..(m + 1) -> T]
    BY <2>1, <2>2
  <2>4. h[0] = a
    BY <2>1
  <2>5. \A k \in 1..(m + 1) : h[k] = F[k][h[k - 1]]
    <3> SUFFICES ASSUME NEW k \in 1..(m + 1) PROVE h[k] = F[k][h[k - 1]]
      OBVIOUS
    <3>1. CASE k <= m
      <4>1. h[k] = g[k] /\ h[k - 1] = g[k - 1] /\ k \in 1..m
        BY <3>1
      <4>2. QED
        BY <2>1, <4>1
    <3>2. CASE ~ (k <= m)
      <4>1. k = m + 1
        BY <3>2
      <4>2. h[k] = x /\ h[k - 1] = g[m]
        BY <4>1
      <4>3. QED
        BY <4>1, <4>2 DEF x
    <3>3. QED
      BY <3>1, <3>2
  <2> HIDE DEF h
  <2>6. Runs(m + 1, T, a, F, h)
    BY <2>3, <2>4, <2>5 DEF Runs
  <2>7. QED
    BY <2>6
<1> HIDE DEF Is
<1>3. B = {}
  <2> SUFFICES ASSUME B # {} PROVE FALSE
    OBVIOUS
  <2>1. B \in SUBSET Nat
    OBVIOUS
  <2>2. PICK m \in B : \A l \in B : m <= l
    BY <2>1, LeastNat
  <2>3. m \in Nat /\ m <= n /\ ~ Is(m)
    OBVIOUS
  <2>4. m # 0
    BY <1>1, <2>3
  <2>5. m - 1 \in 0..n /\ m - 1 \notin B
    BY <2>2, <2>3, <2>4
  <2>6. Is(m - 1)
    BY <2>5
  <2>7. Is((m - 1) + 1)
    BY <1>2, <2>3, <2>5, <2>6
  <2>8. QED
    BY <2>3, <2>7
<1>4. Is(n)
  BY <1>3
<1>5. QED
  BY <1>4 DEF Is

\* Induction up to n, over a set.
LEMMA UpTo ==
  ASSUME NEW n \in Nat, NEW S, 0 \in S, \A k \in 0..(n - 1) : k \in S => k + 1 \in S
  PROVE  \A k \in 0..n : k \in S
<1> DEFINE B == {k \in 0..n : k \notin S}
<1> SUFFICES ASSUME B # {} PROVE FALSE
  OBVIOUS
<1>1. B \in SUBSET Nat
  OBVIOUS
<1>2. PICK m \in B : \A l \in B : m <= l
  BY <1>1, LeastNat
<1>3. m \in Nat /\ m <= n /\ m # 0
  OBVIOUS
<1>4. m - 1 \in 0..(n - 1) /\ m - 1 \notin B
  BY <1>2, <1>3
<1>5. m - 1 \in S
  BY <1>3, <1>4
<1>6. (m - 1) + 1 \in S
  BY <1>4, <1>5
<1>7. QED
  BY <1>3, <1>6

=============================================================================
