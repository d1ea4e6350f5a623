------------------------------ MODULE SumFacts ------------------------------
(***************************************************************************)
(* What the proofs need of sums over a finite set, and of the powers of    *)
(* two and the remainders that 32 bits can hold.                           *)
(***************************************************************************)
EXTENDS Integers, FiniteSets, FiniteSetTheorems, WellFoundedInduction, TLAPS

-----------------------------------------------------------------------------
(* Induction, as the least counterexample. *)

\* A set of natural numbers has a least element.
LEMMA LeastNatural ==
  ASSUME NEW C, C \subseteq Nat, C # {}
  PROVE  \E m \in C : \A k \in C : m <= k
<1> DEFINE R == {ss \in Nat \X Nat : ss[1] < ss[2]}
<1>1. IsWellFoundedOn(R, Nat)
  BY NatLessThanWellFounded DEF OpToRel
<1>2. PICK m \in C : \A k \in C : ~(<<k, m>> \in R)
  <2> HIDE DEF R
  <2> QED
    BY <1>1, WFMin
<1>3. ASSUME NEW k \in C PROVE m <= k
  <2>1. <<k, m>> \in Nat \X Nat
    OBVIOUS
  <2> QED
    BY <1>2, <2>1
<1> QED
  BY <1>3

-----------------------------------------------------------------------------
(* Sums. *)

\* The function that a fold with + over the subsets of S is chosen to be: the sum
\* of v over each of them.
Sums(g, v, S) ==
  g = [s \in SUBSET S |->
         IF s = {} THEN 0
         ELSE v[CHOOSE x \in s : TRUE] + g[s \ {CHOOSE x \in s : TRUE}]]

\* One element less.
LEMMA OneLess ==
  ASSUME NEW s, IsFiniteSet(s), NEW x \in s
  PROVE  /\ Cardinality(s) \in Nat /\ Cardinality(s \ {x}) \in Nat
         /\ Cardinality(s \ {x}) = Cardinality(s) - 1 /\ IsFiniteSet(s \ {x})
<1>1. IsFiniteSet(s \ {x}) /\ Cardinality(s \ {x}) = Cardinality(s) - 1
  BY FS_RemoveElement
<1> QED
  BY <1>1, FS_CardinalityType

LEMMA SumsExist ==
  ASSUME NEW S, IsFiniteSet(S), NEW v \in [S -> Nat]
  PROVE  \E g : Sums(g, v, S)
<1> DEFINE ch(s) == CHOOSE x \in s : TRUE
           E(g, s) == IF s = {} THEN 0 ELSE v[ch(s)] + g[s \ {ch(s)}]
           Ok(g, n) == \A s \in SUBSET S : Cardinality(s) <= n => g[s] = E(g, s)
           C == {n \in Nat : ~\E g \in [SUBSET S -> Nat] : Ok(g, n)}
<1>1. ASSUME NEW s \in SUBSET S
      PROVE  /\ IsFiniteSet(s) /\ Cardinality(s) \in Nat /\ Cardinality(s) <= Cardinality(S)
             /\ Cardinality(s) = 0 => s = {}
             /\ s # {} => /\ ch(s) \in s /\ s \ {ch(s)} \in SUBSET S
                          /\ Cardinality(s \ {ch(s)}) = Cardinality(s) - 1
  <2>1. IsFiniteSet(s) /\ Cardinality(s) \in Nat /\ Cardinality(s) <= Cardinality(S)
    BY FS_Subset, FS_CardinalityType
  <2>2. Cardinality(s) = 0 => s = {}
    BY <2>1, FS_EmptySet
  <2>3. ASSUME s # {} PROVE ch(s) \in s
    BY <2>3
  <2>4. ASSUME s # {}, NEW x \in s PROVE Cardinality(s \ {x}) = Cardinality(s) - 1
    BY <2>1, OneLess
  <2> HIDE DEF ch
  <2> QED
    BY <2>1, <2>2, <2>3, <2>4
<1> HIDE DEF ch
<1>2. ASSUME NEW n \in Nat PROVE \E g \in [SUBSET S -> Nat] : Ok(g, n)
  <2> SUFFICES ASSUME C # {} PROVE FALSE
    BY <1>2
  <2>1. PICK m \in C : \A k \in C : m <= k
    BY LeastNatural
  <2>2. CASE m = 0
    <3> DEFINE g == [s \in SUBSET S |-> 0]
    <3>1. g \in [SUBSET S -> Nat]
      OBVIOUS
    <3>2. ASSUME NEW s \in SUBSET S, Cardinality(s) <= m PROVE g[s] = E(g, s)
      <4>1. s = {}
        <5>1. Cardinality(s) \in Nat /\ (Cardinality(s) = 0 => s = {})
          BY <1>1
        <5>2. Cardinality(s) <= 0
          BY <2>2, <3>2
        <5> QED
          BY <5>1, <5>2
      <4> QED
        BY <4>1
    <3> QED
      BY <2>1, <3>1, <3>2
  <2>3. CASE m # 0
    <3>1. m - 1 \in Nat /\ m - 1 \notin C
      <4>1. m \in Nat
        OBVIOUS
      <4> HIDE DEF C
      <4> QED
        BY <2>1, <2>3, <4>1
    <3>2. PICK g \in [SUBSET S -> Nat] : Ok(g, m - 1)
      BY <3>1
    <3> DEFINE h == [s \in SUBSET S |-> IF Cardinality(s) <= m - 1 THEN g[s] ELSE E(g, s)]
    <3>3. ASSUME NEW s \in SUBSET S PROVE E(g, s) \in Nat
      <4>1. CASE s = {}
        BY <4>1
      <4>2. CASE s # {}
        <5>1. v[ch(s)] \in Nat /\ g[s \ {ch(s)}] \in Nat
          BY <1>1, <4>2
        <5> QED
          BY <4>2, <5>1
      <4> QED
        BY <4>1, <4>2
    <3>4. h \in [SUBSET S -> Nat]
      BY <3>3
    <3>5. ASSUME NEW s \in SUBSET S, Cardinality(s) <= m PROVE h[s] = E(h, s)
      <4>1. CASE s = {}
        <5>1. h[s] = g[s] \/ h[s] = 0
          BY <4>1
        <5>2. Cardinality(s) <= m - 1
          BY <4>1, <3>1, FS_EmptySet
        <5> QED
          BY <3>2, <4>1, <5>1, <5>2
      <4>2. CASE s # {}
        <5>1. /\ s \ {ch(s)} \in SUBSET S /\ Cardinality(s \ {ch(s)}) <= m - 1
              /\ Cardinality(s) \in Nat
          <6>1. /\ Cardinality(s \ {ch(s)}) = Cardinality(s) - 1 /\ Cardinality(s) \in Nat
                /\ s \ {ch(s)} \in SUBSET S
            BY <1>1, <4>2
          <6>2. m \in Nat
            OBVIOUS
          <6> QED
            BY <3>5, <6>1, <6>2
        <5>2. h[s \ {ch(s)}] = g[s \ {ch(s)}]
          BY <5>1
        <5>3. h[s] = E(g, s)
          BY <3>2, <5>1
        <5> QED
          BY <4>2, <5>2, <5>3
      <4> QED
        BY <4>1, <4>2
    <3> QED
      BY <2>1, <3>4, <3>5
  <2> QED
    BY <2>2, <2>3
<1>3. Cardinality(S) \in Nat
  BY FS_CardinalityType
<1>4. PICK g \in [SUBSET S -> Nat] : Ok(g, Cardinality(S))
  BY <1>2, <1>3
<1>5. \A s \in SUBSET S : g[s] = E(g, s)
  BY <1>1, <1>4
<1>6. g = [s \in SUBSET S |-> E(g, s)]
  BY <1>5
<1> QED
  BY <1>6 DEF Sums, ch

LEMMA SumOfNone ==
  ASSUME NEW S, NEW v, NEW g, Sums(g, v, S)
  PROVE  g[{}] = 0
BY DEF Sums

\* A sum may be taken in any order.
LEMMA SumTakes ==
  ASSUME NEW S, IsFiniteSet(S), NEW v \in [S -> Nat], NEW g, Sums(g, v, S),
         NEW some \in SUBSET S, NEW one \in some
  PROVE  g[some] = v[one] + g[some \ {one}]
<1> DEFINE ch(s) == CHOOSE x \in s : TRUE
           Good(s) == g[s] \in Nat /\ \A x \in s : g[s] = v[x] + g[s \ {x}]
           C == {n \in Nat : \E s \in SUBSET S : Cardinality(s) = n /\ ~Good(s)}
<1>1. g[{}] = 0
  BY SumOfNone
<1>2. ASSUME NEW s \in SUBSET S, s # {}
      PROVE  ch(s) \in s /\ g[s] = v[ch(s)] + g[s \ {ch(s)}]
  BY <1>2 DEF Sums
<1> HIDE DEF ch
<1>3. ASSUME NEW s \in SUBSET S PROVE IsFiniteSet(s) /\ Cardinality(s) \in Nat
  BY FS_Subset, FS_CardinalityType
<1>4. C = {}
  <2> SUFFICES ASSUME C # {} PROVE FALSE
    OBVIOUS
  <2>1. PICK m \in C : \A k \in C : m <= k
    BY LeastNatural
  <2>2. PICK s \in SUBSET S : Cardinality(s) = m /\ ~Good(s)
    BY <2>1
  <2>3. ASSUME NEW t \in SUBSET S, Cardinality(t) = m - 1 PROVE Good(t)
    <3>1. m - 1 \notin C /\ m - 1 \in Nat
      <4>1. m - 1 \in Nat /\ ~(m <= m - 1)
        BY <1>3, <2>2, <2>3
      <4> HIDE DEF C
      <4> QED
        BY <2>1, <4>1
    <3> HIDE DEF Good
    <3> QED
      BY <2>3, <3>1
  <2>4. s # {}
    BY <1>1, <2>2
  <2>5. ASSUME NEW x \in s
        PROVE  s \ {x} \in SUBSET S /\ Cardinality(s \ {x}) = m - 1 /\ Good(s \ {x})
    <3>1. Cardinality(s \ {x}) = m - 1
      BY <1>3, <2>2, OneLess
    <3> QED
      BY <2>3, <3>1
  <2>6. ch(s) \in s /\ g[s] = v[ch(s)] + g[s \ {ch(s)}]
    BY <1>2, <2>4
  <2>7. \A x \in s : v[x] \in Nat /\ g[s \ {x}] \in Nat
    BY <2>5
  <2>8. g[s] \in Nat
    <3> DEFINE y == ch(s)
    <3>1. v[y] \in Nat /\ g[s \ {y}] \in Nat /\ g[s] = v[y] + g[s \ {y}]
      BY <2>6, <2>7
    <3> HIDE DEF y
    <3> QED
      BY <3>1
  <2>9. ASSUME NEW x \in s, x # ch(s) PROVE g[s] = v[x] + g[s \ {x}]
    <3>1. g[s \ {ch(s)}] = v[x] + g[(s \ {ch(s)}) \ {x}]
      BY <2>5, <2>6, <2>9
    <3>2. g[s \ {x}] = v[ch(s)] + g[(s \ {x}) \ {ch(s)}]
      BY <2>5, <2>6, <2>9
    <3>3. (s \ {x}) \ {ch(s)} = (s \ {ch(s)}) \ {x}
      OBVIOUS
    <3>4. s \ {ch(s)} \in SUBSET S /\ (s \ {ch(s)}) \ {x} \in SUBSET S
      OBVIOUS
    <3>5. g[(s \ {ch(s)}) \ {x}] \in Nat
      <4>1. Cardinality((s \ {ch(s)}) \ {x}) = m - 2 /\ m \in Nat
        <5>1. /\ Cardinality(s \ {ch(s)}) = m - 1 /\ IsFiniteSet(s \ {ch(s)})
              /\ x \in s \ {ch(s)} /\ m \in Nat
          BY <1>3, <2>2, <2>5, <2>6, <2>9, <3>4
        <5>2. Cardinality((s \ {ch(s)}) \ {x}) = Cardinality(s \ {ch(s)}) - 1
          BY <5>1, OneLess
        <5> QED
          BY <5>1, <5>2
      <4>2. Cardinality((s \ {ch(s)}) \ {x}) \in Nat
        BY <1>3, <3>4
      <4>3. m - 2 \in Nat /\ m - 2 \notin C
        BY <2>1, <4>1, <4>2
      <4> QED
        BY <3>4, <4>1, <4>3
    <3> DEFINE r == g[(s \ {ch(s)}) \ {x}]
    <3>6. g[s] = v[ch(s)] + (v[x] + r) /\ g[s \ {x}] = v[ch(s)] + r
      BY <2>6, <3>1, <3>2, <3>3
    <3>7. v[ch(s)] \in Nat /\ v[x] \in Nat /\ r \in Nat
      BY <2>6, <2>7, <3>5
    <3> HIDE DEF r
    <3> QED
      BY <3>6, <3>7
  <2> QED
    BY <2>2, <2>6, <2>8, <2>9
<1>5. Good(some)
  BY <1>3, <1>4
<1> QED
  BY <1>5

-----------------------------------------------------------------------------
(* Powers of two and remainders. *)

Doubles(k) == 2^k \in Nat \ {0} /\ 2^(k + 1) = 2 * 2^k

\* The prover computes a power of given numbers, and knows no law of powers.
LEMMA Powers ==
  ASSUME NEW k \in 0..31
  PROVE  Doubles(k)
<1>1. Doubles(0) /\ Doubles(1) /\ Doubles(2) /\ Doubles(3) /\ Doubles(4) /\ Doubles(5)
      /\ Doubles(6) /\ Doubles(7) /\ Doubles(8) /\ Doubles(9) /\ Doubles(10)
      /\ Doubles(11) /\ Doubles(12) /\ Doubles(13) /\ Doubles(14) /\ Doubles(15)
      /\ Doubles(16) /\ Doubles(17) /\ Doubles(18) /\ Doubles(19) /\ Doubles(20)
      /\ Doubles(21) /\ Doubles(22) /\ Doubles(23) /\ Doubles(24) /\ Doubles(25)
      /\ Doubles(26) /\ Doubles(27) /\ Doubles(28) /\ Doubles(29) /\ Doubles(30)
      /\ Doubles(31)
  BY DEF Doubles
<1>2. k = 0 \/ k = 1 \/ k = 2 \/ k = 3 \/ k = 4 \/ k = 5 \/ k = 6 \/ k = 7 \/ k = 8
      \/ k = 9 \/ k = 10 \/ k = 11 \/ k = 12 \/ k = 13 \/ k = 14 \/ k = 15 \/ k = 16
      \/ k = 17 \/ k = 18 \/ k = 19 \/ k = 20 \/ k = 21 \/ k = 22 \/ k = 23 \/ k = 24
      \/ k = 25 \/ k = 26 \/ k = 27 \/ k = 28 \/ k = 29 \/ k = 30 \/ k = 31
  OBVIOUS
<1> QED
  BY <1>1, <1>2

LEMMA Division ==
  ASSUME NEW n \in Nat, NEW p \in Nat \ {0}
  PROVE  /\ n = (n \div p) * p + (n % p)
         /\ n % p \in 0..(p - 1) /\ n \div p \in Nat
OBVIOUS

LEMMA Quotient ==
  ASSUME NEW p \in Nat \ {0}, NEW q \in Int, NEW r \in 0..(p - 1)
  PROVE  (q * p + r) % p = r /\ (q * p + r) \div p = q
OBVIOUS

LEMMA Remainder ==
  ASSUME NEW p \in Nat \ {0}, NEW n \in Int
  PROVE  /\ n \in 0..(p - 1) => n % p = n
         /\ n \in p..(2 * p - 1) => n % p = n - p
         /\ n \in (-p)..(-1) => n % p = n + p
<1>1. ASSUME NEW q \in Int, n - q * p \in 0..(p - 1) PROVE n % p = n - q * p
  <2>1. (q * p + (n - q * p)) % p = n - q * p
    BY <1>1, Quotient
  <2> QED
    BY <2>1
<1>2. n - 0 * p = n /\ n - 1 * p = n - p /\ n - (-1) * p = n + p
  OBVIOUS
<1>3. n \in 0..(p - 1) => n % p = n
  BY <1>1, <1>2
<1>4. n \in p..(2 * p - 1) => n % p = n - p
  <2>1. n \in p..(2 * p - 1) => n - 1 * p \in 0..(p - 1)
    OBVIOUS
  <2> QED
    BY <1>1, <1>2, <2>1
<1>5. n \in (-p)..(-1) => n % p = n + p
  <2>1. n \in (-p)..(-1) => n - (-1) * p \in 0..(p - 1)
    OBVIOUS
  <2> QED
    BY <1>1, <1>2, <2>1
<1> QED
  BY <1>3, <1>4, <1>5

\* A remainder takes one bit more.
LEMMA OneBitMore ==
  ASSUME NEW n \in Nat, NEW p \in Nat \ {0}
  PROVE  n % (2 * p) = ((n \div p) % 2) * p + (n % p)
<1> DEFINE q == n \div p
           r == n % p
           h == q \div 2
           b == q % 2
<1>1. n = q * p + r /\ r \in 0..(p - 1) /\ q \in Nat
  BY Division
<1>2. q = h * 2 + b /\ b \in 0..1 /\ h \in Nat
  <2> HIDE DEF q
  <2> QED
    BY <1>1, Division
<1> HIDE DEF q, r, h, b
<1>3. n = h * (2 * p) + (b * p + r)
  <2>1. q * p = h * (2 * p) + b * p
    BY <1>2
  <2> QED
    BY <1>1, <1>2, <2>1
<1>4. b * p + r \in 0..(2 * p - 1)
  <2>1. b = 0 \/ b = 1
    BY <1>2
  <2> QED
    BY <1>1, <2>1
<1>5. n % (2 * p) = b * p + r
  <2> DEFINE w == 2 * p
             t == b * p + r
  <2>1. w \in Nat \ {0} /\ h \in Int
    BY <1>2
  <2>2. n = h * w + t /\ t \in 0..(w - 1)
    BY <1>3, <1>4
  <2> HIDE DEF w, t
  <2>3. n % w = t
    BY <2>1, <2>2, Quotient
  <2> QED
    BY <2>3 DEF w, t
<1> QED
  BY <1>5 DEF b, r, q

\* One power divides a greater one.
LEMMA PowersDivide ==
  ASSUME NEW k \in 0..31, NEW j \in (k + 1)..32
  PROVE  \E m \in Nat : 2^j = m * (2 * 2^k)
<1> DEFINE C == {i \in (k + 1)..32 : ~\E m \in Nat : 2^i = m * (2 * 2^k)}
<1> SUFFICES ASSUME C # {} PROVE FALSE
  OBVIOUS
<1>0. C \subseteq Nat
  OBVIOUS
<1>1. PICK i \in C : \A l \in C : i <= l
  BY <1>0, LeastNatural
<1>2. CASE i = k + 1
  <2>1. 2^i = 1 * (2 * 2^k)
    <3>1. Doubles(k)
      BY Powers
    <3> QED
      BY <1>2, <3>1 DEF Doubles
  <2> QED
    BY <2>1
<1>3. CASE i # k + 1
  <2>0. i \in (k + 1)..32
    OBVIOUS
  <2>1. i - 1 \in (k + 1)..32 /\ i - 1 \notin C /\ i - 1 \in 0..31 /\ i - 1 \in Nat
    <3>1. i - 1 \in (k + 1)..32 /\ i - 1 \in 0..31 /\ i - 1 \in Nat /\ ~(i <= i - 1)
      BY <1>3, <2>0
    <3> HIDE DEF C
    <3> QED
      BY <1>1, <3>1
  <2>2. PICK m \in Nat : 2^(i - 1) = m * (2 * 2^k)
    BY <2>1
  <2>3. 2^i = 2 * 2^(i - 1)
    <3>1. Doubles(i - 1)
      BY <2>1, Powers
    <3>2. (i - 1) + 1 = i
      OBVIOUS
    <3> QED
      BY <3>1, <3>2 DEF Doubles
  <2>4. 2^k \in Nat
    BY Powers DEF Doubles
  <2>5. 2^i = (2 * m) * (2 * 2^k)
    BY <2>2, <2>3, <2>4
  <2>6. 2 * m \in Nat
    OBVIOUS
  <2> QED
    BY <2>5, <2>6
<1> QED
  BY <1>2, <1>3

=============================================================================
