--------------------------- MODULE HxValues_proofs ---------------------------
(***************************************************************************)
(* Proofs about HxValues, for any number of chips and bits that fit into   *)
(* words of at most 32 bits: the words of a frame come back as the values  *)
(* that the chips converted.                                               *)
(***************************************************************************)
EXTENDS HxValues, SumFacts, SequenceFacts

\* The code has Bits = 24 and IntBits = 32.
FitsWord == IntBits <= 32

USE ValuesAssumption

-----------------------------------------------------------------------------
(* Numbers and their bits. *)

LEMMA Widths ==
  ASSUME FitsWord
  PROVE  /\ Bits \in 1..31 /\ Bits - 1 \in 0..31 /\ IntBits \in (Bits + 1)..32
         /\ ChipsLen \in 1..31
BY DEF FitsWord

LEMMA BitValue ==
  ASSUME NEW n \in Nat, NEW k \in 0..31
  PROVE  Bit(n, k) \in 0..1
<1>1. 2^k \in Nat \ {0}
  BY Powers DEF Doubles
<1>2. n \div 2^k \in Nat
  BY <1>1, Division
<1> QED
  BY <1>2 DEF Bit

\* A multiple of twice a power does not touch its bit.
LEMMA BitPlus ==
  ASSUME NEW n \in Nat, NEW m \in Nat, NEW p \in Nat \ {0}
  PROVE  ((n + m * (2 * p)) \div p) % 2 = (n \div p) % 2
<1> DEFINE q == n \div p
           r == n % p
<1>1. n = q * p + r /\ r \in 0..(p - 1) /\ q \in Nat
  BY Division
<1> HIDE DEF q, r
<1>2. n + m * (2 * p) = (q + 2 * m) * p + r
  <2>1. m * (2 * p) = (2 * m) * p
    OBVIOUS
  <2> QED
    BY <1>1, <2>1
<1>3. (n + m * (2 * p)) \div p = q + 2 * m
  <2> DEFINE t == q + 2 * m
  <2>1. t \in Int
    BY <1>1
  <2> HIDE DEF t
  <2>2. (t * p + r) \div p = t
    BY <1>1, <2>1, Quotient
  <2> QED
    BY <1>2, <2>2 DEF t
<1>4. (q + 2 * m) % 2 = q % 2
  BY <1>1
<1> QED
  BY <1>3, <1>4 DEF q

\* The bits that `|=` sets one by one make up the number.
LEMMA FromBitsIsNumber ==
  ASSUME NEW n \in Nat, NEW b \in 1..31
  PROVE  FromBits([shift \in 0..(b - 1) |-> Bit(n, shift)]) = n % 2^b
<1> DEFINE S == 0..(b - 1)
           bit == [shift \in S |-> Bit(n, shift)]
           v == [k \in S |-> bit[k] * 2^k]
           iter[s \in SUBSET S] ==
             IF s = {} THEN 0
             ELSE LET x == CHOOSE y \in s : TRUE IN bit[x] * 2^x + iter[s \ {x}]
<1>1. IsFiniteSet(S) /\ S \subseteq 0..31
  <2>1. b - 1 \in Int
    OBVIOUS
  <2>2. IsFiniteSet(0..(b - 1))
    BY <2>1, FS_Interval
  <2>3. S \subseteq 0..31
    OBVIOUS
  <2> QED
    BY <2>2, <2>3
<1>2. v \in [S -> Nat]
  <2>1. ASSUME NEW k \in S PROVE bit[k] * 2^k \in Nat
    <3>1. bit[k] \in 0..1 /\ 2^k \in Nat
      BY <1>1, BitValue, Powers DEF Doubles
    <3>2. bit[k] = 0 \/ bit[k] = 1
      BY <3>1
    <3> HIDE DEF bit
    <3> QED
      BY <3>1, <3>2
  <2> QED
    BY <2>1
<1>3. PICK g : Sums(g, v, S)
  <2> HIDE DEF v, S
  <2> QED
    BY <1>1, <1>2, SumsExist
<1>4. ASSUME NEW s \in SUBSET S, s # {}
      PROVE  v[CHOOSE x \in s : TRUE] =
               bit[CHOOSE x \in s : TRUE] * 2^(CHOOSE x \in s : TRUE)
  <2>1. (CHOOSE x \in s : TRUE) \in S
    BY <1>4
  <2> HIDE DEF S, bit
  <2> QED
    BY <2>1
<1>5. g = [s \in SUBSET S |->
             IF s = {} THEN 0
             ELSE LET x == CHOOSE y \in s : TRUE IN bit[x] * 2^x + g[s \ {x}]]
  <2> HIDE DEF v, bit, S
  <2> QED
    BY <1>3, <1>4 DEF Sums
<1>6. iter = [s \in SUBSET S |->
                IF s = {} THEN 0
                ELSE LET x == CHOOSE y \in s : TRUE IN bit[x] * 2^x + iter[s \ {x}]]
  <2> HIDE DEF bit, S
  <2> QED
    BY <1>5, Zenon
<1>11. FromBits(bit) = iter[S]
  BY DEF FromBits, MapThenSumSet, MapThenFoldSet
<1> HIDE DEF iter
<1>7. Sums(iter, v, S)
  <2> HIDE DEF v, bit, S
  <2> QED
    BY <1>4, <1>6 DEF Sums
<1>8. iter[{}] = 0 /\ \A s \in SUBSET S : \A x \in s : iter[s] = v[x] + iter[s \ {x}]
  <2> HIDE DEF v, bit, S
  <2>1. IsFiniteSet(S)
    BY <1>1
  <2>2. iter[{}] = 0
    BY <1>7, SumOfNone
  <2>3. ASSUME NEW s \in SUBSET S, NEW x \in s
        PROVE  iter[s] = v[x] + iter[s \ {x}]
    BY <2>1, <1>2, <1>7, SumTakes
  <2> QED
    BY <2>2, <2>3
<1> DEFINE C == {j \in 0..b : iter[0..(j - 1)] # n % 2^j}
<1>9. C = {}
  <2> SUFFICES ASSUME C # {} PROVE FALSE
    OBVIOUS
  <2>1. PICK j \in C : \A i \in C : j <= i
    <3>1. C \subseteq Nat
      OBVIOUS
    <3> HIDE DEF C
    <3> QED
      BY <3>1, LeastNatural
  <2>2. CASE j = 0
    <3>1. iter[0..(j - 1)] = 0
      <4>1. 0..(j - 1) = {}
        BY <2>2
      <4> QED
        BY <1>8, <4>1
    <3>2. n % 2^j = 0
      BY <2>2
    <3> QED
      BY <3>1, <3>2
  <2>3. CASE j # 0
    <3> DEFINE i == j - 1
    <3>1. i \in S /\ i \in 0..31 /\ i \in 0..b /\ j = i + 1 /\ ~(j <= i)
      BY <2>3
    <3>2. iter[0..(i - 1)] = n % 2^i
      <4>1. i \notin C
        <5> HIDE DEF C, i
        <5> QED
          BY <2>1, <3>1
      <4> QED
        BY <3>1, <4>1
    <3>3. iter[0..i] = v[i] + iter[0..(i - 1)]
      <4>1. 0..i \in SUBSET S /\ i \in 0..i /\ (0..i) \ {i} = 0..(i - 1)
        BY <3>1
      <4> HIDE DEF S, v, i
      <4> QED
        BY <1>8, <4>1
    <3>4. v[i] = ((n \div 2^i) % 2) * 2^i
      BY <3>1 DEF Bit
    <3>5. 2^i \in Nat \ {0} /\ 2^j = 2 * 2^i
      BY <3>1, Powers DEF Doubles
    <3>6. n % 2^j = ((n \div 2^i) % 2) * 2^i + (n % 2^i)
      <4> HIDE DEF i
      <4>1. n % (2 * 2^i) = ((n \div 2^i) % 2) * 2^i + (n % 2^i)
        BY <3>5, OneBitMore
      <4> QED
        BY <3>5, <4>1
    <3>7. iter[0..i] = n % 2^j
      <4> HIDE DEF i, v
      <4> QED
        BY <3>2, <3>3, <3>4, <3>6
    <3>8. 0..i = 0..(j - 1)
      OBVIOUS
    <3> QED
      BY <3>7, <3>8
  <2> QED
    BY <2>2, <2>3
<1>10. iter[S] = n % 2^b
  <2>1. b \in 0..b
    OBVIOUS
  <2>2. iter[0..(b - 1)] = n % 2^b
    BY <1>9, <2>1
  <2> QED
    BY <2>2
<1> QED
  BY <1>11, <1>10

\* The word of the pins has the bits of those that are high, and no others.
LEMMA InPinsIsMask ==
  ASSUME NEW b \in 1..31, NEW high \in SUBSET (0..(b - 1))
  PROVE  /\ InPins(high) \in 0..(2^b - 1)
         /\ \A c \in 0..(b - 1) : Bit(InPins(high), c) = IF c \in high THEN 1 ELSE 0
<1> DEFINE v == [c \in high |-> 2^c]
           iter[s \in SUBSET high] ==
             IF s = {} THEN 0
             ELSE LET x == CHOOSE y \in s : TRUE IN 2^x + iter[s \ {x}]
<1>1. IsFiniteSet(high) /\ high \subseteq 0..31
  <2>1. b - 1 \in Int
    OBVIOUS
  <2>2. IsFiniteSet(0..(b - 1))
    BY <2>1, FS_Interval
  <2>3. IsFiniteSet(high)
    BY <2>2, FS_Subset
  <2>4. high \subseteq 0..31
    OBVIOUS
  <2> QED
    BY <2>3, <2>4
<1>2. v \in [high -> Nat]
  BY <1>1, Powers DEF Doubles
<1>3. PICK g : Sums(g, v, high)
  <2> HIDE DEF v
  <2> QED
    BY <1>1, <1>2, SumsExist
<1>4. ASSUME NEW s \in SUBSET high, s # {}
      PROVE  v[CHOOSE x \in s : TRUE] = 2^(CHOOSE x \in s : TRUE)
  <2>1. (CHOOSE x \in s : TRUE) \in high
    BY <1>4
  <2> QED
    BY <2>1
<1>5. g = [s \in SUBSET high |->
             IF s = {} THEN 0
             ELSE LET x == CHOOSE y \in s : TRUE IN 2^x + g[s \ {x}]]
  <2> HIDE DEF v
  <2> QED
    BY <1>3, <1>4 DEF Sums
<1>6. iter = [s \in SUBSET high |->
                IF s = {} THEN 0
                ELSE LET x == CHOOSE y \in s : TRUE IN 2^x + iter[s \ {x}]]
  BY <1>5, Zenon
<1>7. InPins(high) = iter[high]
  BY DEF InPins, MapThenSumSet, MapThenFoldSet
<1> HIDE DEF iter
<1>8. Sums(iter, v, high)
  <2> HIDE DEF v
  <2> QED
    BY <1>4, <1>6 DEF Sums
<1>9. /\ iter[{}] = 0
      /\ \A s \in SUBSET high : \A x \in s : iter[s] = v[x] + iter[s \ {x}]
  <2> HIDE DEF v
  <2>1. IsFiniteSet(high)
    BY <1>1
  <2>2. iter[{}] = 0
    BY <1>8, SumOfNone
  <2>3. ASSUME NEW s \in SUBSET high, NEW x \in s
        PROVE  iter[s] = v[x] + iter[s \ {x}]
    BY <2>1, <1>2, <1>8, SumTakes
  <2> QED
    BY <2>2, <2>3
<1> DEFINE low(j) == high \cap (0..(j - 1))
           Masks(j) ==
             /\ iter[low(j)] \in 0..(2^j - 1)
             /\ \A c \in 0..(j - 1) : Bit(iter[low(j)], c) = IF c \in high THEN 1 ELSE 0
           C == {j \in 0..b : ~Masks(j)}
<1>10. Masks(0)
  <2>1. low(0) = {} /\ 0..(0 - 1) = {}
    OBVIOUS
  <2>2. iter[low(0)] = 0
    BY <1>9, <2>1
  <2>3. 0 \in 0..(2^0 - 1)
    OBVIOUS
  <2> HIDE DEF low
  <2> QED
    BY <2>1, <2>2, <2>3
<1>11. ASSUME NEW i \in 0..(b - 1), Masks(i) PROVE Masks(i + 1)
  <2> DEFINE n == iter[low(i)]
  <2>1. /\ 2^i \in Nat \ {0} /\ 2^(i + 1) = 2 * 2^i /\ n \in Nat /\ n < 2^i /\ i \in 0..31
        /\ \A c \in 0..(i - 1) : Bit(n, c) = IF c \in high THEN 1 ELSE 0
    <3>1. i \in 0..31 /\ Doubles(i)
      BY Powers
    <3> HIDE DEF low
    <3> QED
      BY <1>11, <3>1 DEF Doubles
  <2>2. CASE i \notin high
    <3>1. low(i + 1) = low(i)
      BY <2>2
    <3>2. n \div 2^i = 0
      <4>1. n = 0 * 2^i + n /\ n \in 0..(2^i - 1) /\ 0 \in Int
        BY <2>1
      <4> HIDE DEF n
      <4> QED
        BY <2>1, <4>1, Quotient
    <3>3. Bit(n, i) = 0
      BY <3>2 DEF Bit
    <3>4. \A c \in 0..i : Bit(n, c) = IF c \in high THEN 1 ELSE 0
      <4> HIDE DEF n
      <4> QED
        BY <2>1, <2>2, <3>3
    <3>5. n \in 0..(2^(i + 1) - 1)
      <4> HIDE DEF n
      <4> QED
        BY <2>1
    <3>6. 0..((i + 1) - 1) = 0..i
      OBVIOUS
    <3> HIDE DEF low
    <3> QED
      BY <3>1, <3>4, <3>5, <3>6
  <2>3. CASE i \in high
    <3>1. low(i + 1) \in SUBSET high /\ i \in low(i + 1) /\ low(i + 1) \ {i} = low(i)
      BY <2>3
    <3>2. iter[low(i + 1)] = 2^i + n
      <4>1. v[i] = 2^i
        BY <2>3
      <4> HIDE DEF low, v
      <4> QED
        BY <1>9, <3>1, <4>1
    <3>3. 2^i + n \in 0..(2^(i + 1) - 1)
      <4> HIDE DEF n
      <4> QED
        BY <2>1
    <3>4. Bit(2^i + n, i) = 1
      <4>1. 2^i + n = 1 * 2^i + n /\ n \in 0..(2^i - 1) /\ 1 \in Int
        BY <2>1
      <4>2. (2^i + n) \div 2^i = 1
        <5> HIDE DEF n
        <5> QED
          BY <2>1, <4>1, Quotient
      <4> QED
        BY <4>2 DEF Bit
    <3>5. ASSUME NEW c \in 0..(i - 1) PROVE Bit(2^i + n, c) = Bit(n, c)
      <4>1. c \in 0..31 /\ i \in (c + 1)..32
        BY <2>1
      <4>2. PICK m \in Nat : 2^i = m * (2 * 2^c)
        BY <4>1, PowersDivide
      <4>3. 2^c \in Nat \ {0}
        BY <4>1, Powers DEF Doubles
      <4>4. 2^i + n = n + m * (2 * 2^c)
        <5>1. 2^i + n = n + 2^i
          <6> HIDE DEF n
          <6> QED
            BY <2>1
        <5> QED
          BY <4>2, <5>1
      <4>5. ((n + m * (2 * 2^c)) \div 2^c) % 2 = (n \div 2^c) % 2
        <5> HIDE DEF n
        <5> QED
          BY <2>1, <4>2, <4>3, BitPlus
      <4> QED
        BY <4>4, <4>5 DEF Bit
    <3>6. \A c \in 0..i : Bit(2^i + n, c) = IF c \in high THEN 1 ELSE 0
      <4> HIDE DEF n
      <4>1. \A c \in 0..i : c = i \/ c \in 0..(i - 1)
        OBVIOUS
      <4> QED
        BY <2>1, <2>3, <3>4, <3>5, <4>1
    <3>7. 0..((i + 1) - 1) = 0..i
      OBVIOUS
    <3> HIDE DEF low
    <3> QED
      BY <3>2, <3>3, <3>6, <3>7
  <2> QED
    BY <2>2, <2>3
<1>12. C = {}
  <2> HIDE DEF Masks
  <2> SUFFICES ASSUME C # {} PROVE FALSE
    OBVIOUS
  <2>1. PICK j \in C : \A k \in C : j <= k
    <3>1. C \subseteq Nat
      OBVIOUS
    <3> HIDE DEF C
    <3> QED
      BY <3>1, LeastNatural
  <2>2. j \in 0..b /\ ~Masks(j) /\ j # 0
    BY <1>10
  <2>3. j - 1 \in 0..(b - 1) /\ j - 1 \in 0..b /\ ~(j <= j - 1) /\ (j - 1) + 1 = j
    BY <2>2
  <2>4. Masks(j - 1)
    BY <2>1, <2>3
  <2> QED
    BY <1>11, <2>2, <2>3, <2>4
<1>13. Masks(b)
  <2>1. b \in 0..b
    OBVIOUS
  <2> HIDE DEF Masks
  <2> QED
    BY <1>12, <2>1
<1>14. low(b) = high
  OBVIOUS
<1> HIDE DEF low
<1> QED
  BY <1>7, <1>13, <1>14

-----------------------------------------------------------------------------
(* hx711_get_twos_comp. *)

\* The two's complement of the bits of a value is the value, in whatever width
\* above theirs the negation wraps.
LEMMA TwosCompIsValue ==
  ASSUME FitsWord, NEW value \in HX711_MIN_VALUE..HX711_MAX_VALUE
  PROVE  /\ value % 2^Bits \in 0..(2^Bits - 1)
         /\ Hx711GetTwosComp(value % 2^Bits) = value
<1> DEFINE M == 2^(Bits - 1)
           W == 2^IntBits
           half == 2^(IntBits - 1)
           raw == value % 2^Bits
<1>1. /\ M \in Nat \ {0} /\ 2^Bits = 2 * M
      /\ half \in Nat \ {0} /\ W = 2 * half
  <2>1. Doubles(Bits - 1) /\ Doubles(IntBits - 1)
    <3>1. Bits - 1 \in 0..31 /\ IntBits - 1 \in 0..31
      BY Widths
    <3> QED
      BY <3>1, Powers
  <2>2. (Bits - 1) + 1 = Bits /\ (IntBits - 1) + 1 = IntBits
    BY Widths
  <2> QED
    BY <2>1, <2>2 DEF Doubles
<1>2. PICK m \in Nat : W = m * (2 * (2 * M))
  <2>1. Bits \in 0..31 /\ IntBits \in (Bits + 1)..32
    BY Widths
  <2>2. \E m \in Nat : 2^IntBits = m * (2 * 2^Bits)
    BY <2>1, PowersDivide
  <2> QED
    BY <1>1, <2>2
<1>3. value \in (-M)..(M - 1)
  BY DEF HX711_MIN_VALUE, HX711_MAX_VALUE
<1> HIDE DEF M, W, half
<1>4. W >= 4 * M
  <2>1. m # 0
    BY <1>1, <1>2
  <2>2. m * (2 * (2 * M)) >= 1 * (2 * (2 * M))
    BY <1>1, <2>1
  <2> QED
    BY <1>1, <1>2, <2>2
<1>5. Hx711GetTwosComp(raw) = Int32((-(raw - (raw % M))) % W) + (raw % M)
  BY DEF Hx711GetTwosComp, M, W
<1>6. raw = IF value >= 0 THEN value ELSE value + 2 * M
  <2> DEFINE p == 2 * M
  <2>1. p \in Nat \ {0} /\ value \in Int /\ raw = value % p
    BY <1>1, <1>3
  <2>2. IF value >= 0 THEN value \in 0..(p - 1) ELSE value \in (-p)..(-1)
    BY <1>1, <1>3
  <2>3. IF value >= 0 THEN raw = value ELSE raw = value + p
    <3> HIDE DEF p, raw
    <3> QED
      BY <2>1, <2>2, Remainder
  <2> QED
    BY <2>3
<1> HIDE DEF raw
<1>7. raw \in 0..(2 * M - 1)
  BY <1>1, <1>3, <1>6
<1>8. raw % M = IF value >= 0 THEN value ELSE value + M
  <2>1. IF value >= 0 THEN raw \in 0..(M - 1) ELSE raw \in M..(2 * M - 1)
    BY <1>1, <1>3, <1>6
  <2>2. /\ raw \in 0..(M - 1) => raw % M = raw
        /\ raw \in M..(2 * M - 1) => raw % M = raw - M
    <3>1. M \in Nat \ {0} /\ raw \in Int
      BY <1>1, <1>7
    <3> QED
      BY <3>1, Remainder
  <2> QED
    BY <1>1, <1>3, <1>6, <2>1, <2>2
<1>9. CASE value >= 0
  <2>1. -(raw - (raw % M)) = 0
    BY <1>3, <1>1, <1>6, <1>8, <1>9
  <2>2. 0 % W = 0
    <3>1. W \in Nat \ {0} /\ 0 \in 0..(W - 1)
      BY <1>1, <1>4
    <3> QED
      BY <3>1, Remainder
  <2>3. Int32(0) = 0
    BY <1>1 DEF Int32, half
  <2>4. Hx711GetTwosComp(raw) = value
    BY <1>3, <1>1, <1>5, <1>8, <1>9, <2>1, <2>2, <2>3
  <2> QED
    BY <1>1, <1>7, <2>4 DEF raw
<1>10. CASE value < 0
  <2>1. -(raw - (raw % M)) = -M
    BY <1>3, <1>1, <1>6, <1>8, <1>10
  <2>2. (-M) % W = W - M
    <3>1. W \in Nat \ {0} /\ -M \in (-W)..(-1) /\ -M \in Int /\ -M + W = W - M
      BY <1>1, <1>4
    <3>2. (-M) % W = -M + W
      BY <3>1, Remainder
    <3> QED
      BY <3>1, <3>2
  <2>3. Int32(W - M) = -M
    <3>1. W - M >= half
      BY <1>1, <1>4
    <3> QED
      BY <1>1, <3>1 DEF Int32, half, W
  <2>4. Hx711GetTwosComp(raw) = -M + (value + M)
    BY <1>3, <1>1, <1>5, <1>8, <1>10, <2>1, <2>2, <2>3
  <2>5. -M + (value + M) = value
    BY <1>1, <1>3
  <2> QED
    BY <1>1, <1>7, <2>4, <2>5 DEF raw
<1> QED
  BY <1>1, <1>3, <1>9, <1>10

-----------------------------------------------------------------------------
(* The invariant. *)

\* What the pins show is a word of as many bits as there are chips.
LEMMA PinsFacts ==
  ASSUME FitsWord, NEW i \in Int
  PROVE  /\ PinsHigh(i) \subseteq Chips
         /\ InPins(PinsHigh(i)) \in 0..(2^ChipsLen - 1)
         /\ \A c \in Chips : Bit(InPins(PinsHigh(i)), c) = IF c \in PinsHigh(i) THEN 1 ELSE 0
<1>1. PinsHigh(i) \subseteq 0..(ChipsLen - 1)
  BY DEF PinsHigh, Chips
<1> QED
  BY <1>1, Widths, InPinsIsMask DEF Chips

LEMMA ValuesStep ==
  ASSUME FitsWord, ValuesInv, [Next]_vars
  PROVE  ValuesInv'
<1> DEFINE Words == 0..(2^ChipsLen - 1)
<1>1. /\ conv \in [Chips -> HX711_MIN_VALUE..HX711_MAX_VALUE] /\ ready \subseteq Chips
      /\ sent \in 0..Bits /\ buf \in Seq(Words) /\ Len(buf) = sent
      /\ fifo \in Seq(Words) /\ Len(fifo) <= Depth
      /\ \A i \in 1..sent : buf[i] = InPins(PinsHigh(i))
  BY DEF ValuesInv, TypeOK, FrameWords
<1> SUFFICES
      /\ conv' \in [Chips -> HX711_MIN_VALUE..HX711_MAX_VALUE] /\ ready' \subseteq Chips
      /\ sent' \in 0..Bits /\ buf' \in Seq(Words) /\ Len(buf') = sent'
      /\ fifo' \in Seq(Words) /\ Len(fifo') <= Depth
      /\ \A i \in 1..sent' : buf'[i] = InPins(PinsHigh(i))'
  BY DEF ValuesInv, TypeOK, FrameWords, Chips, HX711_MIN_VALUE, HX711_MAX_VALUE
<1> HIDE DEF Words
<1>2. ASSUME UNCHANGED conv, NEW i \in 1..Bits
      PROVE  InPins(PinsHigh(i))' = InPins(PinsHigh(i))
  <2>1. PinsHigh(i)' = PinsHigh(i)
    BY <1>2 DEF PinsHigh, Chips
  <2> QED
    BY <2>1
<1>3. \A i \in Int : InPins(PinsHigh(i)) \in Words
  BY PinsFacts DEF Words
<1>4. CASE UNCHANGED vars
  BY <1>1, <1>2, <1>4 DEF vars
<1>5. CASE \E c \in Chips : Convert(c)
  <2>1. /\ conv' \in [Chips -> HX711_MIN_VALUE..HX711_MAX_VALUE] /\ ready' \subseteq Chips
        /\ UNCHANGED <<sent, buf, fifo>> /\ sent = 0
    BY <1>1, <1>5 DEF Convert
  <2> QED
    BY <1>1, <2>1
<1>6. CASE AwaiterPush
  <2>1. /\ fifo' = Append(fifo, InPins(PinsHigh(sent))) /\ Len(fifo) < Depth
        /\ UNCHANGED <<conv, ready, sent, buf>>
    BY <1>6 DEF AwaiterPush
  <2>2. fifo' \in Seq(Words) /\ Len(fifo') = Len(fifo) + 1 /\ Len(fifo) \in Nat
    <3>1. InPins(PinsHigh(sent)) \in Words
      BY <1>1, <1>3
    <3> QED
      BY <1>1, <2>1, <3>1, AppendFacts
  <2> QED
    BY <1>1, <1>2, <2>1, <2>2
<1>7. CASE ReaderPush
  <2>1. /\ sent < Bits /\ sent' = sent + 1
        /\ buf' = Append(buf, InPins(PinsHigh(sent + 1)))
        /\ UNCHANGED <<conv, ready, fifo>>
    BY <1>7 DEF ReaderPush
  <2>2. buf' \in Seq(Words) /\ Len(buf') = sent + 1 /\ sent' \in 0..Bits
    <3>1. InPins(PinsHigh(sent + 1)) \in Words
      BY <1>1, <1>3
    <3>2. buf' \in Seq(Words) /\ Len(buf') = Len(buf) + 1
      BY <1>1, <2>1, <3>1, AppendFacts
    <3> QED
      BY <1>1, <2>1, <3>2
  <2>3. buf'[sent + 1] = InPins(PinsHigh(sent + 1)) /\ \A i \in 1..sent : buf'[i] = buf[i]
    BY <1>1, <2>1
  <2>4. ASSUME NEW i \in 1..sent' PROVE buf'[i] = InPins(PinsHigh(i))'
    <3>1. i \in 1..Bits /\ (i \in 1..sent \/ i = sent + 1)
      BY <1>1, <2>1
    <3>2. InPins(PinsHigh(i))' = InPins(PinsHigh(i))
      BY <1>2, <2>1, <3>1
    <3>3. buf'[i] = InPins(PinsHigh(i))
      BY <1>1, <2>3, <3>1
    <3> QED
      BY <3>2, <3>3
  <2> QED
    BY <1>1, <2>1, <2>2, <2>4
<1>8. CASE FrameEnds
  <2>1. ready' = {} /\ sent' = 0 /\ buf' = <<>> /\ UNCHANGED <<conv, fifo>>
    BY <1>8 DEF FrameEnds
  <2> QED
    BY <1>1, <2>1
<1>9. CASE GetSyncState
  <2>1. fifo # <<>> /\ fifo' = Tail(fifo) /\ UNCHANGED <<conv, ready, sent, buf>>
    BY <1>9 DEF GetSyncState
  <2>2. fifo' \in Seq(Words) /\ Len(fifo') = Len(fifo) - 1
    BY <1>1, <2>1, TailFacts
  <2> QED
    BY <1>1, <1>2, <2>1, <2>2
<1>10. CASE Sync
  <2>1. ready' = {} /\ sent' = 0 /\ buf' = <<>> /\ fifo' = <<>> /\ UNCHANGED conv
    BY <1>10 DEF Sync
  <2> QED
    BY <1>1, <2>1
<1> QED
  BY <1>4, <1>5, <1>6, <1>7, <1>8, <1>9, <1>10 DEF Next

-----------------------------------------------------------------------------
(* The theorems. *)

\* The invariant holds for any number of chips and bits, and any FIFO depth.
THEOREM ValuesInvariant ==
  ASSUME FitsWord
  PROVE  Spec => []ValuesInv
<1>1. Init => ValuesInv
  BY EmptyFacts DEF Init, ValuesInv, TypeOK, FrameWords, Chips
<1>2. ValuesInv /\ [Next]_vars => ValuesInv'
  BY ValuesStep
<1> QED
  BY <1>1, <1>2, PTL DEF Spec

\* Words have a bit for each chip and no more; the awaiter's FIFO never overflows.
THEOREM TypeCorrect ==
  ASSUME FitsWord
  PROVE  Spec => []TypeOK
<1>1. ValuesInv => TypeOK
  BY DEF ValuesInv
<1> QED
  BY <1>1, ValuesInvariant, PTL

\* The words of a whole frame, transposed, are the values that the chips converted
\* (hx711_multi.c:462-514, hx711.c:231-235), at the widths of the code as well as
\* at those of the run.
THEOREM ValuesComeBack ==
  ASSUME FitsWord
  PROVE  Spec => []ValuesAreConversions
<1>1. ASSUME ValuesInv, sent = Bits PROVE PinvalsToValues(buf) = conv
  <2>1. /\ conv \in [Chips -> HX711_MIN_VALUE..HX711_MAX_VALUE]
        /\ \A i \in 1..Bits : buf[i] = InPins(PinsHigh(i))
    BY <1>1 DEF ValuesInv, TypeOK, FrameWords
  <2>2. ASSUME NEW c \in Chips
        PROVE  Hx711GetTwosComp(
                 FromBits([shift \in 0..(Bits - 1) |-> Bit(buf[Bits - shift], c)])) = conv[c]
    <3> DEFINE raw == conv[c] % 2^Bits
    <3>1. /\ raw \in 0..(2^Bits - 1) /\ Hx711GetTwosComp(raw) = conv[c]
      <4>1. conv[c] \in HX711_MIN_VALUE..HX711_MAX_VALUE
        BY <2>1
      <4> QED
        BY <4>1, TwosCompIsValue
    <3>2. raw \in Nat /\ 2^Bits \in Nat \ {0} /\ Bits \in 1..31
      <4>0. Bits \in 0..31 /\ Bits \in 1..31
        BY Widths
      <4>1. Bits \in 1..31 /\ 2^Bits \in Nat \ {0}
        BY <4>0, Powers DEF Doubles
      <4> HIDE DEF raw
      <4> QED
        BY <3>1, <4>1
    <3>3. ASSUME NEW shift \in 0..(Bits - 1)
          PROVE  Bit(buf[Bits - shift], c) = Bit(raw, shift)
      <4> DEFINE i == Bits - shift
      <4>1. i \in 1..Bits /\ i \in Int /\ i # 0 /\ Bits - i = shift /\ shift \in 0..31
        BY <3>2
      <4>2. Bit(InPins(PinsHigh(i)), c) = IF c \in PinsHigh(i) THEN 1 ELSE 0
        <5> HIDE DEF i
        <5> QED
          BY <4>1, PinsFacts
      <4>3. c \in PinsHigh(i) <=> Bit(raw, shift) = 1
        <5>1. c \in PinsHigh(i) <=> Bit(raw, Bits - i) = 1
          <6> HIDE DEF i
          <6> QED
            BY <4>1 DEF PinsHigh
        <5> QED
          BY <4>1, <5>1
      <4>4. Bit(raw, shift) \in 0..1
        <5> HIDE DEF raw
        <5> QED
          BY <3>2, <4>1, BitValue
      <4>5. buf[i] = InPins(PinsHigh(i))
        BY <2>1, <4>1
      <4> HIDE DEF i, raw
      <4>6. Bit(buf[i], c) = Bit(raw, shift)
        BY <4>2, <4>3, <4>4, <4>5
      <4> QED
        BY <4>6 DEF i
    <3>4. [shift \in 0..(Bits - 1) |-> Bit(buf[Bits - shift], c)] =
            [shift \in 0..(Bits - 1) |-> Bit(raw, shift)]
      BY <3>3
    <3> HIDE DEF raw
    <3>5. FromBits([shift \in 0..(Bits - 1) |-> Bit(raw, shift)]) = raw % 2^Bits
      BY <3>2, FromBitsIsNumber
    <3>6. raw % 2^Bits = raw
      BY <3>1, <3>2, Remainder
    <3> QED
      BY <3>1, <3>4, <3>5, <3>6
  <2> QED
    BY <2>1, <2>2 DEF PinvalsToValues
<1>2. ValuesInv => ValuesAreConversions
  BY <1>1 DEF ValuesAreConversions
<1> QED
  BY <1>2, ValuesInvariant, PTL

\* is_syncd says yes only of a sample in which all chips are alike, for any number
\* of chips below 32 (hx711_multi.c:861-880): a sample has no bit beyond the chips',
\* so allReady, a power of 2, is none of those with some chips high and some low.
THEOREM SyncdMeansAlike ==
  ASSUME FitsWord
  PROVE  Spec => []SyncdOnlyIfAlike
<1>1. ASSUME ValuesInv, fifo # <<>>, IsSyncd(Head(fifo)), NEW c \in Chips
      PROVE  Bit(Head(fifo), c) = 0
  <2>1. Head(fifo) \in 0..(2^ChipsLen - 1)
    BY <1>1 DEF ValuesInv, TypeOK
  <2>2. Head(fifo) = 0
    <3>0. ChipsLen \in 0..31
      BY Widths
    <3>1. 2^ChipsLen \in Nat
      BY <3>0, Powers DEF Doubles
    <3>2. Head(fifo) # 2^ChipsLen
      BY <2>1, <3>1
    <3> QED
      BY <1>1, <3>2 DEF IsSyncd, AllReady
  <2>3. 2^c \in Nat \ {0}
    <3>1. c \in 0..31
      BY Widths DEF Chips
    <3> QED
      BY <3>1, Powers DEF Doubles
  <2>4. 0 \div 2^c = 0
    <3>1. 0 = 0 * 2^c + 0 /\ 0 \in 0..(2^c - 1) /\ 0 \in Int
      BY <2>3
    <3> QED
      BY <2>3, <3>1, Quotient
  <2> QED
    BY <2>2, <2>4 DEF Bit
<1>2. ValuesInv => SyncdOnlyIfAlike
  BY <1>1 DEF SyncdOnlyIfAlike
<1> QED
  BY <1>2, ValuesInvariant, PTL

=============================================================================
