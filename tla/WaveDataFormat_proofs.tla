------------------------ MODULE WaveDataFormat_proofs -----------------------
(***************************************************************************)
(* waveDataFormat for every word width, channel count and packet size.     *)
(* The bit arithmetic comes first: transpositionInt transposes.  Then      *)
(* three inductive invariants, each on top of the one before: Whole, the   *)
(* frame is filled by whole nodes, so that a node always fits; NodeInv,    *)
(* how far the node has come statement by statement; HeldInv, which node   *)
(* each place of the frame holds.                                          *)
(***************************************************************************)
EXTENDS WaveDataFormat, FiniteSetTheorems, FunctionTheorems,
        WellFoundedInduction, TLAPS

-----------------------------------------------------------------------------
\* Induction over the naturals, stated with sets.
LEMMA Least == ASSUME NEW S, S \subseteq Nat, S # {} PROVE \E x \in S : \A y \in S : x <= y
<1> DEFINE R == OpToRel(<, Nat)
<1>1. IsWellFoundedOn(R, Nat)
  BY NatLessThanWellFounded, Zenon
<1>2. \A x, y \in Nat : x < y => <<x, y>> \in R
  BY DEF OpToRel
<1> HIDE DEF R
<1>3. PICK x \in S : \A y \in S : ~ (<<y, x>> \in R)
  BY <1>1, WFMin
<1>4. \A y \in S : x <= y
  <2> SUFFICES ASSUME NEW y \in S PROVE x <= y
    OBVIOUS
  <2>1. x \in Nat /\ y \in Nat /\ ~(y < x)
    BY <1>2, <1>3
  <2> QED
    BY <2>1
<1> QED
  BY <1>4

LEMMA Induct == ASSUME NEW S, S \subseteq Nat, 0 \in S, \A n \in S : n + 1 \in S PROVE S = Nat
<1> DEFINE T == Nat \ S
<1>1. ASSUME T # {} PROVE FALSE
  <2>1. PICK x \in T : \A y \in T : x <= y
    <3> HIDE DEF T
    <3>0. T \subseteq Nat
      BY DEF T
    <3> QED
      BY <1>1, <3>0, Least
  <2>2. x - 1 \in Nat /\ x - 1 \notin T
    BY <2>1
  <2> QED
    BY <2>1, <2>2
<1> QED
  BY <1>1

\* A power of two, as the number of subsets of a set.
LEMMA Power == ASSUME NEW n \in Nat PROVE /\ 2 ^ n \in Nat /\ 2 ^ n > 0 /\ 2 ^ (n + 1) = 2 * 2 ^ n
<1> DEFINE S == 1 .. n
           A == SUBSET S
           B == {s \cup {n + 1} : s \in A}
<1>1. IsFiniteSet(S) /\ Cardinality(S) = n /\ IsFiniteSet(1 .. n + 1) /\ Cardinality(1 .. n + 1) = n + 1
  <2>1. n + 1 \in Int /\ 1 \in Int /\ n \in Int
    OBVIOUS
  <2>2. IsFiniteSet(S) /\ IsFiniteSet(1 .. n + 1)
        /\ Cardinality(S) = (IF 1 > n THEN 0 ELSE n - 1 + 1)
        /\ Cardinality(1 .. n + 1) = (IF 1 > n + 1 THEN 0 ELSE (n + 1) - 1 + 1)
    BY <2>1, FS_Interval
  <2> QED
    BY <2>2
<1>2. IsFiniteSet(A) /\ Cardinality(A) = 2 ^ n /\ Cardinality(A) \in Nat
  <2>1. IsFiniteSet(A) /\ Cardinality(A) = 2 ^ Cardinality(S)
    BY <1>1, FS_SUBSET
  <2> HIDE DEF A
  <2> QED
    BY <1>1, <2>1, FS_CardinalityType
<1>3. SUBSET (1 .. n + 1) = A \cup B
  <2>1. ASSUME NEW t \in SUBSET (1 .. n + 1) PROVE t \in A \cup B
    <3>1. CASE n + 1 \in t
      <4>1. t \ {n + 1} \in A /\ t = (t \ {n + 1}) \cup {n + 1}
        BY <3>1
      <4> QED
        BY <4>1
    <3>2. CASE n + 1 \notin t
      BY <3>2
    <3> QED
      BY <3>1, <3>2
  <2>2. \A t \in A \cup B : t \in SUBSET (1 .. n + 1)
    OBVIOUS
  <2> QED
    BY <2>1, <2>2
<1>4. A \cap B = {}
  OBVIOUS
<1>5. IsFiniteSet(B) /\ Cardinality(B) = Cardinality(A)
  <2> DEFINE f == [s \in A |-> s \cup {n + 1}]
  <2>1. f \in [A -> B]
    OBVIOUS
  <2>2. \A s, t \in A : f[s] = f[t] => s = t
    OBVIOUS
  <2>3. \A u \in B : \E s \in A : f[s] = u
    OBVIOUS
  <2> HIDE DEF A, B, f
  <2>4. f \in Bijection(A, B)
    BY <2>1, <2>2, <2>3 DEF Bijection, Injection, Surjection, IsInjective
  <2>5. ExistsBijection(A, B)
    BY <2>4 DEF ExistsBijection
  <2> QED
    BY <1>2, <2>5, FS_Bijection
<1>6. Cardinality(SUBSET (1 .. n + 1)) = 2 ^ (n + 1)
  <2>1. Cardinality(SUBSET (1 .. n + 1)) = 2 ^ Cardinality(1 .. n + 1)
    BY <1>1, FS_SUBSET
  <2> QED
    BY <1>1, <2>1
<1>7. A # {}
  <2>1. {} \in A
    OBVIOUS
  <2> QED
    BY <2>1
<1> HIDE DEF A, B
<1>8. Cardinality(A \cup B) = Cardinality(A) + Cardinality(B) - 0
  BY <1>2, <1>4, <1>5, FS_Union, FS_EmptySet
<1>9. Cardinality(A) # 0
  BY <1>2, <1>7, FS_EmptySet
<1>10. 2 ^ (n + 1) = Cardinality(A) + Cardinality(A)
  <2> DEFINE a == Cardinality(A)
  <2>1. a \in Nat /\ Cardinality(B) = a /\ Cardinality(A \cup B) = a + Cardinality(B) - 0
    BY <1>2, <1>5, <1>8
  <2>2. Cardinality(A \cup B) = 2 ^ (n + 1)
    BY <1>3, <1>6, Zenon
  <2> HIDE DEF a
  <2>3. Cardinality(A \cup B) = a + a
    BY <2>1
  <2>4. 2 ^ (n + 1) = a + a
    BY <2>2, <2>3, Zenon
  <2> QED
    BY <2>4 DEF a
<1> DEFINE c == Cardinality(A)
           p == 2 ^ n
           q == 2 ^ (n + 1)
<1>11. c \in Nat /\ p = c /\ q = c + c /\ c # 0
  BY <1>2, <1>9, <1>10
<1> HIDE DEF c, p, q
<1>12. p \in Nat /\ p > 0 /\ q = 2 * p
  BY <1>11
<1> QED
  BY <1>12 DEF p, q

LEMMA PowerSum ==
  ASSUME NEW m \in Nat, NEW n \in Nat
  PROVE  2 ^ (m + n) = 2 ^ m * 2 ^ n
<1> DEFINE S == {x \in Nat : 2 ^ (m + x) = 2 ^ m * 2 ^ x}
<1>1. 0 \in S
  <2>1. 2 ^ m \in Nat /\ 2 ^ (m + 0) = 2 ^ m /\ 2 ^ 0 = 1
    BY Power
  <2> DEFINE p == 2 ^ m
  <2>2. p \in Nat /\ 2 ^ (m + 0) = p
    BY <2>1
  <2> HIDE DEF p
  <2>3. p * 1 = p
    BY <2>2
  <2>4. 2 ^ (m + 0) = p * 2 ^ 0
    BY <2>1, <2>2, <2>3
  <2> QED
    BY <2>4 DEF p
<1>2. ASSUME NEW x \in S PROVE x + 1 \in S
  <2> DEFINE p == 2 ^ m
             q == 2 ^ x
             r == 2 ^ (m + x)
             s == 2 ^ (x + 1)
             t == 2 ^ ((m + x) + 1)
  <2>1. p \in Nat /\ q \in Nat /\ r = p * q /\ s = 2 * q /\ t = 2 * r
    BY Power
  <2>2. m + (x + 1) = (m + x) + 1
    OBVIOUS
  <2> HIDE DEF p, q, r, s, t
  <2>3. t = p * s
    BY <2>1
  <2>4. 2 ^ (m + (x + 1)) = p * s
    BY <2>2, <2>3 DEF t
  <2> QED
    BY <2>4 DEF p, s
<1>3. S = Nat
  <2> HIDE DEF S
  <2>1. S \subseteq Nat
    BY DEF S
  <2> QED
    BY <1>1, <1>2, <2>1, Induct
<1> QED
  BY <1>3

\* The quotient and the remainder.
LEMMA Quotient ==
  ASSUME NEW q \in Nat, NEW b \in Nat, NEW r \in Nat, r < b
  PROVE  (q * b + r) \div b = q /\ (q * b + r) % b = r
<1> DEFINE a == q * b + r
           d == a \div b
           e == a % b
<1>1. a \in Nat /\ d \in Int /\ e \in 0 .. b - 1 /\ a = b * d + e
  OBVIOUS
<1>2. (d - q) * b = r - e
  BY <1>1
<1>3. d = q
  <2> HIDE DEF a, d, e
  <2>1. CASE d - q >= 1
    <3>1. (d - q) * b >= b
      BY <1>1, <2>1
    <3> QED
      BY <1>1, <1>2, <3>1
  <2>2. CASE d - q <= -1
    <3>1. (d - q) * b <= -b
      BY <1>1, <2>2
    <3> QED
      BY <1>1, <1>2, <3>1
  <2> QED
    BY <1>1, <2>1, <2>2
<1>4. e = r
  <2> HIDE DEF a, d, e
  <2> QED
    BY <1>1, <1>2, <1>3
<1> QED
  BY <1>3, <1>4

LEMMA Divided ==
  ASSUME NEW a \in Nat, NEW b \in Nat, b > 0
  PROVE  \E q, r \in Nat : a = q * b + r /\ r < b
<1>1. a \div b \in Nat /\ a % b \in 0 .. b - 1 /\ a = (a \div b) * b + (a % b)
  OBVIOUS
<1> QED
  BY <1>1

LEMMA Halved == ASSUME NEW d \in Nat PROVE \E q, e \in Nat : d = q * 2 + e /\ e < 2
<1>1. d \div 2 \in Nat /\ d % 2 \in Nat /\ d = (d \div 2) * 2 + (d % 2) /\ d % 2 < 2
  OBVIOUS
<1> QED
  BY <1>1

-----------------------------------------------------------------------------
\* Bit k of a word, counted from the top, is what the shift, mask and shift back find.
LEMMA BitRange ==
  ASSUME NEW w \in Nat, NEW c \in 0 .. Bits - 1
  PROVE  Bit(w, c) \in {0, 1}
<1> DEFINE p == 2 ^ (Bits - 1 - c)
           d == w \div p
<1>1. p \in Nat /\ p > 0
  BY FormatAssumption, Power
<1>2. d \in Nat
  <2> HIDE DEF p
  <2> QED
    BY <1>1
<1>3. d % 2 \in {0, 1}
  <2> HIDE DEF d
  <2> QED
    BY <1>2
<1> QED
  BY <1>3 DEF Bit

LEMMA MaskedBit ==
  ASSUME NEW w \in Word, NEW k \in 0 .. Bits - 1
  PROVE  ((w * 2 ^ k) % 2 ^ Bits) \div 2 ^ (Bits - 1) = Bit(w, k)
<1> DEFINE a == 2 ^ k
           b == 2 ^ (Bits - 1 - k)
           h == 2 ^ (Bits - 1)
           m == 2 ^ Bits
<1>1. a \in Nat /\ b \in Nat /\ a > 0 /\ b > 0 /\ h = b * a /\ m = 2 * h /\ w \in 0 .. m - 1
  <2>1. k \in Nat /\ Bits - 1 - k \in Nat /\ Bits - 1 \in Nat /\ (Bits - 1) + 1 = Bits
        /\ (Bits - 1 - k) + k = Bits - 1
    BY FormatAssumption
  <2>2. a \in Nat /\ b \in Nat /\ a > 0 /\ b > 0
    BY <2>1, Power
  <2>3. 2 ^ ((Bits - 1 - k) + k) = 2 ^ (Bits - 1 - k) * 2 ^ k
    BY <2>1, PowerSum
  <2>4. 2 ^ ((Bits - 1) + 1) = 2 * 2 ^ (Bits - 1)
    BY <2>1, Power
  <2> QED
    BY <2>1, <2>2, <2>3, <2>4 DEF Word
<1> HIDE DEF a, b, h, m
<1>2. h \in Nat /\ m \in Nat /\ w \in Nat /\ h > 0
  BY <1>1
<1>3. PICK d \in Nat, r \in Nat : w = d * b + r /\ r < b
  BY <1>1, <1>2, Divided
<1>4. PICK q \in Nat, e \in Nat : d = q * 2 + e /\ e < 2
  BY <1>3, Halved
<1>5. w \div b = d
  BY <1>1, <1>3, Quotient
<1>6. d % 2 = e
  BY <1>4, Quotient
<1>7. w * a = q * m + (e * h + r * a)
  BY <1>1, <1>2, <1>3, <1>4
<1>8. e * h + r * a \in Nat /\ e * h + r * a < m /\ r * a < h
  <2>1. (r + 1) * a <= b * a
    BY <1>1, <1>3
  <2>2. r * a \in Nat /\ r * a < h
    BY <1>1, <1>3, <2>1
  <2>3. e = 0 \/ e = 1
    BY <1>4
  <2> QED
    BY <1>1, <1>2, <2>2, <2>3
<1>9. (w * a) % m = e * h + r * a
  <2> DEFINE x == w * a
             y == e * h + r * a
  <2>1. x = q * m + y /\ y \in Nat /\ y < m
    BY <1>7, <1>8
  <2> HIDE DEF x, y
  <2>2. x % m = y
    BY <1>2, <2>1, Quotient
  <2> QED
    BY <2>2 DEF x, y
<1>10. (e * h + r * a) \div h = e
  <2> DEFINE y == r * a
  <2>1. y \in Nat /\ y < h
    BY <1>1, <1>3, <1>8
  <2> HIDE DEF y
  <2>2. (e * h + y) \div h = e
    BY <1>2, <1>4, <2>1, Quotient
  <2> QED
    BY <2>2 DEF y
<1>11. ((w * a) % m) \div h = (w \div b) % 2
  BY <1>5, <1>6, <1>9, <1>10
<1> QED
  BY <1>11 DEF a, b, h, m, Bit

\* "|=" of a bit not yet set: it sets this one and touches no other.
LEMMA SetBit ==
  ASSUME NEW w \in Word, NEW x \in 0 .. Bits - 1, Bit(w, x) = 0
  PROVE  /\ w + 2 ^ (Bits - 1 - x) \in Word
         /\ Bit(w + 2 ^ (Bits - 1 - x), x) = 1
         /\ \A c \in 0 .. Bits - 1 : c # x => Bit(w + 2 ^ (Bits - 1 - x), c) = Bit(w, c)
<1> DEFINE p == 2 ^ (Bits - 1 - x)
           m == 2 ^ Bits
           z == 2 ^ x
           w2 == w + p
<1>1. p \in Nat /\ p > 0 /\ z \in Nat /\ m = 2 * (z * p) /\ m \in Nat /\ w \in 0 .. m - 1
  <2>1. x \in Nat /\ Bits - 1 - x \in Nat /\ x + (Bits - 1 - x) = Bits - 1 /\ (Bits - 1) + 1 = Bits
        /\ Bits - 1 \in Nat /\ Bits \in Nat
    BY FormatAssumption
  <2>2. 2 ^ (x + (Bits - 1 - x)) = 2 ^ x * 2 ^ (Bits - 1 - x)
    BY <2>1, PowerSum
  <2>3. 2 ^ ((Bits - 1) + 1) = 2 * 2 ^ (Bits - 1)
    BY <2>1, Power
  <2>4. p \in Nat /\ p > 0 /\ z \in Nat /\ m \in Nat
    BY <2>1, Power
  <2> QED
    BY <2>1, <2>2, <2>3, <2>4 DEF Word
<1>2. (w \div p) % 2 = 0
  BY DEF Bit
<1> HIDE DEF p, m, z, w2
<1>3. w \in Nat
  BY <1>1
<1>4. PICK d \in Nat, r \in Nat : w = d * p + r /\ r < p
  BY <1>1, <1>3, Divided
<1>5. PICK h \in Nat : d = h * 2
  <2>1. PICK q \in Nat, e \in Nat : d = q * 2 + e /\ e < 2
    BY <1>4, Halved
  <2>2. w \div p = d /\ d % 2 = e
    BY <1>1, <1>4, <2>1, Quotient
  <2>3. e = 0
    BY <1>2, <2>2
  <2> QED
    BY <2>1, <2>3
<1>6. w2 = (2 * h + 1) * p + r /\ 2 * h + 1 \in Nat /\ w2 \in Nat
  BY <1>1, <1>3, <1>4, <1>5 DEF w2
<1>7. (w2 \div p) % 2 = 1
  <2>1. w2 \div p = 2 * h + 1
    <3> DEFINE g == 2 * h + 1
    <3>1. g \in Nat /\ w2 = g * p + r
      BY <1>6
    <3> HIDE DEF g
    <3>2. w2 \div p = g
      BY <1>1, <1>4, <3>1, Quotient
    <3> QED
      BY <3>2 DEF g
  <2>2. (2 * h + 1) % 2 = 1
    BY <1>5
  <2> QED
    BY <2>1, <2>2
<1>8. w2 \in 0 .. m - 1
  <2>1. h < z
    <3>1. CASE h >= z
      <4>1. h * (2 * p) >= z * (2 * p)
        BY <1>1, <1>5, <3>1
      <4>2. w = h * (2 * p) + r /\ m = z * (2 * p)
        BY <1>1, <1>4, <1>5
      <4> DEFINE u == h * (2 * p)
                 v == z * (2 * p)
      <4>3. u \in Nat /\ v \in Nat /\ u >= v /\ w = u + r /\ m = v
        BY <1>1, <1>5, <4>1, <4>2
      <4> HIDE DEF u, v
      <4>4. w >= m
        BY <1>4, <4>3
      <4> QED
        BY <1>1, <4>4
    <3> QED
      BY <1>1, <1>5, <3>1
  <2>2. (h + 1) * (2 * p) <= z * (2 * p)
    BY <1>1, <1>5, <2>1
  <2>3. w2 < (h + 1) * (2 * p)
    <3>1. (h + 1) * (2 * p) = (2 * h + 1) * p + p
      BY <1>1, <1>5
    <3> DEFINE u == (2 * h + 1) * p
    <3>2. u \in Nat /\ w2 = u + r /\ (h + 1) * (2 * p) = u + p
      BY <1>1, <1>6, <3>1
    <3> HIDE DEF u
    <3> QED
      BY <1>1, <1>4, <3>2
  <2>4. z * (2 * p) = m
    BY <1>1
  <2> DEFINE t == (h + 1) * (2 * p)
  <2>5. t \in Nat /\ t <= m /\ w2 < t
    BY <1>1, <1>5, <2>2, <2>3, <2>4
  <2> HIDE DEF t
  <2> QED
    BY <1>1, <1>6, <2>5
<1>9. ASSUME NEW c \in 0 .. Bits - 1, c # x
      PROVE  (w2 \div 2 ^ (Bits - 1 - c)) % 2 = (w \div 2 ^ (Bits - 1 - c)) % 2
  <2> DEFINE s == 2 ^ (Bits - 1 - c)
  <2>0. s \in Nat /\ s > 0
    BY FormatAssumption, Power
  <2>1. CASE c < x
    <3> DEFINE g == 2 ^ (x - c - 1)
               b == 2 * p
               u == p + r
    <3>1. g \in Nat /\ g > 0 /\ s = g * b
      <4>1. x - c - 1 \in Nat /\ Bits - 1 - x \in Nat /\ (Bits - 1 - x) + 1 \in Nat
            /\ (x - c - 1) + ((Bits - 1 - x) + 1) = Bits - 1 - c
        BY FormatAssumption, <2>1
      <4>2. 2 ^ ((x - c - 1) + ((Bits - 1 - x) + 1)) = 2 ^ (x - c - 1) * 2 ^ ((Bits - 1 - x) + 1)
        BY <4>1, PowerSum
      <4>3. 2 ^ ((Bits - 1 - x) + 1) = 2 * 2 ^ (Bits - 1 - x)
        BY <4>1, Power
      <4>4. g \in Nat /\ g > 0
        BY <4>1, Power
      <4> QED
        BY <4>1, <4>2, <4>3, <4>4 DEF p
    <3>2. w = h * b + r /\ w2 = h * b + u /\ b \in Nat /\ b > 0 /\ r < b /\ u \in Nat /\ u < b
      BY <1>1, <1>4, <1>5, <1>6
    <3> HIDE DEF g, b, u, s
    <3>3. PICK q \in Nat, e \in Nat : h = q * g + e /\ e < g
      BY <1>5, <3>1, Divided
    <3>4. w = q * s + (e * b + r) /\ w2 = q * s + (e * b + u)
      BY <3>1, <3>2, <3>3
    <3>5. e * b + r \in Nat /\ e * b + r < s /\ e * b + u \in Nat /\ e * b + u < s
      <4>1. (e + 1) * b <= g * b
        BY <3>1, <3>2, <3>3
      <4> DEFINE v == e * b
      <4>2. v \in Nat /\ v + b <= s
        BY <3>1, <3>2, <3>3, <4>1
      <4> HIDE DEF v
      <4>3. v + r \in Nat /\ v + r < s /\ v + u \in Nat /\ v + u < s
        BY <2>0, <3>2, <4>2
      <4> QED
        BY <4>3 DEF v
    <3> DEFINE y == e * b + r
               y2 == e * b + u
    <3>6. w = q * s + y /\ w2 = q * s + y2 /\ y \in Nat /\ y < s /\ y2 \in Nat /\ y2 < s
      BY <3>4, <3>5
    <3> HIDE DEF y, y2
    <3>7. w \div s = q /\ w2 \div s = q
      BY <2>0, <3>6, Quotient
    <3> QED
      BY <3>7 DEF s
  <2>2. CASE c > x
    <3> DEFINE g == 2 ^ (c - x - 1)
    <3>1. g \in Nat /\ p = 2 * g * s
      <4>1. c - x - 1 \in Nat /\ Bits - 1 - c \in Nat /\ (c - x - 1) + (Bits - 1 - c) \in Nat
            /\ ((c - x - 1) + (Bits - 1 - c)) + 1 = Bits - 1 - x
        BY FormatAssumption, <2>2
      <4>2. 2 ^ ((c - x - 1) + (Bits - 1 - c)) = 2 ^ (c - x - 1) * 2 ^ (Bits - 1 - c)
        BY <4>1, PowerSum
      <4>3. 2 ^ (((c - x - 1) + (Bits - 1 - c)) + 1) = 2 * 2 ^ ((c - x - 1) + (Bits - 1 - c))
        BY <4>1, Power
      <4>4. g \in Nat
        BY <4>1, Power
      <4>5. p = 2 * (g * s)
        BY <4>1, <4>2, <4>3 DEF p
      <4> HIDE DEF g, s
      <4> QED
        BY <2>0, <4>4, <4>5
    <3> HIDE DEF g, s
    <3>2. PICK q \in Nat, e \in Nat : w = q * s + e /\ e < s
      BY <1>3, <2>0, Divided
    <3>3. w2 = (q + 2 * g) * s + e /\ q + 2 * g \in Nat
      BY <1>1, <1>3, <2>0, <3>1, <3>2 DEF w2
    <3>4. w \div s = q
      BY <2>0, <3>2, Quotient
    <3>5. w2 \div s = q + 2 * g
      <4> DEFINE v == q + 2 * g
      <4>1. v \in Nat /\ w2 = v * s + e
        BY <3>3
      <4> HIDE DEF v
      <4>2. w2 \div s = v
        BY <2>0, <3>2, <4>1, Quotient
      <4> QED
        BY <4>2 DEF v
    <3>6. (q + 2 * g) % 2 = q % 2
      BY <3>1, <3>2
    <3> QED
      BY <3>4, <3>5, <3>6 DEF s
  <2> QED
    BY <1>9, <2>1, <2>2
<1> QED
  BY <1>7, <1>8, <1>9 DEF p, m, w2, Bit, Word

-----------------------------------------------------------------------------
\* What MapThenSumSet computes: it takes the elements of a set in some order, and
\* is the value of a recursive function, which exists on finite sets.
Pick(s) == CHOOSE x \in s : TRUE
IsSum(f, g, D) == f = [s \in D |-> IF s = {} THEN 0 ELSE g[Pick(s)] + f[s \ {Pick(s)}]]

LEMMA SumExists ==
  ASSUME NEW g, NEW S, IsFiniteSet(S)
  PROVE  \E f : IsSum(f, g, SUBSET S)
<1> DEFINE Upto(n) == {t \in SUBSET S : Cardinality(t) <= n}
           Body(f, s) == IF s = {} THEN 0 ELSE g[Pick(s)] + f[s \ {Pick(s)}]
           G == {n \in Nat : \E f : IsSum(f, g, Upto(n))}
<1>0. \A t \in SUBSET S : IsFiniteSet(t) /\ Cardinality(t) \in Nat
  BY FS_Subset, FS_CardinalityType
<1>1. 0 \in G
  <2> DEFINE f == [s \in Upto(0) |-> 0]
  <2>1. \A s \in Upto(0) : s = {}
    <3> SUFFICES ASSUME NEW s \in Upto(0) PROVE s = {}
      OBVIOUS
    <3>1. IsFiniteSet(s) /\ Cardinality(s) = 0
      BY <1>0
    <3> QED
      BY <3>1, FS_EmptySet
  <2>2. \A s \in Upto(0) : Body(f, s) = 0
    BY <2>1
  <2>3. f = [s \in Upto(0) |-> Body(f, s)]
    BY <2>2
  <2>4. IsSum(f, g, Upto(0))
    BY <2>3 DEF IsSum
  <2> QED
    BY <2>4
<1>2. ASSUME NEW n \in G PROVE n + 1 \in G
  <2>1. PICK f : IsSum(f, g, Upto(n))
    OBVIOUS
  <2> DEFINE f2 == [s \in Upto(n + 1) |-> Body(f, s)]
  <2>2. \A s \in Upto(n) : f2[s] = f[s] /\ s \in Upto(n + 1)
    <3> SUFFICES ASSUME NEW s \in Upto(n) PROVE f2[s] = f[s] /\ s \in Upto(n + 1)
      OBVIOUS
    <3>1. s \in Upto(n + 1)
      BY <1>0
    <3>2. f = [t \in Upto(n) |-> Body(f, t)]
      BY <2>1 DEF IsSum
    <3>3. f[s] = Body(f, s) /\ f2[s] = Body(f, s)
      <4> HIDE DEF Body, Upto
      <4>1. f2[s] = Body(f, s)
        BY <3>1
      <4>2. [t \in Upto(n) |-> Body(f, t)][s] = Body(f, s)
        OBVIOUS
      <4> QED
        BY <3>2, <4>1, <4>2
    <3> QED
      BY <3>1, <3>3
  <2>3. \A s \in Upto(n + 1) : s # {} => s \ {Pick(s)} \in Upto(n)
    <3> SUFFICES ASSUME NEW s \in Upto(n + 1), s # {} PROVE s \ {Pick(s)} \in Upto(n)
      OBVIOUS
    <3>1. Pick(s) \in s
      BY DEF Pick
    <3>2. Cardinality(s \ {Pick(s)}) = Cardinality(s) - 1
      BY <1>0, <3>1, FS_RemoveElement
    <3> QED
      BY <1>0, <3>2
  <2>4. \A s \in Upto(n + 1) : Body(f2, s) = Body(f, s)
    <3> SUFFICES ASSUME NEW s \in Upto(n + 1) PROVE Body(f2, s) = Body(f, s)
      OBVIOUS
    <3>1. CASE s = {}
      BY <3>1
    <3>2. CASE s # {}
      <4>1. f2[s \ {Pick(s)}] = f[s \ {Pick(s)}]
        BY <2>2, <2>3, <3>2
      <4> QED
        BY <3>2, <4>1
    <3> QED
      BY <3>1, <3>2
  <2>5. f2 = [s \in Upto(n + 1) |-> Body(f2, s)]
    <3> HIDE DEF Body, Upto
    <3> QED
      BY <2>4
  <2>6. IsSum(f2, g, Upto(n + 1))
    BY <2>5 DEF IsSum
  <2> HIDE DEF f2, Upto
  <2> QED
    BY <2>6
<1>3. Cardinality(S) \in G
  <2> HIDE DEF G
  <2>1. G \subseteq Nat
    BY DEF G
  <2>2. Cardinality(S) \in Nat
    BY <1>0
  <2> QED
    BY <1>1, <1>2, <2>1, <2>2, Induct
<1>4. Upto(Cardinality(S)) = SUBSET S
  BY FS_Subset
<1>5. \E f : IsSum(f, g, Upto(Cardinality(S)))
  <2> HIDE DEF Upto
  <2> QED
    BY <1>3
<1> QED
  BY <1>4, <1>5

Term(in, k, j) == (((in[j] * 2 ^ k) % 2 ^ Bits) \div 2 ^ (Bits - 1)) * 2 ^ (Bits - 1 - j)
RowSum(in, k) ==
  CHOOSE f : f = [s \in SUBSET (0 .. Bits - 1) |->
                    IF s = {} THEN 0 ELSE Term(in, k, Pick(s)) + f[s \ {Pick(s)}]]

LEMMA RowIs ==
  ASSUME NEW in, NEW k \in 0 .. Bits - 1
  PROVE  transpositionInt(in)[k] = RowSum(in, k)[0 .. Bits - 1]
<1>1. transpositionInt(in)[k] =
  MapThenSumSet(LAMBDA j : (((in[j] * 2 ^ k) % 2 ^ Bits) \div 2 ^ (Bits - 1)) * 2 ^ (Bits - 1 - j),
                  0 .. Bits - 1)
  BY Zenon DEF transpositionInt
<1>2.
  MapThenSumSet(LAMBDA j : (((in[j] * 2 ^ k) % 2 ^ Bits) \div 2 ^ (Bits - 1)) * 2 ^ (Bits - 1 - j),
                  0 .. Bits - 1) = RowSum(in, k)[0 .. Bits - 1]
  BY Zenon DEF MapThenSumSet, MapThenFoldSet, RowSum, Term, Pick
<1> QED
  BY <1>1, <1>2, Zenon

LEMMA RowSums ==
  ASSUME NEW in, NEW k
  PROVE  \A s \in SUBSET (0 .. Bits - 1) :
           RowSum(in, k)[s] = IF s = {} THEN 0 ELSE Term(in, k, Pick(s)) + RowSum(in, k)[s \ {Pick(s)}]
<1> DEFINE S == 0 .. Bits - 1
           g == [j \in S |-> Term(in, k, j)]
<1>1. IsFiniteSet(S)
  BY FormatAssumption, FS_Interval
<1>2. PICK f : IsSum(f, g, SUBSET S)
  <2> HIDE DEF S, g
  <2> QED
    BY <1>1, SumExists
<1>3. \A s \in SUBSET S : s # {} => g[Pick(s)] = Term(in, k, Pick(s))
  <2>1. \A s \in SUBSET S : s # {} => Pick(s) \in S
    <3> HIDE DEF S
    <3> QED
    BY DEF Pick
  <2> QED
    BY <2>1
<1>4. f = [s \in SUBSET S |-> IF s = {} THEN 0 ELSE Term(in, k, Pick(s)) + f[s \ {Pick(s)}]]
  <2> HIDE DEF S, g
  <2> QED
    BY <1>2, <1>3 DEF IsSum
<1>5. \E ff : ff = [s \in SUBSET S |-> IF s = {} THEN 0 ELSE Term(in, k, Pick(s)) + ff[s \ {Pick(s)}]]
  BY <1>4
<1>6. RowSum(in, k) = [s \in SUBSET S |-> IF s = {} THEN 0
                         ELSE Term(in, k, Pick(s)) + RowSum(in, k)[s \ {Pick(s)}]]
  BY <1>5, Zenon DEF RowSum
<1> DEFINE R == RowSum(in, k)
<1>7. \A s \in SUBSET S : R[s] = IF s = {} THEN 0 ELSE Term(in, k, Pick(s)) + R[s \ {Pick(s)}]
  <2>1. R = [s \in SUBSET S |-> IF s = {} THEN 0 ELSE Term(in, k, Pick(s)) + R[s \ {Pick(s)}]]
    BY <1>6
  <2> HIDE DEF R, S
  <2> QED
    BY <2>1
<1> QED
  BY <1>7

\* The partial sums of a row: the columns in s have their bit, the others none.
LEMMA RowBits ==
  ASSUME NEW in \in [0 .. Bits - 1 -> Word], NEW k \in 0 .. Bits - 1,
         NEW t \in SUBSET (0 .. Bits - 1)
  PROVE  /\ RowSum(in, k)[t] \in Word
         /\ \A c \in 0 .. Bits - 1 :
              Bit(RowSum(in, k)[t], c) = IF c \in t THEN Bit(in[c], k) ELSE 0
<1> DEFINE S == 0 .. Bits - 1
           R == RowSum(in, k)
           Good(s) == /\ R[s] \in Word
                      /\ \A c \in S : Bit(R[s], c) = IF c \in s THEN Bit(in[c], k) ELSE 0
           G == {n \in Nat : \A s \in SUBSET S : Cardinality(s) = n => Good(s)}
<1>0. \A s \in SUBSET S : IsFiniteSet(s) /\ Cardinality(s) \in Nat
  <2>1. IsFiniteSet(S)
    BY FormatAssumption, FS_Interval
  <2> HIDE DEF S
  <2> QED
    BY <2>1, FS_Subset, FS_CardinalityType
<1>1. \A s \in SUBSET S : R[s] = IF s = {} THEN 0 ELSE Term(in, k, Pick(s)) + R[s \ {Pick(s)}]
  BY RowSums
<1>2. R[{}] = 0 /\ \A s \in SUBSET S : s # {} => R[s] = Term(in, k, Pick(s)) + R[s \ {Pick(s)}]
  <2> HIDE DEF R, S
  <2> QED
    BY <1>1
<1>3. Good({})
  <2>1. 0 \in Word
    <3>1. 2 ^ Bits \in Nat /\ 2 ^ Bits > 0
      BY FormatAssumption, Power
    <3> QED
      BY <3>1 DEF Word
  <2>2. \A c \in S : Bit(0, c) = 0
    <3> SUFFICES ASSUME NEW c \in S PROVE Bit(0, c) = 0
      OBVIOUS
    <3> DEFINE p == 2 ^ (Bits - 1 - c)
    <3>1. p \in Nat /\ p > 0
      BY FormatAssumption, Power
    <3>2. 0 \div p = 0
      <4> HIDE DEF p
      <4> QED
        BY <3>1
    <3>3. (0 \div p) % 2 = 0
      BY <3>2
    <3> QED
      BY <3>3 DEF Bit
  <2> HIDE DEF R, S
  <2> QED
    BY <1>2, <2>1, <2>2
<1>4. 0 \in G
  <2>1. \A s \in SUBSET S : Cardinality(s) = 0 => s = {}
    BY <1>0, FS_EmptySet
  <2> HIDE DEF Good, S
  <2> QED
    BY <1>3, <2>1
<1>5. ASSUME NEW n \in G PROVE n + 1 \in G
  <2>1. ASSUME NEW s \in SUBSET S, Cardinality(s) = n + 1 PROVE Good(s)
    <3> DEFINE x == Pick(s)
               q == s \ {x}
               b == Bit(in[x], k)
               p == 2 ^ (Bits - 1 - x)
    <3>0. s # {}
      <4>1. Cardinality({}) = 0
        BY FS_EmptySet
      <4>2. n \in Nat
        OBVIOUS
      <4>3. n + 1 # 0
        BY <4>2
      <4>4. Cardinality(s) # 0
        BY <2>1, <4>3
      <4> QED
        BY <4>1, <4>4
    <3>1. x \in s /\ x \in S
      <4> HIDE DEF S
      <4> QED
        BY <3>0 DEF Pick
    <3>2. Cardinality(q) = n
      <4>1. Cardinality(q) = Cardinality(s) - 1
        BY <1>0, <3>1, FS_RemoveElement
      <4>2. n \in Nat /\ Cardinality(s) = n + 1
        BY <2>1
      <4> HIDE DEF q
      <4> QED
        BY <4>1, <4>2
    <3>3. Good(q)
      <4> HIDE DEF Good, S
      <4>1. q \in SUBSET S
        OBVIOUS
      <4> HIDE DEF q
      <4> QED
        BY <3>2, <4>1
    <3>4. in[x] \in Word /\ b \in {0, 1}
      <4>1. in[x] \in Word
        BY <3>1
      <4>2. in[x] \in Nat
        BY <4>1, FormatAssumption, Power DEF Word
      <4> HIDE DEF x
      <4> QED
        BY <3>1, <4>1, <4>2, BitRange
    <3>5. Term(in, k, x) = b * p
      <4> DEFINE z == in[x]
      <4> SUFFICES ((z * 2 ^ k) % 2 ^ Bits) \div 2 ^ (Bits - 1) = Bit(z, k)
        BY Zenon DEF Term
      <4>1. z \in Word
        BY <3>4
      <4> HIDE DEF z
      <4> QED
        BY <4>1, MaskedBit
    <3>6. R[s] = b * p + R[q]
      <4> HIDE DEF R, b, p
      <4> QED
        BY <1>2, <3>0, <3>5
    <3>7. p \in Nat
      BY <3>1, FormatAssumption, Power
    <3>8. R[q] \in Word /\ R[q] \in Int /\ Bit(R[q], x) = 0
      <4>1. R[q] \in Word /\ Bit(R[q], x) = 0
        <5> HIDE DEF R, S, b
        <5> QED
          BY <3>1, <3>3
      <4>2. Word \subseteq Int
        BY FormatAssumption, Power DEF Word
      <4> QED
        BY <4>1, <4>2
    <3>9. CASE b = 0
      <4>1. R[s] = R[q]
        <5> HIDE DEF R, b, p, q
        <5> QED
          BY <3>6, <3>7, <3>8, <3>9
      <4>2. \A c \in S : Bit(R[s], c) = IF c \in s THEN Bit(in[c], k) ELSE 0
        <5> SUFFICES ASSUME NEW c \in S
                     PROVE  Bit(R[s], c) = IF c \in s THEN Bit(in[c], k) ELSE 0
          OBVIOUS
        <5>1. Bit(R[q], c) = IF c \in q THEN Bit(in[c], k) ELSE 0
          <6> HIDE DEF R, S
          <6> QED
            BY <3>3
        <5>2. CASE c = x
          <6> HIDE DEF R
          <6> QED
            BY <3>1, <3>8, <3>9, <4>1, <5>2
        <5>3. CASE c # x
          <6> HIDE DEF R
          <6> QED
            BY <4>1, <5>1, <5>3
        <5> QED
          BY <5>2, <5>3
      <4> HIDE DEF R
      <4> QED
        BY <3>8, <4>1, <4>2
    <3>10. CASE b = 1
      <4> DEFINE y == R[q]
      <4>1. R[s] = y + p
        <5> HIDE DEF R, b, p, q
        <5> QED
          BY <3>6, <3>7, <3>8, <3>10
      <4>2. /\ y + p \in Word /\ Bit(y + p, x) = 1
            /\ \A c \in S : c # x => Bit(y + p, c) = Bit(y, c)
        <5>1. y \in Word /\ x \in 0 .. Bits - 1 /\ Bit(y, x) = 0
          BY <3>1, <3>8
        <5> HIDE DEF y, x
        <5> QED
          BY <5>1, SetBit
      <4>3. \A c \in S : Bit(R[s], c) = IF c \in s THEN Bit(in[c], k) ELSE 0
        <5> SUFFICES ASSUME NEW c \in S
                     PROVE  Bit(R[s], c) = IF c \in s THEN Bit(in[c], k) ELSE 0
          OBVIOUS
        <5>1. Bit(y, c) = IF c \in q THEN Bit(in[c], k) ELSE 0
          <6> HIDE DEF R, S
          <6> QED
            BY <3>3
        <5> HIDE DEF y
        <5>2. CASE c = x
          <6> HIDE DEF R, p
          <6> QED
            BY <3>1, <3>10, <4>1, <4>2, <5>2
        <5>3. CASE c # x
          <6> HIDE DEF R, p
          <6> QED
            BY <4>1, <4>2, <5>1, <5>3
        <5> QED
          BY <5>2, <5>3
      <4> HIDE DEF R, y, p
      <4> QED
        BY <4>1, <4>2, <4>3
    <3> QED
      BY <3>4, <3>9, <3>10
  <2> HIDE DEF Good, S
  <2>2. n + 1 \in Nat
    OBVIOUS
  <2> QED
    BY <2>1, <2>2
<1>6. Cardinality(t) \in G
  <2> HIDE DEF G
  <2>1. G \subseteq Nat
    BY DEF G
  <2>2. Cardinality(t) \in Nat
    BY <1>0
  <2> QED
    BY <1>4, <1>5, <2>1, <2>2, Induct
<1> HIDE DEF R
<1> QED
  BY <1>6 DEF R

\* transpositionInt returns words, and they are the transposed bit matrix of the
\* group, for every word width and every group (HjkDataFormat.cpp:108-121).
THEOREM Transposes ==
  ASSUME NEW in \in [0 .. Bits - 1 -> Word]
  PROVE  /\ transpositionInt(in) \in [0 .. Bits - 1 -> Word]
         /\ IsTranspose(transpositionInt(in), in)
<1> DEFINE S == 0 .. Bits - 1
           out == transpositionInt(in)
<1>1. \A k \in S : out[k] \in Word /\ \A c \in S : Bit(out[k], c) = Bit(in[c], k)
  <2> SUFFICES ASSUME NEW k \in S
               PROVE  out[k] \in Word /\ \A c \in S : Bit(out[k], c) = Bit(in[c], k)
    OBVIOUS
  <2>1. out[k] = RowSum(in, k)[S]
    BY RowIs
  <2>2. /\ RowSum(in, k)[S] \in Word
        /\ \A c \in S : Bit(RowSum(in, k)[S], c) = IF c \in S THEN Bit(in[c], k) ELSE 0
    <3>1. S \in SUBSET (0 .. Bits - 1)
      OBVIOUS
    <3>2. k \in 0 .. Bits - 1
      OBVIOUS
    <3>3. ASSUME NEW t \in SUBSET (0 .. Bits - 1)
          PROVE  /\ RowSum(in, k)[t] \in Word
                 /\ \A c \in 0 .. Bits - 1 :
                      Bit(RowSum(in, k)[t], c) = IF c \in t THEN Bit(in[c], k) ELSE 0
      BY <3>2, RowBits
    <3> QED
      BY <3>1, <3>3, Zenon
  <2> HIDE DEF out, S
  <2> QED
    BY <2>1, <2>2
<1>2. \E e : out = [k \in S |-> e[k]]
  <2>1. out = [k \in S |-> out[k]]
    BY Zenon DEF transpositionInt
  <2> QED
    BY <2>1, Zenon
<1> HIDE DEF out
<1>3. out \in [S -> Word]
  BY <1>1, <1>2
<1>4. IsTranspose(out, in)
  BY <1>1 DEF IsTranspose
<1> QED
  BY <1>3, <1>4 DEF out

-----------------------------------------------------------------------------
\* Only channel counts below the counter's range get past the loop.
PastLoop == pc \in {"odd", "even", "store"} => datalen < CounterMod

Admitted == pc # "idle" => index < FrameWords(datalen)

Whole ==
  /\ datalen \in Nat \ {0} /\ i \in 0 .. CounterMod - 1
  /\ pc \in {"idle", "split", "odd", "even", "store"}
  /\ \E k \in Nat : index = k * datalen
  /\ PastLoop /\ Admitted

\* With a channel count for which the loop ends, the cap does not bite, so a frame
\* that is not full has room for one more node.
LEMMA RoomForOne ==
  ASSUME NEW n \in Nat \ {0}, n < CounterMod, NEW k \in Nat, k * n < FrameWords(n)
  PROVE  k * n + n <= FrameWords(n)
<1>1. PktWords \in Nat /\ CounterMod \in Nat /\ MaxFrameWords \in Nat
  BY FormatAssumption
<1>2. FrameWords(n) = PktWords * n
  <2>1. PktWords * n <= PktWords * (CounterMod - 1)
    BY <1>1
  <2>2. PktWords * n <= MaxFrameWords
    BY <1>1, <2>1, CapAssumption
  <2> QED
    BY <1>1, <2>2 DEF FrameWords
<1>3. k < PktWords
  BY <1>1, <1>2
<1>4. (k + 1) * n <= PktWords * n
  BY <1>1, <1>3
<1>5. (k + 1) * n = k * n + n
  OBVIOUS
<1> QED
  BY <1>2, <1>4, <1>5

LEMMA InitWhole == Init => Whole
<1> SUFFICES ASSUME Init PROVE Whole
  OBVIOUS
<1>1. datalen \in Nat \ {0} /\ 0 \in 0 .. CounterMod - 1
  BY FormatAssumption DEF Init
<1>2. index = 0 * datalen
  BY <1>1 DEF Init
<1> QED
  BY <1>1, <1>2 DEF Init, Whole, PastLoop, Admitted

LEMMA StepKeepsWhole == ASSUME Whole, [Next]_vars PROVE Whole'
<1> USE DEF Whole
<1>0. CounterMod \in Nat \ {0}
  BY FormatAssumption
<1>1. CASE Format
  BY <1>0, <1>1 DEF Format, PastLoop, Admitted
<1>2. CASE Split
  <2>1. NextCount \in 0 .. CounterMod - 1
    BY <1>0 DEF NextCount
  <2> QED
    BY <1>2, <2>1 DEF Split, PastLoop, Admitted
<1>3. CASE SplitDone
  <2>1. datalen < CounterMod
    BY <1>0, <1>3 DEF SplitDone, InLoop
  <2> QED
    BY <1>3, <2>1 DEF SplitDone, PastLoop, Admitted
<1>4. CASE TransposeOdd
  BY <1>4 DEF TransposeOdd, PastLoop, Admitted
<1>5. CASE TransposeEven
  BY <1>5 DEF TransposeEven, PastLoop, Admitted
<1>6. CASE Store
  <2>1. PICK k \in Nat : index = k * datalen
    OBVIOUS
  <2>2. k * datalen + datalen = (k + 1) * datalen
    OBVIOUS
  <2>3. \E q \in Nat : index' = q * datalen
    <3>1. index' = k * datalen \/ index' = (k + 1) * datalen
      BY <1>6, <2>1, <2>2 DEF Store
    <3>2. CASE index' = k * datalen
      <4> WITNESS k \in Nat
      <4> QED
        BY <3>2
    <3>3. CASE index' = (k + 1) * datalen
      <4> k + 1 \in Nat
        OBVIOUS
      <4> WITNESS k + 1 \in Nat
      <4> QED
        BY <3>3
    <3> QED
      BY <3>1, <3>2, <3>3
  <2>4. datalen' = datalen /\ i' = i /\ pc' = "idle"
    BY <1>6 DEF Store
  <2> QED
    BY <2>3, <2>4 DEF PastLoop, Admitted
<1>7. CASE Flush
  <2>1. index' = 0 * datalen /\ datalen' = datalen /\ i' = i /\ pc' = "idle"
    BY <1>7 DEF Flush
  <2> QED
    BY <2>1 DEF PastLoop, Admitted
<1>8. CASE UNCHANGED vars
  BY <1>8 DEF vars, PastLoop, Admitted
<1> QED
  BY <1>1, <1>2, <1>3, <1>4, <1>5, <1>6, <1>7, <1>8 DEF Next, WaveDataFormat

\* waveDataFormat never returns 0 to testFormat (HjkDataFormat.cpp:73-80): no node is
\* dropped between the rings for want of room in the frame.
THEOREM NodesAlwaysFit == Spec => []NeverDropped
<1>1. ASSUME Whole PROVE NeverDropped
  <2> SUFFICES ASSUME pc = "store" PROVE Fits
    BY DEF NeverDropped
  <2>1. PICK k \in Nat : index = k * datalen
    BY <1>1 DEF Whole
  <2>2. datalen \in Nat \ {0} /\ datalen < CounterMod /\ k * datalen < FrameWords(datalen)
    BY <1>1, <2>1 DEF Whole, PastLoop, Admitted
  <2> QED
    BY <2>1, <2>2, RoomForOne DEF Fits
<1> QED
  BY <1>1, InitWhole, StepKeepsWhole, PTL DEF Spec

-----------------------------------------------------------------------------
\* The words and lengths an action can rely on.
LEMMA Ranges ==
  ASSUME TypeOK
  PROVE  /\ datalen \in Nat \ {0} /\ Half \in Nat /\ FrameWords(datalen) \in Nat
         /\ Bits \in Nat \ {0} /\ CounterMod \in Nat \ {0} /\ 0 \in Word
         /\ \A d \in Inputs : Length(d) = datalen => d \in [0 .. datalen - 1 -> Word]
<1>1. datalen \in Nat \ {0}
  BY FormatAssumption DEF TypeOK
<1>2. Half \in Nat
  BY <1>1 DEF Half
<1>3. FrameWords(datalen) \in Nat
  <2>1. PktWords * datalen \in Nat
    BY <1>1, FormatAssumption
  <2> QED
    BY <2>1, FormatAssumption DEF FrameWords
<1>4. 0 \in Word
  <2>1. 2 ^ Bits \in Nat /\ 2 ^ Bits > 0
    BY FormatAssumption, Power
  <2> QED
    BY <2>1 DEF Word
<1>5. \A d \in Inputs : Length(d) = datalen => d \in [0 .. datalen - 1 -> Word]
  BY FormatAssumption
<1> QED
  BY <1>1, <1>2, <1>3, <1>4, <1>5, FormatAssumption

LEMMA WrittenTypes ==
  ASSUME NEW n \in Nat, NEW data \in [0 .. n - 1 -> Word], NEW at \in Int,
         NEW D, NEW out \in [D -> Word]
  PROVE  Written(data, at, out) \in [0 .. n - 1 -> Word]
BY DEF Written

LEMMA InitTypes == Init => TypeOK
<1> SUFFICES ASSUME Init PROVE TypeOK
  OBVIOUS
<1>1. datalen \in Nat \ {0} /\ 0 \in 0 .. CounterMod - 1
  BY FormatAssumption DEF Init
<1>2. FrameWords(datalen) \in Nat
  <2>1. PktWords * datalen \in Nat
    BY <1>1, FormatAssumption
  <2> QED
    BY <2>1, FormatAssumption DEF FrameWords
<1>3. 0 \in Word
  <2>1. 2 ^ Bits \in Nat /\ 2 ^ Bits > 0
    BY FormatAssumption, Power
  <2> QED
    BY <2>1 DEF Word
<1>4. submitted \in Seq(Inputs)
  BY DEF Init
<1>5. datalen \in {Length(d) : d \in Inputs} /\ pc = "idle" /\ i \in 0 .. CounterMod - 1
      /\ wild \in BOOLEAN /\ index = 0
  BY <1>1 DEF Init
<1>6. node \in [0 .. datalen - 1 -> Word] /\ oddGroup \in [0 .. Half - 1 -> Word]
      /\ evenGroup \in [0 .. Half - 1 -> Word] /\ frame \in [0 .. FrameWords(datalen) - 1 -> Word]
  BY <1>3 DEF Init
<1>7. index \in 0 .. FrameWords(datalen)
  BY <1>2, <1>5
<1> QED
  BY <1>4, <1>5, <1>6, <1>7 DEF TypeOK

LEMMA StepKeepsTypes == ASSUME TypeOK, [Next]_vars PROVE TypeOK'
<1>0. /\ datalen \in Nat \ {0} /\ Half \in Nat /\ FrameWords(datalen) \in Nat
      /\ Bits \in Nat \ {0} /\ CounterMod \in Nat \ {0} /\ 0 \in Word
      /\ \A d \in Inputs : Length(d) = datalen => d \in [0 .. datalen - 1 -> Word]
  BY Ranges
<1> USE DEF TypeOK
<1>1. CASE Format
  <2>1. PICK d \in Inputs : Length(d) = datalen /\ node' = d /\ submitted' = Append(submitted, d)
    BY <1>1 DEF Format
  <2>2. node' \in [0 .. datalen - 1 -> Word] /\ submitted' \in Seq(Inputs)
    BY <1>0, <2>1
  <2>3. 0 \in 0 .. CounterMod - 1
    BY <1>0
  <2> QED
    BY <1>1, <2>2, <2>3 DEF Format, Half
<1>2. CASE Split
  <2>1. i' \in 0 .. CounterMod - 1
    BY <1>0, <1>2 DEF Split, NextCount
  <2>2. i \in Nat /\ i < datalen /\ node[i] \in Word
    BY <1>0, <1>2 DEF Split, InLoop
  <2> DEFINE one == [z \in {0} |-> node[i]]
  <2>3. one \in [{0} -> Word] /\ i \div 2 \in Int
    BY <2>2
  <2>4. Written(oddGroup, i \div 2, one) \in [0 .. Half - 1 -> Word]
    <3> HIDE DEF one
    <3> QED
      BY <1>0, <2>3, WrittenTypes
  <2>5. Written(evenGroup, i \div 2, one) \in [0 .. Half - 1 -> Word]
    <3> HIDE DEF one
    <3> QED
      BY <1>0, <2>3, WrittenTypes
  <2>6. oddGroup' \in [0 .. Half - 1 -> Word] /\ evenGroup' \in [0 .. Half - 1 -> Word]
    BY <1>2, <2>4, <2>5, Zenon DEF Split
  <2>7. datalen' = datalen /\ pc' = pc /\ node' = node /\ frame' = frame /\ index' = index
        /\ submitted' = submitted
    BY <1>2 DEF Split
  <2>8. wild' \in BOOLEAN
    BY <1>2 DEF Split
  <2> QED
    BY <2>1, <2>6, <2>7, <2>8 DEF Half
<1>3. CASE SplitDone
  BY <1>3 DEF SplitDone, Half
<1>4. CASE TransposeOdd
  <2>1. PICK g \in Reads(oddGroup) : node' = Written(node, 0, transpositionInt(g))
    BY <1>4 DEF TransposeOdd
  <2>2. transpositionInt(g) \in [0 .. Bits - 1 -> Word]
    <3>1. g \in [0 .. Bits - 1 -> Word]
      BY DEF Reads
    <3> QED
      BY <3>1, Transposes
  <2>3. node' \in [0 .. datalen - 1 -> Word]
    <3> DEFINE out == transpositionInt(g)
               D == 0 .. Bits - 1
    <3>1. out \in [D -> Word] /\ node' = Written(node, 0, out) /\ 0 \in Int
      BY <1>0, <2>1, <2>2
    <3> HIDE DEF out, D
    <3> QED
      BY <1>0, <3>1, WrittenTypes
  <2>4. wild' \in BOOLEAN
    BY <1>4 DEF TransposeOdd
  <2> QED
    BY <1>4, <2>3, <2>4 DEF TransposeOdd, Half
<1>5. CASE TransposeEven
  <2>1. PICK g \in Reads(evenGroup) : node' = Written(node, EvenAt, transpositionInt(g))
    BY <1>5 DEF TransposeEven
  <2>2. transpositionInt(g) \in [0 .. Bits - 1 -> Word]
    <3>1. g \in [0 .. Bits - 1 -> Word]
      BY DEF Reads
    <3> QED
      BY <3>1, Transposes
  <2>3. node' \in [0 .. datalen - 1 -> Word]
    <3> DEFINE out == transpositionInt(g)
               D == 0 .. Bits - 1
    <3>1. out \in [D -> Word] /\ node' = Written(node, EvenAt, out) /\ EvenAt \in Int
      BY <1>0, <2>1, <2>2 DEF EvenAt
    <3> HIDE DEF out, D
    <3> QED
      BY <1>0, <3>1, WrittenTypes
  <2>4. wild' \in BOOLEAN
    BY <1>5 DEF TransposeEven
  <2> QED
    BY <1>5, <2>3, <2>4 DEF TransposeEven, Half
<1>6. CASE Store
  <2>1. Written(frame, StoreAt, node) \in [0 .. FrameWords(datalen) - 1 -> Word]
    <3> DEFINE n == FrameWords(datalen)
               D == 0 .. datalen - 1
    <3>1. n \in Nat /\ frame \in [0 .. n - 1 -> Word] /\ node \in [D -> Word] /\ StoreAt \in Int
      BY <1>0 DEF StoreAt
    <3> HIDE DEF n, D
    <3>2. Written(frame, StoreAt, node) \in [0 .. n - 1 -> Word]
      BY <3>1, WrittenTypes
    <3> QED
      BY <3>2 DEF n
  <2>2. frame' \in [0 .. FrameWords(datalen) - 1 -> Word]
    BY <1>6, <2>1 DEF Store
  <2>3. index' \in 0 .. FrameWords(datalen)
    BY <1>0, <1>6 DEF Store, Fits
  <2> QED
    BY <1>6, <2>2, <2>3 DEF Store, Half
<1>7. CASE Flush
  BY <1>0, <1>7 DEF Flush, Half
<1>8. CASE UNCHANGED vars
  BY <1>8 DEF vars, Half
<1> QED
  BY <1>1, <1>2, <1>3, <1>4, <1>5, <1>6, <1>7, <1>8 DEF Next, WaveDataFormat

\* Every buffer keeps its length and holds words: no shift or mask of
\* transpositionInt leaves the 32 bits (HjkDataFormat.cpp:108-121).
THEOREM FormatTypes == Spec => []TypeOK
BY InitTypes, StepKeepsTypes, PTL DEF Spec

-----------------------------------------------------------------------------
\* The node waveDataFormat is at work on, as LabVIEW submitted it.
Current == submitted[Len(submitted)]

SameLength == \A n \in 1 .. Len(submitted) : submitted[n] \in [0 .. datalen - 1 -> Word]

\* The words of the node below n are in their groups.
GroupsUpto(n) ==
  \A w \in 0 .. Bits - 1 :
    /\ 2 * w < n => oddGroup[w] = Current[2 * w]
    /\ 2 * w + 1 < n => evenGroup[w] = Current[2 * w + 1]

OddRows ==
  IsTranspose([r \in 0 .. Bits - 1 |-> node[r]], [w \in 0 .. Bits - 1 |-> Current[2 * w]])

\* How far the node has come, statement by statement.
Stage ==
  /\ pc = "split" => node = Current /\ GroupsUpto(i)
  /\ pc \in {"odd", "even"} => GroupsUpto(datalen)
  /\ pc = "even" => OddRows
  /\ pc = "store" => Formatted(node, Current)

NodeInv ==
  /\ TypeOK /\ SameLength /\ (pc # "idle" => Len(submitted) > 0)
  /\ WholeGroups => ~wild /\ Stage

LEMMA InitNode == Init => NodeInv
<1> SUFFICES ASSUME Init PROVE NodeInv
  OBVIOUS
<1>1. TypeOK
  BY InitTypes
<1>2. SameLength
  BY DEF Init, SameLength
<1> QED
  BY <1>1, <1>2 DEF Init, NodeInv, Stage

\* The submitted nodes all have the length set once from chNum.
LEMMA StepKeepsLengths ==
  ASSUME NodeInv, [Next]_vars
  PROVE  SameLength' /\ (pc # "idle" => Len(submitted) > 0)'
<1>0. TypeOK /\ SameLength /\ (pc # "idle" => Len(submitted) > 0) /\ submitted \in Seq(Inputs)
  BY DEF NodeInv, TypeOK
<1>1. CASE Format
  <2>1. PICK d \in Inputs : Length(d) = datalen /\ submitted' = Append(submitted, d)
    BY <1>1 DEF Format
  <2>2. d \in [0 .. datalen - 1 -> Word]
    BY <1>0, <2>1, Ranges
  <2>3. datalen' = datalen
    BY <1>1 DEF Format
  <2>4. Len(submitted') = Len(submitted) + 1 /\ Len(submitted) \in Nat
    BY <1>0, <2>1
  <2>5. \A n \in 1 .. Len(submitted') : submitted'[n] \in [0 .. datalen - 1 -> Word]
    <3> SUFFICES ASSUME NEW n \in 1 .. Len(submitted')
                 PROVE  submitted'[n] \in [0 .. datalen - 1 -> Word]
      OBVIOUS
    <3>1. CASE n = Len(submitted) + 1
      <4>1. submitted'[n] = d
        BY <1>0, <2>1, <3>1
      <4> QED
        BY <2>2, <4>1
    <3>2. CASE n \in 1 .. Len(submitted)
      <4>1. submitted'[n] = submitted[n]
        BY <1>0, <2>1, <3>2
      <4> QED
        BY <1>0, <3>2, <4>1 DEF SameLength
    <3> QED
      BY <2>4, <3>1, <3>2
  <2> QED
    BY <2>3, <2>4, <2>5 DEF SameLength
<1>2. ASSUME datalen' = datalen, submitted' = submitted, pc = "idle" => pc' = "idle"
      PROVE  SameLength' /\ (pc # "idle" => Len(submitted) > 0)'
  BY <1>0, <1>2 DEF SameLength
<1>3. CASE WaveDataFormat
  BY <1>2, <1>3 DEF WaveDataFormat, Split, SplitDone, TransposeOdd, TransposeEven, Store
<1>4. CASE Flush
  BY <1>2, <1>4 DEF Flush
<1>5. CASE UNCHANGED vars
  BY <1>2, <1>5 DEF vars
<1> QED
  BY <1>1, <1>3, <1>4, <1>5 DEF Next

\* What holds when the node has two whole groups.
LEMMA Groups ==
  ASSUME NodeInv, WholeGroups
  PROVE  /\ datalen = 2 * Bits /\ Half = Bits /\ Bits \in Nat \ {0} /\ i \in Nat
         /\ node \in [0 .. datalen - 1 -> Word]
         /\ oddGroup \in [0 .. Bits - 1 -> Word] /\ evenGroup \in [0 .. Bits - 1 -> Word]
         /\ ~wild /\ Stage
<1>1. datalen = 2 * Bits /\ Bits \in Nat \ {0} /\ CounterMod \in Nat \ {0}
  BY FormatAssumption DEF WholeGroups
<1>2. Half = Bits
  BY <1>1 DEF Half
<1> QED
  BY <1>1, <1>2 DEF NodeInv, TypeOK

LEMMA SplitKeepsNode ==
  ASSUME NodeInv, WholeGroups, Split
  PROVE  ~wild' /\ Stage'
<1>0. /\ datalen = 2 * Bits /\ Half = Bits /\ Bits \in Nat \ {0} /\ i \in Nat
      /\ node \in [0 .. datalen - 1 -> Word]
      /\ oddGroup \in [0 .. Bits - 1 -> Word] /\ evenGroup \in [0 .. Bits - 1 -> Word]
      /\ ~wild /\ Stage
  BY Groups
<1>1. /\ pc = "split" /\ pc' = "split" /\ node' = node /\ Current' = Current /\ datalen' = datalen
      /\ i < datalen /\ i' = NextCount
  BY DEF Split, InLoop, Current
<1>2. node = Current /\ GroupsUpto(i)
  BY <1>0, <1>1 DEF Stage
<1>3. PICK h \in Nat, e \in Nat : i = h * 2 + e /\ e < 2
  BY <1>0, Halved
<1>4. i \div 2 = h /\ i % 2 = e /\ h < Bits
  <2>1. i \div 2 = h /\ i % 2 = e
    BY <1>3, Quotient
  <2> QED
    BY <1>0, <1>1, <1>3, <2>1
<1>5. ~wild'
  <2>1. wild' = (wild \/ i \div 2 >= Half \/ i >= datalen)
    BY DEF Split
  <2>2. ~wild /\ ~(i \div 2 >= Half) /\ ~(i >= datalen)
    BY <1>0, <1>1, <1>4
  <2> QED
    BY <2>1, <2>2, Zenon
<1>6. i' = 0 \/ i' = i + 1
  <2>1. CounterMod \in Nat \ {0} /\ i \in 0 .. CounterMod - 1
    BY FormatAssumption DEF NodeInv, TypeOK
  <2> QED
    BY <1>1, <2>1 DEF NextCount
<1> DEFINE one == [z \in {0} |-> node[i]]
<1>7. \A w \in 0 .. Bits - 1 :
        /\ Written(oddGroup, h, one)[w] = IF w = h THEN node[i] ELSE oddGroup[w]
        /\ Written(evenGroup, h, one)[w] = IF w = h THEN node[i] ELSE evenGroup[w]
  BY <1>0 DEF Written
<1>8. \A w \in 0 .. Bits - 1 :
        /\ oddGroup'[w] = IF w = h /\ e = 0 THEN node[i] ELSE oddGroup[w]
        /\ evenGroup'[w] = IF w = h /\ e # 0 THEN node[i] ELSE evenGroup[w]
  <2> HIDE DEF one
  <2>1. CASE e = 0
    <3>1. oddGroup' = Written(oddGroup, h, one) /\ evenGroup' = evenGroup
      BY <1>4, <2>1 DEF Split, one
    <3> QED
      BY <1>7, <2>1, <3>1
  <2>2. CASE e # 0
    <3>1. evenGroup' = Written(evenGroup, h, one) /\ oddGroup' = oddGroup
      BY <1>4, <2>2 DEF Split, one
    <3> QED
      BY <1>7, <2>2, <3>1
  <2> QED
    BY <2>1, <2>2
<1>9. GroupsUpto(i)'
  <2> SUFFICES ASSUME NEW w \in 0 .. Bits - 1
               PROVE  /\ 2 * w < i' => oddGroup'[w] = Current[2 * w]
                      /\ 2 * w + 1 < i' => evenGroup'[w] = Current[2 * w + 1]
    BY <1>1 DEF GroupsUpto
  <2>1. CASE i' = 0
    BY <2>1
  <2>2. CASE i' = i + 1
    <3>1. (2 * w < i => oddGroup[w] = Current[2 * w]) /\ (2 * w + 1 < i => evenGroup[w] = Current[2 * w + 1])
      BY <1>2 DEF GroupsUpto
    <3>2. ASSUME 2 * w < i' PROVE oddGroup'[w] = Current[2 * w]
      <4>1. CASE w = h /\ e = 0
        <5>1. i = 2 * w
          BY <1>3, <4>1
        <5> QED
          BY <1>2, <1>8, <4>1, <5>1
      <4>2. CASE ~(w = h /\ e = 0)
        <5>1. 2 * w < i
          BY <1>3, <2>2, <3>2, <4>2
        <5> QED
          BY <1>8, <3>1, <4>2, <5>1
      <4> QED
        BY <4>1, <4>2
    <3>3. ASSUME 2 * w + 1 < i' PROVE evenGroup'[w] = Current[2 * w + 1]
      <4>1. CASE w = h /\ e # 0
        <5>1. i = 2 * w + 1
          BY <1>3, <4>1
        <5> QED
          BY <1>2, <1>8, <4>1, <5>1
      <4>2. CASE ~(w = h /\ e # 0)
        <5>1. 2 * w + 1 < i
          BY <1>3, <2>2, <3>3, <4>2
        <5> QED
          BY <1>8, <3>1, <4>2, <5>1
      <4> QED
        BY <4>1, <4>2
    <3> QED
      BY <3>2, <3>3
  <2> QED
    BY <1>6, <2>1, <2>2
<1> QED
  BY <1>1, <1>2, <1>5, <1>9 DEF Stage

\* The transpose of a copy of the group, copied again.
LEMMA Transposed ==
  ASSUME NEW in, NEW g \in [0 .. Bits - 1 -> Word], \A w \in 0 .. Bits - 1 : g[w] = in[w],
         NEW out, \A r \in 0 .. Bits - 1 : out[r] = transpositionInt(g)[r]
  PROVE  IsTranspose(out, in)
<1> DEFINE t == transpositionInt(g)
<1>1. IsTranspose(t, g)
  BY Transposes
<1> HIDE DEF t
<1>2. \A r, c \in 0 .. Bits - 1 : Bit(t[r], c) = Bit(g[c], r)
  BY <1>1 DEF IsTranspose
<1>3. \A r \in 0 .. Bits - 1 : out[r] = t[r]
  BY DEF t
<1> QED
  BY <1>2, <1>3 DEF IsTranspose

LEMMA OddKeepsNode ==
  ASSUME NodeInv, WholeGroups, TransposeOdd
  PROVE  ~wild' /\ Stage'
<1>0. /\ datalen = 2 * Bits /\ Half = Bits /\ Bits \in Nat \ {0} /\ i \in Nat
      /\ node \in [0 .. datalen - 1 -> Word]
      /\ oddGroup \in [0 .. Bits - 1 -> Word] /\ evenGroup \in [0 .. Bits - 1 -> Word]
      /\ ~wild /\ Stage
  BY Groups
<1>1. /\ pc = "odd" /\ pc' = "even" /\ Current' = Current /\ datalen' = datalen
      /\ oddGroup' = oddGroup /\ evenGroup' = evenGroup
  BY DEF TransposeOdd, Current
<1>2. ~wild'
  <2>1. wild' = (wild \/ Bits > Half \/ Bits > datalen)
    BY DEF TransposeOdd
  <2>2. ~wild /\ ~(Bits > Half) /\ ~(Bits > datalen)
    BY <1>0
  <2> QED
    BY <2>1, <2>2, Zenon
<1>3. PICK g \in Reads(oddGroup) : node' = Written(node, 0, transpositionInt(g))
  BY DEF TransposeOdd
<1>4. GroupsUpto(datalen)
  BY <1>0, <1>1 DEF Stage
<1>5. GroupsUpto(datalen)'
  BY <1>1, <1>4 DEF GroupsUpto
<1>6. g \in [0 .. Bits - 1 -> Word] /\ \A w \in 0 .. Bits - 1 : g[w] = Current[2 * w]
  <2>1. g \in [0 .. Bits - 1 -> Word] /\ \A w \in 0 .. Bits - 1 : g[w] = oddGroup[w]
    BY <1>0, <1>3 DEF Reads
  <2>2. \A w \in 0 .. Bits - 1 : oddGroup[w] = Current[2 * w]
    BY <1>0, <1>4 DEF GroupsUpto
  <2> QED
    BY <2>1, <2>2
<1>7. \A r \in 0 .. Bits - 1 : node'[r] = transpositionInt(g)[r]
  <2> DEFINE t == transpositionInt(g)
  <2>1. t \in [0 .. Bits - 1 -> Word]
    BY <1>6, Transposes
  <2>2. node' = Written(node, 0, t)
    BY <1>3
  <2> HIDE DEF t
  <2>3. \A r \in 0 .. Bits - 1 : node'[r] = t[r]
    BY <1>0, <2>1, <2>2 DEF Written
  <2> QED
    BY <2>3 DEF t
<1>8. OddRows'
  <2> DEFINE in == [w \in 0 .. Bits - 1 |-> Current[2 * w]]
             out == [r \in 0 .. Bits - 1 |-> node'[r]]
  <2>1. (\A w \in 0 .. Bits - 1 : g[w] = in[w]) /\ \A r \in 0 .. Bits - 1 : out[r] = transpositionInt(g)[r]
    BY <1>6, <1>7
  <2> HIDE DEF in, out
  <2>2. IsTranspose(out, in)
    BY <1>6, <2>1, Transposed
  <2> QED
    BY <1>1, <2>2 DEF in, out, OddRows
<1> QED
  BY <1>1, <1>2, <1>5, <1>8 DEF Stage

LEMMA EvenKeepsNode ==
  ASSUME NodeInv, WholeGroups, TransposeEven
  PROVE  ~wild' /\ Stage'
<1>0. /\ datalen = 2 * Bits /\ Half = Bits /\ Bits \in Nat \ {0} /\ i \in Nat
      /\ node \in [0 .. datalen - 1 -> Word]
      /\ oddGroup \in [0 .. Bits - 1 -> Word] /\ evenGroup \in [0 .. Bits - 1 -> Word]
      /\ ~wild /\ Stage
  BY Groups
<1>1. pc = "even" /\ pc' = "store" /\ Current' = Current
  BY DEF TransposeEven, Current
<1>2. ~wild'
  <2>1. wild' = (wild \/ Bits > Half \/ EvenAt + Bits > datalen)
    BY DEF TransposeEven
  <2>2. ~wild /\ ~(Bits > Half) /\ ~(EvenAt + Bits > datalen)
    BY <1>0 DEF EvenAt
  <2> QED
    BY <2>1, <2>2, Zenon
<1>3. PICK g \in Reads(evenGroup) : node' = Written(node, EvenAt, transpositionInt(g))
  BY DEF TransposeEven
<1>4. GroupsUpto(datalen) /\ OddRows
  BY <1>0, <1>1 DEF Stage
<1>5. g \in [0 .. Bits - 1 -> Word] /\ \A w \in 0 .. Bits - 1 : g[w] = Current[2 * w + 1]
  <2>1. g \in [0 .. Bits - 1 -> Word] /\ \A w \in 0 .. Bits - 1 : g[w] = evenGroup[w]
    BY <1>0, <1>3 DEF Reads
  <2>2. \A w \in 0 .. Bits - 1 : evenGroup[w] = Current[2 * w + 1]
    BY <1>0, <1>4 DEF GroupsUpto
  <2> QED
    BY <2>1, <2>2
<1>6. \A r \in 0 .. Bits - 1 : node'[r] = node[r] /\ node'[Bits + r] = transpositionInt(g)[r]
  <2> DEFINE t == transpositionInt(g)
  <2>1. t \in [0 .. Bits - 1 -> Word]
    BY <1>5, Transposes
  <2>2. node' = Written(node, Bits, t)
    BY <1>0, <1>3 DEF EvenAt
  <2> HIDE DEF t
  <2>3. \A r \in 0 .. Bits - 1 : node'[r] = node[r] /\ node'[Bits + r] = t[r]
    BY <1>0, <2>1, <2>2 DEF Written
  <2> QED
    BY <2>3 DEF t
<1> DEFINE in == [w \in 0 .. Bits - 1 |-> Current[2 * w + 1]]
           out == [r \in 0 .. Bits - 1 |-> node'[Bits + r]]
           odd == [r \in 0 .. Bits - 1 |-> node[r]]
           odd2 == [r \in 0 .. Bits - 1 |-> node'[r]]
<1>7. IsTranspose(out, in)
  <2>1. (\A w \in 0 .. Bits - 1 : g[w] = in[w]) /\ \A r \in 0 .. Bits - 1 : out[r] = transpositionInt(g)[r]
    BY <1>5, <1>6
  <2> HIDE DEF in, out
  <2> QED
    BY <1>5, <2>1, Transposed
<1>8. IsTranspose(odd2, [w \in 0 .. Bits - 1 |-> Current[2 * w]])
  <2>1. odd2 = odd
    BY <1>6
  <2> QED
    BY <1>4, <2>1 DEF OddRows
<1>9. Formatted(node', Current)
  BY <1>7, <1>8 DEF Formatted
<1> QED
  BY <1>1, <1>2, <1>9 DEF Stage

LEMMA StepKeepsNode == ASSUME NodeInv, [Next]_vars PROVE NodeInv'
<1>1. TypeOK' /\ SameLength' /\ (pc # "idle" => Len(submitted) > 0)'
  BY StepKeepsTypes, StepKeepsLengths DEF NodeInv
<1>2. datalen' = datalen
  BY DEF Next, WaveDataFormat, Format, Split, SplitDone, TransposeOdd, TransposeEven, Store, Flush, vars
<1>3. ASSUME WholeGroups PROVE ~wild' /\ Stage'
  <2>0. ~wild /\ Stage
    BY <1>3, Groups
  <2>1. CASE Format
    <3>1. PICK d \in Inputs : node' = d /\ submitted' = Append(submitted, d)
      BY <2>1 DEF Format
    <3>2. Current' = d
      BY <3>1 DEF Current, NodeInv, TypeOK
    <3>3. GroupsUpto(i)'
      <4>1. i' = 0
        BY <2>1 DEF Format
      <4> QED
        BY <4>1, FormatAssumption DEF GroupsUpto
    <3> QED
      BY <2>0, <2>1, <3>1, <3>2, <3>3 DEF Format, Stage
  <2>2. CASE Split
    BY <1>3, <2>2, SplitKeepsNode
  <2>3. CASE SplitDone
    <3>1. ~(i < datalen) /\ GroupsUpto(i) /\ datalen = 2 * Bits /\ Bits \in Nat /\ i \in Nat
      BY <1>3, <2>0, <2>3, Groups DEF SplitDone, InLoop, Stage
    <3>2. GroupsUpto(datalen)
      BY <3>1 DEF GroupsUpto
    <3>3. GroupsUpto(datalen)'
      BY <2>3, <3>2 DEF SplitDone, GroupsUpto, Current
    <3> QED
      BY <2>0, <2>3, <3>3 DEF SplitDone, Stage
  <2>4. CASE TransposeOdd
    BY <1>3, <2>4, OddKeepsNode
  <2>5. CASE TransposeEven
    BY <1>3, <2>5, EvenKeepsNode
  <2>6. CASE Store
    BY <2>0, <2>6 DEF Store, Stage
  <2>7. CASE Flush
    BY <2>0, <2>7 DEF Flush, Stage
  <2>8. CASE UNCHANGED vars
    BY <2>0, <2>8 DEF vars, Stage, GroupsUpto, OddRows, Current
  <2> QED
    BY <2>1, <2>2, <2>3, <2>4, <2>5, <2>6, <2>7, <2>8 DEF Next, WaveDataFormat
<1>4. WholeGroups' => WholeGroups
  BY <1>2 DEF WholeGroups
<1> QED
  BY <1>1, <1>3, <1>4 DEF NodeInv

\* Where every node is in waveDataFormat, and what it holds there.
THEOREM NodeInductive == Spec => []NodeInv
BY InitNode, StepKeepsNode, PTL DEF Spec

\* With two whole groups waveDataFormat returns the node with each group
\* transposed, for every word width: overwriting the node in place loses nothing
\* (HjkDataFormat.cpp:56-72).
THEOREM FormatsInPlace == Spec => []FormattedInPlace
<1>1. NodeInv => FormattedInPlace
  BY DEF NodeInv, Stage, FormattedInPlace, Current
<1> QED
  BY <1>1, NodeInductive, PTL

\* With two whole groups no access leaves its buffer (HjkDataFormat.cpp:56-72, 108-118).
THEOREM StaysInBounds == Spec => []InBounds
<1>1. NodeInv => InBounds
  BY DEF NodeInv, InBounds
<1> QED
  BY <1>1, NodeInductive, PTL

-----------------------------------------------------------------------------
\* The k-th node of the frame, and the place of its submission: the node under work
\* is the last submitted and not in the frame yet.
Slot(k) == [w \in 0 .. datalen - 1 |-> frame[(k - 1) * datalen + w]]
Pending == IF pc = "idle" THEN 0 ELSE 1
SubmittedAs(k) == Len(submitted) - Pending - NodesInFrame + k

HeldInv ==
  /\ Whole /\ NodeInv
  /\ NodesInFrame <= Len(submitted) - Pending
  /\ WholeGroups => \A k \in 1 .. NodesInFrame : Formatted(Slot(k), submitted[SubmittedAs(k)])

LEMMA CountOfIndex ==
  ASSUME NEW m \in Nat, NEW n \in Nat \ {0}
  PROVE  (m * n) \div n = m
<1>1. m * n = m * n + 0
  OBVIOUS
<1>2. (m * n + 0) \div n = m
  BY Quotient
<1> QED
  BY <1>1, <1>2

LEMMA WithinSlot ==
  ASSUME NEW m \in Nat, NEW n \in Nat \ {0}, NEW k \in 1 .. m, NEW w \in 0 .. n - 1
  PROVE  (k - 1) * n + w \in 0 .. m * n - 1
<1>1. (k - 1) * n \in Nat /\ (k - 1) * n + n = k * n
  OBVIOUS
<1>2. k * n <= m * n
  OBVIOUS
<1> DEFINE x == (k - 1) * n
           y == k * n
           z == m * n
<1>3. x \in Nat /\ x + n = y /\ y <= z /\ z \in Nat
  BY <1>1, <1>2
<1> HIDE DEF x, y, z
<1>4. x + w \in 0 .. z - 1
  BY <1>3
<1> QED
  BY <1>4 DEF x, z

LEMMA HeldRanges ==
  ASSUME HeldInv
  PROVE  /\ datalen \in Nat \ {0} /\ Len(submitted) \in Nat /\ Pending \in {0, 1}
         /\ \E m \in Nat : index = m * datalen /\ NodesInFrame = m
<1>1. datalen \in Nat \ {0} /\ Len(submitted) \in Nat /\ Pending \in {0, 1}
  BY DEF HeldInv, Whole, NodeInv, TypeOK, Pending
<1>2. PICK m \in Nat : index = m * datalen
  BY DEF HeldInv, Whole
<1>3. NodesInFrame = m
  BY <1>1, <1>2, CountOfIndex DEF NodesInFrame
<1> QED
  BY <1>1, <1>2, <1>3

LEMMA InitHeld == Init => HeldInv
<1> SUFFICES ASSUME Init PROVE HeldInv
  OBVIOUS
<1>1. Whole /\ NodeInv
  BY InitWhole, InitNode
<1>2. datalen \in Nat \ {0} /\ index = 0 * datalen
  BY <1>1 DEF Init, Whole
<1>3. NodesInFrame = 0
  BY <1>2, CountOfIndex DEF NodesInFrame
<1>4. Len(submitted) = 0 /\ Pending = 0
  BY DEF Init, Pending
<1> QED
  BY <1>1, <1>3, <1>4 DEF HeldInv

LEMMA StoreKeepsHeld == ASSUME HeldInv, Store PROVE HeldInv'
<1>1. Whole' /\ NodeInv'
  BY StepKeepsWhole, StepKeepsNode DEF HeldInv, Next, WaveDataFormat
<1>2. PICK m \in Nat : index = m * datalen /\ NodesInFrame = m
  BY HeldRanges
<1>3. datalen \in Nat \ {0} /\ Len(submitted) \in Nat
  BY HeldRanges
<1>4. Fits
  <2>1. datalen < CounterMod /\ m * datalen < FrameWords(datalen)
    BY <1>2 DEF HeldInv, Whole, PastLoop, Admitted, Store
  <2> QED
    BY <1>2, <1>3, <2>1, RoomForOne DEF Fits
<1>5. /\ frame' = Written(frame, index, node) /\ index' = index + datalen
      /\ pc = "store" /\ pc' = "idle" /\ datalen' = datalen /\ submitted' = submitted
  BY <1>4 DEF Store, StoreAt
<1>6. NodesInFrame' = m + 1
  <2>1. index' = (m + 1) * datalen
    BY <1>2, <1>3, <1>5
  <2> QED
    BY <1>3, <1>5, <2>1, CountOfIndex DEF NodesInFrame
<1>7. Pending = 1 /\ Pending' = 0
  BY <1>5 DEF Pending
<1>8. NodesInFrame' <= Len(submitted') - Pending'
  BY <1>2, <1>3, <1>5, <1>6, <1>7 DEF HeldInv
<1>9. ASSUME WholeGroups, NEW k \in 1 .. m + 1
      PROVE  Formatted(Slot(k)', submitted'[SubmittedAs(k)'])
  <2>1. /\ node \in [0 .. datalen - 1 -> Word] /\ frame \in [0 .. FrameWords(datalen) - 1 -> Word]
        /\ FrameWords(datalen) \in Nat /\ index + datalen <= FrameWords(datalen)
        /\ Formatted(node, submitted[Len(submitted)])
    BY <1>4, <1>5, <1>9, Ranges DEF HeldInv, NodeInv, Stage, Current, TypeOK, Fits
  <2>2. SubmittedAs(k)' = Len(submitted) - (m + 1) + k
    BY <1>3, <1>5, <1>6, <1>7 DEF SubmittedAs
  <2> DEFINE f == FrameWords(datalen)
             at == (k - 1) * datalen
  <2>3. f \in Nat /\ at \in Nat /\ index \in Nat /\ index + datalen <= f
        /\ node \in [0 .. datalen - 1 -> Word] /\ frame \in [0 .. f - 1 -> Word]
        /\ frame' = [w \in 0 .. f - 1 |->
                       IF w - index \in 0 .. datalen - 1 THEN node[w - index] ELSE frame[w]]
    <3>1. f \in Nat /\ at \in Nat /\ index \in Nat /\ index + datalen <= f
      BY <1>2, <1>3, <2>1
    <3> HIDE DEF at
    <3> QED
      BY <1>5, <2>1, <3>1 DEF Written
  <2>4. Slot(k)' = [w \in 0 .. datalen - 1 |-> frame'[at + w]]
    BY <1>5 DEF Slot
  <2>5. CASE k <= m
    <3>1. k \in 1 .. m
      BY <2>5
    <3>2. Slot(k)' = Slot(k)
      <4>1. \A w \in 0 .. datalen - 1 : at + w \in 0 .. m * datalen - 1
        BY <1>3, <3>1, WithinSlot
      <4>2. \A w \in 0 .. datalen - 1 : at + w \in 0 .. index - 1
        BY <1>2, <4>1
      <4> HIDE DEF f, at
      <4>3. \A w \in 0 .. datalen - 1 : frame'[at + w] = frame[at + w]
        <5> SUFFICES ASSUME NEW w \in 0 .. datalen - 1 PROVE frame'[at + w] = frame[at + w]
          OBVIOUS
        <5> DEFINE z == at + w
        <5>1. z \in 0 .. index - 1
          BY <4>2
        <5> HIDE DEF z
        <5>2. z \in 0 .. f - 1 /\ ~(z - index \in 0 .. datalen - 1)
          BY <1>3, <2>3, <5>1
        <5>3. frame'[z] = frame[z]
          BY <2>3, <5>2
        <5> QED
          BY <5>3 DEF z
      <4>4. Slot(k)' = [w \in 0 .. datalen - 1 |-> frame[at + w]]
        BY <2>4, <4>3
      <4> QED
        BY <4>4 DEF Slot, at
    <3>3. SubmittedAs(k)' = SubmittedAs(k)
      BY <1>2, <1>3, <1>7, <2>2 DEF SubmittedAs
    <3>4. Formatted(Slot(k), submitted[SubmittedAs(k)])
      BY <1>2, <1>9, <3>1 DEF HeldInv
    <3> QED
      BY <1>5, <3>2, <3>3, <3>4
  <2>6. CASE k = m + 1
    <3>1. at = index
      BY <1>2, <2>6
    <3>2. Slot(k)' = node
      <4> HIDE DEF f, at
      <4>1. \A w \in 0 .. datalen - 1 : frame'[at + w] = node[w]
        BY <1>3, <2>3, <3>1
      <4>2. Slot(k)' = [w \in 0 .. datalen - 1 |-> node[w]]
        BY <2>4, <4>1
      <4> QED
        BY <2>3, <4>2
    <3>3. SubmittedAs(k)' = Len(submitted)
      BY <1>3, <2>2, <2>6
    <3> QED
      BY <1>5, <2>1, <3>2, <3>3
  <2> QED
    BY <1>9, <2>5, <2>6
<1>10. WholeGroups' => WholeGroups
  BY <1>5 DEF WholeGroups
<1> QED
  BY <1>1, <1>6, <1>8, <1>9, <1>10 DEF HeldInv

LEMMA StepKeepsHeld == ASSUME HeldInv, [Next]_vars PROVE HeldInv'
<1>1. Whole' /\ NodeInv'
  BY StepKeepsWhole, StepKeepsNode DEF HeldInv
<1>2. PICK m \in Nat : index = m * datalen /\ NodesInFrame = m
  BY HeldRanges
<1>3. datalen \in Nat \ {0} /\ Len(submitted) \in Nat
  BY HeldRanges
<1>4. CASE Format
  <2>1. PICK d \in Inputs : submitted' = Append(submitted, d)
    BY <1>4 DEF Format
  <2>2. index' = index /\ datalen' = datalen /\ frame' = frame /\ pc = "idle" /\ pc' = "split"
    BY <1>4 DEF Format
  <2>3. submitted \in Seq(Inputs) /\ Len(submitted') = Len(submitted) + 1
    BY <2>1 DEF HeldInv, NodeInv, TypeOK
  <2>4. NodesInFrame' = m /\ Pending = 0 /\ Pending' = 1
    BY <1>2, <2>2 DEF NodesInFrame, Pending
  <2>5. m <= Len(submitted)
    BY <1>2, <1>3, <2>4 DEF HeldInv
  <2>6. NodesInFrame' <= Len(submitted') - Pending'
    BY <1>3, <2>3, <2>4, <2>5
  <2>7. ASSUME WholeGroups, NEW k \in 1 .. m
        PROVE  Formatted(Slot(k)', submitted'[SubmittedAs(k)'])
    <3>1. Slot(k)' = Slot(k)
      BY <2>2 DEF Slot
    <3>2. SubmittedAs(k)' = SubmittedAs(k) /\ SubmittedAs(k) \in 1 .. Len(submitted)
      BY <1>2, <1>3, <2>3, <2>4, <2>5 DEF SubmittedAs
    <3>3. submitted'[SubmittedAs(k)] = submitted[SubmittedAs(k)]
      BY <2>1, <2>3, <3>2
    <3>4. Formatted(Slot(k), submitted[SubmittedAs(k)])
      BY <1>2, <2>7 DEF HeldInv
    <3> QED
      BY <3>1, <3>2, <3>3, <3>4
  <2>8. WholeGroups' => WholeGroups
    BY <2>2 DEF WholeGroups
  <2> QED
    BY <1>1, <2>4, <2>6, <2>7, <2>8 DEF HeldInv
<1>5. ASSUME index' = index, datalen' = datalen, frame' = frame, submitted' = submitted, Pending' = Pending
      PROVE  HeldInv'
  <2>1. NodesInFrame' = NodesInFrame /\ WholeGroups' = WholeGroups
    BY <1>5 DEF NodesInFrame, WholeGroups
  <2>2. \A k : Slot(k)' = Slot(k) /\ SubmittedAs(k)' = SubmittedAs(k)
    BY <1>5, <2>1 DEF Slot, SubmittedAs
  <2> QED
    BY <1>1, <1>5, <2>1, <2>2 DEF HeldInv
<1>6. CASE Split
  BY <1>5, <1>6 DEF Split, Pending
<1>7. CASE SplitDone
  BY <1>5, <1>7 DEF SplitDone, Pending
<1>8. CASE TransposeOdd
  BY <1>5, <1>8 DEF TransposeOdd, Pending
<1>9. CASE TransposeEven
  BY <1>5, <1>9 DEF TransposeEven, Pending
<1>10. CASE Store
  BY <1>10, StoreKeepsHeld
<1>11. CASE Flush
  <2>1. index' = 0 * datalen' /\ datalen' = datalen /\ submitted' = submitted /\ Pending' = 0
    BY <1>3, <1>11 DEF Flush, Pending
  <2>2. NodesInFrame' = 0
    BY <1>3, <2>1, CountOfIndex DEF NodesInFrame
  <2> QED
    BY <1>1, <1>3, <2>1, <2>2 DEF HeldInv
<1>12. CASE UNCHANGED vars
  BY <1>5, <1>12 DEF vars, Pending
<1> QED
  BY <1>4, <1>6, <1>7, <1>8, <1>9, <1>10, <1>11, <1>12 DEF Next, WaveDataFormat

\* Which submitted node each place of the frame holds.
THEOREM HeldInductive == Spec => []HeldInv
BY InitHeld, StepKeepsHeld, PTL DEF Spec

\* With two whole groups the frame holds the nodes since the last flush, formatted,
\* in order and side by side (hjkUsbXferdll.cpp testFormat with
\* HjkDataFormat.cpp:73-80).
THEOREM FrameIsNodes == Spec => []FrameHoldsNodes
<1>1. HeldInv => FrameHoldsNodes
  BY DEF HeldInv, FrameHoldsNodes, Slot, SubmittedAs, Pending
<1> QED
  BY <1>1, HeldInductive, PTL

=============================================================================
