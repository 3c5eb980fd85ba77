----------------------------- MODULE WireProofs -----------------------------
(***************************************************************************)
(* Proofs about Wire, for every unit, length of keys and length of texts:  *)
(* what is accepted is the canonical spelling of its bytes, bit for bit,   *)
(* and the other way round.                                                *)
(***************************************************************************)
EXTENDS Wire, SumProofs, SequenceTheorems

-----------------------------------------------------------------------------
(* Powers of two, which the provers take for integers and know no more of: *)
(* there are as many as subsets of n elements.                             *)

LEMMA PowerType == \A n \in Nat : 2 ^ n \in Nat \ {0}
<1> TAKE n \in Nat
<1>1. IsFiniteSet(1..n) /\ Cardinality(1..n) = n
  BY FS_Interval
<1>2. IsFiniteSet(SUBSET (1..n)) /\ Cardinality(SUBSET (1..n)) = 2 ^ n
  BY <1>1, FS_SUBSET
<1>3. SUBSET (1..n) # {}
  OBVIOUS
<1>4. Cardinality(SUBSET (1..n)) \in Nat /\ Cardinality(SUBSET (1..n)) # 0
  BY <1>2, <1>3, FS_CardinalityType, FS_EmptySet
<1>5. QED
  BY <1>2, <1>4

(* Those with the next element are as many as those without.               *)
LEMMA PowerNext == \A n \in Nat : 2 ^ (n + 1) = 2 * 2 ^ n
<1> TAKE n \in Nat
<1> DEFINE A == SUBSET (1..n)
           B == {s \cup {n + 1} : s \in A}
           f == [s \in A |-> s \cup {n + 1}]
<1>1. IsFiniteSet(1..n) /\ Cardinality(1..n) = n
  BY FS_Interval
<1>2. IsFiniteSet(1..(n + 1)) /\ Cardinality(1..(n + 1)) = n + 1
  BY FS_Interval
<1>3. IsFiniteSet(A) /\ Cardinality(A) = 2 ^ n
  BY <1>1, FS_SUBSET
<1>4. Cardinality(SUBSET (1..(n + 1))) = 2 ^ (n + 1)
  BY <1>2, FS_SUBSET
<1>5. \A s \in A : n + 1 \notin s
  OBVIOUS
<1>6. SUBSET (1..(n + 1)) = A \cup B
  <2>1. ASSUME NEW s \in SUBSET (1..(n + 1)), n + 1 \in s PROVE s \in B
    <3>1. s \ {n + 1} \in A /\ s = (s \ {n + 1}) \cup {n + 1}
      BY <2>1
    <3>2. QED
      BY <3>1
  <2>2. ASSUME NEW s \in SUBSET (1..(n + 1)), n + 1 \notin s PROVE s \in A
    BY <2>2
  <2>3. ASSUME NEW s \in A
        PROVE  s \in SUBSET (1..(n + 1)) /\ s \cup {n + 1} \in SUBSET (1..(n + 1))
    <3>1. 1..n \subseteq 1..(n + 1) /\ n + 1 \in 1..(n + 1)
      OBVIOUS
    <3>2. QED
      BY <3>1
  <2> DEFINE C == SUBSET (1..(n + 1))
  <2>4. \A t \in B : t \in C
    BY <2>3
  <2>5. \A t \in A : t \in C
    BY <2>3
  <2>6. \A t \in C : t \in A \/ t \in B
    BY <2>1, <2>2
  <2> HIDE DEF A, B, C
  <2>7. C = A \cup B
    BY <2>4, <2>5, <2>6
  <2>8. QED
    BY <2>7 DEF C
<1>7. A \cap B = {}
  BY <1>5
<1>8. f \in Bijection(A, B)
  <2>1. \A s, r \in A : s \cup {n + 1} = r \cup {n + 1} => s = r
    <3> TAKE s, r \in A
    <3> HAVE s \cup {n + 1} = r \cup {n + 1}
    <3>1. s = (s \cup {n + 1}) \ {n + 1} /\ r = (r \cup {n + 1}) \ {n + 1}
      BY <1>5
    <3>2. QED
      BY <3>1
  <2>2. f \in [A -> B] /\ \A s \in A : f[s] = s \cup {n + 1}
    OBVIOUS
  <2>3. \A t \in B : \E s \in A : f[s] = t
    BY <2>2
  <2> HIDE DEF A, B, f
  <2>4. QED
    BY <2>1, <2>2, <2>3 DEF Bijection, Injection, IsInjective, Surjection
<1>9. IsFiniteSet(B) /\ Cardinality(B) = 2 ^ n
  <2> HIDE DEF A, B, f
  <2>1. QED
    BY <1>3, <1>8, FS_Bijection DEF ExistsBijection
<1>10. Cardinality(A \cup B) = Cardinality(A) + Cardinality(B)
  <2> HIDE DEF A, B
  <2>1. QED
    BY <1>3, <1>7, <1>9, FS_Union, FS_EmptySet
<1>11. 2 ^ (n + 1) = 2 ^ n + 2 ^ n
  BY <1>3, <1>4, <1>6, <1>9, <1>10
<1>12. QED
  BY <1>11, PowerType

LEMMA PowerSum == \A m, n \in Nat : 2 ^ (m + n) = 2 ^ m * 2 ^ n
<1> TAKE m, n_ \in Nat
<1> DEFINE A == {n \in Nat : 2 ^ (m + n) = 2 ^ m * 2 ^ n}
<1>1. 0 \in A
  <2>1. 2 ^ 0 = 1 /\ 2 ^ m \in Nat /\ m + 0 = m
    BY PowerType
  <2>2. QED
    BY <2>1
<1>2. ASSUME NEW n \in A PROVE n + 1 \in A
  <2>1. 2 ^ (m + (n + 1)) = 2 * 2 ^ (m + n)
    <3>1. m + (n + 1) = (m + n) + 1 /\ m + n \in Nat
      OBVIOUS
    <3>2. QED
      BY <3>1, PowerNext
  <2>2. 2 ^ (n + 1) = 2 * 2 ^ n
    BY PowerNext
  <2>3. 2 ^ (m + n) = 2 ^ m * 2 ^ n /\ 2 ^ m \in Nat /\ 2 ^ n \in Nat
    BY PowerType
  <2> DEFINE x == 2 ^ m
             y == 2 ^ n
  <2> HIDE DEF x, y
  <2>4. x \in Nat /\ y \in Nat => 2 * (x * y) = x * (2 * y)
    OBVIOUS
  <2>5. 2 ^ (m + (n + 1)) = 2 ^ m * 2 ^ (n + 1)
    BY <2>1, <2>2, <2>3, <2>4 DEF x, y
  <2>6. QED
    BY <2>5
<1>3. A = Nat
  <2>1. A \subseteq Nat
    OBVIOUS
  <2> HIDE DEF A
  <2>2. QED
    BY <1>1, <1>2, <2>1, AllOfNat
<1>4. QED
  BY <1>3

LEMMA Values ==
  /\ ByteValues \in Nat \ {0} /\ SymbolValues \in Nat \ {0}
  /\ Unit \in Nat \ {0} /\ ByteBits \in Nat \ {0} /\ SymbolBits \in Nat \ {0}
  /\ 3 * ByteBits = 12 * Unit /\ 4 * SymbolBits = 12 * Unit
<1>1. /\ Unit \in Nat \ {0} /\ ByteBits \in Nat \ {0} /\ SymbolBits \in Nat \ {0}
      /\ 3 * ByteBits = 12 * Unit /\ 4 * SymbolBits = 12 * Unit
  BY WireAssumption DEF ByteBits, SymbolBits
<1>2. QED
  BY <1>1, PowerType DEF ByteValues, SymbolValues

-----------------------------------------------------------------------------
(* Division.                                                               *)

LEMMA Division ==
  ASSUME NEW x \in Nat, NEW m \in Nat \ {0}
  PROVE  /\ x \div m \in Nat /\ x % m \in Nat /\ x % m < m
         /\ x = m * (x \div m) + (x % m)
OBVIOUS

LEMMA DivisionIs ==
  ASSUME NEW q \in Nat, NEW r \in Nat, NEW m \in Nat \ {0}, r < m
  PROVE  (m * q + r) \div m = q /\ (m * q + r) % m = r
OBVIOUS

(* Dividing twice, and dividing a remainder.                               *)
Twice(x, m, n) ==
  /\ m * n \in Nat \ {0}
  /\ x \div (m * n) = (x \div m) \div n
  /\ (x % (m * n)) \div m = (x \div m) % n
  /\ (x % (m * n)) % m = x % m

LEMMA DivisionTwice ==
  ASSUME NEW x \in Nat, NEW m \in Nat \ {0}, NEW n \in Nat \ {0}
  PROVE  Twice(x, m, n)
<1> DEFINE q == x \div m
           r == x % m
           p == q \div n
           s == q % n
<1>1. q \in Nat /\ r \in Nat /\ r < m /\ x = m * q + r
  BY Division
<1>2. p \in Nat /\ s \in Nat /\ s < n /\ q = n * p + s
  BY <1>1, Division
<1> HIDE DEF q, r, p, s
<1>3. m * n \in Nat \ {0} /\ m * s \in Nat
  BY <1>2
<1>4. x = (m * n) * p + (m * s + r)
  BY <1>1, <1>2
<1>5. m * s + r < m * n /\ m * s + r \in Nat
  <2>1. m * s + m <= m * n
    BY <1>2
  <2>2. QED
    BY <1>1, <1>3, <2>1
<1>6. x \div (m * n) = p /\ x % (m * n) = m * s + r
  <2> DEFINE k == m * n
             t == m * s + r
  <2>1. k \in Nat \ {0} /\ t \in Nat /\ t < k /\ x = k * p + t /\ p \in Nat
    BY <1>2, <1>3, <1>4, <1>5
  <2> HIDE DEF k, t
  <2>2. x \div k = p /\ x % k = t
    BY <2>1, DivisionIs
  <2>3. QED
    BY <2>2 DEF k, t
<1>7. (m * s + r) \div m = s /\ (m * s + r) % m = r
  BY <1>1, <1>2, DivisionIs
<1>8. QED
  BY <1>3, <1>6, <1>7 DEF p, q, r, s, Twice

-----------------------------------------------------------------------------
(* Bits.                                                                   *)

BitOf(x, k) == (x \div 2 ^ k) % 2

LEMMA BitIs ==
  ASSUME NEW x \in Nat, NEW k \in Nat
  PROVE  BitOf(x, k) \in {0, 1}
<1>1. 2 ^ k \in Nat \ {0}
  BY PowerType
<1> DEFINE m == 2 ^ k
<1> HIDE DEF m
<1>2. m \in Nat \ {0} => (x \div m) \in Nat
  OBVIOUS
<1>3. QED
  BY <1>1, <1>2 DEF BitOf, m

(* A bit of a digit is a bit of the number.                                *)
LEMMA DigitBit ==
  ASSUME NEW x \in Nat, NEW a \in Nat, NEW w \in Nat, NEW c \in Nat, c < w
  PROVE  BitOf((x \div 2 ^ a) % 2 ^ w, c) = BitOf(x, a + c)
<1> DEFINE A == 2 ^ a
           C == 2 ^ c
           R == 2 ^ (w - c - 1)
           y == x \div A
           z == y \div C
<1>1. A \in Nat \ {0} /\ C \in Nat \ {0} /\ R \in Nat \ {0}
  BY PowerType
<1>2. 2 ^ (a + c) = A * C
  BY PowerSum
<1>3. 2 ^ w = C * (2 * R)
  <2>1. w = c + (w - c) /\ w - c = (w - c - 1) + 1 /\ w - c - 1 \in Nat /\ w - c \in Nat
    OBVIOUS
  <2>2. 2 ^ w = C * 2 ^ (w - c)
    BY <2>1, PowerSum
  <2>3. 2 ^ (w - c) = 2 * R
    BY <2>1, PowerNext
  <2>4. QED
    BY <2>2, <2>3
<1> HIDE DEF A, C, R
<1>4. y \in Nat /\ 2 * R \in Nat \ {0}
  BY <1>1, Division
<1> HIDE DEF y
<1>5. z \in Nat
  BY <1>1, <1>4, Division
<1>6. (y % (C * (2 * R))) \div C = z % (2 * R)
  <2>1. Twice(y, C, 2 * R)
    BY <1>1, <1>4, DivisionTwice
  <2>2. QED
    BY <2>1 DEF Twice, z
<1>7. x \div (A * C) = z
  <2>1. Twice(x, A, C)
    BY <1>1, DivisionTwice
  <2>2. QED
    BY <2>1 DEF Twice, y, z
<1> HIDE DEF z
<1>8. (z % (2 * R)) % 2 = z % 2
  <2>1. Twice(z, 2, R)
    BY <1>1, <1>5, DivisionTwice
  <2>2. QED
    BY <2>1 DEF Twice
<1>9. QED
  BY <1>2, <1>3, <1>6, <1>7, <1>8 DEF BitOf, y, A, C

(* A number is determined by its bits.                                     *)
LEMMA BitsDetermine ==
  ASSUME NEW w_ \in Nat, NEW x_ \in 0..(2 ^ w_ - 1), NEW y_ \in 0..(2 ^ w_ - 1),
         \A c \in 0..(w_ - 1) : BitOf(x_, c) = BitOf(y_, c)
  PROVE  x_ = y_
<1> DEFINE Same(x, y, w) == \A c \in 0..(w - 1) : BitOf(x, c) = BitOf(y, c)
           A == {w \in Nat : \A x, y \in 0..(2 ^ w - 1) : Same(x, y, w) => x = y}
<1>1. 0 \in A
  <2>1. 2 ^ 0 = 1
    OBVIOUS
  <2>2. \A x, y \in 0..(2 ^ 0 - 1) : x = y
    BY <2>1
  <2>3. QED
    BY <2>2
<1>2. ASSUME NEW w \in A PROVE w + 1 \in A
  <2> SUFFICES ASSUME NEW x \in 0..(2 ^ (w + 1) - 1), NEW y \in 0..(2 ^ (w + 1) - 1),
                      Same(x, y, w + 1)
               PROVE  x = y
    OBVIOUS
  <2>1. w \in Nat /\ 2 ^ w \in Nat \ {0} /\ 2 ^ (w + 1) = 2 * 2 ^ w
    BY PowerType, PowerNext
  <2>2. x \in Nat /\ y \in Nat /\ x \div 2 \in 0..(2 ^ w - 1) /\ y \div 2 \in 0..(2 ^ w - 1)
    <3> DEFINE P == 2 ^ w
    <3>1. x \in 0..(2 * P - 1) /\ y \in 0..(2 * P - 1) /\ P \in Nat \ {0}
      BY <2>1
    <3> HIDE DEF P
    <3>2. x \div 2 \in 0..(P - 1) /\ y \div 2 \in 0..(P - 1) /\ x \in Nat /\ y \in Nat
      BY <3>1
    <3>3. QED
      BY <3>2 DEF P
  <2>3. x % 2 = y % 2
    <3>1. 0 \in 0..((w + 1) - 1)
      BY <2>1
    <3>2. BitOf(x, 0) = BitOf(y, 0)
      BY <3>1
    <3>3. 2 ^ 0 = 1 /\ x \div 1 = x /\ y \div 1 = y
      BY <2>2
    <3>4. QED
      BY <3>2, <3>3 DEF BitOf
  <2>4. ASSUME NEW c \in 0..(w - 1) PROVE BitOf(x \div 2, c) = BitOf(y \div 2, c)
    <3>1. c \in Nat /\ c + 1 \in 0..((w + 1) - 1)
      BY <2>1
    <3>2. BitOf(x, c + 1) = BitOf(y, c + 1)
      BY <3>1
    <3>3. \A n \in Nat : BitOf(n, c + 1) = BitOf(n \div 2, c)
      <4> TAKE n \in Nat
      <4>1. 2 ^ (c + 1) = 2 * 2 ^ c /\ 2 ^ c \in Nat \ {0}
        BY <3>1, PowerNext, PowerType
      <4>2. n \div (2 * 2 ^ c) = (n \div 2) \div 2 ^ c
        <5>1. Twice(n, 2, 2 ^ c)
          BY <4>1, DivisionTwice
        <5>2. QED
          BY <5>1 DEF Twice
      <4>3. QED
        BY <4>1, <4>2 DEF BitOf
    <3>4. QED
      BY <2>2, <3>2, <3>3
  <2>5. x \div 2 = y \div 2
    BY <2>2, <2>4
  <2>6. x = 2 * (x \div 2) + (x % 2) /\ y = 2 * (y \div 2) + (y % 2)
    BY <2>2
  <2>7. QED
    BY <2>3, <2>5, <2>6
<1>3. A = Nat
  <2>1. A \subseteq Nat
    OBVIOUS
  <2> HIDE DEF A
  <2>2. QED
    BY <1>1, <1>2, <2>1, AllOfNat
<1>4. w_ \in A /\ Same(x_, y_, w_)
  BY <1>3
<1>5. QED
  BY <1>4

-----------------------------------------------------------------------------
(* Digits.                                                                 *)

(* n is written with these digits in base X.                               *)
Three(n, X, a, b, c) ==
  /\ n \in Nat
  /\ (n \div (X * X)) % X = a /\ (n \div X) % X = b /\ n % X = c

Four(n, X, a, b, c, d) ==
  /\ n \in Nat
  /\ (n \div (X * (X * X))) % X = a /\ (n \div (X * X)) % X = b
  /\ (n \div X) % X = c /\ n % X = d

LEMMA ThreeDigits ==
  ASSUME NEW X \in Nat \ {0}, NEW a \in Nat, NEW b \in Nat, NEW c \in Nat,
         a < X, b < X, c < X, NEW n, n = a * (X * X) + b * X + c
  PROVE  Three(n, X, a, b, c)
<1> DEFINE h == X * a + b
<1>1. h \in Nat /\ n = X * h + c /\ n \in Nat
  OBVIOUS
<1>2. h \div X = a /\ h % X = b
  BY DivisionIs
<1> HIDE DEF h
<1>3. n \div X = h /\ n % X = c
  BY <1>1, DivisionIs
<1>4. Twice(n, X, X)
  BY <1>1, DivisionTwice
<1>5. n \div (X * X) = a
  BY <1>2, <1>3, <1>4 DEF Twice
<1>6. a % X = a
  OBVIOUS
<1>7. QED
  BY <1>1, <1>2, <1>3, <1>5, <1>6 DEF Three

LEMMA FourDigits ==
  ASSUME NEW X \in Nat \ {0}, NEW a \in Nat, NEW b \in Nat, NEW c \in Nat, NEW d \in Nat,
         a < X, b < X, c < X, d < X,
         NEW n, n = a * (X * (X * X)) + b * (X * X) + c * X + d
  PROVE  Four(n, X, a, b, c, d)
<1> DEFINE h == a * (X * X) + b * X + c
<1>1. h \in Nat /\ n = X * h + d /\ n \in Nat
  OBVIOUS
<1>2. Three(h, X, a, b, c)
  BY ThreeDigits
<1> HIDE DEF h
<1>3. n \div X = h /\ n % X = d
  BY <1>1, DivisionIs
<1>4. Twice(n, X, X) /\ X * X \in Nat \ {0}
  <2>1. Twice(n, X, X)
    BY <1>1, DivisionTwice
  <2>2. QED
    BY <2>1 DEF Twice
<1>5. Twice(n, X, X * X)
  BY <1>1, <1>4, DivisionTwice
<1>6. QED
  BY <1>1, <1>2, <1>3, <1>4, <1>5 DEF Twice, Three, Four

ValueAt(v, m) == IF m \in DOMAIN v THEN v[m] ELSE 0

(* Values of the given width, wherever one looks.                          *)
Wide(v, w) == \A m \in Nat : ValueAt(v, m) \in Nat /\ ValueAt(v, m) < 2 ^ w

DigitOf(n, w, k) == (n \div 2 ^ (w * k)) % 2 ^ w

LEMMA ByteDigits ==
  ASSUME NEW v, Wide(v, ByteBits), NEW g \in Nat, NEW i \in 0..2
  PROVE  /\ ByteGroup(v, g) \in Nat
         /\ DigitOf(ByteGroup(v, g), ByteBits, 2 - i) = ValueAt(v, 3 * g + i + 1)
<1> DEFINE w == ByteBits
           X == 2 ^ w
           n == ByteGroup(v, g)
           a == ValueAt(v, 3 * g + 1)
           b == ValueAt(v, 3 * g + 2)
           c == ValueAt(v, 3 * g + 3)
<1>1. w \in Nat /\ X \in Nat \ {0}
  BY Values, PowerType
<1>2. 2 ^ (2 * w) = X * X
  <2> HIDE DEF w
  <2>1. 2 * w = w + w
    BY <1>1
  <2>2. QED
    BY <1>1, <2>1, PowerSum
<1>3. /\ a \in Nat /\ b \in Nat /\ c \in Nat /\ a < X /\ b < X /\ c < X
  BY DEF Wide
<1>4. n = a * (X * X) + b * X + c
  BY <1>2 DEF ByteGroup, At, ValueAt
<1> HIDE DEF n, a, b, c, w
<1>5. Three(n, X, a, b, c)
  <2> HIDE DEF X
  <2>1. QED
    BY <1>1, <1>3, <1>4, ThreeDigits
<1>6. CASE i = 0
  <2>1. w * (2 - i) = 2 * w /\ 3 * g + i + 1 = 3 * g + 1
    BY <1>1, <1>6
  <2>2. QED
    BY <1>2, <1>5, <2>1 DEF Three, DigitOf, n, a, w
<1>7. CASE i = 1
  <2>1. w * (2 - i) = w /\ 3 * g + i + 1 = 3 * g + 2
    BY <1>1, <1>7
  <2>2. QED
    BY <1>5, <2>1 DEF Three, DigitOf, n, b, w
<1>8. CASE i = 2
  <2>1. w * (2 - i) = 0 /\ 3 * g + i + 1 = 3 * g + 3
    BY <1>1, <1>8
  <2>2. 2 ^ 0 = 1 /\ n \div 1 = n
    BY <1>5 DEF Three
  <2>3. QED
    BY <1>5, <2>1, <2>2 DEF Three, DigitOf, n, c, w
<1>9. QED
  BY <1>6, <1>7, <1>8

LEMMA SymbolDigits ==
  ASSUME NEW v, Wide(v, SymbolBits), NEW g \in Nat, NEW i \in 0..3
  PROVE  /\ SymbolGroup(v, g) \in Nat
         /\ DigitOf(SymbolGroup(v, g), SymbolBits, 3 - i) = ValueAt(v, 4 * g + i + 1)
<1> DEFINE w == SymbolBits
           X == 2 ^ w
           n == SymbolGroup(v, g)
           a == ValueAt(v, 4 * g + 1)
           b == ValueAt(v, 4 * g + 2)
           c == ValueAt(v, 4 * g + 3)
           d == ValueAt(v, 4 * g + 4)
<1>1. w \in Nat /\ X \in Nat \ {0}
  BY Values, PowerType
<1>2. 2 ^ (2 * w) = X * X /\ 2 ^ (3 * w) = X * (X * X)
  <2> HIDE DEF w
  <2>1. 2 * w = w + w /\ 3 * w = w + 2 * w /\ 2 * w \in Nat
    BY <1>1
  <2>2. 2 ^ (2 * w) = X * X
    BY <1>1, <2>1, PowerSum
  <2>3. 2 ^ (3 * w) = X * 2 ^ (2 * w)
    BY <1>1, <2>1, PowerSum
  <2>4. QED
    BY <2>2, <2>3
<1>3. /\ a \in Nat /\ b \in Nat /\ c \in Nat /\ d \in Nat
      /\ a < X /\ b < X /\ c < X /\ d < X
  BY DEF Wide
<1>4. n = a * (X * (X * X)) + b * (X * X) + c * X + d
  BY <1>2 DEF SymbolGroup, At, ValueAt
<1> HIDE DEF n, a, b, c, d, w
<1>5. Four(n, X, a, b, c, d)
  <2> HIDE DEF X
  <2>1. QED
    BY <1>1, <1>3, <1>4, FourDigits
<1>6. CASE i = 0
  <2>1. w * (3 - i) = 3 * w /\ 4 * g + i + 1 = 4 * g + 1
    BY <1>1, <1>6
  <2>2. QED
    BY <1>2, <1>5, <2>1 DEF Four, DigitOf, n, a, w
<1>7. CASE i = 1
  <2>1. w * (3 - i) = 2 * w /\ 4 * g + i + 1 = 4 * g + 2
    BY <1>1, <1>7
  <2>2. QED
    BY <1>2, <1>5, <2>1 DEF Four, DigitOf, n, b, w
<1>8. CASE i = 2
  <2>1. w * (3 - i) = w /\ 4 * g + i + 1 = 4 * g + 3
    BY <1>1, <1>8
  <2>2. QED
    BY <1>5, <2>1 DEF Four, DigitOf, n, c, w
<1>9. CASE i = 3
  <2>1. w * (3 - i) = 0 /\ 4 * g + i + 1 = 4 * g + 4
    BY <1>1, <1>9
  <2>2. 2 ^ 0 = 1 /\ n \div 1 = n
    BY <1>5 DEF Four
  <2>3. QED
    BY <1>5, <2>1, <2>2 DEF Four, DigitOf, n, d, w
<1>10. QED
  BY <1>6, <1>7, <1>8, <1>9

-----------------------------------------------------------------------------
(* The j-th bit of a string, from 0, is in group j \div GroupBits, at the  *)
(* same place of the group whether that is made of bytes or of symbols.    *)

GroupBits == 12 * Unit

GroupBit(n, j) == BitOf(n, GroupBits - 1 - (j % GroupBits))

(* The j-th bit of values of width w.                                      *)
StringBit(v, w, j) == BitOf(ValueAt(v, j \div w + 1), w - 1 - (j % w))

(* Groups of s values of width w.                                          *)
Placed(w, s, j) ==
  /\ j \div w \in Nat /\ (j \div w) % s \in 0..(s - 1)
  /\ j \div GroupBits = (j \div w) \div s /\ j \div GroupBits \in Nat
  /\ j \div w = s * (j \div GroupBits) + ((j \div w) % s)
  /\ \A n \in Nat : BitOf(DigitOf(n, w, s - 1 - ((j \div w) % s)), w - 1 - (j % w))
                      = GroupBit(n, j)

LEMMA Placing ==
  ASSUME NEW w \in Nat \ {0}, NEW s \in Nat \ {0}, w * s = GroupBits, NEW j \in Nat
  PROVE  Placed(w, s, j)
<1> DEFINE q == j \div w
           r == j % w
           g == q \div s
           i == q % s
<1>1. q \in Nat /\ r \in Nat /\ r < w /\ j = w * q + r
  BY Division
<1>2. g \in Nat /\ i \in Nat /\ i < s /\ q = s * g + i
  BY <1>1, Division
<1>3. Twice(j, w, s)
  BY DivisionTwice
<1>4. j \div GroupBits = g /\ (j % GroupBits) \div w = i /\ (j % GroupBits) % w = r
  BY <1>3 DEF Twice
<1>5. j % GroupBits = w * i + r
  <2> DEFINE p == j % GroupBits
  <2>1. GroupBits \in Nat \ {0}
    BY <1>3 DEF Twice
  <2>2. p \in Nat
    BY <2>1, Division
  <2> HIDE DEF p
  <2>3. p = w * (p \div w) + (p % w)
    BY <2>2, Division
  <2>4. QED
    BY <1>4, <2>3 DEF p
<1> HIDE DEF q, r, g, i
<1>6. GroupBits - 1 - (w * i + r) = w * (s - 1 - i) + (w - 1 - r)
  <2>1. w * s = w * (s - 1 - i) + w * i + w
    BY <1>2
  <2>2. QED
    BY <1>1, <1>2, <2>1
<1>7. ASSUME NEW n \in Nat
      PROVE  BitOf(DigitOf(n, w, s - 1 - i), w - 1 - r) = GroupBit(n, j)
  <2> DEFINE a == w * (s - 1 - i)
             c == w - 1 - r
  <2>1. a \in Nat /\ c \in Nat /\ c < w /\ w \in Nat
    BY <1>1, <1>2
  <2> HIDE DEF a, c
  <2>2. BitOf((n \div 2 ^ a) % 2 ^ w, c) = BitOf(n, a + c)
    BY <2>1, DigitBit
  <2>3. QED
    BY <1>5, <1>6, <2>2 DEF DigitOf, GroupBit, a, c
<1>8. i \in 0..(s - 1)
  BY <1>2
<1>9. QED
  BY <1>1, <1>2, <1>4, <1>7, <1>8 DEF Placed, q, r, g, i

LEMMA PlacedBytes == ASSUME NEW j \in Nat PROVE Placed(ByteBits, 3, j)
<1>1. ByteBits \in Nat \ {0} /\ ByteBits * 3 = GroupBits
  BY Values DEF GroupBits
<1>2. QED
  BY <1>1, Placing

LEMMA PlacedSymbols == ASSUME NEW j \in Nat PROVE Placed(SymbolBits, 4, j)
<1>1. SymbolBits \in Nat \ {0} /\ SymbolBits * 4 = GroupBits
  BY Values DEF GroupBits
<1>2. QED
  BY <1>1, Placing

(* The bits of a string of bytes are those of its groups ...               *)
LEMMA ByteString ==
  ASSUME NEW v, Wide(v, ByteBits), NEW j \in Nat
  PROVE  StringBit(v, ByteBits, j) = GroupBit(ByteGroup(v, j \div GroupBits), j)
<1> DEFINE q == j \div ByteBits
           g == j \div GroupBits
           i == q % 3
<1>1. /\ q \in Nat /\ i \in 0..2 /\ g \in Nat /\ q = 3 * g + i
      /\ \A n \in Nat : BitOf(DigitOf(n, ByteBits, 2 - i), ByteBits - 1 - (j % ByteBits))
                          = GroupBit(n, j)
  BY PlacedBytes DEF Placed
<1> HIDE DEF q, g, i
<1>2. /\ ByteGroup(v, g) \in Nat
      /\ DigitOf(ByteGroup(v, g), ByteBits, 2 - i) = ValueAt(v, 3 * g + i + 1)
  BY <1>1, ByteDigits
<1>3. 3 * g + i + 1 = q + 1
  BY <1>1
<1>4. QED
  BY <1>1, <1>2, <1>3 DEF StringBit, q, g

(* ... and of a string of symbols.                                         *)
LEMMA SymbolString ==
  ASSUME NEW v, Wide(v, SymbolBits), NEW j \in Nat
  PROVE  StringBit(v, SymbolBits, j) = GroupBit(SymbolGroup(v, j \div GroupBits), j)
<1> DEFINE q == j \div SymbolBits
           g == j \div GroupBits
           i == q % 4
<1>1. /\ q \in Nat /\ i \in 0..3 /\ g \in Nat /\ q = 4 * g + i
      /\ \A n \in Nat : BitOf(DigitOf(n, SymbolBits, 3 - i), SymbolBits - 1 - (j % SymbolBits))
                          = GroupBit(n, j)
  BY PlacedSymbols DEF Placed
<1> HIDE DEF q, g, i
<1>2. /\ SymbolGroup(v, g) \in Nat
      /\ DigitOf(SymbolGroup(v, g), SymbolBits, 3 - i) = ValueAt(v, 4 * g + i + 1)
  BY <1>1, SymbolDigits
<1>3. 4 * g + i + 1 = q + 1
  BY <1>1
<1>4. QED
  BY <1>1, <1>2, <1>3 DEF StringBit, q, g

-----------------------------------------------------------------------------
(* Encoding and decoding keep every bit in its place.                      *)

LEMMA WideSymbols ==
  ASSUME NEW t \in Seq(Symbol)
  PROVE  Wide(t, SymbolBits) /\ \A m \in DOMAIN t : t[m] \in 0..(2 ^ SymbolBits - 1)
<1>1. SymbolValues \in Nat \ {0} /\ SymbolValues = 2 ^ SymbolBits
  BY Values DEF SymbolValues
<1>2. ASSUME NEW m \in DOMAIN t PROVE t[m] \in Symbol
  BY <1>2
<1>3. QED
  BY <1>1, <1>2 DEF Wide, ValueAt, Symbol

(* Digits have the width of their base.                                    *)
LEMMA DigitWidth ==
  ASSUME NEW n \in Nat, NEW w \in Nat, NEW k \in Nat
  PROVE  DigitOf(n, w, k) \in Nat /\ DigitOf(n, w, k) < 2 ^ w
<1> DEFINE P == 2 ^ w
           Q == 2 ^ (w * k)
<1>1. P \in Nat \ {0} /\ Q \in Nat \ {0}
  <2>1. w * k \in Nat
    OBVIOUS
  <2>2. QED
    BY <2>1, PowerType
<1> HIDE DEF P, Q
<1>2. n \div Q \in Nat
  BY <1>1, Division
<1>3. (n \div Q) % P \in Nat /\ (n \div Q) % P < P
  BY <1>1, <1>2, Division
<1>4. QED
  BY <1>3 DEF DigitOf, P, Q

LEMMA BytesAre ==
  ASSUME NEW t \in Seq(Nat), Wide(t, SymbolBits)
  PROVE  LET n == (Len(t) * 3) \div 4
         IN  /\ n \in Nat /\ Bytes(t) \in Seq(Nat) /\ Len(Bytes(t)) = n
             /\ DOMAIN Bytes(t) = 1..n
             /\ \A m \in 1..n : Bytes(t)[m]
                  = DigitOf(SymbolGroup(t, (m - 1) \div 3), ByteBits, 2 - ((m - 1) % 3))
             /\ Wide(Bytes(t), ByteBits)
<1> DEFINE n == (Len(t) * 3) \div 4
           digit(m) == DigitOf(SymbolGroup(t, (m - 1) \div 3), ByteBits, 2 - ((m - 1) % 3))
<1>1. n \in Nat
  BY LenProperties
<1>2. Bytes(t) = [m \in 1..n |-> digit(m)]
  BY DEF Bytes, DigitOf, ByteValues
<1>3. ASSUME NEW m \in 1..n PROVE digit(m) \in Nat /\ digit(m) < 2 ^ ByteBits
  <2>1. (m - 1) \div 3 \in Nat /\ 2 - ((m - 1) % 3) \in Nat
    BY <1>1
  <2>2. SymbolGroup(t, (m - 1) \div 3) \in Nat
    <3>1. 0 \in 0..3
      OBVIOUS
    <3>2. QED
      BY <2>1, <3>1, SymbolDigits
  <2>3. QED
    BY <2>1, <2>2, Values, DigitWidth
<1> HIDE DEF n, digit
<1>4. Bytes(t) \in Seq(Nat) /\ Len(Bytes(t)) = n /\ DOMAIN Bytes(t) = 1..n
  BY <1>1, <1>2, <1>3
<1>5. Wide(Bytes(t), ByteBits)
  <2>1. 2 ^ ByteBits \in Nat \ {0}
    BY Values, PowerType
  <2>2. QED
    BY <1>2, <1>3, <2>1 DEF Wide, ValueAt
<1>6. QED
  BY <1>1, <1>2, <1>4, <1>5 DEF n, digit

LEMMA EncodeIs ==
  ASSUME NEW b \in Seq(Nat), Wide(b, ByteBits)
  PROVE  LET n == Len(b) + (Len(b) + 2) \div 3
         IN  /\ n \in Nat /\ DOMAIN Encode(b) = 1..n
             /\ Encode(b) = [m \in 1..n |-> Encode(b)[m]]
             /\ \A m \in 1..n : Encode(b)[m]
                  = DigitOf(ByteGroup(b, (m - 1) \div 4), SymbolBits, 3 - ((m - 1) % 4))
             /\ \A m \in 1..n : Encode(b)[m] \in 0..(2 ^ SymbolBits - 1)
<1> DEFINE n == Len(b) + (Len(b) + 2) \div 3
           digit(m) == DigitOf(ByteGroup(b, (m - 1) \div 4), SymbolBits, 3 - ((m - 1) % 4))
<1>1. n \in Nat
  BY LenProperties
<1>2. Encode(b) = [m \in 1..n |-> digit(m)]
  BY DEF Encode, DigitOf, SymbolValues
<1>3. ASSUME NEW m \in 1..n PROVE digit(m) \in 0..(2 ^ SymbolBits - 1)
  <2>1. (m - 1) \div 4 \in Nat /\ 3 - ((m - 1) % 4) \in Nat
    BY <1>1
  <2>2. ByteGroup(b, (m - 1) \div 4) \in Nat
    <3>1. 0 \in 0..2
      OBVIOUS
    <3>2. QED
      BY <2>1, <3>1, ByteDigits
  <2>3. digit(m) \in Nat /\ digit(m) < 2 ^ SymbolBits
    BY <2>1, <2>2, Values, DigitWidth
  <2>4. 2 ^ SymbolBits \in Nat \ {0}
    BY Values, PowerType
  <2> HIDE DEF digit
  <2>5. QED
    BY <2>3, <2>4
<1> HIDE DEF n, digit
<1>4. QED
  BY <1>1, <1>2, <1>3 DEF n, digit

LEMMA DecodedString ==
  ASSUME NEW t \in Seq(Nat), Wide(t, SymbolBits), NEW j \in Nat,
         j \div ByteBits + 1 \in DOMAIN Bytes(t)
  PROVE  StringBit(Bytes(t), ByteBits, j) = StringBit(t, SymbolBits, j)
<1> DEFINE q == j \div ByteBits
           g == j \div GroupBits
           i == q % 3
<1>1. /\ q \in Nat /\ g \in Nat /\ g = q \div 3
      /\ \A n \in Nat : BitOf(DigitOf(n, ByteBits, 2 - i), ByteBits - 1 - (j % ByteBits))
                          = GroupBit(n, j)
  BY PlacedBytes DEF Placed
<1>2. ValueAt(Bytes(t), q + 1) = DigitOf(SymbolGroup(t, g), ByteBits, 2 - i)
  <2> HIDE DEF q
  <2>1. q + 1 \in DOMAIN Bytes(t) /\ (q + 1) - 1 = q
    BY <1>1 DEF q
  <2> HIDE DEF g
  <2>2. QED
    BY <1>1, <2>1, BytesAre DEF ValueAt
<1>3. SymbolGroup(t, g) \in Nat
  <2>1. 0 \in 0..3
    OBVIOUS
  <2> HIDE DEF g
  <2>2. QED
    BY <1>1, <2>1, SymbolDigits
<1>4. StringBit(Bytes(t), ByteBits, j) = GroupBit(SymbolGroup(t, g), j)
  <2> HIDE DEF g, i
  <2>1. QED
    BY <1>1, <1>2, <1>3 DEF StringBit, q
<1>5. QED
  BY <1>4, SymbolString

LEMMA EncodedString ==
  ASSUME NEW b \in Seq(Nat), Wide(b, ByteBits), NEW j \in Nat,
         j \div SymbolBits + 1 \in DOMAIN Encode(b)
  PROVE  StringBit(Encode(b), SymbolBits, j) = StringBit(b, ByteBits, j)
<1> DEFINE q == j \div SymbolBits
           g == j \div GroupBits
           i == q % 4
<1>1. /\ q \in Nat /\ g \in Nat /\ g = q \div 4
      /\ \A n \in Nat : BitOf(DigitOf(n, SymbolBits, 3 - i), SymbolBits - 1 - (j % SymbolBits))
                          = GroupBit(n, j)
  BY PlacedSymbols DEF Placed
<1>2. ValueAt(Encode(b), q + 1) = DigitOf(ByteGroup(b, g), SymbolBits, 3 - i)
  <2> HIDE DEF q
  <2>1. q + 1 \in DOMAIN Encode(b) /\ (q + 1) - 1 = q
    BY <1>1 DEF q
  <2> HIDE DEF g
  <2>2. QED
    BY <1>1, <2>1, EncodeIs DEF ValueAt
<1>3. ByteGroup(b, g) \in Nat
  <2>1. 0 \in 0..2
    OBVIOUS
  <2> HIDE DEF g
  <2>2. QED
    BY <1>1, <2>1, ByteDigits
<1>4. StringBit(Encode(b), SymbolBits, j) = GroupBit(ByteGroup(b, g), j)
  <2> HIDE DEF g, i
  <2>1. QED
    BY <1>1, <1>2, <1>3 DEF StringBit, q
<1>5. QED
  BY <1>4, ByteString

-----------------------------------------------------------------------------
(* Lengths.                                                                *)

LEMMA Lengths ==
  ASSUME NEW L \in Nat, NEW n, n = (L * 3) \div 4
  PROVE  /\ n \in Nat
         /\ (SymbolBits * L) \div ByteBits = n
         /\ SymbolBits * L - ByteBits * n = Unit * ((L * 3) % 4)
         /\ L % 4 # 1 => /\ n + (n + 2) \div 3 = L
                         /\ SymbolBits * L - ByteBits * n < SymbolBits
         /\ L % 4 = 1 => SymbolBits * L - ByteBits * n >= SymbolBits
<1>1. Unit \in Nat \ {0} /\ n \in Nat /\ L * 3 \in Nat
  BY Values
<1>2. SymbolBits * L = Unit * (L * 3) + 0 /\ ByteBits = Unit * 4
  BY <1>1 DEF SymbolBits, ByteBits
<1>3. (SymbolBits * L) \div ByteBits = n
  <2> DEFINE x == SymbolBits * L
             y == L * 3
  <2>1. x = Unit * y + 0 /\ y \in Nat /\ x \in Nat
    BY <1>1, <1>2
  <2>2. n = y \div 4
    OBVIOUS
  <2> HIDE DEF x, y
  <2>3. x \div Unit = y
    BY <1>1, <2>1, DivisionIs
  <2>4. Twice(x, Unit, 4)
    BY <1>1, <2>1, DivisionTwice
  <2>5. QED
    BY <1>2, <2>2, <2>3, <2>4 DEF Twice, x
<1>4. L * 3 = 4 * n + ((L * 3) % 4)
  BY <1>1
<1>5. SymbolBits * L - ByteBits * n = Unit * ((L * 3) % 4)
  <2> DEFINE r == (L * 3) % 4
  <2>1. r \in Nat
    BY <1>1
  <2> HIDE DEF r
  <2>2. L * 3 = 4 * n + r
    BY <1>4 DEF r
  <2>3. Unit * (L * 3) = Unit * (4 * n) + Unit * r
    BY <1>1, <2>1, <2>2
  <2>4. Unit * (4 * n) = (Unit * 4) * n /\ (Unit * 4) * n \in Nat /\ Unit * r \in Nat
    BY <1>1, <2>1
  <2>5. QED
    BY <1>2, <2>3, <2>4 DEF r
<1>6. ASSUME L % 4 # 1
      PROVE  n + (n + 2) \div 3 = L /\ (L * 3) % 4 \in 0..2
  BY <1>6
<1>7. ASSUME L % 4 = 1 PROVE (L * 3) % 4 = 3
  BY <1>7
<1>8. \A r \in 0..2 : Unit * r < Unit * 3
  BY <1>1
<1>9. SymbolBits = Unit * 3
  BY <1>1 DEF SymbolBits
<1>10. L % 4 # 1 => Unit * ((L * 3) % 4) < SymbolBits
  BY <1>6, <1>8, <1>9
<1>11. L % 4 = 1 => Unit * ((L * 3) % 4) >= SymbolBits
  BY <1>1, <1>7, <1>9
<1>12. QED
  BY <1>1, <1>3, <1>5, <1>6, <1>10, <1>11

(* Bits as the reference counts them, from 1.                              *)
LEMMA BitAt ==
  ASSUME NEW v, NEW w \in Nat \ {0}, NEW k \in Nat \ {0},
         (k - 1) \div w + 1 \in DOMAIN v
  PROVE  Bit(v, w, k) = StringBit(v, w, k - 1)
BY DEF Bit, StringBit, ValueAt, BitOf

(* Beyond the end there are zeros.                                         *)
LEMMA BitBeyond ==
  ASSUME NEW b \in Seq(Nat), NEW w \in Nat \ {0}, NEW j \in Nat, j >= w * Len(b)
  PROVE  StringBit(b, w, j) = 0
<1> DEFINE q == j \div w
           c == w - 1 - (j % w)
<1>1. /\ q \in Nat /\ j % w \in Nat /\ j % w < w /\ j = w * q + (j % w)
      /\ Len(b) \in Nat
  BY Division, LenProperties
<1>2. c \in Nat
  BY <1>1
<1>3. q >= Len(b)
  <2> DEFINE r == j % w
             n == Len(b)
  <2> HIDE DEF r, n, q
  <2>1. w * n <= w * q + r /\ r < w /\ n \in Nat /\ q \in Nat /\ r \in Nat
    BY <1>1 DEF r, n
  <2>2. n > q => w * n >= w * q + w
    BY <2>1
  <2>3. QED
    BY <2>1, <2>2 DEF n
<1>4. ValueAt(b, q + 1) = 0
  BY <1>1, <1>3 DEF ValueAt
<1>5. BitOf(0, c) = 0
  <2>1. 2 ^ c \in Nat \ {0}
    BY <1>2, PowerType
  <2> DEFINE P == 2 ^ c
  <2> HIDE DEF P
  <2>2. P \in Nat \ {0} => (0 \div P) % 2 = 0
    OBVIOUS
  <2>3. QED
    BY <2>1, <2>2 DEF BitOf, P
<1>6. QED
  BY <1>4, <1>5 DEF StringBit

-----------------------------------------------------------------------------
(* What is accepted is text that encode would have written.                *)
LEMMA Accepted ==
  ASSUME NEW t \in Seq(Character), Decode(t) # Refused
  PROVE  /\ t \in Seq(Symbol) /\ t \in Seq(Nat) /\ Wide(t, SymbolBits)
         /\ Decode(t) = Bytes(t) /\ Bytes(t) \in Seq(Nat) /\ Wide(Bytes(t), ByteBits)
         /\ Encode(Bytes(t)) = t /\ Len(t) % 4 # 1
<1>1. Decode(t) = DecodeAny(t) /\ Encode(Decode(t)) = t /\ DecodeAny(t) # Refused
  BY DEF Decode
<1>2. /\ DecodeAny(t) = Bytes(t)
      /\ Len(t) % 4 # 1 /\ \A m \in DOMAIN t : t[m] # Foreign
  BY <1>1 DEF DecodeAny
<1>3. t \in Seq(Symbol)
  <2>1. \A m \in DOMAIN t : t[m] \in Symbol
    BY <1>2 DEF Character
  <2>2. QED
    BY <2>1
<1>4. t \in Seq(Nat)
  <2>1. \A x \in Symbol : x \in Nat
    BY Values DEF Symbol
  <2>2. QED
    BY <1>3, <2>1
<1>5. Wide(t, SymbolBits)
  BY <1>3, WideSymbols
<1>6. Bytes(t) \in Seq(Nat) /\ Wide(Bytes(t), ByteBits)
  BY <1>4, <1>5, BytesAre
<1>7. QED
  BY <1>1, <1>2, <1>3, <1>4, <1>5, <1>6

(* The whole bytes of a text are as many as it decodes to.                 *)
LEMMA WholeBytesAre ==
  ASSUME text \in Seq(Nat)
  PROVE  LET n == (Len(text) * 3) \div 4
         IN  WholeBytes = n /\ n \in Nat /\ Len(text) \in Nat
BY Lengths, LenProperties DEF WholeBytes, TextBits

LEMMA AcceptedIsCanonical ==
  ASSUME text \in Seq(Character)
  PROVE  AcceptedAsWritten
<1> SUFFICES ASSUME Decode(text) # Refused
             PROVE  /\ Canonical
                    /\ Len(Decode(text)) = WholeBytes
                    /\ \A k \in 1..(ByteBits * WholeBytes) :
                         Bit(Decode(text), ByteBits, k) = Bit(text, SymbolBits, k)
  BY DEF AcceptedAsWritten
<1> DEFINE b == Bytes(text)
           n == (Len(text) * 3) \div 4
           L == Len(text)
<1>1. /\ text \in Seq(Symbol) /\ text \in Seq(Nat) /\ Wide(text, SymbolBits)
      /\ Decode(text) = b /\ b \in Seq(Nat) /\ Wide(b, ByteBits)
      /\ Encode(b) = text /\ L % 4 # 1
  BY Accepted
<1>2. WholeBytes = n /\ n \in Nat /\ L \in Nat /\ TextBits = SymbolBits * L
  BY <1>1, WholeBytesAre DEF TextBits
<1>3. Len(b) = n /\ DOMAIN b = 1..n /\ DOMAIN text = 1..L
  BY <1>1, BytesAre, LenProperties
<1>4. ByteBits \in Nat \ {0} /\ SymbolBits \in Nat \ {0}
  BY Values
<1>5. SymbolBits * L - ByteBits * n < SymbolBits /\ SymbolBits * L - ByteBits * n \in Nat
  <2>1. /\ SymbolBits * L - ByteBits * n = Unit * ((L * 3) % 4)
        /\ SymbolBits * L - ByteBits * n < SymbolBits
    BY <1>1, <1>2, Lengths
  <2>2. Unit * ((L * 3) % 4) \in Nat
    BY <1>2, WireAssumption
  <2>3. QED
    BY <2>1, <2>2
<1> HIDE DEF b, n, L
<1>6. \A j \in Nat : j < ByteBits * n => j \div ByteBits + 1 \in DOMAIN b
  <2> TAKE j \in Nat
  <2> HAVE j < ByteBits * n
  <2> DEFINE q == j \div ByteBits
  <2>1. q \in Nat /\ ByteBits * q <= j
    BY <1>4, Division
  <2> HIDE DEF q
  <2>2. q < n
    BY <1>2, <1>4, <2>1
  <2>3. QED
    BY <1>2, <1>3, <2>1, <2>2 DEF q
<1>7. \A j \in Nat : j < SymbolBits * L => j \div SymbolBits + 1 \in DOMAIN text
  <2> TAKE j \in Nat
  <2> HAVE j < SymbolBits * L
  <2> DEFINE q == j \div SymbolBits
  <2>1. q \in Nat /\ SymbolBits * q <= j
    BY <1>4, Division
  <2> HIDE DEF q
  <2>2. q < L
    BY <1>2, <1>4, <2>1
  <2>3. QED
    BY <1>2, <1>3, <2>1, <2>2 DEF q
<1>8. ASSUME NEW k \in 1..(ByteBits * n)
      PROVE  Bit(b, ByteBits, k) = Bit(text, SymbolBits, k)
  <2> DEFINE j == k - 1
  <2>1. /\ j \in Nat /\ j < ByteBits * n /\ k \in Nat \ {0}
        /\ j < SymbolBits * L
    BY <1>2, <1>4, <1>5
  <2>2. Bit(b, ByteBits, k) = StringBit(b, ByteBits, j)
    BY <1>4, <1>6, <2>1, BitAt
  <2>3. Bit(text, SymbolBits, k) = StringBit(text, SymbolBits, j)
    BY <1>4, <1>7, <2>1, BitAt
  <2>4. StringBit(b, ByteBits, j) = StringBit(text, SymbolBits, j)
    BY <1>1, <1>6, <2>1, DecodedString DEF b
  <2>5. QED
    BY <2>2, <2>3, <2>4
<1>9. ASSUME NEW k \in (ByteBits * n + 1)..(SymbolBits * L)
      PROVE  Bit(text, SymbolBits, k) = 0
  <2> DEFINE j == k - 1
  <2>1. /\ j \in Nat /\ j >= ByteBits * n /\ k \in Nat \ {0}
        /\ j < SymbolBits * L
    BY <1>2, <1>4, <1>5
  <2>2. Bit(text, SymbolBits, k) = StringBit(text, SymbolBits, j)
    BY <1>4, <1>7, <2>1, BitAt
  <2>3. StringBit(text, SymbolBits, j) = StringBit(b, ByteBits, j)
    BY <1>1, <1>7, <2>1, EncodedString
  <2>4. StringBit(b, ByteBits, j) = 0
    BY <1>1, <1>3, <1>4, <2>1, BitBeyond
  <2>5. QED
    BY <2>2, <2>3, <2>4
<1>10. Canonical
  BY <1>1, <1>2, <1>5, <1>9 DEF Canonical, Unused
<1>11. QED
  BY <1>1, <1>2, <1>3, <1>8, <1>10

LEMMA CanonicalIsAccepted ==
  ASSUME text \in Seq(Character), Canonical
  PROVE  Decode(text) # Refused
<1> DEFINE b == Bytes(text)
           n == (Len(text) * 3) \div 4
           L == Len(text)
<1>1. text \in Seq(Symbol)
  BY DEF Canonical
<1>2. text \in Seq(Nat) /\ \A m \in DOMAIN text : text[m] # Foreign
  <2>1. \A x \in Symbol : x \in Nat /\ x # Foreign
    BY Values DEF Symbol, Foreign
  <2>2. QED
    BY <1>1, <2>1
<1>3. Wide(text, SymbolBits) /\ \A m \in DOMAIN text : text[m] \in 0..(2 ^ SymbolBits - 1)
  BY <1>1, WideSymbols
<1>4. b \in Seq(Nat) /\ Wide(b, ByteBits) /\ Len(b) = n /\ DOMAIN b = 1..n
  BY <1>2, <1>3, BytesAre
<1>5. WholeBytes = n /\ n \in Nat /\ L \in Nat /\ TextBits = SymbolBits * L
  BY <1>2, WholeBytesAre DEF TextBits
<1>6. ByteBits \in Nat \ {0} /\ SymbolBits \in Nat \ {0}
  BY Values
<1>7. L % 4 # 1
  <2>1. SymbolBits * L - ByteBits * n < SymbolBits
    BY <1>5 DEF Canonical
  <2> DEFINE d == SymbolBits * L - ByteBits * n
  <2>2. d \in Int
    BY <1>5, <1>6
  <2>3. L % 4 = 1 => d >= SymbolBits
    BY <1>5, Lengths
  <2>4. d < SymbolBits
    BY <2>1
  <2> HIDE DEF d
  <2>5. QED
    BY <1>6, <2>2, <2>3, <2>4
<1>8. n + (n + 2) \div 3 = L
  BY <1>5, <1>7, Lengths
<1>9. DecodeAny(text) = b
  BY <1>2, <1>7 DEF DecodeAny
<1>10. DOMAIN text = 1..L /\ text = [m \in 1..L |-> text[m]]
  BY <1>2, LenProperties
<1> DEFINE e == Encode(b)
<1>11. /\ DOMAIN e = 1..L /\ e = [m \in 1..L |-> e[m]]
       /\ \A m \in 1..L : e[m] \in 0..(2 ^ SymbolBits - 1)
  <2> HIDE DEF b, n, L, e
  <2>1. Len(b) + (Len(b) + 2) \div 3 = L
    BY <1>4, <1>8
  <2>2. QED
    BY <1>4, <2>1, EncodeIs DEF e
<1> HIDE DEF n, L
<1>12. \A j \in Nat : j < ByteBits * n => j \div ByteBits + 1 \in DOMAIN b
  <2> TAKE j \in Nat
  <2> HAVE j < ByteBits * n
  <2> DEFINE q == j \div ByteBits
  <2>1. q \in Nat /\ ByteBits * q <= j
    BY <1>6, Division
  <2> HIDE DEF q
  <2>2. q < n
    BY <1>5, <1>6, <2>1
  <2>3. QED
    BY <1>4, <1>5, <2>1, <2>2 DEF q
<1>13. ASSUME NEW j \in Nat, j < SymbolBits * L, j \div SymbolBits + 1 \in 1..L
       PROVE  StringBit(e, SymbolBits, j) = StringBit(text, SymbolBits, j)
  <2>1. StringBit(e, SymbolBits, j) = StringBit(b, ByteBits, j)
    <3> HIDE DEF b
    <3>1. j \div SymbolBits + 1 \in DOMAIN Encode(b)
      BY <1>11, <1>13
    <3>2. QED
      BY <1>4, <3>1, EncodedString
  <2>2. CASE j < ByteBits * n
    <3>1. StringBit(b, ByteBits, j) = StringBit(text, SymbolBits, j)
      BY <1>2, <1>3, <1>12, <2>2, DecodedString
    <3>2. QED
      BY <2>1, <3>1
  <2>3. CASE ~ (j < ByteBits * n)
    <3>1. j >= ByteBits * n
      BY <1>5, <1>6, <2>3
    <3>2. StringBit(b, ByteBits, j) = 0
      <4> HIDE DEF b
      <4>1. QED
        BY <1>4, <1>6, <3>1, BitBeyond
    <3>3. j + 1 \in Unused /\ j + 1 \in Nat \ {0} /\ (j + 1) - 1 = j
      BY <1>5, <1>6, <1>13, <3>1 DEF Unused
    <3>4. Bit(text, SymbolBits, j + 1) = 0
      BY <3>3 DEF Canonical
    <3>5. ((j + 1) - 1) \div SymbolBits + 1 \in DOMAIN text
      BY <1>10, <1>13, <3>3
    <3>6. Bit(text, SymbolBits, j + 1) = StringBit(text, SymbolBits, j)
      BY <1>6, <3>3, <3>5, BitAt
    <3>7. QED
      BY <2>1, <3>2, <3>4, <3>6
  <2>4. QED
    BY <2>2, <2>3
<1> HIDE DEF b, e
<1>14. ASSUME NEW m \in 1..L PROVE e[m] = text[m]
  <2>1. e[m] \in 0..(2 ^ SymbolBits - 1) /\ text[m] \in 0..(2 ^ SymbolBits - 1)
    BY <1>3, <1>10, <1>11
  <2>2. ASSUME NEW c \in 0..(SymbolBits - 1) PROVE BitOf(e[m], c) = BitOf(text[m], c)
    <3> DEFINE r == SymbolBits - 1 - c
               j == SymbolBits * (m - 1) + r
    <3>1. r \in Nat /\ r < SymbolBits /\ m - 1 \in Nat /\ SymbolBits - 1 - r = c
      BY <1>5, <1>6
    <3> HIDE DEF r
    <3>2. j \in Nat /\ j \div SymbolBits = m - 1 /\ j % SymbolBits = r
      <4> DEFINE w == SymbolBits
                 q == m - 1
      <4>1. w \in Nat \ {0} /\ q \in Nat /\ r < w
        BY <1>6, <3>1
      <4> HIDE DEF w, q
      <4>2. (w * q + r) \div w = q /\ (w * q + r) % w = r /\ w * q + r \in Nat
        BY <3>1, <4>1, DivisionIs
      <4>3. QED
        BY <4>2 DEF w, q
    <3>3. j < SymbolBits * L
      <4>1. SymbolBits * (m - 1) + SymbolBits <= SymbolBits * L
        BY <1>5, <1>6, <3>1
      <4>2. QED
        BY <1>5, <1>6, <3>1, <4>1
    <3> HIDE DEF j
    <3>4. (m - 1) + 1 = m
      BY <3>1
    <3>5. StringBit(e, SymbolBits, j) = StringBit(text, SymbolBits, j)
      BY <1>13, <3>2, <3>3, <3>4
    <3>6. /\ StringBit(e, SymbolBits, j) = BitOf(e[m], c)
          /\ StringBit(text, SymbolBits, j) = BitOf(text[m], c)
      BY <1>10, <1>11, <3>1, <3>2, <3>4 DEF StringBit, ValueAt
    <3>7. QED
      BY <3>5, <3>6
  <2>3. QED
    BY <1>6, <2>1, <2>2, BitsDetermine
<1>15. e = text
  BY <1>10, <1>11, <1>14
<1>16. b # Refused
  BY <1>4, WireAssumption
<1>17. QED
  BY <1>9, <1>15, <1>16 DEF Decode, e

-----------------------------------------------------------------------------
(* The invariant: what is filed reads as a key.                            *)

Inv ==
  /\ TypeOK
  /\ \A filed \in store : filed \in Seq(Character) /\ Key(filed) # Refused

LEMMA KeyIs ==
  ASSUME NEW t, Key(t) # Refused
  PROVE  Key(t) = Decode(t) /\ Decode(t) # Refused /\ Len(Decode(t)) = KeyLength
<1>1. ReadBytes(Field(t)) = Decode(t)
  BY DEF ReadBytes, Field
<1>2. QED
  BY <1>1 DEF Key, ReadArray32

(* A key has the length of its encoding.                                   *)
LEMMA KeyText ==
  ASSUME NEW t \in Seq(Character), Key(t) # Refused
  PROVE  t \in [1..(KeyLength + (KeyLength + 2) \div 3) -> Symbol]
<1>1. Decode(t) # Refused /\ Len(Decode(t)) = KeyLength
  BY KeyIs
<1>2. /\ t \in Seq(Symbol) /\ Decode(t) = Bytes(t)
      /\ Bytes(t) \in Seq(Nat) /\ Wide(Bytes(t), ByteBits) /\ Encode(Bytes(t)) = t
  BY <1>1, Accepted
<1>3. DOMAIN t = 1..(KeyLength + (KeyLength + 2) \div 3)
  BY <1>1, <1>2, EncodeIs
<1>4. \A m \in DOMAIN t : t[m] \in Symbol
  BY <1>2
<1>5. t = [m \in DOMAIN t |-> t[m]]
  BY <1>2
<1>6. QED
  BY <1>3, <1>4, <1>5

LEMMA InvInit == Init => Inv
  BY WireAssumption DEF Init, Inv, TypeOK

LEMMA InvStep == Inv /\ [Next]_vars => Inv'
<1> SUFFICES ASSUME Inv, [Next]_vars PROVE Inv'
  OBVIOUS
<1>1. text \in Seq(Character) /\ Len(text) <= MaxText
  BY DEF Inv, TypeOK
<1>2. ASSUME NEW c \in Character, Receive(c) PROVE Inv'
  <2>1. text' \in Seq(Character) /\ Len(text') = Len(text) + 1
    BY <1>1, <1>2, AppendProperties DEF Receive
  <2>2. Len(text') <= MaxText
    BY <1>1, <1>2, <2>1, WireAssumption, LenProperties DEF Receive
  <2>3. QED
    BY <1>2, <2>1, <2>2 DEF Receive, Inv, TypeOK
<1>3. CASE FileRevoked
  <2>1. text \in [1..(KeyLength + (KeyLength + 2) \div 3) -> Symbol]
    BY <1>1, <1>3, KeyText DEF FileRevoked
  <2>2. TypeOK'
    BY <1>3, <2>1, WireAssumption DEF FileRevoked, Inv, TypeOK
  <2>3. \A filed \in store' : filed \in Seq(Character) /\ Key(filed) # Refused
    BY <1>1, <1>3 DEF FileRevoked, Inv
  <2>4. QED
    BY <2>2, <2>3 DEF Inv
<1>4. CASE NextField
  BY <1>4, WireAssumption DEF NextField, Inv, TypeOK
<1>5. CASE UNCHANGED vars
  BY <1>5 DEF vars, Inv, TypeOK
<1>6. QED
  BY <1>2, <1>3, <1>4, <1>5 DEF Next

LEMMA AlwaysInv == Spec => []Inv
  BY InvInit, InvStep, PTL DEF Spec

(* The types of the variables: what is filed has the length of a key's     *)
(* encoding and is made of symbols (Wire): TypeOK.                         *)
THEOREM TypeCorrect == Spec => []TypeOK
<1>1. Inv => TypeOK
  BY DEF Inv
<1>2. QED
  BY <1>1, AlwaysInv, PTL

(* What is accepted is the canonical spelling of the bytes it is read as,  *)
(* bit for bit (b64.rs:9-11): AcceptedAsWritten.                           *)
THEOREM AcceptanceIsCanonical == Spec => []AcceptedAsWritten
<1>1. Inv => AcceptedAsWritten
  BY AcceptedIsCanonical DEF Inv, TypeOK
<1>2. QED
  BY <1>1, AlwaysInv, PTL

(* Nothing canonical is refused, whatever its length (b64.rs:44-49):       *)
(* CanonicalAccepted.                                                      *)
THEOREM CanonicalIsRead == Spec => []CanonicalAccepted
<1>1. Inv => CanonicalAccepted
  BY CanonicalIsAccepted DEF Inv, TypeOK, CanonicalAccepted
<1>2. QED
  BY <1>1, AlwaysInv, PTL

(* A revoked key does not come back under another spelling, past a store   *)
(* that compares text (b64.rs:11-14): NoSecondSpelling.                    *)
THEOREM OneSpelling == Spec => []NoSecondSpelling
<1>1. ASSUME Inv PROVE NoSecondSpelling
  <2> SUFFICES ASSUME NEW filed \in store, text # filed
               PROVE  /\ Key(text) # Key(filed)
                      /\ ReadOption(Field(text)) # ReadOption(Field(filed))
                      /\ ReadAll(<<Field(text)>>) # ReadAll(<<Field(filed)>>)
    BY DEF NoSecondSpelling
  <2>1. filed \in Seq(Character) /\ text \in Seq(Character) /\ Key(filed) # Refused
    BY <1>1 DEF Inv, TypeOK
  <2>2. Key(filed) = Decode(filed) /\ Decode(filed) # Refused
    BY <2>1, KeyIs
  <2>3. Decode(text) # Decode(filed)
    <3>1. CASE Decode(text) = Refused
      BY <2>2, <3>1
    <3>2. CASE Decode(text) # Refused
      <4>1. Encode(Decode(text)) = text
        BY <3>2 DEF Decode
      <4>2. Encode(Decode(filed)) = filed
        BY <2>2 DEF Decode
      <4>3. QED
        BY <4>1, <4>2
    <3>3. QED
      BY <3>1, <3>2
  <2>4. Key(text) # Key(filed)
    BY <2>2, <2>3, KeyIs
  <2>5. Field(text) # None /\ Field(filed) # None
    <3>1. \A t \in Seq(Character) :
            Field(t) \in [shape : {"text", "array", "raw"}, value : Seq(Nat)]
      <4>1. \A x \in Character : x \in Nat
        BY Values DEF Character, Symbol, Foreign
      <4>2. QED
        BY <4>1 DEF Field
    <3>2. QED
      BY <2>1, <3>1, WireAssumption
  <2>6. ReadOption(Field(text)) # ReadOption(Field(filed))
    BY <2>4, <2>5 DEF ReadOption, Key
  <2>7. \A t \in Seq(Character) :
          ReadAll(<<Field(t)>>) = IF Decode(t) = Refused THEN Refused ELSE <<Decode(t)>>
    <3> TAKE t \in Seq(Character)
    <3> DEFINE v == <<Field(t)>>
    <3>1. ReadBytes(Field(t)) = Decode(t)
      BY DEF ReadBytes, Field
    <3>2. DOMAIN v = {1} /\ v[1] = Field(t)
      OBVIOUS
    <3> HIDE DEF v
    <3>3. (\E i \in DOMAIN v : ReadBytes(v[i]) = Refused) <=> Decode(t) = Refused
      BY <3>1, <3>2
    <3>4. [i \in DOMAIN v |-> ReadBytes(v[i])] = [i \in {1} |-> Decode(t)]
      BY <3>1, <3>2
    <3>5. [i \in {1} |-> Decode(t)] = <<Decode(t)>>
      OBVIOUS
    <3>6. QED
      BY <3>3, <3>4, <3>5 DEF ReadAll, v
  <2>8. <<Decode(filed)>> # Refused /\ <<Decode(text)>> # <<Decode(filed)>>
    <3>1. Decode(filed) \in Seq(Nat)
      BY <2>1, <2>2, Accepted
    <3>2. <<Decode(filed)>> \in Seq(Seq(Nat))
      BY <3>1
    <3>3. QED
      BY <2>3, <3>2, WireAssumption
  <2>9. ReadAll(<<Field(text)>>) # ReadAll(<<Field(filed)>>)
    BY <2>1, <2>2, <2>7, <2>8
  <2>10. QED
    BY <2>4, <2>6, <2>9
<1>2. Inv => NoSecondSpelling
  BY <1>1
<1>3. QED
  BY <1>2, AlwaysInv, PTL

=============================================================================
