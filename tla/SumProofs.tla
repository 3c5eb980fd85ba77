----------------------------- MODULE SumProofs -----------------------------
(***************************************************************************)
(* Sums over finite sets, and the laws the proofs about spending and about *)
(* granted permits need of them.                                           *)
(*                                                                         *)
(* FiniteSetsExt computes a sum by a function that picks an element, adds  *)
(* its value and goes on with the rest, whatever element CHOOSE happens to *)
(* pick.  That the order does not matter, that disjoint sums add up and    *)
(* that a smaller set has a smaller sum are facts about all finite sets;   *)
(* they are proved here by induction on the cardinality, put as the        *)
(* statement that a set of numbers is all of Nat.                          *)
(***************************************************************************)
EXTENDS Integers, FiniteSetsExt, FiniteSetTheorems, TLAPS

Pick(s) == CHOOSE x \in s : TRUE

(* it is the function that sums up v over the subsets of S.                *)
IsSum(it, v, S) ==
  it = [s \in SUBSET S |-> IF s = {} THEN 0
                                     ELSE v[Pick(s)] + it[s \ {Pick(s)}]]

SumOf(v, S) == (CHOOSE it : IsSum(it, v, S))[S]

-----------------------------------------------------------------------------
(* Induction.                                                              *)

(* A set of natural numbers with 0, and with the successor of each of its  *)
(* elements, has them all.                                                 *)
LEMMA AllOfNat ==
  ASSUME NEW A, A \subseteq Nat, 0 \in A, \A n \in A : n + 1 \in A
  PROVE  A = Nat
<1> SUFFICES ASSUME Nat \ A # {} PROVE FALSE
  OBVIOUS
<1>1. PICK n \in Nat \ A : \A m \in Nat \ A : ~(<<m, n>> \in OpToRel(<, Nat))
  <2> DEFINE Missing == Nat \ A
  <2>1. Missing \subseteq Nat /\ Missing # {}
    OBVIOUS
  <2> HIDE DEF Missing
  <2>2. \E x \in Missing : \A y \in Missing : ~(<<y, x>> \in OpToRel(<, Nat))
    BY <2>1, NatLessThanWellFounded, WFMin
  <2>3. QED
    BY <2>2 DEF Missing
<1>2. \A m \in Nat : m < n => m \in A
  BY <1>1 DEF OpToRel
<1>3. n # 0
  OBVIOUS
<1>4. n - 1 \in Nat /\ n - 1 < n /\ (n - 1) + 1 = n
  BY <1>3
<1>5. QED
  BY <1>2, <1>4

(* A finite set has a part, smaller by one, beside each of its elements.   *)
LEMMA Without ==
  ASSUME NEW S, IsFiniteSet(S), NEW x \in S
  PROVE  /\ IsFiniteSet(S \ {x}) /\ Cardinality(S) \in Nat
         /\ Cardinality(S \ {x}) = Cardinality(S) - 1
         /\ Cardinality(S) > 0
<1>1. IsFiniteSet(S \ {x}) /\ Cardinality(S \ {x}) = Cardinality(S) - 1
  BY FS_RemoveElement
<1>2. Cardinality(S) \in Nat /\ Cardinality(S) # 0
  BY FS_CardinalityType, FS_EmptySet
<1>3. QED
  BY <1>1, <1>2

LEMMA Picked == ASSUME NEW S, S # {} PROVE Pick(S) \in S
BY DEF Pick

-----------------------------------------------------------------------------
(* The summing function.                                                   *)

Small(S, n) == {s \in SUBSET S : Cardinality(s) <= n}

IsSmallSum(it, v, S, n) ==
  it = [s \in Small(S, n) |-> IF s = {} THEN 0
                                        ELSE v[Pick(s)] + it[s \ {Pick(s)}]]

(* It exists: on the sets of at most n elements, for every n.              *)
LEMMA SmallSumExists ==
  ASSUME NEW v, NEW S, IsFiniteSet(S)
  PROVE  \A n \in Nat : \E it : IsSmallSum(it, v, S, n)
<1> DEFINE A == {n \in Nat : \E it : IsSmallSum(it, v, S, n)}
<1>1. 0 \in A
  <2> DEFINE it == [s \in Small(S, 0) |-> 0]
  <2>1. \A s \in Small(S, 0) : s = {}
    <3> TAKE s \in Small(S, 0)
    <3>1. IsFiniteSet(s) /\ Cardinality(s) <= 0
      BY FS_Subset DEF Small
    <3>2. QED
      BY <3>1, FS_CardinalityType, FS_EmptySet
  <2>2. IsSmallSum(it, v, S, 0)
    BY <2>1 DEF IsSmallSum
  <2>3. QED
    BY <2>2
<1>2. ASSUME NEW n \in A PROVE n + 1 \in A
  <2>1. PICK it : IsSmallSum(it, v, S, n)
    OBVIOUS
  <2> DEFINE step(f, s) == IF s = {} THEN 0 ELSE v[Pick(s)] + f[s \ {Pick(s)}]
             jt == [s \in Small(S, n + 1) |-> step(it, s)]
  <2>2. \A s \in Small(S, n) : s \in Small(S, n + 1)
    <3> TAKE s \in Small(S, n)
    <3>1. Cardinality(s) \in Nat
      BY FS_Subset, FS_CardinalityType DEF Small
    <3>2. QED
      BY <3>1 DEF Small
  <2>3. \A s \in Small(S, n) : jt[s] = it[s]
    BY <2>1, <2>2 DEF IsSmallSum
  <2>4. ASSUME NEW s \in Small(S, n + 1), s # {}
        PROVE  s \ {Pick(s)} \in Small(S, n)
    <3>1. IsFiniteSet(s) /\ Pick(s) \in s
      BY <2>4, Picked, FS_Subset DEF Small
    <3>2. Cardinality(s) \in Nat /\ Cardinality(s \ {Pick(s)}) = Cardinality(s) - 1
      BY <3>1, Without
    <3>3. Cardinality(s \ {Pick(s)}) <= n /\ s \ {Pick(s)} \subseteq S
      BY <3>2 DEF Small
    <3>4. QED
      BY <3>3 DEF Small
  <2>5. \A s \in Small(S, n + 1) : step(it, s) = step(jt, s)
    BY <2>3, <2>4
  <2>6. jt = [s \in Small(S, n + 1) |-> step(jt, s)]
    BY <2>5
  <2>7. IsSmallSum(jt, v, S, n + 1)
    BY <2>6 DEF IsSmallSum
  <2>8. QED
    BY <2>7
<1> HIDE DEF A
<1>3. A = Nat
  <2>1. A \subseteq Nat
    BY DEF A
  <2>2. QED
    BY <1>1, <1>2, <2>1, AllOfNat
<1>4. QED
  BY <1>3 DEF A

LEMMA SumExists ==
  ASSUME NEW v, NEW S, IsFiniteSet(S)
  PROVE  IsSum(CHOOSE it : IsSum(it, v, S), v, S)
<1>1. Cardinality(S) \in Nat
  BY FS_CardinalityType
<1>2. PICK it : IsSmallSum(it, v, S, Cardinality(S))
  BY <1>1, SmallSumExists
<1>3. Small(S, Cardinality(S)) = SUBSET S
  BY FS_Subset DEF Small
<1>4. IsSum(it, v, S)
  BY <1>2, <1>3 DEF IsSum, IsSmallSum
<1>5. QED
  BY <1>4

(* Two summing functions agree where their arguments do.                   *)
LEMMA SumsAgree ==
  ASSUME NEW U, IsFiniteSet(U), NEW S, NEW T, U \subseteq S, U \subseteq T,
         NEW v, NEW w, \A x \in U : v[x] = w[x],
         NEW it, NEW jt, IsSum(it, v, S), IsSum(jt, w, T)
  PROVE  it[U] = jt[U]
<1> DEFINE A == {n \in Nat : \A s \in SUBSET U :
                               Cardinality(s) <= n => it[s] = jt[s]}
<1>0. \A s \in SUBSET U : IsFiniteSet(s) /\ Cardinality(s) \in Nat
  BY FS_Subset, FS_CardinalityType
<1>1. \A s \in SUBSET U :
        /\ it[s] = IF s = {} THEN 0 ELSE v[Pick(s)] + it[s \ {Pick(s)}]
        /\ jt[s] = IF s = {} THEN 0 ELSE w[Pick(s)] + jt[s \ {Pick(s)}]
  <2> TAKE s \in SUBSET U
  <2>1. s \in SUBSET S /\ s \in SUBSET T
    OBVIOUS
  <2>2. QED
    BY <2>1 DEF IsSum
<1>2. 0 \in A
  <2>1. \A s \in SUBSET U : Cardinality(s) <= 0 => s = {}
    BY <1>0, FS_EmptySet
  <2>2. QED
    BY <1>1, <2>1
<1>3. ASSUME NEW n \in A PROVE n + 1 \in A
  <2>1. ASSUME NEW s \in SUBSET U, Cardinality(s) <= n + 1, s # {}
        PROVE  it[s] = jt[s]
    <3>1. Pick(s) \in s
      BY <2>1, Picked
    <3>2. Cardinality(s \ {Pick(s)}) = Cardinality(s) - 1
      BY <3>1, <1>0, Without
    <3>3. it[s \ {Pick(s)}] = jt[s \ {Pick(s)}]
      <4>1. s \ {Pick(s)} \in SUBSET U /\ Cardinality(s \ {Pick(s)}) <= n
        BY <3>2, <1>0, <2>1
      <4>2. QED
        BY <4>1
    <3>4. v[Pick(s)] = w[Pick(s)]
      BY <3>1
    <3>5. QED
      BY <1>1, <2>1, <3>3, <3>4
  <2>2. \A s \in SUBSET U : Cardinality(s) <= n + 1 => it[s] = jt[s]
    BY <2>1, <1>1
  <2>3. n + 1 \in Nat
    OBVIOUS
  <2>4. QED
    BY <2>2, <2>3
<1> HIDE DEF A
<1>4. A = Nat
  <2>1. A \subseteq Nat
    BY DEF A
  <2>2. QED
    BY <1>2, <1>3, <2>1, AllOfNat
<1>5. U \in SUBSET U /\ Cardinality(U) \in Nat /\ Cardinality(U) <= Cardinality(U)
  BY <1>0
<1>6. QED
  BY <1>4, <1>5 DEF A

(* The summing function may take the elements in any order.                *)
LEMMA AnyElementFirst ==
  ASSUME NEW S, IsFiniteSet(S), NEW v, \A x \in S : v[x] \in Nat,
         NEW it, IsSum(it, v, S)
  PROVE  \A s \in SUBSET S : /\ it[s] \in Nat
                             /\ \A x \in s : it[s] = v[x] + it[s \ {x}]
<1> DEFINE Ok(s) == /\ it[s] \in Nat
                    /\ \A x \in s : it[s] = v[x] + it[s \ {x}]
           A == {n \in Nat : \A s \in SUBSET S : Cardinality(s) <= n => Ok(s)}
<1>0. \A s \in SUBSET S : IsFiniteSet(s) /\ Cardinality(s) \in Nat
  BY FS_Subset, FS_CardinalityType
<1>1. \A s \in SUBSET S :
        it[s] = IF s = {} THEN 0 ELSE v[Pick(s)] + it[s \ {Pick(s)}]
  BY DEF IsSum
<1>2. 0 \in A
  <2>1. \A s \in SUBSET S : Cardinality(s) <= 0 => s = {}
    BY <1>0, FS_EmptySet
  <2>2. Ok({})
    <3>1. {} \in SUBSET S
      OBVIOUS
    <3>2. it[{}] = 0
      BY <1>1, <3>1
    <3>3. QED
      BY <3>2
  <2>3. QED
    BY <2>1, <2>2
<1>3. ASSUME NEW n \in A PROVE n + 1 \in A
  <2>1. ASSUME NEW s \in SUBSET S, Cardinality(s) <= n + 1, s # {}
        PROVE  Ok(s)
    <3> DEFINE p == Pick(s)
    <3>1. p \in s
      BY <2>1, Picked
    <3>2. \A x \in s : s \ {x} \in SUBSET S /\ Cardinality(s \ {x}) <= n
      BY <1>0, <2>1, Without
    <3> HIDE DEF p
    <3>3. \A x \in s : Ok(s \ {x})
      BY <3>2
    <3>4. it[s] = v[p] + it[s \ {p}]
      BY <1>1, <2>1 DEF p
    <3>5. it[s] \in Nat
      BY <3>1, <3>3, <3>4
    <3>6. ASSUME NEW x \in s, x # p PROVE it[s] = v[x] + it[s \ {x}]
      <4>1. it[s \ {p}] = v[x] + it[(s \ {p}) \ {x}]
        BY <3>1, <3>3, <3>6
      <4>2. it[s \ {x}] = v[p] + it[(s \ {x}) \ {p}]
        BY <3>1, <3>3, <3>6
      <4>3. (s \ {p}) \ {x} = (s \ {x}) \ {p}
        OBVIOUS
      <4>4. (s \ {x}) \ {p} \in SUBSET S /\ Cardinality((s \ {x}) \ {p}) <= n
        <5>1. p \in s \ {x} /\ IsFiniteSet(s \ {x})
          BY <3>1, <3>2, <3>6, <1>0
        <5>2. Cardinality((s \ {x}) \ {p}) = Cardinality(s \ {x}) - 1
          BY <5>1, Without
        <5>3. Cardinality(s \ {x}) \in Nat /\ Cardinality(s \ {x}) <= n
          BY <3>2, <1>0
        <5>4. QED
          BY <5>2, <5>3
      <4>5. it[(s \ {x}) \ {p}] \in Nat
        BY <4>4
      <4>6. v[x] \in Nat /\ v[p] \in Nat
        BY <3>1, <3>6
      <4> DEFINE r == it[(s \ {x}) \ {p}]
      <4>7. it[s] = v[p] + (v[x] + r) /\ it[s \ {x}] = v[p] + r
        BY <3>4, <4>1, <4>2, <4>3
      <4> HIDE DEF r
      <4>8. r \in Nat
        BY <4>5 DEF r
      <4>9. v[p] + (v[x] + r) = v[x] + (v[p] + r)
        BY <4>6, <4>8
      <4>10. QED
        BY <4>7, <4>9
    <3>7. QED
      BY <3>4, <3>5, <3>6
  <2>2. \A s \in SUBSET S : Cardinality(s) <= n + 1 => Ok(s)
    <3>1. Ok({})
      <4>1. {} \in SUBSET S
        OBVIOUS
      <4>2. it[{}] = 0
        BY <1>1, <4>1
      <4>3. QED
        BY <4>2
    <3>2. QED
      BY <2>1, <3>1
  <2>3. QED
    BY <2>2
<1> HIDE DEF A
<1>4. A = Nat
  <2>1. A \subseteq Nat
    BY DEF A
  <2>2. QED
    BY <1>2, <1>3, <2>1, AllOfNat
<1>5. ASSUME NEW s \in SUBSET S PROVE Ok(s)
  <2>1. Cardinality(s) \in A /\ Cardinality(s) <= Cardinality(s)
    BY <1>0, <1>4
  <2>2. QED
    BY <2>1 DEF A
<1>6. QED
  BY <1>5

-----------------------------------------------------------------------------
(* The laws of sums.                                                       *)

(* The empty sum.                                                          *)
LEMMA SumEmpty == \A v : SumOf(v, {}) = 0
<1> TAKE v
<1>1. IsSum(CHOOSE it : IsSum(it, v, {}), v, {})
  BY SumExists, FS_EmptySet
<1>2. {} \in SUBSET {}
  OBVIOUS
<1>3. QED
  BY <1>1, <1>2 DEF SumOf, IsSum

(* A sum is determined by the values on its own set.                       *)
LEMMA SumSame ==
  ASSUME NEW S, IsFiniteSet(S), NEW v, NEW w, \A x \in S : v[x] = w[x]
  PROVE  SumOf(v, S) = SumOf(w, S)
BY SumExists, SumsAgree DEF SumOf

(* It is the sum over the set without one element, and that element.       *)
LEMMA SumRemove ==
  ASSUME NEW S, IsFiniteSet(S), NEW v, \A x \in S : v[x] \in Nat, NEW y \in S
  PROVE  SumOf(v, S) = v[y] + SumOf(v, S \ {y})
<1> DEFINE it == CHOOSE f : IsSum(f, v, S)
           jt == CHOOSE f : IsSum(f, v, S \ {y})
<1>1. IsFiniteSet(S \ {y})
  BY Without
<1>2. IsSum(it, v, S) /\ IsSum(jt, v, S \ {y})
  BY <1>1, SumExists
<1> HIDE DEF it, jt
<1>3. it[S] = v[y] + it[S \ {y}]
  BY <1>2, AnyElementFirst
<1>4. it[S \ {y}] = jt[S \ {y}]
  BY <1>1, <1>2, SumsAgree
<1>5. QED
  BY <1>3, <1>4 DEF SumOf, it, jt

(* The sum of natural numbers is one.                                      *)
LEMMA SumType ==
  ASSUME NEW S, IsFiniteSet(S), NEW v, \A x \in S : v[x] \in Nat
  PROVE  SumOf(v, S) \in Nat
<1>1. IsSum(CHOOSE f : IsSum(f, v, S), v, S)
  BY SumExists
<1>2. S \in SUBSET S
  OBVIOUS
<1>3. QED
  BY <1>1, <1>2, AnyElementFirst DEF SumOf

(* A new element adds its value.                                           *)
LEMMA SumAdd ==
  ASSUME NEW S, IsFiniteSet(S), NEW v, NEW y, y \notin S,
         \A x \in S \cup {y} : v[x] \in Nat
  PROVE  SumOf(v, S \cup {y}) = SumOf(v, S) + v[y]
<1>1. IsFiniteSet(S \cup {y}) /\ (S \cup {y}) \ {y} = S /\ y \in S \cup {y}
  BY FS_AddElement
<1>2. SumOf(v, S \cup {y}) = v[y] + SumOf(v, S)
  BY <1>1, SumRemove
<1>3. SumOf(v, S) \in Nat /\ v[y] \in Nat
  BY SumType
<1>4. QED
  BY <1>2, <1>3

(* The sums over two disjoint sets add up.                                 *)
LEMMA SumSplit ==
  ASSUME NEW S, IsFiniteSet(S), NEW T, IsFiniteSet(T), S \cap T = {},
         NEW v, \A x \in S \cup T : v[x] \in Nat
  PROVE  SumOf(v, S \cup T) = SumOf(v, S) + SumOf(v, T)
<1> DEFINE Ok(s) == SumOf(v, S \cup s) = SumOf(v, S) + SumOf(v, s)
           A == {n \in Nat : \A s \in SUBSET T : Cardinality(s) <= n => Ok(s)}
<1>0. \A s \in SUBSET T : /\ IsFiniteSet(s) /\ Cardinality(s) \in Nat
                          /\ SumOf(v, s) \in Nat
  BY FS_Subset, FS_CardinalityType, SumType
<1>1. Ok({})
  <2>1. SumOf(v, S) \in Nat
    BY SumType
  <2>2. S \cup {} = S
    OBVIOUS
  <2>3. QED
    BY <2>1, <2>2, SumEmpty
<1> HIDE DEF Ok
<1>2. 0 \in A
  <2>1. \A s \in SUBSET T : Cardinality(s) <= 0 => s = {}
    BY <1>0, FS_EmptySet
  <2>2. QED
    BY <1>1, <2>1
<1>3. ASSUME NEW n \in A PROVE n + 1 \in A
  <2>1. ASSUME NEW s \in SUBSET T, Cardinality(s) <= n + 1, s # {}
        PROVE  Ok(s)
    <3>1. PICK p \in s : TRUE
      BY <2>1
    <3> DEFINE r == s \ {p}
    <3>2. IsFiniteSet(r) /\ Cardinality(r) <= n /\ r \in SUBSET T
      BY <1>0, <2>1, <3>1, Without
    <3>3. Ok(r)
      BY <3>2
    <3>4. SumOf(v, s) = v[p] + SumOf(v, r)
      BY <1>0, SumRemove
    <3>5. SumOf(v, S \cup s) = v[p] + SumOf(v, S \cup r)
      <4>1. IsFiniteSet(S \cup s)
        BY <1>0, FS_Union
      <4>2. (S \cup s) \ {p} = S \cup r /\ p \in S \cup s
        OBVIOUS
      <4>3. \A x \in S \cup s : v[x] \in Nat
        OBVIOUS
      <4>4. QED
        BY <4>1, <4>2, <4>3, SumRemove
    <3>6. v[p] \in Nat /\ SumOf(v, S) \in Nat /\ SumOf(v, r) \in Nat
      BY <1>0, <3>2, SumType
    <3> HIDE DEF r
    <3>7. QED
      BY <3>3, <3>4, <3>5, <3>6 DEF Ok
  <2>2. \A s \in SUBSET T : Cardinality(s) <= n + 1 => Ok(s)
    BY <1>1, <2>1
  <2>3. QED
    BY <2>2
<1> HIDE DEF A
<1>4. A = Nat
  <2>1. A \subseteq Nat
    BY DEF A
  <2>2. QED
    BY <1>2, <1>3, <2>1, AllOfNat
<1>5. T \in SUBSET T /\ Cardinality(T) \in A /\ Cardinality(T) <= Cardinality(T)
  BY <1>0, <1>4
<1>6. QED
  BY <1>5 DEF A, Ok

(* The sum over a part is at most that over the whole.                     *)
LEMMA SumMono ==
  ASSUME NEW T, IsFiniteSet(T), NEW S, S \subseteq T,
         NEW v, \A x \in T : v[x] \in Nat
  PROVE  SumOf(v, S) <= SumOf(v, T)
<1>1. IsFiniteSet(S) /\ IsFiniteSet(T \ S)
  BY FS_Subset
<1>2. S \cup (T \ S) = T /\ S \cap (T \ S) = {}
  OBVIOUS
<1>3. SumOf(v, T) = SumOf(v, S) + SumOf(v, T \ S)
  BY <1>1, <1>2, SumSplit
<1>4. SumOf(v, S) \in Nat /\ SumOf(v, T \ S) \in Nat
  BY <1>1, SumType
<1>5. QED
  BY <1>3, <1>4
=============================================================================
