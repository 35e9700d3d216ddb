------------------------------ MODULE DataLemmas ------------------------------
(***************************************************************************)
(* What the proofs of several components need of numbers, finite sets and  *)
(* sequences.  Induction has the form this prover can use: the statement   *)
(* to prove is a set, of the numbers or of the sets for which it holds.    *)
(***************************************************************************)
EXTENDS Integers, Sequences, SequencesExt, FiniteSets, FiniteSetTheorems,
        SequenceTheorems, WellFoundedInduction, TLAPS

(* A set of natural numbers that is not empty has a least member.           *)
LEMMA LeastNumber ==
  ASSUME NEW T, T \subseteq Nat, T # {}
  PROVE  \E x \in T : \A y \in T : x <= y
<1> DEFINE R == {p \in Nat \X Nat : p[1] < p[2]}
<1>1. IsWellFoundedOn(R, Nat)
  BY NatLessThanWellFounded DEF OpToRel
<1>2. \A x, y \in Nat : x < y => <<x, y>> \in R
  OBVIOUS
<1> HIDE DEF R
<1>3. PICK x \in T : \A y \in T : <<y, x>> \notin R
  BY <1>1, WFMin
<1>4. ASSUME NEW y \in T PROVE x <= y
  <2>1. x \in Nat /\ y \in Nat
    OBVIOUS
  <2>2. ~(y < x)
    BY <1>2, <1>3, <2>1
  <2>3. QED
    BY <2>1, <2>2
<1>5. QED
  BY <1>4

(* A set of numbers up to K that is not empty has a greatest member.        *)
LEMMA GreatestNumber ==
  ASSUME NEW K \in Nat, NEW T, T \subseteq 1 .. K, T # {}
  PROVE  Max(T) \in T /\ \A y \in T : y <= Max(T)
<1> DEFINE U == {n \in Nat : \E x \in T : n = K - x}
<1>1. PICK x \in T : TRUE
  OBVIOUS
<1>2. K - x \in U
  BY <1>1
<1>3. PICK n \in U : \A y \in U : n <= y
  <2>1. U \subseteq Nat /\ U # {}
    BY <1>2
  <2> HIDE DEF U
  <2>2. QED
    BY <2>1, LeastNumber
<1>4. PICK z \in T : n = K - z
  BY <1>3
<1>5. ASSUME NEW y \in T PROVE y <= z
  <2>1. K - y \in U
    OBVIOUS
  <2>2. n <= K - y
    BY <1>3, <2>1
  <2>3. y \in 1 .. K /\ z \in 1 .. K
    OBVIOUS
  <2>4. QED
    BY <1>4, <2>2, <2>3
<1>6. \E m \in T : \A y \in T : m >= y
  BY <1>5
<1>7. Max(T) \in T /\ \A y \in T : Max(T) >= y
  BY <1>6 DEF Max
<1>8. QED
  BY <1>7

(* Induction over the natural numbers.                                      *)
LEMMA NumberInduction ==
  ASSUME NEW T, 0 \in T, \A n \in Nat : n \in T => n + 1 \in T
  PROVE  Nat \subseteq T
<1> SUFFICES ASSUME Nat \ T # {} PROVE FALSE
  OBVIOUS
<1>1. PICK x \in Nat \ T : \A y \in Nat \ T : x <= y
  BY LeastNumber
<1>2. x # 0 /\ x - 1 \in Nat
  BY <1>1
<1>3. x - 1 \in T
  BY <1>1, <1>2
<1>4. QED
  BY <1>2, <1>3

(* Induction over the numbers up to K.                                      *)
LEMMA BoundedInduction ==
  ASSUME NEW K \in Nat, NEW T, 0 \in T,
         \A n \in Nat : n < K /\ n \in T => n + 1 \in T
  PROVE  0 .. K \subseteq T
<1> DEFINE U == {n \in Nat : n <= K => n \in T}
<1>1. 0 \in U
  OBVIOUS
<1>2. ASSUME NEW n \in Nat, n \in U PROVE n + 1 \in U
  BY <1>2
<1> HIDE DEF U
<1>3. Nat \subseteq U
  BY <1>1, <1>2, NumberInduction
<1>4. QED
  BY <1>3 DEF U

(* A value to start with and a step for each number up to K define a        *)
(* sequence of values.                                                      *)
Iterates(f, v, step, K) ==
  f[0] = v /\ \A n \in 1 .. K : f[n] = step[<<n, f[n - 1]>>]

LEMMA RecursionExists ==
  ASSUME NEW V, NEW v \in V, NEW K \in Nat, NEW step \in [(1 .. K) \X V -> V]
  PROVE  \E f \in [0 .. K -> V] : Iterates(f, v, step, K)
<1> DEFINE Works(f, k) == f[0] = v /\ \A n \in 1 .. k : f[n] = step[<<n, f[n - 1]>>]
           T == {k \in Nat : k <= K => \E f \in [0 .. k -> V] : Works(f, k)}
<1>1. 0 \in T
  <2>1. [n \in 0 .. 0 |-> v] \in [0 .. 0 -> V]
    OBVIOUS
  <2>2. Works([n \in 0 .. 0 |-> v], 0)
    OBVIOUS
  <2>3. QED
    BY <2>1, <2>2
<1>2. ASSUME NEW k \in Nat, k \in T PROVE k + 1 \in T
  <2> SUFFICES ASSUME k + 1 <= K
               PROVE  \E f \in [0 .. k + 1 -> V] : Works(f, k + 1)
    OBVIOUS
  <2>1. PICK f \in [0 .. k -> V] : Works(f, k)
    BY <1>2
  <2> DEFINE g == [n \in 0 .. k + 1 |-> IF n = k + 1 THEN step[<<k + 1, f[k]>>] ELSE f[n]]
  <2>2. g \in [0 .. k + 1 -> V]
    <3>1. f[k] \in V /\ <<k + 1, f[k]>> \in (1 .. K) \X V
      OBVIOUS
    <3>2. \A n \in 0 .. k + 1 : n # k + 1 => f[n] \in V
      OBVIOUS
    <3>3. QED
      BY <3>1, <3>2
  <2>3. ASSUME NEW n \in 1 .. k + 1 PROVE g[n] = step[<<n, g[n - 1]>>]
    <3>1. n - 1 \in 0 .. k /\ g[n - 1] = f[n - 1]
      OBVIOUS
    <3>2. CASE n = k + 1
      <4>1. g[n] = step[<<k + 1, f[k]>>] /\ n - 1 = k
        BY <3>2
      <4>2. QED
        BY <3>1, <3>2, <4>1
    <3>3. CASE n # k + 1
      BY <2>1, <3>1, <3>3
    <3>4. QED
      BY <3>2, <3>3
  <2>4. g[0] = v
    BY <2>1
  <2> HIDE DEF g
  <2>5. QED
    BY <2>2, <2>3, <2>4
<1> HIDE DEF T
<1>3. Nat \subseteq T
  BY <1>1, <1>2, NumberInduction
<1>4. PICK f \in [0 .. K -> V] : Works(f, K)
  BY <1>3 DEF T
<1>5. QED
  BY <1>4 DEF Iterates

(* The same over the subsets of a finite set: a subset is taken apart by    *)
(* removing the member pick chooses, the way the folds of the community     *)
(* modules do.                                                              *)
IsFold(f, S, v, pick, step) ==
  \A s \in SUBSET S :
    f[s] = IF s = {} THEN v ELSE step[<<pick[s], f[s \ {pick[s]}]>>]

LEMMA SetRecursionExists ==
  ASSUME NEW S, IsFiniteSet(S), NEW V, NEW v \in V,
         NEW pick, \A s \in SUBSET S : s # {} => pick[s] \in s,
         NEW step \in [S \X V -> V]
  PROVE  \E f \in [SUBSET S -> V] : IsFold(f, S, v, pick, step)
<1> DEFINE Small(k) == {s \in SUBSET S : Cardinality(s) <= k}
           Works(f, k) == \A s \in Small(k) :
             f[s] = IF s = {} THEN v ELSE step[<<pick[s], f[s \ {pick[s]}]>>]
           T == {k \in Nat : \E f \in [Small(k) -> V] : Works(f, k)}
<1>0. ASSUME NEW s \in SUBSET S
      PROVE  IsFiniteSet(s) /\ Cardinality(s) \in Nat
  BY FS_Subset, FS_CardinalityType
<1>1. ASSUME NEW s \in SUBSET S, s # {}
      PROVE  /\ pick[s] \in S
             /\ s \ {pick[s]} \in SUBSET S
             /\ Cardinality(s \ {pick[s]}) = Cardinality(s) - 1
  BY <1>0, <1>1, FS_RemoveElement
<1>2. 0 \in T
  <2>1. \A s \in Small(0) : s = {}
    <3> SUFFICES ASSUME NEW s \in SUBSET S, Cardinality(s) <= 0 PROVE s = {}
      OBVIOUS
    <3>1. Cardinality(s) = 0
      BY <1>0
    <3>2. QED
      BY <1>0, <3>1, FS_EmptySet
  <2> DEFINE f == [s \in Small(0) |-> v]
  <2>2. f \in [Small(0) -> V]
    OBVIOUS
  <2>3. \A s \in Small(0) : f[s] = v
    OBVIOUS
  <2> HIDE DEF f
  <2>4. Works(f, 0)
    BY <2>1, <2>3
  <2> HIDE DEF Small, Works
  <2>5. QED
    BY <2>2, <2>4
<1>3. ASSUME NEW k \in Nat, k \in T PROVE k + 1 \in T
  <2>1. PICK f \in [Small(k) -> V] : Works(f, k)
    BY <1>3
  <2> DEFINE g == [s \in Small(k + 1) |->
                     IF Cardinality(s) <= k THEN f[s]
                     ELSE step[<<pick[s], f[s \ {pick[s]}]>>]]
  <2>2. ASSUME NEW s \in Small(k + 1), s # {}
        PROVE  /\ pick[s] \in S
               /\ s \ {pick[s]} \in Small(k)
               /\ s \ {pick[s]} \in Small(k + 1)
               /\ g[s \ {pick[s]}] = f[s \ {pick[s]}]
               /\ f[s \ {pick[s]}] \in V
    <3>1. Cardinality(s \ {pick[s]}) = Cardinality(s) - 1 /\ Cardinality(s) \in Nat
      BY <1>0, <1>1, <2>2
    <3>2. s \ {pick[s]} \in SUBSET S /\ pick[s] \in S
      BY <1>1, <2>2
    <3>3. s \ {pick[s]} \in Small(k) /\ s \ {pick[s]} \in Small(k + 1)
      BY <3>1, <3>2
    <3>4. Cardinality(s \ {pick[s]}) <= k
      BY <3>1
    <3>5. QED
      BY <3>2, <3>3, <3>4
  <2>3. ASSUME NEW s \in Small(k + 1)
        PROVE  g[s] = IF s = {} THEN v ELSE step[<<pick[s], g[s \ {pick[s]}]>>]
    <3>1. CASE s = {}
      <4>1. s \in Small(k) /\ Cardinality(s) <= k
        BY <3>1, FS_EmptySet
      <4>2. QED
        BY <2>1, <3>1, <4>1
    <3>2. CASE s # {} /\ Cardinality(s) <= k
      <4>1. s \in Small(k)
        BY <3>2
      <4>2. g[s] = f[s]
        BY <3>2
      <4>3. f[s] = step[<<pick[s], f[s \ {pick[s]}]>>]
        BY <2>1, <3>2, <4>1
      <4>4. g[s \ {pick[s]}] = f[s \ {pick[s]}]
        BY <2>2, <3>2
      <4> HIDE DEF g
      <4>5. QED
        BY <3>2, <4>2, <4>3, <4>4
    <3>3. CASE s # {} /\ ~(Cardinality(s) <= k)
      <4>1. g[s] = step[<<pick[s], f[s \ {pick[s]}]>>]
        BY <3>3
      <4>2. g[s \ {pick[s]}] = f[s \ {pick[s]}]
        BY <2>2, <3>3
      <4> HIDE DEF g
      <4>3. QED
        BY <3>3, <4>1, <4>2
    <3>4. QED
      BY <3>1, <3>2, <3>3
  <2>4. ASSUME NEW s \in Small(k + 1) PROVE g[s] \in V
    <3>1. CASE Cardinality(s) <= k
      <4>1. s \in Small(k)
        BY <3>1
      <4>2. QED
        BY <3>1, <4>1
    <3>2. CASE ~(Cardinality(s) <= k)
      <4>1. s # {}
        <5> SUFFICES ASSUME s = {} PROVE Cardinality(s) <= k
          BY <3>2
        <5>1. Cardinality(s) = 0
          BY FS_EmptySet
        <5>2. QED
          BY <5>1
      <4>2. <<pick[s], f[s \ {pick[s]}]>> \in S \X V
        BY <2>2, <4>1
      <4>3. QED
        BY <3>2, <4>2
    <3>3. QED
      BY <3>1, <3>2
  <2>5. g \in [Small(k + 1) -> V]
    BY <2>4
  <2> HIDE DEF g
  <2>6. Works(g, k + 1)
    BY <2>3
  <2> HIDE DEF Small, Works
  <2>7. QED
    BY <2>5, <2>6
<1> HIDE DEF T
<1>4. Nat \subseteq T
  BY <1>2, <1>3, NumberInduction
<1>5. PICK f \in [Small(Cardinality(S)) -> V] : Works(f, Cardinality(S))
  <2>1. Cardinality(S) \in T
    BY <1>4, FS_CardinalityType
  <2>2. QED
    BY <2>1 DEF T
<1>6. Small(Cardinality(S)) = SUBSET S
  BY FS_Subset
<1>7. QED
  BY <1>5, <1>6 DEF IsFold

-------------------------------------------------------------------------------
(* The elements of a sequence from which the n-th is removed.               *)
LEMMA RemoveAtElements ==
  ASSUME NEW E, NEW q \in Seq(E), NEW n \in DOMAIN q
  PROVE  /\ RemoveAt(q, n) \in Seq(E)
         /\ Len(RemoveAt(q, n)) = Len(q) - 1
         /\ DOMAIN RemoveAt(q, n) = 1 .. Len(q) - 1
         /\ \A i \in 1 .. Len(q) - 1 :
              RemoveAt(q, n)[i] = IF i < n THEN q[i] ELSE q[i + 1]
<1> DEFINE p == RemoveAt(q, n)
           front == SubSeq(q, 1, n - 1)
           back == SubSeq(q, n + 1, Len(q))
<1>1. Len(q) \in Nat /\ DOMAIN q = 1 .. Len(q) /\ n \in 1 .. Len(q)
  OBVIOUS
<1>2. /\ front \in Seq(E) /\ Len(front) = n - 1
      /\ \A i \in 1 .. n - 1 : front[i] = q[i]
  BY <1>1
<1>3. /\ back \in Seq(E) /\ Len(back) = Len(q) - n
      /\ \A i \in 1 .. Len(q) - n : back[i] = q[n + i]
  BY <1>1
<1>4. p = front \o back
  BY DEF RemoveAt
<1> HIDE DEF front, back, p
<1>5. /\ p \in Seq(E) /\ Len(p) = Len(q) - 1
      /\ \A i \in 1 .. Len(p) : p[i] = IF i <= n - 1 THEN front[i] ELSE back[i - (n - 1)]
  <2>1. /\ p \in Seq(E) /\ Len(p) = Len(front) + Len(back)
        /\ \A i \in 1 .. Len(front) + Len(back) :
             p[i] = IF i <= Len(front) THEN front[i] ELSE back[i - Len(front)]
    BY <1>2, <1>3, <1>4, ConcatProperties
  <2>2. Len(front) + Len(back) = Len(q) - 1
    BY <1>1, <1>2, <1>3
  <2>3. QED
    BY <1>2, <2>1, <2>2
<1>6. DOMAIN p = 1 .. Len(q) - 1
  BY <1>1, <1>5
<1>7. ASSUME NEW i \in 1 .. Len(q) - 1
      PROVE  p[i] = IF i < n THEN q[i] ELSE q[i + 1]
  <2>1. CASE i < n
    BY <1>1, <1>2, <1>5, <1>6, <2>1
  <2>2. CASE i >= n
    <3>0. i \in 1 .. Len(p) /\ ~(i <= n - 1) /\ i - (n - 1) \in 1 .. Len(q) - n
      BY <1>1, <1>5, <1>6, <2>2
    <3>1. p[i] = back[i - (n - 1)] /\ i - (n - 1) \in 1 .. Len(q) - n
      BY <1>5, <3>0
    <3>2. back[i - (n - 1)] = q[n + (i - (n - 1))]
      BY <1>3, <3>1
    <3>3. n + (i - (n - 1)) = i + 1
      BY <1>1, <1>6
    <3>4. QED
      BY <1>1, <1>6, <2>2, <3>1, <3>2, <3>3
  <2>3. QED
    BY <1>1, <1>6, <2>1, <2>2
<1>8. QED
  BY <1>5, <1>6, <1>7 DEF p

================================================================================
