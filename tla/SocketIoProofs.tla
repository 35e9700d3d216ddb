---------------------------- MODULE SocketIoProofs ----------------------------
(***************************************************************************)
(* Proofs about the socket io for every number and size of messages.       *)
(***************************************************************************)
EXTENDS SocketIo, SequenceTheorems, DataLemmas

-------------------------------------------------------------------------------
(* A set of sequences that holds the empty one and their concatenations.    *)
Closed(V) ==
  /\ <<>> \in V
  /\ \A x, y \in V : x \o y \in V
  /\ \A x \in V : <<>> \o x = x /\ x \o <<>> = x
  /\ \A x, y, z \in V : (x \o y) \o z = x \o (y \o z)

LEMMA SequencesClosed == \A S : Closed(Seq(S))
BY ConcatProperties, ConcatEmptySeq, ConcatAssociative DEF Closed

LEMMA ClosedAssociates ==
  ASSUME NEW V, Closed(V), NEW x \in V, NEW y \in V, NEW z \in V
  PROVE  (x \o y) \o z = x \o (y \o z)
BY DEF Closed

(* FlattenSeq, step by step from the first sequence to the last.            *)
LEMMA FlattenSteps ==
  ASSUME NEW V, Closed(V), NEW q \in Seq(V)
  PROVE  \E f \in [0 .. Len(q) -> V] :
           /\ f[0] = <<>>
           /\ \A i \in 1 .. Len(q) : f[i] = f[i - 1] \o q[i]
           /\ FlattenSeq(q) = f[Len(q)]
<1> DEFINE K == Len(q)
           step == [p \in (1 .. K) \X V |-> p[2] \o q[p[1]]]
<1>0. K \in Nat /\ \A i \in 1 .. K : q[i] \in V
  OBVIOUS
<1> HIDE DEF K
<1>1. step \in [(1 .. K) \X V -> V]
  BY <1>0 DEF Closed
<1>2. PICK f \in [0 .. K -> V] :
        f[0] = <<>> /\ \A n \in 1 .. K : f[n] = step[<<n, f[n - 1]>>]
  <2> DEFINE e == <<>>
  <2>1. e \in V
    BY DEF Closed
  <2> HIDE DEF step, e
  <2>2. \E f \in [0 .. K -> V] :
          Iterates(f, e, step, K)
    BY <1>0, <1>1, <2>1, RecursionExists
  <2>3. QED
    BY <2>2 DEF Iterates, e
<1>3. ASSUME NEW i \in 1 .. K PROVE f[i] = f[i - 1] \o q[i]
  <2>1. f[i - 1] \in V
    BY <1>0
  <2>2. QED
    BY <1>2, <2>1
<1> HIDE DEF step
<1>4. FlattenSeq(q) = f[K]
  <2>1. CASE K = 0
    BY <1>2, <2>1, EmptySeq DEF FlattenSeq, K
  <2>2. CASE K # 0
    <3> DEFINE Def(g) == [i \in 1 .. K |-> IF i = 1 THEN q[i] ELSE g[i - 1] \o q[i]]
               g == CHOOSE h : h = Def(h)
               r == [i \in 1 .. K |-> f[i]]
    <3>0. f[1] = q[1]
      <4>1. 1 \in 1 .. K /\ 1 - 1 = 0
        BY <1>0, <2>2
      <4>2. f[1] = <<>> \o q[1] /\ q[1] \in V
        BY <1>0, <1>2, <1>3, <4>1
      <4>3. QED
        BY <4>2 DEF Closed
    <3>1. FlattenSeq(q) = g[K]
      BY <2>2 DEF FlattenSeq, K
    <3>2. r = Def(r)
      <4>1. ASSUME NEW i \in 1 .. K
            PROVE  f[i] = IF i = 1 THEN q[i] ELSE r[i - 1] \o q[i]
        <5>1. CASE i = 1
          BY <3>0, <5>1
        <5>2. CASE i # 1
          <6>1. i - 1 \in 1 .. K
            BY <1>0, <5>2
          <6>2. QED
            BY <1>3, <5>2, <6>1
        <5>3. QED
          BY <5>1, <5>2
      <4>2. QED
        BY <4>1
    <3>3. g = Def(g)
      BY <3>2
    <3>4. \A i \in 1 .. K : g[i] = IF i = 1 THEN q[i] ELSE g[i - 1] \o q[i]
      BY <3>3
    <3> HIDE DEF g
    <3> DEFINE T == {i \in Nat : i = 0 \/ g[i] = f[i]}
    <3>5. 0 \in T
      OBVIOUS
    <3>6. ASSUME NEW n \in Nat, n < K, n \in T PROVE n + 1 \in T
      <4>1. n + 1 \in 1 .. K /\ (n + 1) - 1 = n
        BY <1>0, <3>6
      <4>2. CASE n = 0
        BY <3>0, <3>4, <4>1, <4>2
      <4>3. CASE n # 0
        <5>1. n + 1 # 1
          BY <4>3
        <5>2. g[n + 1] = g[n] \o q[n + 1]
          BY <3>4, <4>1, <5>1
        <5>3. f[n + 1] = f[n] \o q[n + 1]
          BY <1>3, <4>1
        <5>4. g[n] = f[n]
          BY <3>6, <4>3
        <5>5. g[n + 1] = f[n + 1]
          BY <5>2, <5>3, <5>4
        <5>6. QED
          BY <5>5
      <4>4. QED
        BY <4>2, <4>3
    <3> HIDE DEF T
    <3>7. 0 .. K \subseteq T
      BY <1>0, <3>5, <3>6, BoundedInduction
    <3>8. K \in 0 .. K
      BY <1>0
    <3>9. QED
      BY <2>2, <3>1, <3>7, <3>8 DEF T
  <2>3. QED
    BY <2>1, <2>2
<1>5. QED
  BY <1>2, <1>3, <1>4 DEF K

LEMMA FlattenType ==
  ASSUME NEW V, Closed(V), NEW q \in Seq(V)
  PROVE  FlattenSeq(q) \in V
<1>1. PICK f \in [0 .. Len(q) -> V] : FlattenSeq(q) = f[Len(q)]
  BY FlattenSteps
<1>2. Len(q) \in 0 .. Len(q)
  OBVIOUS
<1>3. QED
  BY <1>1, <1>2

(* One sequence more at the end.                                            *)
LEMMA FlattenAppend ==
  ASSUME NEW V, Closed(V), NEW q \in Seq(V), NEW x \in V
  PROVE  FlattenSeq(Append(q, x)) = FlattenSeq(q) \o x
<1> DEFINE p == Append(q, x)
           K == Len(q)
<1>1. /\ p \in Seq(V) /\ Len(p) = K + 1 /\ K \in Nat
      /\ p[K + 1] = x /\ \A i \in 1 .. K : p[i] = q[i]
  BY AppendProperties
<1>2. PICK f \in [0 .. K -> V] :
        /\ f[0] = <<>>
        /\ \A i \in 1 .. K : f[i] = f[i - 1] \o q[i]
        /\ FlattenSeq(q) = f[K]
  BY FlattenSteps
<1> HIDE DEF p, K
<1>3. PICK g \in [0 .. K + 1 -> V] :
        /\ g[0] = <<>>
        /\ \A i \in 1 .. K + 1 : g[i] = g[i - 1] \o p[i]
        /\ FlattenSeq(p) = g[K + 1]
  BY <1>1, FlattenSteps
<1> DEFINE T == {i \in Nat : g[i] = f[i]}
<1>4. 0 \in T
  BY <1>2, <1>3
<1>5. ASSUME NEW n \in Nat, n < K, n \in T PROVE n + 1 \in T
  <2>1. n + 1 \in 1 .. K /\ n + 1 \in 1 .. K + 1 /\ (n + 1) - 1 = n
    BY <1>1, <1>5
  <2>2. g[n + 1] = g[n] \o p[n + 1] /\ f[n + 1] = f[n] \o q[n + 1]
    BY <1>2, <1>3, <2>1
  <2>3. p[n + 1] = q[n + 1] /\ g[n] = f[n]
    BY <1>1, <1>5, <2>1
  <2>4. g[n + 1] = f[n + 1]
    BY <2>2, <2>3
  <2>5. QED
    BY <2>4
<1> HIDE DEF T
<1>6. 0 .. K \subseteq T
  BY <1>1, <1>4, <1>5, BoundedInduction
<1>7. K \in 0 .. K /\ K + 1 \in 1 .. K + 1 /\ (K + 1) - 1 = K
  BY <1>1
<1>8. g[K] = f[K]
  BY <1>6, <1>7 DEF T
<1>9. g[K + 1] = g[K] \o p[K + 1]
  BY <1>3, <1>7
<1>10. QED
  BY <1>1, <1>2, <1>3, <1>8, <1>9 DEF p

(* One sequence less at the front.                                          *)
LEMMA FlattenTail ==
  ASSUME NEW V, Closed(V), NEW q \in Seq(V), q # <<>>
  PROVE  FlattenSeq(q) = Head(q) \o FlattenSeq(Tail(q))
<1> DEFINE Good(s) == FlattenSeq(s) = Head(s) \o FlattenSeq(Tail(s))
           T == {n \in Nat : \A s \in Seq(V) : Len(s) = n + 1 => Good(s)}
<1>0. FlattenSeq(<<>>) = <<>>
  BY DEF FlattenSeq
<1>1. 0 \in T
  <2> SUFFICES ASSUME NEW s \in Seq(V), Len(s) = 0 + 1 PROVE Good(s)
    OBVIOUS
  <2>1. s = Append(<<>>, s[1])
    OBVIOUS
  <2>2. s[1] \in V /\ Head(s) = s[1] /\ <<>> \in Seq(V)
    OBVIOUS
  <2>a. Tail(s) = <<>>
    <3>a. s # <<>>
      <4> SUFFICES ASSUME s = <<>> PROVE Len(s) = 0
        OBVIOUS
      <4> QED
        OBVIOUS
    <3>1. Tail(s) \in Seq(V) /\ Len(Tail(s)) = 0
      BY <3>a, HeadTailProperties
    <3>2. QED
      BY <3>1, EmptySeq
  <2>3. FlattenSeq(Append(<<>>, s[1])) = <<>> \o s[1]
    BY <1>0, <2>2, FlattenAppend
  <2>4. QED
    BY <1>0, <2>1, <2>2, <2>a, <2>3 DEF Closed
<1>2. ASSUME NEW n \in Nat, n \in T PROVE n + 1 \in T
  <2> SUFFICES ASSUME NEW s \in Seq(V), Len(s) = n + 1 + 1 PROVE Good(s)
    OBVIOUS
  <2>1. PICK u \in Seq(V), x \in V : s = Append(u, x)
    <3>1. s # <<>>
      OBVIOUS
    <3>2. QED
      BY <3>1, SequenceEmptyOrAppend
  <2>2. /\ Len(u) = n + 1 /\ u # <<>> /\ Tail(u) \in Seq(V) /\ Head(u) \in V
        /\ Head(s) = Head(u)
    BY <2>1
  <2>3. Tail(s) = Append(Tail(u), x)
    BY <2>1, <2>2, HeadTailAppend
  <2>4. FlattenSeq(u) = Head(u) \o FlattenSeq(Tail(u))
    BY <1>2, <2>2
  <2>5. FlattenSeq(s) = FlattenSeq(u) \o x
    BY <2>1, FlattenAppend
  <2>6. FlattenSeq(Tail(s)) = FlattenSeq(Tail(u)) \o x
    BY <2>2, <2>3, FlattenAppend
  <2>7. FlattenSeq(Tail(u)) \in V
    BY <2>2, FlattenType
  <2>8. FlattenSeq(s) = Head(u) \o (FlattenSeq(Tail(u)) \o x)
    <3>1. FlattenSeq(s) = (Head(u) \o FlattenSeq(Tail(u))) \o x
      BY <2>4, <2>5
    <3>2. (Head(u) \o FlattenSeq(Tail(u))) \o x
            = Head(u) \o (FlattenSeq(Tail(u)) \o x)
      <4> DEFINE a == Head(u)
                 b == FlattenSeq(Tail(u))
      <4>1. a \in V /\ b \in V
        BY <2>2, <2>7
      <4> HIDE DEF a, b
      <4>2. (a \o b) \o x = a \o (b \o x)
        <5>1. \A x1, y1, z1 \in V : (x1 \o y1) \o z1 = x1 \o (y1 \o z1)
          BY DEF Closed
        <5>2. QED
          BY <4>1, <5>1, Zenon
      <4>3. QED
        BY <4>2 DEF a, b
    <3>3. QED
      BY <3>1, <3>2
  <2>9. QED
    BY <2>2, <2>6, <2>8
<1> HIDE DEF T
<1>3. Nat \subseteq T
  BY <1>1, <1>2, NumberInduction
<1>4. Len(q) \in Nat /\ Len(q) # 0
  BY EmptySeq
<1>5. Len(q) - 1 \in T /\ Len(q) = (Len(q) - 1) + 1
  BY <1>3, <1>4
<1>6. QED
  BY <1>5 DEF T

-------------------------------------------------------------------------------
(* The bytes of a queue of messages.                                        *)
Wires == Seq(1 .. Messages)

Parts(q) == [i \in DOMAIN q |-> Bytes(q[i].msg, q[i].left)]

LEMMA WiresClosed == Closed(Wires)
BY SequencesClosed DEF Wires

LEMMA BytesType ==
  ASSUME NEW m \in 1 .. Messages, NEW n \in Nat
  PROVE  Bytes(m, n) \in Wires /\ Len(Bytes(m, n)) = n
BY DEF Bytes, Wires

LEMMA BytesSplit ==
  ASSUME NEW m \in 1 .. Messages, NEW n \in Nat, NEW k \in Nat
  PROVE  Bytes(m, n + k) = Bytes(m, n) \o Bytes(m, k)
<1>1. /\ Bytes(m, n) \in Seq(1 .. Messages) /\ Len(Bytes(m, n)) = n
      /\ Bytes(m, k) \in Seq(1 .. Messages) /\ Len(Bytes(m, k)) = k
      /\ Bytes(m, n + k) \in Seq(1 .. Messages) /\ Len(Bytes(m, n + k)) = n + k
  BY BytesType DEF Wires
<1> DEFINE c == Bytes(m, n) \o Bytes(m, k)
<1>2. c \in Seq(1 .. Messages) /\ Len(c) = n + k
  BY <1>1, ConcatProperties
<1>a. \A i \in 1 .. n + k :
        c[i] = IF i <= n THEN Bytes(m, n)[i] ELSE Bytes(m, k)[i - n]
  <2> DEFINE a == Bytes(m, n)
             b == Bytes(m, k)
  <2>1. a \in Seq(1 .. Messages) /\ Len(a) = n /\ b \in Seq(1 .. Messages) /\ Len(b) = k
    BY <1>1
  <2> HIDE DEF a, b
  <2>2. \A i \in 1 .. Len(a) + Len(b) :
          (a \o b)[i] = IF i <= Len(a) THEN a[i] ELSE b[i - Len(a)]
    BY <2>1, ConcatProperties
  <2>3. \A i \in 1 .. n + k : (a \o b)[i] = IF i <= n THEN a[i] ELSE b[i - n]
    BY <2>1, <2>2
  <2>4. QED
    BY <2>3 DEF a, b
<1> HIDE DEF c
<1>3. ASSUME NEW i \in 1 .. n + k PROVE c[i] = Bytes(m, n + k)[i]
  <2>1. Bytes(m, n + k)[i] = m
    BY DEF Bytes
  <2>2. CASE i <= n
    <3>1. i \in 1 .. n
      BY <2>2
    <3>2. Bytes(m, n)[i] = m
      BY <3>1 DEF Bytes
    <3>3. QED
      BY <1>a, <2>1, <2>2, <3>2
  <2>3. CASE ~(i <= n)
    <3>1. i - n \in 1 .. k
      BY <2>3
    <3>2. Bytes(m, k)[i - n] = m
      BY <3>1 DEF Bytes
    <3>3. QED
      BY <1>a, <2>1, <2>3, <3>2
  <2>4. QED
    BY <2>2, <2>3
<1>4. c = Bytes(m, n + k)
  BY <1>1, <1>2, <1>3, SeqEqual
<1>5. QED
  BY <1>4 DEF c

LEMMA ItemType ==
  ASSUME NEW x \in Item PROVE x.msg \in 1 .. Messages /\ x.left \in Nat
BY SocketAssumption DEF Item

LEMMA PartsType ==
  ASSUME NEW q \in Seq(Item)
  PROVE  /\ Parts(q) \in Seq(Wires) /\ Len(Parts(q)) = Len(q)
         /\ \A i \in 1 .. Len(q) : Parts(q)[i] = Bytes(q[i].msg, q[i].left)
<1>1. ASSUME NEW i \in 1 .. Len(q) PROVE Bytes(q[i].msg, q[i].left) \in Wires
  <2>1. q[i].msg \in 1 .. Messages /\ q[i].left \in Nat
    BY ItemType
  <2>2. QED
    BY <2>1, BytesType
<1>2. DOMAIN q = 1 .. Len(q) /\ Len(q) \in Nat
  OBVIOUS
<1>3. Parts(q) = [i \in 1 .. Len(q) |-> Bytes(q[i].msg, q[i].left)]
  BY <1>2 DEF Parts
<1> DEFINE S == Wires
<1> HIDE DEF S
<1>4. \A i \in 1 .. Len(q) : Bytes(q[i].msg, q[i].left) \in S
  BY <1>1 DEF S
<1>5. Parts(q) \in Seq(S) /\ Len(Parts(q)) = Len(q)
  BY <1>2, <1>3, <1>4
<1>6. QED
  BY <1>2, <1>3, <1>5 DEF S

LEMMA ContentType ==
  ASSUME NEW q \in Seq(Item) PROVE Content(q) \in Wires
<1>1. Content(q) = FlattenSeq(Parts(q))
  BY DEF Content, Parts
<1>2. QED
  BY <1>1, PartsType, WiresClosed, FlattenType

LEMMA ContentEmpty == Content(<<>>) = <<>>
BY DEF Content, FlattenSeq

LEMMA ContentAppend ==
  ASSUME NEW q \in Seq(Item), NEW x \in Item
  PROVE  Content(Append(q, x)) = Content(q) \o Bytes(x.msg, x.left)
<1>1. /\ Append(q, x) \in Seq(Item) /\ Len(Append(q, x)) = Len(q) + 1
      /\ \A i \in 1 .. Len(q) : Append(q, x)[i] = q[i]
      /\ Append(q, x)[Len(q) + 1] = x /\ Len(q) \in Nat
  BY AppendProperties
<1>2. Bytes(x.msg, x.left) \in Wires
  BY BytesType, SocketAssumption DEF Item
<1> DEFINE p == Append(q, x)
           b == Bytes(x.msg, x.left)
           S == Wires
<1> HIDE DEF p, b, S
<1>3. /\ Parts(p) \in Seq(S) /\ Len(Parts(p)) = Len(q) + 1
      /\ \A i \in 1 .. Len(q) + 1 : Parts(p)[i] = Bytes(p[i].msg, p[i].left)
  BY <1>1, PartsType DEF p, S
<1>4. /\ Parts(q) \in Seq(S) /\ Len(Parts(q)) = Len(q)
      /\ \A i \in 1 .. Len(q) : Parts(q)[i] = Bytes(q[i].msg, q[i].left)
  BY PartsType DEF S
<1>5. b \in S
  BY <1>2 DEF b, S
<1>6. /\ Append(Parts(q), b) \in Seq(S)
      /\ Len(Append(Parts(q), b)) = Len(q) + 1
      /\ \A i \in 1 .. Len(q) : Append(Parts(q), b)[i] = Parts(q)[i]
      /\ Append(Parts(q), b)[Len(q) + 1] = b
  BY <1>4, <1>5, AppendProperties
<1>7. ASSUME NEW i \in 1 .. Len(q) + 1 PROVE Parts(p)[i] = Append(Parts(q), b)[i]
  <2>1. CASE i = Len(q) + 1
    <3>1. Parts(p)[i] = Bytes(p[i].msg, p[i].left)
      BY <1>3
    <3>2. QED
      BY <1>1, <1>6, <2>1, <3>1 DEF p, b
  <2>2. CASE i # Len(q) + 1
    <3>1. i \in 1 .. Len(q)
      BY <1>1, <2>2
    <3>2. p[i] = q[i]
      BY <1>1, <3>1 DEF p
    <3>3. QED
      BY <1>3, <1>4, <1>6, <3>1, <3>2
  <2>3. QED
    BY <2>1, <2>2
<1>8. Parts(p) = Append(Parts(q), b)
  BY <1>3, <1>6, <1>7, SeqEqual
<1>9. FlattenSeq(Append(Parts(q), b)) = FlattenSeq(Parts(q)) \o b
  BY <1>4, <1>5, WiresClosed, FlattenAppend DEF S
<1>10. QED
  BY <1>8, <1>9 DEF Content, Parts, p, b

LEMMA ContentTail ==
  ASSUME NEW q \in Seq(Item), q # <<>>
  PROVE  Content(q) = Bytes(Head(q).msg, Head(q).left) \o Content(Tail(q))
<1>1. /\ Tail(q) \in Seq(Item) /\ Len(Tail(q)) = Len(q) - 1
      /\ \A i \in 1 .. Len(Tail(q)) : Tail(q)[i] = q[i + 1]
      /\ Len(q) \in Nat /\ Len(q) # 0 /\ Head(q) = q[1]
  BY EmptySeq, HeadTailProperties
<1> DEFINE r == Tail(q)
           S == Wires
<1> HIDE DEF r, S
<1>2. /\ Parts(q) \in Seq(S) /\ Len(Parts(q)) = Len(q)
      /\ \A i \in 1 .. Len(q) : Parts(q)[i] = Bytes(q[i].msg, q[i].left)
  BY PartsType DEF S
<1>3. /\ Parts(r) \in Seq(S) /\ Len(Parts(r)) = Len(q) - 1
      /\ \A i \in 1 .. Len(q) - 1 : Parts(r)[i] = Bytes(r[i].msg, r[i].left)
  BY <1>1, PartsType DEF r, S
<1>4. Parts(q) # <<>>
  <2>1. Len(Parts(q)) # 0
    BY <1>1, <1>2
  <2>2. QED
    BY <2>1
<1>5. /\ Tail(Parts(q)) \in Seq(S) /\ Len(Tail(Parts(q))) = Len(q) - 1
      /\ \A i \in 1 .. Len(q) - 1 : Tail(Parts(q))[i] = Parts(q)[i + 1]
      /\ Head(Parts(q)) = Parts(q)[1]
  BY <1>1, <1>2, <1>4, HeadTailProperties
<1>6. ASSUME NEW i \in 1 .. Len(q) - 1 PROVE Parts(r)[i] = Tail(Parts(q))[i]
  <2>1. i + 1 \in 1 .. Len(q) /\ i \in 1 .. Len(r)
    BY <1>1 DEF r
  <2>2. r[i] = q[i + 1]
    BY <1>1, <2>1 DEF r
  <2>3. QED
    BY <1>2, <1>3, <1>5, <2>1, <2>2
<1>7. Parts(r) = Tail(Parts(q))
  BY <1>3, <1>5, <1>6, SeqEqual
<1>8. Head(Parts(q)) = Bytes(Head(q).msg, Head(q).left)
  BY <1>1, <1>2, <1>5
<1>9. FlattenSeq(Parts(q)) = Head(Parts(q)) \o FlattenSeq(Tail(Parts(q)))
  BY <1>2, <1>4, WiresClosed, FlattenTail DEF S
<1>10. QED
  BY <1>7, <1>8, <1>9 DEF Content, Parts, r

LEMMA ShortenedType ==
  ASSUME NEW q \in Seq(Item), q # <<>>, NEW n \in 1 .. Head(q).left - 1
  PROVE  /\ Shortened(q, n) \in Seq(Item) /\ Len(Shortened(q, n)) = Len(q)
         /\ Shortened(q, n) # <<>>
         /\ \A i \in 1 .. Len(q) : Shortened(q, n)[i].msg = q[i].msg
         /\ Head(Shortened(q, n)).msg = Head(q).msg
         /\ Head(Shortened(q, n)).left = Head(q).left - n
         /\ Tail(Shortened(q, n)) = Tail(q)
<1> DEFINE h == [q[1] EXCEPT !.left = @ - n]
           s == Shortened(q, n)
<1>1. Len(q) \in Nat /\ 1 \in 1 .. Len(q) /\ Head(q) = q[1] /\ q[1] \in Item
  BY EmptySeq
<1>2. h \in Item /\ h.msg = q[1].msg /\ h.left = q[1].left - n
  <2>1. /\ q[1] = [msg |-> q[1].msg, left |-> q[1].left]
        /\ q[1].msg \in 1 .. Messages /\ q[1].left \in 1 .. Size
    BY <1>1 DEF Item
  <2>2. n \in 1 .. q[1].left - 1
    BY <1>1
  <2>3. q[1].left - n \in 1 .. Size
    BY <2>1, <2>2, SocketAssumption
  <2>4. h = [msg |-> q[1].msg, left |-> q[1].left - n]
    BY <2>1
  <2>5. QED
    BY <2>1, <2>3, <2>4 DEF Item
<1> HIDE DEF h
<1>3. s = [q EXCEPT ![1] = h]
  BY <1>1, <1>2 DEF Shortened, h
<1> HIDE DEF s
<1>4. /\ s \in Seq(Item) /\ Len(s) = Len(q) /\ s[1] = h
      /\ \A i \in 1 .. Len(q) : i # 1 => s[i] = q[i]
  BY <1>1, <1>2, <1>3
<1>5. s # <<>> /\ Head(s) = h
  <2>1. s # <<>>
    BY <1>1, <1>4
  <2>2. QED
    BY <1>4, <2>1
<1>6. Tail(s) = Tail(q)
  <2>1. /\ Tail(s) \in Seq(Item) /\ Len(Tail(s)) = Len(q) - 1
        /\ \A i \in 1 .. Len(q) - 1 : Tail(s)[i] = s[i + 1]
    BY <1>4, <1>5, HeadTailProperties
  <2>2. /\ Tail(q) \in Seq(Item) /\ Len(Tail(q)) = Len(q) - 1
        /\ \A i \in 1 .. Len(q) - 1 : Tail(q)[i] = q[i + 1]
    BY HeadTailProperties
  <2>3. ASSUME NEW i \in 1 .. Len(q) - 1 PROVE Tail(s)[i] = Tail(q)[i]
    <3>1. i + 1 \in 1 .. Len(q) /\ i + 1 # 1
      BY <1>1
    <3>2. QED
      BY <1>4, <2>1, <2>2, <3>1
  <2>4. QED
    BY <2>1, <2>2, <2>3, SeqEqual
<1>7. \A i \in 1 .. Len(q) : s[i].msg = q[i].msg
  BY <1>2, <1>4
<1>8. QED
  BY <1>1, <1>2, <1>4, <1>5, <1>6, <1>7 DEF s

LEMMA ContentShortened ==
  ASSUME NEW q \in Seq(Item), q # <<>>, NEW n \in 1 .. Head(q).left - 1
  PROVE  Content(q) = Bytes(Head(q).msg, n) \o Content(Shortened(q, n))
<1> DEFINE m == Head(q).msg
           l == Head(q).left
           a == Bytes(m, n)
           b == Bytes(m, l - n)
           c == Content(Tail(q))
<1>1. m \in 1 .. Messages /\ l \in Nat /\ n \in Nat /\ l - n \in Nat
      /\ n + (l - n) = l /\ Tail(q) \in Seq(Item)
  <2>1. Head(q) \in Item /\ Tail(q) \in Seq(Item)
    BY HeadTailProperties
  <2>2. m \in 1 .. Messages /\ l \in Nat
    BY <2>1, ItemType
  <2>3. n \in 1 .. l - 1
    OBVIOUS
  <2> HIDE DEF m, l
  <2>4. QED
    BY <2>1, <2>2, <2>3
<1> HIDE DEF m, l
<1>2. Content(q) = Bytes(m, l) \o c
  BY ContentTail DEF m, l
<1>3. Content(Shortened(q, n)) = b \o c
  <2>1. /\ Shortened(q, n) \in Seq(Item) /\ Shortened(q, n) # <<>>
        /\ Head(Shortened(q, n)).msg = m
        /\ Head(Shortened(q, n)).left = l - n
        /\ Tail(Shortened(q, n)) = Tail(q)
    BY ShortenedType DEF m, l
  <2>2. QED
    BY <2>1, ContentTail
<1>4. Bytes(m, l) = a \o b
  BY <1>1, BytesSplit
<1>5. a \in Wires /\ b \in Wires /\ c \in Wires
  BY <1>1, BytesType, ContentType
<1> HIDE DEF a, b, c
<1>6. \A x1, y1, z1 \in Wires : (x1 \o y1) \o z1 = x1 \o (y1 \o z1)
  BY WiresClosed DEF Closed
<1>7. (a \o b) \o c = a \o (b \o c)
  BY <1>5, <1>6, Zenon
<1>8. QED
  BY <1>2, <1>3, <1>4, <1>7 DEF a, m

-------------------------------------------------------------------------------
(* The inductive invariant: a callback of on_send_complete runs for the      *)
(* first message of the queue; a message is completed once, and not before  *)
(* it is sent; what is queued was sent, is not completed, and is queued     *)
(* once.                                                                    *)
InCallback == pc = "sent" => pending # <<>>

DoneOnce == \A m \in 1 .. Messages : done[m] <= 1 /\ (m > sends => done[m] = 0)

OnceIn(q, d, k) ==
  /\ \A i \in 1 .. Len(q) : q[i].msg <= k /\ d[q[i].msg] = 0
  /\ \A i, j \in 1 .. Len(q) : i # j => q[i].msg # q[j].msg

QueuedOnce == OnceIn(Queued, done, sends)

IInv == TypeOK /\ InCallback /\ DoneOnce /\ QueuedOnce /\ StreamIntact

(* How the steps change a queue whose messages are sent and queued once.    *)
LEMMA OnceInTail ==
  ASSUME NEW q \in Seq(Item), q # <<>>, NEW d, NEW k, OnceIn(q, d, k)
  PROVE  /\ OnceIn(Tail(q), d, k)
         /\ \A i \in 1 .. Len(Tail(q)) : Tail(q)[i].msg # Head(q).msg
<1>1. /\ Len(Tail(q)) = Len(q) - 1 /\ Head(q) = q[1] /\ Len(q) \in Nat
      /\ \A i \in 1 .. Len(Tail(q)) : Tail(q)[i] = q[i + 1]
  BY HeadTailProperties
<1> DEFINE r == Tail(q)
<1> HIDE DEF r
<1>2. ASSUME NEW i \in 1 .. Len(r) PROVE r[i] = q[i + 1] /\ i + 1 \in 1 .. Len(q)
  BY <1>1 DEF r
<1>3. ASSUME NEW i \in 1 .. Len(r) PROVE r[i].msg <= k /\ d[r[i].msg] = 0
  BY <1>2 DEF OnceIn
<1>4. ASSUME NEW i \in 1 .. Len(r), NEW j \in 1 .. Len(r), i # j
      PROVE  r[i].msg # r[j].msg
  <2>1. i + 1 # j + 1
    BY <1>1, <1>4 DEF r
  <2>2. QED
    BY <1>2, <2>1 DEF OnceIn
<1>5. ASSUME NEW i \in 1 .. Len(r) PROVE r[i].msg # Head(q).msg
  <2>1. i + 1 # 1 /\ 1 \in 1 .. Len(q)
    BY <1>1 DEF r
  <2>2. QED
    BY <1>1, <1>2, <2>1 DEF OnceIn
<1>6. QED
  BY <1>3, <1>4, <1>5 DEF OnceIn, r

LEMMA OnceInAppend ==
  ASSUME NEW q \in Seq(Item), NEW d, NEW k \in Nat, OnceIn(q, d, k),
         NEW x \in Item, x.msg = k + 1, d[k + 1] = 0
  PROVE  OnceIn(Append(q, x), d, k + 1)
<1> DEFINE r == Append(q, x)
<1>1. /\ Len(r) = Len(q) + 1 /\ r[Len(q) + 1] = x /\ Len(q) \in Nat
      /\ \A i \in 1 .. Len(q) : r[i] = q[i]
  BY AppendProperties
<1> HIDE DEF r
<1>2. ASSUME NEW i \in 1 .. Len(q) PROVE q[i].msg <= k /\ q[i].msg \in Nat
  <2>1. q[i] \in Item
    OBVIOUS
  <2>2. QED
    BY <2>1, ItemType DEF OnceIn
<1>3. ASSUME NEW i \in 1 .. Len(r) PROVE r[i].msg <= k + 1 /\ d[r[i].msg] = 0
  <2>1. CASE i = Len(q) + 1
    BY <1>1, <2>1
  <2>2. CASE i # Len(q) + 1
    <3>1. i \in 1 .. Len(q)
      BY <1>1, <2>2
    <3>2. r[i] = q[i] /\ d[q[i].msg] = 0
      BY <1>1, <3>1 DEF OnceIn
    <3>3. QED
      BY <1>2, <3>1, <3>2
  <2>3. QED
    BY <2>1, <2>2
<1>4. ASSUME NEW i \in 1 .. Len(r), NEW j \in 1 .. Len(r), i # j
      PROVE  r[i].msg # r[j].msg
  <2>1. CASE i = Len(q) + 1
    <3>1. j \in 1 .. Len(q)
      BY <1>1, <1>4, <2>1
    <3>2. r[j].msg <= k /\ r[j].msg \in Nat /\ r[i].msg = k + 1
      BY <1>1, <1>2, <2>1, <3>1
    <3>3. QED
      BY <3>2
  <2>2. CASE j = Len(q) + 1
    <3>1. i \in 1 .. Len(q)
      BY <1>1, <1>4, <2>2
    <3>2. r[i].msg <= k /\ r[i].msg \in Nat /\ r[j].msg = k + 1
      BY <1>1, <1>2, <2>2, <3>1
    <3>3. QED
      BY <3>2
  <2>3. CASE i # Len(q) + 1 /\ j # Len(q) + 1
    <3>1. i \in 1 .. Len(q) /\ j \in 1 .. Len(q)
      BY <1>1, <2>3
    <3>2. QED
      BY <1>1, <1>4, <3>1 DEF OnceIn
  <2>4. QED
    BY <2>1, <2>2, <2>3
<1>5. QED
  BY <1>3, <1>4 DEF OnceIn, r

LEMMA OnceInLonger ==
  ASSUME NEW q \in Seq(Item), NEW d, NEW k \in Nat, OnceIn(q, d, k)
  PROVE  OnceIn(q, d, k + 1)
<1>1. ASSUME NEW i \in 1 .. Len(q) PROVE q[i].msg <= k + 1
  <2>1. q[i] \in Item
    OBVIOUS
  <2>2. q[i].msg <= k /\ q[i].msg \in Nat
    BY <2>1, ItemType DEF OnceIn
  <2>3. QED
    BY <2>2
<1>2. QED
  BY <1>1 DEF OnceIn

LEMMA OnceInCompleted ==
  ASSUME NEW q \in Seq(Item), NEW d \in [1 .. Messages -> Nat], NEW k,
         OnceIn(q, d, k), NEW m \in 1 .. Messages,
         \A i \in 1 .. Len(q) : q[i].msg # m
  PROVE  OnceIn(q, [d EXCEPT ![m] = @ + 1], k)
<1>1. ASSUME NEW i \in 1 .. Len(q)
      PROVE  [d EXCEPT ![m] = @ + 1][q[i].msg] = d[q[i].msg]
  <2>1. q[i] \in Item
    OBVIOUS
  <2>2. q[i].msg \in 1 .. Messages
    BY <2>1, ItemType
  <2>3. QED
    BY <2>2
<1>2. QED
  BY <1>1 DEF OnceIn

LEMMA OnceInShortened ==
  ASSUME NEW q \in Seq(Item), q # <<>>, NEW n \in 1 .. Head(q).left - 1,
         NEW d, NEW k, OnceIn(q, d, k)
  PROVE  OnceIn(Shortened(q, n), d, k)
<1>1. /\ Len(Shortened(q, n)) = Len(q)
      /\ \A i \in 1 .. Len(q) : Shortened(q, n)[i].msg = q[i].msg
  BY ShortenedType
<1>2. QED
  BY <1>1 DEF OnceIn

LEMMA QueuedType ==
  ASSUME TypeOK, InCallback PROVE Queued \in Seq(Item)
<1>1. pending # <<>> => Tail(pending) \in Seq(Item)
  BY HeadTailProperties DEF TypeOK
<1>2. QED
  BY <1>1 DEF TypeOK, InCallback, Queued

-------------------------------------------------------------------------------
(* Discarding keeps the other fates.                                        *)
LEMMA DiscardedType ==
  ASSUME TypeOK, NEW ms, Discarded(ms)
  PROVE  fate' \in [1 .. Messages -> Fates]
BY DEF TypeOK, Discarded, Fates

LEMMA InitIInv == Init => IInv
<1> SUFFICES ASSUME Init PROVE IInv
  OBVIOUS
<1>1. TypeOK
  BY SocketAssumption DEF Init, TypeOK, Fates
<1>2. InCallback /\ DoneOnce /\ StreamIntact
  BY DEF Init, InCallback, DoneOnce, StreamIntact
<1>3. QueuedOnce
  BY EmptySeq DEF Init, QueuedOnce, OnceIn, Queued
<1>4. QED
  BY <1>1, <1>2, <1>3 DEF IInv

(* The steps that touch neither the queue nor what is counted.              *)
LEMMA QueueUntouched ==
  ASSUME IInv, TypeOK', InCallback', Queued' = Queued, UNCHANGED <<sends, done>>,
         \/ UNCHANGED <<wire, stream>> /\ (io_state' = "OPEN" => io_state = "OPEN")
         \/ io_state' # "OPEN"
  PROVE  IInv'
<1>1. DoneOnce' /\ QueuedOnce'
  BY DEF IInv, DoneOnce, QueuedOnce, OnceIn
<1>2. StreamIntact'
  <2>1. Content(Queued)' = Content(Queued')
    BY DEF Content, Bytes
  <2>2. CASE io_state' # "OPEN"
    BY <2>2 DEF StreamIntact
  <2>3. CASE UNCHANGED <<wire, stream>> /\ (io_state' = "OPEN" => io_state = "OPEN")
    <3>1. Content(stream)' = Content(stream)
      BY <2>3 DEF Content, Bytes
    <3>2. QED
      BY <2>1, <2>3, <3>1 DEF IInv, StreamIntact
  <2>4. QED
    BY <2>2, <2>3
<1>3. QED
  BY <1>1, <1>2 DEF IInv

LEMMA OpenIInv == IInv /\ Open => IInv'
<1> SUFFICES ASSUME IInv, Open PROVE IInv'
  OBVIOUS
<1>1. Queued \in Seq(Item)
  BY QueuedType DEF IInv
<1>2. TypeOK'
  <2>1. socket' \in 0 .. MaxOpens /\ opens' \in 0 .. MaxOpens
    BY SocketAssumption DEF IInv, TypeOK, Open
  <2>2. QED
    BY <1>1, <2>1 DEF IInv, TypeOK, Open
<1>3. InCallback' /\ DoneOnce'
  BY DEF IInv, InCallback, DoneOnce, Open
<1>4. Queued' = Queued
  BY DEF Open, Queued
<1>5. QueuedOnce'
  BY <1>4 DEF IInv, QueuedOnce, OnceIn, Open
<1>6. StreamIntact'
  <2>1. Content(Queued') \in Wires
    BY <1>1, <1>4, ContentType
  <2>2. <<>> \o Content(Queued') = Content(Queued')
    BY <2>1, WiresClosed DEF Closed
  <2>3. wire' = <<>> /\ stream' = Queued'
    BY <1>4 DEF Open
  <2>4. Content(stream') = Content(Queued')
    BY <2>3
  <2>5. QED
    BY <2>2, <2>3, <2>4 DEF StreamIntact, Content, Bytes
<1>7. QED
  BY <1>2, <1>3, <1>5, <1>6 DEF IInv

LEMMA DestroyIInv == IInv /\ Destroy => IInv'
<1> SUFFICES ASSUME IInv, Destroy PROVE IInv'
  OBVIOUS
<1>1. TypeOK'
  BY SocketAssumption, DiscardedType DEF IInv, TypeOK, Destroy
<1>2. InCallback' /\ DoneOnce' /\ StreamIntact'
  BY DEF IInv, InCallback, DoneOnce, StreamIntact, Destroy
<1>3. QueuedOnce'
  <2>1. Queued' = <<>>
    BY DEF Destroy, Queued
  <2>2. QED
    BY <2>1, EmptySeq DEF QueuedOnce, OnceIn
<1>4. QED
  BY <1>1, <1>2, <1>3 DEF IInv

(* The steps that leave the queue as it is: Close, DoWork, the ends of the  *)
(* loop, the callbacks that return, and Receive.                            *)
LEMMA QuietIInv ==
  IInv /\ (Close \/ DoWork \/ FlushBlocked \/ FlushEnds \/ FlushReturns
             \/ Receive \/ ReceiveReturns \/ UNCHANGED vars) => IInv'
<1> SUFFICES ASSUME IInv,
                    Close \/ DoWork \/ FlushBlocked \/ FlushEnds \/ FlushReturns
                      \/ Receive \/ ReceiveReturns \/ UNCHANGED vars
             PROVE  IInv'
  OBVIOUS
<1> USE DEF InUser, Callbacks, EndFlush, Flushing, AfterSent
<1>1. /\ TypeOK' /\ InCallback' /\ Queued' = Queued /\ UNCHANGED <<sends, done>>
      /\ \/ UNCHANGED <<wire, stream>> /\ (io_state' = "OPEN" => io_state = "OPEN")
         \/ io_state' # "OPEN"
  <2>1. CASE Close
    BY <2>1, SocketAssumption DEF IInv, TypeOK, InCallback, Queued, Close
  <2>2. CASE DoWork
    BY <2>2 DEF IInv, TypeOK, InCallback, Queued, DoWork
  <2>3. CASE FlushBlocked
    BY <2>3 DEF IInv, TypeOK, InCallback, Queued, FlushBlocked
  <2>4. CASE FlushEnds
    BY <2>4 DEF IInv, TypeOK, InCallback, Queued, FlushEnds
  <2>5. CASE FlushReturns
    <3>1. pc = "sent" => pending # <<>> /\ Tail(pending) \in Seq(Item)
      BY HeadTailProperties DEF IInv, TypeOK, InCallback
    <3>2. QED
      BY <2>5, <3>1 DEF IInv, TypeOK, InCallback, Queued, FlushReturns
  <2>6. CASE Receive
    BY <2>6 DEF IInv, TypeOK, InCallback, Queued, Receive
  <2>7. CASE ReceiveReturns
    BY <2>7 DEF IInv, TypeOK, InCallback, Queued, ReceiveReturns
  <2>8. CASE UNCHANGED vars
    BY <2>8 DEF IInv, TypeOK, InCallback, Queued, vars
  <2>9. QED
    BY <2>1, <2>2, <2>3, <2>4, <2>5, <2>6, <2>7, <2>8
<1>2. QED
  BY <1>1, QueueUntouched

LEMMA SendIInv == IInv /\ Send => IInv'
<1> SUFFICES ASSUME IInv, Send PROVE IInv'
  OBVIOUS
<1> DEFINE m == sends + 1
           W == wire
           Q == Queued
<1>1. /\ m \in 1 .. Messages /\ sends' = m /\ sends \in Nat
      /\ io_state = "OPEN" /\ UNCHANGED <<io_state, socket, pc, opens>>
      /\ fate' \in [1 .. Messages -> Fates]
  <2>1. /\ m \in 1 .. Messages /\ sends' = m /\ sends \in Nat
        /\ io_state = "OPEN" /\ UNCHANGED <<io_state, socket, pc, opens>>
    BY SocketAssumption DEF Send, IInv, TypeOK
  <2>2. \E f \in Fates : fate' = [fate EXCEPT ![m] = f]
    BY <2>1 DEF Send, Answers, Fates
  <2>3. QED
    BY <2>1, <2>2 DEF IInv, TypeOK
<1>2. done[m] = 0
  BY <1>1 DEF IInv, DoneOnce
<1>3. /\ Q \in Seq(Item) /\ stream \in Seq(Item)
      /\ W \in Wires /\ Content(Q) \in Wires /\ Content(stream) \in Wires
      /\ W \o Content(Q) = Content(stream)
  BY <1>1, QueuedType, ContentType DEF IInv, TypeOK, StreamIntact, Wires
<1>4. ASSUME NEW n \in 1 .. Size
      PROVE  /\ [msg |-> m, left |-> n] \in Item
             /\ Bytes(m, n) \in Wires
  <2>1. n \in Nat
    BY SocketAssumption
  <2>2. QED
    BY <1>1, <2>1, BytesType DEF Item
<1>5. Whole(m) = [msg |-> m, left |-> Size] /\ Size \in 1 .. Size /\ Size \in Nat
  BY SocketAssumption DEF Whole
<1>6. ASSUME NEW n \in 1 .. Size
      PROVE  /\ OnceIn(Append(Q, [msg |-> m, left |-> n]), done, m)
             /\ Content(Append(Q, [msg |-> m, left |-> n])) = Content(Q) \o Bytes(m, n)
             /\ Content(Append(stream, [msg |-> m, left |-> n])) = Content(stream) \o Bytes(m, n)
  <2> DEFINE x == [msg |-> m, left |-> n]
  <2>1. x \in Item /\ x.msg = m /\ x.left = n
    BY <1>4
  <2> HIDE DEF x
  <2>2. OnceIn(Append(Q, x), done, m)
    BY <1>1, <1>2, <1>3, <2>1, OnceInAppend DEF IInv, QueuedOnce
  <2>3. /\ Content(Append(Q, x)) = Content(Q) \o Bytes(m, n)
        /\ Content(Append(stream, x)) = Content(stream) \o Bytes(m, n)
    BY <1>3, <2>1, ContentAppend
  <2>4. QED
    BY <2>2, <2>3 DEF x
<1>7. OnceIn(Q, done, m)
  BY <1>1, <1>3, OnceInLonger DEF IInv, QueuedOnce
<1>8. ASSUME NEW x1 \in Wires, NEW y1 \in Wires, NEW z1 \in Wires
      PROVE  (x1 \o y1) \o z1 = x1 \o (y1 \o z1)
  <2>1. \A x, y, z \in Wires : (x \o y) \o z = x \o (y \o z)
    BY WiresClosed DEF Closed
  <2>2. QED
    BY <2>1, Zenon
<1>9. \A x \in Wires : x \o <<>> = x /\ <<>> \o x = x
  BY WiresClosed DEF Closed
<1>10. pending = <<>> => pc # "sent" /\ Q = <<>>
  BY DEF IInv, InCallback, Queued
<1>11. \A x, y \in Wires : x \o y \in Wires
  BY WiresClosed DEF Closed
<1> HIDE DEF m, W, Q
\* Behind what is queued.
<1>20. ASSUME pending' = Append(pending, Whole(m)), stream' = Append(stream, Whole(m)),
              UNCHANGED <<wire, done>>
       PROVE  IInv'
  <2>0. Whole(m) \in Item
    BY <1>4, <1>5
  <2>1. Queued' = Append(Q, Whole(m)) /\ InCallback'
    <3>1. CASE pc = "sent"
      <4>1. pending # <<>> /\ pending \in Seq(Item)
        BY <3>1 DEF IInv, TypeOK, InCallback
      <4>2. /\ Tail(Append(pending, Whole(m))) = Append(Tail(pending), Whole(m))
            /\ Append(pending, Whole(m)) # <<>>
        BY <2>0, <4>1, HeadTailAppend, AppendProperties
      <4>3. QED
        BY <1>1, <1>20, <3>1, <4>2 DEF Queued, InCallback, Q
    <3>2. CASE pc # "sent"
      BY <1>1, <1>20, <3>2 DEF Queued, InCallback, Q
    <3>3. QED
      BY <3>1, <3>2
  <2>2. TypeOK'
    <3>1. Append(pending, Whole(m)) \in Seq(Item) /\ Append(stream, Whole(m)) \in Seq(Item)
      BY <1>3, <2>0, AppendProperties DEF IInv, TypeOK
    <3>2. QED
      BY <1>1, <1>20, <3>1 DEF IInv, TypeOK
  <2>3. QueuedOnce'
    <3>1. OnceIn(Append(Q, Whole(m)), done, m)
      BY <1>5, <1>6
    <3>2. QED
      BY <1>1, <1>20, <2>1, <3>1 DEF QueuedOnce, OnceIn
  <2>4. DoneOnce'
    BY <1>1, <1>20 DEF IInv, TypeOK, DoneOnce, m
  <2>5. StreamIntact'
    <3> DEFINE b == Bytes(m, Size)
               c == Content(Q)
    <3>1. b \in Wires /\ c \in Wires
      BY <1>3, <1>4, <1>5
    <3>2. Content(Append(Q, Whole(m))) = c \o b
      BY <1>5, <1>6
    <3>3. Content(Append(stream, Whole(m))) = Content(stream) \o b
      BY <1>5, <1>6
    <3>4. W \o c = Content(stream)
      BY <1>3
    <3> HIDE DEF b, c
    <3>5. (W \o c) \o b = W \o (c \o b)
      BY <1>3, <1>8, <3>1
    <3>6. W \o Content(Append(Q, Whole(m))) = Content(Append(stream, Whole(m)))
      BY <3>2, <3>3, <3>4, <3>5
    <3>7. QED
      BY <1>20, <2>1, <3>6 DEF StreamIntact, Content, Bytes, W
  <2>6. QED
    BY <2>1, <2>2, <2>3, <2>4, <2>5 DEF IInv
\* Neither queued nor written, or not all of it.
<1>21. ASSUME UNCHANGED <<pending, stream, wire, done>> PROVE IInv'
  <2>1. Queued' = Q /\ InCallback'
    BY <1>1, <1>21 DEF IInv, Queued, InCallback, Q
  <2>2. TypeOK'
    BY <1>1, <1>21, SocketAssumption DEF IInv, TypeOK
  <2>3. QueuedOnce' /\ DoneOnce'
    BY <1>1, <1>7, <1>21, <2>1 DEF IInv, TypeOK, QueuedOnce, DoneOnce, OnceIn, m
  <2>4. StreamIntact'
    BY <1>1, <1>3, <1>21, <2>1 DEF StreamIntact, Content, Bytes, Q, W
  <2>5. QED
    BY <2>1, <2>2, <2>3, <2>4 DEF IInv
\* Written whole.
<1>22. ASSUME pending = <<>>, wire' = wire \o Bytes(m, Size),
              stream' = Append(stream, Whole(m)), done' = Completed(m), UNCHANGED pending
       PROVE  IInv'
  <2>0. Whole(m) \in Item /\ Bytes(m, Size) \in Wires
    BY <1>4, <1>5
  <2>1. Queued' = Q /\ Q = <<>> /\ InCallback'
    BY <1>1, <1>10, <1>22 DEF Queued, InCallback, Q
  <2>2. TypeOK'
    <3>1. /\ wire \o Bytes(m, Size) \in Wires /\ Append(stream, Whole(m)) \in Seq(Item)
          /\ Completed(m) \in [1 .. Messages -> Nat]
      BY <1>1, <1>3, <1>11, <2>0, AppendProperties DEF IInv, TypeOK, Completed, W
    <3>2. QED
      BY <1>1, <1>22, <3>1 DEF IInv, TypeOK, Wires
  <2>3. QueuedOnce'
    BY <1>1, <2>1, EmptySeq DEF QueuedOnce, OnceIn
  <2>4. DoneOnce'
    BY <1>1, <1>2, <1>22 DEF IInv, TypeOK, DoneOnce, Completed, m
  <2>5. StreamIntact'
    <3>1. Content(Append(stream, Whole(m))) = Content(stream) \o Bytes(m, Size)
      BY <1>5, <1>6
    <3>2. Content(stream) = W
      BY <1>3, <1>9, <2>1, ContentEmpty
    <3> DEFINE d == W \o Bytes(m, Size)
    <3>3. d \in Wires
      BY <1>3, <1>11, <2>0
    <3>4. d \o Content(Q) = d
      BY <1>9, <2>1, <3>3, ContentEmpty
    <3> HIDE DEF d
    <3>5. d \o Content(Q) = Content(Append(stream, Whole(m)))
      BY <3>1, <3>2, <3>4 DEF d
    <3>6. QED
      BY <1>22, <2>1, <3>5 DEF StreamIntact, Content, Bytes, W, d
  <2>6. QED
    BY <2>1, <2>2, <2>3, <2>4, <2>5 DEF IInv
\* Written in part, and the rest is queued.
<1>23. ASSUME NEW n \in 1 .. Size - 1, pending = <<>>, wire' = wire \o Bytes(m, n),
              pending' = Append(pending, [msg |-> m, left |-> Size - n]),
              stream' = Append(stream, Whole(m)), UNCHANGED done
       PROVE  IInv'
  <2> DEFINE x == [msg |-> m, left |-> Size - n]
  <2>0. /\ n \in 1 .. Size /\ Size - n \in 1 .. Size /\ n \in Nat /\ Size - n \in Nat
        /\ n + (Size - n) = Size
    BY <1>5
  <2>a. /\ x \in Item /\ Whole(m) \in Item /\ Bytes(m, n) \in Wires
        /\ Bytes(m, Size - n) \in Wires
    BY <1>4, <1>5, <2>0
  <2>1. Queued' = Append(Q, x) /\ Q = <<>> /\ InCallback'
    BY <1>1, <1>10, <1>23 DEF Queued, InCallback, Q
  <2>2. TypeOK'
    <3>1. /\ wire \o Bytes(m, n) \in Wires /\ Append(stream, Whole(m)) \in Seq(Item)
          /\ Append(pending, x) \in Seq(Item)
      BY <1>3, <1>11, <2>a, AppendProperties DEF IInv, TypeOK, W
    <3>2. QED
      BY <1>1, <1>23, <3>1 DEF IInv, TypeOK, Wires
  <2>3. QueuedOnce'
    <3>1. OnceIn(Append(Q, x), done, m)
      BY <1>6, <2>0
    <3>2. QED
      BY <1>1, <1>23, <2>1, <3>1 DEF QueuedOnce, OnceIn
  <2>4. DoneOnce'
    BY <1>1, <1>23 DEF IInv, TypeOK, DoneOnce, m
  <2>5. StreamIntact'
    <3> DEFINE a == Bytes(m, n)
               b == Bytes(m, Size - n)
    <3>1. Content(Append(stream, Whole(m))) = Content(stream) \o Bytes(m, Size)
      BY <1>5, <1>6
    <3>2. Content(stream) = W
      BY <1>3, <1>9, <2>1, ContentEmpty
    <3>3. Bytes(m, Size) = a \o b
      BY <1>1, <2>0, BytesSplit
    <3>4. Content(Append(Q, x)) = b
      <4>1. Content(Append(Q, x)) = Content(Q) \o b
        BY <1>6, <2>0
      <4>2. QED
        BY <1>9, <2>1, <2>a, <4>1, ContentEmpty
    <3>5. a \in Wires /\ b \in Wires
      BY <2>a
    <3> HIDE DEF a, b, x
    <3>6. (W \o a) \o b = W \o (a \o b)
      BY <1>3, <1>8, <3>5
    <3>7. (W \o a) \o Content(Append(Q, x)) = Content(Append(stream, Whole(m)))
      BY <3>1, <3>2, <3>3, <3>4, <3>6
    <3>8. QED
      BY <1>23, <2>1, <3>7 DEF StreamIntact, Content, Bytes, W, a
  <2>6. QED
    BY <2>1, <2>2, <2>3, <2>4, <2>5 DEF IInv
\* Written in part, and there is no memory for the rest.
<1>24. ASSUME NEW n \in 1 .. Size - 1, pending = <<>>, wire' = wire \o Bytes(m, n),
              stream' = Append(stream, [msg |-> m, left |-> n]), UNCHANGED <<pending, done>>
       PROVE  IInv'
  <2> DEFINE x == [msg |-> m, left |-> n]
  <2>0. n \in 1 .. Size
    BY <1>5
  <2>a. x \in Item /\ Bytes(m, n) \in Wires
    BY <1>4, <2>0
  <2>1. Queued' = Q /\ Q = <<>> /\ InCallback'
    BY <1>1, <1>10, <1>24 DEF Queued, InCallback, Q
  <2>2. TypeOK'
    <3>1. wire \o Bytes(m, n) \in Wires /\ Append(stream, x) \in Seq(Item)
      BY <1>3, <1>11, <2>a, AppendProperties DEF W
    <3>2. QED
      BY <1>1, <1>24, <3>1 DEF IInv, TypeOK, Wires
  <2>3. QueuedOnce'
    BY <1>1, <2>1, EmptySeq DEF QueuedOnce, OnceIn
  <2>4. DoneOnce'
    BY <1>1, <1>24 DEF IInv, TypeOK, DoneOnce, m
  <2>5. StreamIntact'
    <3>1. Content(Append(stream, x)) = Content(stream) \o Bytes(m, n)
      BY <1>6, <2>0
    <3>2. Content(stream) = W
      BY <1>3, <1>9, <2>1, ContentEmpty
    <3> DEFINE d == W \o Bytes(m, n)
    <3>3. d \in Wires
      BY <1>3, <1>11, <2>a
    <3>4. d \o Content(Q) = d
      BY <1>9, <2>1, <3>3, ContentEmpty
    <3> HIDE DEF d, x
    <3>5. d \o Content(Q) = Content(Append(stream, x))
      BY <3>1, <3>2, <3>4 DEF d
    <3>6. QED
      BY <1>24, <2>1, <3>5 DEF StreamIntact, Content, Bytes, W, d, x
  <2>6. QED
    BY <2>1, <2>2, <2>3, <2>4, <2>5 DEF IInv
<1>30. \/ /\ pending' = Append(pending, Whole(m)) /\ stream' = Append(stream, Whole(m))
          /\ UNCHANGED <<wire, done>>
       \/ UNCHANGED <<pending, stream, wire, done>>
       \/ /\ pending = <<>> /\ wire' = wire \o Bytes(m, Size)
          /\ stream' = Append(stream, Whole(m)) /\ done' = Completed(m) /\ UNCHANGED pending
       \/ \E n \in 1 .. Size - 1 :
            /\ pending = <<>> /\ wire' = wire \o Bytes(m, n) /\ UNCHANGED done
            /\ \/ /\ pending' = Append(pending, [msg |-> m, left |-> Size - n])
                  /\ stream' = Append(stream, Whole(m))
               \/ /\ stream' = Append(stream, [msg |-> m, left |-> n]) /\ UNCHANGED pending
  BY <1>1, <1>5 DEF Send, SendNow, AddPendingIo
<1>31. QED
  BY <1>20, <1>21, <1>22, <1>23, <1>24, <1>30

(* What the flush loop knows about the first message of the queue.          *)
LEMMA FirstQueued ==
  ASSUME IInv, Flushing
  PROVE  /\ pc = "flush" /\ Queued = pending
         /\ pending \in Seq(Item) /\ pending # <<>>
         /\ Head(pending) \in Item /\ Tail(pending) \in Seq(Item)
         /\ done[Head(pending).msg] = 0 /\ Head(pending).msg <= sends
         /\ OnceIn(pending, done, sends)
<1>1. /\ pc = "flush" /\ Queued = pending /\ pending \in Seq(Item) /\ pending # <<>>
      /\ OnceIn(pending, done, sends)
  BY DEF IInv, TypeOK, Flushing, Queued, QueuedOnce
<1>2. /\ Head(pending) = pending[1] /\ Head(pending) \in Item
      /\ Tail(pending) \in Seq(Item) /\ 1 \in 1 .. Len(pending)
  BY <1>1, HeadTailProperties, EmptySeq
<1>3. QED
  BY <1>1, <1>2 DEF OnceIn

LEMMA FlushPartIInv == IInv /\ FlushPart => IInv'
<1> SUFFICES ASSUME IInv, FlushPart PROVE IInv'
  OBVIOUS
<1> DEFINE h == Head(pending)
<1>1. PICK n \in 1 .. h.left - 1 :
        wire' = wire \o Bytes(h.msg, n) /\ pending' = Shortened(pending, n)
  BY DEF FlushPart
<1>2. /\ pc = "flush" /\ Queued = pending /\ pending \in Seq(Item) /\ pending # <<>>
      /\ h \in Item /\ OnceIn(pending, done, sends)
  BY FirstQueued DEF FlushPart
<1>3. /\ h.msg \in 1 .. Messages /\ n \in Nat /\ Bytes(h.msg, n) \in Wires
  <2>1. h.msg \in 1 .. Messages /\ h.left \in Nat
    BY <1>2, ItemType
  <2>2. n \in Nat
    BY <2>1
  <2>3. QED
    BY <2>1, <2>2, BytesType
<1>4. pending' \in Seq(Item) /\ pending' # <<>> /\ OnceIn(pending', done, sends)
  BY <1>1, <1>2, ShortenedType, OnceInShortened
<1>5. Queued' = pending' /\ InCallback'
  BY <1>2 DEF FlushPart, EndFlush, Queued, InCallback
<1>6. TypeOK'
  <2>1. wire \o Bytes(h.msg, n) \in Wires
    BY <1>3, WiresClosed DEF Closed, Wires, IInv, TypeOK
  <2>2. QED
    BY <1>1, <1>4, <2>1 DEF IInv, TypeOK, FlushPart, EndFlush, Wires
<1>7. QueuedOnce' /\ DoneOnce'
  BY <1>4, <1>5 DEF IInv, QueuedOnce, DoneOnce, OnceIn, FlushPart
<1>8. StreamIntact'
  <2> SUFFICES ASSUME io_state = "OPEN"
               PROVE  wire' \o Content(pending') = Content(stream)
    BY <1>5 DEF StreamIntact, FlushPart, Content, Bytes
  <2> DEFINE w == wire
             b == Bytes(h.msg, n)
             c == Content(Shortened(pending, n))
  <2>1. w \o Content(pending) = Content(stream)
    BY <1>2 DEF IInv, StreamIntact
  <2>2. Content(pending) = b \o c
    BY <1>2, ContentShortened
  <2>3. w \in Wires /\ b \in Wires /\ c \in Wires
    <3>1. Shortened(pending, n) \in Seq(Item)
      BY <1>1, <1>4
    <3>2. QED
      BY <1>3, <3>1, ContentType DEF IInv, TypeOK, Wires
  <2>4. wire' \o Content(pending') = (w \o b) \o c
    BY <1>1
  <2> HIDE DEF w, b, c
  <2>5. \A x, y, z \in Wires : (x \o y) \o z = x \o (y \o z)
    BY WiresClosed DEF Closed
  <2>6. (w \o b) \o c = w \o (b \o c)
    BY <2>3, <2>5, Zenon
  <2>7. QED
    BY <2>1, <2>2, <2>4, <2>6
<1>9. QED
  BY <1>5, <1>6, <1>7, <1>8 DEF IInv

LEMMA FlushWholeIInv == IInv /\ FlushWhole => IInv'
<1> SUFFICES ASSUME IInv, FlushWhole PROVE IInv'
  OBVIOUS
<1> DEFINE h == Head(pending)
           t == Tail(pending)
<1>1. /\ wire' = wire \o Bytes(h.msg, h.left) /\ done' = Completed(h.msg)
      /\ pc' = "sent" /\ UNCHANGED <<io_state, pending, sends, stream, socket, opens, fate>>
  BY DEF FlushWhole
<1>2. /\ pc = "flush" /\ Queued = pending /\ pending \in Seq(Item) /\ pending # <<>>
      /\ h \in Item /\ t \in Seq(Item) /\ OnceIn(pending, done, sends)
      /\ done[h.msg] = 0 /\ h.msg <= sends
  BY FirstQueued DEF FlushWhole
<1>3. h.msg \in 1 .. Messages /\ h.left \in Nat /\ Bytes(h.msg, h.left) \in Wires
  BY <1>2, ItemType, BytesType
<1>4. Queued' = t /\ InCallback'
  BY <1>1, <1>2 DEF Queued, InCallback
<1>5. TypeOK'
  <2>1. wire \o Bytes(h.msg, h.left) \in Wires
    BY <1>3, WiresClosed DEF Closed, Wires, IInv, TypeOK
  <2>2. Completed(h.msg) \in [1 .. Messages -> Nat]
    BY <1>3 DEF IInv, TypeOK, Completed
  <2>3. QED
    BY <1>1, <2>1, <2>2 DEF IInv, TypeOK, Callbacks, Wires
<1>6. DoneOnce'
  BY <1>1, <1>2, <1>3 DEF IInv, TypeOK, DoneOnce, Completed
<1>7. QueuedOnce'
  <2>1. OnceIn(t, done, sends) /\ \A i \in 1 .. Len(t) : t[i].msg # h.msg
    BY <1>2, OnceInTail
  <2>2. OnceIn(t, Completed(h.msg), sends)
    BY <1>2, <1>3, <2>1, OnceInCompleted DEF IInv, TypeOK, Completed
  <2>3. QED
    BY <1>1, <1>4, <2>2 DEF QueuedOnce, OnceIn
<1>8. StreamIntact'
  <2> SUFFICES ASSUME io_state = "OPEN"
               PROVE  wire' \o Content(t) = Content(stream)
    BY <1>1, <1>4 DEF StreamIntact, Content, Bytes
  <2> DEFINE w == wire
             b == Bytes(h.msg, h.left)
             c == Content(t)
  <2>1. w \o Content(pending) = Content(stream)
    BY <1>2 DEF IInv, StreamIntact
  <2>2. Content(pending) = b \o c
    BY <1>2, ContentTail
  <2>3. w \in Wires /\ b \in Wires /\ c \in Wires
    BY <1>2, <1>3, ContentType DEF IInv, TypeOK, Wires
  <2>4. wire' \o Content(t) = (w \o b) \o c
    BY <1>1
  <2> HIDE DEF w, b, c
  <2>5. \A x, y, z \in Wires : (x \o y) \o z = x \o (y \o z)
    BY WiresClosed DEF Closed
  <2>6. (w \o b) \o c = w \o (b \o c)
    BY <2>3, <2>5, Zenon
  <2>7. QED
    BY <2>1, <2>2, <2>4, <2>6
<1>9. QED
  BY <1>4, <1>5, <1>6, <1>7, <1>8 DEF IInv

LEMMA FlushFailsIInv == IInv /\ FlushFails => IInv'
<1> SUFFICES ASSUME IInv, FlushFails PROVE IInv'
  OBVIOUS
<1>1. /\ pending \in Seq(Item) /\ pending # <<>> /\ Tail(pending) \in Seq(Item)
      /\ OnceIn(pending, done, sends)
  BY FirstQueued DEF FlushFails
<1>2. /\ pending' = Tail(pending) /\ io_state' = "ERROR" /\ pc' = "sendError"
      /\ UNCHANGED <<socket, opens, sends, wire, stream, done>>
      /\ fate' \in [1 .. Messages -> Fates]
  BY DiscardedType DEF FlushFails, IInv
<1>3. TypeOK' /\ InCallback' /\ DoneOnce' /\ StreamIntact'
  BY <1>1, <1>2 DEF IInv, TypeOK, Callbacks, InCallback, DoneOnce, StreamIntact
<1>4. OnceIn(Tail(pending), done, sends)
  BY <1>1, OnceInTail
<1>5. QueuedOnce'
  BY <1>2, <1>4 DEF QueuedOnce, OnceIn, Queued
<1>6. QED
  BY <1>3, <1>5 DEF IInv

LEMMA NextIInv == IInv /\ [Next]_vars => IInv'
BY OpenIInv, DestroyIInv, QuietIInv, SendIInv, FlushPartIInv, FlushWholeIInv,
   FlushFailsIInv DEF Next

-------------------------------------------------------------------------------
(* The messages of a queue.                                                 *)
Members(q) == {q[i].msg : i \in DOMAIN q}

LEMMA MembersAppend ==
  ASSUME NEW q \in Seq(Item), NEW x \in Item
  PROVE  Members(Append(q, x)) = Members(q) \cup {x.msg}
<1>1. /\ Len(Append(q, x)) = Len(q) + 1 /\ Len(q) \in Nat
      /\ \A i \in 1 .. Len(q) : Append(q, x)[i] = q[i]
      /\ Append(q, x)[Len(q) + 1] = x
      /\ DOMAIN q = 1 .. Len(q) /\ DOMAIN Append(q, x) = 1 .. Len(q) + 1
  BY AppendProperties
<1>2. 1 .. Len(q) + 1 = (1 .. Len(q)) \cup {Len(q) + 1}
  BY <1>1
<1> DEFINE p == Append(q, x)
<1> HIDE DEF p
<1>3. ASSUME NEW m PROVE m \in Members(p) <=> m \in Members(q) \/ m = x.msg
  <2>1. m \in Members(p) <=> \E i \in 1 .. Len(q) + 1 : p[i].msg = m
    BY <1>1 DEF Members, p
  <2>2. m \in Members(q) <=> \E i \in 1 .. Len(q) : q[i].msg = m
    BY <1>1 DEF Members
  <2>3. \A i \in 1 .. Len(q) : p[i].msg = q[i].msg
    BY <1>1 DEF p
  <2>4. p[Len(q) + 1].msg = x.msg
    BY <1>1 DEF p
  <2>5. QED
    BY <1>2, <2>1, <2>2, <2>3, <2>4
<1>4. QED
  BY <1>3 DEF p

LEMMA MembersTail ==
  ASSUME NEW q \in Seq(Item), q # <<>>
  PROVE  Members(q) = {Head(q).msg} \cup Members(Tail(q))
<1> DEFINE r == Tail(q)
<1>1. /\ r \in Seq(Item) /\ Len(r) = Len(q) - 1 /\ Head(q) = q[1]
      /\ \A i \in 1 .. Len(r) : r[i] = q[i + 1]
      /\ Len(q) \in Nat \ {0}
  BY HeadTailProperties, EmptySeq
<1>2. DOMAIN q = 1 .. Len(q) /\ DOMAIN r = 1 .. Len(r)
  BY <1>1
<1> HIDE DEF r
<1>3. ASSUME NEW m PROVE m \in Members(q) <=> m \in Members(r) \/ m = Head(q).msg
  <2>1. m \in Members(q) <=> \E i \in 1 .. Len(q) : q[i].msg = m
    BY <1>2 DEF Members
  <2>2. m \in Members(r) <=> \E i \in 1 .. Len(r) : r[i].msg = m
    BY <1>2 DEF Members
  <2>3. ASSUME NEW i \in 1 .. Len(r), r[i].msg = m PROVE m \in Members(q)
    <3>1. i + 1 \in 1 .. Len(q) /\ q[i + 1].msg = m
      BY <1>1, <2>3
    <3>2. QED
      BY <2>1, <3>1
  <2>4. ASSUME NEW i \in 1 .. Len(q), q[i].msg = m, i # 1 PROVE m \in Members(r)
    <3>1. i - 1 \in 1 .. Len(r) /\ (i - 1) + 1 = i
      BY <1>1, <2>4
    <3>2. r[i - 1].msg = m
      BY <1>1, <2>4, <3>1
    <3>3. QED
      BY <2>2, <3>1, <3>2
  <2>5. 1 \in 1 .. Len(q)
    BY <1>1
  <2>6. QED
    BY <1>1, <2>1, <2>2, <2>3, <2>4, <2>5
<1>4. QED
  BY <1>3 DEF r

LEMMA MembersShortened ==
  ASSUME NEW q \in Seq(Item), q # <<>>, NEW n \in 1 .. Head(q).left - 1
  PROVE  Members(Shortened(q, n)) = Members(q)
<1>1. /\ Shortened(q, n) \in Seq(Item) /\ Len(Shortened(q, n)) = Len(q)
      /\ \A i \in 1 .. Len(q) : Shortened(q, n)[i].msg = q[i].msg
  BY ShortenedType
<1>2. DOMAIN Shortened(q, n) = 1 .. Len(q) /\ DOMAIN q = 1 .. Len(q)
  BY <1>1
<1>3. QED
  BY <1>1, <1>2 DEF Members

LEMMA MembersQueued ==
  ASSUME NEW q \in Seq(Item), NEW d, NEW k, OnceIn(q, d, k), NEW m \in Members(q)
  PROVE  m \in 1 .. Messages /\ m <= k /\ d[m] = 0
<1>1. PICK i \in 1 .. Len(q) : q[i].msg = m
  BY DEF Members
<1>2. q[i] \in Item
  BY <1>1
<1>3. QED
  BY <1>1, <1>2, ItemType DEF OnceIn

(* The steps whose effect on the queue, the callbacks and the answers is    *)
(* that of a set of messages leaving or entering.                           *)
LEMMA AccountedAs ==
  Accounted <=> \A m \in 1 .. Messages :
                  fate[m] = "accepted" <=> (done[m] = 1 \/ m \in Members(Queued))
BY DEF Accounted, Handled, Members

LEMMA AccountedNext ==
  ASSUME \A m \in 1 .. Messages :
           fate'[m] = "accepted" <=> (done'[m] = 1 \/ m \in Members(Queued'))
  PROVE  Accounted'
<1>1. Members(Queued') = {Queued'[i].msg : i \in DOMAIN Queued'}
  BY DEF Members
<1>2. \A m \in 1 .. Messages :
        m \in Members(Queued') <=> \E i \in DOMAIN Queued' : Queued'[i].msg = m
  BY <1>1
<1>3. QED
  BY <1>2 DEF Accounted, Handled

LEMMA SendAccounted == IInv /\ Accounted /\ Send => Accounted'
<1> SUFFICES ASSUME IInv, Accounted, Send PROVE Accounted'
  OBVIOUS
<1> DEFINE m == sends + 1
           Q == Queued
<1>1. /\ m \in 1 .. Messages /\ sends \in Nat /\ UNCHANGED pc
      /\ Q \in Seq(Item) /\ OnceIn(Q, done, sends)
      /\ done \in [1 .. Messages -> Nat] /\ fate \in [1 .. Messages -> Fates]
      /\ done[m] = 0
  <2>1. m \in 1 .. Messages /\ sends \in Nat
    BY SocketAssumption DEF Send, IInv, TypeOK
  <2>2. QED
    BY <2>1, QueuedType DEF Send, IInv, TypeOK, QueuedOnce, DoneOnce
<1>2. m \notin Members(Q)
  BY <1>1, MembersQueued
<1>3. \A k \in 1 .. Messages : fate[k] = "accepted" <=> (done[k] = 1 \/ k \in Members(Q))
  BY AccountedAs
<1> HIDE DEF m, Q
\* It stays out of the queue.
<1>4. ASSUME NEW f \in {"blocked", "refused"}, fate' = [fate EXCEPT ![m] = f],
             UNCHANGED <<pending, done>>
      PROVE  Accounted'
  <2>1. Queued' = Q
    BY <1>1, <1>4 DEF Queued, Q
  <2>2. QED
    BY <1>1, <1>2, <1>3, <1>4, <2>1, AccountedNext
\* It is sent at once.
<1>5. ASSUME fate' = [fate EXCEPT ![m] = "accepted"], done' = Completed(m), UNCHANGED pending
      PROVE  Accounted'
  <2>1. Queued' = Q
    BY <1>1, <1>5 DEF Queued, Q
  <2>2. QED
    BY <1>1, <1>3, <1>5, <2>1, AccountedNext DEF Completed
\* It is queued.
<1>6. ASSUME NEW n \in 1 .. Size, fate' = [fate EXCEPT ![m] = "accepted"],
             pending' = Append(pending, [msg |-> m, left |-> n]), UNCHANGED done
      PROVE  Accounted'
  <2> DEFINE x == [msg |-> m, left |-> n]
  <2>1. x \in Item /\ x.msg = m
    BY <1>1 DEF Item
  <2>2. Queued' = Append(Q, x)
    <3>1. CASE pc = "sent"
      <4>1. pending # <<>> /\ pending \in Seq(Item)
        BY <3>1 DEF IInv, TypeOK, InCallback
      <4>2. Tail(Append(pending, x)) = Append(Tail(pending), x)
        BY <2>1, <4>1, HeadTailAppend
      <4>3. QED
        BY <1>1, <1>6, <3>1, <4>2 DEF Queued, Q
    <3>2. CASE pc # "sent"
      BY <1>1, <1>6, <3>2 DEF Queued, Q
    <3>3. QED
      BY <3>1, <3>2
  <2>3. Members(Queued') = Members(Q) \cup {m}
    BY <1>1, <2>1, <2>2, MembersAppend
  <2>4. QED
    BY <1>1, <1>3, <1>6, <2>3, AccountedNext
<1>7. \/ /\ fate' = [fate EXCEPT ![m] = "accepted"] /\ UNCHANGED done
         /\ \E n \in 1 .. Size : pending' = Append(pending, [msg |-> m, left |-> n])
      \/ /\ fate' = [fate EXCEPT ![m] = "accepted"] /\ done' = Completed(m)
         /\ UNCHANGED pending
      \/ /\ \E f \in {"blocked", "refused"} : fate' = [fate EXCEPT ![m] = f]
         /\ UNCHANGED <<pending, done>>
  <2>1. Size \in 1 .. Size /\ \A n \in 1 .. Size - 1 : Size - n \in 1 .. Size
    BY SocketAssumption
  <2>2. QED
    BY <2>1 DEF Send, SendNow, AddPendingIo, Whole, Answers, m
<1>8. QED
  BY <1>4, <1>5, <1>6, <1>7

LEMMA NextAccounted == IInv /\ Accounted /\ [Next]_vars => Accounted'
<1> SUFFICES ASSUME IInv, Accounted, [Next]_vars PROVE Accounted'
  OBVIOUS
<1>1. \A m \in 1 .. Messages :
        fate[m] = "accepted" <=> (done[m] = 1 \/ m \in Members(Queued))
  BY AccountedAs
<1>2. done \in [1 .. Messages -> Nat] /\ fate \in [1 .. Messages -> Fates]
  BY DEF IInv, TypeOK
<1>3. CASE Send
  BY <1>3, SendAccounted
<1>4. CASE Destroy
  <2>1. Queued = pending /\ pending \in Seq(Item) /\ OnceIn(pending, done, sends)
    BY <1>4 DEF Destroy, Queued, IInv, TypeOK, QueuedOnce
  <2>2. /\ Queued' = <<>> /\ done' = done
        /\ fate' = [m \in 1 .. Messages |->
                      IF m \in Members(pending) THEN "discarded" ELSE fate[m]]
    BY <1>4 DEF Destroy, Queued, Discarded, Members
  <2>3. Members(Queued') = {}
    BY <2>2 DEF Members
  <2>4. \A m \in Members(pending) : done[m] = 0
    BY <2>1, MembersQueued
  <2>5. QED
    BY <1>1, <1>2, <2>1, <2>2, <2>3, <2>4, AccountedNext
<1>5. CASE FlushPart
  <2>1. /\ pc = "flush" /\ Queued = pending /\ pending \in Seq(Item) /\ pending # <<>>
    BY <1>5, FirstQueued DEF FlushPart
  <2>2. PICK n \in 1 .. Head(pending).left - 1 : pending' = Shortened(pending, n)
    BY <1>5 DEF FlushPart
  <2>3. Queued' = Shortened(pending, n) /\ UNCHANGED <<done, fate>>
    BY <1>5, <2>2 DEF FlushPart, EndFlush, Queued
  <2>4. Members(Queued') = Members(Queued)
    BY <2>1, <2>3, MembersShortened
  <2>5. QED
    BY <1>1, <2>3, <2>4, AccountedNext
<1>6. CASE FlushWhole
  <2> DEFINE h == Head(pending).msg
  <2>1. /\ Queued = pending /\ pending \in Seq(Item) /\ pending # <<>>
        /\ h \in 1 .. Messages /\ done[h] = 0
    BY <1>6, FirstQueued, ItemType DEF FlushWhole
  <2>2. Queued' = Tail(pending) /\ done' = Completed(h) /\ fate' = fate
    BY <1>6 DEF FlushWhole, Queued
  <2>3. Members(Queued) = {h} \cup Members(Queued')
    BY <2>1, <2>2, MembersTail
  <2>4. QED
    BY <1>1, <1>2, <2>1, <2>2, <2>3, AccountedNext DEF Completed
<1>7. CASE FlushFails
  <2> DEFINE h == Head(pending).msg
  <2>1. /\ Queued = pending /\ pending \in Seq(Item) /\ pending # <<>>
        /\ h \in 1 .. Messages /\ done[h] = 0 /\ OnceIn(pending, done, sends)
        /\ Tail(pending) \in Seq(Item)
    BY <1>7, FirstQueued, ItemType DEF FlushFails
  <2>2. /\ Queued' = Tail(pending) /\ done' = done
        /\ fate' = [m \in 1 .. Messages |-> IF m = h THEN "discarded" ELSE fate[m]]
    BY <1>7 DEF FlushFails, Queued, Discarded
  <2>3. Members(Queued) = {h} \cup Members(Queued')
    BY <2>1, <2>2, MembersTail
  <2>4. h \notin Members(Queued')
    <3>1. \A i \in 1 .. Len(Tail(pending)) : Tail(pending)[i].msg # h
      BY <2>1, OnceInTail
    <3>2. DOMAIN Tail(pending) = 1 .. Len(Tail(pending))
      BY <2>1
    <3>3. QED
      BY <2>2, <3>1, <3>2 DEF Members
  <2>5. QED
    BY <1>1, <1>2, <2>1, <2>2, <2>3, <2>4, AccountedNext
<1>8. CASE \/ Open \/ Close \/ DoWork \/ FlushBlocked \/ FlushEnds \/ FlushReturns
           \/ Receive \/ ReceiveReturns \/ UNCHANGED vars
  <2>1. Queued' = Queued /\ UNCHANGED <<done, fate>>
    <3> USE DEF InUser, Callbacks, EndFlush, Flushing, AfterSent, Queued
    <3>1. CASE Open \/ Close \/ DoWork \/ UNCHANGED vars
      BY <3>1 DEF Open, Close, DoWork, vars
    <3>2. CASE FlushBlocked \/ FlushEnds \/ FlushReturns
      BY <3>2 DEF FlushBlocked, FlushEnds, FlushReturns
    <3>3. CASE Receive \/ ReceiveReturns
      BY <3>3 DEF Receive, ReceiveReturns
    <3>4. QED
      BY <1>8, <3>1, <3>2, <3>3
  <2>2. QED
    BY <1>1, <2>1, AccountedNext
<1>9. QED
  BY <1>3, <1>4, <1>5, <1>6, <1>7, <1>8 DEF Next

LEMMA IInvCompletedOnce == IInv => CompletedOnce
<1> SUFFICES ASSUME IInv PROVE CompletedOnce
  OBVIOUS
<1>1. Queued \in Seq(Item)
  BY QueuedType DEF IInv
<1>2. DOMAIN Queued = 1 .. Len(Queued)
  BY <1>1
<1>3. ASSUME NEW m \in 1 .. Messages PROVE done[m] <= 1
  BY DEF IInv, DoneOnce
<1>4. ASSUME NEW m \in 1 .. Messages, done[m] = 1, NEW i \in DOMAIN Queued
      PROVE  Queued[i].msg # m
  BY <1>2, <1>4 DEF IInv, QueuedOnce, OnceIn
<1>5. QED
  BY <1>3, <1>4 DEF CompletedOnce

(* For every number and size of messages: what is on the wire and what is   *)
(* queued are together, byte for byte and in order, the messages that       *)
(* socketio_send wrote or queued, over partial sends, full queues, callbacks *)
(* that send and close, errors and reconnections; on_send_complete runs at  *)
(* most once for a message, never while it is still queued; and every       *)
(* message for which socketio_send answered 0 is completed or still queued, *)
(* unless a failed send or socketio_destroy freed it, or the kernel blocked  *)
(* when nothing was queued.                                                 *)
THEOREM SocketMessagesAccounted == Spec => []MessagesAccounted
<1>1. Init => IInv /\ Accounted
  <2>1. Init => Accounted
    BY EmptySeq DEF Init, Accounted, Handled, Queued
  <2>2. QED
    BY <2>1, InitIInv
<1>2. IInv /\ Accounted /\ [Next]_vars => (IInv /\ Accounted)'
  BY NextIInv, NextAccounted
<1>3. IInv /\ Accounted => MessagesAccounted
  BY IInvCompletedOnce DEF IInv, MessagesAccounted
<1>4. QED
  BY <1>1, <1>2, <1>3, PTL DEF Spec

================================================================================
