---------------------------- MODULE ServiceProofs -----------------------------
(***************************************************************************)
(* Proofs about three parts that a program calls and that do not call each *)
(* other.  The resilient HTTP client, for every bound: the three levels of *)
(* httpapiex.c balance what they open and end their retries, and the       *)
(* detailed HttpApi implements them.  The devices of the serializer, their *)
(* schemas and their transactions, for every number of devices, schemas and*)
(* models.  The memory accounting, for every number of threads, entries,   *)
(* blocks and sizes.                                                       *)
(***************************************************************************)
EXTENDS HttpApi, CodeFirst, Gballoc, DataLemmas

-------------------------------------------------------------------------------
(* The executions that are left: one for each level below the handle that   *)
(* is not marked as tried, and one for the level of the handle itself.      *)
Unmarked(level) == IF level \in st THEN 0 ELSE 1
Left ==
  IF step \in {"idle", "destroy", "destroyed"} THEN 0
  ELSE IF step # "try" THEN Unmarked(0) + Unmarked(1)
  ELSE IF k = 0 THEN Unmarked(0)
  ELSE IF k = 1 THEN Unmarked(0) + Unmarked(1)
  ELSE Unmarked(0) + Unmarked(1) + Unmarked(2)

(* Where the thread is, the handle is on the level of what it does.         *)
LevelOfStep ==
  /\ step = "try" => k \in 0 .. 2
  /\ step \in {"execute", "destroy"} => k = 2
  /\ step = "close" => k = 1

ExInv == ExTypeOK /\ LevelOfStep /\ Balanced /\ runs + Left <= 3

LEMMA InitExInv == ExInit => ExInv
<1> SUFFICES ASSUME ExInit PROVE ExInv
  OBVIOUS
<1>1. ~conn /\ conn \in BOOLEAN
  BY DEF ExInit
<1>2. ExTypeOK
  BY <1>1 DEF ExInit, ExTypeOK
<1>3. LevelOfStep /\ Balanced /\ runs + Left <= 3
  BY <1>1 DEF ExInit, LevelOfStep, Balanced, Left
<1>4. QED
  BY <1>2, <1>3 DEF ExInv

-------------------------------------------------------------------------------
(* A level that worked: its mark is worth the one of the next level.        *)
LEMMA ClimbKeeps ==
  ASSUME ExInv, NEW level \in {0, 1}, Trying(level), Climb,
         lib' = (IF level = 0 THEN lib + 1 ELSE lib), (conn' <=> level = 1), conn' \in BOOLEAN,
         UNCHANGED <<step, runs>>
  PROVE  ExInv'
<1> USE DEF ExInv, Trying, Climb
<1>1. ExTypeOK'
  BY DEF ExTypeOK
<1>2. LevelOfStep' /\ Balanced'
  BY DEF ExTypeOK, LevelOfStep, Balanced
<1>3. (runs + Left <= 3)'
  BY DEF ExTypeOK, Left, Unmarked
<1>4. QED
  BY <1>1, <1>2, <1>3

(* A level that failed or was tried: from it on there is less left.         *)
LEMMA FallBackKeeps ==
  ASSUME ExInv, step \in {"try", "execute"}, FallBack, UNCHANGED runs,
         conn' \in BOOLEAN, conn' <=> (k = 2 /\ conn)
  PROVE  ExInv'
<1> USE DEF ExInv, FallBack
<1>1. ExTypeOK'
  <2>1. k \in 0 .. 2 /\ k' \in -1 .. 1
    BY DEF ExTypeOK, LevelOfStep
  <2>2. st' \subseteq 0 .. 2
    BY DEF ExTypeOK
  <2>3. lib' \in Nat
    BY <2>1 DEF ExTypeOK, LevelOfStep, Balanced
  <2>4. step' \in {"idle", "try", "close"} /\ runs' \in Nat
    BY DEF ExTypeOK
  <2>5. QED
    BY <2>1, <2>2, <2>3, <2>4 DEF ExTypeOK
<1>2. LevelOfStep'
  BY DEF ExTypeOK, LevelOfStep
<1>3. Balanced'
  BY DEF ExTypeOK, LevelOfStep, Balanced
<1>4. (runs + Left <= 3)'
  BY DEF ExTypeOK, LevelOfStep, Left, Unmarked
<1>5. QED
  BY <1>1, <1>2, <1>3, <1>4

LEMMA NextExInv == ExInv /\ [ExNext]_exVars => ExInv'
<1> SUFFICES ASSUME ExInv, [ExNext]_exVars PROVE ExInv'
  OBVIOUS
<1> USE DEF ExInv
<1>1. CASE Begin
  BY <1>1 DEF Begin, ExTypeOK, LevelOfStep, Balanced, Left, Unmarked
<1>2. CASE InitLibrary
  <2>1. CASE Climb /\ lib' = lib + 1 /\ UNCHANGED step
    <3>1. ~conn' /\ conn' \in BOOLEAN
      BY <1>2 DEF InitLibrary, Trying, Balanced, ExTypeOK
    <3>2. QED
      BY <1>2, <2>1, <3>1, ClimbKeeps DEF InitLibrary
  <2>2. CASE FallBack
    <3>1. ~conn' /\ conn' \in BOOLEAN /\ step = "try"
      BY <1>2 DEF InitLibrary, Trying, Balanced, ExTypeOK
    <3>2. QED
      BY <1>2, <2>2, <3>1, FallBackKeeps DEF InitLibrary
  <2>3. QED
    BY <1>2, <2>1, <2>2 DEF InitLibrary
<1>3. CASE CreateConnection
  <2>1. CASE Climb /\ conn' = TRUE /\ UNCHANGED <<step, lib>>
    BY <1>3, <2>1, ClimbKeeps DEF CreateConnection
  <2>2. CASE FallBack /\ conn' = FALSE
    <3>1. ~conn' /\ conn' \in BOOLEAN /\ k = 1 /\ step = "try"
      BY <1>3, <2>2 DEF CreateConnection, Trying
    <3>2. QED
      BY <1>3, <2>2, <3>1, FallBackKeeps DEF CreateConnection
  <2>3. QED
    BY <1>3, <2>1, <2>2 DEF CreateConnection
<1>4. CASE TriedBefore
  <2>1. conn' \in BOOLEAN /\ (conn' <=> (k = 2 /\ conn))
    BY <1>4 DEF TriedBefore, Balanced, ExTypeOK
  <2>2. QED
    BY <1>4, <2>1, FallBackKeeps DEF TriedBefore
<1>5. CASE Execute
  BY <1>5 DEF Execute, Trying, ExTypeOK, LevelOfStep, Balanced, Left, Unmarked
<1>6. CASE Succeed
  BY <1>6 DEF Succeed, ExTypeOK, LevelOfStep, Balanced, Left, Unmarked
<1>7. CASE Fail
  <2>1. conn' \in BOOLEAN /\ (conn' <=> (k = 2 /\ conn))
    BY <1>7 DEF Fail, LevelOfStep, Balanced, ExTypeOK
  <2>2. QED
    BY <1>7, <2>1, FallBackKeeps DEF Fail
<1>8. CASE Closed
  <2>1. ~conn' /\ conn' \in BOOLEAN
    BY <1>8 DEF Closed
  <2>2. QED
    BY <1>8, <2>1 DEF Closed, ExTypeOK, LevelOfStep, Balanced, Left, Unmarked
<1>9. CASE Destroy
  BY <1>9 DEF Destroy, ExTypeOK, LevelOfStep, Balanced, Left, Unmarked
<1>10. CASE UNCHANGED exVars
  BY <1>10 DEF exVars, ExTypeOK, LevelOfStep, Balanced, Left, Unmarked
<1>11. QED
  BY <1>1, <1>2, <1>3, <1>4, <1>5, <1>6, <1>7, <1>8, <1>9, <1>10 DEF ExNext

LEMMA ExInvariant == ExSpec => []ExInv
BY InitExInv, NextExInv, PTL DEF ExSpec

(* What the invariant says of the properties.                               *)
LEMMA ExInvImplies == ExInv => Balanced /\ AttemptsBounded
<1> SUFFICES ASSUME ExInv PROVE Balanced /\ AttemptsBounded
  OBVIOUS
<1>1. Left \in Nat
  BY DEF ExInv, ExTypeOK, Left, Unmarked
<1>2. QED
  BY <1>1 DEF ExInv, ExTypeOK, AttemptsBounded

-------------------------------------------------------------------------------
(* A turn of the detailed machine is a step of the three levels or leaves   *)
(* them alone.                                                              *)
LEMMA StepRefines == [HttpNext]_apiVars => [ExNext]_exVars
<1> SUFFICES ASSUME [HttpNext]_apiVars PROVE [ExNext]_exVars
  OBVIOUS
<1> USE DEF ExNext, FailedWith, Failed, Finished, GoOn, NextLine
<1>1. CASE Request
  BY <1>1 DEF Request
<1>2. CASE DestroyHandle
  BY <1>2 DEF DestroyHandle
<1>3. CASE Report
  BY <1>3 DEF Report
<1>4. CASE Initialize \/ Create \/ Skip \/ Start
  BY <1>4 DEF Initialize, Create, Skip, Start
<1>5. CASE Open \/ Opening \/ Send \/ Sending \/ Sent
  BY <1>5 DEF Open, Opening, Send, Sending, Sent
<1>6. CASE ReadLine
  <2>1. PICK l, rest : StatusLine(l, rest) \/ HeaderLine(l, rest) \/ BodyBegins(l, rest)
                         \/ ChunkLine(l, rest)
    BY <1>6 DEF ReadLine
  <2>2. QED
    BY <2>1 DEF StatusLine, HeaderLine, BodyBegins, ChunkLine
<1>7. CASE ReadOn \/ ReadFails \/ ReadSpins \/ ReadData
  BY <1>7 DEF ReadOn, ReadFails, ReadSpins, ReadData
<1>8. CASE Close \/ Closing
  BY <1>8 DEF Close, Closing, CloseDone
<1>9. CASE UNCHANGED apiVars
  BY <1>9 DEF apiVars
<1>10. QED
  BY <1>1, <1>2, <1>3, <1>4, <1>5, <1>6, <1>7, <1>8, <1>9 DEF HttpNext, HttpThread

(* HTTPAPI_ExecuteRequest and CloseConnection, pumped turn by turn with     *)
(* every failure of the io, do to the handle what httpapiex.c expects.      *)
THEOREM ImplementsLevels == HttpSpec => ExSpec
<1>1. HttpInit => ExInit
  BY DEF HttpInit
<1>2. QED
  BY <1>1, StepRefines, PTL DEF HttpSpec, ExSpec

(* Each HTTPAPI_Init has its HTTPAPI_Deinit and each connection is closed   *)
(* (httpapiex.c:299-530), for every bound on requests, parts and waits.     *)
THEOREM LevelsBalance == HttpSpec => []Balanced
<1>1. ExSpec => []Balanced
  BY ExInvariant, ExInvImplies, PTL
<1>2. QED
  BY <1>1, ImplementsLevels, PTL

(* A request is executed at most three times, once more than documented, and *)
(* no oftener (httpapiex.c:348), for every bound.                           *)
THEOREM RetriesEnd == HttpSpec => []AttemptsBounded
<1>1. ExSpec => []AttemptsBounded
  BY ExInvariant, ExInvImplies, PTL
<1>2. QED
  BY <1>1, ImplementsLevels, PTL

-------------------------------------------------------------------------------
(* The values of a transaction: one for each path that was named.           *)
Distinct(v) == \A i, j \in DOMAIN v : v[i].path = v[j].path => i = j

PathsIn(v) == {v[i].path : i \in DOMAIN v}

(* w is what v becomes when all the paths P are given their value by the    *)
(* n-th value of the call.                                                  *)
Replaces(w, v, P, n) ==
  /\ Distinct(w)
  /\ PathsIn(w) = PathsIn(v) \cup P
  /\ \A i \in DOMAIN w :
       IF w[i].path \in P THEN w[i].nth = n ELSE \E j \in DOMAIN v : w[i] = v[j]

LEMMA ReplacesNone ==
  ASSUME NEW v \in Values, Distinct(v), NEW n
  PROVE  Replaces(v, v, {}, n)
BY DEF Replaces

LEMMA ReplacesTwice ==
  ASSUME NEW v \in Values, NEW w \in Values, NEW x \in Values, NEW P, NEW p \in Paths,
         NEW n, Replaces(w, v, P, n), Replaces(x, w, {p}, n)
  PROVE  Replaces(x, v, P \cup {p}, n)
<1>1. Distinct(x)
  BY DEF Replaces
<1>2. PathsIn(x) = PathsIn(v) \cup (P \cup {p})
  BY DEF Replaces
<1>3. ASSUME NEW i \in DOMAIN x
      PROVE  IF x[i].path \in P \cup {p} THEN x[i].nth = n ELSE \E j \in DOMAIN v : x[i] = v[j]
  <2>1. CASE x[i].path = p
    BY <2>1 DEF Replaces
  <2>2. CASE x[i].path # p
    <3>1. PICK u \in DOMAIN w : x[i] = w[u]
      BY <2>2 DEF Replaces
    <3>2. QED
      BY <2>2, <3>1 DEF Replaces
  <2>3. QED
    BY <2>1, <2>2
<1>4. QED
  BY <1>1, <1>2, <1>3 DEF Replaces

(* DataPublisher_PublishTransacted gives one path its value.                *)
LEMMA PublishReplaces ==
  ASSUME NEW v \in Values, NEW p \in Paths, NEW n \in 1 .. MaxValues
  PROVE  /\ Publish(v, p, n) \in Values
         /\ Distinct(v) => Replaces(Publish(v, p, n), v, {p}, n)
<1> DEFINE I == {u \in 1 .. Len(v) : v[u].path = p}
           Pair == [path : Paths, nth : 1 .. MaxValues]
           i == SelectInSeq(v, LAMBDA e : e.path = p)
           w == Publish(v, p, n)
<1>0. v \in Seq(Pair) /\ Len(v) \in Nat /\ DOMAIN v = 1 .. Len(v)
  BY DEF Values
<1>1. CASE I = {}
  <2>1. i = 0
    BY <1>1 DEF SelectInSeq
  <2> DEFINE e == [path |-> p, nth |-> n]
  <2>2. w = Append(v, e)
    BY <2>1 DEF Publish
  <2>3. e \in Pair /\ e.path = p /\ e.nth = n
    OBVIOUS
  <2> HIDE DEF e, Pair
  <2>4. /\ w \in Seq(Pair) /\ Len(w) = Len(v) + 1 /\ DOMAIN w = 1 .. Len(v) + 1
        /\ w[Len(v) + 1] = e /\ \A u \in 1 .. Len(v) : w[u] = v[u]
    BY <1>0, <2>2, <2>3, AppendProperties
  <2>5. \A u \in DOMAIN v : v[u].path # p
    BY <1>0, <1>1
  <2> HIDE DEF w, I
  <2>6. w \in Values
    BY <2>4 DEF Values, Pair
  <2>7. ASSUME Distinct(v) PROVE Replaces(w, v, {p}, n)
    <3>1. \A u \in DOMAIN w : u = Len(v) + 1 \/ u \in DOMAIN v
      BY <1>0, <2>4
    <3>2. DOMAIN v \subseteq DOMAIN w /\ Len(v) + 1 \in DOMAIN w
      BY <1>0, <2>4
    <3>3. \A u \in DOMAIN v : w[u] = v[u]
      BY <1>0, <2>4
    <3>4. w[Len(v) + 1].path = p /\ w[Len(v) + 1].nth = n
      BY <2>3, <2>4
    <3>5. Distinct(w)
      BY <2>5, <2>7, <3>1, <3>3, <3>4 DEF Distinct
    <3>6. PathsIn(w) = PathsIn(v) \cup {p}
      BY <3>1, <3>2, <3>3, <3>4 DEF PathsIn
    <3>7. QED
      BY <2>5, <3>1, <3>3, <3>4, <3>5, <3>6 DEF Replaces
  <2>8. QED
    BY <2>6, <2>7 DEF w
<1>2. CASE I # {}
  <2>1. i \in I
    <3>1. I \subseteq Nat
      BY <1>0
    <3>2. \E x \in I : \A y \in I : x <= y
      <4> HIDE DEF I
      <4> QED
        BY <1>2, <3>1, LeastNumber
    <3>3. Min(I) \in I
      BY <3>2 DEF Min
    <3>4. i = Min(I)
      BY <1>2 DEF SelectInSeq
    <3>5. QED
      BY <3>3, <3>4
  <2>2. i \in DOMAIN v /\ v[i].path = p /\ i # 0
    BY <1>0, <2>1
  <2>3. w = [v EXCEPT ![i].nth = n]
    BY <2>2 DEF Publish
  <2> HIDE DEF i, I
  <2>4. /\ w \in Seq(Pair) /\ DOMAIN w = DOMAIN v
        /\ w[i].path = p /\ w[i].nth = n
        /\ \A u \in DOMAIN v : u # i => w[u] = v[u]
    <3>1. v[i] \in Pair /\ [v[i] EXCEPT !.nth = n] \in Pair
      <4>1. v[i] \in Pair
        <5> HIDE DEF Pair
        <5> QED
          BY <1>0, <2>2
      <4>2. QED
        BY <4>1
    <3>2. w = [v EXCEPT ![i] = [v[i] EXCEPT !.nth = n]]
      BY <2>2, <2>3
    <3>3. w[i] = [v[i] EXCEPT !.nth = n] /\ DOMAIN w = DOMAIN v
          /\ \A u \in DOMAIN v : u # i => w[u] = v[u]
      BY <1>0, <2>2, <3>2
    <3>4. [v[i] EXCEPT !.nth = n].path = p /\ [v[i] EXCEPT !.nth = n].nth = n
      BY <2>2, <3>1
    <3>5. w \in Seq(Pair)
      <4> HIDE DEF Pair
      <4> QED
        BY <1>0, <2>2, <3>1, <3>2
    <3>6. QED
      BY <3>3, <3>4, <3>5
  <2> HIDE DEF w
  <2>5. w \in Values
    BY <2>4 DEF Values
  <2>6. \A u \in DOMAIN v : w[u].path = v[u].path
    BY <2>2, <2>4
  <2>7. ASSUME Distinct(v) PROVE Replaces(w, v, {p}, n)
    <3>1. Distinct(w)
      BY <2>4, <2>6, <2>7 DEF Distinct
    <3>2. PathsIn(w) = PathsIn(v) \cup {p}
      BY <2>2, <2>4, <2>6 DEF PathsIn
    <3>3. \A u \in DOMAIN w : w[u].path = p => u = i
      BY <2>2, <2>4, <2>6, <2>7 DEF Distinct
    <3>4. QED
      BY <2>4, <3>1, <3>2, <3>3 DEF Replaces
  <2>8. QED
    BY <2>5, <2>7 DEF w
<1>3. QED
  BY <1>1, <1>2

(* A whole device gives all the properties of its model their value.        *)
LEMMA SendAllReplaces ==
  ASSUME NEW v \in Values, NEW m \in Model, NEW n \in 1 .. MaxValues, Distinct(v)
  PROVE  /\ SendAllDeviceProperties(v, m, n) \in Values
         /\ Replaces(SendAllDeviceProperties(v, m, n), v, Range(Top[m]), n)
<1> DEFINE q == Top[m]
           K == Len(q)
           S == 1 .. K
           pick == [s \in SUBSET S |-> Max(s)]
           each == [x \in S \X Values |-> Publish(x[2], q[x[1]], n)]
           Def(g) == [s \in SUBSET S |->
                        IF s = {} THEN v ELSE Publish(g[s \ {Max(s)}], q[Max(s)], n)]
           it == CHOOSE g : g = Def(g)
<1>0. q \in Seq(Paths) /\ K \in Nat /\ DOMAIN q = S /\ \A u \in S : q[u] \in Paths
  BY DataAssumption DEF DataAssumption
<1>1. SendAllDeviceProperties(v, m, n) = it[S]
  BY <1>0 DEF SendAllDeviceProperties, FoldLeft, MapThenFoldSet
<1> HIDE DEF q
<1>2. \E g \in [SUBSET S -> Values] : g = Def(g)
  <2>1. \A s \in SUBSET S : s # {} => Max(s) \in s
    BY <1>0, GreatestNumber
  <2>2. each \in [S \X Values -> Values]
    <3>1. \A x \in S \X Values : Publish(x[2], q[x[1]], n) \in Values
      BY <1>0, PublishReplaces
    <3>2. QED
      BY <3>1
  <2>3. \A s \in SUBSET S : pick[s] = Max(s)
    OBVIOUS
  <2>4. \A u \in S, x \in Values : each[<<u, x>>] = Publish(x, q[u], n)
    OBVIOUS
  <2>5. IsFiniteSet(S)
    BY <1>0, FS_Interval
  <2> HIDE DEF pick, each, K, S
  <2>6. PICK g \in [SUBSET S -> Values] : IsFold(g, S, v, pick, each)
    <3>1. \A s \in SUBSET S : s # {} => pick[s] \in s
      BY <2>1, <2>3
    <3>2. QED
      BY <2>2, <2>5, <3>1, SetRecursionExists
  <2>7. ASSUME NEW s \in SUBSET S
        PROVE  g[s] = IF s = {} THEN v ELSE Publish(g[s \ {Max(s)}], q[Max(s)], n)
    <3>1. CASE s = {}
      BY <2>6, <3>1 DEF IsFold
    <3>2. CASE s # {}
      <4>1. g[s] = each[<<pick[s], g[s \ {pick[s]}]>>]
        BY <2>6, <3>2 DEF IsFold
      <4>2. Max(s) \in S /\ g[s \ {Max(s)}] \in Values /\ pick[s] = Max(s)
        BY <2>1, <2>3, <3>2
      <4>3. QED
        BY <2>4, <3>2, <4>1, <4>2
    <3>3. QED
      BY <3>1, <3>2
  <2>8. QED
    BY <2>7
<1>3. it = Def(it)
  BY <1>2
<1>4. \A s \in SUBSET S : it[s] = IF s = {} THEN v ELSE Publish(it[s \ {Max(s)}], q[Max(s)], n)
  BY <1>3
<1> HIDE DEF it
<1> DEFINE Given(u) == {q[j] : j \in 1 .. u}
           T == {u \in Nat : it[1 .. u] \in Values /\ Replaces(it[1 .. u], v, Given(u), n)}
<1>5. 0 \in T
  <2>1. 1 .. 0 = {} /\ Given(0) = {}
    OBVIOUS
  <2>2. it[{}] = v
    BY <1>4
  <2> HIDE DEF Given
  <2>3. QED
    BY <2>1, <2>2, ReplacesNone
<1>6. ASSUME NEW u \in Nat, u < K, u \in T PROVE u + 1 \in T
  <2>0. u + 1 \in Nat /\ u + 1 \in 1 .. u + 1
    OBVIOUS
  <2>a. u + 1 <= K
    BY <1>0, <1>6
  <2>b. \A j \in 1 .. u + 1 : j \in 1 .. K
    BY <1>0, <2>a
  <2>1. 1 .. u + 1 \in SUBSET S /\ u + 1 \in S /\ 1 .. u + 1 # {}
    BY <2>0, <2>b
  <2>2. Max(1 .. u + 1) = u + 1
    <3>1. Max(1 .. u + 1) \in 1 .. u + 1 /\ \A y \in 1 .. u + 1 : y <= Max(1 .. u + 1)
      BY <2>0, <2>1, GreatestNumber
    <3>2. u + 1 \in 1 .. u + 1
      OBVIOUS
    <3>3. QED
      BY <3>1, <3>2
  <2>3. (1 .. u + 1) \ {u + 1} = 1 .. u
    OBVIOUS
  <2>4. it[1 .. u + 1] = Publish(it[1 .. u], q[u + 1], n)
    BY <1>4, <2>1, <2>2, <2>3
  <2>5. q[u + 1] \in Paths
    BY <1>0, <2>1
  <2>6. Given(u + 1) = Given(u) \cup {q[u + 1]}
    <3>1. \A j \in 1 .. u + 1 : j \in 1 .. u \/ j = u + 1
      OBVIOUS
    <3>2. 1 .. u \subseteq 1 .. u + 1 /\ u + 1 \in 1 .. u + 1
      OBVIOUS
    <3>3. QED
      BY <3>1, <3>2
  <2> HIDE DEF Given
  <2>7. it[1 .. u] \in Values /\ Replaces(it[1 .. u], v, Given(u), n)
    BY <1>6
  <2>8. /\ it[1 .. u + 1] \in Values
        /\ Replaces(it[1 .. u + 1], it[1 .. u], {q[u + 1]}, n)
    <3>1. Distinct(it[1 .. u])
      BY <2>7 DEF Replaces
    <3>2. QED
      BY <2>4, <2>5, <2>7, <3>1, PublishReplaces
  <2>9. Replaces(it[1 .. u + 1], v, Given(u + 1), n)
    BY <2>5, <2>6, <2>7, <2>8, ReplacesTwice
  <2>10. QED
    BY <2>8, <2>9
<1> HIDE DEF T
<1>7. 0 .. K \subseteq T
  BY <1>0, <1>5, <1>6, BoundedInduction
<1>8. Given(K) = Range(q)
  BY <1>0 DEF Range
<1>9. K \in T
  BY <1>0, <1>7
<1>10. QED
  BY <1>1, <1>8, <1>9 DEF T, q

-------------------------------------------------------------------------------
(* The inductive invariant.                                                 *)
Lifetimes ==
  /\ agent <=> state = "init"
  /\ state = "not" => table = <<>>
  /\ ~smashed => IsInjective(table) /\ Range(table) = Live

DevicesOf(h, m) == {d \in Users(h) : header[d].model = m}

(* What a device uses is there.                                             *)
Known ==
  \A d \in Live : /\ schemas[header[d].schema] # None
                  /\ header[d].model \in schemas[header[d].schema].models

(* The count s.refs is one that schema h may have.                          *)
Counted(h, s) ==
  \A m \in Model :
    /\ s.refs[m] <= creates
    /\ Cardinality(DevicesOf(h, m)) <= s.refs[m]
    /\ h \notin orphaned => s.refs[m] = Cardinality(DevicesOf(h, m))

Counts == \A h \in Schema : schemas[h] # None => Counted(h, schemas[h])

(* The values of the transaction are the ones its call has named.           *)
SendTracksCall ==
  send # None =>
    /\ send.dev = None => send.given = <<>>
    /\ Distinct(send.values)
    /\ PathsIn(send.values) = UNION {Names(send.given[n]) : n \in DOMAIN send.given}
    /\ \A i \in DOMAIN send.values :
         /\ send.values[i].nth \in DOMAIN send.given
         /\ send.values[i].path \in Names(send.given[send.values[i].nth])
         /\ \A n \in DOMAIN send.given :
              n > send.values[i].nth => send.values[i].path \notin Names(send.given[n])

IInv == TypeOK /\ Lifetimes /\ Known /\ Counts /\ SendTracksCall

-------------------------------------------------------------------------------
LEMMA HeaderFields ==
  ASSUME TypeOK, NEW d \in Live
  PROVE  header[d] \in Header /\ header[d].schema \in Schema /\ header[d].model \in Model
BY DEF TypeOK, Live, Header

LEMMA DevicesFinite ==
  ASSUME NEW h, NEW m
  PROVE  /\ IsFiniteSet(DevicesOf(h, m))
         /\ Cardinality(DevicesOf(h, m)) \in Nat
<1>1. DevicesOf(h, m) \in SUBSET Device /\ IsFiniteSet(Device)
  BY CodeFirstAssumption DEF CodeFirstAssumption, DevicesOf, Users, Live
<1>2. QED
  BY <1>1, FS_Subset, FS_CardinalityType

LEMMA IInvRefs == IInv => RefsAreTheDevices
BY DEF IInv, Known, Counts, Counted, DevicesOf, RefsAreTheDevices

LEMMA IInvTable == IInv => TableHoldsTheLiving
BY DEF IInv, Lifetimes, TableHoldsTheLiving

LEMMA IInvSend == IInv => SendsTheLastValues
<1> SUFFICES ASSUME IInv, send # None PROVE SendsTheLastValues
  BY DEF SendsTheLastValues
<1>1. /\ send.given \in Seq(Paths \cup {"all"}) /\ send.values \in Values
      /\ DOMAIN send.given = 1 .. Len(send.given) /\ Len(send.given) \in Nat
  BY DEF IInv, TypeOK, Transaction
<1>2. ASSUME NEW p \in UNION {Names(send.given[n]) : n \in DOMAIN send.given}
      PROVE  Cardinality({i \in DOMAIN send.values : send.values[i].path = p}) = 1
  <2>1. PICK i \in DOMAIN send.values : send.values[i].path = p
    BY <1>2 DEF IInv, SendTracksCall, PathsIn
  <2>2. {j \in DOMAIN send.values : send.values[j].path = p} = {i}
    BY <2>1 DEF IInv, SendTracksCall, Distinct
  <2>3. QED
    BY <2>2, FS_Singleton
<1>3. ASSUME NEW i \in DOMAIN send.values
      PROVE  LET v == send.values[i]
             IN /\ v.path \in Names(send.given[v.nth])
                /\ \A n \in v.nth + 1 .. Len(send.given) :
                     v.path \notin Names(send.given[n])
  <2>1. /\ send.values[i].nth \in 1 .. Len(send.given)
        /\ send.values[i].path \in Names(send.given[send.values[i].nth])
        /\ \A n \in 1 .. Len(send.given) :
             n > send.values[i].nth => send.values[i].path \notin Names(send.given[n])
    BY <1>1 DEF IInv, SendTracksCall
  <2>2. \A n \in send.values[i].nth + 1 .. Len(send.given) :
          n \in 1 .. Len(send.given) /\ n > send.values[i].nth
    BY <1>1, <2>1
  <2>3. QED
    BY <2>1, <2>2
<1>4. QED
  BY <1>2, <1>3 DEF SendsTheLastValues

LEMMA InitIInv == Init => IInv
<1> SUFFICES ASSUME Init PROVE IInv
  OBVIOUS
<1>1. TypeOK
  <2>1. <<>> \in Seq(Device) /\ 0 \in 0 .. MaxCreates
    BY CodeFirstAssumption DEF CodeFirstAssumption
  <2>2. QED
    BY <2>1 DEF Init, TypeOK
<1>2. Live = {}
  BY DEF Init, Live
<1>3. Lifetimes
  BY <1>2 DEF Init, Lifetimes, IsInjective, Range
<1>4. QED
  BY <1>1, <1>2, <1>3 DEF Init, IInv, Known, Counts, SendTracksCall

-------------------------------------------------------------------------------
(* The schema that a model is looked up in.                                 *)
LEMMA RegisteredFits ==
  ASSUME IInv, NEW ns \in Namespace, NEW h \in Schema, RegisterSchema(ns, h)
  PROVE  /\ Registered(ns, h) \in SchemaData
         /\ Counted(h, Registered(ns, h))
         /\ \A d \in Users(h) : header[d].model \in Registered(ns, h).models
<1>1. CASE schemas[h] = None
  <2> DEFINE s == Registered(ns, h)
  <2>1. s = [ns |-> NameOf(ns), models |-> Declares[ns], refs |-> [m \in Model |-> 0]]
    BY <1>1 DEF Registered
  <2>2. NameOf(ns) \in Namespace \cup {Override} /\ Declares[ns] \in SUBSET Model
    BY CodeFirstAssumption DEF CodeFirstAssumption, IInv, TypeOK, NameOf
  <2>3. [m \in Model |-> 0] \in [Model -> 0 .. MaxCreates]
    BY CodeFirstAssumption DEF CodeFirstAssumption
  <2>4. s \in SchemaData /\ \A m \in Model : s.refs[m] = 0
    BY <2>1, <2>2, <2>3 DEF SchemaData
  <2>5. Users(h) = {}
    BY <1>1, HeaderFields DEF IInv, Known, Users
  <2>6. \A m \in Model : Cardinality(DevicesOf(h, m)) = 0
    <3>1. \A m \in Model : DevicesOf(h, m) = {}
      BY <2>5 DEF DevicesOf
    <3>2. QED
      BY <3>1, FS_EmptySet
  <2>7. creates \in Nat
    BY DEF IInv, TypeOK
  <2> HIDE DEF s
  <2>8. QED
    BY <2>4, <2>5, <2>6, <2>7 DEF Counted, s
<1>2. CASE schemas[h] # None
  <2>1. Registered(ns, h) = schemas[h]
    BY <1>2 DEF Registered
  <2>2. schemas[h] \in SchemaData
    BY <1>2 DEF IInv, TypeOK
  <2>3. Counted(h, schemas[h])
    BY <1>2 DEF IInv, Counts
  <2>4. \A d \in Users(h) : header[d].model \in schemas[h].models
    BY DEF IInv, Known, Users
  <2>5. QED
    BY <2>1, <2>2, <2>3, <2>4
<1>3. QED
  BY <1>1, <1>2

(* While headers, counters and history stay, so do the devices of a schema. *)
LEMMA DevicesStay ==
  ASSUME UNCHANGED <<header, creates, orphaned>>
  PROVE  /\ Live' = Live
         /\ \A h : Users(h)' = Users(h)
         /\ \A h, m : DevicesOf(h, m)' = DevicesOf(h, m)
<1>1. Live' = Live
  BY DEF Live
<1>2. \A h : Users(h)' = Users(h)
  BY <1>1 DEF Users
<1>3. \A h, m : DevicesOf(h, m)' = DevicesOf(h, m)
  BY <1>2 DEF DevicesOf
<1>4. QED
  BY <1>1, <1>2, <1>3

(* A schema is looked up, nothing else happens to schemas and devices.      *)
LEMMA RegisterKeeps ==
  ASSUME IInv, NEW ns \in Namespace, NEW h \in Schema, RegisterSchema(ns, h),
         schemas' = [schemas EXCEPT ![h] = Registered(ns, h)],
         UNCHANGED <<header, creates, orphaned>>
  PROVE  /\ schemas' \in [Schema -> SchemaData \cup {None}]
         /\ Known' /\ Counts'
<1> DEFINE s == Registered(ns, h)
<1>1. s \in SchemaData /\ Counted(h, s) /\ \A d \in Users(h) : header[d].model \in s.models
  BY RegisteredFits
<1>2. s # None
  BY <1>1, DataAssumption DEF DataAssumption
<1>3. schemas \in [Schema -> SchemaData \cup {None}] /\ schemas' = [schemas EXCEPT ![h] = s]
  BY DEF IInv, TypeOK
<1> HIDE DEF s
<1>4. schemas' \in [Schema -> SchemaData \cup {None}]
  BY <1>1, <1>3
<1>5. \A g \in Schema : schemas'[g] = IF g = h THEN s ELSE schemas[g]
  BY <1>3
<1>6. Known'
  <2> SUFFICES ASSUME NEW d \in Live
               PROVE  /\ schemas'[header[d].schema] # None
                      /\ header[d].model \in schemas'[header[d].schema].models
    BY DevicesStay DEF Known
  <2>1. header[d].schema \in Schema
    BY HeaderFields DEF IInv
  <2>2. CASE header[d].schema = h
    BY <1>1, <1>2, <1>5, <2>1, <2>2 DEF Users
  <2>3. CASE header[d].schema # h
    BY <1>5, <2>1, <2>3 DEF IInv, Known
  <2>4. QED
    BY <2>2, <2>3
<1>7. Counts'
  <2> SUFFICES ASSUME NEW g \in Schema, schemas'[g] # None, NEW m \in Model
               PROVE  /\ schemas'[g].refs[m] <= creates
                      /\ Cardinality(DevicesOf(g, m)) <= schemas'[g].refs[m]
                      /\ g \notin orphaned =>
                           schemas'[g].refs[m] = Cardinality(DevicesOf(g, m))
    BY DevicesStay DEF Counts, Counted
  <2>1. Counted(g, schemas'[g])
    BY <1>1, <1>5 DEF IInv, Counts
  <2>2. QED
    BY <2>1 DEF Counted
<1>8. QED
  BY <1>4, <1>6, <1>7

(* Schemas and devices both stay.                                           *)
LEMMA SchemasStay ==
  ASSUME IInv, UNCHANGED <<schemas, header, creates, orphaned>>
  PROVE  Known' /\ Counts'
<1>1. Known'
  BY DevicesStay DEF IInv, Known
<1>2. Counts'
  BY DevicesStay DEF IInv, Counts, Counted
<1>3. QED
  BY <1>1, <1>2

(* The calls that look up a schema and leave the devices alone.             *)
LEMMA LookupIInv ==
  ASSUME IInv, NEW ns \in Namespace, NEW h \in Schema, NEW m,
         GetModelHandle(ns, h) \/ CreateDeviceFails(ns, m, h)
  PROVE  IInv'
<1>1. /\ RegisterSchema(ns, h)
      /\ schemas' = [schemas EXCEPT ![h] = Registered(ns, h)]
      /\ UNCHANGED <<agent, table, header, send, creates, orphaned, smashed>>
      /\ send = None
  BY DEF GetModelHandle, CreateDeviceFails, module, history
<1>2. /\ schemas' \in [Schema -> SchemaData \cup {None}]
      /\ Known' /\ Counts'
  BY <1>1, RegisterKeeps
<1>3. \/ UNCHANGED <<state, override>>
      \/ state = "not" /\ state' = "api" /\ override' = None
  BY DEF GetModelHandle, CreateDeviceFails, LazyInit, module
<1>4. TypeOK'
  BY <1>1, <1>2, <1>3 DEF IInv, TypeOK
<1>5. Lifetimes'
  <2>1. Live' = Live
    BY <1>1, DevicesStay
  <2>2. QED
    BY <1>1, <1>3, <2>1 DEF IInv, Lifetimes
<1>6. SendTracksCall'
  BY <1>1 DEF SendTracksCall
<1>7. QED
  BY <1>2, <1>4, <1>5, <1>6 DEF IInv

(* The calls that neither use schemas nor change the devices.               *)
LEMMA ModuleIInv ==
  ASSUME IInv, \/ \E ns \in {Override, None} : SerializerInit(ns)
               \/ DestroyUnknown \/ StartSend \/ EndSend \/ UNCHANGED vars
  PROVE  IInv'
<1>1. UNCHANGED <<schemas, header, creates, orphaned, smashed>>
  BY DEF SerializerInit, DestroyUnknown, StartSend, EndSend, vars, module, history
<1>2. Known' /\ Counts' /\ Live' = Live
  BY <1>1, SchemasStay, DevicesStay
<1>3. CASE \E ns \in {Override, None} : SerializerInit(ns)
  <2>1. TypeOK'
    BY <1>1, <1>3 DEF IInv, TypeOK, SerializerInit
  <2>2. Lifetimes'
    BY <1>1, <1>2, <1>3 DEF IInv, Lifetimes, SerializerInit
  <2>3. SendTracksCall'
    BY <1>3 DEF SendTracksCall, SerializerInit
  <2>4. QED
    BY <1>2, <2>1, <2>2, <2>3 DEF IInv
<1>4. CASE DestroyUnknown
  <2>0. table \in Seq(Device) /\ (Len(table) = 0 => table = <<>>)
    BY EmptySeq DEF IInv, TypeOK
  <2>1. /\ UNCHANGED <<agent, table, override, send>> /\ send = None
        /\ \/ UNCHANGED state
           \/ state = "api" /\ state' = "not" /\ table = <<>>
    BY <1>4, <2>0 DEF DestroyUnknown, CloseWhenEmpty
  <2>2. TypeOK'
    BY <1>1, <2>1 DEF IInv, TypeOK
  <2>3. Lifetimes'
    BY <1>1, <1>2, <2>1 DEF IInv, Lifetimes
  <2>4. SendTracksCall'
    BY <2>1 DEF SendTracksCall
  <2>5. QED
    BY <1>2, <2>2, <2>3, <2>4 DEF IInv
<1>5. CASE StartSend
  <2>1. /\ UNCHANGED <<agent, table>>
        /\ \/ UNCHANGED <<state, override>>
           \/ state = "not" /\ state' = "api" /\ override' = None
    BY <1>5 DEF StartSend, LazyInit, IInv, Lifetimes
  <2> DEFINE new == [dev |-> None, values |-> <<>>, given |-> <<>>]
  <2>2. new \in Transaction /\ Len(new.given) = 0
    BY DEF Transaction, Values
  <2>3. send' = new
    BY <1>5 DEF StartSend
  <2>4. new.dev = None /\ new.given = <<>> /\ new.values = <<>>
    OBVIOUS
  <2> HIDE DEF new
  <2>5. TypeOK'
    <3>1. 0 <= MaxValues
      BY CodeFirstAssumption DEF CodeFirstAssumption
    <3>2. QED
      BY <1>1, <2>1, <2>2, <2>3, <3>1 DEF IInv, TypeOK
  <2>6. Lifetimes'
    BY <1>1, <1>2, <2>1 DEF IInv, Lifetimes
  <2>7. SendTracksCall'
    BY <2>3, <2>4 DEF SendTracksCall, Distinct, PathsIn
  <2>8. QED
    BY <1>2, <2>5, <2>6, <2>7 DEF IInv
<1>6. CASE EndSend \/ UNCHANGED vars
  <2>1. /\ UNCHANGED <<agent, state, override, table>>
        /\ send' = None \/ UNCHANGED send
    BY <1>6 DEF EndSend, vars, module
  <2>2. TypeOK'
    BY <1>1, <2>1 DEF IInv, TypeOK
  <2>3. Lifetimes'
    BY <1>1, <1>2, <2>1 DEF IInv, Lifetimes
  <2>4. SendTracksCall'
    <3>1. CASE send' = None
      BY <3>1 DEF SendTracksCall
    <3>2. CASE UNCHANGED send
      <4>1. \A p : Names(p)' = Names(p)
        BY <1>1, <3>2 DEF Names
      <4>2. QED
        BY <3>2, <4>1 DEF IInv, SendTracksCall
    <3>3. QED
      BY <2>1, <3>1, <3>2
  <2>5. QED
    BY <1>2, <2>2, <2>3, <2>4 DEF IInv
<1>7. QED
  BY <1>3, <1>4, <1>5, <1>6

(* The module is closed with all the devices of the table.                  *)
LEMMA DeinitIInv == IInv /\ Deinit => IInv'
<1> SUFFICES ASSUME IInv, Deinit PROVE IInv'
  OBVIOUS
<1>0. Range(table) \subseteq Live
  BY DEF Deinit, Readable
<1>1. Live' = Live \ Range(table)
  BY <1>0 DEF Deinit, Live
<1>2. ASSUME NEW d \in Live' PROVE d \in Live /\ header'[d] = header[d] /\ d \notin Range(table)
  BY <1>1 DEF Deinit, Live
<1>3. orphaned' \subseteq Schema
  BY <1>0, HeaderFields DEF Deinit, IInv, TypeOK
<1>4. TypeOK'
  <2>1. <<>> \in Seq(Device)
    OBVIOUS
  <2>2. header' \in [Device -> Header \cup {None}]
    BY DEF Deinit, IInv, TypeOK
  <2>3. QED
    BY <1>3, <2>1, <2>2 DEF Deinit, IInv, TypeOK
<1>5. Lifetimes'
  <2>1. ~smashed => Live' = {}
    BY <1>1 DEF IInv, Lifetimes
  <2>2. Range(<<>>) = {} /\ IsInjective(<<>>)
    BY DEF Range, IsInjective
  <2>3. QED
    BY <2>1, <2>2 DEF Deinit, IInv, Lifetimes
<1>6. Known'
  BY <1>2 DEF Deinit, IInv, Known
<1>7. Counts'
  <2> SUFFICES ASSUME NEW h \in Schema, schemas[h] # None, NEW m \in Model
               PROVE  /\ schemas[h].refs[m] <= creates
                      /\ Cardinality(DevicesOf(h, m)') <= schemas[h].refs[m]
                      /\ h \notin orphaned' =>
                           schemas[h].refs[m] = Cardinality(DevicesOf(h, m)')
    BY DEF Deinit, Counts, Counted
  <2>1. DevicesOf(h, m)' \subseteq DevicesOf(h, m)
    BY <1>2 DEF DevicesOf, Users
  <2>2. h \notin orphaned' => DevicesOf(h, m)' = DevicesOf(h, m)
    <3> SUFFICES ASSUME h \notin orphaned', NEW d \in DevicesOf(h, m)
                 PROVE  d \in DevicesOf(h, m)'
      BY <2>1
    <3>1. d \in Live /\ header[d].schema = h /\ header[d].model = m
      BY DEF DevicesOf, Users
    <3>2. d \notin Range(table)
      BY <3>1 DEF Deinit
    <3>3. d \in Live' /\ header'[d] = header[d]
      BY <1>1, <1>2, <3>1, <3>2
    <3>4. QED
      BY <3>1, <3>3 DEF DevicesOf, Users
  <2>3. Cardinality(DevicesOf(h, m)') <= Cardinality(DevicesOf(h, m))
    BY <2>1, DevicesFinite, FS_Subset
  <2>4. /\ schemas[h].refs[m] <= creates
        /\ Cardinality(DevicesOf(h, m)) <= schemas[h].refs[m]
        /\ h \notin orphaned => schemas[h].refs[m] = Cardinality(DevicesOf(h, m))
    BY DEF IInv, Counts, Counted
  <2>5. /\ Cardinality(DevicesOf(h, m)') \in Nat /\ Cardinality(DevicesOf(h, m)) \in Nat
        /\ schemas[h].refs[m] \in Nat
    <3>1. schemas[h] \in SchemaData
      BY DEF IInv, TypeOK
    <3>2. schemas[h].refs[m] \in 0 .. MaxCreates
      BY <3>1 DEF SchemaData
    <3>3. QED
      BY <2>1, <3>2, DevicesFinite, FS_Subset, FS_CardinalityType
  <2>6. h \notin orphaned' => h \notin orphaned
    BY DEF Deinit
  <2>7. QED
    BY <2>2, <2>3, <2>4, <2>5, <2>6
<1>8. SendTracksCall'
  BY DEF Deinit, SendTracksCall
<1>9. QED
  BY <1>4, <1>5, <1>6, <1>7, <1>8 DEF IInv

-------------------------------------------------------------------------------
(* A device more.                                                           *)
LEMMA RefAdded ==
  ASSUME NEW s \in SchemaData, NEW m \in Model, s.refs[m] + 1 <= MaxCreates
  PROVE  /\ AddDeviceRef(s, m) \in SchemaData
         /\ AddDeviceRef(s, m).models = s.models
         /\ AddDeviceRef(s, m).refs[m] = s.refs[m] + 1
         /\ \A u \in Model : u # m => AddDeviceRef(s, m).refs[u] = s.refs[u]
<1> DEFINE r == [s.refs EXCEPT ![m] = @ + 1]
<1>1. s.refs \in [Model -> 0 .. MaxCreates] /\ MaxCreates \in Nat
  BY CodeFirstAssumption DEF CodeFirstAssumption, SchemaData
<1>2. s.refs[m] + 1 \in 0 .. MaxCreates
  <2>1. s.refs[m] \in 0 .. MaxCreates
    BY <1>1
  <2>2. QED
    BY <1>1, <2>1
<1>3. /\ r \in [Model -> 0 .. MaxCreates]
      /\ r[m] = s.refs[m] + 1 /\ \A u \in Model : u # m => r[u] = s.refs[u]
  BY <1>1, <1>2
<1>4. AddDeviceRef(s, m) = [s EXCEPT !.refs = r]
  BY DEF AddDeviceRef
<1> HIDE DEF r
<1>5. QED
  BY <1>3, <1>4 DEF SchemaData

LEMMA RefReleased ==
  ASSUME NEW s \in SchemaData, NEW m \in Model, s.refs[m] > 0
  PROVE  /\ ReleaseDeviceRef(s, m) \in SchemaData
         /\ ReleaseDeviceRef(s, m).models = s.models
         /\ ReleaseDeviceRef(s, m).refs[m] = s.refs[m] - 1
         /\ \A u \in Model : u # m => ReleaseDeviceRef(s, m).refs[u] = s.refs[u]
<1> DEFINE r == [s.refs EXCEPT ![m] = IF @ > 0 THEN @ - 1 ELSE @]
<1>1. s.refs \in [Model -> 0 .. MaxCreates] /\ MaxCreates \in Nat
  BY CodeFirstAssumption DEF CodeFirstAssumption, SchemaData
<1>2. s.refs[m] - 1 \in 0 .. MaxCreates
  <2>1. s.refs[m] \in 0 .. MaxCreates
    BY <1>1
  <2>2. QED
    BY <1>1, <2>1
<1>3. /\ r \in [Model -> 0 .. MaxCreates]
      /\ r[m] = s.refs[m] - 1 /\ \A u \in Model : u # m => r[u] = s.refs[u]
  BY <1>1, <1>2
<1>4. ReleaseDeviceRef(s, m) = [s EXCEPT !.refs = r]
  BY DEF ReleaseDeviceRef
<1> HIDE DEF r
<1>5. QED
  BY <1>3, <1>4 DEF SchemaData

(* What the entry at the end does to the table as a set.                    *)
LEMMA TableGrows ==
  ASSUME NEW q \in Seq(Device), IsInjective(q), NEW d \in Device, d \notin Range(q)
  PROVE  IsInjective(Append(q, d)) /\ Range(Append(q, d)) = Range(q) \cup {d}
<1> DEFINE p == Append(q, d)
<1>1. /\ Len(q) \in Nat /\ DOMAIN q = 1 .. Len(q) /\ DOMAIN p = 1 .. Len(q) + 1
      /\ p[Len(q) + 1] = d /\ \A i \in 1 .. Len(q) : p[i] = q[i]
  BY AppendProperties
<1> HIDE DEF p
<1>2. \A i \in DOMAIN p : i = Len(q) + 1 \/ (i \in DOMAIN q /\ p[i] = q[i])
  BY <1>1
<1>3. DOMAIN q \subseteq DOMAIN p /\ Len(q) + 1 \in DOMAIN p
  BY <1>1
<1>4. IsInjective(p)
  BY <1>1, <1>2 DEF IsInjective, Range
<1>5. Range(p) = Range(q) \cup {d}
  BY <1>1, <1>2, <1>3 DEF Range
<1>6. QED
  BY <1>4, <1>5 DEF p

LEMMA CreateIInv ==
  ASSUME IInv, NEW ns \in Namespace, NEW h \in Schema, NEW m \in Model, NEW d \in Device,
         CreateDevice(ns, m, h, d)
  PROVE  IInv'
<1> DEFINE r == Registered(ns, h)
           s == AddDeviceRef(r, m)
           new == [schema |-> h, model |-> m]
<1>0. /\ RegisterSchema(ns, h) /\ m \in r.models /\ header[d] = None
      /\ schemas' = [schemas EXCEPT ![h] = s]
      /\ header' = [header EXCEPT ![d] = new]
      /\ creates' = creates + 1 /\ creates < MaxCreates
      /\ send = None /\ UNCHANGED <<agent, send, orphaned, smashed>>
  BY DEF CreateDevice, history
<1>1. r \in SchemaData /\ Counted(h, r) /\ \A e \in Users(h) : header[e].model \in r.models
  BY <1>0, RegisteredFits
<1>2. \/ UNCHANGED <<state, override>> /\ state # "not"
      \/ state = "not" /\ state' = "api" /\ override' = None
  BY DEF CreateDevice, LazyInit
<1>3. table' = Append(table, d)
  BY DEF CreateDevice, IInv, Lifetimes
<1> HIDE DEF r
<1>4. /\ creates \in 0 .. MaxCreates /\ MaxCreates \in Nat
      /\ r.refs[m] <= creates /\ r.refs[m] \in 0 .. MaxCreates
  BY <1>1, CodeFirstAssumption DEF CodeFirstAssumption, IInv, TypeOK, Counted, SchemaData
<1>5. /\ s \in SchemaData /\ s.models = r.models
      /\ s.refs[m] = r.refs[m] + 1 /\ \A u \in Model : u # m => s.refs[u] = r.refs[u]
  <2>1. r.refs[m] + 1 <= MaxCreates
    BY <1>0, <1>4
  <2>2. QED
    BY <1>1, <2>1, RefAdded
<1>6. s # None
  BY <1>5, DataAssumption DEF DataAssumption
<1> HIDE DEF s
<1>7. new \in Header /\ new # None /\ new.schema = h /\ new.model = m
  BY DataAssumption DEF DataAssumption, Header
<1> HIDE DEF new
<1>8. \A g \in Schema : schemas'[g] = IF g = h THEN s ELSE schemas[g]
  BY <1>0 DEF IInv, TypeOK
<1>9. \A e \in Device : header'[e] = IF e = d THEN new ELSE header[e]
  BY <1>0 DEF IInv, TypeOK
<1>10. d \notin Live /\ Live' = Live \cup {d}
  BY <1>0, <1>7, <1>9 DEF Live
<1>11. TypeOK'
  <2>1. /\ schemas' \in [Schema -> SchemaData \cup {None}]
        /\ header' \in [Device -> Header \cup {None}]
    BY <1>0, <1>5, <1>7 DEF IInv, TypeOK
  <2>2. table' \in Seq(Device)
    BY <1>3 DEF IInv, TypeOK
  <2>3. creates' \in 0 .. MaxCreates
    BY <1>0, <1>4
  <2>4. QED
    BY <1>0, <1>2, <2>1, <2>2, <2>3 DEF IInv, TypeOK
<1>12. Lifetimes'
  <2>1. ~smashed => IsInjective(table') /\ Range(table') = Live'
    BY <1>3, <1>10, TableGrows DEF IInv, TypeOK, Lifetimes
  <2>2. QED
    BY <1>0, <1>2, <2>1 DEF IInv, Lifetimes
<1>13. Known'
  <2> SUFFICES ASSUME NEW e \in Live'
               PROVE  /\ schemas'[header'[e].schema] # None
                      /\ header'[e].model \in schemas'[header'[e].schema].models
    BY DEF Known
  <2>1. CASE e = d
    BY <1>0, <1>5, <1>6, <1>7, <1>8, <1>9, <2>1
  <2>2. CASE e # d
    <3>1. e \in Live /\ e \in Device /\ header'[e] = header[e]
      BY <1>9, <1>10, <2>2 DEF Live
    <3>2. header[e].schema \in Schema
      BY <3>1, HeaderFields DEF IInv
    <3>3. CASE header[e].schema = h
      BY <1>1, <1>5, <1>6, <1>8, <3>1, <3>2, <3>3 DEF Users
    <3>4. CASE header[e].schema # h
      BY <1>8, <3>1, <3>2, <3>4 DEF IInv, Known
    <3>5. QED
      BY <3>3, <3>4
  <2>3. QED
    BY <2>1, <2>2
<1>14. Counts'
  <2> SUFFICES ASSUME NEW g \in Schema, schemas'[g] # None, NEW u \in Model
               PROVE  /\ schemas'[g].refs[u] <= creates'
                      /\ Cardinality(DevicesOf(g, u)') <= schemas'[g].refs[u]
                      /\ g \notin orphaned =>
                           schemas'[g].refs[u] = Cardinality(DevicesOf(g, u)')
    BY <1>0 DEF Counts, Counted
  <2> DEFINE old == IF g = h THEN r ELSE schemas[g]
  <2>1. old \in SchemaData /\ Counted(g, old)
    BY <1>1, <1>8 DEF IInv, TypeOK, Counts
  <2>2. /\ old.refs[u] \in Nat /\ old.refs[u] <= creates
        /\ Cardinality(DevicesOf(g, u)) <= old.refs[u]
        /\ g \notin orphaned => old.refs[u] = Cardinality(DevicesOf(g, u))
    <3> HIDE DEF old
    <3>1. old.refs[u] \in 0 .. MaxCreates
      BY <2>1 DEF SchemaData
    <3>2. QED
      BY <1>4, <2>1, <3>1 DEF Counted
  <2>3. Cardinality(DevicesOf(g, u)) \in Nat /\ IsFiniteSet(DevicesOf(g, u))
    BY DevicesFinite
  <2>4. CASE g = h /\ u = m
    <3>1. DevicesOf(g, u)' = DevicesOf(g, u) \cup {d} /\ d \notin DevicesOf(g, u)
      BY <1>7, <1>9, <1>10, <2>4 DEF DevicesOf, Users, Live
    <3>2. Cardinality(DevicesOf(g, u)') = Cardinality(DevicesOf(g, u)) + 1
      BY <2>3, <3>1, FS_AddElement
    <3>3. schemas'[g].refs[u] = old.refs[u] + 1
      BY <1>5, <1>8, <2>4
    <3> HIDE DEF old
    <3>4. QED
      BY <1>0, <1>4, <2>2, <2>3, <3>2, <3>3
  <2>5. CASE ~(g = h /\ u = m)
    <3>1. DevicesOf(g, u)' = DevicesOf(g, u)
      BY <1>7, <1>9, <1>10, <2>5 DEF DevicesOf, Users, Live
    <3>2. schemas'[g].refs[u] = old.refs[u]
      BY <1>5, <1>8, <2>5
    <3> HIDE DEF old
    <3>3. QED
      BY <1>0, <1>4, <2>2, <3>1, <3>2
  <2>6. QED
    BY <2>4, <2>5
<1>15. SendTracksCall'
  BY <1>0 DEF SendTracksCall
<1>16. QED
  BY <1>11, <1>12, <1>13, <1>14, <1>15 DEF IInv

-------------------------------------------------------------------------------
(* A device less.  The table, in which d is the i-th entry:                 *)
LEMMA TableShrinks ==
  ASSUME NEW q \in Seq(Device), NEW i \in DOMAIN q, IsInjective(q)
  PROVE  IsInjective(RemoveAt(q, i)) /\ Range(RemoveAt(q, i)) = Range(q) \ {q[i]}
<1> DEFINE p == RemoveAt(q, i)
<1>1. /\ Len(q) \in Nat /\ DOMAIN q = 1 .. Len(q) /\ DOMAIN p = 1 .. Len(q) - 1
      /\ \A j \in 1 .. Len(q) - 1 : p[j] = IF j < i THEN q[j] ELSE q[j + 1]
  <2>1. Len(q) \in Nat /\ DOMAIN q = 1 .. Len(q)
    OBVIOUS
  <2>2. /\ DOMAIN p = 1 .. Len(q) - 1
        /\ \A j \in 1 .. Len(q) - 1 : p[j] = IF j < i THEN q[j] ELSE q[j + 1]
    BY RemoveAtElements, Zenon
  <2>3. QED
    BY <2>1, <2>2
<1> HIDE DEF p
<1>2. ASSUME NEW j \in DOMAIN p
      PROVE  \/ j < i /\ j \in DOMAIN q /\ p[j] = q[j]
             \/ ~(j < i) /\ j + 1 \in DOMAIN q /\ p[j] = q[j + 1]
  BY <1>1
<1>3. IsInjective(p)
  <2> SUFFICES ASSUME NEW j \in DOMAIN p, NEW u \in DOMAIN p, p[j] = p[u] PROVE j = u
    BY DEF IsInjective
  <2>1. j \in Nat /\ u \in Nat /\ i \in Nat
    BY <1>1
  <2>2. CASE j < i /\ u < i
    BY <1>2, <2>2 DEF IsInjective
  <2>3. CASE ~(j < i) /\ ~(u < i)
    <3>1. j + 1 = u + 1
      BY <1>2, <2>3 DEF IsInjective
    <3>2. QED
      BY <2>1, <3>1
  <2>4. CASE j < i /\ ~(u < i)
    <3>1. j = u + 1
      BY <1>2, <2>4 DEF IsInjective
    <3>2. QED
      BY <2>1, <2>4, <3>1
  <2>5. CASE ~(j < i) /\ u < i
    <3>1. j + 1 = u
      BY <1>2, <2>5 DEF IsInjective
    <3>2. QED
      BY <2>1, <2>5, <3>1
  <2>6. QED
    BY <2>2, <2>3, <2>4, <2>5
<1>4. ASSUME NEW e \in Range(p) PROVE e \in Range(q) \ {q[i]}
  <2>1. PICK j \in DOMAIN p : e = p[j]
    BY DEF Range
  <2>2. PICK u \in DOMAIN q : e = q[u] /\ u # i
    BY <1>1, <1>2, <2>1
  <2>3. QED
    BY <2>2 DEF Range, IsInjective
<1>5. ASSUME NEW e \in Range(q) \ {q[i]} PROVE e \in Range(p)
  <2>1. PICK u \in DOMAIN q : e = q[u] /\ u # i
    BY DEF Range
  <2>2. CASE u < i
    <3>1. u \in DOMAIN p /\ p[u] = e
      BY <1>1, <2>1, <2>2
    <3>2. QED
      BY <3>1 DEF Range
  <2>3. CASE u > i
    <3>1. u - 1 \in DOMAIN p /\ p[u - 1] = e
      BY <1>1, <2>1, <2>3
    <3>2. QED
      BY <3>1 DEF Range
  <2>4. QED
    BY <1>1, <2>1, <2>2, <2>3
<1>6. Range(p) = Range(q) \ {q[i]}
  BY <1>4, <1>5
<1>7. QED
  BY <1>3, <1>6 DEF p

(* The memcpy onto itself, whatever it does, leaves one entry less.         *)
LEMMA MovedDown ==
  ASSUME TypeOK, NEW i \in DOMAIN table, MoveDown(i)
  PROVE  /\ table' \in Seq(Device) /\ smashed' \in BOOLEAN
         /\ Len(table) - 1 = 0 => table' = <<>>
         /\ ~smashed' => ~smashed /\ table' = RemoveAt(table, i)
<1>0. table \in Seq(Device) /\ Len(table) \in Nat /\ DOMAIN table = 1 .. Len(table)
  BY DEF TypeOK
<1>1. CASE table' = RemoveAt(table, i) /\ UNCHANGED smashed
  <2>1. table' \in Seq(Device) /\ Len(table') = Len(table) - 1
    BY <1>0, <1>1, RemoveAtElements
  <2>2. QED
    BY <1>1, <2>1, EmptySeq DEF TypeOK
<1>2. CASE ~(table' = RemoveAt(table, i) /\ UNCHANGED smashed)
  <2> DEFINE backward == [j \in 1 .. Len(table) - 1 |-> IF j < i THEN table[j] ELSE Last(table)]
  <2>1. Len(table) - i >= 2 /\ table' = backward /\ smashed' = TRUE
    BY <1>2 DEF MoveDown
  <2>2. Len(table) - 1 \in Nat /\ Last(table) \in Device
    BY <1>0, <2>1 DEF Last
  <2>3. ASSUME NEW j \in 1 .. Len(table) - 1 PROVE backward[j] \in Device
    <3>1. table[j] \in Device
      BY <1>0
    <3>2. QED
      BY <2>2, <3>1
  <2>4. backward \in Seq(Device)
    BY <2>2, <2>3
  <2>5. QED
    BY <1>0, <2>1, <2>4
<1>3. QED
  BY <1>1, <1>2

LEMMA DestroySays ==
  ASSUME IInv, NEW d \in Device, DestroyDevice(d)
  PROVE  \E h \in Schema, m \in Model, i \in DOMAIN table :
           /\ d \in Live /\ header[d].schema = h /\ header[d].model = m
           /\ table[i] = d /\ MoveDown(i)
           /\ schemas' = [schemas EXCEPT ![h] = DestroyIfUnused(ReleaseDeviceRef(@, m))]
           /\ header' = [header EXCEPT ![d] = None]
           /\ CloseWhenEmpty(Len(table) - 1)
           /\ orphaned' = {g \in orphaned : schemas'[g] # None}
           /\ send = None /\ UNCHANGED <<agent, override, send, creates>>
<1> DEFINE i == SelectInSeq(table, LAMBDA e : e = d)
           I == {u \in 1 .. Len(table) : table[u] = d}
<1>0. table \in Seq(Device) /\ Len(table) \in Nat /\ DOMAIN table = 1 .. Len(table)
  BY DEF IInv, TypeOK
<1>1. i # 0 /\ Readable
  BY DEF DestroyDevice
<1>2. I # {} /\ i = Min(I)
  BY <1>1 DEF SelectInSeq
<1>3. \E x \in I : \A y \in I : x <= y
  <2>1. I \subseteq Nat
    OBVIOUS
  <2> HIDE DEF I
  <2>2. QED
    BY <1>2, <2>1, LeastNumber
<1>4. i \in I
  BY <1>2, <1>3 DEF Min
<1>5. i \in DOMAIN table /\ table[i] = d
  BY <1>0, <1>4
<1>6. d \in Live
  BY <1>1, <1>5 DEF Readable, Range
<1>7. header[d].schema \in Schema /\ header[d].model \in Model
  BY <1>6, HeaderFields DEF IInv
<1>8. /\ MoveDown(i)
      /\ schemas' = [schemas EXCEPT ![header[d].schema] =
                       DestroyIfUnused(ReleaseDeviceRef(@, header[d].model))]
      /\ header' = [header EXCEPT ![d] = None]
      /\ CloseWhenEmpty(Len(table) - 1)
      /\ orphaned' = {g \in orphaned : schemas'[g] # None}
      /\ send = None /\ UNCHANGED <<agent, override, send, creates>>
  BY DEF DestroyDevice
<1> HIDE DEF i
<1>9. QED
  BY <1>5, <1>6, <1>7, <1>8

LEMMA DestroyIInv ==
  ASSUME IInv, NEW d \in Device, DestroyDevice(d)
  PROVE  IInv'
<1>1. PICK h \in Schema, m \in Model, i \in DOMAIN table :
        /\ d \in Live /\ header[d].schema = h /\ header[d].model = m
        /\ table[i] = d /\ MoveDown(i)
        /\ schemas' = [schemas EXCEPT ![h] = DestroyIfUnused(ReleaseDeviceRef(@, m))]
        /\ header' = [header EXCEPT ![d] = None]
        /\ CloseWhenEmpty(Len(table) - 1)
        /\ orphaned' = {g \in orphaned : schemas'[g] # None}
        /\ send = None /\ UNCHANGED <<agent, override, send, creates>>
  BY DestroySays
<1> DEFINE r == schemas[h]
           s == ReleaseDeviceRef(r, m)
<1>2. r # None /\ r \in SchemaData /\ Counted(h, r) /\ m \in r.models
  BY <1>1 DEF IInv, Known, Counts, TypeOK
<1>3. /\ IsFiniteSet(DevicesOf(h, m)) /\ Cardinality(DevicesOf(h, m)) \in Nat
      /\ d \in DevicesOf(h, m)
  <2>1. d \in DevicesOf(h, m)
    BY <1>1 DEF DevicesOf, Users
  <2>2. QED
    BY <2>1, DevicesFinite
<1>4. r.refs[m] > 0
  <2>1. Cardinality(DevicesOf(h, m)) # 0
    BY <1>3, FS_EmptySet
  <2>2. r.refs[m] \in 0 .. MaxCreates /\ Cardinality(DevicesOf(h, m)) <= r.refs[m]
    BY <1>2 DEF Counted, SchemaData
  <2> HIDE DEF r
  <2>3. QED
    BY <1>3, <2>1, <2>2
<1>5. /\ s \in SchemaData /\ s.models = r.models
      /\ s.refs[m] = r.refs[m] - 1 /\ \A u \in Model : u # m => s.refs[u] = r.refs[u]
  BY <1>2, <1>4, RefReleased
<1>6. schemas' = [schemas EXCEPT ![h] = DestroyIfUnused(s)]
  BY <1>1
<1> HIDE DEF r, s
<1>7. DestroyIfUnused(s) \in {s, None} /\ s # None
  BY <1>5, DataAssumption DEF DataAssumption, DestroyIfUnused
<1>8. \A g \in Schema : schemas'[g] = IF g = h THEN DestroyIfUnused(s) ELSE schemas[g]
  BY <1>6 DEF IInv, TypeOK
<1>9. \A e \in Device : header'[e] = IF e = d THEN None ELSE header[e]
  BY <1>1 DEF IInv, TypeOK
<1>10. Live' = Live \ {d}
  BY <1>9 DEF Live
<1>11. /\ table' \in Seq(Device) /\ smashed' \in BOOLEAN
       /\ Len(table) - 1 = 0 => table' = <<>>
       /\ ~smashed' => ~smashed /\ table' = RemoveAt(table, i)
  BY <1>1, MovedDown DEF IInv
<1>12. UNCHANGED state \/ (state = "api" /\ state' = "not" /\ table' = <<>>)
  BY <1>1, <1>11 DEF CloseWhenEmpty
<1>13. TypeOK'
  <2>1. /\ schemas' \in [Schema -> SchemaData \cup {None}]
        /\ header' \in [Device -> Header \cup {None}]
    BY <1>1, <1>5, <1>6, <1>7 DEF IInv, TypeOK
  <2>2. orphaned' \subseteq Schema
    BY <1>1 DEF IInv, TypeOK
  <2>3. QED
    BY <1>1, <1>11, <1>12, <2>1, <2>2 DEF IInv, TypeOK
<1>14. Lifetimes'
  <2>1. ~smashed' => IsInjective(table') /\ Range(table') = Live'
    BY <1>1, <1>10, <1>11, TableShrinks DEF IInv, TypeOK, Lifetimes
  <2>2. state = "not" => FALSE
    <3>1. ASSUME state = "not" PROVE DOMAIN table = {}
      BY <3>1 DEF IInv, Lifetimes
    <3>2. QED
      BY <3>1
  <2>3. QED
    BY <1>1, <1>12, <2>1, <2>2 DEF IInv, Lifetimes
(* What is left of schema h counts what is left of its devices.             *)
<1>15. ASSUME NEW g \in Schema, schemas[g] # None, NEW u \in Model,
              NEW t, t = IF g = h THEN s ELSE schemas[g]
       PROVE  /\ t.refs[u] <= creates
              /\ IsFiniteSet(DevicesOf(g, u)')
              /\ Cardinality(DevicesOf(g, u)') <= t.refs[u]
              /\ g \notin orphaned => t.refs[u] = Cardinality(DevicesOf(g, u)')
  <2>1. IsFiniteSet(DevicesOf(g, u)) /\ Cardinality(DevicesOf(g, u)) \in Nat
    BY DevicesFinite
  <2>2. /\ schemas[g].refs[u] \in Nat /\ schemas[g].refs[u] <= creates
        /\ Cardinality(DevicesOf(g, u)) <= schemas[g].refs[u]
        /\ g \notin orphaned => schemas[g].refs[u] = Cardinality(DevicesOf(g, u))
    <3>1. schemas[g] \in SchemaData /\ Counted(g, schemas[g])
      BY <1>15 DEF IInv, TypeOK, Counts
    <3>2. schemas[g].refs[u] \in 0 .. MaxCreates
      BY <3>1 DEF SchemaData
    <3>3. QED
      BY <3>1, <3>2 DEF Counted
  <2>3. creates \in Nat
    BY DEF IInv, TypeOK
  <2>4. CASE g = h /\ u = m
    <3>1. DevicesOf(g, u)' = DevicesOf(g, u) \ {d} /\ d \in DevicesOf(g, u)
      BY <1>3, <1>9, <1>10, <2>4 DEF DevicesOf, Users, Live
    <3>2. Cardinality(DevicesOf(g, u)') = Cardinality(DevicesOf(g, u)) - 1
      BY <2>1, <3>1, FS_RemoveElement
    <3>3. t.refs[u] = schemas[g].refs[u] - 1
      BY <1>5, <1>15, <2>4 DEF r
    <3>4. IsFiniteSet(DevicesOf(g, u)')
      BY <2>1, <3>1, FS_Subset
    <3>5. QED
      BY <2>1, <2>2, <2>3, <2>4, <3>2, <3>3, <3>4
  <2>5. CASE ~(g = h /\ u = m)
    <3>1. DevicesOf(g, u)' = DevicesOf(g, u)
      BY <1>1, <1>9, <1>10, <2>5 DEF DevicesOf, Users, Live
    <3>2. t.refs[u] = schemas[g].refs[u]
      BY <1>5, <1>15, <2>5 DEF r
    <3>3. QED
      BY <2>1, <2>2, <3>1, <3>2
  <2>6. QED
    BY <2>4, <2>5
<1>16. ASSUME DestroyIfUnused(s) = None, NEW e \in Live' PROVE header[e].schema # h
  <2> SUFFICES ASSUME header[e].schema = h PROVE FALSE
    OBVIOUS
  <2>1. e \in Live /\ e \in Device /\ header'[e] = header[e]
    BY <1>9, <1>10 DEF Live
  <2>a. header[e].model \in Model /\ header[e].model \in s.models
    BY <1>2, <1>5, <2>1, HeaderFields DEF IInv, Known, r
  <2>2. PICK u \in Model : u = header[e].model /\ u \in s.models
    BY <2>a
  <2>3. s.refs[u] = 0
    BY <1>7, <1>16, <2>2 DEF DestroyIfUnused
  <2>4. e \in DevicesOf(h, u)'
    BY <2>1, <2>2 DEF DevicesOf, Users
  <2>5. IsFiniteSet(DevicesOf(h, u)') /\ Cardinality(DevicesOf(h, u)') <= 0
    <3>1. schemas[h] # None
      BY <1>2 DEF r
    <3>2. IsFiniteSet(DevicesOf(h, u)') /\ Cardinality(DevicesOf(h, u)') <= s.refs[u]
      BY <1>15, <2>2, <3>1
    <3>3. QED
      BY <2>3, <3>2
  <2>6. Cardinality(DevicesOf(h, u)') \in Nat /\ Cardinality(DevicesOf(h, u)') # 0
    BY <2>4, <2>5, FS_EmptySet, FS_CardinalityType
  <2>7. QED
    BY <2>5, <2>6
<1>17. Known'
  <2> SUFFICES ASSUME NEW e \in Live'
               PROVE  /\ schemas'[header'[e].schema] # None
                      /\ header'[e].model \in schemas'[header'[e].schema].models
    BY DEF Known
  <2>1. e \in Live /\ header'[e] = header[e] /\ header[e].schema \in Schema
    BY <1>9, <1>10, HeaderFields DEF Live, IInv
  <2>2. CASE header[e].schema = h
    <3>1. schemas'[h] = s
      BY <1>7, <1>8, <1>16, <2>2
    <3>2. header[e].model \in s.models
      BY <1>5, <2>1, <2>2 DEF IInv, Known, r
    <3>3. QED
      BY <1>7, <2>1, <2>2, <3>1, <3>2
  <2>3. CASE header[e].schema # h
    BY <1>8, <2>1, <2>3 DEF IInv, Known
  <2>4. QED
    BY <2>2, <2>3
<1>18. Counts'
  <2> SUFFICES ASSUME NEW g \in Schema, schemas'[g] # None, NEW u \in Model
               PROVE  /\ schemas'[g].refs[u] <= creates'
                      /\ Cardinality(DevicesOf(g, u)') <= schemas'[g].refs[u]
                      /\ g \notin orphaned' =>
                           schemas'[g].refs[u] = Cardinality(DevicesOf(g, u)')
    BY DEF Counts, Counted
  <2>1. g \notin orphaned' => g \notin orphaned
    BY <1>1
  <2>2. schemas[g] # None /\ schemas'[g] = IF g = h THEN s ELSE schemas[g]
    BY <1>2, <1>7, <1>8 DEF r
  <2>3. QED
    BY <1>1, <1>15, <2>1, <2>2
<1>19. SendTracksCall'
  BY <1>1 DEF SendTracksCall
<1>20. QED
  BY <1>13, <1>14, <1>17, <1>18, <1>19 DEF IInv

-------------------------------------------------------------------------------
(* A value more: the n-th of the call names the paths P of device d, and    *)
(* the values become w.                                                     *)
LEMMA SendKeeps ==
  ASSUME IInv, send # None, NEW d \in Device, NEW p \in Paths \cup {"all"},
         NEW w \in Values,
         send.dev \in {None, d}, UNCHANGED header,
         Len(send.given) + 1 <= MaxValues,
         send' = [dev |-> d, values |-> w, given |-> Append(send.given, p)],
         Replaces(w, send.values, IF p = "all" THEN Range(Top[header[d].model]) ELSE {p},
                  Len(send.given) + 1)
  PROVE  /\ send' \in Transaction /\ Len(send'.given) <= MaxValues
         /\ SendTracksCall'
<1> DEFINE given == send.given
           v == send.values
           n == Len(given) + 1
           more == Append(given, p)
           P(x) == IF x = "all" THEN Range(Top[header[d].model]) ELSE {x}
<1>1. /\ given \in Seq(Paths \cup {"all"}) /\ v \in Values /\ Len(given) \in Nat
      /\ DOMAIN given = 1 .. Len(given)
  BY DEF IInv, TypeOK, Transaction
<1>2. /\ more \in Seq(Paths \cup {"all"}) /\ Len(more) = n /\ DOMAIN more = 1 .. n
      /\ more[n] = p /\ \A j \in 1 .. Len(given) : more[j] = given[j]
  BY <1>1, AppendProperties
<1>3. send'.dev = d /\ send'.values = w /\ send'.given = more
  OBVIOUS
<1>4. send' \in Transaction /\ Len(send'.given) <= MaxValues
  <2> HIDE DEF more, n
  <2>1. more \in Seq(Paths \cup {"all"}) /\ Len(more) <= MaxValues
    BY <1>2 DEF n
  <2>2. send' = [dev |-> d, values |-> w, given |-> more]
    BY DEF more
  <2>3. [dev |-> d, values |-> w, given |-> more] \in Transaction
    BY <2>1 DEF Transaction
  <2>4. QED
    BY <1>3, <2>1, <2>2, <2>3
<1>5. \A x : Names(x)' = P(x)
  BY <1>3 DEF Names
<1>6. \A j \in DOMAIN given : Names(given[j]) = P(given[j])
  <2>1. CASE send.dev = None
    BY <2>1 DEF IInv, SendTracksCall
  <2>2. CASE send.dev = d
    BY <2>2 DEF Names
  <2>3. QED
    BY <2>1, <2>2
<1>7. /\ PathsIn(v) = UNION {P(given[j]) : j \in DOMAIN given}
      /\ \A i \in DOMAIN v :
           /\ v[i].nth \in DOMAIN given
           /\ v[i].path \in P(given[v[i].nth])
           /\ \A j \in DOMAIN given : j > v[i].nth => v[i].path \notin P(given[j])
  <2> HIDE DEF P
  <2>1. /\ PathsIn(v) = UNION {Names(given[j]) : j \in DOMAIN given}
        /\ \A i \in DOMAIN v :
             /\ v[i].nth \in DOMAIN given
             /\ v[i].path \in Names(given[v[i].nth])
             /\ \A j \in DOMAIN given : j > v[i].nth => v[i].path \notin Names(given[j])
    BY DEF IInv, SendTracksCall
  <2>2. QED
    BY <1>6, <2>1
<1>8. /\ Distinct(w) /\ PathsIn(w) = PathsIn(v) \cup P(p)
      /\ \A i \in DOMAIN w :
           IF w[i].path \in P(p) THEN w[i].nth = n ELSE \E j \in DOMAIN v : w[i] = v[j]
  BY DEF Replaces
<1> HIDE DEF P, more, v, given
<1>9. /\ \A j \in DOMAIN given : j \in DOMAIN more /\ more[j] = given[j] /\ n > j
      /\ n \in DOMAIN more
      /\ \A j \in DOMAIN more : j = n \/ j \in DOMAIN given
  <2>1. \A j \in 1 .. Len(given) : j \in 1 .. n /\ n > j
    BY <1>1
  <2>2. n \in 1 .. n /\ \A j \in 1 .. n : j = n \/ j \in 1 .. Len(given)
    BY <1>1
  <2> HIDE DEF n
  <2>3. QED
    BY <1>1, <1>2, <2>1, <2>2
<1>10. n \in Nat
  BY <1>1
<1> HIDE DEF n
<1>11. PathsIn(w) = UNION {P(more[j]) : j \in DOMAIN more}
  BY <1>2, <1>7, <1>8, <1>9
<1>12. ASSUME NEW i \in DOMAIN w
       PROVE  /\ w[i].nth \in DOMAIN more
              /\ w[i].path \in P(more[w[i].nth])
              /\ \A j \in DOMAIN more : j > w[i].nth => w[i].path \notin P(more[j])
  <2>1. CASE w[i].path \in P(p)
    <3>1. w[i].nth = n
      BY <1>8, <2>1
    <3>2. \A j \in DOMAIN more : ~(j > n)
      BY <1>2, <1>10
    <3>3. QED
      BY <1>2, <1>9, <2>1, <3>1, <3>2
  <2>2. CASE w[i].path \notin P(p)
    <3>1. PICK j \in DOMAIN v : w[i] = v[j]
      BY <1>8, <2>2
    <3>2. /\ w[i].nth \in DOMAIN given /\ w[i].path \in P(given[w[i].nth])
          /\ \A u \in DOMAIN given : u > w[i].nth => w[i].path \notin P(given[u])
      BY <1>7, <3>1
    <3>3. QED
      BY <1>2, <1>9, <2>2, <3>2
  <2>3. QED
    BY <2>1, <2>2
<1>13. d # None
  BY CodeFirstAssumption DEF CodeFirstAssumption
<1>14. SendTracksCall'
  <2>1. send'.given = more
    BY <1>3 DEF more
  <2>2. \A x : P(x) = IF x = "all" THEN Range(Top[header'[send'.dev].model]) ELSE {x}
    BY <1>3 DEF P
  <2>3. QED
    BY <1>3, <1>8, <1>11, <1>12, <1>13, <2>1, <2>2 DEF SendTracksCall, Names
<1>15. QED
  BY <1>4, <1>14

LEMMA SendIInv ==
  ASSUME IInv, NEW d \in Device, NEW p \in Paths \cup {"all"}, SendValue(d, p)
  PROVE  IInv'
<1> DEFINE m == header[d].model
           n == Len(send.given) + 1
           w == IF p = "all" THEN SendAllDeviceProperties(send.values, m, n)
                ELSE Publish(send.values, p, n)
<1>1. /\ send # None /\ n <= MaxValues
      /\ Readable /\ d \in Range(table) /\ send.dev \in {None, d}
      /\ send' = [dev |-> d, values |-> w, given |-> Append(send.given, p)]
      /\ UNCHANGED <<agent, state, override, table, schemas, header, creates, orphaned, smashed>>
  BY DEF SendValue, module, history
<1>2. m \in Model
  BY <1>1, HeaderFields DEF Readable, IInv
<1>3. send.values \in Values /\ Distinct(send.values) /\ Len(send.given) \in Nat
  BY <1>1 DEF IInv, TypeOK, Transaction, SendTracksCall
<1>4. n \in 1 .. MaxValues
  BY <1>1, <1>3, CodeFirstAssumption DEF CodeFirstAssumption
<1>5. /\ w \in Values
      /\ Replaces(w, send.values, IF p = "all" THEN Range(Top[m]) ELSE {p}, n)
  <2> HIDE DEF n, m
  <2>1. CASE p = "all"
    BY <1>2, <1>3, <1>4, <2>1, SendAllReplaces
  <2>2. CASE p # "all"
    BY <1>3, <1>4, <2>2, PublishReplaces
  <2>3. QED
    BY <2>1, <2>2
<1> HIDE DEF w
<1>6. send' \in Transaction /\ Len(send'.given) <= MaxValues /\ SendTracksCall'
  BY <1>1, <1>5, SendKeeps
<1>7. TypeOK'
  BY <1>1, <1>6 DEF IInv, TypeOK
<1>8. Known' /\ Counts' /\ Live' = Live
  BY <1>1, SchemasStay, DevicesStay
<1>9. Lifetimes'
  BY <1>1, <1>8 DEF IInv, Lifetimes
<1>10. QED
  BY <1>6, <1>7, <1>8, <1>9 DEF IInv

-------------------------------------------------------------------------------
LEMMA NextIInv == IInv /\ [Next]_vars => IInv'
<1> SUFFICES ASSUME IInv, [Next]_vars PROVE IInv'
  OBVIOUS
<1>1. CASE \/ \E ns \in {Override, None} : SerializerInit(ns)
           \/ DestroyUnknown \/ StartSend \/ EndSend \/ UNCHANGED vars
  BY <1>1, ModuleIInv
<1>2. CASE Deinit
  BY <1>2, DeinitIInv
<1>3. CASE \E ns \in Namespace, h \in Schema : GetModelHandle(ns, h)
  BY <1>3, LookupIInv
<1>4. ASSUME NEW ns \in Namespace, NEW h \in Schema, NEW m \in Declares[ns],
             CreateDeviceFails(ns, m, h) \/ \E d \in Device : CreateDevice(ns, m, h, d)
      PROVE  IInv'
  <2>1. m \in Model
    BY CodeFirstAssumption DEF CodeFirstAssumption
  <2>2. QED
    BY <1>4, <2>1, LookupIInv, CreateIInv
<1>5. CASE \E d \in Device : DestroyDevice(d)
  BY <1>5, DestroyIInv
<1>6. CASE \E d \in Device, p \in Paths \cup {"all"} : SendValue(d, p)
  BY <1>6, SendIInv
<1>7. QED
  BY <1>1, <1>2, <1>3, <1>4, <1>5, <1>6 DEF Next

LEMMA Invariant == Spec => []IInv
BY InitIInv, NextIInv, PTL DEF Spec

(* For every number of devices: while the table was never overwritten, it   *)
(* holds the devices that exist, each once, through failing and repeated    *)
(* creations and destructions and any number of inits and deinits; and the  *)
(* module is closed only with an empty table.                               *)
THEOREM TableIsTheLiving == Spec => []TableHoldsTheLiving
BY IInvTable, Invariant, PTL

(* For every number of devices, models and schemas: a schema is there, with *)
(* the device's model, as long as one device uses it, and its counts are    *)
(* those of its devices unless CodeFirst_Deinit has orphaned it.  A memcpy  *)
(* that overwrites entries of the table does not disturb it.                *)
THEOREM SchemasCountDevices == Spec => []RefsAreTheDevices
BY IInvRefs, Invariant, PTL

(* For every model and every sequence of values: a transaction holds each   *)
(* property that was named once, with the value named last, whether it was  *)
(* named by itself or with the whole device.                                *)
THEOREM LastValuesAreSent == Spec => []SendsTheLastValues
BY IInvSend, Invariant, PTL

-------------------------------------------------------------------------------
(* Sums over finite sets.                                                   *)
Numbers(f, S) == \A x \in S : f[x] \in Nat

Chosen(s) == CHOOSE x \in s : TRUE

(* F is the sum of f over every subset of S.                                *)
Sums(F, f, S) ==
  \A s \in SUBSET S : F[s] = IF s = {} THEN 0 ELSE f[Chosen(s)] + F[s \ {Chosen(s)}]

LEMMA OneLess ==
  ASSUME NEW s, IsFiniteSet(s), NEW n \in Nat, Cardinality(s) = n + 1, NEW x \in s
  PROVE  Cardinality(s \ {x}) = n
<1>1. Cardinality(s \ {x}) = Cardinality(s) - 1
  BY FS_RemoveElement
<1>2. QED
  BY <1>1

LEMMA SumsExist ==
  ASSUME NEW S, IsFiniteSet(S), NEW f, Numbers(f, S)
  PROVE  \E F \in [SUBSET S -> Nat] : Sums(F, f, S) /\ SumOf(f, S) = F[S]
<1> DEFINE pick == [s \in SUBSET S |-> Chosen(s)]
           adds == [p \in S \X Nat |-> f[p[1]] + p[2]]
<1>1. \A s \in SUBSET S : s # {} => pick[s] \in s /\ pick[s] = Chosen(s)
  BY DEF Chosen
<1>2. adds \in [S \X Nat -> Nat]
  BY DEF Numbers
<1>3. \A x \in S, n \in Nat : adds[<<x, n>>] = f[x] + n
  OBVIOUS
<1> HIDE DEF pick, adds
<1>4. PICK F \in [SUBSET S -> Nat] : IsFold(F, S, 0, pick, adds)
  <2>1. 0 \in Nat
    OBVIOUS
  <2>2. \A s \in SUBSET S : s # {} => pick[s] \in s
    BY <1>1
  <2>3. QED
    BY <1>2, <2>1, <2>2, SetRecursionExists
<1>5. ASSUME NEW s \in SUBSET S
      PROVE  F[s] = IF s = {} THEN 0 ELSE f[Chosen(s)] + F[s \ {Chosen(s)}]
  <2>1. CASE s = {}
    BY <1>4, <2>1 DEF IsFold
  <2>2. CASE s # {}
    <3>1. F[s] = adds[<<pick[s], F[s \ {pick[s]}]>>]
      BY <1>4, <2>2 DEF IsFold
    <3>2. pick[s] \in S /\ F[s \ {pick[s]}] \in Nat /\ pick[s] = Chosen(s)
      BY <1>1, <2>2
    <3>3. QED
      BY <1>3, <2>2, <3>1, <3>2
  <2>3. QED
    BY <2>1, <2>2
<1>6. SumOf(f, S) = F[S]
  <2> DEFINE Def(g) == [s \in SUBSET S |->
                          IF s = {} THEN 0 ELSE f[Chosen(s)] + g[s \ {Chosen(s)}]]
             it == CHOOSE g : g = Def(g)
  <2>1. SumOf(f, S) = it[S]
    BY DEF SumOf, FoldSet, MapThenFoldSet, Chosen
  <2>2. F = Def(F)
    BY <1>5
  <2>3. it = Def(it)
    BY <2>2
  <2>4. ASSUME NEW s \in SUBSET S
        PROVE  it[s] = IF s = {} THEN 0 ELSE f[Chosen(s)] + it[s \ {Chosen(s)}]
    BY <2>3
  <2> HIDE DEF it
  <2> DEFINE T == {n \in Nat : \A s \in SUBSET S : Cardinality(s) = n => it[s] = F[s]}
  <2>5. 0 \in T
    <3>1. \A s \in SUBSET S : Cardinality(s) = 0 => s = {}
      BY FS_Subset, FS_EmptySet
    <3>2. QED
      BY <1>5, <2>4, <3>1
  <2>6. ASSUME NEW n \in Nat, n \in T PROVE n + 1 \in T
    <3> SUFFICES ASSUME NEW s \in SUBSET S, Cardinality(s) = n + 1
                 PROVE  it[s] = F[s]
      OBVIOUS
    <3>1. IsFiniteSet(s) /\ s # {}
      BY FS_Subset, FS_EmptySet
    <3>2. Chosen(s) \in s
      BY <3>1 DEF Chosen
    <3>3. s \ {Chosen(s)} \in SUBSET S /\ Cardinality(s \ {Chosen(s)}) = n
      BY <3>1, <3>2, OneLess
    <3>4. it[s \ {Chosen(s)}] = F[s \ {Chosen(s)}]
      BY <2>6, <3>3
    <3>5. QED
      BY <1>5, <2>4, <3>1, <3>4
  <2> HIDE DEF T
  <2>7. Nat \subseteq T
    BY <2>5, <2>6, NumberInduction
  <2>8. it[S] = F[S]
    BY <2>7, FS_CardinalityType DEF T
  <2>9. QED
    BY <2>1, <2>8
<1>7. Sums(F, f, S)
  BY <1>5 DEF Sums
<1>8. QED
  BY <1>6, <1>7

(* A sum is taken apart by the member that is chosen.                       *)
LEMMA SumSteps ==
  ASSUME NEW S, IsFiniteSet(S), NEW f, Numbers(f, S)
  PROVE  /\ SumOf(f, S) \in Nat
         /\ S = {} => SumOf(f, S) = 0
         /\ S # {} => SumOf(f, S) = f[Chosen(S)] + SumOf(f, S \ {Chosen(S)})
<1>1. PICK F \in [SUBSET S -> Nat] : Sums(F, f, S) /\ SumOf(f, S) = F[S]
  BY SumsExist
<1>2. SumOf(f, S) \in Nat /\ (S = {} => SumOf(f, S) = 0)
  BY <1>1 DEF Sums
<1>3. ASSUME S # {} PROVE SumOf(f, S) = f[Chosen(S)] + SumOf(f, S \ {Chosen(S)})
  <2> DEFINE R == S \ {Chosen(S)}
  <2>1. F[S] = f[Chosen(S)] + F[R]
    BY <1>1, <1>3 DEF Sums
  <2>2. R \in SUBSET S /\ IsFiniteSet(R) /\ Numbers(f, R)
    BY FS_Subset DEF Numbers
  <2> HIDE DEF R
  <2>3. PICK G \in [SUBSET R -> Nat] : Sums(G, f, R) /\ SumOf(f, R) = G[R]
    BY <2>2, SumsExist
  <2> DEFINE T == {n \in Nat : \A s \in SUBSET R : Cardinality(s) = n => G[s] = F[s]}
  <2>4. 0 \in T
    <3>1. \A s \in SUBSET R : Cardinality(s) = 0 => s = {}
      BY <2>2, FS_Subset, FS_EmptySet
    <3>2. G[{}] = 0 /\ F[{}] = 0
      BY <1>1, <2>3 DEF Sums
    <3>3. QED
      BY <3>1, <3>2
  <2>5. ASSUME NEW n \in Nat, n \in T PROVE n + 1 \in T
    <3> SUFFICES ASSUME NEW s \in SUBSET R, Cardinality(s) = n + 1
                 PROVE  G[s] = F[s]
      OBVIOUS
    <3>1. IsFiniteSet(s) /\ s # {} /\ s \in SUBSET S
      BY <2>2, FS_Subset, FS_EmptySet
    <3>2. Chosen(s) \in s
      BY <3>1 DEF Chosen
    <3>3. s \ {Chosen(s)} \in SUBSET R /\ Cardinality(s \ {Chosen(s)}) = n
      BY <3>1, <3>2, OneLess
    <3>4. G[s \ {Chosen(s)}] = F[s \ {Chosen(s)}]
      BY <2>5, <3>3
    <3>5. /\ G[s] = f[Chosen(s)] + G[s \ {Chosen(s)}]
          /\ F[s] = f[Chosen(s)] + F[s \ {Chosen(s)}]
      BY <1>1, <2>3, <3>1 DEF Sums
    <3>6. QED
      BY <3>4, <3>5
  <2> HIDE DEF T
  <2>6. Nat \subseteq T
    BY <2>4, <2>5, NumberInduction
  <2>7. G[R] = F[R]
    BY <2>2, <2>6, FS_CardinalityType DEF T
  <2>8. QED
    BY <1>1, <2>1, <2>3, <2>7 DEF R
<1>4. QED
  BY <1>2, <1>3

(* A sum is taken apart by any member.                                      *)
LEMMA SumRemove ==
  ASSUME NEW S, IsFiniteSet(S), NEW f, Numbers(f, S), NEW e \in S
  PROVE  SumOf(f, S) = f[e] + SumOf(f, S \ {e})
<1> DEFINE Apart(s) == \A x \in s : SumOf(f, s) = f[x] + SumOf(f, s \ {x})
           T == {n \in Nat : \A s \in SUBSET S : Cardinality(s) = n => Apart(s)}
<1>0. ASSUME NEW s \in SUBSET S
      PROVE  IsFiniteSet(s) /\ Cardinality(s) \in Nat /\ Numbers(f, s)
  BY FS_Subset, FS_CardinalityType DEF Numbers
<1>1. 0 \in T
  <2>1. \A s \in SUBSET S : Cardinality(s) = 0 => s = {}
    BY <1>0, FS_EmptySet
  <2>2. QED
    BY <2>1
<1>2. ASSUME NEW n \in Nat, n \in T PROVE n + 1 \in T
  <2> SUFFICES ASSUME NEW s \in SUBSET S, Cardinality(s) = n + 1, NEW x \in s
               PROVE  SumOf(f, s) = f[x] + SumOf(f, s \ {x})
    OBVIOUS
  <2> DEFINE p == Chosen(s)
  <2>1. p \in s
    BY DEF Chosen
  <2>2. SumOf(f, s) = f[p] + SumOf(f, s \ {p})
    BY <1>0, <2>1, SumSteps
  <2> HIDE DEF p
  <2>3. CASE x = p
    BY <2>2, <2>3
  <2>4. CASE x # p
    <3>1. /\ Cardinality(s \ {p}) = n /\ Cardinality(s \ {x}) = n
          /\ x \in s \ {p} /\ p \in s \ {x}
          /\ s \ {p} \in SUBSET S /\ s \ {x} \in SUBSET S
      BY <1>0, <2>1, <2>4, OneLess
    <3>2. SumOf(f, s \ {p}) = f[x] + SumOf(f, (s \ {p}) \ {x})
      BY <1>2, <3>1
    <3>3. SumOf(f, s \ {x}) = f[p] + SumOf(f, (s \ {x}) \ {p})
      BY <1>2, <3>1
    <3> DEFINE r == (s \ {p}) \ {x}
    <3>4. (s \ {x}) \ {p} = r
      OBVIOUS
    <3>5. r \in SUBSET S
      OBVIOUS
    <3> HIDE DEF r
    <3>6. SumOf(f, r) \in Nat /\ f[x] \in Nat /\ f[p] \in Nat
      BY <1>0, <2>1, <3>5, SumSteps DEF Numbers
    <3>7. /\ SumOf(f, s \ {p}) = f[x] + SumOf(f, r)
          /\ SumOf(f, s \ {x}) = f[p] + SumOf(f, r)
      BY <3>2, <3>3, <3>4 DEF r
    <3>8. QED
      BY <2>2, <3>6, <3>7
  <2>5. QED
    BY <2>3, <2>4
<1> HIDE DEF T
<1>3. Nat \subseteq T
  BY <1>1, <1>2, NumberInduction
<1>4. QED
  BY <1>0, <1>3 DEF T

(* Only the values at the members count.                                    *)
LEMMA SumSame ==
  ASSUME NEW S, IsFiniteSet(S), NEW f, Numbers(f, S), NEW g,
         \A x \in S : g[x] = f[x]
  PROVE  SumOf(g, S) = SumOf(f, S)
<1> DEFINE T == {n \in Nat : \A s \in SUBSET S :
                               Cardinality(s) = n => SumOf(g, s) = SumOf(f, s)}
<1>0. ASSUME NEW s \in SUBSET S
      PROVE  /\ IsFiniteSet(s) /\ Cardinality(s) \in Nat
             /\ Numbers(f, s) /\ Numbers(g, s)
  BY FS_Subset, FS_CardinalityType DEF Numbers
<1>1. 0 \in T
  <2>1. \A s \in SUBSET S : Cardinality(s) = 0 => s = {}
    BY <1>0, FS_EmptySet
  <2>2. SumOf(g, {}) = 0 /\ SumOf(f, {}) = 0
    BY <1>0, SumSteps
  <2>3. QED
    BY <2>1, <2>2
<1>2. ASSUME NEW n \in Nat, n \in T PROVE n + 1 \in T
  <2> SUFFICES ASSUME NEW s \in SUBSET S, Cardinality(s) = n + 1
               PROVE  SumOf(g, s) = SumOf(f, s)
    OBVIOUS
  <2> DEFINE p == Chosen(s)
  <2>1. s # {} /\ p \in s
    BY <1>0, FS_EmptySet DEF Chosen
  <2>2. /\ SumOf(f, s) = f[p] + SumOf(f, s \ {p})
        /\ SumOf(g, s) = g[p] + SumOf(g, s \ {p})
    BY <1>0, <2>1, SumSteps
  <2> HIDE DEF p
  <2>3. s \ {p} \in SUBSET S /\ Cardinality(s \ {p}) = n
    BY <1>0, <2>1, FS_RemoveElement
  <2>4. SumOf(g, s \ {p}) = SumOf(f, s \ {p})
    BY <1>2, <2>3
  <2>5. g[p] = f[p]
    BY <2>1
  <2>6. QED
    BY <2>2, <2>4, <2>5
<1> HIDE DEF T
<1>3. Nat \subseteq T
  BY <1>1, <1>2, NumberInduction
<1>4. QED
  BY <1>0, <1>3 DEF T

(* A member gets another value.                                             *)
LEMMA SumUpdate ==
  ASSUME NEW S, IsFiniteSet(S), NEW f, Numbers(f, S), NEW e \in S, NEW v \in Nat,
         NEW g, g[e] = v, \A x \in S : x # e => g[x] = f[x]
  PROVE  SumOf(g, S) + f[e] = SumOf(f, S) + v
<1> DEFINE R == S \ {e}
<1>1. IsFiniteSet(R) /\ Numbers(f, R) /\ Numbers(g, S) /\ \A x \in R : g[x] = f[x]
  BY FS_Subset DEF Numbers
<1>2. SumOf(g, R) = SumOf(f, R)
  BY <1>1, SumSame
<1>3. SumOf(f, S) = f[e] + SumOf(f, R) /\ SumOf(g, S) = v + SumOf(g, R)
  BY <1>1, SumRemove
<1>4. SumOf(f, R) \in Nat /\ f[e] \in Nat
  BY <1>1, SumSteps DEF Numbers
<1> HIDE DEF R
<1>5. QED
  BY <1>2, <1>3, <1>4

-------------------------------------------------------------------------------
(* Arithmetic modulo the width of size_t.                                   *)
LEMMA ModRange ==
  ASSUME NEW a \in Int, NEW M \in Nat \ {0}
  PROVE  a % M \in 0 .. M - 1 /\ \E q \in Int : a = M * q + (a % M)
<1>1. a % M \in 0 .. M - 1 /\ a = M * (a \div M) + (a % M) /\ a \div M \in Int
  OBVIOUS
<1>2. QED
  BY <1>1

LEMMA ModUnique ==
  ASSUME NEW M \in Nat \ {0}, NEW q \in Int, NEW p \in Int,
         NEW r \in 0 .. M - 1, NEW s \in 0 .. M - 1, M * q + r = M * p + s
  PROVE  r = s
<1> DEFINE d == q - p
<1>1. M * d = s - r /\ d \in Int /\ s - r \in Int /\ -M < s - r /\ s - r < M
  OBVIOUS
<1> HIDE DEF d
<1>2. CASE d >= 1
  <2>1. M * d >= M
    BY <1>1, <1>2
  <2>2. QED
    BY <1>1, <2>1
<1>3. CASE d <= -1
  <2>1. M * d <= -M
    BY <1>1, <1>3
  <2>2. QED
    BY <1>1, <2>1
<1>4. CASE d = 0
  <2>1. M * d = 0
    BY <1>4
  <2>2. QED
    BY <1>1, <2>1
<1>5. QED
  BY <1>1, <1>2, <1>3, <1>4

LEMMA ModShift ==
  ASSUME NEW a \in Int, NEW M \in Nat \ {0}, NEW len \in Int
  PROVE  (a + M * len) % M = a % M
<1> DEFINE b == a + M * len
<1>1. b \in Int /\ b = a + M * len
  OBVIOUS
<1> HIDE DEF b
<1>2. PICK q \in Int : a = M * q + (a % M)
  BY ModRange
<1>3. PICK p \in Int : b = M * p + (b % M)
  BY <1>1, ModRange
<1>4. a % M \in 0 .. M - 1 /\ b % M \in 0 .. M - 1
  BY <1>1, ModRange
<1> DEFINE r == a % M
           s == b % M
<1>5. a = M * q + r /\ b = M * p + s /\ r \in 0 .. M - 1 /\ s \in 0 .. M - 1
  BY <1>2, <1>3, <1>4
<1> HIDE DEF r, s
<1>6. M * (q + len) + r = M * p + s
  BY <1>1, <1>5
<1>7. q + len \in Int
  OBVIOUS
<1>8. r = s
  BY <1>5, <1>6, <1>7, ModUnique
<1>9. QED
  BY <1>8 DEF r, s, b

SameMod(a, b, M) == a % M = b % M

LEMMA ModSame ==
  ASSUME NEW a \in Int, NEW b \in Int, NEW c \in Int, NEW M \in Nat \ {0},
         SameMod(a, b, M)
  PROVE  SameMod(a + c, b + c, M)
<1>1. PICK q \in Int : a = M * q + (a % M)
  BY ModRange
<1>2. PICK p \in Int : b = M * p + (b % M)
  BY ModRange
<1> DEFINE len == q - p
           d == b + c
<1>3. len \in Int /\ d \in Int
  OBVIOUS
<1>4. a + c = d + M * len
  BY <1>1, <1>2 DEF SameMod
<1> HIDE DEF len, d
<1>5. (d + M * len) % M = d % M
  BY <1>3, ModShift
<1>6. QED
  BY <1>4, <1>5 DEF d, SameMod

(* The total is counted modulo M and stays right modulo M.                  *)
LEMMA ModCount ==
  ASSUME NEW M \in Nat \ {0}, NEW t \in Int, NEW f \in Int, NEW l \in Int, NEW c \in Int,
         (t + f) % M = l % M
  PROVE  (((t + c) % M) + f) % M = (l + c) % M
<1> DEFINE u == t + c
           w == u % M
           x == t + f
<1>1. u \in Int /\ x \in Int /\ w \in 0 .. M - 1
  BY ModRange
<1>2. w \in Int
  BY <1>1
<1>3. w % M = u % M
  <2>1. PICK q \in Int : u = M * q + w
    BY <1>1, ModRange
  <2> HIDE DEF u, w
  <2>2. (w + M * q) % M = w % M
    BY <1>2, ModShift
  <2>3. w + M * q = u
    BY <1>2, <2>1
  <2>4. QED
    BY <2>2, <2>3
<1> HIDE DEF w
<1> HIDE DEF u
<1>4. SameMod(w + f, u + f, M)
  <2>1. SameMod(w, u, M)
    BY <1>3 DEF SameMod
  <2>2. QED
    BY <1>1, <1>2, <2>1, ModSame
<1>5. u + f = x + c
  BY DEF u
<1> HIDE DEF x
<1>6. SameMod(x, l, M)
  BY DEF x, SameMod
<1>7. SameMod(x + c, l + c, M)
  BY <1>1, <1>6, ModSame
<1>8. QED
  BY <1>4, <1>5, <1>7 DEF w, u, SameMod

-------------------------------------------------------------------------------
(* The entries of E in the order o are a list that begins with h and is     *)
(* linked by nx.                                                            *)
ChainOf(h, nx, E, o) ==
  LET len == Cardinality(E) IN
  /\ \A i \in 1 .. len : o[i] \in E
  /\ \A e \in E : \E i \in 1 .. len : o[i] = e
  /\ \A i, j \in 1 .. len : o[i] = o[j] => i = j
  /\ h = IF len = 0 THEN NULL ELSE o[1]
  /\ \A i \in 1 .. len : nx[o[i]] = IF i = len THEN NULL ELSE o[i + 1]

IsList(h, nx, E) == \E o \in [1 .. Cardinality(E) -> E] : ChainOf(h, nx, E, o)

Links == [Entry -> Entry \cup {NULL}]

LEMMA SubsetOfEntries ==
  ASSUME NEW E \in SUBSET Entry
  PROVE  /\ IsFiniteSet(E) /\ Cardinality(E) \in Nat
         /\ Cardinality(Entry) \in Nat /\ Cardinality(E) <= Cardinality(Entry)
BY FS_Subset, FS_CardinalityType, GballocAssumption

(* A new entry at the head.                                                 *)
LEMMA ChainPush ==
  ASSUME NEW E \in SUBSET Entry, NEW h, NEW nx \in Links, NEW o, ChainOf(h, nx, E, o),
         NEW e \in Entry \ E
  PROVE  IsList(e, [nx EXCEPT ![e] = h], E \cup {e})
<1> DEFINE len == Cardinality(E)
           D == E \cup {e}
           ny == [nx EXCEPT ![e] = h]
           p == [i \in 1 .. len + 1 |-> IF i = 1 THEN e ELSE o[i - 1]]
<1>1. len \in Nat /\ Cardinality(D) = len + 1
  BY SubsetOfEntries, FS_AddElement
<1>2. ny[e] = h /\ \A x \in Entry : x # e => ny[x] = nx[x]
  BY DEF Links
<1>3. /\ \A i \in 1 .. len : o[i] \in E
      /\ \A x \in E : \E i \in 1 .. len : o[i] = x
      /\ \A i, j \in 1 .. len : o[i] = o[j] => i = j
      /\ h = IF len = 0 THEN NULL ELSE o[1]
      /\ \A i \in 1 .. len : nx[o[i]] = IF i = len THEN NULL ELSE o[i + 1]
  BY DEF ChainOf
<1>4. p[1] = e /\ \A i \in 1 .. len : p[i + 1] = o[i]
  BY <1>1
<1> HIDE DEF len, p, ny
<1>5. ASSUME NEW i \in 1 .. len + 1, i # 1
      PROVE  /\ i - 1 \in 1 .. len /\ p[i] = o[i - 1]
  <2>1. i - 1 \in 1 .. len /\ (i - 1) + 1 = i
    BY <1>1, <1>5
  <2>2. QED
    BY <1>4, <2>1
<1>6. \A i \in 1 .. len + 1 : p[i] \in D
  BY <1>3, <1>4, <1>5
<1>7. ASSUME NEW x \in D PROVE \E i \in 1 .. len + 1 : p[i] = x
  <2>1. CASE x = e
    BY <1>1, <1>4, <2>1
  <2>2. CASE x # e
    <3>1. PICK i \in 1 .. len : o[i] = x
      BY <1>3, <2>2
    <3>2. i + 1 \in 1 .. len + 1
      BY <1>1
    <3>3. QED
      BY <1>4, <3>1, <3>2
  <2>3. QED
    BY <2>1, <2>2
<1>8. ASSUME NEW i \in 1 .. len + 1, NEW j \in 1 .. len + 1, p[i] = p[j] PROVE i = j
  <2>1. CASE i = 1 /\ j = 1
    BY <2>1
  <2>2. CASE i = 1 /\ j # 1
    BY <1>3, <1>4, <1>5, <1>8, <2>2
  <2>3. CASE i # 1 /\ j = 1
    BY <1>3, <1>4, <1>5, <1>8, <2>3
  <2>4. CASE i # 1 /\ j # 1
    <3>1. i - 1 = j - 1
      BY <1>3, <1>5, <1>8, <2>4
    <3>2. QED
      BY <1>1, <3>1
  <2>5. QED
    BY <2>1, <2>2, <2>3, <2>4
<1>9. ASSUME NEW i \in 1 .. len + 1
      PROVE  ny[p[i]] = IF i = len + 1 THEN NULL ELSE p[i + 1]
  <2>1. CASE i = 1
    <3>1. ny[p[i]] = h
      BY <1>2, <1>4, <2>1
    <3>2. CASE len = 0
      BY <1>3, <2>1, <3>1, <3>2
    <3>3. CASE len # 0
      <4>1. 1 \in 1 .. len /\ 1 # len + 1
        BY <1>1, <3>3
      <4>2. p[1 + 1] = o[1]
        BY <1>4, <4>1
      <4>3. QED
        BY <1>3, <2>1, <3>1, <3>3, <4>1, <4>2
    <3>4. QED
      BY <3>2, <3>3
  <2>2. CASE i # 1
    <3>1. i - 1 \in 1 .. len /\ p[i] = o[i - 1] /\ (i - 1) + 1 = i
      BY <1>1, <1>5, <2>2
    <3>2. ny[p[i]] = nx[o[i - 1]]
      BY <1>2, <1>3, <3>1
    <3>3. CASE i = len + 1
      <4>1. i - 1 = len
        BY <1>1, <3>3
      <4>2. QED
        BY <1>3, <3>1, <3>2, <3>3, <4>1
    <3>4. CASE i # len + 1
      <4>1. i \in 1 .. len /\ i - 1 # len
        BY <1>1, <3>4
      <4>2. p[i + 1] = o[i]
        BY <1>4, <4>1
      <4>3. nx[o[i - 1]] = o[(i - 1) + 1]
        BY <1>3, <3>1, <4>1
      <4>4. QED
        BY <3>1, <3>2, <3>4, <4>2, <4>3
    <3>5. QED
      BY <3>3, <3>4
  <2>3. QED
    BY <2>1, <2>2
<1>10. len + 1 # 0
  BY <1>1
<1> HIDE DEF D
<1>11. ChainOf(e, ny, D, p)
  BY <1>1, <1>4, <1>6, <1>7, <1>8, <1>9, <1>10 DEF ChainOf
<1>12. p \in [1 .. len + 1 -> D]
  BY <1>6 DEF p
<1>13. IsList(e, ny, D)
  BY <1>1, <1>11, <1>12 DEF IsList
<1>14. QED
  BY <1>13 DEF D, ny

(* Entry i of the list is unlinked.                                         *)
LEMMA ChainUnlink ==
  ASSUME NEW E \in SUBSET Entry, NEW h, NEW nx \in Links, NEW o, ChainOf(h, nx, E, o),
         NEW i \in 1 .. Cardinality(E)
  PROVE  IF i = 1 THEN IsList(nx[o[i]], nx, E \ {o[i]})
         ELSE IsList(h, [nx EXCEPT ![o[i - 1]] = nx[o[i]]], E \ {o[i]})
<1> DEFINE len == Cardinality(E)
           D == E \ {o[i]}
           ny == IF i = 1 THEN nx ELSE [nx EXCEPT ![o[i - 1]] = nx[o[i]]]
           g == IF i = 1 THEN nx[o[i]] ELSE h
           p == [j \in 1 .. len - 1 |-> IF j < i THEN o[j] ELSE o[j + 1]]
<1>1. /\ \A j \in 1 .. len : o[j] \in E
      /\ \A x \in E : \E j \in 1 .. len : o[j] = x
      /\ \A j, m \in 1 .. len : o[j] = o[m] => j = m
      /\ h = IF len = 0 THEN NULL ELSE o[1]
      /\ \A j \in 1 .. len : nx[o[j]] = IF j = len THEN NULL ELSE o[j + 1]
  BY DEF ChainOf
<1>2. len \in Nat /\ i \in 1 .. len /\ Cardinality(D) = len - 1
  BY <1>1, SubsetOfEntries, FS_RemoveElement
<1>3. ASSUME NEW j \in 1 .. len - 1
      PROVE  /\ j \in 1 .. len /\ j + 1 \in 1 .. len
             /\ p[j] = IF j < i THEN o[j] ELSE o[j + 1]
  BY <1>2
<1>4. ASSUME NEW j \in 1 .. len, j # i
      PROVE  ny[o[j]] = IF j = i - 1 THEN nx[o[i]] ELSE nx[o[j]]
  <2>1. CASE i = 1
    BY <1>2, <2>1
  <2>2. CASE i # 1
    <3>1. i - 1 \in 1 .. len /\ o[i - 1] \in Entry /\ o[j] \in Entry
      BY <1>1, <1>2, <2>2
    <3>2. o[j] = o[i - 1] => j = i - 1
      BY <1>1, <3>1
    <3>3. QED
      BY <2>2, <3>1, <3>2 DEF Links
  <2>3. QED
    BY <2>1, <2>2
<1> HIDE DEF len, p, ny
<1>5. ASSUME NEW j \in 1 .. len - 1 PROVE p[j] \in D
  <2>1. CASE j < i
    <3>1. j # i
      BY <1>2, <2>1
    <3>2. QED
      BY <1>1, <1>2, <1>3, <2>1, <3>1
  <2>2. CASE ~(j < i)
    <3>1. j + 1 # i
      BY <1>2, <2>2
    <3>2. QED
      BY <1>1, <1>2, <1>3, <2>2, <3>1
  <2>3. QED
    BY <2>1, <2>2
<1>6. ASSUME NEW x \in D PROVE \E j \in 1 .. len - 1 : p[j] = x
  <2>1. PICK j \in 1 .. len : o[j] = x
    BY <1>1
  <2>2. j # i
    BY <2>1
  <2>3. CASE j < i
    <3>1. j \in 1 .. len - 1
      BY <1>2, <2>3
    <3>2. QED
      BY <1>3, <2>1, <2>3, <3>1
  <2>4. CASE j > i
    <3>1. j - 1 \in 1 .. len - 1 /\ ~(j - 1 < i) /\ (j - 1) + 1 = j
      BY <1>2, <2>4
    <3>2. QED
      BY <1>3, <2>1, <3>1
  <2>5. QED
    BY <1>2, <2>2, <2>3, <2>4
<1>7. ASSUME NEW j \in 1 .. len - 1, NEW m \in 1 .. len - 1, p[j] = p[m] PROVE j = m
  <2> DEFINE a == IF j < i THEN j ELSE j + 1
             b == IF m < i THEN m ELSE m + 1
  <2>1. a \in 1 .. len /\ b \in 1 .. len /\ p[j] = o[a] /\ p[m] = o[b]
    BY <1>3
  <2>2. a = b
    BY <1>1, <1>7, <2>1
  <2>3. QED
    BY <1>2, <2>2
<1>8. g = IF len - 1 = 0 THEN NULL ELSE p[1]
  <2>1. CASE i = 1 /\ len = 1
    BY <1>1, <1>2, <2>1
  <2>2. CASE i = 1 /\ len # 1
    <3>1. 1 \in 1 .. len - 1 /\ len - 1 # 0 /\ 1 # len /\ ~(1 < i)
      BY <1>2, <2>2
    <3>2. p[1] = o[1 + 1]
      BY <1>3, <3>1
    <3>3. nx[o[1]] = o[1 + 1]
      BY <1>1, <1>2, <2>2, <3>1
    <3>4. QED
      BY <2>2, <3>1, <3>2, <3>3
  <2>3. CASE i # 1
    <3>1. 1 \in 1 .. len - 1 /\ len - 1 # 0 /\ len # 0 /\ 1 < i
      BY <1>2, <2>3
    <3>2. QED
      BY <1>1, <1>3, <2>3, <3>1
  <2>4. QED
    BY <2>1, <2>2, <2>3
<1>9. ASSUME NEW j \in 1 .. len - 1
      PROVE  ny[p[j]] = IF j = len - 1 THEN NULL ELSE p[j + 1]
  <2>0. ASSUME j # len - 1
        PROVE  /\ j + 1 \in 1 .. len - 1
               /\ p[j + 1] = IF j + 1 < i THEN o[j + 1] ELSE o[(j + 1) + 1]
    <3>1. j + 1 \in 1 .. len - 1
      BY <1>2, <2>0
    <3>2. QED
      BY <1>3, <3>1
  <2>1. CASE j + 1 < i
    <3>1. j < i /\ j # i /\ j # i - 1 /\ j # len /\ j # len - 1 /\ p[j] = o[j]
      BY <1>2, <1>3, <2>1
    <3>2. ny[p[j]] = nx[o[j]]
      BY <1>3, <1>4, <3>1
    <3>3. nx[o[j]] = o[j + 1]
      BY <1>1, <1>3, <3>1
    <3>4. QED
      BY <2>0, <2>1, <3>1, <3>2, <3>3
  <2>2. CASE j + 1 = i
    <3>1. j < i /\ j # i /\ j = i - 1 /\ p[j] = o[j] /\ i = j + 1
      BY <1>2, <1>3, <2>2
    <3>2. ny[p[j]] = nx[o[i]]
      BY <1>3, <1>4, <3>1
    <3>3. nx[o[i]] = IF i = len THEN NULL ELSE o[i + 1]
      BY <1>1, <1>2
    <3>4. (j = len - 1) <=> (i = len)
      BY <1>2, <3>1
    <3>5. CASE j = len - 1
      BY <3>2, <3>3, <3>4, <3>5
    <3>6. CASE j # len - 1
      <4>1. p[j + 1] = o[(j + 1) + 1]
        BY <1>2, <2>0, <2>2, <3>6
      <4>2. QED
        BY <3>1, <3>2, <3>3, <3>4, <3>6, <4>1
    <3>7. QED
      BY <3>5, <3>6
  <2>3. CASE j + 1 > i
    <3>1. ~(j < i) /\ j + 1 # i /\ j + 1 # i - 1 /\ p[j] = o[j + 1] /\ ~(j + 1 < i)
      BY <1>2, <1>3, <2>3
    <3>2. ny[p[j]] = nx[o[j + 1]]
      BY <1>3, <1>4, <3>1
    <3>3. nx[o[j + 1]] = IF j + 1 = len THEN NULL ELSE o[(j + 1) + 1]
      BY <1>1, <1>3
    <3>4. (j = len - 1) <=> (j + 1 = len)
      BY <1>2
    <3>5. QED
      BY <2>0, <3>1, <3>2, <3>3, <3>4
  <2>4. QED
    BY <1>2, <2>1, <2>2, <2>3
<1> HIDE DEF D, g
<1>10. ChainOf(g, ny, D, p)
  BY <1>2, <1>5, <1>6, <1>7, <1>8, <1>9 DEF ChainOf
<1>11. p \in [1 .. len - 1 -> D]
  BY <1>5 DEF p
<1>12. IsList(g, ny, D)
  BY <1>2, <1>10, <1>11 DEF IsList
<1>13. QED
  BY <1>12 DEF D, g, ny

-------------------------------------------------------------------------------
(* The inductive invariant.  As long as no stale head did harm, the entries  *)
(* are a list from head, in some order, and the totals count them; as long  *)
(* as no tracked block was freed outside either, the entries and the        *)
(* tracked blocks belong together one to one.                               *)
Clean == "stale" \notin harm /\ "outside" \notin harm

FreedOnce ==
  /\ \A t \in Thread : freeing[t] # Idle => freeing[t].ptr \in blocks \ held
  /\ \A t, u \in Thread :
       t # u /\ freeing[t] # Idle => freeing[t].ptr # freeing[u].ptr

Counters ==
  /\ allocations <= calls
  /\ \A e \in entries : size[e] # 0
  /\ Fits(asked)

Linked == "stale" \notin harm => lock = NULL /\ IsList(head, next, entries)

OneToOne ==
  /\ \A e \in entries : ptr[e] \in blocks /\ asked[ptr[e]] = size[e]
  /\ \A e, f \in entries : ptr[e] = ptr[f] => e = f
  /\ \A b \in Block : asked[b] # 0 => \E e \in entries : ptr[e] = b
  /\ SumOf(asked, Block) = Listed(entries)

BlocksListed == Clean => OneToOne

Totals ==
  /\ "stale" \notin harm =>
       (totalSize + forgotten) % SizeMod = Listed(entries) % SizeMod
  /\ Clean /\ forgotten = 0 => totalSize <= maxSize

GballocIInv == GballocTypeOK /\ FreedOnce /\ Counters /\ Linked /\ BlocksListed /\ Totals

-------------------------------------------------------------------------------
(* What the constants and the types give.                                   *)
LEMMA Facts ==
  /\ SizeMod \in Nat \ {0} /\ MaxCalls \in Nat
  /\ IsFiniteSet(Entry) /\ IsFiniteSet(Block)
  /\ Cardinality(Entry) \in Nat
  /\ Sizes \subseteq Nat /\ 0 \notin Sizes
  /\ \A s \in Sizes : s < SizeMod
  /\ NULL \notin Entry /\ NULL \notin Block /\ NULL \notin Thread
<1>1. Sizes \subseteq 1 .. SizeMod - 1 /\ SizeMod \in Nat \ {0}
  BY GballocAssumption
<1>2. Sizes \subseteq Nat /\ 0 \notin Sizes /\ \A s \in Sizes : s < SizeMod
  BY <1>1
<1>3. QED
  BY <1>2, GballocAssumption, FS_CardinalityType

LEMMA AskedNumbers == GballocTypeOK => Numbers(asked, Block) /\ SumOf(asked, Block) \in Nat
<1> SUFFICES ASSUME GballocTypeOK PROVE Numbers(asked, Block) /\ SumOf(asked, Block) \in Nat
  OBVIOUS
<1>1. Numbers(asked, Block)
  <2>1. \A b \in Block : asked[b] \in Sizes \cup {0}
    BY DEF GballocTypeOK
  <2>2. \A x \in Sizes \cup {0} : x \in Nat
    BY Facts
  <2>3. QED
    BY <2>1, <2>2 DEF Numbers
<1>2. QED
  BY <1>1, Facts, SumSteps

LEMMA SizeNumbers ==
  GballocTypeOK => /\ Numbers(size, Entry) /\ Numbers(size, entries)
            /\ IsFiniteSet(entries) /\ Listed(entries) \in Nat
<1> SUFFICES ASSUME GballocTypeOK
             PROVE  /\ Numbers(size, Entry) /\ Numbers(size, entries)
                    /\ IsFiniteSet(entries) /\ Listed(entries) \in Nat
  OBVIOUS
<1>1. Numbers(size, Entry) /\ Numbers(size, entries) /\ IsFiniteSet(entries)
  <2>1. entries \subseteq Entry /\ \A e \in Entry : size[e] \in Sizes \cup {0}
    BY DEF GballocTypeOK
  <2>2. \A x \in Sizes \cup {0} : x \in Nat
    BY Facts
  <2>3. Numbers(size, Entry) /\ Numbers(size, entries)
    BY <2>1, <2>2 DEF Numbers
  <2>4. IsFiniteSet(entries)
    BY <2>1, SubsetOfEntries
  <2>5. QED
    BY <2>3, <2>4
<1>2. QED
  BY <1>1, SumSteps DEF Listed

-------------------------------------------------------------------------------
(* The walk.                                                                *)
LEMMA NthSteps ==
  ASSUME next \in Links, NEW c \in Entry \cup {NULL}
  PROVE  LET N == Cardinality(Entry) IN
         /\ Nth(c) \in [0 .. N -> Entry \cup {NULL}]
         /\ Nth(c)[0] = c
         /\ \A n \in 1 .. N : Nth(c)[n] = IF Nth(c)[n - 1] = NULL THEN NULL
                                          ELSE next[Nth(c)[n - 1]]
<1> DEFINE N == Cardinality(Entry)
           V == Entry \cup {NULL}
           adds == [p \in (1 .. N) \X V |-> IF p[2] = NULL THEN NULL ELSE next[p[2]]]
           Def(g) == [n \in 0 .. N |-> IF n = 0 THEN c
                                       ELSE IF g[n - 1] = NULL THEN NULL ELSE next[g[n - 1]]]
           at == CHOOSE g : g = Def(g)
<1>1. N \in Nat /\ c \in V
  BY Facts
<1>2. adds \in [(1 .. N) \X V -> V]
  BY DEF Links
<1>3. \A n \in 1 .. N, x \in V : adds[<<n, x>>] = IF x = NULL THEN NULL ELSE next[x]
  OBVIOUS
<1> HIDE DEF adds, N, V
<1>4. PICK f \in [0 .. N -> V] : Iterates(f, c, adds, N)
  BY <1>1, <1>2, RecursionExists
<1>5. ASSUME NEW n \in 1 .. N
      PROVE  f[n] = IF f[n - 1] = NULL THEN NULL ELSE next[f[n - 1]]
  <2>1. n - 1 \in 0 .. N
    BY <1>1
  <2>2. QED
    BY <1>3, <1>4, <2>1 DEF Iterates
<1>6. f[0] = c
  BY <1>4 DEF Iterates
<1>7. f = Def(f)
  <2>1. ASSUME NEW n \in 0 .. N
        PROVE  f[n] = IF n = 0 THEN c
                      ELSE IF f[n - 1] = NULL THEN NULL ELSE next[f[n - 1]]
    BY <1>5, <1>6
  <2>2. QED
    BY <2>1
<1>8. at = Def(at)
  BY <1>7
<1>9. Nth(c) = at
  BY DEF Nth, N
<1> HIDE DEF at
<1>10. /\ at[0] = c
       /\ \A n \in 1 .. N : at[n] = IF at[n - 1] = NULL THEN NULL ELSE next[at[n - 1]]
       /\ at = [n \in 0 .. N |-> at[n]]
  <2>1. \A n \in 0 .. N :
          at[n] = IF n = 0 THEN c
                  ELSE IF at[n - 1] = NULL THEN NULL ELSE next[at[n - 1]]
    BY <1>8
  <2>2. 0 \in 0 .. N /\ \A n \in 1 .. N : n \in 0 .. N /\ n # 0
    BY <1>1
  <2>3. at = [n \in 0 .. N |-> at[n]]
    BY <1>8
  <2>4. at[0] = c
    BY <2>1, <2>2
  <2>5. \A n \in 1 .. N : at[n] = IF at[n - 1] = NULL THEN NULL ELSE next[at[n - 1]]
    BY <2>1, <2>2
  <2>6. QED
    BY <2>3, <2>4, <2>5
<1> DEFINE T == {n \in Nat : at[n] = f[n]}
<1>11. 0 \in T
  BY <1>6, <1>10
<1>12. ASSUME NEW n \in Nat, n < N, n \in T PROVE n + 1 \in T
  <2>1. n + 1 \in 1 .. N /\ (n + 1) - 1 = n
    BY <1>1, <1>12
  <2>2. at[n] = f[n]
    BY <1>12
  <2>3. /\ at[n + 1] = IF at[n] = NULL THEN NULL ELSE next[at[n]]
        /\ f[n + 1] = IF f[n] = NULL THEN NULL ELSE next[f[n]]
    BY <1>5, <1>10, <2>1
  <2>4. at[n + 1] = f[n + 1]
    BY <2>2, <2>3
  <2>5. QED
    BY <2>4
<1> HIDE DEF T
<1>13. 0 .. N \subseteq T
  BY <1>1, <1>11, <1>12, BoundedInduction
<1>14. \A n \in 0 .. N : at[n] = f[n]
  BY <1>13 DEF T
<1>15. at \in [0 .. N -> V]
  BY <1>10, <1>14
<1>16. QED
  BY <1>9, <1>10, <1>15 DEF N, V

(* Steps finds the first entry with the pointer.                            *)
LEMMA StepsFinds ==
  ASSUME next \in Links, entries \subseteq Entry,
         NEW c \in Entry \cup {NULL}, NEW b, Found(c, b)
  PROVE  /\ Steps(c, b) \in 0 .. Cardinality(Entry)
         /\ Nth(c)[Steps(c, b)] \in Entry /\ Matches(Nth(c)[Steps(c, b)], b)
         /\ \A m \in 0 .. Steps(c, b) - 1 : ~Matches(Nth(c)[m], b)
<1> DEFINE N == Cardinality(Entry)
           T == {n \in 0 .. N : Nth(c)[n] # NULL /\ Matches(Nth(c)[n], b)}
<1>1. T # {} /\ T \subseteq Nat
  BY Facts DEF Found, Trail
<1>2. PICK x \in T : \A y \in T : x <= y
  BY <1>1, LeastNumber
<1>3. ASSUME NEW m \in 0 .. x - 1 PROVE ~Matches(Nth(c)[m], b)
  <2>1. m \in 0 .. N /\ ~(x <= m)
    BY <1>1, <1>2, Facts
  <2>2. m \notin T
    BY <1>2, <2>1
  <2>3. Nth(c)[m] = NULL => ~Matches(Nth(c)[m], b)
    BY Facts DEF Matches
  <2>4. QED
    BY <2>1, <2>2, <2>3
<1>4. \E n \in 0 .. N : /\ Nth(c)[n] # NULL /\ Matches(Nth(c)[n], b)
                        /\ \A m \in 0 .. n - 1 : ~Matches(Nth(c)[m], b)
  BY <1>2, <1>3
<1>5. /\ Steps(c, b) \in 0 .. N
      /\ Nth(c)[Steps(c, b)] # NULL /\ Matches(Nth(c)[Steps(c, b)], b)
      /\ \A m \in 0 .. Steps(c, b) - 1 : ~Matches(Nth(c)[m], b)
  BY <1>4 DEF Steps
<1>6. Nth(c)[Steps(c, b)] \in Entry
  <2>1. Nth(c) \in [0 .. N -> Entry \cup {NULL}]
    BY NthSteps
  <2>2. QED
    BY <1>5, <2>1
<1>7. QED
  BY <1>5, <1>6

(* Where the walk from position j of the list goes.  Position len + 1 is NULL. *)
StartsAt(o, j, c) ==
  /\ j \in 1 .. Cardinality(entries) + 1
  /\ c = IF j = Cardinality(entries) + 1 THEN NULL ELSE o[j]

LEMMA WalkValues ==
  ASSUME next \in Links, entries \subseteq Entry,
         NEW o, ChainOf(head, next, entries, o), NEW j, NEW c, StartsAt(o, j, c)
  PROVE  \A n \in 0 .. Cardinality(Entry) :
           Nth(c)[n] = IF j + n <= Cardinality(entries) THEN o[j + n] ELSE NULL
<1> DEFINE len == Cardinality(entries)
           N == Cardinality(Entry)
           at == Nth(c)
           r(n) == IF j + n <= len THEN o[j + n] ELSE NULL
           T == {n \in Nat : at[n] = r(n)}
<1>1. len \in Nat /\ N \in Nat /\ j \in 1 .. len + 1 /\ (c = IF j = len + 1 THEN NULL ELSE o[j])
  BY SubsetOfEntries DEF StartsAt
<1>2. /\ \A i \in 1 .. len : o[i] \in Entry /\ o[i] # NULL
      /\ \A i \in 1 .. len : next[o[i]] = IF i = len THEN NULL ELSE o[i + 1]
  BY Facts DEF ChainOf
<1>3. c \in Entry \cup {NULL}
  <2>1. j # len + 1 => j \in 1 .. len
    BY <1>1
  <2>2. QED
    BY <1>1, <1>2, <2>1
<1>4. at[0] = c /\ \A n \in 1 .. N : at[n] = IF at[n - 1] = NULL THEN NULL ELSE next[at[n - 1]]
  BY <1>3, NthSteps
<1> HIDE DEF len, N, at
<1>5. 0 \in T
  <2>1. CASE j = len + 1
    <3>1. ~(j + 0 <= len)
      BY <1>1, <2>1
    <3>2. QED
      BY <1>1, <1>4, <2>1, <3>1
  <2>2. CASE j # len + 1
    <3>1. j + 0 <= len /\ j + 0 = j
      BY <1>1, <2>2
    <3>2. QED
      BY <1>1, <1>4, <2>2, <3>1
  <2>3. QED
    BY <2>1, <2>2
<1>6. ASSUME NEW n \in Nat, n < N, n \in T PROVE n + 1 \in T
  <2>1. at[n] = r(n)
    BY <1>6
  <2>2. at[n + 1] = IF at[n] = NULL THEN NULL ELSE next[at[n]]
    <3>1. n + 1 \in 1 .. N /\ (n + 1) - 1 = n
      BY <1>1, <1>6
    <3>2. QED
      BY <1>4, <3>1
  <2>3. at[n + 1] = r(n + 1)
    <3>1. CASE ~(j + n <= len)
      <4>1. ~(j + (n + 1) <= len)
        BY <1>1, <3>1
      <4>2. at[n] = NULL
        BY <2>1, <3>1
      <4>3. QED
        BY <2>2, <4>1, <4>2
    <3>2. CASE j + n = len
      <4>1. ~(j + (n + 1) <= len) /\ j + n <= len /\ j + n \in 1 .. len
        BY <1>1, <3>2
      <4>2. at[n] = o[j + n]
        BY <2>1, <4>1
      <4>3. at[n + 1] = next[o[j + n]]
        BY <1>2, <2>2, <4>1, <4>2
      <4>4. next[o[j + n]] = NULL
        BY <1>2, <3>2, <4>1
      <4>5. QED
        BY <4>1, <4>3, <4>4
    <3>3. CASE j + n < len
      <4>1. j + (n + 1) <= len /\ j + n <= len /\ j + n \in 1 .. len /\ j + n # len
            /\ (j + n) + 1 = j + (n + 1)
        BY <1>1, <3>3
      <4>2. at[n] = o[j + n]
        BY <2>1, <4>1
      <4>3. at[n + 1] = next[o[j + n]]
        BY <1>2, <2>2, <4>1, <4>2
      <4>4. next[o[j + n]] = o[j + (n + 1)]
        BY <1>2, <4>1
      <4>5. QED
        BY <4>1, <4>3, <4>4
    <3>4. QED
      BY <1>1, <3>1, <3>2, <3>3
  <2>4. QED
    BY <2>3
<1> HIDE DEF T
<1>7. 0 .. N \subseteq T
  BY <1>1, <1>5, <1>6, BoundedInduction
<1>8. QED
  BY <1>7 DEF T, at, len, N

(* The walk ends, and visits the entries from position j on.                *)
LEMMA WalkVisits ==
  ASSUME next \in Links, entries \subseteq Entry,
         NEW o, ChainOf(head, next, entries, o), NEW j, NEW c, StartsAt(o, j, c)
  PROVE  /\ Ends(c)
         /\ Trail(c) = {o[i] : i \in j .. Cardinality(entries)}
<1> DEFINE len == Cardinality(entries)
           N == Cardinality(Entry)
           at == Nth(c)
<1>1. len \in Nat /\ N \in Nat /\ len <= N /\ j \in 1 .. len + 1
  BY SubsetOfEntries DEF StartsAt
<1>2. \A n \in 0 .. N : at[n] = IF j + n <= len THEN o[j + n] ELSE NULL
  BY WalkValues
<1>3. \A i \in 1 .. len : o[i] # NULL
  BY Facts DEF ChainOf
<1>4. Ends(c) = (at[N] = NULL) /\ Trail(c) = {at[n] : n \in 0 .. N} \ {NULL}
  BY DEF Ends, Trail
<1> HIDE DEF len, N, at
<1>5. at[N] = NULL
  <2>1. N \in 0 .. N /\ ~(j + N <= len)
    BY <1>1
  <2>2. QED
    BY <1>2, <2>1
<1>6. ASSUME NEW n \in 0 .. N, at[n] # NULL PROVE \E i \in j .. len : at[n] = o[i]
  <2>1. j + n \in j .. len /\ at[n] = o[j + n]
    BY <1>1, <1>2, <1>6
  <2>2. QED
    BY <2>1
<1>7. ASSUME NEW i \in j .. len PROVE o[i] # NULL /\ \E n \in 0 .. N : at[n] = o[i]
  <2>1. i - j \in 0 .. N /\ j + (i - j) <= len /\ j + (i - j) = i /\ i \in 1 .. len
    BY <1>1
  <2>2. at[i - j] = o[i]
    BY <1>2, <2>1
  <2>3. QED
    BY <1>3, <2>1, <2>2
<1>8. {at[n] : n \in 0 .. N} \ {NULL} = {o[i] : i \in j .. len}
  BY <1>6, <1>7
<1>9. QED
  BY <1>4, <1>5, <1>8 DEF len

(* Whether it finds a pointer, and where.                                   *)
FoundAt(o, j, c, b, i) ==
  /\ Steps(c, b) = i - j
  /\ Nth(c)[Steps(c, b)] = o[i] /\ ptr[o[i]] = b
  /\ Steps(c, b) > 0 => Nth(c)[Steps(c, b) - 1] = o[i - 1]

Finds(o, j, c, b) ==
  /\ Found(c, b) <=> \E i \in j .. Cardinality(entries) : ptr[o[i]] = b
  /\ Found(c, b) => \E i \in j .. Cardinality(entries) : FoundAt(o, j, c, b, i)

LEMMA WalkFinds ==
  ASSUME next \in Links, entries \subseteq Entry,
         NEW o, ChainOf(head, next, entries, o), NEW j, NEW c, StartsAt(o, j, c), NEW b
  PROVE  Finds(o, j, c, b)
<1> DEFINE len == Cardinality(entries)
           N == Cardinality(Entry)
<1>1. len \in Nat /\ N \in Nat /\ len <= N /\ j \in 1 .. len + 1
      /\ (c = IF j = len + 1 THEN NULL ELSE o[j])
  BY SubsetOfEntries DEF StartsAt
<1>2. \A i \in 1 .. len : o[i] \in entries
  BY DEF ChainOf
<1>3. \A i \in j .. len : i \in 1 .. len
  BY <1>1
<1>4. Found(c, b) <=> \E i \in j .. len : ptr[o[i]] = b
  <2>1. Trail(c) = {o[i] : i \in j .. len}
    BY WalkVisits
  <2>2. QED
    BY <1>2, <1>3, <2>1 DEF Found, Matches
<1>5. ASSUME Found(c, b)
      PROVE  \E i \in j .. len :
                /\ Steps(c, b) = i - j
                /\ Nth(c)[Steps(c, b)] = o[i] /\ ptr[o[i]] = b
                /\ Steps(c, b) > 0 => Nth(c)[Steps(c, b) - 1] = o[i - 1]
  <2> DEFINE n == Steps(c, b)
             at == Nth(c)
  <2>1. c \in Entry \cup {NULL}
    <3>1. j # len + 1 => j \in 1 .. len
      BY <1>1
    <3>2. QED
      BY <1>1, <1>2, <3>1
  <2>2. n \in 0 .. N /\ at[n] \in Entry /\ Matches(at[n], b)
    BY <1>5, <2>1, StepsFinds
  <2>3. \A m \in 0 .. N : at[m] = IF j + m <= len THEN o[j + m] ELSE NULL
    BY WalkValues
  <2> HIDE DEF len, N, n, at
  <2>4. j + n <= len /\ at[n] = o[j + n]
    BY <2>2, <2>3, Facts
  <2>5. j + n \in j .. len /\ n = (j + n) - j
    BY <1>1, <2>2, <2>4
  <2>6. ASSUME n > 0 PROVE at[n - 1] = o[(j + n) - 1]
    <3>1. n - 1 \in 0 .. N /\ j + (n - 1) <= len /\ j + (n - 1) = (j + n) - 1
      BY <1>1, <2>2, <2>4, <2>6
    <3>2. QED
      BY <2>3, <3>1
  <2>7. ptr[o[j + n]] = b
    BY <2>2, <2>4 DEF Matches
  <2>8. QED
    BY <2>4, <2>5, <2>6, <2>7 DEF n, at
<1>6. QED
  BY <1>4, <1>5 DEF Finds, FoundAt

(* The head of the list, and each of its entries, is a position of it.      *)
LEMMA HeadStarts ==
  ASSUME entries \subseteq Entry, NEW o, ChainOf(head, next, entries, o)
  PROVE  StartsAt(o, 1, head)
<1>1. Cardinality(entries) \in Nat
  BY SubsetOfEntries
<1>2. QED
  BY <1>1 DEF ChainOf, StartsAt

LEMMA EntryStarts ==
  ASSUME entries \subseteq Entry, NEW o, ChainOf(head, next, entries, o),
         NEW c \in entries \cup {NULL}
  PROVE  \E j : StartsAt(o, j, c)
<1>1. Cardinality(entries) \in Nat
  BY SubsetOfEntries
<1>2. CASE c = NULL
  <2>1. StartsAt(o, Cardinality(entries) + 1, c)
    BY <1>1, <1>2 DEF StartsAt
  <2>2. QED
    BY <2>1
<1>3. CASE c # NULL
  <2>1. PICK i \in 1 .. Cardinality(entries) : o[i] = c
    BY <1>3 DEF ChainOf
  <2>2. StartsAt(o, i, c)
    BY <1>1, <2>1 DEF StartsAt
  <2>3. QED
    BY <2>2
<1>4. QED
  BY <1>2, <1>3

-------------------------------------------------------------------------------
(* The invariant says what the properties say.                              *)
LEMMA TypeLinks == GballocTypeOK => next \in Links /\ entries \subseteq Entry
BY DEF GballocTypeOK, Links

LEMMA IInvList == GballocIInv => ListIsExact
<1> SUFFICES ASSUME GballocIInv, "stale" \notin harm
             PROVE  /\ lock = NULL /\ Ends(head) /\ Trail(head) = entries
                    /\ "outside" \notin harm => \A b \in Block :
                         IF Tracked(b)
                         THEN Found(head, b) /\ size[Nth(head)[Steps(head, b)]] = asked[b]
                         ELSE ~Found(head, b)
  BY DEF ListIsExact
<1> DEFINE len == Cardinality(entries)
<1>1. next \in Links /\ entries \subseteq Entry /\ lock = NULL
  BY TypeLinks DEF GballocIInv, Linked
<1>2. PICK o \in [1 .. len -> entries] : ChainOf(head, next, entries, o)
  BY DEF GballocIInv, Linked, IsList
<1>3. StartsAt(o, 1, head)
  BY <1>1, <1>2, HeadStarts
<1>4. Ends(head) /\ Trail(head) = {o[i] : i \in 1 .. len}
  BY <1>1, <1>2, <1>3, WalkVisits
<1>5. /\ \A i \in 1 .. len : o[i] \in entries
      /\ \A e \in entries : \E i \in 1 .. len : o[i] = e
  BY <1>2 DEF ChainOf
<1>6. Trail(head) = entries
  BY <1>4, <1>5
<1>7. ASSUME "outside" \notin harm, NEW b \in Block
      PROVE  IF Tracked(b)
             THEN Found(head, b) /\ size[Nth(head)[Steps(head, b)]] = asked[b]
             ELSE ~Found(head, b)
  <2>1. /\ \A e \in entries : asked[ptr[e]] = size[e] /\ size[e] # 0
        /\ asked[b] # 0 => \E e \in entries : ptr[e] = b
    BY <1>7 DEF GballocIInv, BlocksListed, OneToOne, Clean, Counters
  <2>2. /\ Found(head, b) <=> \E i \in 1 .. len : ptr[o[i]] = b
        /\ Found(head, b) => \E i \in 1 .. len :
             Nth(head)[Steps(head, b)] = o[i] /\ ptr[o[i]] = b
    <3>1. Finds(o, 1, head, b)
      BY <1>1, <1>2, <1>3, WalkFinds
    <3>2. QED
      BY <3>1 DEF Finds, FoundAt
  <2>3. CASE Tracked(b)
    <3>1. Found(head, b)
      BY <1>5, <2>1, <2>2, <2>3 DEF Tracked
    <3>2. PICK i \in 1 .. len : Nth(head)[Steps(head, b)] = o[i] /\ ptr[o[i]] = b
      BY <2>2, <3>1
    <3>3. size[o[i]] = asked[b]
      BY <1>5, <2>1, <3>2
    <3>4. QED
      BY <2>3, <3>1, <3>2, <3>3
  <2>4. CASE ~Tracked(b)
    <3>1. ~Found(head, b)
      BY <1>5, <2>1, <2>2, <2>4 DEF Tracked
    <3>2. QED
      BY <2>4, <3>1
  <2>5. QED
    BY <2>3, <2>4
<1>8. QED
  BY <1>1, <1>4, <1>6, <1>7

(* Without what was forgotten the total is what is listed, and is not      *)
(* wrapped.                                                                 *)
LEMMA SmallMod ==
  ASSUME NEW M \in Nat \ {0}, NEW a \in 0 .. M - 1 PROVE a % M = a
OBVIOUS

LEMMA ExactTotal ==
  ASSUME GballocTypeOK, Totals, BlocksListed, Fits(asked), Clean, forgotten = 0
  PROVE  totalSize = Listed(entries) /\ Listed(entries) < SizeMod
<1> DEFINE L == Listed(entries)
<1>1. L \in Nat /\ totalSize \in 0 .. SizeMod - 1 /\ SizeMod \in Nat \ {0}
  BY SizeNumbers, Facts DEF GballocTypeOK
<1>2. L < SizeMod
  BY DEF BlocksListed, OneToOne, Fits
<1>3. (totalSize + forgotten) % SizeMod = L % SizeMod
  BY DEF Totals, Clean
<1> HIDE DEF L
<1>4. L \in 0 .. SizeMod - 1 /\ totalSize + forgotten = totalSize
  BY <1>1, <1>2
<1>5. L % SizeMod = L /\ totalSize % SizeMod = totalSize
  BY <1>1, <1>4, SmallMod
<1>6. QED
  BY <1>2, <1>3, <1>4, <1>5 DEF L

LEMMA IInvTotal == GballocIInv => TotalIsExact
<1> SUFFICES ASSUME GballocIInv PROVE TotalIsExact
  OBVIOUS
<1>1. ASSUME Clean, forgotten = 0
      PROVE  totalSize = Listed(entries) /\ totalSize <= maxSize
  BY <1>1, ExactTotal DEF GballocIInv, Counters, Totals
<1>2. QED
  BY <1>1 DEF GballocIInv, Totals, Clean, TotalIsExact

-------------------------------------------------------------------------------
LEMMA InitGballocIInv == GballocInit => GballocIInv
<1> SUFFICES ASSUME GballocInit PROVE GballocIInv
  OBVIOUS
<1>1. GballocTypeOK
  <2>1. 0 \in 0 .. SizeMod - 1 /\ 0 \in 0 .. MaxCalls
    BY Facts
  <2>2. /\ totalSize \in 0 .. SizeMod - 1 /\ maxSize \in 0 .. SizeMod - 1
        /\ allocations \in 0 .. MaxCalls /\ calls \in 0 .. MaxCalls /\ forgotten \in Nat
    BY <2>1 DEF GballocInit
  <2>3. /\ next \in [Entry -> Entry \cup {NULL}] /\ ptr \in [Entry -> Block \cup {NULL}]
        /\ size \in [Entry -> Sizes \cup {0}] /\ asked \in [Block -> Sizes \cup {0}]
        /\ freeing \in [Thread -> [ptr : Block \cup {NULL}, curr : Entry \cup {NULL}]]
    BY DEF GballocInit, Idle
  <2>4. QED
    BY <2>2, <2>3 DEF GballocInit, GballocTypeOK
<1>2. FreedOnce
  BY DEF GballocInit, FreedOnce
<1>3. SumOf(asked, Block) = 0 /\ Listed(entries) = 0
  <2> DEFINE T == {n \in Nat : \A S \in SUBSET Block :
                                 Cardinality(S) = n => SumOf(asked, S) = 0}
  <2>0. ASSUME NEW S \in SUBSET Block
        PROVE  IsFiniteSet(S) /\ Cardinality(S) \in Nat /\ Numbers(asked, S)
    BY Facts, FS_Subset, FS_CardinalityType DEF GballocInit, Numbers
  <2>1. 0 \in T
    BY <2>0, FS_EmptySet, SumSteps
  <2>2. ASSUME NEW n \in Nat, n \in T PROVE n + 1 \in T
    <3> SUFFICES ASSUME NEW S \in SUBSET Block, Cardinality(S) = n + 1
                 PROVE  SumOf(asked, S) = 0
      OBVIOUS
    <3>1. S # {} /\ Chosen(S) \in S
      BY <2>0, FS_EmptySet DEF Chosen
    <3>2. Cardinality(S \ {Chosen(S)}) = n
      BY <2>0, <3>1, OneLess
    <3>3. SumOf(asked, S \ {Chosen(S)}) = 0 /\ asked[Chosen(S)] = 0
      BY <2>2, <3>1, <3>2 DEF GballocInit
    <3>4. SumOf(asked, S) = asked[Chosen(S)] + SumOf(asked, S \ {Chosen(S)})
      BY <2>0, <3>1, SumSteps
    <3>5. QED
      BY <3>3, <3>4
  <2> HIDE DEF T
  <2>3. Nat \subseteq T
    BY <2>1, <2>2, NumberInduction
  <2>4. SumOf(asked, Block) = 0
    BY <2>0, <2>3 DEF T
  <2>5. Listed(entries) = 0
    <3>1. entries = {} /\ IsFiniteSet({}) /\ Numbers(size, {})
      BY FS_EmptySet DEF GballocInit, Numbers
    <3>2. QED
      BY <3>1, SumSteps DEF Listed
  <2>6. QED
    BY <2>4, <2>5
<1>4. Counters
  BY <1>3, Facts DEF GballocInit, Counters, Fits
<1>5. Linked
  <2>1. Cardinality({}) = 0 /\ 1 .. 0 = {}
    BY FS_EmptySet
  <2> DEFINE o == [i \in 1 .. 0 |-> NULL]
  <2>2. ChainOf(NULL, next, {}, o) /\ o \in [1 .. Cardinality({}) -> {}]
    BY <2>1 DEF ChainOf
  <2>3. IsList(NULL, next, {})
    BY <2>2 DEF IsList
  <2>4. QED
    BY <2>3 DEF GballocInit, Linked
<1>6. BlocksListed
  BY <1>3 DEF GballocInit, BlocksListed, OneToOne
<1>7. Totals
  BY <1>3 DEF GballocInit, Totals
<1>8. QED
  BY <1>1, <1>2, <1>4, <1>5, <1>6, <1>7 DEF GballocIInv

-------------------------------------------------------------------------------
(* The steps that leave the list as it is.                                  *)
LEMMA ListKept ==
  ASSUME GballocTypeOK, Counters, Linked, BlocksListed, UNCHANGED <<list, entries>>,
         lock' = IF "stale" \in harm' THEN lock' ELSE NULL, harm \subseteq harm',
         "outside" \notin harm' => UNCHANGED asked,
         \A b \in blocks : asked[b] # 0 /\ "outside" \notin harm' => b \in blocks'
  PROVE  Linked' /\ BlocksListed'
<1>1. Linked'
  BY DEF Linked, list, IsList, ChainOf
<1>2. ASSUME Clean' PROVE Clean /\ UNCHANGED asked
  BY <1>2 DEF Clean
<1>3. ASSUME Clean' PROVE Listed(entries)' = Listed(entries)
  BY DEF list, Listed
<1>4. BlocksListed'
  <2> SUFFICES ASSUME Clean'
               PROVE  /\ \A e \in entries' : ptr'[e] \in blocks' /\ asked'[ptr'[e]] = size'[e]
                      /\ \A e, f \in entries' : ptr'[e] = ptr'[f] => e = f
                      /\ \A b \in Block : asked'[b] # 0 => \E e \in entries' : ptr'[e] = b
                      /\ SumOf(asked, Block)' = Listed(entries)'
    BY DEF BlocksListed, OneToOne
  <2>1. Clean /\ UNCHANGED asked /\ Listed(entries)' = Listed(entries)
    BY <1>2, <1>3
  <2>2. /\ \A e \in entries : ptr[e] \in blocks /\ asked[ptr[e]] = size[e]
        /\ \A e, f \in entries : ptr[e] = ptr[f] => e = f
        /\ \A b \in Block : asked[b] # 0 => \E e \in entries : ptr[e] = b
        /\ SumOf(asked, Block) = Listed(entries)
    BY <2>1 DEF BlocksListed, OneToOne
  <2>3. ASSUME NEW e \in entries PROVE ptr[e] \in blocks'
    BY <2>2 DEF Counters, Clean
  <2>4. SumOf(asked, Block)' = SumOf(asked, Block)
    BY <2>1
  <2>5. QED
    BY <2>1, <2>2, <2>3, <2>4 DEF list
<1>5. QED
  BY <1>1, <1>4

LEMMA TotalsKept ==
  ASSUME Totals, UNCHANGED <<totals, forgotten, size, entries>>, harm \subseteq harm'
  PROVE  Totals'
<1>1. Listed(entries)' = Listed(entries)
  BY DEF Listed
<1>2. QED
  BY <1>1 DEF Totals, Clean, totals

LEMMA AskedLess ==
  ASSUME GballocTypeOK, Fits(asked), NEW b \in Block
  PROVE  Fits([asked EXCEPT ![b] = 0]) /\ [asked EXCEPT ![b] = 0] \in [Block -> Sizes \cup {0}]
<1> DEFINE a == [asked EXCEPT ![b] = 0]
<1>0. asked \in [Block -> Sizes \cup {0}]
  BY DEF GballocTypeOK
<1>1. a \in [Block -> Sizes \cup {0}] /\ a[b] = 0 /\ \A x \in Block : x # b => a[x] = asked[x]
  BY <1>0
<1>2. Numbers(asked, Block) /\ SumOf(asked, Block) \in Nat
  BY AskedNumbers
<1>3. Numbers(a, Block)
  BY <1>1, <1>2 DEF Numbers
<1> HIDE DEF a
<1>4. SumOf(a, Block) + asked[b] = SumOf(asked, Block) + 0
  BY <1>1, <1>2, Facts, SumUpdate
<1>5. SumOf(a, Block) \in Nat /\ asked[b] \in Nat
  BY <1>2, <1>3, Facts, SumSteps DEF Numbers
<1>6. SumOf(a, Block) <= SumOf(asked, Block)
  BY <1>2, <1>4, <1>5
<1>7. Fits(a)
  BY <1>2, <1>5, <1>6, Facts DEF Fits
<1>8. QED
  BY <1>1, <1>7 DEF a

LEMMA FitsKept == Fits(asked) /\ UNCHANGED asked => Fits(asked)'
BY DEF Fits

(* The walk of a call that does not find the pointer ends.                  *)
LEMMA HeadEnds ==
  ASSUME GballocTypeOK, Linked, "stale" \notin harm PROVE Ends(head)
<1>1. PICK o \in [1 .. Cardinality(entries) -> entries] : ChainOf(head, next, entries, o)
  BY DEF Linked, IsList
<1>2. QED
  BY <1>1, TypeLinks, HeadStarts, WalkVisits

LEMMA EntryEnds ==
  ASSUME GballocTypeOK, Linked, "stale" \notin harm, NEW c \in entries \cup {NULL} PROVE Ends(c)
<1>1. PICK o \in [1 .. Cardinality(entries) -> entries] : ChainOf(head, next, entries, o)
  BY DEF Linked, IsList
<1>2. PICK j : StartsAt(o, j, c)
  BY <1>1, TypeLinks, EntryStarts
<1>3. QED
  BY <1>1, <1>2, TypeLinks, WalkVisits

LEMMA StutterIInv == GballocIInv /\ UNCHANGED gballocVars => GballocIInv'
<1> SUFFICES ASSUME GballocIInv, UNCHANGED gballocVars PROVE GballocIInv'
  OBVIOUS
<1> USE DEF gballocVars, list, totals, heap, GballocIInv
<1>1. GballocTypeOK'
  BY DEF GballocTypeOK
<1>2. FreedOnce' /\ Counters'
  BY FitsKept DEF FreedOnce, Counters
<1>3. lock' = IF "stale" \in harm' THEN lock' ELSE NULL
  BY DEF Linked
<1>4. Linked' /\ BlocksListed'
  BY <1>3, ListKept
<1>5. Totals'
  BY TotalsKept
<1>6. QED
  BY <1>1, <1>2, <1>4, <1>5

LEMMA DeinitGballocIInv == GballocIInv /\ DeinitModule => GballocIInv'
<1> SUFFICES ASSUME GballocIInv, DeinitModule PROVE GballocIInv'
  OBVIOUS
<1> USE DEF DeinitModule, list, totals, heap, GballocIInv
<1>1. GballocTypeOK'
  BY DEF GballocTypeOK
<1>2. FreedOnce' /\ Counters'
  BY FitsKept DEF FreedOnce, Counters
<1>3. lock' = IF "stale" \in harm' THEN lock' ELSE NULL
  BY DEF Linked
<1>4. Linked' /\ BlocksListed'
  BY <1>3, ListKept
<1>5. Totals'
  BY TotalsKept
<1>6. QED
  BY <1>1, <1>2, <1>4, <1>5

(* The totals are cleared: what was listed is forgotten.                    *)
LEMMA ClearIInv == GballocIInv /\ (ResetMetrics \/ InitModule) => GballocIInv'
<1> SUFFICES ASSUME GballocIInv, ResetMetrics \/ InitModule PROVE GballocIInv'
  OBVIOUS
<1>0. /\ ClearTotals /\ calls < MaxCalls /\ calls' = calls + 1 /\ initialized' \in BOOLEAN
      /\ UNCHANGED <<lock, list, freeing, heap, asked, harm>>
  BY DEF ResetMetrics, InitModule, Running, GballocIInv, GballocTypeOK
<1> USE DEF list, totals, heap, GballocIInv
<1>1. GballocTypeOK'
  <2>1. 0 \in 0 .. SizeMod - 1 /\ 0 \in 0 .. MaxCalls /\ calls' \in 0 .. MaxCalls
    BY <1>0, Facts DEF GballocTypeOK
  <2>2. forgotten' \in Nat
    BY <1>0, SizeNumbers DEF ClearTotals
  <2>3. QED
    BY <1>0, <2>1, <2>2 DEF GballocTypeOK, ClearTotals
<1>2. FreedOnce' /\ Counters'
  <2>1. allocations' <= calls'
    BY <1>0 DEF ClearTotals, GballocTypeOK
  <2>2. QED
    BY <1>0, <2>1, FitsKept DEF FreedOnce, Counters
<1>3. lock' = IF "stale" \in harm' THEN lock' ELSE NULL
  BY <1>0 DEF Linked
<1>4. Linked' /\ BlocksListed'
  BY <1>0, <1>3, ListKept
<1>5. Totals'
  <2>1. Listed(entries)' = Listed(entries) /\ Listed(entries) \in Nat
    BY <1>0, SizeNumbers DEF Listed
  <2>2. totalSize' = 0 /\ maxSize' = 0 /\ forgotten' = Listed(entries)
    BY <1>0 DEF ClearTotals
  <2>3. totalSize' + forgotten' = Listed(entries)'
    BY <2>1, <2>2
  <2>4. QED
    BY <2>2, <2>3 DEF Totals
<1>6. QED
  BY <1>1, <1>2, <1>4, <1>5

-------------------------------------------------------------------------------
(* The totals after the size c was added, modulo the width of size_t.       *)
LEMMA TotalsCounted ==
  ASSUME GballocTypeOK, Totals, NEW c \in Int, harm \subseteq harm', forgotten' = forgotten,
         totalSize' = (totalSize + c) % SizeMod,
         \E q \in Int : "stale" \notin harm' =>
                          Listed(entries)' = Listed(entries) + c + SizeMod * q,
         Clean' /\ forgotten' = 0 => totalSize' <= maxSize'
  PROVE  Totals'
<1> SUFFICES ASSUME "stale" \notin harm'
             PROVE  (totalSize' + forgotten') % SizeMod = Listed(entries)' % SizeMod
  BY DEF Totals
<1> DEFINE L == Listed(entries)
           K == Listed(entries)'
           t == totalSize
           f == forgotten
           M == SizeMod
           u == totalSize'
<1>1. PICK q \in Int : K = L + c + M * q
  OBVIOUS
<1>2. L \in Int /\ t \in Int /\ f \in Int /\ M \in Nat \ {0} /\ L + c \in Int
  BY SizeNumbers, Facts DEF GballocTypeOK
<1>3. (t + f) % M = L % M
  BY DEF Totals
<1>4. u = (t + c) % M
  OBVIOUS
<1> HIDE DEF L, K, t, f, M, u
<1>5. (u + f) % M = (L + c) % M
  BY <1>2, <1>3, <1>4, ModCount
<1> DEFINE d == L + c
<1>6. d \in Int /\ K = d + M * q
  BY <1>1, <1>2
<1> HIDE DEF d
<1>7. (d + M * q) % M = d % M
  BY <1>2, <1>6, ModShift
<1>8. K % M = (L + c) % M
  BY <1>6, <1>7 DEF d
<1>9. QED
  BY <1>5, <1>8 DEF K, M, u, f

(* A new entry for a new block.                                             *)
LEMMA TrackIInv ==
  ASSUME GballocIInv, initialized, lock = NULL, NEW s \in Sizes, NEW b \in Block \ blocks,
         Track(b, s), blocks' = blocks \cup {b}, held' = held \cup {b},
         calls < MaxCalls, calls' = calls + 1,
         UNCHANGED <<initialized, lock, freeing, forgotten, harm>>
  PROVE  GballocIInv'
<1> USE DEF GballocIInv
<1>1. PICK e \in Entry \ entries :
        /\ next' = [next EXCEPT ![e] = head]
        /\ ptr' = [ptr EXCEPT ![e] = b]
        /\ size' = [size EXCEPT ![e] = s]
        /\ head' = e
        /\ entries' = entries \cup {e}
        /\ asked' = [asked EXCEPT ![b] = s]
        /\ Fits(asked')
        /\ totalSize' = (totalSize + s) % SizeMod
        /\ maxSize' = IF maxSize < totalSize' THEN totalSize' ELSE maxSize
        /\ allocations' = allocations + 1
  BY DEF Track, Link, Count
<1>2. s \in Nat /\ s # 0 /\ s < SizeMod /\ SizeMod \in Nat \ {0} /\ e # NULL /\ b # NULL
  BY Facts
<1>3. totalSize' \in 0 .. SizeMod - 1 /\ maxSize' \in 0 .. SizeMod - 1
  <2>1. totalSize + s \in Int
    BY <1>2 DEF GballocTypeOK
  <2> DEFINE x == totalSize + s
  <2> HIDE DEF x
  <2>2. x % SizeMod \in 0 .. SizeMod - 1
    BY <1>2, <2>1, ModRange DEF x
  <2>3. QED
    BY <1>1, <2>2 DEF x, GballocTypeOK
<1>4. allocations' <= calls' /\ allocations' \in 0 .. MaxCalls /\ calls' \in 0 .. MaxCalls
  BY <1>1, Facts DEF GballocTypeOK, Counters
<1>5. GballocTypeOK'
  <2>1. /\ head' \in Entry \cup {NULL} /\ next' \in [Entry -> Entry \cup {NULL}]
        /\ ptr' \in [Entry -> Block \cup {NULL}] /\ size' \in [Entry -> Sizes \cup {0}]
        /\ asked' \in [Block -> Sizes \cup {0}]
    BY <1>1 DEF GballocTypeOK
  <2>2. entries' \subseteq Entry /\ blocks' \subseteq Block /\ held' \subseteq blocks'
    BY <1>1 DEF GballocTypeOK
  <2>3. QED
    BY <1>3, <1>4, <2>1, <2>2 DEF GballocTypeOK
<1>6. FreedOnce'
  BY DEF FreedOnce
<1>7. /\ size'[e] = s /\ ptr'[e] = b
      /\ \A x \in entries : size'[x] = size[x] /\ ptr'[x] = ptr[x] /\ x # e
      /\ asked'[b] = s /\ \A x \in Block : x # b => asked'[x] = asked[x]
  BY <1>1 DEF GballocTypeOK
<1>8. Counters'
  BY <1>1, <1>2, <1>4, <1>7 DEF Counters
<1>9. Linked'
  <2> SUFFICES ASSUME "stale" \notin harm' PROVE IsList(head', next', entries')
    BY DEF Linked
  <2>1. PICK o \in [1 .. Cardinality(entries) -> entries] : ChainOf(head, next, entries, o)
    BY DEF Linked, IsList
  <2>2. IsList(e, [next EXCEPT ![e] = head], entries \cup {e})
    BY <2>1, TypeLinks, ChainPush
  <2>3. QED
    BY <1>1, <2>2
<1>10. Listed(entries)' = Listed(entries) + s /\ Listed(entries) \in Nat
  <2>1. Numbers(size', entries') /\ IsFiniteSet(entries')
    <3>1. entries' \subseteq Entry /\ \A x \in Entry : size'[x] \in Sizes \cup {0}
      BY <1>5 DEF GballocTypeOK
    <3>2. \A x \in Sizes \cup {0} : x \in Nat
      BY Facts
    <3>3. Numbers(size', entries')
      BY <3>1, <3>2 DEF Numbers
    <3>4. QED
      BY <3>1, <3>3, SubsetOfEntries
  <2>2. e \in entries' /\ entries' \ {e} = entries
    BY <1>1
  <2>3. SumOf(size', entries') = size'[e] + SumOf(size', entries)
    BY <2>1, <2>2, SumRemove
  <2>4. SumOf(size', entries) = SumOf(size, entries)
    BY <1>7, SizeNumbers, SumSame
  <2>5. QED
    BY <1>2, <1>7, <2>3, <2>4, SizeNumbers DEF Listed
<1>11. BlocksListed'
  <2> SUFFICES ASSUME Clean' PROVE OneToOne'
    BY DEF BlocksListed
  <2>1. /\ \A x \in entries : ptr[x] \in blocks /\ asked[ptr[x]] = size[x]
        /\ \A x, y \in entries : ptr[x] = ptr[y] => x = y
        /\ \A x \in Block : asked[x] # 0 => \E y \in entries : ptr[y] = x
        /\ SumOf(asked, Block) = Listed(entries)
    BY DEF BlocksListed, OneToOne, Clean
  <2>2. asked[b] = 0
    BY <2>1
  <2>3. ASSUME NEW x \in entries' PROVE ptr'[x] \in blocks' /\ asked'[ptr'[x]] = size'[x]
    <3>1. CASE x = e
      BY <1>7, <3>1
    <3>2. CASE x # e
      <4>1. x \in entries /\ ptr[x] \in blocks /\ ptr[x] \in Block /\ ptr[x] # b
        BY <1>1, <2>1, <3>2 DEF GballocTypeOK
      <4>2. QED
        BY <1>7, <2>1, <4>1
    <3>3. QED
      BY <3>1, <3>2
  <2>4. ASSUME NEW x \in entries', NEW y \in entries', ptr'[x] = ptr'[y] PROVE x = y
    <3>1. \A z \in entries : ptr[z] # b
      BY <2>1
    <3>2. QED
      BY <1>1, <1>7, <2>1, <2>4, <3>1
  <2>5. ASSUME NEW x \in Block, asked'[x] # 0 PROVE \E y \in entries' : ptr'[y] = x
    BY <1>1, <1>7, <2>1, <2>5
  <2>6. SumOf(asked', Block) = Listed(entries)'
    <3>1. SumOf(asked', Block) + asked[b] = SumOf(asked, Block) + s
      BY <1>2, <1>7, Facts, AskedNumbers, SumUpdate
    <3>2. SumOf(asked', Block) \in Nat
      <4>1. \A x \in Block : asked'[x] \in Sizes \cup {0}
        BY <1>5 DEF GballocTypeOK
      <4>2. \A x \in Sizes \cup {0} : x \in Nat
        BY Facts
      <4>3. Numbers(asked', Block)
        BY <4>1, <4>2 DEF Numbers
      <4>4. QED
        BY <4>3, Facts, SumSteps
    <3>3. QED
      BY <1>2, <1>10, <2>1, <2>2, <3>1, <3>2
  <2>7. QED
    BY <2>3, <2>4, <2>5, <2>6 DEF OneToOne
<1>12. Totals'
  <2>1. totalSize' <= maxSize'
    BY <1>1, <1>3
  <2>2. Listed(entries)' = Listed(entries) + s + SizeMod * 0
    BY <1>2, <1>10
  <2>3. \E q \in Int : "stale" \notin harm' =>
                        Listed(entries)' = Listed(entries) + s + SizeMod * q
    BY <2>2
  <2>4. s \in Int /\ totalSize' = (totalSize + s) % SizeMod /\ GballocTypeOK /\ Totals
    BY <1>1, <1>2
  <2>5. QED
    BY <2>1, <2>3, <2>4, TotalsCounted
<1>13. QED
  BY <1>5, <1>6, <1>8, <1>9, <1>11, <1>12

LEMMA AllocateIInv ==
  ASSUME GballocIInv, NEW s \in Sizes, Allocate(s) PROVE GballocIInv'
<1>1. /\ calls < MaxCalls /\ calls' = calls + 1
      /\ UNCHANGED <<initialized, lock, freeing, forgotten, harm>>
      /\ initialized => lock = NULL
  BY DEF Allocate, Running
<1>2. PICK b \in Block \ blocks :
        /\ blocks' = blocks \cup {b} /\ held' = held \cup {b}
        /\ \/ initialized /\ Track(b, s)
           \/ ~initialized /\ UNCHANGED <<list, totals, entries, asked>>
  BY DEF Allocate
<1>3. CASE initialized
  BY <1>1, <1>2, <1>3, TrackIInv
<1>4. CASE ~initialized
  <2>0. UNCHANGED <<list, totals, entries, asked>>
    BY <1>2, <1>4
  <2> USE DEF GballocIInv, list, totals
  <2>1. GballocTypeOK'
    <3>1. calls' \in 0 .. MaxCalls
      BY <1>1, Facts DEF GballocTypeOK
    <3>2. QED
      BY <1>1, <1>2, <2>0, <3>1 DEF GballocTypeOK
  <2>2. FreedOnce'
    BY <1>1, <1>2 DEF FreedOnce
  <2>3. Counters'
    BY <1>1, <2>0, FitsKept DEF Counters, GballocTypeOK
  <2>4. lock' = IF "stale" \in harm' THEN lock' ELSE NULL
    BY <1>1 DEF Linked
  <2>5. Linked' /\ BlocksListed'
    BY <1>1, <1>2, <2>0, <2>4, ListKept
  <2>6. Totals'
    BY <1>1, <2>0, TotalsKept
  <2>7. QED
    BY <2>1, <2>2, <2>3, <2>5, <2>6
<1>5. QED
  BY <1>3, <1>4

-------------------------------------------------------------------------------
(* The total without an entry's size is again counted modulo.               *)
LEMMA ModMod ==
  ASSUME NEW M \in Nat \ {0}, NEW x \in Int, NEW y \in Int
  PROVE  ((x % M) + y) % M = (x + y) % M
<1> DEFINE w == x % M
           d == w + y
<1>1. PICK q \in Int : x = M * q + w
  BY ModRange
<1>2. w \in Int
  <2>1. w \in 0 .. M - 1
    BY ModRange
  <2> HIDE DEF w
  <2>2. QED
    BY <2>1
<1> HIDE DEF w
<1>3. d \in Int /\ x + y = d + M * q
  BY <1>1, <1>2
<1> HIDE DEF d
<1>4. (d + M * q) % M = d % M
  BY <1>3, ModShift
<1>5. (x + y) % M = d % M
  BY <1>3, <1>4
<1>6. QED
  BY <1>5 DEF d, w

LEMMA MinusMod ==
  ASSUME NEW a \in Int, NEW b \in Int
  PROVE  Minus(a, b) = (a + (-b)) % SizeMod /\ Minus(a, b) \in 0 .. SizeMod - 1
<1> DEFINE d == a + (-b)
           M == SizeMod
<1>1. d \in Int /\ M \in Nat \ {0} /\ a + M - b = d + M * 1 /\ 1 \in Int
  BY Facts
<1>2. Minus(a, b) = (a + M - b) % M
  BY DEF Minus
<1> HIDE DEF d, M
<1>3. (d + M * 1) % M = d % M /\ d % M \in 0 .. M - 1
  BY <1>1, ModShift, ModRange
<1>4. QED
  BY <1>1, <1>2, <1>3 DEF d, M

LEMMA MinusPlus ==
  ASSUME NEW a \in Int, NEW b \in Int, NEW s \in Int
  PROVE  /\ (Minus(a, b) + s) % SizeMod = (a + (s - b)) % SizeMod
         /\ (Minus(a, b) + s) % SizeMod \in 0 .. SizeMod - 1
<1> DEFINE d == a + (-b)
           m == Minus(a, b)
           M == SizeMod
<1>1. d \in Int /\ M \in Nat \ {0} /\ d + s = a + (s - b)
  BY Facts
<1>2. m = d % M /\ m \in Int
  <2>1. m = d % M /\ m \in 0 .. M - 1
    BY MinusMod
  <2>2. QED
    BY <1>1, <2>1
<1> HIDE DEF d, m, M
<1>3. ((d % M) + s) % M = (d + s) % M
  BY <1>1, ModMod
<1>4. (m + s) % M \in 0 .. M - 1
  <2> DEFINE n == m + s
  <2>1. n \in Int
    BY <1>2
  <2> HIDE DEF n
  <2>2. n % M \in 0 .. M - 1
    BY <1>1, <2>1, ModRange
  <2>3. QED
    BY <2>2 DEF n
<1>5. QED
  BY <1>1, <1>2, <1>3, <1>4 DEF m, M

(* A listed block is resized, and may move.                                 *)
LEMMA ReallocTrackedIInv ==
  ASSUME GballocIInv, NEW t \in Thread, NEW b \in held, ReallocTracked(t, b),
         calls < MaxCalls, calls' = calls + 1,
         UNCHANGED <<initialized, freeing, entries, forgotten>>
  PROVE  GballocIInv'
<1> USE DEF GballocIInv
<1> DEFINE e == Nth(head)[Steps(head, b)]
<1>1. PICK s \in Sizes, c \in (Block \ blocks) \cup {b} :
        /\ ptr' = [ptr EXCEPT ![e] = c]
        /\ size' = [size EXCEPT ![e] = s]
        /\ totalSize' = (Minus(totalSize, size[e]) + s) % SizeMod
        /\ maxSize' = IF maxSize < totalSize' THEN totalSize' ELSE maxSize
        /\ allocations' = allocations + 1
        /\ asked' = [asked EXCEPT ![b] = 0, ![c] = s]
        /\ Fits(asked')
        /\ blocks' = (blocks \ {b}) \cup {c}
        /\ held' = (held \ {b}) \cup {c}
  BY DEF ReallocTracked, Count, Without, Move
<1>2. /\ Found(head, b) /\ lock = NULL /\ UNCHANGED <<lock, head, next>>
      /\ harm \subseteq harm' /\ harm' \subseteq harm \cup {"stale"}
  BY DEF ReallocTracked
<1>3. e \in entries /\ ptr[e] = b /\ b \in Block /\ c \in Block /\ e \in Entry
  <2>1. head \in Entry \cup {NULL}
    BY DEF GballocTypeOK
  <2>2. Matches(e, b)
    BY <1>2, <2>1, TypeLinks, StepsFinds
  <2>3. QED
    BY <1>1, <2>2 DEF Matches, GballocTypeOK
<1> HIDE DEF e
<1>4. /\ s \in Nat /\ s # 0 /\ size[e] \in Nat /\ totalSize \in Nat
      /\ SizeMod \in Nat \ {0} /\ s \in Int /\ s - size[e] \in Int
  BY <1>3, Facts, SizeNumbers DEF GballocTypeOK, Numbers
<1>5. /\ totalSize' \in 0 .. SizeMod - 1 /\ maxSize' \in 0 .. SizeMod - 1
      /\ totalSize' = (totalSize + (s - size[e])) % SizeMod
  <2>1. /\ (Minus(totalSize, size[e]) + s) % SizeMod = (totalSize + (s - size[e])) % SizeMod
        /\ (Minus(totalSize, size[e]) + s) % SizeMod \in 0 .. SizeMod - 1
    <3> DEFINE v == totalSize
               w == size[e]
    <3>1. v \in Int /\ w \in Int /\ s \in Int
      BY <1>4
    <3> HIDE DEF v, w
    <3>2. /\ (Minus(v, w) + s) % SizeMod = (v + (s - w)) % SizeMod
          /\ (Minus(v, w) + s) % SizeMod \in 0 .. SizeMod - 1
      BY <3>1, MinusPlus
    <3>3. QED
      BY <3>2 DEF v, w
  <2>2. QED
    BY <1>1, <2>1 DEF GballocTypeOK
<1>6. allocations' <= calls' /\ allocations' \in 0 .. MaxCalls /\ calls' \in 0 .. MaxCalls
  BY <1>1, Facts DEF GballocTypeOK, Counters
<1>7. GballocTypeOK'
  <2>1. /\ ptr' \in [Entry -> Block \cup {NULL}] /\ size' \in [Entry -> Sizes \cup {0}]
        /\ asked' \in [Block -> Sizes \cup {0}]
    BY <1>1, <1>3 DEF GballocTypeOK
  <2>2. blocks' \subseteq Block /\ held' \subseteq blocks' /\ harm' \subseteq {"stale", "outside"}
    BY <1>1, <1>2, <1>3 DEF GballocTypeOK
  <2>3. QED
    BY <1>2, <1>5, <1>6, <2>1, <2>2 DEF GballocTypeOK
<1>8. FreedOnce'
  <2>1. ASSUME NEW u \in Thread, freeing[u] # Idle
        PROVE  freeing[u].ptr \in blocks' \ held'
    <3>1. freeing[u].ptr \in blocks \ held
      BY <2>1 DEF FreedOnce
    <3>2. QED
      BY <1>1, <3>1
  <2>2. QED
    BY <2>1 DEF FreedOnce
<1>9. /\ size'[e] = s /\ ptr'[e] = c
      /\ \A x \in entries : x # e => size'[x] = size[x] /\ ptr'[x] = ptr[x]
      /\ \A x \in Block : asked'[x] = IF x = c THEN s ELSE IF x = b THEN 0 ELSE asked[x]
  BY <1>1, <1>3 DEF GballocTypeOK
<1>10. Counters'
  BY <1>1, <1>4, <1>6, <1>9 DEF Counters
<1>11. Linked'
  BY <1>2 DEF Linked
<1>12. Listed(entries)' + size[e] = Listed(entries) + s
       /\ Listed(entries)' \in Nat /\ Listed(entries) \in Nat
  <2>1. SumOf(size', entries) + size[e] = SumOf(size, entries) + s
    BY <1>3, <1>4, <1>9, SizeNumbers, SumUpdate
  <2>2. Numbers(size', entries)
    <3>1. \A x \in entries : size'[x] \in Nat
      BY <1>4, <1>9, SizeNumbers DEF Numbers
    <3>2. QED
      BY <3>1 DEF Numbers
  <2>3. SumOf(size', entries) \in Nat
    BY <2>2, SizeNumbers, SumSteps
  <2>4. QED
    BY <2>1, <2>3, SizeNumbers DEF Listed
<1>13. BlocksListed'
  <2> SUFFICES ASSUME Clean' PROVE OneToOne'
    BY DEF BlocksListed
  <2>1. Clean
    BY <1>2 DEF Clean
  <2>2. /\ \A x \in entries : ptr[x] \in blocks /\ asked[ptr[x]] = size[x]
        /\ \A x, y \in entries : ptr[x] = ptr[y] => x = y
        /\ \A x \in Block : asked[x] # 0 => \E y \in entries : ptr[y] = x
        /\ SumOf(asked, Block) = Listed(entries)
    BY <2>1 DEF BlocksListed, OneToOne
  <2>3. asked[b] = size[e] /\ (c # b => asked[c] = 0)
    BY <1>1, <1>3, <2>2
  <2>4. ASSUME NEW x \in entries, x # e
        PROVE  ptr'[x] = ptr[x] /\ ptr[x] # b /\ ptr[x] # c /\ ptr[x] \in blocks
               /\ ptr[x] \in Block
    <3>1. ptr[x] # b /\ ptr[x] \in blocks
      BY <1>3, <2>2, <2>4
    <3>2. QED
      BY <1>1, <1>9, <2>4, <3>1 DEF GballocTypeOK
  <2>5. ASSUME NEW x \in entries PROVE ptr'[x] \in blocks' /\ asked'[ptr'[x]] = size'[x]
    <3>1. CASE x = e
      <4>1. c \in blocks' /\ asked'[c] = s
        BY <1>1, <1>3, <1>9
      <4>2. QED
        BY <1>9, <3>1, <4>1
    <3>2. CASE x # e
      <4>1. /\ ptr'[x] = ptr[x] /\ ptr[x] # b /\ ptr[x] # c /\ ptr[x] \in blocks
            /\ ptr[x] \in Block
        BY <2>4, <3>2
      <4>2. ptr[x] \in blocks'
        BY <1>1, <4>1
      <4>3. asked'[ptr[x]] = asked[ptr[x]]
        BY <1>9, <4>1
      <4>4. QED
        BY <1>9, <2>2, <3>2, <4>1, <4>2, <4>3
    <3>3. QED
      BY <3>1, <3>2
  <2>6. ASSUME NEW x \in entries, NEW y \in entries, ptr'[x] = ptr'[y] PROVE x = y
    <3>1. CASE x = e \/ y = e
      BY <1>9, <2>4, <2>6, <3>1
    <3>2. CASE x # e /\ y # e
      BY <2>2, <2>4, <2>6, <3>2
    <3>3. QED
      BY <3>1, <3>2
  <2>7. ASSUME NEW x \in Block, asked'[x] # 0 PROVE \E y \in entries : ptr'[y] = x
    <3>1. CASE x = c
      BY <1>3, <1>9, <3>1
    <3>2. CASE x # c
      <4>1. x # b /\ asked[x] # 0
        BY <1>9, <2>7, <3>2
      <4>2. PICK y \in entries : ptr[y] = x
        BY <2>2, <4>1
      <4>3. y # e
        BY <1>3, <4>1, <4>2
      <4>4. QED
        BY <2>4, <4>2, <4>3
    <3>3. QED
      BY <3>1, <3>2
  <2>8. SumOf(asked', Block) = Listed(entries)'
    <3> DEFINE a == [asked EXCEPT ![b] = 0]
    <3>1. a[b] = 0 /\ \A x \in Block : x # b => a[x] = asked[x]
      BY <1>3 DEF GballocTypeOK
    <3>2. Numbers(asked, Block) /\ Numbers(a, Block)
      BY <3>1, AskedNumbers DEF Numbers
    <3>3. a[c] = 0 /\ asked'[c] = s /\ \A x \in Block : x # c => asked'[x] = a[x]
      <4>1. \A x \in Block : x # c => asked'[x] = a[x]
        BY <1>9, <3>1
      <4>2. a[c] = 0
        BY <1>3, <2>3, <3>1
      <4>3. QED
        BY <1>3, <1>9, <4>1, <4>2
    <3> HIDE DEF a
    <3>4. SumOf(a, Block) + asked[b] = SumOf(asked, Block) + 0
      BY <1>3, <3>1, <3>2, Facts, SumUpdate
    <3>5. SumOf(asked', Block) + a[c] = SumOf(a, Block) + s
      BY <1>3, <1>4, <3>2, <3>3, Facts, SumUpdate
    <3>6. SumOf(a, Block) \in Nat /\ SumOf(asked, Block) \in Nat
      BY <3>2, Facts, SumSteps
    <3>7. SumOf(asked', Block) \in Nat
      <4>1. \A x \in Block : asked'[x] \in Nat
        BY <1>4, <3>2, <3>3 DEF Numbers
      <4>2. Numbers(asked', Block)
        BY <4>1 DEF Numbers
      <4>3. QED
        BY <4>2, Facts, SumSteps
    <3>8. QED
      BY <1>4, <1>12, <2>2, <2>3, <3>3, <3>4, <3>5, <3>6, <3>7
  <2>9. QED
    BY <2>5, <2>6, <2>7, <2>8 DEF OneToOne
<1>14. Totals'
  <2>1. totalSize' <= maxSize'
    BY <1>1, <1>5
  <2>2. Listed(entries)' = Listed(entries) + (s - size[e]) + SizeMod * 0
    BY <1>4, <1>12
  <2>3. \E q \in Int : "stale" \notin harm' =>
                        Listed(entries)' = Listed(entries) + (s - size[e]) + SizeMod * q
    BY <2>2
  <2>4. QED
    BY <1>2, <1>4, <1>5, <2>1, <2>3, TotalsCounted
<1>15. QED
  BY <1>7, <1>8, <1>10, <1>11, <1>13, <1>14

(* Not in the list: the walk of a list without harm ends, so the lock is    *)
(* given back.                                                              *)
LEMMA ReallocUnknownIInv ==
  ASSUME GballocIInv, NEW t \in Thread, NEW b \in held, ReallocUnknown(t, b),
         calls < MaxCalls, calls' = calls + 1,
         UNCHANGED <<initialized, freeing, entries, forgotten>>
  PROVE  GballocIInv'
<1> USE DEF GballocIInv, list, totals
<1>0. /\ lock' = IF Ends(head) THEN NULL ELSE t
      /\ UNCHANGED <<list, totals, blocks, held, asked, harm>>
  BY DEF ReallocUnknown
<1>1. GballocTypeOK'
  <2>1. lock' \in Thread \cup {NULL} /\ calls' \in 0 .. MaxCalls
    BY <1>0, Facts DEF GballocTypeOK
  <2>2. QED
    BY <1>0, <2>1 DEF GballocTypeOK
<1>2. FreedOnce' /\ Counters'
  BY <1>0, FitsKept DEF FreedOnce, Counters, GballocTypeOK
<1>3. lock' = IF "stale" \in harm' THEN lock' ELSE NULL
  BY <1>0, HeadEnds
<1>4. Linked' /\ BlocksListed'
  BY <1>0, <1>3, ListKept
<1>5. Totals'
  BY <1>0, TotalsKept
<1>6. QED
  BY <1>1, <1>2, <1>4, <1>5

(* A block that may be tracked is freed or resized outside the module.      *)
LEMMA OutsideIInv ==
  ASSUME GballocIInv, GballocTypeOK', FreedOnce', allocations' <= calls', NEW b \in held,
         asked' = [asked EXCEPT ![b] = 0],
         harm' = harm \cup (IF Tracked(b) THEN {"outside"} ELSE {}),
         \A x \in blocks : x # b => x \in blocks',
         UNCHANGED <<lock, list, totals, entries, forgotten>>
  PROVE  GballocIInv'
<1> USE DEF GballocIInv
<1>1. b \in Block
  BY DEF GballocTypeOK
<1>2. Fits(asked')
  BY <1>1, AskedLess DEF Counters
<1>3. Counters'
  BY <1>2 DEF Counters, list
<1>4. "outside" \notin harm' => asked[b] = 0 /\ UNCHANGED asked
  BY <1>1 DEF Tracked, GballocTypeOK
<1>5. lock' = IF "stale" \in harm' THEN lock' ELSE NULL
  BY DEF Linked
<1>6. \A x \in blocks : asked[x] # 0 /\ "outside" \notin harm' => x \in blocks'
  BY <1>4
<1>7. Linked' /\ BlocksListed'
  BY <1>4, <1>5, <1>6, ListKept
<1>8. Totals'
  BY TotalsKept DEF list
<1>9. QED
  BY <1>3, <1>7, <1>8

LEMMA ReallocOutsideIInv ==
  ASSUME GballocIInv, NEW t \in Thread, NEW b \in held, ReallocOutside(t, b),
         calls < MaxCalls, calls' = calls + 1,
         UNCHANGED <<initialized, freeing, entries, forgotten>>
  PROVE  GballocIInv'
<1>1. PICK c \in (Block \ blocks) \cup {b} :
        /\ blocks' = (blocks \ {b}) \cup {c} /\ held' = (held \ {b}) \cup {c}
        /\ asked' = [asked EXCEPT ![b] = 0]
        /\ harm' = harm \cup (IF Tracked(b) THEN {"outside"} ELSE {})
        /\ UNCHANGED <<lock, list, totals>>
  BY DEF ReallocOutside, Move
<1>2. b \in Block /\ c \in Block
  BY <1>1 DEF GballocIInv, GballocTypeOK
<1>3. GballocTypeOK'
  <2>1. calls' \in 0 .. MaxCalls
    BY Facts DEF GballocIInv, GballocTypeOK
  <2>2. asked' \in [Block -> Sizes \cup {0}]
    BY <1>1, <1>2, AskedLess DEF GballocIInv, Counters
  <2>3. blocks' \subseteq Block /\ held' \subseteq blocks' /\ harm' \subseteq {"stale", "outside"}
    BY <1>1, <1>2 DEF GballocIInv, GballocTypeOK
  <2>4. QED
    BY <1>1, <2>1, <2>2, <2>3 DEF GballocIInv, GballocTypeOK, list, totals
<1>4. FreedOnce'
  <2>1. ASSUME NEW u \in Thread, freeing[u] # Idle
        PROVE  freeing[u].ptr \in blocks' \ held'
    <3>1. freeing[u].ptr \in blocks \ held
      BY <2>1 DEF GballocIInv, FreedOnce
    <3>2. QED
      BY <1>1, <3>1
  <2>2. QED
    BY <2>1 DEF GballocIInv, FreedOnce
<1>5. allocations' <= calls'
  BY <1>1 DEF GballocIInv, Counters, GballocTypeOK, totals
<1>6. QED
  BY <1>1, <1>3, <1>4, <1>5, OutsideIInv

LEMMA FreeOutsideIInv ==
  ASSUME GballocIInv, NEW t \in Thread, FreeOutside(t) PROVE GballocIInv'
<1>1. PICK b \in held :
        /\ blocks' = blocks \ {b} /\ held' = held \ {b}
        /\ asked' = [asked EXCEPT ![b] = 0]
        /\ harm' = harm \cup (IF Tracked(b) THEN {"outside"} ELSE {})
        /\ UNCHANGED <<initialized, lock, list, totals, entries, freeing, calls, forgotten>>
  BY DEF FreeOutside
<1>2. b \in Block
  BY DEF GballocIInv, GballocTypeOK
<1>3. GballocTypeOK'
  <2>1. asked' \in [Block -> Sizes \cup {0}]
    BY <1>1, <1>2, AskedLess DEF GballocIInv, Counters
  <2>2. blocks' \subseteq Block /\ held' \subseteq blocks' /\ harm' \subseteq {"stale", "outside"}
    BY <1>1, <1>2 DEF GballocIInv, GballocTypeOK
  <2>3. QED
    BY <1>1, <2>1, <2>2 DEF GballocIInv, GballocTypeOK, list, totals
<1>4. FreedOnce'
  BY <1>1 DEF GballocIInv, FreedOnce
<1>5. allocations' <= calls'
  BY <1>1 DEF GballocIInv, Counters, totals
<1>6. QED
  BY <1>1, <1>3, <1>4, <1>5, OutsideIInv

-------------------------------------------------------------------------------
(* gballoc_free.                                                            *)
LEMMA FreeIInv ==
  ASSUME GballocIInv, NEW t \in Thread, Free(t) PROVE GballocIInv'
<1> USE DEF GballocIInv, list, totals
<1>1. PICK b \in held :
        /\ freeing[t] = Idle
        /\ freeing' = [freeing EXCEPT ![t] = [ptr |-> b, curr |-> head]]
        /\ held' = held \ {b}
        /\ UNCHANGED <<initialized, lock, list, totals, entries, blocks, calls, asked,
                       forgotten, harm>>
  BY DEF Free
<1>2. GballocTypeOK'
  BY <1>1 DEF GballocTypeOK
<1>3. FreedOnce'
  <2>1. b \in blocks /\ b \in Block /\ freeing'[t] = [ptr |-> b, curr |-> head]
        /\ \A u \in Thread : u # t => freeing'[u] = freeing[u]
    BY <1>1 DEF GballocTypeOK
  <2>2. ASSUME NEW u \in Thread, freeing'[u] # Idle
        PROVE  freeing'[u].ptr \in blocks' \ held'
    BY <1>1, <2>1, <2>2 DEF FreedOnce
  <2>3. ASSUME NEW u \in Thread, NEW v \in Thread, u # v, freeing'[u] # Idle
        PROVE  freeing'[u].ptr # freeing'[v].ptr
    <3>1. CASE u # t /\ v # t
      BY <2>1, <2>3, <3>1 DEF FreedOnce
    <3>2. CASE u # t /\ v = t
      BY <2>1, <2>3, <3>2 DEF FreedOnce
    <3>3. CASE u = t
      <4>1. v # t /\ freeing'[v] = freeing[v]
        BY <2>1, <2>3, <3>3
      <4>2. freeing[v] # Idle => freeing[v].ptr # b
        BY DEF FreedOnce
      <4>3. Idle.ptr = NULL /\ NULL # b
        BY <2>1, Facts DEF Idle
      <4>4. QED
        BY <2>1, <3>3, <4>1, <4>2, <4>3
    <3>4. QED
      BY <3>1, <3>2, <3>3
  <2>4. QED
    BY <2>2, <2>3 DEF FreedOnce
<1>4. Counters'
  BY <1>1, FitsKept DEF Counters
<1>5. lock' = IF "stale" \in harm' THEN lock' ELSE NULL
  BY <1>1 DEF Linked
<1>6. Linked' /\ BlocksListed'
  BY <1>1, <1>5, ListKept
<1>7. Totals'
  BY <1>1, TotalsKept
<1>8. QED
  BY <1>2, <1>3, <1>4, <1>6, <1>7

(* A thread is done with its free.                                          *)
LEMMA FreedOnceIdle ==
  ASSUME GballocTypeOK, FreedOnce, NEW t \in Thread, freeing' = [freeing EXCEPT ![t] = Idle],
         held' = held, \A b \in blocks : b # freeing[t].ptr => b \in blocks',
         freeing[t] # Idle
  PROVE  FreedOnce'
<1>1. freeing'[t] = Idle /\ \A u \in Thread : u # t => freeing'[u] = freeing[u]
  BY DEF GballocTypeOK
<1>2. ASSUME NEW u \in Thread, freeing'[u] # Idle
      PROVE  u # t /\ freeing[u] # Idle /\ freeing'[u] = freeing[u]
  BY <1>1, <1>2
<1>3. ASSUME NEW u \in Thread, freeing'[u] # Idle PROVE freeing'[u].ptr \in blocks' \ held'
  BY <1>2, <1>3 DEF FreedOnce
<1>4. ASSUME NEW u \in Thread, NEW v \in Thread, u # v, freeing'[u] # Idle
      PROVE  freeing'[u].ptr # freeing'[v].ptr
  <2>1. u # t /\ freeing[u] # Idle /\ freeing'[u] = freeing[u]
    BY <1>2, <1>4
  <2>2. CASE v # t
    BY <1>1, <1>4, <2>1, <2>2 DEF FreedOnce
  <2>3. CASE v = t
    <3>1. freeing'[v].ptr = NULL
      BY <1>1, <2>3 DEF Idle
    <3>2. freeing[u].ptr \in Block
      BY <2>1 DEF FreedOnce, GballocTypeOK
    <3>3. QED
      BY <2>1, <3>1, <3>2, Facts
  <2>4. QED
    BY <2>2, <2>3
<1>5. QED
  BY <1>3, <1>4 DEF FreedOnce

LEMMA FreeNoLockIInv ==
  ASSUME GballocIInv, NEW t \in Thread, FreeNoLock(t) PROVE GballocIInv'
<1> USE DEF GballocIInv, list, totals
<1>1. /\ freeing[t] # Idle
      /\ freeing' = [freeing EXCEPT ![t] = Idle]
      /\ UNCHANGED <<initialized, lock, list, totals, entries, blocks, held, calls, asked,
                     forgotten, harm>>
  BY DEF FreeNoLock, heap
<1>2. GballocTypeOK'
  BY <1>1 DEF GballocTypeOK, Idle
<1>3. FreedOnce'
  BY <1>1, FreedOnceIdle
<1>4. Counters'
  BY <1>1, FitsKept DEF Counters
<1>5. lock' = IF "stale" \in harm' THEN lock' ELSE NULL
  BY <1>1 DEF Linked
<1>6. Linked' /\ BlocksListed'
  BY <1>1, <1>5, ListKept
<1>7. Totals'
  BY <1>1, TotalsKept
<1>8. QED
  BY <1>2, <1>3, <1>4, <1>6, <1>7

LEMMA FreeUnknownIInv ==
  ASSUME GballocIInv, NEW t \in Thread, FreeLocked(t), FreeUnknown(t) PROVE GballocIInv'
<1> USE DEF GballocIInv, list, totals
<1> DEFINE c == freeing[t].curr
<1>1. /\ freeing[t] # Idle /\ lock = NULL
      /\ lock' = IF Ends(c) THEN NULL ELSE t
      /\ freeing' = IF Ends(c) THEN [freeing EXCEPT ![t] = Idle] ELSE freeing
      /\ harm' = harm \cup (IF Trail(c) \subseteq entries THEN {} ELSE {"stale"})
      /\ UNCHANGED <<initialized, list, totals, blocks, held, entries, calls, asked,
                     forgotten>>
  BY DEF FreeLocked, FreeUnknown
<1>2. GballocTypeOK'
  BY <1>1 DEF GballocTypeOK, Idle
<1>3. FreedOnce'
  <2>1. CASE Ends(c)
    BY <1>1, <2>1, FreedOnceIdle
  <2>2. CASE ~Ends(c)
    BY <1>1, <2>2 DEF FreedOnce
  <2>3. QED
    BY <2>1, <2>2
<1>4. Counters'
  BY <1>1, FitsKept DEF Counters
<1>5. lock' = IF "stale" \in harm' THEN lock' ELSE NULL
  <2> SUFFICES ASSUME "stale" \notin harm' PROVE Ends(c)
    BY <1>1
  <2>1. Trail(c) \subseteq entries /\ "stale" \notin harm
    BY <1>1
  <2>2. c \in Entry \cup {NULL}
    BY DEF GballocTypeOK
  <2>3. c # NULL => c \in Trail(c)
    <3>1. Nth(c)[0] = c
      BY <2>2, TypeLinks, NthSteps
    <3>2. 0 \in 0 .. Cardinality(Entry)
      BY Facts
    <3>3. QED
      BY <3>1, <3>2 DEF Trail
  <2> HIDE DEF c
  <2>4. c \in entries \cup {NULL}
    BY <2>1, <2>2, <2>3
  <2>5. QED
    BY <2>1, <2>4, EntryEnds
<1>6. Linked' /\ BlocksListed'
  BY <1>1, <1>5, ListKept
<1>7. Totals'
  BY <1>1, TotalsKept
<1>8. QED
  BY <1>2, <1>3, <1>4, <1>6, <1>7

(* The entry that is found is unlinked.  A head that is stale does no harm  *)
(* when its entry is still listed and is not the one to unlink.             *)
LEMMA UnlinkFound ==
  ASSUME GballocTypeOK, Linked, "stale" \notin harm, NEW b, NEW c \in Entry \cup {NULL},
         Found(c, b), Visited(c, b) \subseteq entries,
         Steps(c, b) = 0 => c = head,
         NEW e, e = Nth(c)[Steps(c, b)], Unlink(c, Steps(c, b), e),
         entries' = entries \ {e}
  PROVE  IsList(head', next', entries')
<1> DEFINE len == Cardinality(entries)
           n == Steps(c, b)
<1>0. next \in Links /\ entries \subseteq Entry /\ len \in Nat
  BY TypeLinks, SubsetOfEntries
<1>1. PICK o \in [1 .. len -> entries] : ChainOf(head, next, entries, o)
  BY DEF Linked, IsList
<1>2. n \in 0 .. Cardinality(Entry)
  BY <1>0, StepsFinds
<1>3. c \in entries
  <2>1. Nth(c)[0] = c
    BY <1>0, NthSteps
  <2>2. Visited(c, b) = {Nth(c)[m] : m \in 0 .. n} /\ 0 \in 0 .. n
    BY <1>2, Facts DEF Visited
  <2>3. QED
    BY <2>1, <2>2
<1>4. PICK j : StartsAt(o, j, c)
  BY <1>0, <1>1, <1>3, EntryStarts
<1>5. Finds(o, j, c, b)
  BY <1>0, <1>1, <1>4, WalkFinds
<1>6. PICK i \in j .. len : FoundAt(o, j, c, b, i)
  BY <1>5 DEF Finds
<1>7. /\ n = i - j /\ e = o[i] /\ (n > 0 => Nth(c)[n - 1] = o[i - 1])
      /\ j \in 1 .. len + 1 /\ i \in j .. len /\ i \in 1 .. len
  <2>1. j \in 1 .. len + 1
    BY <1>4 DEF StartsAt
  <2>2. QED
    BY <1>0, <1>6, <2>1 DEF FoundAt
<1> HIDE DEF n
<1>8. IF i = 1 THEN IsList(next[o[i]], next, entries \ {o[i]})
      ELSE IsList(head, [next EXCEPT ![o[i - 1]] = next[o[i]]], entries \ {o[i]})
  BY <1>0, <1>1, <1>7, ChainUnlink
<1>9. CASE n > 0
  <2>1. i # 1
    BY <1>0, <1>7, <1>9
  <2>2. head' = head /\ next' = [next EXCEPT ![o[i - 1]] = next[o[i]]]
    BY <1>7, <1>9 DEF Unlink, n
  <2>3. QED
    BY <1>7, <1>8, <2>1, <2>2
<1>10. CASE ~(n > 0)
  <2>1. n = 0 /\ c = head
    BY <1>2, <1>10 DEF n
  <2>2. i = j /\ j \in 1 .. len /\ j # len + 1
    BY <1>0, <1>7, <2>1
  <2>3. c = o[i]
    BY <1>4, <2>2 DEF StartsAt
  <2>4. head = o[1] /\ 1 \in 1 .. len
    BY <1>0, <1>1, <1>7, <2>2 DEF ChainOf
  <2>5. i = 1
    BY <1>1, <1>7, <2>1, <2>3, <2>4 DEF ChainOf
  <2>6. head' = next[o[i]] /\ next' = next
    BY <1>7, <1>10 DEF Unlink, n
  <2>7. QED
    BY <1>7, <1>8, <2>5, <2>6
<1>11. QED
  BY <1>9, <1>10

LEMMA FreeFoundIInv ==
  ASSUME GballocIInv, NEW t \in Thread, FreeLocked(t), FreeFound(t) PROVE GballocIInv'
<1> USE DEF GballocIInv
<1> DEFINE b == freeing[t].ptr
           c == freeing[t].curr
           n == Steps(c, b)
           e == Nth(c)[n]
<1>1. /\ freeing[t] # Idle /\ lock = NULL /\ Found(c, b)
      /\ blocks' = blocks \ {b} /\ entries' = entries \ {e}
      /\ totalSize' = Minus(totalSize, size[e])
      /\ Unlink(c, n, e)
      /\ ptr' = [ptr EXCEPT ![e] = NULL] /\ size' = [size EXCEPT ![e] = 0]
      /\ asked' = [asked EXCEPT ![b] = 0]
      /\ harm' = harm \cup
           (IF Visited(c, b) \subseteq entries /\ (n = 0 => c = head)
            THEN {} ELSE {"stale"})
      /\ lock' = NULL
      /\ freeing' = [freeing EXCEPT ![t] = Idle]
      /\ UNCHANGED <<maxSize, allocations, initialized, held, calls, forgotten>>
  BY DEF FreeLocked, FreeFound, Without
<1>2. b \in blocks \ held /\ b \in Block /\ c \in Entry \cup {NULL}
  BY <1>1 DEF FreedOnce, GballocTypeOK
<1>3. e \in entries /\ e \in Entry /\ ptr[e] = b
  <2>1. Matches(e, b)
    BY <1>1, <1>2, TypeLinks, StepsFinds
  <2>2. QED
    BY <2>1 DEF Matches, GballocTypeOK
<1>4. "stale" \notin harm' => IsList(head', next', entries')
  <2> SUFFICES ASSUME "stale" \notin harm' PROVE IsList(head', next', entries')
    OBVIOUS
  <2>1. Visited(c, b) \subseteq entries /\ (n = 0 => c = head) /\ "stale" \notin harm
    BY <1>1
  <2> HIDE DEF b, c, e
  <2>2. e = Nth(c)[Steps(c, b)] /\ Unlink(c, Steps(c, b), e)
    BY <1>1 DEF e
  <2>3. QED
    BY <1>1, <1>2, <2>1, <2>2, UnlinkFound
<1>5. head' \in Entry \cup {NULL} /\ next' \in [Entry -> Entry \cup {NULL}]
  BY <1>1, <1>3 DEF Unlink, GballocTypeOK
<1> HIDE DEF b, c, n, e
<1>6. /\ size[e] \in Nat /\ totalSize \in Nat /\ SizeMod \in Nat \ {0}
      /\ totalSize \in Int /\ size[e] \in Int /\ -size[e] \in Int
  BY <1>3, Facts, SizeNumbers DEF GballocTypeOK, Numbers
<1>7. /\ totalSize' = (totalSize + (-size[e])) % SizeMod
      /\ totalSize' \in 0 .. SizeMod - 1
  <2> DEFINE v == totalSize
             w == size[e]
  <2>1. v \in Int /\ w \in Int
    BY <1>6
  <2> HIDE DEF v, w
  <2>2. Minus(v, w) = (v + (-w)) % SizeMod /\ Minus(v, w) \in 0 .. SizeMod - 1
    BY <2>1, MinusMod
  <2>3. QED
    BY <1>1, <2>2 DEF v, w
<1>8. asked' \in [Block -> Sizes \cup {0}] /\ Fits(asked')
  BY <1>1, <1>2, AskedLess DEF Counters
<1>9. GballocTypeOK'
  <2>1. ptr' \in [Entry -> Block \cup {NULL}] /\ size' \in [Entry -> Sizes \cup {0}]
    BY <1>1 DEF GballocTypeOK
  <2>2. /\ entries' \subseteq Entry /\ blocks' \subseteq Block /\ held' \subseteq blocks'
        /\ harm' \subseteq {"stale", "outside"}
    BY <1>1, <1>2 DEF GballocTypeOK
  <2>3. freeing' \in [Thread -> [ptr : Block \cup {NULL}, curr : Entry \cup {NULL}]]
    BY <1>1 DEF GballocTypeOK, Idle
  <2>4. QED
    BY <1>1, <1>5, <1>7, <1>8, <2>1, <2>2, <2>3 DEF GballocTypeOK
<1>10. FreedOnce'
  BY <1>1, FreedOnceIdle DEF b
<1>11. \A x \in entries : x # e => size'[x] = size[x] /\ ptr'[x] = ptr[x]
  BY <1>1, <1>3 DEF GballocTypeOK
<1>12. Counters'
  BY <1>1, <1>8, <1>11 DEF Counters
<1>13. Linked'
  BY <1>1, <1>4 DEF Linked
<1>14. Listed(entries) = size[e] + Listed(entries)'
       /\ Listed(entries)' \in Nat /\ Listed(entries) \in Nat
  <2>1. SumOf(size, entries) = size[e] + SumOf(size, entries \ {e})
    BY <1>3, SizeNumbers, SumRemove
  <2>2. Numbers(size, entries \ {e}) /\ IsFiniteSet(entries \ {e})
    BY SizeNumbers, FS_Subset DEF Numbers
  <2>3. \A x \in entries \ {e} : size'[x] = size[x]
    BY <1>11
  <2>4. SumOf(size', entries \ {e}) = SumOf(size, entries \ {e})
    BY <2>2, <2>3, SumSame
  <2>5. SumOf(size, entries \ {e}) \in Nat
    BY <2>2, SumSteps
  <2>6. QED
    BY <1>1, <2>1, <2>4, <2>5, SizeNumbers DEF Listed
<1>15. BlocksListed'
  <2> SUFFICES ASSUME Clean' PROVE OneToOne'
    BY DEF BlocksListed
  <2>1. Clean
    BY <1>1 DEF Clean
  <2>2. /\ \A x \in entries : ptr[x] \in blocks /\ asked[ptr[x]] = size[x]
        /\ \A x, y \in entries : ptr[x] = ptr[y] => x = y
        /\ \A x \in Block : asked[x] # 0 => \E y \in entries : ptr[y] = x
        /\ SumOf(asked, Block) = Listed(entries)
    BY <2>1 DEF BlocksListed, OneToOne
  <2>3. asked'[b] = 0 /\ \A x \in Block : x # b => asked'[x] = asked[x]
    BY <1>1, <1>2 DEF GballocTypeOK
  <2>4. ASSUME NEW x \in entries'
        PROVE  /\ x \in entries /\ x # e /\ ptr'[x] = ptr[x] /\ ptr[x] # b
               /\ ptr[x] \in blocks /\ ptr[x] \in Block
    <3>1. x \in entries /\ x # e
      BY <1>1, <2>4
    <3>2. ptr[x] # b /\ ptr[x] \in blocks
      BY <1>3, <2>2, <3>1
    <3>3. QED
      BY <1>11, <3>1, <3>2 DEF GballocTypeOK
  <2>5. ASSUME NEW x \in entries' PROVE ptr'[x] \in blocks' /\ asked'[ptr'[x]] = size'[x]
    BY <1>1, <1>11, <2>2, <2>3, <2>4
  <2>6. ASSUME NEW x \in entries', NEW y \in entries', ptr'[x] = ptr'[y] PROVE x = y
    BY <2>2, <2>4, <2>6
  <2>7. ASSUME NEW x \in Block, asked'[x] # 0 PROVE \E y \in entries' : ptr'[y] = x
    <3>1. x # b /\ asked[x] # 0
      BY <2>3, <2>7
    <3>2. PICK y \in entries : ptr[y] = x
      BY <2>2, <3>1
    <3>3. y # e
      BY <1>3, <3>1, <3>2
    <3>4. QED
      BY <1>1, <1>11, <3>2, <3>3
  <2>8. SumOf(asked', Block) = Listed(entries)'
    <3>1. asked[b] = size[e]
      BY <1>3, <2>2
    <3>2. SumOf(asked', Block) + asked[b] = SumOf(asked, Block) + 0
      BY <1>2, <2>3, Facts, AskedNumbers, SumUpdate
    <3>3. SumOf(asked', Block) \in Nat
      <4>1. \A x \in Block : asked'[x] \in Nat
        BY <2>3, AskedNumbers DEF Numbers
      <4>2. Numbers(asked', Block)
        BY <4>1 DEF Numbers
      <4>3. QED
        BY <4>2, Facts, SumSteps
    <3>4. QED
      BY <1>6, <1>14, <2>2, <3>1, <3>2, <3>3
  <2>9. QED
    BY <2>5, <2>6, <2>7, <2>8 DEF OneToOne
<1>16. Totals'
  <2>1. ASSUME Clean', forgotten' = 0 PROVE totalSize' <= maxSize'
    <3>1. Clean /\ forgotten = 0
      BY <1>1, <2>1 DEF Clean
    <3>2. totalSize = Listed(entries) /\ Listed(entries) < SizeMod
      BY <3>1, ExactTotal DEF Counters
    <3>3. totalSize <= maxSize
      BY <3>1 DEF Totals
    <3> DEFINE r == totalSize + (-size[e])
    <3>4. r \in 0 .. SizeMod - 1 /\ r <= totalSize
      BY <1>6, <1>14, <3>2
    <3>5. totalSize' = r % SizeMod
      BY <1>7
    <3> HIDE DEF r
    <3>6. totalSize' = r
      BY <1>6, <3>4, <3>5, SmallMod
    <3>7. QED
      BY <1>1, <1>6, <3>3, <3>4, <3>6 DEF GballocTypeOK
  <2>2. Listed(entries)' = Listed(entries) + (-size[e]) + SizeMod * 0
    BY <1>6, <1>14
  <2>3. \E q \in Int : "stale" \notin harm' =>
                        Listed(entries)' = Listed(entries) + (-size[e]) + SizeMod * q
    BY <2>2
  <2>4. harm \subseteq harm' /\ forgotten' = forgotten
    BY <1>1
  <2>5. QED
    BY <1>6, <1>7, <2>1, <2>3, <2>4, TotalsCounted
<1>17. QED
  BY <1>9, <1>10, <1>12, <1>13, <1>15, <1>16

-------------------------------------------------------------------------------
LEMMA NextGballocIInv == GballocIInv /\ [GballocNext]_gballocVars => GballocIInv'
<1> SUFFICES ASSUME GballocIInv, [GballocNext]_gballocVars PROVE GballocIInv'
  OBVIOUS
<1>1. ASSUME NEW t \in Thread, Malloc(t) \/ Calloc(t) PROVE GballocIInv'
  <2>1. PICK s \in Sizes : Allocate(s)
    BY <1>1 DEF Malloc, Calloc
  <2>2. QED
    BY <2>1, AllocateIInv
<1>2. ASSUME NEW t \in Thread, Realloc(t) PROVE GballocIInv'
  <2>1. calls < MaxCalls /\ calls' = calls + 1
        /\ UNCHANGED <<initialized, freeing, entries, forgotten>>
    BY <1>2 DEF Realloc, Running
  <2>2. PICK b \in held :
          ReallocTracked(t, b) \/ ReallocUnknown(t, b) \/ ReallocOutside(t, b)
    BY <1>2 DEF Realloc
  <2>3. QED
    BY <2>1, <2>2, ReallocTrackedIInv, ReallocUnknownIInv, ReallocOutsideIInv
<1>3. ASSUME NEW t \in Thread, FreeLocked(t) PROVE GballocIInv'
  <2>1. FreeFound(t) \/ FreeUnknown(t)
    BY <1>3 DEF FreeLocked
  <2>2. QED
    BY <1>3, <2>1, FreeFoundIInv, FreeUnknownIInv
<1>4. ASSUME NEW t \in Thread, Free(t) \/ FreeNoLock(t) \/ FreeOutside(t) PROVE GballocIInv'
  BY <1>4, FreeIInv, FreeNoLockIInv, FreeOutsideIInv
<1>5. QED
  BY <1>1, <1>2, <1>3, <1>4, ClearIInv, DeinitGballocIInv, StutterIInv DEF GballocNext

LEMMA GballocInvariant == GballocSpec => []GballocIInv
BY InitGballocIInv, NextGballocIInv, PTL DEF GballocSpec

(* Every variable keeps its type, whatever stale heads and calls outside    *)
(* the module have done to the list.                                        *)
THEOREM GballocIsTyped == GballocSpec => []GballocTypeOK
<1>1. GballocIInv => GballocTypeOK
  BY DEF GballocIInv
<1>2. QED
  BY <1>1, GballocInvariant, PTL

(* For every number of threads, entries and blocks: until a stale head      *)
(* (gballoc_free reads it before it takes the lock) has done harm, every    *)
(* walk of the list ends and it holds exactly the allocated entries; until   *)
(* a tracked block was freed outside the module, too, it finds exactly the  *)
(* tracked blocks, each with the size asked for last.                       *)
THEOREM ListStaysExact == GballocSpec => []ListIsExact
BY IInvList, GballocInvariant, PTL

(* For every width of size_t and every heap it can count: the total, and    *)
(* what was listed when gballoc_resetMetrics or gballoc_init cleared it, is  *)
(* what is listed, modulo that width; it does not wrap and its maximum is   *)
(* one as long as nothing was cleared or freed outside.                     *)
THEOREM TotalStaysExact == GballocSpec => []TotalIsExact
BY IInvTotal, GballocInvariant, PTL

===============================================================================
