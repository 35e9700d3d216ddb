------------------------------ MODULE TlsIoProofs ------------------------------
(***************************************************************************)
(* Proofs about the TLS io, for any number of opens, sends, records and    *)
(* failing allocations.                                                    *)
(***************************************************************************)
EXTENDS TlsIo, SequenceTheorems, TLAPS

-------------------------------------------------------------------------------
(* The inductive invariant.  First what holds of every state, then what     *)
(* holds as long as no callback has opened the io.                          *)
Ops == {"user", "openedBelow", "notOpenedBelow", "openFails", "closes", "forced",
        "freeSsl", "pump", "decode", "destroyed"}
Calls == [op : Ops, ev : {"none", "open", "closed", "error", "bytes", "callback"}]

Has(s, o) == \E i \in DOMAIN s : s[i].op = o

(* What the io below reports comes from dowork, which the user's thread     *)
(* calls, and runs at once.                                                 *)
Stacked(s) ==
  /\ s \in Seq(Calls)
  /\ \A i \in DOMAIN s :
       /\ s[i].op = "pump" => i = Len(s)
       /\ s[i].op = "decode" => i + 1 = Len(s) /\ s[Len(s)].op = "pump"
       /\ s[i].op \in {"openedBelow", "notOpenedBelow"} => i = 1

(* What has come and not been used, of a connection on flight f that gave d *)
(* records to the user.                                                     *)
Data(q, d) ==
  \A i \in DOMAIN q : \/ q[i] = Rec(d + i) /\ d + i <= Records
                      \/ q[i] = Bad /\ i = Len(q)
Coming(f, q, d) ==
  /\ f # 3 => d = 0
  /\ f = 0 => q = <<>>
  /\ f = 1 => q \in {<<>>, <<Flight(1)>>, <<Bad>>}
  /\ f = 2 => q \in {<<>>, <<Bad>>} \/ (q # <<>> /\ q[1] = Flight(2) /\ Data(Tail(q), 0))
  /\ f = 3 => Data(q, d)
(* A flight that is not sent is not answered.                               *)
Going(f, q, out) ==
  /\ Handshakes(out) => q = <<>>
  /\ Flight(1) \in ToSet(out) => f = 1
  /\ Flight(2) \in ToSet(out) => f = 2

Ahead ==
  ssl /\ tlsio_state # "ERROR" /\ ~Has(stack, "openFails") =>
    /\ Coming(flight, in_bio \o inbound, Len(delivered))
    /\ Going(flight, in_bio \o inbound, out_bio)

InOrder == delivered = [i \in DOMAIN delivered |-> i]
NotBegun == ssl /\ flight = 0 => out_bio = <<>>
Established == ssl /\ tlsio_state = "OPEN" => flight = 3
Drained == ssl /\ tlsio_state = "OPEN" /\ ~Has(stack, "decode") => ~RecordReady \/ early
Decodes == Has(stack, "decode") => tlsio_state # "ERROR"
Sound(sent, k) == NumbersOf(sent) = 1 .. k /\ Ascending(sent)
OnItsWay == ssl /\ ~lost => Sound(wire \o out_bio, written)

Flowing == Ahead /\ InOrder /\ NotBegun /\ Established /\ Drained /\ Decodes /\ OnItsWay

Norm == Alive /\ "reopened" \notin oddity
Closing == Has(stack, "closes") \/ Has(stack, "forced")
Ending == Has(stack, "forced") \/ Has(stack, "openFails")
Up == Opening \cup {"HANDSHAKE_FAILED", "OPEN"}

(* The answers to the open.                                                 *)
AnswersFit ==
  /\ tlsio_state \in Opening \cup {"HANDSHAKE_FAILED"} /\ answers # <<>> => Closing
  /\ tlsio_state = "OPEN" => answers = <<"OK">>
  /\ Closing => answers # <<>> /\ tlsio_state \in Opening \cup {"NOT_OPEN"}
  /\ answers = <<>> \/ Len(answers) = 1 \/ "answeredTwice" \in oddity
  /\ "notAnswered" \in oddity => answers = <<>> /\ tlsio_state \in {"NOT_OPEN", "ERROR"}
  /\ tlsio_state \in {"NOT_OPEN", "ERROR"} /\ returned = "ok" =>
       answers # <<>> \/ "notAnswered" \in oddity
  /\ Has(stack, "openFails") => returned = "failed"
  /\ Has(stack, "decode") => tlsio_state \in {"OPEN", "NOT_OPEN"}

(* The io below, and who waits for it.                                      *)
UnderFits ==
  /\ under = "opening" => tlsio_state = "OPENING_UNDERLYING_IO"
  /\ Has(stack, "openedBelow") =>
       under = "open" /\ tlsio_state = "OPENING_UNDERLYING_IO" /\ answers = <<>>
  /\ Has(stack, "notOpenedBelow") =>
       /\ under # "opening" /\ tlsio_state = "OPENING_UNDERLYING_IO"
       /\ Ending \/ (under = "closed" /\ "failedOpening" \in oddity)
  /\ Has(stack, "forced") => under = "closed"
  /\ Has(stack, "openFails") =>
       under # "opening" /\ ("failedOpening" \notin oddity => under = "closed")
  /\ tlsio_state \in Up /\ under = "closed" => Ending \/ Has(stack, "notOpenedBelow")
  /\ tlsio_state = "NOT_OPEN" /\ "failedOpening" \notin oddity => under = "closed"

(* The SSL, and who is to free it.                                          *)
SslFits ==
  /\ tlsio_state \in Up => ssl
  /\ Has(stack, "freeSsl") => tlsio_state = "NOT_OPEN"
  /\ tlsio_state = "NOT_OPEN" /\ ssl /\ "failedOpening" \notin oddity =>
       Ending \/ Has(stack, "freeSsl")
  /\ tlsio_state = "ERROR" /\ "closedInDecode" \notin oddity => ssl

IInv == TypeOK /\ Stacked(stack) /\ Flowing /\ (Norm => AnswersFit /\ UnderFits /\ SslFits)

-------------------------------------------------------------------------------
(* The stack.                                                               *)
LEMMA PushOne ==
  ASSUME NEW s \in Seq(Calls), NEW f \in Calls
  PROVE  /\ <<f>> \o s \in Seq(Calls) /\ Len(<<f>> \o s) = Len(s) + 1
         /\ (<<f>> \o s)[1] = f /\ \A i \in 1 .. Len(s) : (<<f>> \o s)[i + 1] = s[i]
<1>1. <<f>> \in Seq(Calls) /\ Len(<<f>>) = 1 /\ <<f>>[1] = f
  OBVIOUS
<1>2. QED
  BY <1>1

LEMMA HasPush ==
  ASSUME NEW s \in Seq(Calls), NEW f \in Calls, NEW o
  PROVE  Has(<<f>> \o s, o) <=> f.op = o \/ Has(s, o)
<1> DEFINE t == <<f>> \o s
<1>1. /\ t \in Seq(Calls) /\ Len(t) = Len(s) + 1 /\ t[1] = f
      /\ \A i \in 1 .. Len(s) : t[i + 1] = s[i]
  BY PushOne
<1> HIDE DEF t
<1>2. DOMAIN t = 1 .. Len(s) + 1 /\ DOMAIN s = 1 .. Len(s) /\ Len(s) \in Nat
  BY <1>1
<1>3. ASSUME Has(t, o) PROVE f.op = o \/ Has(s, o)
  <2>1. PICK i \in 1 .. Len(s) + 1 : t[i].op = o
    BY <1>2, <1>3 DEF Has
  <2>2. CASE i = 1
    BY <1>1, <2>1, <2>2
  <2>3. CASE i # 1
    <3>1. i - 1 \in 1 .. Len(s) /\ (i - 1) + 1 = i
      BY <1>2, <2>3
    <3>2. s[i - 1].op = o
      BY <1>1, <2>1, <3>1
    <3>3. QED
      BY <1>2, <3>1, <3>2 DEF Has
  <2>4. QED
    BY <2>2, <2>3
<1>4. ASSUME f.op = o PROVE Has(t, o)
  <2>1. 1 \in DOMAIN t
    BY <1>2
  <2>2. QED
    BY <1>1, <1>4, <2>1 DEF Has
<1>5. ASSUME Has(s, o) PROVE Has(t, o)
  <2>1. PICK i \in 1 .. Len(s) : s[i].op = o
    BY <1>2, <1>5 DEF Has
  <2>2. i + 1 \in DOMAIN t /\ t[i + 1].op = o
    BY <1>1, <1>2, <2>1
  <2>3. QED
    BY <2>2 DEF Has
<1>6. QED
  BY <1>3, <1>4, <1>5 DEF t

(* A call at the top of a stack on which nothing of the io below runs.      *)
Fits(f, s) ==
  /\ ~Has(s, "openedBelow") /\ ~Has(s, "notOpenedBelow")
  /\ f.op = "pump" => s = <<>>
  /\ f.op = "decode" => Len(s) = 1 /\ s[1].op = "pump"

LEMMA StackedPush ==
  ASSUME NEW s, Stacked(s), NEW f \in Calls, Fits(f, s)
  PROVE  Stacked(<<f>> \o s)
<1> DEFINE t == <<f>> \o s
<1>0. s \in Seq(Calls)
  BY DEF Stacked
<1>1. /\ t \in Seq(Calls) /\ Len(t) = Len(s) + 1 /\ t[1] = f
      /\ \A i \in 1 .. Len(s) : t[i + 1] = s[i]
  BY <1>0, PushOne
<1> HIDE DEF t
<1>2. DOMAIN t = 1 .. Len(s) + 1 /\ DOMAIN s = 1 .. Len(s) /\ Len(s) \in Nat
  BY <1>0, <1>1
<1>3. s = <<>> <=> Len(s) = 0
  BY <1>0, EmptySeq
<1>4. ASSUME NEW i \in DOMAIN t
      PROVE  /\ t[i].op = "pump" => i = Len(t)
             /\ t[i].op = "decode" => i + 1 = Len(t) /\ t[Len(t)].op = "pump"
             /\ t[i].op \in {"openedBelow", "notOpenedBelow"} => i = 1
  <2>1. CASE i = 1
    <3>1. Len(s) # 0 => t[2] = s[1]
      BY <1>1, <1>2
    <3>2. QED
      BY <1>1, <1>2, <1>3, <2>1, <3>1 DEF Fits
  <2>2. CASE i # 1
    <3>1. PICK j \in 1 .. Len(s) : i = j + 1
      <4>1. i - 1 \in 1 .. Len(s) /\ i = (i - 1) + 1
        BY <1>2, <2>2
      <4>2. QED
        BY <4>1
    <3>2. t[i] = s[j]
      BY <1>1, <3>1
    <3>3. s[j].op \notin {"openedBelow", "notOpenedBelow"}
      BY <1>2 DEF Fits, Has
    <3>4. s[j].op = "pump" => j = Len(s)
      BY <1>2 DEF Stacked
    <3>5. s[j].op = "decode" => j + 1 = Len(s) /\ s[Len(s)].op = "pump"
      <4>1. j \in DOMAIN s
        BY <1>2
      <4>2. QED
        BY <4>1, Zenon DEF Stacked
    <3>6. t[Len(t)] = s[Len(s)]
      BY <1>1, <1>2
    <3>7. QED
      BY <1>1, <1>2, <3>1, <3>2, <3>3, <3>4, <3>5, <3>6
  <2>3. QED
    BY <2>1, <2>2
<1>5. QED
  BY <1>1, <1>4 DEF Stacked, t

LEMMA StackedPop ==
  ASSUME NEW s, Stacked(s), s # <<>>
  PROVE  /\ Stacked(Tail(s)) /\ s[1] \in Calls
         /\ ~Has(Tail(s), "openedBelow") /\ ~Has(Tail(s), "notOpenedBelow")
         /\ \A o : Has(s, o) <=> s[1].op = o \/ Has(Tail(s), o)
         /\ s[1].op = "pump" => Tail(s) = <<>>
         /\ s[1].op = "decode" => Len(Tail(s)) = 1 /\ Tail(s)[1].op = "pump"
<1> DEFINE t == Tail(s)
<1>0. s \in Seq(Calls) /\ Len(s) \in Nat /\ Len(s) # 0 /\ DOMAIN s = 1 .. Len(s)
  BY EmptySeq DEF Stacked
<1>1. /\ t \in Seq(Calls) /\ Len(t) = Len(s) - 1 /\ DOMAIN t = 1 .. Len(s) - 1
      /\ \A i \in 1 .. Len(s) - 1 : t[i] = s[i + 1]
  <2>1. t \in Seq(Calls) /\ Len(t) = Len(s) - 1 /\ \A i \in 1 .. Len(t) : t[i] = s[i + 1]
    BY <1>0, HeadTailProperties
  <2>2. QED
    BY <2>1
<1> HIDE DEF t
<1>2. \A i \in 1 .. Len(s) - 1 : i + 1 \in 1 .. Len(s) /\ i + 1 # 1
  BY <1>0
<1>3. t = <<>> <=> Len(s) = 1
  BY <1>0, <1>1, EmptySeq
<1>4. \A i \in DOMAIN s :
       /\ s[i].op = "pump" => i = Len(s)
       /\ s[i].op = "decode" => i + 1 = Len(s) /\ s[Len(s)].op = "pump"
       /\ s[i].op \in {"openedBelow", "notOpenedBelow"} => i = 1
  BY DEF Stacked
<1>5. /\ ~Has(t, "openedBelow") /\ ~Has(t, "notOpenedBelow")
  <2>1. ASSUME NEW i \in DOMAIN t PROVE t[i].op \notin {"openedBelow", "notOpenedBelow"}
    <3>1. i \in 1 .. Len(s) - 1 /\ t[i] = s[i + 1] /\ i + 1 \in DOMAIN s /\ i + 1 # 1
      BY <1>0, <1>1, <1>2
    <3>2. QED
      BY <1>4, <3>1
  <2>2. QED
    BY <2>1 DEF Has
<1>6. Stacked(t)
  <2>1. ASSUME NEW i \in DOMAIN t
        PROVE  /\ t[i].op = "pump" => i = Len(t)
               /\ t[i].op = "decode" => i + 1 = Len(t) /\ t[Len(t)].op = "pump"
               /\ t[i].op \notin {"openedBelow", "notOpenedBelow"}
    <3>0. t[i].op \notin {"openedBelow", "notOpenedBelow"}
      BY <1>5 DEF Has
    <3>1. i \in 1 .. Len(s) - 1 /\ t[i] = s[i + 1] /\ i + 1 \in DOMAIN s
      BY <1>0, <1>1, <1>2
    <3>2. t[Len(t)] = s[Len(s)]
      <4>1. Len(s) - 1 \in 1 .. Len(s) - 1 /\ (Len(s) - 1) + 1 = Len(s)
        BY <1>0, <3>1
      <4>2. QED
        BY <1>1, <4>1
    <3>3. QED
      BY <1>0, <1>1, <1>2, <1>4, <3>0, <3>1, <3>2
  <2>2. QED
    BY <1>1, <2>1 DEF Stacked
<1>7. ASSUME NEW o PROVE Has(s, o) <=> s[1].op = o \/ Has(t, o)
  <2>1. ASSUME Has(t, o) PROVE Has(s, o)
    BY <1>0, <1>1, <1>2, <2>1 DEF Has
  <2>2. ASSUME s[1].op = o PROVE Has(s, o)
    <3>1. 1 \in DOMAIN s
      BY <1>0
    <3>2. QED
      BY <2>2, <3>1 DEF Has
  <2>3. ASSUME Has(s, o), s[1].op # o PROVE Has(t, o)
    <3>1. PICK i \in 1 .. Len(s) : s[i].op = o
      BY <1>0, <2>3 DEF Has
    <3>2. i - 1 \in 1 .. Len(s) - 1 /\ (i - 1) + 1 = i
      BY <1>0, <2>3, <3>1
    <3>3. t[i - 1].op = o
      BY <1>1, <3>1, <3>2
    <3>4. QED
      BY <1>1, <3>2, <3>3 DEF Has
  <2>4. QED
    BY <2>1, <2>2, <2>3
<1>8. 1 \in DOMAIN s /\ s[1] \in Calls
  BY <1>0
<1>9. /\ s[1].op = "pump" => t = <<>>
      /\ s[1].op = "decode" => Len(t) = 1 /\ t[1].op = "pump"
  <2>1. Len(s) = 1 \/ t[1] = s[2]
    BY <1>0, <1>1
  <2>2. QED
    BY <1>0, <1>1, <1>3, <1>4, <1>8, <2>1
<1>10. QED
  BY <1>5, <1>6, <1>7, <1>8, <1>9 DEF t

-------------------------------------------------------------------------------
(* What has come, and what is sent.                                         *)
LEMMA Tokens ==
  /\ \A n \in Nat : Flight(n) \in Token /\ Rec(n) \in Token
  /\ Bad \in Token
  /\ \A m, n : Flight(m) # Bad /\ Flight(m) # Rec(n) /\ Rec(m) # Bad
  /\ Flight(1) # Flight(2)
BY DEF Flight, Rec, Bad, Token

LEMMA DataTail ==
  ASSUME NEW q \in Seq(Token), NEW d \in Nat, Data(q, d), q # <<>>, q[1].t = "rec"
  PROVE  q[1] = Rec(d + 1) /\ d + 1 <= Records /\ Data(Tail(q), d + 1)
<1>1. Len(q) \in Nat /\ Len(q) # 0 /\ 1 \in DOMAIN q
  BY EmptySeq
<1>2. q[1] = Rec(d + 1) /\ d + 1 <= Records
  BY <1>1 DEF Data, Bad
<1>3. ASSUME NEW i \in DOMAIN Tail(q)
      PROVE  \/ Tail(q)[i] = Rec((d + 1) + i) /\ (d + 1) + i <= Records
             \/ Tail(q)[i] = Bad /\ i = Len(Tail(q))
  <2>1. /\ i \in Nat /\ i + 1 \in DOMAIN q /\ Tail(q)[i] = q[i + 1]
        /\ Len(Tail(q)) = Len(q) - 1
    BY <1>1
  <2>a. d + (i + 1) = (d + 1) + i
    BY <2>1
  <2>b. i + 1 = Len(q) => i = Len(q) - 1
    <3>1. i \in Nat /\ (i + 1) - 1 = i
      BY <2>1
    <3>2. QED
      BY <3>1
  <2>2. d + (i + 1) = (d + 1) + i /\ (i + 1 = Len(q) => i = Len(Tail(q)))
    BY <2>1, <2>a, <2>b
  <2>3. QED
    BY <2>1, <2>2 DEF Data
<1>4. QED
  BY <1>2, <1>3 DEF Data

LEMMA DataPrefix ==
  ASSUME NEW p \in Seq(Token), NEW r \in Seq(Token), NEW d \in Nat, Data(p \o r, d)
  PROVE  Data(p, d)
<1>1. Len(p) \in Nat /\ Len(r) \in Nat /\ Len(p \o r) = Len(p) + Len(r)
  OBVIOUS
<1>2. ASSUME NEW i \in DOMAIN p
      PROVE  \/ p[i] = Rec(d + i) /\ d + i <= Records
             \/ p[i] = Bad /\ i = Len(p)
  <2>1. i \in 1 .. Len(p) /\ i \in DOMAIN (p \o r) /\ (p \o r)[i] = p[i]
    OBVIOUS
  <2>2. i = Len(p) + Len(r) => i = Len(p)
    BY <1>1, <2>1
  <2>3. QED
    BY <1>1, <2>1, <2>2 DEF Data
<1>3. QED
  BY <1>2 DEF Data

LEMMA ConcatOne ==
  ASSUME NEW p \in Seq(Token), NEW r \in Seq(Token), NEW x \in Token, p # <<>>,
         p \o r = <<x>>
  PROVE  p = <<x>>
<1>1. Len(p \o r) = Len(p) + Len(r) /\ Len(p) \in Nat /\ Len(r) \in Nat
  BY ConcatProperties, LenProperties, Zenon
<1>2. Len(<<x>>) = 1
  OBVIOUS
<1>3. Len(p) # 0
  BY EmptySeq
<1>4. Len(r) = 0
  BY <1>1, <1>2, <1>3
<1>5. r = <<>>
  BY <1>4, EmptySeq
<1>6. p \o <<>> = p
  OBVIOUS
<1>7. QED
  BY <1>5, <1>6

LEMMA ComingPrefix ==
  ASSUME NEW p \in Seq(Token), NEW r \in Seq(Token), NEW d \in Nat, NEW f \in 0 .. 3,
         Coming(f, p \o r, d)
  PROVE  Coming(f, p \o <<>>, d)
<1>1. p \o <<>> = p /\ Len(p) \in Nat /\ Len(r) \in Nat
  OBVIOUS
<1>2. p = <<>> \/ (p # <<>> /\ p \o r # <<>> /\ (p \o r)[1] = p[1]
                     /\ Tail(p \o r) = Tail(p) \o r /\ Tail(p) \in Seq(Token))
  OBVIOUS
<1>3. CASE p = <<>>
  <2>1. Data(<<>>, d)
    BY DEF Data
  <2>2. QED
    BY <1>1, <1>3, <2>1 DEF Coming
<1>4. CASE p # <<>>
  <2>1. ASSUME f = 1 PROVE p \in {<<>>, <<Flight(1)>>, <<Bad>>}
    <3>1. p \o r = <<Flight(1)>> \/ p \o r = <<Bad>>
      BY <1>2, <1>4, <2>1 DEF Coming
    <3>2. QED
      BY <1>4, <3>1, ConcatOne, Tokens
  <2>2. ASSUME f = 2 PROVE p = <<Bad>> \/ (p[1] = Flight(2) /\ Data(Tail(p), 0))
    <3>1. CASE p \o r = <<Bad>>
      <4>1. QED
        BY <1>4, <3>1, ConcatOne, Tokens
    <3>2. CASE p \o r # <<Bad>>
      <4>1. p[1] = Flight(2) /\ Data(Tail(p) \o r, 0)
        BY <1>2, <1>4, <2>2, <3>2 DEF Coming
      <4>2. QED
        BY <1>2, <1>4, <4>1, DataPrefix
    <3>3. QED
      BY <3>1, <3>2
  <2>3. ASSUME f = 3 PROVE Data(p, d)
    BY <2>3, DataPrefix DEF Coming
  <2>4. f # 0 /\ (f # 3 => d = 0)
    BY <1>2, <1>4 DEF Coming
  <2>5. QED
    BY <1>1, <1>4, <2>1, <2>2, <2>3, <2>4 DEF Coming
<1>5. QED
  BY <1>3, <1>4

(* The records on the wire and in the outgoing BIO, and one token more.     *)
LEMMA SoundAppend ==
  ASSUME NEW q \in Seq(Token), NEW k \in Nat, Sound(q, k)
  PROVE  /\ \A n \in Nat : Sound(Append(q, Flight(n)), k)
         /\ Sound(Append(q, Rec(k + 1)), k + 1)
<1>0. Len(q) \in Nat /\ DOMAIN q = 1 .. Len(q)
  OBVIOUS
<1>1. ASSUME NEW x \in Token
      PROVE  /\ DOMAIN Append(q, x) = 1 .. Len(q) + 1
             /\ Append(q, x)[Len(q) + 1] = x
             /\ \A i \in 1 .. Len(q) : Append(q, x)[i] = q[i] /\ i \in 1 .. Len(q) + 1
             /\ \A i \in 1 .. Len(q) + 1 : i = Len(q) + 1 \/ i \in 1 .. Len(q)
  OBVIOUS
<1>2. ASSUME NEW i \in 1 .. Len(q), IsRecord(q[i]) PROVE q[i].n \in 1 .. k
  BY <1>0, <1>2 DEF Sound, NumbersOf
<1>3. ASSUME NEW j \in 1 .. k PROVE \E i \in 1 .. Len(q) : IsRecord(q[i]) /\ q[i].n = j
  BY <1>0 DEF Sound, NumbersOf
<1>4. ASSUME NEW i \in 1 .. Len(q), NEW j \in 1 .. Len(q),
             i < j, IsRecord(q[i]), IsRecord(q[j])
      PROVE  q[i].n < q[j].n
  BY <1>0, <1>4 DEF Sound, Ascending
<1>5. ASSUME NEW n \in Nat PROVE Sound(Append(q, Flight(n)), k)
  <2> DEFINE t == Append(q, Flight(n))
  <2>1. /\ DOMAIN t = 1 .. Len(q) + 1 /\ ~IsRecord(t[Len(q) + 1])
        /\ \A i \in 1 .. Len(q) : t[i] = q[i] /\ i \in 1 .. Len(q) + 1
        /\ \A i \in 1 .. Len(q) + 1 : i = Len(q) + 1 \/ i \in 1 .. Len(q)
    BY <1>1, Tokens DEF IsRecord, Flight
  <2> HIDE DEF t
  <2>2. NumbersOf(t) = NumbersOf(q)
    BY <1>0, <2>1 DEF NumbersOf
  <2>3. Ascending(t)
    BY <1>4, <2>1 DEF Ascending
  <2>4. QED
    BY <2>2, <2>3 DEF Sound, t
<1>6. Sound(Append(q, Rec(k + 1)), k + 1)
  <2> DEFINE t == Append(q, Rec(k + 1))
  <2>0. Rec(k + 1) \in Token /\ IsRecord(Rec(k + 1)) /\ Rec(k + 1).n = k + 1
    BY Tokens DEF Rec, IsRecord
  <2>1. /\ DOMAIN t = 1 .. Len(q) + 1 /\ IsRecord(t[Len(q) + 1]) /\ t[Len(q) + 1].n = k + 1
        /\ \A i \in 1 .. Len(q) : t[i] = q[i] /\ i \in 1 .. Len(q) + 1
        /\ \A i \in 1 .. Len(q) + 1 : i = Len(q) + 1 \/ i \in 1 .. Len(q)
    BY <1>1, <2>0
  <2> HIDE DEF t
  <2>2. NumbersOf(t) = 1 .. k + 1
    <3>1. ASSUME NEW n \in NumbersOf(t) PROVE n \in 1 .. k + 1
      <4>1. PICK i \in 1 .. Len(q) + 1 : IsRecord(t[i]) /\ t[i].n = n
        BY <2>1 DEF NumbersOf
      <4>2. CASE i = Len(q) + 1
        BY <2>1, <4>1, <4>2
      <4>3. CASE i # Len(q) + 1
        <5>1. n \in 1 .. k
          BY <1>2, <2>1, <4>1, <4>3
        <5>2. QED
          BY <5>1
      <4>4. QED
        BY <4>2, <4>3
    <3>2. ASSUME NEW n \in 1 .. k + 1 PROVE n \in NumbersOf(t)
      <4>1. CASE n = k + 1
        <5>1. Len(q) + 1 \in 1 .. Len(q) + 1
          BY <1>0
        <5>2. QED
          BY <2>1, <4>1, <5>1 DEF NumbersOf
      <4>2. CASE n # k + 1
        <5>1. n \in 1 .. k
          BY <4>2
        <5>2. PICK i \in 1 .. Len(q) : IsRecord(q[i]) /\ q[i].n = n
          BY <1>3, <5>1
        <5>3. QED
          BY <2>1, <5>2 DEF NumbersOf
      <4>3. QED
        BY <4>1, <4>2
    <3>3. QED
      BY <3>1, <3>2
  <2>3. Ascending(t)
    <3>1. ASSUME NEW i \in 1 .. Len(q) + 1, NEW j \in 1 .. Len(q) + 1, i < j,
                 IsRecord(t[i]), IsRecord(t[j])
          PROVE  t[i].n < t[j].n
      <4>1. i \in 1 .. Len(q) /\ t[i] = q[i]
        <5>1. i # Len(q) + 1
          BY <1>0, <3>1
        <5>2. QED
          BY <2>1, <5>1
      <4>2. CASE j = Len(q) + 1
        <5>1. q[i].n \in 1 .. k
          BY <1>2, <3>1, <4>1
        <5>2. QED
          BY <2>1, <4>1, <4>2, <5>1
      <4>3. CASE j # Len(q) + 1
        <5>1. j \in 1 .. Len(q) /\ t[j] = q[j]
          BY <2>1, <4>3
        <5>2. QED
          BY <1>4, <3>1, <4>1, <5>1
      <4>4. QED
        BY <4>2, <4>3
    <3>2. QED
      BY <2>1, <3>1 DEF Ascending
  <2>4. QED
    BY <2>2, <2>3 DEF Sound, t
<1>7. QED
  BY <1>5, <1>6

LEMMA SoundEmpty == Sound(<<>>, 0)
<1>1. NumbersOf(<<>>) = {} /\ 1 .. 0 = {}
  BY DEF NumbersOf
<1>2. QED
  BY <1>1 DEF Sound, Ascending

(* The answer of the server fits what is sent.                              *)
LEMMA AnswerComes ==
  ASSUME NEW out \in Seq(Token), NEW f \in 0 .. 3, NEW q \in Seq(Token), NEW d \in Nat,
         Coming(f, q, d), Going(f, q, out), NEW a \in Answers(out)
  PROVE  a \in Seq(Token) /\ Coming(f, q \o a, d)
<1>0. /\ <<>> \in Seq(Token) /\ q \o <<>> = q /\ <<Bad>> \in Seq(Token)
      /\ <<Flight(1)>> \in Seq(Token)
  BY Tokens
<1>1. CASE a = <<>>
  BY <1>0, <1>1
<1>2. ASSUME Flight(1) \in ToSet(out) \/ Flight(2) \in ToSet(out)
      PROVE  q = <<>>
  BY <1>2 DEF Going, Handshakes, ToSet, Flight
<1>3. CASE Flight(1) \in ToSet(out)
  <2>1. f = 1 /\ q = <<>> /\ d = 0
    BY <1>2, <1>3 DEF Going, Coming
  <2>2. a \in {<<Flight(1)>>, <<Bad>>, <<>>}
    BY <1>3 DEF Answers
  <2>3. a \in Seq(Token) /\ q \o a = a
    <3>1. a \in Seq(Token)
      BY <1>0, <2>2, Zenon
    <3>2. QED
      BY <2>1, <3>1, ConcatEmptySeq
  <2>4. QED
    BY <2>1, <2>2, <2>3 DEF Coming
<1>4. CASE Flight(1) \notin ToSet(out) /\ Flight(2) \in ToSet(out) /\ a # <<>>
  <2>1. f = 2 /\ q = <<>> /\ d = 0
    BY <1>2, <1>4 DEF Going, Coming
  <2>2. CASE a = <<Bad>>
    <3>1. a \in Seq(Token) /\ q \o a = a
      BY <1>0, <2>1, <2>2
    <3>2. QED
      BY <2>1, <2>2, <3>1 DEF Coming
  <2>3. CASE a # <<Bad>>
    <3> DEFINE recs == [i \in 1 .. Records |-> Rec(i)]
    <3>1. PICK end \in {<<>>, <<Bad>>} : a = <<Flight(2)>> \o recs \o end
      BY <1>4, <2>3 DEF Answers
    <3>2. /\ recs \in Seq(Token) /\ Len(recs) = Records /\ Records \in Nat
          /\ \A i \in 1 .. Records : recs[i] = Rec(i)
      <4>1. \A i \in 1 .. Records : Rec(i) \in Token
        BY Tokens
      <4>2. QED
        BY <4>1, TlsAssumption DEF TlsAssumption
    <3> HIDE DEF recs
    <3>3. end \in Seq(Token)
      BY <1>0
    <3>4. /\ recs \o end \in Seq(Token) /\ Len(recs \o end) = Records + Len(end)
          /\ \A i \in 1 .. Records + Len(end) : (recs \o end)[i] =
                IF i <= Records THEN recs[i] ELSE end[i - Records]
      BY <3>2, <3>3, ConcatProperties
    <3>5. <<Flight(2)>> \in Seq(Token)
      BY Tokens
    <3>6. a = <<Flight(2)>> \o (recs \o end)
      BY <3>1, <3>2, <3>3, <3>5, ConcatAssociative
    <3> DEFINE s == recs \o end
    <3>7. Data(s, 0)
      <4>1. ASSUME NEW i \in DOMAIN s
            PROVE  \/ s[i] = Rec(0 + i) /\ 0 + i <= Records
                   \/ s[i] = Bad /\ i = Len(s)
        <5>0. i \in 1 .. Records + Len(end) /\ Len(end) \in Nat
          BY <3>3, <3>4
        <5>1. CASE i <= Records
          BY <3>2, <3>4, <5>0, <5>1
        <5>2. CASE ~(i <= Records)
          <6>1. end = <<Bad>> /\ Len(end) = 1
            BY <3>2, <5>0, <5>2
          <6>2. i = Records + 1 /\ i - Records = 1
            BY <3>2, <5>0, <5>2, <6>1
          <6>3. QED
            BY <3>4, <5>0, <5>2, <6>1, <6>2
        <5>3. QED
          BY <5>1, <5>2
      <4>2. QED
        BY <4>1 DEF Data
    <3>8. s \in Seq(Token)
      BY <3>4
    <3> HIDE DEF s
    <3>9. a = <<Flight(2)>> \o s
      BY <3>6 DEF s
    <3>10. a \in Seq(Token) /\ a # <<>> /\ a[1] = Flight(2) /\ Tail(a) = s /\ q \o a = a
      <4>1. Flight(2) \in Token
        BY Tokens
      <4>2. QED
        BY <2>1, <3>8, <3>9, <4>1
    <3>11. Data(Tail(a), 0)
      BY <3>7, <3>10
    <3>12. Coming(2, a, 0)
      BY <3>10, <3>11 DEF Coming
    <3>13. QED
      BY <2>1, <3>10, <3>12
  <2>4. QED
    BY <2>2, <2>3
<1>5. CASE Flight(1) \notin ToSet(out) /\ Flight(2) \notin ToSet(out)
  BY <1>1, <1>5 DEF Answers
<1>6. QED
  BY <1>1, <1>3, <1>4, <1>5

(* An outcome of write_outgoing_bytes.                                      *)
Outcomes == [ok : BOOLEAN, out : Seq(Token), wire : Seq(Token), answer : Seq(Token),
             lost : BOOLEAN, failures : 0 .. MaxFailures]
LEMMA WriteOutcome ==
  ASSUME TypeOK, NEW u, NEW bytes \in Seq(Token), NEW w \in WriteOutgoingBytes(u, bytes)
  PROVE  /\ w \in Outcomes
         /\ ~w.lost => ~lost /\ w.wire \o w.out = wire \o bytes
         /\ w.answer # <<>> => w.out = <<>> /\ w.answer \in Answers(bytes)
         /\ w.out = <<>> \/ w.out = bytes
<1>0. /\ wire \in Seq(Token) /\ lost \in BOOLEAN /\ failures \in 0 .. MaxFailures
      /\ MaxFailures \in Nat /\ <<>> \in Seq(Token)
  BY TlsAssumption DEF TypeOK, TlsAssumption
<1>1. ASSUME NEW a \in Answers(bytes) PROVE a \in Seq(Token)
  <2>1. /\ <<Flight(1)>> \in Seq(Token) /\ <<Bad>> \in Seq(Token)
        /\ <<Flight(2)>> \in Seq(Token)
    BY Tokens
  <2>2. ASSUME NEW end \in {<<>>, <<Bad>>}
        PROVE  <<Flight(2)>> \o [i \in 1 .. Records |-> Rec(i)] \o end \in Seq(Token)
    <3>1. [i \in 1 .. Records |-> Rec(i)] \in Seq(Token)
      <4>1. \A i \in 1 .. Records : Rec(i) \in Token
        BY Tokens
      <4>2. QED
        BY <4>1, TlsAssumption DEF TlsAssumption
    <3>2. end \in Seq(Token)
      BY <1>0, <2>1
    <3>3. QED
      BY <2>1, <3>1, <3>2, ConcatProperties
  <2>3. \/ a \in {<<Flight(1)>>, <<Bad>>, <<>>}
        \/ \E end \in {<<>>, <<Bad>>} :
             a = <<Flight(2)>> \o [i \in 1 .. Records |-> Rec(i)] \o end
    BY <1>1, Zenon DEF Answers
  <2>4. QED
    BY <1>0, <2>1, <2>2, <2>3, Zenon
<1>2. wire \o <<>> = wire /\ wire \o bytes \in Seq(Token) /\ (wire \o bytes) \o <<>> = wire \o bytes
  BY <1>0
<1>3. CASE bytes = <<>>
  <2>1. w = [ok |-> TRUE, out |-> <<>>, wire |-> wire, answer |-> <<>>, lost |-> lost,
             failures |-> failures]
    BY <1>3 DEF WriteOutgoingBytes
  <2>2. QED
    BY <1>0, <1>2, <1>3, <2>1 DEF Outcomes
<1>4. CASE bytes # <<>>
  <2>1. \/ w \in XioSend(u, bytes)
        \/ /\ failures # MaxFailures
           /\ w = [ok |-> FALSE, out |-> bytes, wire |-> wire, answer |-> <<>>, lost |-> lost,
                   failures |-> failures + 1]
    BY <1>4 DEF WriteOutgoingBytes
  <2>2. CASE w \in XioSend(u, bytes)
    <3>1. \/ /\ w \in [ok : BOOLEAN, out : {<<>>}, wire : {wire}, answer : {<<>>}, lost : {TRUE},
                        failures : {failures}]
          \/ \E a \in Answers(bytes) :
               w = [ok |-> TRUE, out |-> <<>>, wire |-> wire \o bytes,
                    answer |-> IF lost THEN <<>> ELSE a,
                    lost |-> lost \/ (Handshakes(bytes) /\ a = <<>>), failures |-> failures]
      <4>1. \/ w = [ok |-> FALSE, out |-> <<>>, wire |-> wire, answer |-> <<>>, lost |-> TRUE,
                    failures |-> failures]
            \/ w = [ok |-> TRUE, out |-> <<>>, wire |-> wire, answer |-> <<>>, lost |-> TRUE,
                    failures |-> failures]
            \/ \E a \in Answers(bytes) :
                 w = [ok |-> TRUE, out |-> <<>>, wire |-> wire \o bytes,
                      answer |-> IF lost THEN <<>> ELSE a,
                      lost |-> lost \/ (Handshakes(bytes) /\ a = <<>>), failures |-> failures]
        BY <2>2, Zenon DEF XioSend
      <4>2. /\ [ok |-> FALSE, out |-> <<>>, wire |-> wire, answer |-> <<>>, lost |-> TRUE,
                failures |-> failures]
                \in [ok : BOOLEAN, out : {<<>>}, wire : {wire}, answer : {<<>>}, lost : {TRUE},
                     failures : {failures}]
            /\ [ok |-> TRUE, out |-> <<>>, wire |-> wire, answer |-> <<>>, lost |-> TRUE,
                failures |-> failures]
                \in [ok : BOOLEAN, out : {<<>>}, wire : {wire}, answer : {<<>>}, lost : {TRUE},
                     failures : {failures}]
        OBVIOUS
      <4>3. QED
        BY <4>1, <4>2
    <3>2. CASE w \in [ok : BOOLEAN, out : {<<>>}, wire : {wire}, answer : {<<>>}, lost : {TRUE},
                      failures : {failures}]
      BY <1>0, <3>2 DEF Outcomes
    <3>3. ASSUME NEW a \in Answers(bytes),
                 w = [ok |-> TRUE, out |-> <<>>, wire |-> wire \o bytes,
                      answer |-> IF lost THEN <<>> ELSE a,
                      lost |-> lost \/ (Handshakes(bytes) /\ a = <<>>), failures |-> failures]
          PROVE  /\ w \in Outcomes
                 /\ ~w.lost => ~lost /\ w.wire \o w.out = wire \o bytes
                 /\ w.answer # <<>> => w.out = <<>> /\ w.answer \in Answers(bytes)
                 /\ w.out = <<>> \/ w.out = bytes
      <4> DEFINE b == lost \/ (Handshakes(bytes) /\ a = <<>>)
                 c == IF lost THEN <<>> ELSE a
      <4>1. b \in BOOLEAN /\ (~b => ~lost) /\ c \in Seq(Token) /\ (c # <<>> => c = a)
        BY <1>0, <1>1 DEF Handshakes
      <4>2. w = [ok |-> TRUE, out |-> <<>>, wire |-> wire \o bytes, answer |-> c, lost |-> b,
                 failures |-> failures]
        BY <3>3
      <4> HIDE DEF b, c
      <4>3. QED
        BY <1>0, <1>2, <4>1, <4>2 DEF Outcomes
    <3>4. QED
      BY <3>1, <3>2, <3>3
  <2>3. CASE /\ failures # MaxFailures
             /\ w = [ok |-> FALSE, out |-> bytes, wire |-> wire, answer |-> <<>>, lost |-> lost,
                     failures |-> failures + 1]
    BY <1>0, <2>3 DEF Outcomes
  <2>4. QED
    BY <2>1, <2>2, <2>3
<1>5. QED
  BY <1>3, <1>4

(* What has come and what is to go, once it is sent.                        *)
LEMMA WriteCarries ==
  ASSUME TypeOK, NEW u, NEW bytes \in Seq(Token), NEW w \in WriteOutgoingBytes(u, bytes),
         NEW f \in 0 .. 3, NEW d \in Nat, NEW q \in Seq(Token),
         Coming(f, q, d), Going(f, q, bytes)
  PROVE  Coming(f, q \o w.answer, d) /\ Going(f, q \o w.answer, w.out)
<1>1. /\ w \in Outcomes
      /\ w.answer # <<>> => w.out = <<>> /\ w.answer \in Answers(bytes)
      /\ w.out = <<>> \/ w.out = bytes
  BY WriteOutcome
<1>2. CASE w.answer = <<>>
  <2>1. q \o w.answer = q
    BY <1>2, ConcatEmptySeq
  <2>2. Going(f, q, <<>>)
    BY DEF Going, Handshakes, ToSet
  <2>3. QED
    BY <1>1, <2>1, <2>2
<1>3. CASE w.answer # <<>>
  <2>1. Coming(f, q \o w.answer, d)
    BY <1>1, <1>3, AnswerComes
  <2>2. Going(f, q \o w.answer, <<>>)
    BY DEF Going, Handshakes, ToSet
  <2>3. QED
    BY <1>1, <1>3, <2>1, <2>2
<1>4. QED
  BY <1>2, <1>3

LEMMA AppendMoves ==
  ASSUME NEW a \in Seq(Token), NEW b \in Seq(Token), NEW x \in Token
  PROVE  a \o Append(b, x) = Append(a \o b, x) /\ a \o b \in Seq(Token)
OBVIOUS

LEMMA Regroup ==
  ASSUME NEW a \in Seq(Token), NEW b \in Seq(Token), NEW c \in Seq(Token)
  PROVE  /\ a \o b \in Seq(Token) /\ b \o c \in Seq(Token)
         /\ a \o (b \o c) = (a \o b) \o c
<1>1. a \o b \in Seq(Token) /\ b \o c \in Seq(Token)
  BY ConcatProperties, Zenon
<1>2. a \o (b \o c) = (a \o b) \o c
  BY ConcatAssociative
<1>3. QED
  BY <1>1, <1>2

(* What is true of a call of send_handshake_bytes, one concern at a time.   *)
SentTypes ==
  /\ out_bio' \in Seq(Token) /\ wire' \in Seq(Token) /\ lost' \in BOOLEAN
  /\ failures' \in 0 .. MaxFailures /\ inbound' \in Seq(Token)
HandshakeTypes ==
  /\ SentTypes
  /\ flight' \in 0 .. 3 /\ in_bio' \in Seq(Token) /\ early' \in BOOLEAN
  /\ flight' # 0
HandshakeEnds(below) ==
  /\ tlsio_state' \in {"IN_HANDSHAKE", "HANDSHAKE_FAILED", "OPEN"}
  /\ \/ /\ tlsio_state' # "OPEN" /\ stack' = below /\ answers' = answers
     \/ /\ tlsio_state' = "OPEN" /\ stack' = User("open") \o below
        /\ answers' = Append(answers, "OK")
        /\ flight' = 3 /\ (in_bio' # <<>> => early')
(* What was coming on flight f, and is on flight n.                         *)
Carried(f, q, out, n, inc) ==
  \A d \in Nat : Coming(f, q, d) /\ Going(f, q, out) =>
    Coming(n, inc \o inbound', d) /\ Going(n, inc \o inbound', out_bio')
StaysSound(k) ==
  ~lost' => ~lost /\ (Sound(wire \o out_bio, k) => Sound(wire' \o out_bio', k))

LEMMA GoesOn ==
  ASSUME TypeOK, NEW u, NEW n \in 0 .. 3, NEW bytes \in Seq(Token), NEW later \in Seq(Token),
         NEW below, NEW inc \in Seq(Token), in_bio' = inc, n # 0,
         HandshakeGoesOn(u, n, bytes, later, below)
  PROVE  /\ HandshakeTypes /\ HandshakeEnds(below)
         /\ Carried(n, inc \o later, bytes, flight', in_bio')
         /\ ~lost' => ~lost /\ wire' \o out_bio' = wire \o bytes
<1>1. PICK w \in WriteOutgoingBytes(u, bytes) :
        /\ tlsio_state' = IF w.ok THEN "IN_HANDSHAKE" ELSE "HANDSHAKE_FAILED"
        /\ flight' = n /\ Sent(w, later) /\ stack' = below
        /\ answers' = answers /\ early' = early
  BY DEF HandshakeGoesOn
<1>2. /\ w \in Outcomes
      /\ ~w.lost => ~lost /\ w.wire \o w.out = wire \o bytes
  BY WriteOutcome
<1>3. /\ out_bio' = w.out /\ wire' = w.wire /\ lost' = w.lost /\ failures' = w.failures
      /\ inbound' = later \o w.answer
  BY <1>1 DEF Sent
<1>4. /\ w.out \in Seq(Token) /\ w.wire \in Seq(Token) /\ w.lost \in BOOLEAN
      /\ w.failures \in 0 .. MaxFailures /\ w.answer \in Seq(Token)
  BY <1>2 DEF Outcomes
<1>5. later \o w.answer \in Seq(Token) /\ inc \o later \in Seq(Token)
      /\ inc \o (later \o w.answer) = (inc \o later) \o w.answer
  <2> DEFINE c == w.answer
  <2>1. c \in Seq(Token)
    BY <1>4
  <2> HIDE DEF c
  <2>2. /\ inc \o later \in Seq(Token) /\ later \o c \in Seq(Token)
        /\ inc \o (later \o c) = (inc \o later) \o c
    <3>1. inc \in Seq(Token) /\ later \in Seq(Token)
      OBVIOUS
    <3>2. inc \o later \in Seq(Token) /\ later \o c \in Seq(Token)
      BY <2>1, <3>1, ConcatProperties
    <3>3. (inc \o later) \o c = inc \o (later \o c)
      BY <2>1, <3>1, ConcatAssociative
    <3>4. QED
      BY <3>2, <3>3
  <2>3. QED
    BY <2>2 DEF c
<1>6. ASSUME NEW d \in Nat, Coming(n, inc \o later, d), Going(n, inc \o later, bytes)
      PROVE  Coming(n, inc \o inbound', d) /\ Going(n, inc \o inbound', out_bio')
  <2>1. Coming(n, (inc \o later) \o w.answer, d) /\ Going(n, (inc \o later) \o w.answer, w.out)
    BY <1>5, <1>6, WriteCarries
  <2>2. QED
    BY <1>3, <1>5, <2>1
<1>7. early \in BOOLEAN
  BY DEF TypeOK
<1>8. HandshakeTypes
  BY <1>1, <1>3, <1>4, <1>5, <1>7 DEF HandshakeTypes, SentTypes
<1>9. HandshakeEnds(below)
  BY <1>1 DEF HandshakeEnds
<1>10. Carried(n, inc \o later, bytes, flight', in_bio')
  BY <1>1, <1>6 DEF Carried
<1>11. QED
  BY <1>2, <1>3, <1>8, <1>9, <1>10

LEMMA AppendsFlight ==
  ASSUME NEW out \in Seq(Token), NEW n \in 1 .. 2
  PROVE  /\ Append(out, Flight(n)) \in Seq(Token)
         /\ \A m \in 1 .. 2 : m # n /\ Flight(m) \in ToSet(Append(out, Flight(n))) =>
              Flight(m) \in ToSet(out)
<1>1. Flight(n) \in Token /\ Flight(1) # Flight(2)
  BY Tokens
<1>2. ASSUME NEW m \in 1 .. 2, m # n, Flight(m) \in ToSet(Append(out, Flight(n)))
      PROVE  Flight(m) \in ToSet(out)
  <2>1. PICK i \in 1 .. Len(out) + 1 : Append(out, Flight(n))[i] = Flight(m)
    BY <1>1, <1>2 DEF ToSet
  <2>2. i # Len(out) + 1
    BY <1>1, <1>2, <2>1
  <2>3. i \in DOMAIN out /\ out[i] = Flight(m)
    BY <1>1, <2>1, <2>2
  <2>4. QED
    BY <2>3 DEF ToSet
<1>3. QED
  BY <1>1, <1>2

(* send_handshake_bytes.                                                    *)
LEMMA Handshake ==
  ASSUME TypeOK, NEW u, NEW inc \in Seq(Token), NEW later \in Seq(Token), NEW below,
         NEW k \in Nat, SendHandshakeBytes(u, inc, later, below)
  PROVE  /\ HandshakeTypes \/ (SentTypes /\ flight' = flight /\ in_bio' = inc
                               /\ early' = early /\ out_bio' = out_bio
                               /\ tlsio_state' = "HANDSHAKE_FAILED")
         /\ HandshakeEnds(below)
         /\ Carried(flight, inc \o later, out_bio, flight', in_bio')
         /\ StaysSound(k)
<1>0. /\ wire \in Seq(Token) /\ out_bio \in Seq(Token) /\ lost \in BOOLEAN
      /\ flight \in 0 .. 3 /\ failures \in 0 .. MaxFailures /\ early \in BOOLEAN
  BY DEF TypeOK
<1>1. ASSUME NEW n \in 1 .. 2, Sound(wire \o out_bio, k)
      PROVE  Sound(wire \o Append(out_bio, Flight(n)), k)
  <2>1. Flight(n) \in Token /\ n \in Nat
    BY Tokens
  <2>2. /\ wire \o out_bio \in Seq(Token)
        /\ wire \o Append(out_bio, Flight(n)) = Append(wire \o out_bio, Flight(n))
    BY <1>0, <2>1, AppendMoves
  <2>3. Sound(Append(wire \o out_bio, Flight(n)), k)
    BY <1>1, <2>1, <2>2, SoundAppend
  <2>4. QED
    BY <2>2, <2>3
<1>3. CASE /\ flight = 0 /\ in_bio' = inc
           /\ HandshakeGoesOn(u, 1, Append(out_bio, Flight(1)), later, below)
  <2>0. Append(out_bio, Flight(1)) \in Seq(Token) /\ 1 \in 0 .. 3 /\ 1 # 0 /\ 1 \in 1 .. 2
    BY <1>0, AppendsFlight
  <2>1. /\ HandshakeTypes /\ HandshakeEnds(below)
        /\ Carried(1, inc \o later, Append(out_bio, Flight(1)), flight', in_bio')
        /\ ~lost' => ~lost /\ wire' \o out_bio' = wire \o Append(out_bio, Flight(1))
    BY <1>3, <2>0, GoesOn
  <2>2. ASSUME NEW d \in Nat, Coming(flight, inc \o later, d),
               Going(flight, inc \o later, out_bio)
        PROVE  Coming(1, inc \o later, d) /\ Going(1, inc \o later, Append(out_bio, Flight(1)))
    <3>1. inc \o later = <<>> /\ d = 0
      BY <1>3, <2>2 DEF Coming
    <3>2. Flight(2) \notin ToSet(out_bio)
      BY <1>3, <2>2 DEF Going
    <3>3. Flight(2) \notin ToSet(Append(out_bio, Flight(1)))
      BY <1>0, <2>0, <3>2, AppendsFlight
    <3>4. QED
      BY <3>1, <3>3 DEF Coming, Going
  <2>3. Carried(flight, inc \o later, out_bio, flight', in_bio')
    BY <2>1, <2>2 DEF Carried
  <2>4. StaysSound(k)
    BY <1>1, <2>0, <2>1 DEF StaysSound
  <2>5. QED
    BY <2>1, <2>3, <2>4
<1>4. CASE /\ flight # 0 /\ inc = <<>> /\ in_bio' = inc
           /\ HandshakeGoesOn(u, flight, out_bio, later, below)
  <2>1. /\ HandshakeTypes /\ HandshakeEnds(below)
        /\ Carried(flight, inc \o later, out_bio, flight', in_bio')
        /\ ~lost' => ~lost /\ wire' \o out_bio' = wire \o out_bio
    BY <1>0, <1>4, GoesOn
  <2>2. StaysSound(k)
    BY <2>1 DEF StaysSound
  <2>3. QED
    BY <2>1, <2>2
<1>5. CASE /\ flight = 1 /\ inc # <<>> /\ inc[1] = Flight(1) /\ in_bio' = Tail(inc)
           /\ HandshakeGoesOn(u, 2, Append(out_bio, Flight(2)), later, below)
  <2>0. /\ Append(out_bio, Flight(2)) \in Seq(Token) /\ 2 \in 0 .. 3 /\ 2 # 0
        /\ 2 \in 1 .. 2 /\ 1 \in 1 .. 2 /\ 1 # 2
    BY <1>0, AppendsFlight
  <2>a. Tail(inc) \in Seq(Token)
    BY <1>5
  <2>1. /\ HandshakeTypes /\ HandshakeEnds(below)
        /\ Carried(2, Tail(inc) \o later, Append(out_bio, Flight(2)), flight', in_bio')
        /\ ~lost' => ~lost /\ wire' \o out_bio' = wire \o Append(out_bio, Flight(2))
    BY <1>5, <2>0, <2>a, GoesOn
  <2>2. ASSUME NEW d \in Nat, Coming(flight, inc \o later, d),
               Going(flight, inc \o later, out_bio)
        PROVE  /\ Coming(2, Tail(inc) \o later, d)
               /\ Going(2, Tail(inc) \o later, Append(out_bio, Flight(2)))
    <3>1. /\ inc \o later # <<>> /\ (inc \o later)[1] = inc[1]
          /\ Tail(inc \o later) = Tail(inc) \o later
      BY <1>5
    <3>2. inc \o later \in {<<>>, <<Flight(1)>>, <<Bad>>} /\ d = 0
      BY <1>5, <2>2 DEF Coming
    <3>3. inc \o later = <<Flight(1)>>
      <4>1. inc \o later = <<Bad>> => (inc \o later)[1] = Bad
        OBVIOUS
      <4>2. Flight(1) # Bad
        BY Tokens
      <4>3. QED
        BY <1>5, <3>1, <3>2, <4>1, <4>2, Zenon
    <3>4. Tail(inc) \o later = <<>>
      <4>1. Tail(<<Flight(1)>>) = <<>>
        OBVIOUS
      <4>2. QED
        BY <3>1, <3>3, <4>1, Zenon
    <3>5. Flight(1) \notin ToSet(out_bio)
      <4>1. ~Handshakes(out_bio)
        BY <2>2, <3>1 DEF Going
      <4>2. QED
        BY <4>1 DEF Handshakes, ToSet, Flight
    <3>6. Flight(1) \notin ToSet(Append(out_bio, Flight(2)))
      BY <1>0, <2>0, <3>5, AppendsFlight
    <3>7. QED
      BY <3>2, <3>4, <3>6 DEF Coming, Going
  <2>3. Carried(flight, inc \o later, out_bio, flight', in_bio')
    BY <2>1, <2>2 DEF Carried
  <2>4. StaysSound(k)
    BY <1>1, <2>0, <2>1 DEF StaysSound
  <2>5. QED
    BY <2>1, <2>3, <2>4
<1>6. CASE /\ flight = 2 /\ inc # <<>> /\ inc[1] = Flight(2) /\ in_bio' = Tail(inc)
           /\ tlsio_state' = "OPEN" /\ flight' = 3
           /\ IndicateOpenComplete("OK", below)
           /\ early' = (in_bio' # <<>>) /\ inbound' = later
           /\ UNCHANGED <<out_bio, wire, lost, failures>>
  <2>0. Tail(inc) \in Seq(Token)
    BY <1>6
  <2>1. ASSUME NEW d \in Nat, Coming(flight, inc \o later, d),
               Going(flight, inc \o later, out_bio)
        PROVE  Coming(3, Tail(inc) \o later, d) /\ Going(3, Tail(inc) \o later, out_bio)
    <3>1. /\ inc \o later # <<>> /\ (inc \o later)[1] = inc[1]
          /\ Tail(inc \o later) = Tail(inc) \o later
      BY <1>6
    <3>a. inc \o later # <<Bad>>
      <4>1. inc \o later = <<Bad>> => (inc \o later)[1] = Bad
        OBVIOUS
      <4>2. Flight(2) # Bad
        BY Tokens
      <4>3. QED
        BY <1>6, <3>1, <4>1, <4>2, Zenon
    <3>2. d = 0 /\ Data(Tail(inc \o later), 0)
      <4>1. flight # 3 /\ flight = 2
        BY <1>6
      <4>2. QED
        BY <2>1, <3>1, <3>a, <4>1, Zenon DEF Coming
    <3>3. Data(Tail(inc) \o later, 0)
      BY <3>1, <3>2, Zenon
    <3>4. ~Handshakes(out_bio)
      BY <2>1, <3>1 DEF Going
    <3>5. \A n \in Nat : Flight(n) \notin ToSet(out_bio)
      BY <3>4 DEF Handshakes, ToSet, Flight
    <3>6. QED
      BY <3>2, <3>3, <3>4, <3>5 DEF Coming, Going
  <2>2. Carried(flight, inc \o later, out_bio, flight', in_bio')
    BY <1>6, <2>1 DEF Carried
  <2>3. HandshakeTypes
    BY <1>0, <1>6, <2>0 DEF HandshakeTypes, SentTypes
  <2>4. HandshakeEnds(below)
    BY <1>6 DEF HandshakeEnds, IndicateOpenComplete
  <2>5. StaysSound(k)
    BY <1>6 DEF StaysSound
  <2>6. QED
    BY <2>2, <2>3, <2>4, <2>5
<1>7. CASE /\ inc # <<>> /\ inc[1] = Bad /\ in_bio' = inc
           /\ tlsio_state' = "HANDSHAKE_FAILED"
           /\ stack' = below /\ inbound' = later
           /\ UNCHANGED <<flight, out_bio, answers, early, wire, lost, failures>>
  <2>1. Carried(flight, inc \o later, out_bio, flight', in_bio') /\ StaysSound(k)
    BY <1>7 DEF Carried, StaysSound
  <2>2. HandshakeEnds(below)
    BY <1>7 DEF HandshakeEnds
  <2>3. SentTypes
    BY <1>0, <1>7 DEF SentTypes
  <2>4. QED
    BY <1>7, <2>1, <2>2, <2>3
<1>8. QED
  BY <1>3, <1>4, <1>5, <1>6, <1>7, Zenon DEF SendHandshakeBytes

-------------------------------------------------------------------------------
(* How a step changes the stack.                                            *)
Events == {"none", "open", "closed", "error", "bytes", "callback"}

LEMMA PushFrame ==
  ASSUME NEW s, Stacked(s), NEW op \in Ops, NEW ev \in Events,
         Fits([op |-> op, ev |-> ev], s)
  PROVE  /\ Stacked(Frame(op, ev) \o s)
         /\ \A o : Has(Frame(op, ev) \o s, o) <=> o = op \/ Has(s, o)
<1> DEFINE f == [op |-> op, ev |-> ev]
<1>1. f \in Calls /\ f.op = op /\ s \in Seq(Calls) /\ Fits(f, s)
  BY DEF Calls, Events, Stacked
<1>2. Frame(op, ev) = <<f>>
  BY DEF Frame
<1> HIDE DEF f
<1>3. Stacked(<<f>> \o s)
  BY <1>1, StackedPush
<1>4. ASSUME NEW o PROVE Has(<<f>> \o s, o) <=> o = op \/ Has(s, o)
  <2>1. Has(<<f>> \o s, o) <=> f.op = o \/ Has(s, o)
    BY <1>1, HasPush
  <2>2. QED
    BY <1>1, <2>1
<1>5. QED
  BY <1>2, <1>3, <1>4

LEMMA NothingBelow ==
  ASSUME NEW s, Stacked(s), s = <<>> \/ s[1].op \notin {"openedBelow", "notOpenedBelow"}
  PROVE  ~Has(s, "openedBelow") /\ ~Has(s, "notOpenedBelow")
<1>1. CASE s = <<>>
  BY <1>1 DEF Has
<1>2. CASE s # <<>>
  BY <1>2, StackedPop
<1>3. QED
  BY <1>1, <1>2

Pushed(s, t, op) == Stacked(t) /\ \A o : Has(t, o) <=> o = op \/ Has(s, o)
PushedTwo(s, t, op, q) == Stacked(t) /\ \A o : Has(t, o) <=> o \in {op, q} \/ Has(s, o)

LEMMA FramePushed ==
  ASSUME NEW s, Stacked(s), ~Has(s, "openedBelow"), ~Has(s, "notOpenedBelow"),
         NEW op \in Ops, op \notin {"pump", "decode"}, NEW ev \in Events
  PROVE  Pushed(s, Frame(op, ev) \o s, op)
<1>1. Fits([op |-> op, ev |-> ev], s)
  BY DEF Fits
<1>2. QED
  BY <1>1, PushFrame DEF Pushed

LEMMA UserPushed ==
  ASSUME NEW s, Stacked(s), ~Has(s, "openedBelow"), ~Has(s, "notOpenedBelow"),
         NEW ev \in Events
  PROVE  Pushed(s, User(ev) \o s, "user")
<1>1. "user" \in Ops /\ "user" \notin {"pump", "decode"}
  BY DEF Ops
<1>2. QED
  BY <1>1, FramePushed DEF User

LEMMA CallPushed ==
  ASSUME NEW s, Stacked(s), ~Has(s, "openedBelow"), ~Has(s, "notOpenedBelow"),
         NEW op \in Ops, op \notin {"pump", "decode"}
  PROVE  Pushed(s, Call(op) \o s, op)
<1>1. "none" \in Events
  BY DEF Events
<1>2. QED
  BY <1>1, FramePushed DEF Call

LEMMA TwoPushed ==
  ASSUME NEW s, Stacked(s), ~Has(s, "openedBelow"), ~Has(s, "notOpenedBelow"),
         NEW a \in Ops, a \notin {"pump", "decode"}, NEW e \in Events,
         NEW b \in Ops, NEW d \in Events,
         b \notin {"pump", "decode", "openedBelow", "notOpenedBelow"}
  PROVE  PushedTwo(s, Frame(a, e) \o Frame(b, d) \o s, a, b)
<1>1. Pushed(s, Frame(b, d) \o s, b)
  BY FramePushed
<1>2. ~Has(Frame(b, d) \o s, "openedBelow") /\ ~Has(Frame(b, d) \o s, "notOpenedBelow")
  BY <1>1 DEF Pushed
<1>3. Pushed(Frame(b, d) \o s, Frame(a, e) \o (Frame(b, d) \o s), a)
  BY <1>1, <1>2, FramePushed DEF Pushed
<1>4. Frame(a, e) \o Frame(b, d) \o s = Frame(a, e) \o (Frame(b, d) \o s)
  <2>1. Frame(a, e) \in Seq(Calls) /\ Frame(b, d) \in Seq(Calls) /\ s \in Seq(Calls)
    BY DEF Frame, Calls, Events, Stacked
  <2>2. QED
    BY <2>1, ConcatAssociative
<1>5. QED
  BY <1>1, <1>3, <1>4 DEF Pushed, PushedTwo

LEMMA HasNothing == Stacked(<<>>) /\ \A o : ~Has(<<>>, o)
BY DEF Has, Stacked

(* What a pop of the call op leaves.                                        *)
Popped(s, t, op) ==
  /\ Stacked(t) /\ \A o : Has(s, o) <=> o = op \/ Has(t, o)
  /\ ~Has(t, "openedBelow") /\ ~Has(t, "notOpenedBelow")

LEMMA PopTop ==
  ASSUME NEW s, Stacked(s), s # <<>>
  PROVE  Popped(s, Tail(s), s[1].op)
<1>1. /\ Stacked(Tail(s)) /\ ~Has(Tail(s), "openedBelow") /\ ~Has(Tail(s), "notOpenedBelow")
      /\ \A o : Has(s, o) <=> s[1].op = o \/ Has(Tail(s), o)
  BY StackedPop
<1>2. QED
  BY <1>1 DEF Popped

(* What flows when the connection is not touched, and the io below forgets  *)
(* what it received or keeps it.                                            *)
FlowKept ==
  /\ UNCHANGED <<ssl, flight, in_bio, out_bio, wire, written, delivered, early>>
  /\ inbound' \in {inbound, <<>>} /\ lost' \in {lost, TRUE}
  /\ tlsio_state = "ERROR" => tlsio_state' = "ERROR"
  /\ tlsio_state' \in {"OPEN", "ERROR"} => tlsio_state = tlsio_state'
  /\ Has(stack, "openFails") => Has(stack', "openFails")
  /\ Has(stack, "decode") <=> Has(stack', "decode")

LEMMA FlowsOn ==
  ASSUME TypeOK, Flowing, FlowKept
  PROVE  Flowing'
<1>0. /\ in_bio \in Seq(Token) /\ inbound \in Seq(Token) /\ flight \in 0 .. 3
      /\ Len(delivered) \in Nat /\ lost \in BOOLEAN
  BY DEF TypeOK
<1>1. Ahead'
  <2>1. SUFFICES ASSUME ssl', tlsio_state' # "ERROR", ~Has(stack', "openFails")
                 PROVE  /\ Coming(flight, in_bio \o inbound', Len(delivered))
                        /\ Going(flight, in_bio \o inbound', out_bio)
    BY DEF Ahead, FlowKept
  <2>2. /\ Coming(flight, in_bio \o inbound, Len(delivered))
        /\ Going(flight, in_bio \o inbound, out_bio)
    BY <2>1 DEF Flowing, Ahead, FlowKept
  <2>3. CASE inbound' = inbound
    BY <2>2, <2>3
  <2>4. CASE inbound' = <<>>
    <3>1. Coming(flight, in_bio \o <<>>, Len(delivered))
      BY <1>0, <2>2, ComingPrefix
    <3>2. in_bio \o inbound = <<>> => in_bio \o <<>> = <<>>
      BY <1>0
    <3>3. Going(flight, in_bio \o <<>>, out_bio)
      BY <2>2, <3>2 DEF Going
    <3>4. QED
      BY <2>4, <3>1, <3>3
  <2>5. QED
    BY <2>3, <2>4 DEF FlowKept
<1>2. InOrder' /\ NotBegun' /\ Established' /\ Decodes'
  BY DEF Flowing, FlowKept, InOrder, NotBegun, Established, Decodes
<1>3. Drained'
  BY DEF Flowing, FlowKept, Drained, RecordReady
<1>4. OnItsWay'
  <2>1. ASSUME ssl', ~lost' PROVE Sound(wire' \o out_bio', written')
    <3>1. ssl /\ ~lost
      BY <1>0, <2>1 DEF FlowKept
    <3>2. Sound(wire \o out_bio, written)
      BY <3>1 DEF Flowing, OnItsWay
    <3>3. QED
      BY <3>2 DEF FlowKept
  <2>2. QED
    BY <2>1 DEF OnItsWay
<1>5. QED
  BY <1>1, <1>2, <1>3, <1>4 DEF Flowing

(* Nothing flows without an SSL.                                            *)
LEMMA FlowsNoMore ==
  ASSUME Flowing, ~ssl', delivered' = delivered,
         Has(stack', "decode") => tlsio_state' # "ERROR"
  PROVE  Flowing'
BY DEF Flowing, Ahead, InOrder, NotBegun, Established, Drained, Decodes, OnItsWay

-------------------------------------------------------------------------------
(* The steps.                                                               *)
NormFits == AnswersFit /\ UnderFits /\ SslFits

LEMMA NormOn ==
  ASSUME NormFits, UNCHANGED <<tlsio_state, ssl, under, returned, answers, oddity>>,
         \A o : o \notin {"user", "pump", "decode"} => (Has(stack', o) <=> Has(stack, o)),
         Has(stack', "decode") => Has(stack, "decode")
  PROVE  NormFits'
<1>1. AnswersFit'
  BY DEF NormFits, AnswersFit, Closing
<1>2. UnderFits'
  BY DEF NormFits, UnderFits, Ending
<1>3. SslFits'
  BY DEF NormFits, SslFits, Ending
<1>4. QED
  BY <1>1, <1>2, <1>3 DEF NormFits

(* A step that takes a call from the stack, and does nothing else.          *)
LEMMA PopKeeps ==
  ASSUME IInv, Running, stack' = Rest,
         UNCHANGED <<tlsVars, ioVars, failures, history>>,
         \/ stack[1].op \in {"user", "pump"}
         \/ /\ stack[1].op \in {"openedBelow", "notOpenedBelow"}
            /\ tlsio_state # "OPENING_UNDERLYING_IO"
  PROVE  IInv'
<1>1. Popped(stack, stack', stack[1].op)
  BY PopTop DEF IInv, Running, Rest
<1>2. TypeOK'
  BY DEF IInv, TypeOK, tlsVars, sslVars, ioVars, history, openHistory, dataHistory
<1>3. Flowing'
  <2>1. FlowKept
    BY <1>1 DEF FlowKept, Popped, tlsVars, sslVars, ioVars, history, dataHistory
  <2>2. QED
    BY <2>1, FlowsOn DEF IInv
<1>4. ASSUME Norm' PROVE NormFits'
  <2>1. NormFits
    BY <1>4 DEF IInv, Norm, Running, Alive, history, NormFits
  <2>2. stack[1].op \in {"user", "pump"}
    BY <1>1, <2>1 DEF NormFits, UnderFits, Popped
  <2>3. \A o : o \notin {"user", "pump"} => (Has(stack', o) <=> Has(stack, o))
    BY <1>1, <2>2 DEF Popped
  <2>4. QED
    BY <2>1, <2>3, NormOn DEF tlsVars, sslVars, ioVars, history, openHistory
<1>5. QED
  BY <1>1, <1>2, <1>3, <1>4 DEF IInv, NormFits, Popped

LEMMA UserReturnsKeeps ==
  ASSUME IInv, UserReturns
  PROVE  IInv'
BY PopKeeps DEF UserReturns, Top

LEMMA UsersStack ==
  ASSUME IInv, InUser
  PROVE  Stacked(stack) /\ ~Has(stack, "openedBelow") /\ ~Has(stack, "notOpenedBelow")
<1>1. stack = <<>> \/ stack[1].op \notin {"openedBelow", "notOpenedBelow"}
  BY DEF InUser, Top
<1>2. QED
  BY <1>1, NothingBelow DEF IInv

(* What a close of the io below leaves, called on the stack below.          *)
ClosesOpen(below) ==
  /\ tlsio_state = "OPEN" /\ tlsio_state' = "NOT_OPEN" /\ UNCHANGED sslVars
  /\ Pushed(below, stack', "freeSsl") \/ PushedTwo(below, stack', "user", "freeSsl")
ClosesOpening(below) ==
  /\ tlsio_state # "OPEN" /\ under = "opening" /\ UNCHANGED <<tlsio_state, sslVars>>
  /\ PushedTwo(below, stack', "notOpenedBelow", "forced")
ClosesOther(below) ==
  /\ tlsio_state # "OPEN" /\ under # "opening"
  /\ tlsio_state' = "NOT_OPEN" /\ CloseOpensslInstance /\ stack' = below

LEMMA CloseNowEnds ==
  ASSUME NEW below, Stacked(below), ~Has(below, "openedBelow"), ~Has(below, "notOpenedBelow"),
         NEW callback \in BOOLEAN, CloseNow(callback, below)
  PROVE  /\ under' = "closed" /\ inbound' = <<>> /\ on_io_close_complete' \in
                {on_io_close_complete, callback}
         /\ ClosesOpen(below) \/ ClosesOpening(below) \/ ClosesOther(below)
<1>0. "none" \in Events /\ "closed" \in Events /\ "freeSsl" \in Ops /\ "user" \in Ops
      /\ "notOpenedBelow" \in Ops /\ "forced" \in Ops
  BY DEF Events, Ops
<1>1. CASE tlsio_state = "OPEN"
  <2>1. CASE callback
    <3>1. stack' = User("closed") \o Call("freeSsl") \o below
      BY <1>1, <2>1 DEF CloseNow
    <3>2. PushedTwo(below, stack', "user", "freeSsl")
      BY <1>0, <3>1, TwoPushed DEF User, Call
    <3>3. QED
      BY <1>1, <3>2 DEF CloseNow, ClosesOpen
  <2>2. CASE ~callback
    <3>1. stack' = <<>> \o Call("freeSsl") \o below
      BY <1>1, <2>2 DEF CloseNow
    <3>2. <<>> \o Call("freeSsl") = Call("freeSsl")
      BY DEF Call, Frame
    <3>3. Pushed(below, stack', "freeSsl")
      BY <1>0, <3>1, <3>2, CallPushed
    <3>4. QED
      BY <1>1, <3>3 DEF CloseNow, ClosesOpen
  <2>3. QED
    BY <2>1, <2>2
<1>2. CASE tlsio_state # "OPEN"
  <2>1. CASE under = "opening"
    <3>1. stack' = Call("notOpenedBelow") \o Call("forced") \o below
      BY <1>2, <2>1 DEF CloseNow, CloseForced
    <3>2. PushedTwo(below, stack', "notOpenedBelow", "forced")
      BY <1>0, <3>1, TwoPushed DEF Call
    <3>3. QED
      BY <1>2, <2>1, <3>2 DEF CloseNow, CloseForced, ClosesOpening
  <2>2. CASE under # "opening"
    BY <1>2, <2>2 DEF CloseNow, CloseForced, ClosesOther
  <2>3. QED
    BY <2>1, <2>2
<1>3. QED
  BY <1>1, <1>2

(* A close from a stack that is below but for the call itself.              *)
LEMMA CloseNowKeeps ==
  ASSUME TypeOK, Stacked(stack), Flowing,
         NEW below, Stacked(below), ~Has(below, "openedBelow"), ~Has(below, "notOpenedBelow"),
         \A o : o # "closes" => (Has(stack, o) <=> Has(below, o)),
         NEW callback \in BOOLEAN, CloseNow(callback, below), UNCHANGED dataHistory
  PROVE  /\ tlsio_state' \in {tlsio_state, "NOT_OPEN"} /\ under' = "closed" /\ inbound' = <<>>
         /\ ssl' \in BOOLEAN /\ flight' \in 0 .. 3 /\ on_io_close_complete' \in BOOLEAN
         /\ in_bio' \in Seq(Token) /\ out_bio' \in Seq(Token)
         /\ Stacked(stack') /\ Flowing'
<1>0. /\ under' = "closed" /\ inbound' = <<>>
      /\ on_io_close_complete' \in {on_io_close_complete, callback}
      /\ ClosesOpen(below) \/ ClosesOpening(below) \/ ClosesOther(below)
  BY CloseNowEnds
<1>1. on_io_close_complete' \in BOOLEAN
  BY <1>0 DEF TypeOK
<1>2. CASE ClosesOpen(below)
  <2>1. Has(stack, "openFails") => Has(stack', "openFails")
    BY <1>2 DEF ClosesOpen, Pushed, PushedTwo
  <2>2. Has(stack, "decode") <=> Has(stack', "decode")
    BY <1>2 DEF ClosesOpen, Pushed, PushedTwo
  <2>3. FlowKept
    BY <1>0, <1>2, <2>1, <2>2 DEF ClosesOpen, FlowKept, sslVars, dataHistory
  <2>4. QED
    BY <1>0, <1>1, <1>2, <2>3, FlowsOn DEF ClosesOpen, TypeOK, sslVars, Pushed, PushedTwo
<1>3. CASE ClosesOpening(below)
  <2>1. Has(stack, "openFails") => Has(stack', "openFails")
    BY <1>3 DEF ClosesOpening, PushedTwo
  <2>2. Has(stack, "decode") <=> Has(stack', "decode")
    BY <1>3 DEF ClosesOpening, PushedTwo
  <2>3. FlowKept
    BY <1>0, <1>3, <2>1, <2>2 DEF ClosesOpening, FlowKept, sslVars, dataHistory
  <2>4. QED
    BY <1>0, <1>1, <1>3, <2>3, FlowsOn DEF ClosesOpening, TypeOK, sslVars, PushedTwo
<1>4. CASE ClosesOther(below)
  <2>1. Flowing'
    BY <1>4, FlowsNoMore DEF ClosesOther, CloseOpensslInstance, dataHistory
  <2>2. /\ tlsio_state' = "NOT_OPEN" /\ ssl' = FALSE /\ flight' = 0 /\ stack' = below
        /\ in_bio' = <<>> /\ out_bio' = <<>>
    BY <1>4 DEF ClosesOther, CloseOpensslInstance
  <2>3. ssl' \in BOOLEAN /\ flight' \in 0 .. 3
    <3>1. ssl' \in BOOLEAN
      BY <2>2, Zenon
    <3>2. flight' \in 0 .. 3
      BY <2>2
    <3>3. QED
      BY <3>1, <3>2
  <2>4. in_bio' \in Seq(Token) /\ out_bio' \in Seq(Token)
    BY <2>2
  <2>5. QED
    BY <1>0, <1>1, <2>1, <2>2, <2>3, <2>4
<1>5. QED
  BY <1>0, <1>2, <1>3, <1>4

LEMMA ClosesKeeps ==
  ASSUME IInv, Closes
  PROVE  IInv'
<1>1. Popped(stack, Rest, "closes")
  BY PopTop DEF IInv, Closes, Running, Top, Rest
<1>2. CloseNow(stack[1].ev = "callback", Rest) /\ (stack[1].ev = "callback") \in BOOLEAN
  BY DEF Closes
<1>3. /\ Stacked(Rest) /\ ~Has(Rest, "openedBelow") /\ ~Has(Rest, "notOpenedBelow")
      /\ \A o : o # "closes" => (Has(stack, o) <=> Has(Rest, o))
  BY <1>1 DEF Popped
<1>4. /\ tlsio_state' \in {tlsio_state, "NOT_OPEN"} /\ under' = "closed" /\ inbound' = <<>>
      /\ ssl' \in BOOLEAN /\ flight' \in 0 .. 3 /\ on_io_close_complete' \in BOOLEAN
      /\ in_bio' \in Seq(Token) /\ out_bio' \in Seq(Token)
      /\ Stacked(stack') /\ Flowing'
  <2>1. TypeOK /\ Stacked(stack) /\ Flowing /\ UNCHANGED dataHistory
    BY DEF IInv, Closes, history
  <2>2. QED
    BY <1>2, <1>3, <2>1, CloseNowKeeps
<1>5. TypeOK'
  BY <1>4 DEF IInv, TypeOK, Closes, history, openHistory, dataHistory
<1>6. ASSUME Norm' PROVE (AnswersFit /\ UnderFits /\ SslFits)'
  <2>0. AnswersFit /\ UnderFits /\ SslFits /\ Has(stack, "closes")
    <3>1. Norm
      BY <1>6 DEF Closes, Norm, Running, Alive, history
    <3>2. QED
      BY <1>1, <3>1 DEF IInv, Popped
  <2>1. ClosesOpening(Rest) \/ ClosesOther(Rest)
    <3>1. ClosesOpen(Rest) \/ ClosesOpening(Rest) \/ ClosesOther(Rest)
      BY <1>2, <1>3, CloseNowEnds
    <3>2. tlsio_state # "OPEN"
      BY <2>0 DEF AnswersFit, Closing, Opening
    <3>3. QED
      BY <3>1, <3>2 DEF ClosesOpen
  <2>2. UNCHANGED <<answers, returned, oddity>>
    BY DEF Closes, history, openHistory
  <2>3. AnswersFit'
    BY <1>1, <2>0, <2>1, <2>2 DEF AnswersFit, Closing, ClosesOpening, ClosesOther, PushedTwo, Popped, Opening
  <2>4. UnderFits'
    BY <1>1, <1>4, <2>0, <2>1, <2>2 DEF UnderFits, Ending, ClosesOpening, ClosesOther, PushedTwo, Popped, Opening, Up
  <2>5. SslFits'
    BY <1>1, <2>0, <2>1, <2>2 DEF SslFits, Ending, ClosesOpening, ClosesOther, PushedTwo, Popped,
      Opening, Up, CloseOpensslInstance, sslVars
  <2>6. QED
    BY <2>3, <2>4, <2>5
<1>7. QED
  BY <1>4, <1>5, <1>6 DEF IInv

LEMMA Answered ==
  ASSUME TypeOK, NEW x \in {"OK", "ERROR", "CANCELLED"}
  PROVE  /\ Append(answers, x) \in Seq({"OK", "ERROR", "CANCELLED"})
         /\ Append(answers, x) # <<>>
         /\ answers = <<>> => Append(answers, x) = <<x>> /\ Len(Append(answers, x)) = 1
         /\ Len(<<>>) = 0 /\ Len(answers) \in Nat
<1>1. answers \in Seq({"OK", "ERROR", "CANCELLED"})
  BY DEF TypeOK
<1>2. Append(answers, x) \in Seq({"OK", "ERROR", "CANCELLED"}) /\ Append(answers, x) # <<>>
  BY <1>1
<1>3. Append(<<>>, x) = <<x>> /\ Len(<<x>>) = 1 /\ Len(<<>>) = 0
  OBVIOUS
<1>4. Len(answers) \in Nat
  BY <1>1
<1>5. answers = <<>> => Append(answers, x) = <<x>> /\ Len(Append(answers, x)) = 1
  BY <1>3, Zenon
<1>6. QED
  BY <1>2, <1>3, <1>4, <1>5, Zenon

LEMMA CloseKeeps ==
  ASSUME IInv, Close
  PROVE  IInv'
<1>1. /\ Stacked(stack) /\ ~Has(stack, "openedBelow") /\ ~Has(stack, "notOpenedBelow")
  BY UsersStack DEF Close
<1>a. Norm' => Norm
  BY DEF Close, Norm, Alive, InUser
<1>2. CASE tlsio_state \in Opening
  <2>1. PICK callback \in BOOLEAN :
          /\ answers' = Append(answers, "CANCELLED")
          /\ stack' = User("open") \o Frame("closes", IF callback THEN "callback" ELSE "none")
                        \o stack
          /\ oddity' = oddity \cup (IF answers = <<>> THEN {} ELSE {"answeredTwice"})
          /\ UNCHANGED <<tlsVars, under, inbound>>
    BY <1>2 DEF Close
  <2>2. PushedTwo(stack, stack', "user", "closes")
    <3>1. /\ "open" \in Events /\ (IF callback THEN "callback" ELSE "none") \in Events
          /\ "user" \in Ops /\ "closes" \in Ops
      BY DEF Events, Ops
    <3>2. QED
      BY <1>1, <2>1, <3>1, TwoPushed DEF User
  <2>3. UNCHANGED <<tlsVars, ioVars, failures, opens, returned, dataHistory>>
    BY <2>1 DEF Close, ioVars
  <2>4. answers' \in Seq({"OK", "ERROR", "CANCELLED"}) /\ answers' # <<>>
        /\ (answers = <<>> => Len(answers') = 1)
    BY <2>1, Answered DEF IInv
  <2>5. TypeOK'
    BY <2>1, <2>3, <2>4 DEF IInv, TypeOK, tlsVars, sslVars, ioVars, dataHistory
  <2>6. FlowKept
    BY <2>2, <2>3 DEF FlowKept, PushedTwo, tlsVars, sslVars, ioVars, dataHistory
  <2>7. Flowing'
    BY <2>6, FlowsOn DEF IInv
  <2>8. ASSUME Norm' PROVE (AnswersFit /\ UnderFits /\ SslFits)'
    <3>0. AnswersFit /\ UnderFits /\ SslFits /\ UNCHANGED <<tlsio_state, under, ssl, returned>>
      BY <1>a, <2>3, <2>8 DEF IInv, tlsVars, sslVars, ioVars
    <3>1. AnswersFit'
      <4>1. /\ Closing' /\ (Has(stack', "openFails") <=> Has(stack, "openFails"))
            /\ Has(stack', "decode") <=> Has(stack, "decode")
        BY <2>2 DEF Closing, PushedTwo
      <4>2. Len(answers') = 1 \/ "answeredTwice" \in oddity'
        BY <2>1, <2>4
      <4>3. "notAnswered" \notin oddity'
        BY <1>2, <2>1, <3>0 DEF AnswersFit, Opening
      <4>4. QED
        BY <1>2, <2>4, <3>0, <4>1, <4>2, <4>3 DEF AnswersFit, Opening
    <3>2. UnderFits'
      BY <1>1, <1>2, <2>1, <2>2, <3>0 DEF UnderFits, Ending, PushedTwo, Opening, Up
    <3>3. SslFits'
      BY <1>2, <2>1, <2>2, <3>0 DEF SslFits, Ending, PushedTwo, Opening, Up
    <3>4. QED
      BY <3>1, <3>2, <3>3
  <2>9. QED
    BY <2>2, <2>5, <2>7, <2>8 DEF IInv, PushedTwo
<1>3. CASE tlsio_state \notin Opening
  <2>1. PICK callback \in BOOLEAN : CloseNow(callback, stack)
    BY <1>3 DEF Close
  <2>2. /\ oddity' = (oddity \ {"failedOpening"}) \cup
               (IF tlsio_state = "HANDSHAKE_FAILED" THEN {"notAnswered"} ELSE {})
        /\ UNCHANGED <<io, failures, opens, returned, answers, dataHistory>>
    BY <1>3 DEF Close
  <2>3. /\ tlsio_state' \in {tlsio_state, "NOT_OPEN"} /\ under' = "closed" /\ inbound' = <<>>
        /\ ssl' \in BOOLEAN /\ flight' \in 0 .. 3 /\ on_io_close_complete' \in BOOLEAN
        /\ in_bio' \in Seq(Token) /\ out_bio' \in Seq(Token)
        /\ Stacked(stack') /\ Flowing'
    BY <1>1, <2>1, <2>2, CloseNowKeeps DEF IInv
  <2>4. TypeOK'
    BY <2>2, <2>3 DEF IInv, TypeOK, dataHistory
  <2>5. ASSUME Norm' PROVE (AnswersFit /\ UnderFits /\ SslFits)'
    <3>0. AnswersFit /\ UnderFits /\ SslFits /\ TypeOK
      BY <1>a, <2>5 DEF IInv
    <3>1. ClosesOpen(stack) \/ ClosesOther(stack)
      <4>1. ClosesOpen(stack) \/ ClosesOpening(stack) \/ ClosesOther(stack)
        BY <1>1, <2>1, CloseNowEnds
      <4>2. under # "opening"
        BY <1>3, <3>0 DEF UnderFits, Opening
      <4>3. QED
        BY <4>1, <4>2 DEF ClosesOpening
    <3>2. tlsio_state' = "NOT_OPEN" /\ ~Has(stack', "openedBelow") /\ ~Has(stack', "notOpenedBelow")
      BY <1>1, <3>1 DEF ClosesOpen, ClosesOther, Pushed, PushedTwo
    <3>3. AnswersFit'
      <4>1. tlsio_state \in {"HANDSHAKE_FAILED", "OPEN", "NOT_OPEN", "ERROR"}
        BY <1>3, <3>0 DEF TypeOK, Opening
      <4>2. Closing' <=> Closing
        BY <3>1 DEF Closing, ClosesOpen, ClosesOther, Pushed, PushedTwo
      <4>3. /\ Has(stack', "openFails") <=> Has(stack, "openFails")
            /\ Has(stack', "decode") <=> Has(stack, "decode")
        BY <3>1 DEF ClosesOpen, ClosesOther, Pushed, PushedTwo
      <4>4. tlsio_state = "OPEN" => answers = <<"OK">> /\ answers # <<>>
        BY <3>0 DEF AnswersFit
      <4>5. QED
        BY <2>2, <3>0, <3>2, <4>1, <4>2, <4>3, <4>4 DEF AnswersFit, Opening
    <3>4. UnderFits'
      BY <2>2, <2>3, <3>0, <3>1, <3>2 DEF UnderFits, Up, Opening
    <3>5. SslFits'
      BY <3>0, <3>1, <3>2 DEF SslFits, Ending, ClosesOpen, ClosesOther, Pushed, PushedTwo,
        Up, Opening, CloseOpensslInstance, sslVars
    <3>6. QED
      BY <3>3, <3>4, <3>5
  <2>6. QED
    BY <2>3, <2>4, <2>5 DEF IInv
<1>4. QED
  BY <1>2, <1>3

-------------------------------------------------------------------------------
(* The open.                                                                *)
LEMMA FlowsAnew ==
  ASSUME ssl' = TRUE, flight' = 0, in_bio' = <<>>, out_bio' = <<>>,
         ForgetConnection, tlsio_state' = "OPENING_UNDERLYING_IO",
         inbound' = <<>> \/ Has(stack', "openFails")
  PROVE  Flowing'
<1>1. /\ written' = 0 /\ wire' = <<>> /\ delivered' = <<>>
  BY DEF ForgetConnection
<1>2. Ahead'
  <2>1. Coming(0, <<>>, 0) /\ Going(0, <<>>, <<>>)
    BY DEF Coming, Going, Handshakes, ToSet
  <2>2. Len(<<>>) = 0 /\ <<>> \o <<>> = <<>>
    OBVIOUS
  <2>3. ASSUME ~Has(stack', "openFails")
        PROVE  /\ Coming(flight', in_bio' \o inbound', Len(delivered'))
               /\ Going(flight', in_bio' \o inbound', out_bio')
    BY <1>1, <2>1, <2>2, <2>3
  <2>4. QED
    BY <2>3 DEF Ahead
<1>3. InOrder'
  BY <1>1 DEF InOrder
<1>4. NotBegun' /\ Established' /\ Drained' /\ Decodes'
  BY DEF NotBegun, Established, Drained, Decodes
<1>5. OnItsWay'
  <2>1. Sound(wire' \o out_bio', written')
    <3>1. <<>> \o <<>> = <<>>
      OBVIOUS
    <3>2. QED
      BY <1>1, <3>1, SoundEmpty
  <2>2. QED
    BY <2>1 DEF OnItsWay
<1>6. QED
  BY <1>2, <1>3, <1>4, <1>5 DEF Flowing

OpenFailsBefore ==
  /\ failures < MaxFailures /\ failures' = failures + 1
  /\ returned' = "failed"
  /\ UNCHANGED <<tlsVars, stack, under, inbound, dataHistory>>
OpenBegins ==
  /\ ForgetConnection /\ CreateOpensslInstance
  /\ tlsio_state' = "OPENING_UNDERLYING_IO"
  /\ UNCHANGED <<on_io_close_complete, failures>>
  /\ \/ /\ under = "closed" /\ returned' = "ok" /\ inbound' = <<>>
        /\ \/ under' = "open" /\ Pushed(stack, stack', "openedBelow")
           \/ under' = "opening" /\ stack' = stack
     \/ /\ returned' = "failed" /\ UNCHANGED <<under, inbound>>
        /\ \/ PushedTwo(stack, stack', "notOpenedBelow", "openFails")
           \/ Pushed(stack, stack', "openFails")

LEMMA OpenSplits ==
  ASSUME IInv, Open
  PROVE  OpenFailsBefore \/ OpenBegins
<1>1. /\ Stacked(stack) /\ ~Has(stack, "openedBelow") /\ ~Has(stack, "notOpenedBelow")
  BY UsersStack DEF Open
<1>2. /\ "none" \in Events /\ "openedBelow" \in Ops /\ "notOpenedBelow" \in Ops
      /\ "openFails" \in Ops
  BY DEF Events, Ops
<1>3. /\ Pushed(stack, Call("openedBelow") \o stack, "openedBelow")
      /\ Pushed(stack, Call("openFails") \o stack, "openFails")
  BY <1>1, <1>2, CallPushed
<1>4. PushedTwo(stack, Call("notOpenedBelow") \o Call("openFails") \o stack,
                "notOpenedBelow", "openFails")
  BY <1>1, <1>2, TwoPushed DEF Call
<1>5. QED
  BY <1>3, <1>4 DEF Open, OpenFailsBefore, OpenBegins

LEMMA OpenKeeps ==
  ASSUME IInv, Open
  PROVE  IInv'
<1>0. /\ tlsio_state = "NOT_OPEN" /\ opens < MaxOpens /\ opens' = opens + 1
      /\ answers' = <<>> /\ io' = io /\ Alive
      /\ oddity' = (IF returned' = "ok" THEN {} ELSE oddity \cap {"failedOpening", "reopened"})
                    \cup (IF stack = <<>> THEN {} ELSE {"reopened"})
  BY DEF Open, InUser
<1>a. opens' \in 0 .. MaxOpens
  BY <1>0, TlsAssumption DEF IInv, TypeOK, TlsAssumption
<1>b. Stacked(stack) /\ ~Has(stack, "openedBelow") /\ ~Has(stack, "notOpenedBelow")
  BY UsersStack DEF Open
<1>c. Norm' => stack = <<>> /\ \A o : ~Has(stack, o)
  BY <1>0, HasNothing DEF Norm
<1>d. oddity' \subseteq {"failedOpening", "reopened"}
  BY <1>0
<1>e. <<>> \in Seq({"OK", "ERROR", "CANCELLED"}) /\ <<>> \in Seq(Token)
      /\ <<>> \in Seq(1 .. Records) /\ Len(<<>>) = 0
  OBVIOUS
<1>1. CASE OpenFailsBefore
  <2>1. failures' \in 0 .. MaxFailures
    BY <1>1, TlsAssumption DEF IInv, TypeOK, TlsAssumption, OpenFailsBefore
  <2>2. TypeOK'
    BY <1>0, <1>1, <1>a, <1>d, <1>e, <2>1 DEF IInv, TypeOK, OpenFailsBefore, tlsVars, sslVars, dataHistory
  <2>3. FlowKept
    BY <1>1 DEF OpenFailsBefore, FlowKept, tlsVars, sslVars, dataHistory
  <2>4. Flowing'
    BY <2>3, FlowsOn DEF IInv
  <2>5. ASSUME Norm' PROVE (AnswersFit /\ UnderFits /\ SslFits)'
    <3>0. AnswersFit /\ UnderFits /\ SslFits
      BY <1>0, <1>1, <2>5 DEF IInv, Norm, OpenFailsBefore
    <3>1. /\ stack' = stack /\ \A o : ~Has(stack, o)
          /\ UNCHANGED <<tlsio_state, ssl, under>> /\ returned' = "failed"
      BY <1>1, <1>c, <2>5 DEF OpenFailsBefore, tlsVars, sslVars
    <3>2. AnswersFit'
      BY <1>0, <1>d, <1>e, <3>1 DEF AnswersFit, Closing, Opening
    <3>3. UnderFits'
      BY <1>0, <3>0, <3>1 DEF UnderFits, Up, Opening
    <3>4. SslFits'
      BY <1>0, <3>0, <3>1 DEF SslFits, Ending, Up, Opening
    <3>5. QED
      BY <3>2, <3>3, <3>4
  <2>6. QED
    BY <1>1, <2>2, <2>4, <2>5 DEF IInv, OpenFailsBefore
<1>2. CASE OpenBegins
  <2>1. /\ written' = 0 /\ wire' = <<>> /\ lost' = FALSE /\ delivered' = <<>> /\ early' = FALSE
        /\ ssl' = TRUE /\ flight' = 0 /\ in_bio' = <<>> /\ out_bio' = <<>>
        /\ tlsio_state' = "OPENING_UNDERLYING_IO"
        /\ UNCHANGED <<on_io_close_complete, failures>>
    BY <1>2 DEF OpenBegins, ForgetConnection, CreateOpensslInstance
  <2>2. Stacked(stack') /\ (inbound' = <<>> \/ Has(stack', "openFails"))
    BY <1>2, <1>b DEF OpenBegins, Pushed, PushedTwo
  <2>3. TypeOK'
    <3>1. /\ under' \in {"closed", "opening", "open", "failed"} /\ inbound' \in Seq(Token)
          /\ returned' \in {"none", "ok", "failed"}
      BY <1>2, <1>e DEF IInv, TypeOK, OpenBegins
    <3>2. 0 \in 0 .. Sends /\ 0 \in 0 .. 3
      BY TlsAssumption DEF TlsAssumption
    <3>3. tlsio_state' \in Opening
      BY <2>1 DEF Opening
    <3>4. TypeOK
      BY DEF IInv
    <3>5. QED
      BY <1>0, <1>a, <1>d, <1>e, <2>1, <3>1, <3>2, <3>3, <3>4 DEF TypeOK
  <2>4. Flowing'
    BY <1>2, <2>1, <2>2, FlowsAnew DEF OpenBegins
  <2>5. ASSUME Norm' PROVE (AnswersFit /\ UnderFits /\ SslFits)'
    <3>0. returned' = "failed" => UnderFits
      BY <1>0, <2>5 DEF IInv, Norm
    <3>1. \A o : ~Has(stack, o)
      BY <1>c, <2>5
    <3>2. \/ /\ returned' = "ok" /\ oddity' = {}
             /\ \/ under' = "open" /\ \A o : Has(stack', o) <=> o = "openedBelow"
                \/ under' = "opening" /\ \A o : ~Has(stack', o)
          \/ /\ returned' = "failed" /\ under' # "opening"
             /\ "failedOpening" \notin oddity' => under' = "closed"
             /\ \/ \A o : Has(stack', o) <=> o \in {"notOpenedBelow", "openFails"}
                \/ \A o : Has(stack', o) <=> o = "openFails"
      <4>1. CASE returned' = "ok"
        BY <1>0, <1>2, <1>c, <2>5, <3>1, <4>1 DEF OpenBegins, Pushed
      <4>2. CASE returned' # "ok"
        <5>1. /\ returned' = "failed" /\ under' = under
              /\ \/ PushedTwo(stack, stack', "notOpenedBelow", "openFails")
                 \/ Pushed(stack, stack', "openFails")
          BY <1>2, <4>2 DEF OpenBegins
        <5>2. /\ under # "opening" /\ ("failedOpening" \notin oddity => under = "closed")
          BY <1>0, <3>0, <5>1 DEF UnderFits
        <5>3. "failedOpening" \in oddity => "failedOpening" \in oddity'
          BY <1>0, <4>2
        <5>4. QED
          BY <3>1, <5>1, <5>2, <5>3 DEF Pushed, PushedTwo
      <4>3. QED
        BY <4>1, <4>2
    <3>3. AnswersFit'
      BY <1>0, <1>d, <1>e, <2>1, <3>2 DEF AnswersFit, Closing, Opening
    <3>4. UnderFits'
      BY <1>0, <2>1, <3>2 DEF UnderFits, Ending, Up, Opening
    <3>5. SslFits'
      BY <2>1, <3>2 DEF SslFits, Ending, Up, Opening
    <3>6. QED
      BY <3>3, <3>4, <3>5
  <2>6. QED
    BY <2>2, <2>3, <2>4, <2>5 DEF IInv
<1>3. QED
  BY <1>1, <1>2, OpenSplits

-------------------------------------------------------------------------------
(* What is written.                                                         *)
LEMMA FlowsWritten ==
  ASSUME TypeOK, Flowing, NEW u, NEW bytes \in Seq(Token), NEW w \in WriteOutgoingBytes(u, bytes),
         Sent(w, inbound),
         UNCHANGED <<tlsio_state, ssl, flight, in_bio, delivered, early>>,
         Handshakes(bytes) => Handshakes(out_bio),
         \A n \in 1 .. 2 : Flight(n) \in ToSet(bytes) => Flight(n) \in ToSet(out_bio),
         ssl /\ flight = 0 => bytes = <<>>,
         ssl /\ ~lost => Sound(wire \o bytes, written'),
         Has(stack', "openFails") <=> Has(stack, "openFails"),
         Has(stack', "decode") <=> Has(stack, "decode")
  PROVE  SentTypes /\ Flowing'
<1>0. /\ in_bio \in Seq(Token) /\ inbound \in Seq(Token) /\ flight \in 0 .. 3
      /\ Len(delivered) \in Nat /\ lost \in BOOLEAN
  BY DEF TypeOK
<1>1. /\ w \in Outcomes
      /\ ~w.lost => ~lost /\ w.wire \o w.out = wire \o bytes
      /\ w.out = <<>> \/ w.out = bytes
  BY WriteOutcome
<1>2. /\ out_bio' = w.out /\ wire' = w.wire /\ lost' = w.lost /\ failures' = w.failures
      /\ inbound' = inbound \o w.answer
  BY DEF Sent
<1>3. /\ w.out \in Seq(Token) /\ w.wire \in Seq(Token) /\ w.lost \in BOOLEAN
      /\ w.failures \in 0 .. MaxFailures /\ w.answer \in Seq(Token)
  BY <1>1 DEF Outcomes
<1>4. SentTypes
  BY <1>0, <1>2, <1>3, ConcatProperties DEF SentTypes
<1>5. Ahead'
  <2>1. SUFFICES ASSUME ssl, tlsio_state # "ERROR", ~Has(stack, "openFails")
                 PROVE  /\ Coming(flight, in_bio \o inbound', Len(delivered))
                        /\ Going(flight, in_bio \o inbound', out_bio')
    BY DEF Ahead
  <2>2. /\ Coming(flight, in_bio \o inbound, Len(delivered))
        /\ Going(flight, in_bio \o inbound, out_bio)
    BY <2>1 DEF Flowing, Ahead
  <2>3. Going(flight, in_bio \o inbound, bytes)
    BY <2>2 DEF Going
  <2>4. in_bio \o inbound \in Seq(Token)
        /\ in_bio \o (inbound \o w.answer) = (in_bio \o inbound) \o w.answer
    <3>1. in_bio \o inbound \in Seq(Token)
      BY <1>0, ConcatProperties
    <3>2. (in_bio \o inbound) \o w.answer = in_bio \o (inbound \o w.answer)
      <4> DEFINE c == w.answer
      <4>1. c \in Seq(Token)
        BY <1>3
      <4> HIDE DEF c
      <4>2. (in_bio \o inbound) \o c = in_bio \o (inbound \o c)
        BY <1>0, <4>1, ConcatAssociative
      <4>3. QED
        BY <4>2 DEF c
    <3>3. QED
      BY <3>1, <3>2
  <2>5. /\ Coming(flight, (in_bio \o inbound) \o w.answer, Len(delivered))
        /\ Going(flight, (in_bio \o inbound) \o w.answer, w.out)
    BY <1>0, <2>2, <2>3, <2>4, WriteCarries
  <2>6. QED
    BY <1>2, <2>4, <2>5
<1>6. InOrder' /\ Established' /\ Decodes'
  BY DEF Flowing, InOrder, Established, Decodes
<1>7. NotBegun'
  BY <1>1, <1>2 DEF NotBegun
<1>8. Drained'
  BY DEF Flowing, Drained, RecordReady
<1>9. OnItsWay'
  BY <1>1, <1>2 DEF OnItsWay
<1>10. QED
  BY <1>4, <1>5, <1>6, <1>7, <1>8, <1>9 DEF Flowing

LEMMA SendKeeps ==
  ASSUME IInv, Send
  PROVE  IInv'
<1> DEFINE bytes == Append(out_bio, Rec(written + 1))
<1>0. /\ out_bio \in Seq(Token) /\ wire \in Seq(Token) /\ written \in Nat /\ written' = written + 1
      /\ Rec(written + 1) \in Token /\ TypeOK /\ Flowing
  BY Tokens, TlsAssumption DEF IInv, TypeOK, Send, TlsAssumption
<1>1. PICK w \in WriteOutgoingBytes(under, bytes) : Sent(w, inbound)
  BY <1>0 DEF Send
<1>2. bytes \in Seq(Token) /\ wire \o bytes = Append(wire \o out_bio, Rec(written + 1))
      /\ wire \o out_bio \in Seq(Token)
  BY <1>0, AppendMoves
<1>3. /\ \A i \in DOMAIN bytes : bytes[i].t = "hs" => i \in DOMAIN out_bio /\ bytes[i] = out_bio[i]
  <2>1. ASSUME NEW i \in DOMAIN bytes, bytes[i].t = "hs"
        PROVE  i \in DOMAIN out_bio /\ bytes[i] = out_bio[i]
    <3>1. i \in 1 .. Len(out_bio) + 1
      BY <1>0
    <3>2. i = Len(out_bio) + 1 => bytes[i] = Rec(written + 1)
      BY <1>0
    <3>3. i # Len(out_bio) + 1
      BY <2>1, <3>2 DEF Rec
    <3>4. QED
      BY <1>0, <3>1, <3>3
  <2>2. QED
    BY <2>1
<1>4. Handshakes(bytes) => Handshakes(out_bio)
  BY <1>3 DEF Handshakes
<1>5. \A n \in 1 .. 2 : Flight(n) \in ToSet(bytes) => Flight(n) \in ToSet(out_bio)
  BY <1>3 DEF ToSet, Flight
<1> HIDE DEF bytes
<1>6. ssl /\ flight # 0
  BY <1>0 DEF Send, Flowing, Established
<1>7. ~lost => Sound(wire \o bytes, written')
  <2>1. ASSUME ~lost PROVE Sound(Append(wire \o out_bio, Rec(written + 1)), written + 1)
    <3>1. Sound(wire \o out_bio, written)
      BY <1>0, <1>6, <2>1 DEF Flowing, OnItsWay
    <3>2. QED
      BY <1>0, <1>2, <3>1, SoundAppend
  <2>2. QED
    BY <1>0, <1>2, <2>1
<1>8. UNCHANGED <<tlsio_state, ssl, flight, in_bio, on_io_close_complete, stack, io, under,
                  openHistory, delivered, early, oddity>>
  BY DEF Send
<1>9. SentTypes /\ Flowing'
  BY <1>0, <1>1, <1>2, <1>4, <1>5, <1>6, <1>7, <1>8, FlowsWritten
<1>10. TypeOK'
  <2>1. written' \in 0 .. Sends
    BY <1>0, TlsAssumption DEF Send, TypeOK, TlsAssumption
  <2>2. QED
    BY <1>0, <1>8, <1>9, <2>1 DEF TypeOK, SentTypes, openHistory
<1>11. ASSUME Norm' PROVE NormFits'
  <2>1. NormFits
    BY <1>8, <1>11 DEF IInv, Norm, Alive, NormFits
  <2>2. QED
    BY <1>8, <2>1, NormOn DEF openHistory
<1>12. QED
  BY <1>8, <1>9, <1>10, <1>11 DEF IInv, NormFits

LEMMA DoWorkKeeps ==
  ASSUME IInv, DoWork
  PROVE  IInv'
<1>0. /\ Alive /\ stack = <<>> /\ tlsio_state # "NOT_OPEN" /\ TypeOK /\ Flowing
      /\ UNCHANGED <<tlsio_state, ssl, flight, in_bio, on_io_close_complete, io, under,
                     openHistory, written, delivered, early>>
      /\ out_bio \in Seq(Token) /\ \A o : ~Has(stack, o)
  BY HasNothing DEF IInv, DoWork, TypeOK
<1>a. /\ Stacked(Call("pump")) /\ \A o : Has(Call("pump"), o) <=> o = "pump"
  <2>1. "pump" \in Ops /\ "none" \in Events
    BY DEF Ops, Events
  <2>2. Fits([op |-> "pump", ev |-> "none"], <<>>)
    BY HasNothing DEF Fits
  <2>3. /\ Stacked(Frame("pump", "none") \o <<>>)
        /\ \A o : Has(Frame("pump", "none") \o <<>>, o) <=> o = "pump" \/ Has(<<>>, o)
    BY <2>1, <2>2, HasNothing, PushFrame
  <2>4. Frame("pump", "none") \o <<>> = Call("pump")
    BY DEF Frame, Call
  <2>5. QED
    BY <2>3, <2>4, HasNothing
<1>1. CASE ssl /\ tlsio_state \in Opening \cup {"OPEN"}
  <2>1. PICK w \in WriteOutgoingBytes(under, out_bio) : Sent(w, inbound)
    BY <1>1 DEF DoWork
  <2>2. stack' = Call("pump") /\ oddity' = oddity
    BY <1>1 DEF DoWork
  <2>3. /\ Has(stack', "openFails") <=> Has(stack, "openFails")
        /\ Has(stack', "decode") <=> Has(stack, "decode")
    BY <1>0, <1>a, <2>2
  <2>4. (flight = 0 => out_bio = <<>>) /\ (~lost => Sound(wire \o out_bio, written'))
    BY <1>0, <1>1 DEF Flowing, NotBegun, OnItsWay
  <2>5. SentTypes /\ Flowing'
    BY <1>0, <2>1, <2>3, <2>4, FlowsWritten
  <2>6. TypeOK'
    BY <1>0, <2>2, <2>5 DEF TypeOK, SentTypes, openHistory
  <2>7. ASSUME Norm' PROVE NormFits'
    <3>1. NormFits
      BY <1>0, <2>2, <2>7 DEF IInv, Norm, NormFits
    <3>2. QED
      BY <1>0, <1>a, <2>2, <3>1, NormOn DEF openHistory
  <2>8. QED
    BY <1>a, <2>2, <2>5, <2>6, <2>7 DEF IInv, NormFits
<1>2. CASE ~ssl /\ tlsio_state \in Opening \cup {"OPEN"}
  <2>1. Odd("freedBio") /\ UNCHANGED <<stack, out_bio, wire, lost, failures, inbound>>
    BY <1>2 DEF DoWork
  <2>2. TypeOK'
    BY <1>0, <2>1 DEF TypeOK, Odd, openHistory
  <2>3. FlowKept
    BY <1>0, <2>1 DEF FlowKept
  <2>4. Flowing'
    BY <1>0, <2>3, FlowsOn
  <2>5. ~Norm'
    BY <2>1 DEF Norm, Alive, Odd
  <2>6. QED
    BY <2>1, <2>2, <2>4, <2>5 DEF IInv
<1>3. CASE tlsio_state \notin Opening \cup {"OPEN"}
  <2>1. stack' = Call("pump") /\ UNCHANGED <<out_bio, wire, lost, failures, inbound, oddity>>
    BY <1>3 DEF DoWork
  <2>2. TypeOK'
    BY <1>0, <2>1 DEF TypeOK, openHistory
  <2>3. FlowKept
    BY <1>0, <1>a, <2>1 DEF FlowKept
  <2>4. Flowing'
    BY <1>0, <2>3, FlowsOn
  <2>5. ASSUME Norm' PROVE NormFits'
    <3>1. NormFits
      BY <1>0, <2>1, <2>5 DEF IInv, Norm, NormFits
    <3>2. QED
      BY <1>0, <1>a, <2>1, <3>1, NormOn DEF openHistory
  <2>6. QED
    BY <1>a, <2>1, <2>2, <2>4, <2>5 DEF IInv, NormFits
<1>4. QED
  BY <1>1, <1>2, <1>3

LEMMA DestroyKeeps ==
  ASSUME IInv, Destroy
  PROVE  IInv'
<1>1. /\ Stacked(Call("destroyed")) /\ \A o : Has(Call("destroyed"), o) <=> o = "destroyed"
  <2>1. "destroyed" \in Ops
    BY DEF Ops
  <2>2. Pushed(<<>>, Call("destroyed") \o <<>>, "destroyed")
    BY <2>1, HasNothing, CallPushed
  <2>3. Call("destroyed") \o <<>> = Call("destroyed")
    BY DEF Frame, Call
  <2>4. QED
    BY <2>2, <2>3, HasNothing DEF Pushed
<1>2. Flowing'
  BY <1>1, FlowsNoMore DEF IInv, Destroy, CloseOpensslInstance, history, dataHistory
<1>3. TypeOK'
  <2>1. <<>> \in Seq(Token) /\ 0 \in 0 .. 3
    OBVIOUS
  <2>2. QED
    BY <2>1 DEF IInv, TypeOK, Destroy, CloseOpensslInstance, history, openHistory, dataHistory
<1>4. ~Norm' /\ Stacked(stack')
  BY <1>1 DEF Norm, Alive, Destroy
<1>5. QED
  BY <1>2, <1>3, <1>4 DEF IInv

-------------------------------------------------------------------------------
(* What runs when a callback returns.                                       *)
LEMMA NotOpenedBelowKeeps ==
  ASSUME IInv, NotOpenedBelow
  PROVE  IInv'
<1>0. /\ Running /\ stack[1].op = "notOpenedBelow" /\ TypeOK /\ Flowing
      /\ UNCHANGED <<sslVars, on_io_close_complete, ioVars, failures, opens, returned, dataHistory>>
  BY DEF NotOpenedBelow, Top, IInv
<1>1. Popped(stack, Rest, "notOpenedBelow")
  BY <1>0, PopTop DEF IInv, Running, Rest
<1>2. CASE /\ tlsio_state # "OPENING_UNDERLYING_IO"
           /\ stack' = Rest
           /\ UNCHANGED <<tlsio_state, answers, oddity>>
  BY <1>0, <1>2, PopKeeps DEF tlsVars, history, openHistory
<1>3. CASE /\ tlsio_state = "OPENING_UNDERLYING_IO"
           /\ tlsio_state' = "NOT_OPEN"
           /\ IndicateOpenComplete("ERROR", Rest)
           /\ oddity' = oddity \cup (IF answers = <<>> THEN {} ELSE {"answeredTwice"})
  <2>1. answers' = Append(answers, "ERROR") /\ stack' = User("open") \o Rest
    BY <1>3 DEF IndicateOpenComplete
  <2>2. /\ answers' \in Seq({"OK", "ERROR", "CANCELLED"}) /\ answers' # <<>>
        /\ (answers = <<>> => Len(answers') = 1)
    BY <1>0, <2>1, Answered
  <2>3. Pushed(Rest, stack', "user")
    <3>1. "open" \in Events
      BY DEF Events
    <3>2. QED
      BY <1>1, <2>1, <3>1, UserPushed DEF Popped
  <2>4. \A o : o # "user" => (Has(stack', o) <=> Has(stack, o) /\ o # "notOpenedBelow")
    BY <1>1, <2>3 DEF Popped, Pushed
  <2>5. TypeOK'
    BY <1>0, <1>3, <2>2 DEF TypeOK, sslVars, ioVars, dataHistory
  <2>6. FlowKept
    BY <1>0, <1>3, <2>4 DEF FlowKept, sslVars, ioVars, dataHistory
  <2>7. Flowing'
    BY <1>0, <2>6, FlowsOn
  <2>8. ASSUME Norm' PROVE NormFits'
    <3>0. NormFits /\ UNCHANGED <<under, ssl, returned>>
      BY <1>0, <1>3, <2>8 DEF IInv, Norm, Running, Alive, NormFits, sslVars, ioVars
    <3>1. "notAnswered" \notin oddity'
      BY <1>3, <3>0 DEF NormFits, AnswersFit
    <3>2. Len(answers') = 1 \/ "answeredTwice" \in oddity'
      <4>1. answers = <<>> => Len(answers') = 1
        BY <2>2, Zenon
      <4>2. answers # <<>> => "answeredTwice" \in oddity'
        BY <1>3
      <4>3. QED
        BY <4>1, <4>2
    <3>3. AnswersFit'
      BY <1>3, <2>2, <2>4, <3>0, <3>1, <3>2 DEF NormFits, AnswersFit, Closing, Opening
    <3>4. UnderFits'
      BY <1>0, <1>1, <1>3, <2>4, <3>0 DEF NormFits, UnderFits, Ending, Up, Opening, Popped
    <3>5. SslFits'
      <4>1. Ending' <=> Ending
        BY <2>4 DEF Ending
      <4>2. Has(stack, "notOpenedBelow")
        BY <1>1 DEF Popped
      <4>3. Ending \/ "failedOpening" \in oddity'
        BY <1>3, <3>0, <4>2 DEF NormFits, UnderFits
      <4>4. QED
        BY <1>3, <2>4, <3>0, <4>1, <4>3 DEF NormFits, SslFits, Up, Opening
    <3>6. QED
      BY <3>3, <3>4, <3>5 DEF NormFits
  <2>9. QED
    BY <2>3, <2>5, <2>7, <2>8 DEF IInv, NormFits, Pushed
<1>4. QED
  BY <1>2, <1>3 DEF NotOpenedBelow

LEMMA FreesSslKeeps ==
  ASSUME IInv, FreesSsl
  PROVE  IInv'
<1>0. /\ Running /\ stack[1].op \in {"openFails", "forced", "freeSsl"}
      /\ tlsio_state' = (IF stack[1].op = "freeSsl" THEN tlsio_state ELSE "NOT_OPEN")
      /\ ssl' = FALSE /\ flight' = 0 /\ in_bio' = <<>> /\ out_bio' = <<>> /\ stack' = Rest
      /\ UNCHANGED <<on_io_close_complete, ioVars, failures, history>>
      /\ TypeOK /\ Flowing
  BY DEF FreesSsl, Top, IInv, CloseOpensslInstance
<1>1. Popped(stack, stack', stack[1].op)
  BY <1>0, PopTop DEF IInv, Running, Rest
<1>2. TypeOK'
  <2>1. <<>> \in Seq(Token) /\ 0 \in 0 .. 3
    OBVIOUS
  <2>2. QED
    BY <1>0, <2>1 DEF TypeOK, ioVars, history, openHistory, dataHistory
<1>3. Flowing'
  <2>1. Has(stack', "decode") => tlsio_state' # "ERROR"
    BY <1>0, <1>1 DEF Flowing, Decodes, Popped
  <2>2. QED
    BY <1>0, <2>1, FlowsNoMore DEF history, dataHistory
<1>4. ASSUME Norm' PROVE NormFits'
  <2>0. NormFits /\ UNCHANGED <<under, returned, answers, oddity>>
    BY <1>0, <1>4 DEF IInv, Norm, Running, Alive, NormFits, ioVars, history, openHistory
  <2>1. /\ tlsio_state' = "NOT_OPEN"
        /\ stack[1].op = "freeSsl" => tlsio_state = "NOT_OPEN"
    BY <1>0, <1>1, <2>0 DEF NormFits, SslFits, Popped
  <2>2. AnswersFit'
    BY <1>0, <1>1, <2>0, <2>1 DEF NormFits, AnswersFit, Closing, Popped, Opening
  <2>3. UnderFits'
    BY <1>0, <1>1, <2>0, <2>1 DEF NormFits, UnderFits, Ending, Popped, Up, Opening
  <2>4. SslFits'
    BY <1>0, <2>1 DEF SslFits, Up, Opening
  <2>5. QED
    BY <2>2, <2>3, <2>4 DEF NormFits
<1>5. QED
  BY <1>1, <1>2, <1>3, <1>4 DEF IInv, NormFits, Popped

(* What dowork still has to do is all there is.                             *)
LEMMA OnlyThePump ==
  ASSUME IInv, Running, Top("pump")
  PROVE  /\ Rest = <<>> /\ Stacked(stack) /\ \A o : Has(stack, o) <=> o = "pump"
         /\ Norm => NormFits /\ ~Closing /\ ~Ending
<1>1. /\ stack # <<>> /\ Stacked(stack) /\ stack[1].op = "pump"
  BY DEF IInv, Running, Top
<1>2. Rest = <<>> /\ \A o : Has(stack, o) <=> o = "pump" \/ Has(Rest, o)
  BY <1>1, StackedPop DEF Rest
<1>3. \A o : Has(stack, o) <=> o = "pump"
  BY <1>2, HasNothing
<1>4. ~Closing /\ ~Ending
  BY <1>3 DEF Closing, Ending
<1>5. QED
  BY <1>1, <1>2, <1>3, <1>4 DEF IInv, NormFits

LEMMA PumpReturnsKeeps ==
  ASSUME IInv, PumpReturns
  PROVE  IInv'
<1>0. /\ Running /\ Top("pump") /\ TypeOK /\ Flowing
      /\ UNCHANGED <<on_io_close_complete, io, failures, opens, returned, dataHistory, oddity>>
  BY DEF PumpReturns, IInv
<1>1. /\ Rest = <<>> /\ Stacked(stack) /\ \A o : Has(stack, o) <=> o = "pump"
      /\ Norm => NormFits /\ ~Closing /\ ~Ending
  BY <1>0, OnlyThePump
<1>2. CASE tlsio_state # "HANDSHAKE_FAILED"
  <2>1. stack' = Rest /\ UNCHANGED <<tlsio_state, sslVars, under, inbound, answers>>
    BY <1>2 DEF PumpReturns
  <2>2. QED
    BY <1>0, <2>1, PopKeeps DEF Top, tlsVars, ioVars, history, openHistory
<1>3. CASE tlsio_state = "HANDSHAKE_FAILED"
  <2>1. /\ tlsio_state' = "NOT_OPEN" /\ ssl' = FALSE /\ flight' = 0
        /\ in_bio' = <<>> /\ out_bio' = <<>> /\ under' = "closed" /\ inbound' = <<>>
        /\ answers' = Append(answers, "ERROR") /\ stack' = User("open") \o Rest
    BY <1>3 DEF PumpReturns, CloseOpensslInstance, IndicateOpenComplete
  <2>2. /\ answers' \in Seq({"OK", "ERROR", "CANCELLED"}) /\ answers' # <<>>
        /\ (answers = <<>> => Len(answers') = 1)
    BY <1>0, <2>1, Answered
  <2>3. Stacked(stack') /\ \A o : Has(stack', o) <=> o = "user"
    <3>1. "open" \in Events
      BY DEF Events
    <3>2. Pushed(<<>>, stack', "user")
      BY <1>1, <2>1, <3>1, HasNothing, UserPushed
    <3>3. QED
      BY <3>2, HasNothing DEF Pushed
  <2>4. TypeOK'
    <3>1. <<>> \in Seq(Token) /\ 0 \in 0 .. 3
      OBVIOUS
    <3>2. QED
      BY <1>0, <2>1, <2>2, <3>1 DEF TypeOK, dataHistory
  <2>5. Flowing'
    BY <1>0, <2>1, <2>3, FlowsNoMore DEF dataHistory
  <2>6. ASSUME Norm' PROVE NormFits'
    <3>0. NormFits /\ ~Closing
      BY <1>0, <1>1, <2>6 DEF Norm, Running, Alive
    <3>1. answers = <<>> /\ "notAnswered" \notin oddity
      BY <1>3, <3>0 DEF NormFits, AnswersFit
    <3>2. AnswersFit'
      BY <1>0, <2>1, <2>2, <2>3, <3>1 DEF AnswersFit, Closing, Opening
    <3>3. UnderFits' /\ SslFits'
      BY <2>1, <2>3 DEF UnderFits, SslFits, Up, Opening
    <3>4. QED
      BY <3>2, <3>3 DEF NormFits
  <2>7. QED
    BY <2>3, <2>4, <2>5, <2>6 DEF IInv, NormFits
<1>4. QED
  BY <1>2, <1>3

-------------------------------------------------------------------------------
(* What the io below reports.                                               *)
LEMMA OpenReportedKeeps ==
  ASSUME IInv, OpenReported
  PROVE  IInv'
<1>0. /\ Running /\ Top("pump") /\ TypeOK /\ Flowing /\ under = "opening"
      /\ UNCHANGED <<tlsVars, io, inbound, failures, openHistory, dataHistory>>
  BY DEF OpenReported, IInv
<1>1. /\ Rest = <<>> /\ Stacked(stack) /\ \A o : Has(stack, o) <=> o = "pump"
      /\ Norm => NormFits /\ ~Closing /\ ~Ending
  BY <1>0, OnlyThePump
<1>2. \/ /\ under' = "open" /\ oddity' = oddity
         /\ Stacked(stack') /\ \A o : Has(stack', o) <=> o \in {"openedBelow", "pump"}
      \/ /\ under' = "closed" /\ Odd("failedOpening")
         /\ Stacked(stack') /\ \A o : Has(stack', o) <=> o \in {"notOpenedBelow", "pump"}
  <2>1. "openedBelow" \in Ops /\ "notOpenedBelow" \in Ops
    BY DEF Ops
  <2>2. /\ Pushed(stack, Call("openedBelow") \o stack, "openedBelow")
        /\ Pushed(stack, Call("notOpenedBelow") \o stack, "notOpenedBelow")
    BY <1>1, <2>1, CallPushed
  <2>3. QED
    BY <1>1, <2>2 DEF OpenReported, Pushed
<1>3. Stacked(stack') /\ TypeOK'
  BY <1>0, <1>2 DEF TypeOK, Odd, tlsVars, sslVars, openHistory, dataHistory
<1>4. Flowing'
  <2>1. FlowKept
    BY <1>0, <1>1, <1>2 DEF FlowKept, tlsVars, sslVars, dataHistory
  <2>2. QED
    BY <1>0, <2>1, FlowsOn
<1>5. ASSUME Norm' PROVE NormFits'
  <2>0. NormFits /\ ~Closing /\ ~Ending
    BY <1>0, <1>1, <1>2, <1>5 DEF Norm, Running, Alive, Odd
  <2>1. /\ tlsio_state = "OPENING_UNDERLYING_IO" /\ answers = <<>>
        /\ UNCHANGED <<tlsio_state, ssl, answers, returned>>
    BY <1>0, <2>0 DEF NormFits, UnderFits, AnswersFit, Opening, tlsVars, sslVars, openHistory
  <2>2. oddity' = oddity \/ oddity' = oddity \cup {"failedOpening"}
    BY <1>2 DEF Odd
  <2>3. AnswersFit'
    BY <1>2, <2>0, <2>1, <2>2 DEF NormFits, AnswersFit, Closing, Opening
  <2>4. UnderFits'
    BY <1>2, <2>1 DEF Odd, UnderFits, Ending, Up, Opening
  <2>5. SslFits'
    BY <1>2, <2>0, <2>1 DEF NormFits, SslFits, Up, Opening
  <2>6. QED
    BY <2>3, <2>4, <2>5 DEF NormFits
<1>6. QED
  BY <1>3, <1>4, <1>5 DEF IInv, NormFits

LEMMA ErrorReportedKeeps ==
  ASSUME IInv, ErrorReported
  PROVE  IInv'
<1>0. /\ Running /\ Top("pump") /\ TypeOK /\ Flowing /\ under = "open"
      /\ under' \in {"failed", "open"} /\ inbound' = <<>> /\ lost' = TRUE
      /\ UNCHANGED <<sslVars, on_io_close_complete, io, failures, opens, returned, written, wire,
                     delivered, early>>
  BY DEF ErrorReported, IInv
<1>1. /\ Rest = <<>> /\ Stacked(stack) /\ \A o : Has(stack, o) <=> o = "pump"
      /\ Norm => NormFits /\ ~Closing /\ ~Ending
  BY <1>0, OnlyThePump
<1>2. \/ /\ tlsio_state \in Opening /\ tlsio_state' = "NOT_OPEN"
         /\ answers' = Append(answers, "ERROR") /\ Odd("failedOpening")
      \/ tlsio_state \notin Opening /\ UNCHANGED <<tlsio_state, answers, oddity>>
  BY DEF ErrorReported, IndicateOpenComplete, Opening
<1>3. Stacked(stack') /\ \A o : o # "user" => (Has(stack', o) <=> o = "pump")
  <2>1. "open" \in Events /\ "error" \in Events
    BY DEF Events
  <2>2. Pushed(stack, User("open") \o stack, "user") /\ Pushed(stack, User("error") \o stack, "user")
    BY <1>1, <2>1, UserPushed
  <2>3. stack' \in {User("open") \o stack, User("error") \o stack, stack}
    BY DEF ErrorReported, IndicateOpenComplete, IndicateError
  <2>4. QED
    BY <1>1, <2>2, <2>3 DEF Pushed
<1>4. /\ Append(answers, "ERROR") \in Seq({"OK", "ERROR", "CANCELLED"})
      /\ Append(answers, "ERROR") # <<>>
      /\ answers = <<>> => Len(Append(answers, "ERROR")) = 1
  BY <1>0, Answered
<1>5. TypeOK'
  <2>1. <<>> \in Seq(Token)
    OBVIOUS
  <2>2. /\ tlsio_state' \in Opening \cup {"NOT_OPEN", "HANDSHAKE_FAILED", "OPEN", "ERROR"}
        /\ answers' \in Seq({"OK", "ERROR", "CANCELLED"})
        /\ oddity' \subseteq {"reopened", "answeredTwice", "notAnswered", "closedInDecode",
                              "freedBio", "failedOpening"}
    BY <1>0, <1>2, <1>4 DEF TypeOK, Odd
  <2>3. QED
    BY <1>0, <2>1, <2>2 DEF TypeOK, sslVars
<1>6. Flowing'
  <2>1. tlsio_state' \in {"OPEN", "ERROR"} => tlsio_state = tlsio_state'
    BY <1>2
  <2>2. tlsio_state = "ERROR" => tlsio_state' = "ERROR"
    BY <1>2 DEF Opening
  <2>3. FlowKept
    BY <1>0, <1>1, <1>3, <2>1, <2>2 DEF FlowKept, sslVars
  <2>4. QED
    BY <1>0, <2>3, FlowsOn
<1>7. ASSUME Norm' PROVE NormFits'
  <2>0. NormFits /\ ~Closing /\ ~Ending
    BY <1>0, <1>1, <1>2, <1>7 DEF Norm, Running, Alive, Odd
  <2>1. ~Closing' /\ ~Ending'
    BY <1>3 DEF Closing, Ending
  <2>2. CASE tlsio_state \in Opening
    <3>1. answers = <<>> /\ "notAnswered" \notin oddity'
      BY <1>2, <2>0, <2>2 DEF NormFits, AnswersFit, Odd, Opening
    <3>2. AnswersFit'
      BY <1>2, <1>3, <1>4, <2>1, <2>2, <3>1 DEF AnswersFit, Opening
    <3>3. UnderFits' /\ SslFits'
      BY <1>0, <1>2, <1>3, <2>2 DEF UnderFits, SslFits, Up, Opening, Odd
    <3>4. QED
      BY <3>2, <3>3 DEF NormFits
  <2>3. CASE tlsio_state \notin Opening
    <3>1. AnswersFit'
      BY <1>0, <1>1, <1>2, <1>3, <2>0, <2>1, <2>3 DEF NormFits, AnswersFit
    <3>2. UnderFits' /\ SslFits'
      BY <1>0, <1>1, <1>2, <1>3, <2>0, <2>1, <2>3 DEF NormFits, UnderFits, SslFits, Up, sslVars
    <3>3. QED
      BY <3>1, <3>2 DEF NormFits
  <2>4. QED
    BY <2>2, <2>3
<1>8. QED
  BY <1>3, <1>5, <1>6, <1>7 DEF IInv, NormFits

(* A step that only uses what is freed ends the behaviour.                  *)
LEMMA UsesFreedKeeps ==
  ASSUME IInv, UsesFreed
  PROVE  IInv'
<1>1. TypeOK /\ Flowing /\ ~Norm'
  BY DEF IInv, UsesFreed, Odd, Norm, Alive
<1>2. UNCHANGED <<tlsVars, stack, ioVars, failures, openHistory, dataHistory>>
  BY DEF UsesFreed
<1>3. TypeOK'
  BY <1>1, <1>2 DEF UsesFreed, Odd, TypeOK, tlsVars, sslVars, ioVars, openHistory, dataHistory
<1>4. FlowKept
  BY <1>2 DEF FlowKept, tlsVars, sslVars, ioVars, dataHistory
<1>5. Flowing'
  BY <1>1, <1>4, FlowsOn
<1>6. QED
  BY <1>1, <1>2, <1>3, <1>5 DEF IInv

(* The call of send_handshake_bytes, with what has come divided anew.       *)
LEMMA FlowsInHandshake ==
  ASSUME TypeOK, Flowing, ssl, NEW inc \in Seq(Token), NEW later \in Seq(Token), NEW below,
         SendHandshakeBytes(under, inc, later, below), inc \o later = in_bio \o inbound,
         tlsio_state # "ERROR", UNCHANGED <<ssl, written, delivered>>,
         Has(stack, "openFails") => Has(stack', "openFails")
  PROVE  /\ HandshakeEnds(below) /\ Flowing'
         /\ SentTypes /\ flight' \in 0 .. 3 /\ in_bio' \in Seq(Token) /\ early' \in BOOLEAN
<1>0. written \in Nat /\ flight \in 0 .. 3 /\ early \in BOOLEAN /\ Len(delivered) \in Nat
  BY TlsAssumption DEF TypeOK, TlsAssumption
<1>1. /\ HandshakeTypes \/ (SentTypes /\ flight' = flight /\ in_bio' = inc
                              /\ early' = early /\ out_bio' = out_bio
                              /\ tlsio_state' = "HANDSHAKE_FAILED")
      /\ HandshakeEnds(below)
      /\ Carried(flight, inc \o later, out_bio, flight', in_bio')
      /\ StaysSound(written)
  BY <1>0, Handshake
<1>2. SentTypes /\ flight' \in 0 .. 3 /\ in_bio' \in Seq(Token) /\ early' \in BOOLEAN
  BY <1>0, <1>1 DEF HandshakeTypes
<1>3. Ahead'
  <2>1. SUFFICES ASSUME ~Has(stack', "openFails")
                 PROVE  /\ Coming(flight', in_bio' \o inbound', Len(delivered))
                        /\ Going(flight', in_bio' \o inbound', out_bio')
    BY DEF Ahead
  <2>2. /\ Coming(flight, in_bio \o inbound, Len(delivered))
        /\ Going(flight, in_bio \o inbound, out_bio)
    BY <2>1 DEF Flowing, Ahead
  <2>3. QED
    BY <1>0, <1>1, <2>2 DEF Carried
<1>4. InOrder'
  BY DEF Flowing, InOrder
<1>5. NotBegun'
  BY <1>1 DEF Flowing, NotBegun, HandshakeTypes
<1>6. Established' /\ Decodes'
  BY <1>1 DEF HandshakeEnds, Established, Decodes
<1>7. Drained'
  BY <1>1 DEF HandshakeEnds, Drained, RecordReady
<1>8. OnItsWay'
  BY <1>1 DEF Flowing, OnItsWay, StaysSound
<1>9. QED
  BY <1>1, <1>2, <1>3, <1>4, <1>5, <1>6, <1>7, <1>8 DEF Flowing

LEMMA OpenedBelowKeeps ==
  ASSUME IInv, OpenedBelow
  PROVE  IInv'
<1>0. Running /\ stack[1].op = "openedBelow" /\ TypeOK /\ Flowing
  BY DEF OpenedBelow, Top, IInv
<1>1. Popped(stack, Rest, "openedBelow")
  BY <1>0, PopTop DEF IInv, Running, Rest
<1>2. CASE tlsio_state # "OPENING_UNDERLYING_IO"
  BY <1>0, <1>2, PopKeeps DEF OpenedBelow
<1>3. CASE tlsio_state = "OPENING_UNDERLYING_IO" /\ ~ssl
  BY <1>3, UsesFreedKeeps DEF OpenedBelow
<1>4. CASE tlsio_state = "OPENING_UNDERLYING_IO" /\ ssl
  <2>1. /\ SendHandshakeBytes(under, in_bio, inbound, Rest)
        /\ UNCHANGED <<ssl, on_io_close_complete, io, under, opens, returned, written,
                       delivered, oddity>>
    BY <1>4 DEF OpenedBelow
  <2>2. in_bio \in Seq(Token) /\ inbound \in Seq(Token)
    BY <1>0 DEF TypeOK
  <2>3. Stacked(stack') /\ \A o : o # "user" => (Has(stack', o) <=> Has(Rest, o))
    <3>1. "open" \in Events
      BY DEF Events
    <3>2. Pushed(Rest, User("open") \o Rest, "user")
      BY <1>1, <3>1, UserPushed DEF Popped
    <3>3. stack' = Rest \/ stack' = User("open") \o Rest
      BY <2>1 DEF SendHandshakeBytes, HandshakeGoesOn, IndicateOpenComplete
    <3>4. QED
      BY <1>1, <3>2, <3>3 DEF Popped, Pushed
  <2>4. Has(stack, "openFails") => Has(stack', "openFails")
    BY <1>1, <2>3 DEF Popped
  <2>5. /\ HandshakeEnds(Rest) /\ Flowing'
        /\ SentTypes /\ flight' \in 0 .. 3 /\ in_bio' \in Seq(Token) /\ early' \in BOOLEAN
    BY <1>0, <1>4, <2>1, <2>2, <2>4, FlowsInHandshake
  <2>6. TypeOK'
    <3>1. answers' \in Seq({"OK", "ERROR", "CANCELLED"})
      BY <1>0, <2>5, Answered DEF HandshakeEnds, TypeOK
    <3>2. tlsio_state' \in Opening \cup {"HANDSHAKE_FAILED", "OPEN"}
      BY <2>5 DEF HandshakeEnds, Opening
    <3>3. QED
      BY <1>0, <2>1, <2>5, <3>1, <3>2 DEF TypeOK, SentTypes
  <2>7. ASSUME Norm' PROVE NormFits'
    <3>0. NormFits
      BY <1>0, <2>1, <2>7 DEF IInv, NormFits, Norm, Running, Alive
    <3>1. under = "open" /\ answers = <<>>
      BY <1>1, <3>0 DEF NormFits, UnderFits, Popped
    <3>2. Append(answers, "OK") = <<"OK">> /\ Len(<<"OK">>) = 1 /\ Len(<<>>) = 0 /\ <<"OK">> # <<>>
      BY <3>1
    <3>3. ~Closing /\ "notAnswered" \notin oddity /\ ~Has(stack, "decode")
      BY <1>4, <3>0, <3>1 DEF NormFits, AnswersFit
    <3>4. ~Closing' /\ ~Has(stack', "decode") /\ (Has(stack', "openFails") <=> Has(stack, "openFails"))
      BY <1>1, <2>3, <3>3 DEF Closing, Popped
    <3>a. (answers' = <<>> /\ tlsio_state' # "OPEN") \/ (answers' = <<"OK">> /\ tlsio_state' = "OPEN")
      BY <2>5, <3>1, <3>2 DEF HandshakeEnds
    <3>b. tlsio_state' \in {"IN_HANDSHAKE", "HANDSHAKE_FAILED", "OPEN"}
      BY <2>5 DEF HandshakeEnds
    <3>c. answers' = <<>> \/ Len(answers') = 1
      BY <3>2, <3>a, Zenon
    <3>d. UNCHANGED <<returned, oddity>> /\ (Has(stack, "openFails") => returned = "failed")
      BY <2>1, <3>0 DEF NormFits, AnswersFit
    <3>5. AnswersFit'
      BY <3>2, <3>3, <3>4, <3>a, <3>b, <3>c, <3>d DEF AnswersFit, Opening
    <3>6. ~Has(stack', "openedBelow") /\ ~Has(stack', "notOpenedBelow")
      BY <1>1, <2>3 DEF Popped
    <3>7. UnderFits'
      BY <1>1, <2>1, <2>3, <2>5, <3>0, <3>1, <3>6 DEF HandshakeEnds, NormFits, UnderFits, Popped
    <3>8. SslFits'
      BY <1>1, <1>4, <2>1, <2>3, <2>5, <3>0 DEF HandshakeEnds, NormFits, SslFits, Popped
    <3>9. QED
      BY <3>5, <3>7, <3>8 DEF NormFits
  <2>8. QED
    BY <2>3, <2>5, <2>6, <2>7 DEF IInv, NormFits
<1>5. QED
  BY <1>2, <1>3, <1>4

LEMMA DecodeKeeps ==
  ASSUME IInv, Decode
  PROVE  IInv'
<1>0. /\ Running /\ stack # <<>> /\ stack[1].op = "decode" /\ Stacked(stack) /\ TypeOK /\ Flowing
      /\ UNCHANGED <<ssl, on_io_close_complete, ioVars, failures, openHistory, written, wire,
                     lost, early>>
  BY DEF Decode, Running, Top, IInv
<1>1. /\ Stacked(Rest) /\ \A o : Has(Rest, o) <=> o = "pump"
      /\ \A o : Has(stack, o) <=> o \in {"decode", "pump"}
  <2>1. /\ Stacked(Rest) /\ \A o : Has(stack, o) <=> "decode" = o \/ Has(Rest, o)
        /\ Len(Rest) = 1 /\ Rest[1].op = "pump"
    BY <1>0, StackedPop DEF Rest
  <2>2. Rest \in Seq(Calls) /\ DOMAIN Rest = {1}
    BY <2>1 DEF Stacked
  <2>3. \A o : Has(Rest, o) <=> o = "pump"
    BY <2>1, <2>2 DEF Has
  <2>4. QED
    BY <2>1, <2>3
<1>2. tlsio_state # "ERROR"
  BY <1>0, <1>1 DEF Flowing, Decodes
<1>3. /\ in_bio \in Seq(Token) /\ inbound \in Seq(Token) /\ Len(delivered) \in Nat
      /\ flight \in 0 .. 3 /\ delivered \in Seq(1 .. Records)
  BY <1>0 DEF TypeOK
<1>4. ssl => /\ Coming(flight, in_bio \o inbound, Len(delivered))
             /\ Going(flight, in_bio \o inbound, out_bio)
  BY <1>0, <1>1, <1>2 DEF Flowing, Ahead
<1>5. CASE /\ ~ssl
           /\ tlsio_state' = "ERROR" /\ IndicateError(Rest)
           /\ Odd("closedInDecode")
           /\ UNCHANGED <<flight, in_bio, out_bio, delivered>>
  <2>1. Stacked(stack') /\ \A o : o # "user" => (Has(stack', o) <=> o = "pump")
    <3>1. "error" \in Events
      BY DEF Events
    <3>2. Pushed(Rest, User("error") \o Rest, "user")
      BY <1>1, <3>1, UserPushed
    <3>3. QED
      BY <1>1, <1>5, <3>2 DEF IndicateError, Pushed
  <2>2. TypeOK'
    BY <1>0, <1>5 DEF TypeOK, Odd, ioVars, openHistory
  <2>3. Flowing'
    BY <1>0, <1>5, <2>1, FlowsNoMore
  <2>4. ASSUME Norm' PROVE NormFits'
    <3>0. NormFits /\ UNCHANGED <<under, returned, answers>>
      BY <1>0, <1>5, <2>4 DEF IInv, NormFits, Norm, Running, Alive, Odd, ioVars, openHistory
    <3>1. tlsio_state \in {"OPEN", "NOT_OPEN"}
      BY <1>1, <3>0 DEF NormFits, AnswersFit
    <3>2. under # "opening" /\ (tlsio_state = "OPEN" => answers # <<>>)
      BY <3>0, <3>1 DEF NormFits, UnderFits, AnswersFit
    <3>3. AnswersFit'
      BY <1>5, <2>1, <3>0, <3>1, <3>2 DEF NormFits, AnswersFit, Closing, Opening, Odd
    <3>4. UnderFits' /\ SslFits'
      BY <1>5, <2>1, <3>0, <3>2 DEF UnderFits, SslFits, Up, Opening, Odd
    <3>5. QED
      BY <3>3, <3>4 DEF NormFits
  <2>5. QED
    BY <2>1, <2>2, <2>3, <2>4 DEF IInv, NormFits
<1>6. CASE /\ ssl /\ RecordReady
           /\ delivered' = Append(delivered, in_bio[1].n)
           /\ in_bio' = Tail(in_bio)
           /\ stack' = User("bytes") \o stack
           /\ UNCHANGED <<tlsio_state, flight, out_bio, oddity>>
  <2> DEFINE q == in_bio \o inbound
             d == Len(delivered)
  <2>1. /\ in_bio # <<>> /\ in_bio[1].t = "rec" /\ q \in Seq(Token) /\ q # <<>>
        /\ q[1] = in_bio[1] /\ Tail(q) = Tail(in_bio) \o inbound /\ Tail(in_bio) \in Seq(Token)
    BY <1>3, <1>6 DEF RecordReady
  <2> HIDE DEF q
  <2>2. flight = 3
    <3>1. q # <<Flight(1)>> /\ q # <<Bad>> /\ q[1] # Flight(2)
      <4>1. q[1].t = "rec"
        BY <2>1
      <4>2. <<Flight(1)>>[1].t = "hs" /\ <<Bad>>[1].t = "bad" /\ Flight(2).t = "hs"
        BY DEF Flight, Bad
      <4>3. QED
        BY <4>1, <4>2
    <3>2. Coming(flight, q, d)
      BY <1>4, <1>6 DEF q
    <3>3. QED
      BY <1>3, <2>1, <3>1, <3>2 DEF Coming
  <2>3. Data(q, d) /\ d \in Nat
    <3>1. Coming(flight, q, d)
      BY <1>4, <1>6 DEF q
    <3>2. QED
      BY <1>3, <2>2, <3>1 DEF Coming
  <2> HIDE DEF d
  <2>4. in_bio[1] = Rec(d + 1) /\ d + 1 <= Records /\ Data(Tail(q), d + 1)
    <3>1. q[1].t = "rec"
      BY <2>1
    <3>2. QED
      BY <2>1, <2>3, <3>1, DataTail
  <2>5. delivered' = Append(delivered, d + 1) /\ d + 1 \in 1 .. Records
    BY <1>6, <2>3, <2>4, TlsAssumption DEF Rec, TlsAssumption
  <2>6. delivered' \in Seq(1 .. Records) /\ Len(delivered') = d + 1
    BY <1>3, <2>5 DEF d
  <2>7. Stacked(stack') /\ \A o : o # "user" => (Has(stack', o) <=> Has(stack, o))
    <3>1. "bytes" \in Events
      BY DEF Events
    <3>2. ~Has(stack, "openedBelow") /\ ~Has(stack, "notOpenedBelow")
      BY <1>1
    <3>3. Pushed(stack, stack', "user")
      BY <1>0, <1>6, <3>1, <3>2, UserPushed
    <3>4. QED
      BY <3>3 DEF Pushed
  <2>8. TypeOK'
    BY <1>0, <1>6, <2>1, <2>6 DEF TypeOK, ioVars, openHistory
  <2>9. Ahead'
    <3>1. Coming(3, Tail(in_bio) \o inbound, d + 1)
      <4>1. Data(Tail(in_bio) \o inbound, d + 1)
        BY <2>1, <2>4, Zenon
      <4>2. QED
        BY <4>1 DEF Coming
    <3>2. Going(3, Tail(in_bio) \o inbound, out_bio)
      <4>1. Going(flight, q, out_bio)
        BY <1>4, <1>6 DEF q
      <4>2. QED
        BY <2>1, <2>2, <4>1 DEF Going
    <3>3. flight' = 3 /\ in_bio' = Tail(in_bio) /\ inbound' = inbound /\ out_bio' = out_bio
      BY <1>0, <1>6, <2>2 DEF ioVars
    <3>4. QED
      BY <2>6, <3>1, <3>2, <3>3 DEF Ahead
  <2>10. InOrder'
    <3>1. \A i \in 1 .. d : delivered[i] = i
      <4>1. DOMAIN delivered = 1 .. d
        BY <1>3 DEF d
      <4>2. QED
        BY <1>0, <4>1 DEF Flowing, InOrder
    <3>2. /\ DOMAIN delivered' = 1 .. d + 1 /\ delivered'[d + 1] = d + 1
          /\ \A i \in 1 .. d : delivered'[i] = delivered[i]
      BY <1>3, <2>5 DEF d
    <3>3. \A i \in 1 .. d + 1 : delivered'[i] = i
      <4>1. \A i \in 1 .. d + 1 : i = d + 1 \/ i \in 1 .. d
        BY <2>3
      <4>2. QED
        BY <3>1, <3>2, <4>1
    <3>4. delivered' = [i \in 1 .. d + 1 |-> i]
      <4>1. delivered' = [i \in DOMAIN delivered' |-> delivered'[i]]
        BY <2>6
      <4>2. QED
        BY <3>2, <3>3, <4>1
    <3>5. QED
      BY <3>2, <3>4 DEF InOrder
  <2>11. NotBegun' /\ Established' /\ Decodes' /\ Drained'
    BY <1>0, <1>1, <1>2, <1>6, <2>2, <2>7 DEF NotBegun, Established, Decodes, Drained
  <2>12. OnItsWay'
    <3>1. ssl' /\ ~lost' => Sound(wire \o out_bio, written)
      BY <1>0 DEF Flowing, OnItsWay
    <3>2. QED
      BY <1>0, <1>6, <3>1 DEF OnItsWay
  <2>13. Flowing'
    BY <2>9, <2>10, <2>11, <2>12 DEF Flowing
  <2>14. ASSUME Norm' PROVE NormFits'
    <3>1. NormFits
      BY <1>0, <1>6, <2>14 DEF IInv, NormFits, Norm, Running, Alive
    <3>2. QED
      BY <1>0, <1>6, <2>7, <3>1, NormOn DEF ioVars, openHistory
  <2>15. QED
    BY <2>7, <2>8, <2>13, <2>14 DEF IInv, NormFits
<1>7. CASE /\ ssl /\ ~RecordReady
           /\ flight' = (IF flight = 0 THEN 1 ELSE flight)
           /\ out_bio' = (IF flight = 0 THEN <<Flight(1)>> ELSE out_bio)
           /\ stack' = Rest
           /\ UNCHANGED <<tlsio_state, in_bio, delivered, oddity>>
  <2>1. flight' \in 0 .. 3 /\ out_bio' \in Seq(Token)
    <3>1. <<Flight(1)>> \in Seq(Token)
      BY Tokens
    <3>2. QED
      BY <1>0, <1>7, <3>1 DEF TypeOK
  <2>2. TypeOK'
    BY <1>0, <1>7, <2>1 DEF TypeOK, ioVars, openHistory
  <2>3. Ahead'
    <3>1. CASE flight = 0
      <4>1. in_bio \o inbound = <<>> /\ Len(delivered) = 0
        BY <1>4, <1>7, <3>1 DEF Coming
      <4>2. Flight(2) \notin ToSet(<<Flight(1)>>)
        <5>1. Flight(1) # Flight(2)
          BY Tokens
        <5>2. QED
          BY <5>1 DEF ToSet
      <4>3. Coming(1, <<>>, 0) /\ Going(1, <<>>, <<Flight(1)>>)
        BY <4>2 DEF Coming, Going
      <4>4. QED
        BY <1>0, <1>7, <3>1, <4>1, <4>3 DEF Ahead, ioVars
    <3>2. CASE flight # 0
      BY <1>0, <1>4, <1>7, <3>2 DEF Ahead, ioVars
    <3>3. QED
      BY <3>1, <3>2
  <2>4. InOrder' /\ NotBegun' /\ Established' /\ Decodes'
    BY <1>0, <1>1, <1>2, <1>7 DEF Flowing, InOrder, NotBegun, Established, Decodes
  <2>5. Drained'
    BY <1>7 DEF Drained, RecordReady
  <2>6. OnItsWay'
    <3>1. ASSUME ~lost PROVE Sound(wire \o out_bio', written)
      <4>1. Sound(wire \o out_bio, written)
        BY <1>0, <1>7, <3>1 DEF Flowing, OnItsWay
      <4>2. CASE flight # 0
        BY <1>7, <4>1, <4>2
      <4>3. CASE flight = 0
        <5>1. out_bio = <<>> /\ wire \in Seq(Token) /\ written \in Nat /\ Flight(1) \in Token
          BY <1>0, <1>7, <4>3, Tokens, TlsAssumption DEF Flowing, NotBegun, TypeOK, TlsAssumption
        <5>2. wire \o <<>> = wire /\ wire \o <<Flight(1)>> = Append(wire, Flight(1))
          BY <5>1
        <5>3. Sound(Append(wire, Flight(1)), written)
          BY <4>1, <5>1, <5>2, SoundAppend
        <5>4. QED
          BY <1>7, <4>3, <5>2, <5>3
      <4>4. QED
        BY <4>2, <4>3
    <3>2. QED
      BY <1>0, <3>1 DEF OnItsWay
  <2>7. Flowing'
    BY <2>3, <2>4, <2>5, <2>6 DEF Flowing
  <2>8. ASSUME Norm' PROVE NormFits'
    <3>1. NormFits
      BY <1>0, <1>7, <2>8 DEF IInv, NormFits, Norm, Running, Alive
    <3>2. QED
      BY <1>0, <1>1, <1>7, <3>1, NormOn DEF ioVars, openHistory
  <2>9. QED
    BY <1>1, <1>7, <2>2, <2>7, <2>8 DEF IInv, NormFits
<1>8. QED
  BY <1>5, <1>6, <1>7, Zenon DEF Decode

LEMMA Divides ==
  ASSUME NEW q \in Seq(Token), NEW s \in Seq(Token), NEW n \in 1 .. Len(s)
  PROVE  /\ SubSeq(s, 1, n) \in Seq(Token)
         /\ SubSeq(s, n + 1, Len(s)) \in Seq(Token)
         /\ q \o SubSeq(s, 1, n) \in Seq(Token)
         /\ (q \o SubSeq(s, 1, n)) \o SubSeq(s, n + 1, Len(s)) = q \o s
<1> DEFINE a == SubSeq(s, 1, n)
           b == SubSeq(s, n + 1, Len(s))
<1>1. a \in Seq(Token) /\ b \in Seq(Token)
  OBVIOUS
<1>2. SubSeq(s, 1, Len(s)) = s
  BY SubSeqFull
<1>3. a \o b = SubSeq(s, 1, Len(s))
  BY ConcatAdjacentSubSeq
<1> HIDE DEF a, b
<1>4. q \o a \in Seq(Token) /\ q \o (a \o b) = (q \o a) \o b
  BY <1>1, Regroup
<1>5. QED
  BY <1>1, <1>2, <1>3, <1>4 DEF a, b

LEMMA BytesReceivedKeeps ==
  ASSUME IInv, BytesReceived
  PROVE  IInv'
<1>0. /\ Running /\ Top("pump") /\ TypeOK /\ Flowing /\ under = "open" /\ stack # <<>>
      /\ in_bio \in Seq(Token) /\ inbound \in Seq(Token)
  BY DEF BytesReceived, IInv, TypeOK, Running
<1>1. /\ Rest = <<>> /\ Stacked(stack) /\ \A o : Has(stack, o) <=> o = "pump"
      /\ Norm => NormFits /\ ~Closing /\ ~Ending
  BY <1>0, OnlyThePump
<1>a. /\ ~Has(stack, "openedBelow") /\ ~Has(stack, "notOpenedBelow")
  BY <1>1
<1>2. CASE ~ssl
  BY <1>2, UsesFreedKeeps DEF BytesReceived
<1>3. CASE ssl
  <2> DEFINE first(n) == SubSeq(inbound, 1, n)
             rest(n) == SubSeq(inbound, n + 1, Len(inbound))
  <2>0. PICK n \in 1 .. Len(inbound) :
          \/ /\ failures < MaxFailures /\ failures' = failures + 1
             /\ tlsio_state' = "ERROR" /\ IndicateError(stack)
             /\ inbound' = rest(n) /\ lost' = TRUE
             /\ oddity' = oddity \cup (IF answers = <<>> THEN {"notAnswered"} ELSE {})
             /\ UNCHANGED <<flight, in_bio, out_bio, answers, wire, early>>
          \/ /\ tlsio_state = "IN_HANDSHAKE"
             /\ SendHandshakeBytes(under, in_bio \o first(n), rest(n), stack)
             /\ UNCHANGED oddity
          \/ /\ tlsio_state # "IN_HANDSHAKE"
             /\ in_bio' = in_bio \o first(n) /\ inbound' = rest(n) /\ early' = FALSE
             /\ stack' = (IF tlsio_state = "OPEN" THEN Call("decode") ELSE <<>>) \o stack
             /\ UNCHANGED <<tlsio_state, flight, out_bio, failures, answers, wire, lost,
                            oddity>>
    BY <1>3 DEF BytesReceived
  <2> DEFINE inc == in_bio \o first(n)
             later == rest(n)
  <2>1. /\ first(n) \in Seq(Token) /\ later \in Seq(Token)
        /\ inc \in Seq(Token) /\ inc \o later = in_bio \o inbound
    BY <1>0, Divides, Zenon
  <2> HIDE DEF first, rest
  <2>3. UNCHANGED <<ssl, on_io_close_complete, io, under, opens, returned, written, delivered>>
    BY <1>3 DEF BytesReceived
  <2>4. CASE /\ failures < MaxFailures /\ failures' = failures + 1
             /\ tlsio_state' = "ERROR" /\ IndicateError(stack)
             /\ inbound' = later /\ lost' = TRUE
             /\ oddity' = oddity \cup (IF answers = <<>> THEN {"notAnswered"} ELSE {})
             /\ UNCHANGED <<flight, in_bio, out_bio, answers, wire, early>>
    <3>1. Stacked(stack') /\ \A o : o # "user" => (Has(stack', o) <=> o = "pump")
      <4>1. "error" \in Events
        BY DEF Events
      <4>2. Pushed(stack, User("error") \o stack, "user")
        BY <1>1, <1>a, <4>1, UserPushed
      <4>3. QED
        BY <1>1, <2>4, <4>2 DEF IndicateError, Pushed
    <3>2. failures' \in 0 .. MaxFailures
      BY <1>0, <2>4, TlsAssumption DEF TypeOK, TlsAssumption
    <3>3. TypeOK'
      BY <1>0, <2>1, <2>3, <2>4, <3>2 DEF TypeOK
    <3>4. Ahead' /\ Established' /\ Drained' /\ OnItsWay'
      BY <2>4 DEF Ahead, Established, Drained, OnItsWay
    <3>5. InOrder' /\ NotBegun'
      BY <1>0, <2>3, <2>4 DEF Flowing, InOrder, NotBegun
    <3>6. Decodes'
      BY <3>1 DEF Decodes
    <3>7. ASSUME Norm' PROVE NormFits'
      <4>0. NormFits /\ ~Closing /\ ~Ending
        BY <1>0, <1>1, <2>4, <3>7 DEF Norm, Running, Alive
      <4>1. ~Closing' /\ ~Ending'
        BY <3>1 DEF Closing, Ending
      <4>2. "notAnswered" \in oddity' => answers = <<>>
        BY <2>4, <4>0 DEF NormFits, AnswersFit
      <4>3. answers = <<>> => "notAnswered" \in oddity'
        BY <2>4
      <4>4. answers = <<>> \/ Len(answers) = 1 \/ "answeredTwice" \in oddity'
        BY <2>4, <4>0 DEF NormFits, AnswersFit
      <4>5. AnswersFit'
        BY <2>3, <2>4, <3>1, <4>1, <4>2, <4>3, <4>4 DEF AnswersFit, Opening
      <4>6. UnderFits' /\ SslFits'
        BY <1>0, <1>3, <2>3, <2>4, <3>1, <4>1 DEF UnderFits, SslFits, Up, Opening
      <4>7. QED
        BY <4>5, <4>6 DEF NormFits
    <3>8. QED
      BY <3>1, <3>3, <3>4, <3>5, <3>6, <3>7 DEF IInv, Flowing, NormFits
  <2>5. CASE /\ tlsio_state = "IN_HANDSHAKE"
             /\ SendHandshakeBytes(under, inc, later, stack)
             /\ UNCHANGED oddity
    <3>1. Stacked(stack') /\ \A o : o # "user" => (Has(stack', o) <=> o = "pump")
      <4>1. "open" \in Events
        BY DEF Events
      <4>2. Pushed(stack, User("open") \o stack, "user")
        BY <1>1, <1>a, <4>1, UserPushed
      <4>3. stack' = stack \/ stack' = User("open") \o stack
        BY <2>5 DEF SendHandshakeBytes, HandshakeGoesOn, IndicateOpenComplete
      <4>4. QED
        BY <1>1, <4>2, <4>3 DEF Pushed
    <3> HIDE DEF inc, later
    <3>2. Has(stack, "openFails") => Has(stack', "openFails")
      BY <1>1
    <3>3. /\ HandshakeEnds(stack) /\ Flowing'
          /\ SentTypes /\ flight' \in 0 .. 3 /\ in_bio' \in Seq(Token) /\ early' \in BOOLEAN
      <4>1. later \in Seq(Token)
        BY <2>1 DEF later
      <4>2. QED
        BY <1>0, <1>3, <2>1, <2>3, <2>5, <3>2, <4>1, FlowsInHandshake
    <3>4. TypeOK'
      <4>1. answers' \in Seq({"OK", "ERROR", "CANCELLED"})
        BY <1>0, <3>3, Answered DEF HandshakeEnds, TypeOK
      <4>2. tlsio_state' \in Opening \cup {"HANDSHAKE_FAILED", "OPEN"}
        BY <3>3 DEF HandshakeEnds, Opening
      <4>3. QED
        BY <1>0, <2>3, <2>5, <3>3, <4>1, <4>2 DEF TypeOK, SentTypes
    <3>5. ASSUME Norm' PROVE NormFits'
      <4>0. NormFits /\ ~Closing /\ ~Ending
        BY <1>0, <1>1, <2>5, <3>5 DEF Norm, Running, Alive
      <4>1. answers = <<>> /\ "notAnswered" \notin oddity
        BY <2>5, <4>0 DEF NormFits, AnswersFit, Opening
      <4>2. Append(answers, "OK") = <<"OK">> /\ Len(<<"OK">>) = 1 /\ <<"OK">> # <<>>
        BY <4>1
      <4>3. ~Closing' /\ ~Ending'
        BY <3>1 DEF Closing, Ending
      <4>a. (answers' = <<>> /\ tlsio_state' # "OPEN") \/ (answers' = <<"OK">> /\ tlsio_state' = "OPEN")
        BY <3>3, <4>1, <4>2 DEF HandshakeEnds
      <4>b. tlsio_state' \in {"IN_HANDSHAKE", "HANDSHAKE_FAILED", "OPEN"}
        BY <3>3 DEF HandshakeEnds
      <4>c. answers' = <<>> \/ Len(answers') = 1
        BY <4>2, <4>a, Zenon
      <4>5. AnswersFit'
        BY <2>3, <2>5, <3>1, <4>1, <4>2, <4>3, <4>a, <4>b, <4>c DEF AnswersFit, Opening
      <4>6. UnderFits' /\ SslFits'
        BY <1>0, <1>3, <2>3, <3>1, <4>3, <4>b DEF UnderFits, SslFits, Up, Opening
      <4>7. QED
        BY <4>5, <4>6 DEF NormFits
    <3>6. QED
      BY <3>1, <3>3, <3>4, <3>5 DEF IInv, NormFits
  <2>6. CASE /\ tlsio_state # "IN_HANDSHAKE"
             /\ in_bio' = inc /\ inbound' = later /\ early' = FALSE
             /\ stack' = (IF tlsio_state = "OPEN" THEN Call("decode") ELSE <<>>) \o stack
             /\ UNCHANGED <<tlsio_state, flight, out_bio, failures, answers, wire, lost,
                            oddity>>
    <3> HIDE DEF inc, later
    <3>1. /\ Stacked(stack') /\ \A o : o # "decode" => (Has(stack', o) <=> o = "pump")
          /\ Has(stack', "decode") <=> tlsio_state = "OPEN"
      <4>1. Pushed(stack, Call("decode") \o stack, "decode")
        <5>1. "decode" \in Ops /\ "none" \in Events
          BY DEF Ops, Events
        <5>2. Len(stack) = 1 /\ stack[1].op = "pump"
          <6>1. stack \in Seq(Calls) /\ stack # <<>> /\ Tail(stack) = <<>>
            BY <1>0, <1>1 DEF Rest, Stacked
          <6>2. Len(Tail(stack)) = Len(stack) - 1 /\ Len(<<>>) = 0 /\ Len(stack) \in Nat
            BY <6>1
          <6>a. 0 = Len(stack) - 1
            BY <6>1, <6>2, Zenon
          <6>3. Len(stack) = 1
            <7> DEFINE k == Len(stack)
            <7>1. k \in Nat /\ 0 = k - 1
              BY <6>2, <6>a
            <7> HIDE DEF k
            <7>2. k = 1
              BY <7>1
            <7>3. QED
              BY <7>2 DEF k
          <6>4. QED
            BY <1>0, <6>3 DEF Top
        <5>3. Fits([op |-> "decode", ev |-> "none"], stack)
          BY <1>a, <5>2 DEF Fits
        <5>4. QED
          BY <1>1, <5>1, <5>3, PushFrame DEF Pushed, Call
      <4>2. <<>> \o stack = stack
        BY <1>1 DEF Stacked
      <4>3. stack' = IF tlsio_state = "OPEN" THEN Call("decode") \o stack ELSE stack
        BY <2>6, <4>2
      <4>4. QED
        BY <1>1, <4>1, <4>3 DEF Pushed
    <3>2. TypeOK'
      <4>1. later \in Seq(Token)
        BY <2>1 DEF later
      <4>2. QED
        BY <1>0, <2>1, <2>3, <2>6, <4>1 DEF TypeOK
    <3>3. Ahead'
      <4>1. in_bio' \o inbound' = in_bio \o inbound
        BY <2>1, <2>6
      <4>2. QED
        BY <1>0, <1>1, <1>3, <2>3, <2>6, <4>1 DEF Flowing, Ahead
    <3>4. InOrder' /\ NotBegun' /\ Established' /\ OnItsWay'
      BY <1>0, <2>3, <2>6 DEF Flowing, InOrder, NotBegun, Established, OnItsWay
    <3>5. Decodes' /\ Drained'
      BY <2>6, <3>1 DEF Decodes, Drained
    <3>6. ASSUME Norm' PROVE NormFits'
      <4>0. NormFits /\ ~Closing /\ ~Ending
        BY <1>0, <1>1, <2>6, <3>6 DEF Norm, Running, Alive
      <4>1. ~Closing' /\ ~Ending'
        BY <3>1 DEF Closing, Ending
      <4>2. AnswersFit'
        BY <1>1, <2>3, <2>6, <3>1, <4>0, <4>1 DEF NormFits, AnswersFit
      <4>3. UnderFits' /\ SslFits'
        BY <1>1, <2>3, <2>6, <3>1, <4>0, <4>1 DEF NormFits, UnderFits, SslFits
      <4>4. QED
        BY <4>2, <4>3 DEF NormFits
    <3>7. QED
      BY <3>1, <3>2, <3>3, <3>4, <3>5, <3>6 DEF IInv, Flowing, NormFits
  <2>7. QED
    BY <2>0, <2>4, <2>5, <2>6
<1>4. QED
  BY <1>0, <1>2, <1>3 DEF TypeOK

-------------------------------------------------------------------------------
(* The theorems.                                                            *)
LEMMA InitIInv == Init => IInv
<1> SUFFICES ASSUME Init PROVE IInv
  OBVIOUS
<1>1. /\ tlsio_state = "NOT_OPEN" /\ ssl = FALSE /\ stack = <<>> /\ delivered = <<>>
      /\ under = "closed" /\ answers = <<>> /\ returned = "none" /\ oddity = {}
  BY DEF Init
<1>2. TypeOK
  <2>1. /\ <<>> \in Seq(Token) /\ <<>> \in Seq({"OK", "ERROR", "CANCELLED"})
        /\ <<>> \in Seq(1 .. Records) /\ 0 \in 0 .. 3
    OBVIOUS
  <2>2. 0 \in 0 .. MaxFailures /\ 0 \in 0 .. MaxOpens /\ 0 \in 0 .. Sends
    BY TlsAssumption DEF TlsAssumption
  <2>3. QED
    BY <2>1, <2>2 DEF Init, TypeOK
<1>3. Flowing
  BY <1>1, HasNothing DEF Flowing, Ahead, InOrder, NotBegun, Established, Drained, Decodes, OnItsWay
<1>4. AnswersFit /\ UnderFits /\ SslFits
  BY <1>1, HasNothing DEF AnswersFit, UnderFits, SslFits, Closing, Ending, Up, Opening
<1>5. QED
  BY <1>1, <1>2, <1>3, <1>4, HasNothing DEF IInv

LEMMA NextIInv == IInv /\ [Next]_vars => IInv'
<1> SUFFICES ASSUME IInv, [Next]_vars PROVE IInv'
  OBVIOUS
<1>1. CASE UNCHANGED vars
  BY <1>1 DEF IInv, TypeOK, Flowing, Ahead, InOrder, NotBegun, Established, Drained, RecordReady,
    Decodes, OnItsWay, Norm, Alive, AnswersFit, UnderFits, SslFits, Closing, Ending,
    vars, tlsVars, sslVars, ioVars, history, openHistory, dataHistory
<1>2. CASE Next
  BY <1>2, OpenKeeps, CloseKeeps, SendKeeps, DoWorkKeeps, DestroyKeeps, OpenedBelowKeeps,
    NotOpenedBelowKeeps, FreesSslKeeps, ClosesKeeps, DecodeKeeps, UserReturnsKeeps,
    PumpReturnsKeeps, OpenReportedKeeps, BytesReceivedKeeps, ErrorReportedKeeps
    DEF Next, Frames, Reports
<1>3. QED
  BY <1>1, <1>2

LEMMA SpecIInv == Spec => []IInv
BY InitIInv, NextIInv, PTL DEF Spec

LEMMA BetweenFits ==
  ASSUME IInv, Between, "reopened" \notin oddity
  PROVE  NormFits /\ TypeOK /\ \A o : ~Has(stack, o)
BY HasNothing DEF IInv, Between, Norm, NormFits

(* Between calls, an accepted open of the TLS io (tlsio_openssl_open) has    *)
(* been answered exactly once when it is over and not at all before, but    *)
(* for the answers the code is known to give twice or not to give.          *)
THEOREM OpensAreAnswered == Spec => []OpenAnswered
<1>1. ASSUME IInv PROVE OpenAnswered
  <2>1. SUFFICES ASSUME Between, returned = "ok", "reopened" \notin oddity
                 PROVE  IF tlsio_state \in Opening \cup {"HANDSHAKE_FAILED"} THEN answers = <<>>
                        ELSE IF tlsio_state = "OPEN" THEN answers = <<"OK">>
                        ELSE "answeredTwice" \in oddity
                             \/ Len(answers) = IF "notAnswered" \in oddity THEN 0 ELSE 1
    BY DEF OpenAnswered
  <2>2. NormFits /\ TypeOK /\ \A o : ~Has(stack, o)
    BY <1>1, <2>1, BetweenFits
  <2>3. ~Closing
    BY <2>2 DEF Closing
  <2>4. CASE tlsio_state \in Opening \cup {"HANDSHAKE_FAILED", "OPEN"}
    BY <2>2, <2>3, <2>4 DEF NormFits, AnswersFit, Opening
  <2>5. CASE tlsio_state \notin Opening \cup {"HANDSHAKE_FAILED", "OPEN"}
    <3>1. tlsio_state \in {"NOT_OPEN", "ERROR"}
      BY <2>2, <2>5 DEF TypeOK
    <3>2. /\ answers = <<>> \/ Len(answers) = 1 \/ "answeredTwice" \in oddity
          /\ "notAnswered" \in oddity <=> answers = <<>>
      BY <2>1, <2>2, <3>1 DEF NormFits, AnswersFit
    <3>3. Len(<<>>) = 0
      OBVIOUS
    <3>4. "answeredTwice" \in oddity \/ Len(answers) = IF "notAnswered" \in oddity THEN 0 ELSE 1
      BY <3>2, <3>3
    <3>5. QED
      BY <2>5, <3>4
  <2>6. QED
    BY <2>4, <2>5
<1>2. QED
  BY <1>1, SpecIInv, PTL

(* Between calls, the SSL and the io below are there while the TLS io is    *)
(* open or opening and gone when it is not.                                 *)
THEOREM SslIsThereWhenOpen == Spec => []SslFollowsState
<1>1. ASSUME IInv PROVE SslFollowsState
  <2>1. TypeOK
    BY <1>1 DEF IInv
  <2>2. ASSUME Between, "reopened" \notin oddity
        PROVE  /\ tlsio_state \in Opening \cup {"HANDSHAKE_FAILED", "OPEN"} => ssl /\ under # "closed"
               /\ tlsio_state = "NOT_OPEN" /\ "failedOpening" \notin oddity => ~ssl /\ under = "closed"
               /\ tlsio_state = "ERROR" /\ "closedInDecode" \notin oddity => ssl
    <3>1. NormFits /\ \A o : ~Has(stack, o)
      BY <1>1, <2>2, BetweenFits
    <3>2. QED
      BY <3>1 DEF NormFits, UnderFits, SslFits, Ending, Up
  <2>3. QED
    BY <2>1, <2>2 DEF SslFollowsState
<1>2. QED
  BY <1>1, SpecIInv, PTL

(* The records of the server reach the user complete and in order and do    *)
(* not wait in the incoming BIO for what is not to come; what the user sent *)
(* is on the wire or in the outgoing BIO, once and in order.                *)
THEOREM RecordsStayIntact == Spec => []RecordsIntact
<1>1. ASSUME IInv PROVE RecordsIntact
  <2>1. TypeOK /\ Flowing
    BY <1>1 DEF IInv
  <2>2. delivered = [i \in DOMAIN delivered |-> i]
    BY <2>1 DEF Flowing, InOrder
  <2>3. ASSUME Between, tlsio_state = "OPEN", ssl, in_bio # <<>>, ~early
        PROVE  in_bio[1] = Bad
    <3>1. \A o : ~Has(stack, o)
      BY <2>3, HasNothing DEF Between
    <3>2. flight = 3 /\ ~RecordReady
      BY <2>1, <2>3, <3>1 DEF Flowing, Established, Drained
    <3>3. Data(in_bio \o inbound, Len(delivered))
      BY <2>1, <2>3, <3>1, <3>2 DEF Flowing, Ahead, Coming
    <3>4. in_bio \in Seq(Token) /\ inbound \in Seq(Token) /\ Len(delivered) \in Nat
      BY <2>1 DEF TypeOK
    <3>5. Data(in_bio, Len(delivered))
      BY <3>3, <3>4, DataPrefix
    <3>6. 1 \in DOMAIN in_bio
      BY <2>3, <3>4
    <3>7. in_bio[1].t # "rec"
      BY <2>3, <3>2 DEF RecordReady
    <3>8. QED
      BY <3>5, <3>6, <3>7 DEF Data, Rec
  <2>4. ASSUME ssl, ~lost PROVE Sound(wire \o out_bio, written)
    BY <2>1, <2>4 DEF Flowing, OnItsWay
  <2>5. QED
    BY <2>2, <2>3, <2>4 DEF RecordsIntact, Sound
<1>2. QED
  BY <1>1, SpecIInv, PTL

================================================================================
