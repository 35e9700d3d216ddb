------------------------------ MODULE WsIoProofs -----------------------------
(***************************************************************************)
(* Proofs about the io over a websocket, on top of the invariants of the   *)
(* websocket client, for any io under that, any reply of the server, any   *)
(* number of opens and sends and any depth of callbacks.                   *)
(***************************************************************************)
EXTENDS UwsClientProofs

-------------------------------------------------------------------------------
(* wsio over the client.  A callback of the client runs before anything     *)
(* else does; below it only that for the CLOSE of the peer can be left,     *)
(* directly above what the decoder has to consume, and a failing open of    *)
(* wsio is directly below that of the client.                               *)
Tell(f, ev) == f.op = "user" /\ f.ev = ev
Tops(s, ev) == s # <<>> /\ Tell(s[1], ev)
Peer(s) == \E f \in ToSet(s) : Tell(f, "peerClosed")

Shape(s) ==
  /\ \A i, j \in DOMAIN s :
       i < j /\ Tell(s[i], "peerClosed") => s[j].op \in {"consume", "decode"}
  /\ \A i \in 1 .. Len(s) - 1 : s[i + 1].op = "wsOpenFails" => s[i].op = "openFails"

(* No cancel of the client is left below one of wsio.                       *)
CancelsAbove(s) ==
  \A i, j \in DOMAIN s : i < j => ~(s[i].op = "wsCancel" /\ s[j].op = "cancel")

Calm(s) ==
  /\ \A f \in ToSet(s) : f.op # "respond" /\ (f.op = "user" => f.ev = "peerClosed")
  /\ Peer(s) \/ Has(s, "wsNotOpen") => Has(s, "consume")
StackFits(s) ==
  /\ Shape(s)
  /\ s # <<>> => Calm(Tail(s))
  /\ \/ Calm(s)
     \/ s # <<>> /\ s[1].op \in {"user", "respond"} /\ ~Tell(s[1], "peerClosed")

LEMMA Indices ==
  ASSUME NEW s, NEW f, NEW t, Pushed(t, f, s)
  PROVE  /\ Len(s) \in Nat /\ DOMAIN s = 1 .. Len(s) /\ DOMAIN t = 1 .. Len(s) + 1
         /\ Len(t) = Len(s) + 1 /\ t[1] = f
         /\ \A i \in 1 .. Len(s) : t[i + 1] = s[i] /\ s[i] \in ToSet(s)
         /\ s # <<>> => 1 \in 1 .. Len(s)
<1>1. t \in Seq(FrameSet) /\ t # <<>> /\ t[1] = f /\ Tail(t) = s
  BY DEF Pushed, Stacked
<1>2. s \in Seq(FrameSet) /\ Len(s) = Len(t) - 1 /\ \A i \in 1 .. Len(s) : s[i] = t[i + 1]
  BY <1>1, HeadTailProperties
<1>3. Len(t) \in Nat /\ Len(s) \in Nat /\ DOMAIN t = 1 .. Len(t) /\ DOMAIN s = 1 .. Len(s)
  BY <1>1, <1>2
<1>4. s # <<>> => 1 \in 1 .. Len(s)
  <2>1. s # <<>> => Len(s) # 0
    BY <1>2, EmptySeq
  <2>2. QED
    BY <1>3, <2>1
<1>5. Len(t) = Len(s) + 1
  BY <1>2, <1>3
<1>6. \A i \in 1 .. Len(s) : t[i + 1] = s[i] /\ s[i] \in ToSet(s)
  BY <1>2, <1>3 DEF ToSet
<1>7. QED
  BY <1>1, <1>3, <1>4, <1>5, <1>6

LEMMA ShapePush ==
  ASSUME NEW s, NEW f, NEW t, Pushed(t, f, s),
         Tell(f, "peerClosed") => \A g \in ToSet(s) : g.op \in {"consume", "decode"},
         OnTop(s, "wsOpenFails") => f.op = "openFails"
  PROVE  /\ Shape(s) => Shape(t)
         /\ (f.op = "wsCancel" => ~Has(s, "cancel")) /\ CancelsAbove(s) => CancelsAbove(t)
<1>1. /\ Len(s) \in Nat /\ DOMAIN s = 1 .. Len(s) /\ DOMAIN t = 1 .. Len(s) + 1
      /\ Len(t) = Len(s) + 1 /\ t[1] = f
      /\ \A i \in 1 .. Len(s) : t[i + 1] = s[i] /\ s[i] \in ToSet(s)
      /\ s # <<>> => 1 \in 1 .. Len(s)
  BY Indices
<1>2. \A j \in 2 .. Len(s) + 1 : j - 1 \in 1 .. Len(s) /\ t[j] = s[j - 1]
  <2>1. ASSUME NEW j \in 2 .. Len(s) + 1 PROVE j - 1 \in 1 .. Len(s) /\ t[j] = s[j - 1]
    <3>1. j - 1 \in 1 .. Len(s) /\ (j - 1) + 1 = j
      BY <1>1, <2>1
    <3>2. QED
      BY <1>1, <3>1
  <2>2. QED
    BY <2>1
<1>3. ASSUME Shape(s) PROVE Shape(t)
  <2>1. ASSUME NEW i \in DOMAIN t, NEW j \in DOMAIN t, i < j, Tell(t[i], "peerClosed")
        PROVE  t[j].op \in {"consume", "decode"}
    <3>1. j \in 2 .. Len(s) + 1 /\ (i = 1 \/ i \in 2 .. Len(s) + 1)
      BY <1>1, <2>1
    <3>2. t[j] = s[j - 1] /\ j - 1 \in DOMAIN s /\ s[j - 1] \in ToSet(s)
      BY <1>1, <1>2, <3>1
    <3>3. CASE i = 1
      BY <1>1, <2>1, <3>2, <3>3
    <3>4. CASE i \in 2 .. Len(s) + 1
      <4>1. t[i] = s[i - 1] /\ i - 1 \in DOMAIN s /\ i - 1 < j - 1
        BY <1>1, <1>2, <2>1, <3>1, <3>4
      <4>2. QED
        BY <1>3, <2>1, <3>2, <4>1 DEF Shape
    <3>5. QED
      BY <3>1, <3>3, <3>4
  <2>2. ASSUME NEW i \in 1 .. Len(t) - 1, t[i + 1].op = "wsOpenFails"
        PROVE  t[i].op = "openFails"
    <3>1. t[i + 1] = s[i] /\ i \in 1 .. Len(s)
      BY <1>1, <2>2
    <3>2. CASE i = 1
      <4>1. s # <<>>
        BY <3>1, EmptySeq
      <4>2. QED
        BY <1>1, <2>2, <3>1, <3>2, <4>1 DEF OnTop
    <3>3. CASE i # 1
      <4>1. i - 1 \in 1 .. Len(s) - 1 /\ (i - 1) + 1 = i /\ i \in 2 .. Len(s) + 1
        BY <1>1, <3>1, <3>3
      <4>2. QED
        BY <1>2, <1>3, <2>2, <3>1, <4>1 DEF Shape
    <3>4. QED
      BY <3>2, <3>3
  <2>3. QED
    BY <2>1, <2>2 DEF Shape
<1>4. ASSUME CancelsAbove(s), f.op = "wsCancel" => ~Has(s, "cancel") PROVE CancelsAbove(t)
  <2>1. SUFFICES ASSUME NEW i \in DOMAIN t, NEW j \in DOMAIN t, i < j,
                        t[i].op = "wsCancel", t[j].op = "cancel"
                 PROVE  FALSE
    BY DEF CancelsAbove
  <2>2. j \in 2 .. Len(s) + 1 /\ (i = 1 \/ i \in 2 .. Len(s) + 1)
    BY <1>1, <2>1
  <2>3. t[j] = s[j - 1] /\ j - 1 \in DOMAIN s /\ s[j - 1] \in ToSet(s)
    BY <1>1, <1>2, <2>2
  <2>4. CASE i = 1
    BY <1>1, <1>4, <2>1, <2>3, <2>4 DEF Has
  <2>5. CASE i \in 2 .. Len(s) + 1
    <3>1. t[i] = s[i - 1] /\ i - 1 \in DOMAIN s /\ i - 1 < j - 1
      BY <1>1, <1>2, <2>1, <2>2, <2>5
    <3>2. QED
      BY <1>4, <2>1, <2>3, <3>1 DEF CancelsAbove
  <2>6. QED
    BY <2>2, <2>4, <2>5
<1>5. QED
  BY <1>3, <1>4

LEMMA ShapePop ==
  ASSUME NEW s, Stacked(s), s # <<>>
  PROVE  LET r == Tail(s) IN
         /\ Pushed(s, s[1], r)
         /\ Shape(s) =>
              /\ Shape(r) /\ (OnTop(r, "wsOpenFails") => s[1].op = "openFails")
              /\ Tell(s[1], "peerClosed") => \A g \in ToSet(r) : g.op \in {"consume", "decode"}
         /\ CancelsAbove(s) => CancelsAbove(r) /\ (s[1].op = "wsCancel" => ~Has(r, "cancel"))
<1> DEFINE r == Tail(s)
           f == s[1]
<1>0. Pushed(s, f, r)
  <2>1. /\ Stacked(r) /\ NoReport(r) /\ ToSet(s) = {f} \cup ToSet(r)
    BY StackedPop
  <2>2. f.op \notin AtOnce => NoReport(s)
    BY <2>1 DEF NoReport
  <2>3. QED
    BY <2>1, <2>2 DEF Pushed
<1>1. /\ Len(r) \in Nat /\ DOMAIN r = 1 .. Len(r) /\ DOMAIN s = 1 .. Len(r) + 1
      /\ Len(s) = Len(r) + 1 /\ s[1] = f
      /\ \A i \in 1 .. Len(r) : s[i + 1] = r[i] /\ r[i] \in ToSet(r)
      /\ r # <<>> => 1 \in 1 .. Len(r)
  BY <1>0, Indices
<1>2. \A g \in ToSet(r) : \E i \in 1 .. Len(r) : g = r[i] /\ i + 1 \in DOMAIN s /\ 1 < i + 1
  BY <1>1 DEF ToSet
<1> HIDE DEF r, f
<1>3. ASSUME Shape(s)
      PROVE  /\ Shape(r) /\ (OnTop(r, "wsOpenFails") => f.op = "openFails")
             /\ Tell(f, "peerClosed") => \A g \in ToSet(r) : g.op \in {"consume", "decode"}
  <2>1. ASSUME NEW i \in DOMAIN r, NEW j \in DOMAIN r, i < j, Tell(r[i], "peerClosed")
        PROVE  r[j].op \in {"consume", "decode"}
    <3>1. i + 1 \in DOMAIN s /\ j + 1 \in DOMAIN s /\ i + 1 < j + 1
      BY <1>1, <2>1
    <3>2. s[i + 1] = r[i] /\ s[j + 1] = r[j]
      BY <1>1, <2>1
    <3>3. QED
      BY <1>3, <2>1, <3>1, <3>2 DEF Shape
  <2>2. ASSUME NEW i \in 1 .. Len(r) - 1, r[i + 1].op = "wsOpenFails"
        PROVE  r[i].op = "openFails"
    <3>1. i \in 1 .. Len(r) /\ i + 1 \in 1 .. Len(r) /\ i + 1 \in 1 .. Len(s) - 1
      BY <1>1, <2>2
    <3>2. s[i + 1] = r[i] /\ s[(i + 1) + 1] = r[i + 1]
      BY <1>1, <3>1
    <3>3. QED
      BY <1>3, <2>2, <3>1, <3>2 DEF Shape
  <2>3. OnTop(r, "wsOpenFails") => f.op = "openFails"
    <3>1. r # <<>> => 1 \in 1 .. Len(s) - 1 /\ s[1 + 1] = r[1]
      BY <1>1
    <3>2. QED
      BY <1>1, <1>3, <3>1 DEF OnTop, Shape
  <2>4. ASSUME Tell(f, "peerClosed"), NEW g \in ToSet(r) PROVE g.op \in {"consume", "decode"}
    <3>1. PICK i \in 1 .. Len(r) : g = r[i] /\ i + 1 \in DOMAIN s /\ 1 < i + 1
      BY <1>2
    <3>2. s[i + 1] = g /\ 1 \in DOMAIN s
      BY <1>1, <3>1
    <3>3. QED
      BY <1>1, <1>3, <2>4, <3>1, <3>2 DEF Shape
  <2>5. QED
    BY <2>1, <2>2, <2>3, <2>4 DEF Shape
<1>4. ASSUME CancelsAbove(s)
      PROVE  CancelsAbove(r) /\ (f.op = "wsCancel" => ~Has(r, "cancel"))
  <2>1. ASSUME NEW i \in DOMAIN r, NEW j \in DOMAIN r, i < j
        PROVE  ~(r[i].op = "wsCancel" /\ r[j].op = "cancel")
    <3>1. i + 1 \in DOMAIN s /\ j + 1 \in DOMAIN s /\ i + 1 < j + 1
      BY <1>1, <2>1
    <3>2. s[i + 1] = r[i] /\ s[j + 1] = r[j]
      BY <1>1, <2>1
    <3>3. QED
      BY <1>4, <3>1, <3>2 DEF CancelsAbove
  <2>2. ASSUME f.op = "wsCancel", NEW g \in ToSet(r) PROVE g.op # "cancel"
    <3>1. PICK i \in 1 .. Len(r) : g = r[i] /\ i + 1 \in DOMAIN s /\ 1 < i + 1
      BY <1>2
    <3>2. s[i + 1] = g /\ 1 \in DOMAIN s
      BY <1>1, <3>1
    <3>3. QED
      BY <1>1, <1>4, <2>2, <3>1, <3>2 DEF CancelsAbove
  <2>3. QED
    BY <2>1, <2>2 DEF CancelsAbove, Has
<1>5. QED
  BY <1>0, <1>3, <1>4 DEF f, r

(* t comes from s by what the client does.                                  *)
WsOf(s) == {f \in ToSet(s) : f.op \in WsOps \cup {"destroyed"}}
From(t, s) ==
  /\ WsOf(t) = WsOf(s) /\ (CancelsAbove(s) => CancelsAbove(t))
  /\ Has(t, "cancel") => Has(s, "cancel")
  /\ Has(t, "sent") => Has(s, "sent") \/ s = <<>>
  /\ received = <<>> /\ Has(s, "consume") => Has(t, "consume")
  /\ Peer(t) => Peer(s) \/ uws_state = "OPEN"
  /\ OnTop(t, "wsOpenFails") => OnTop(s, "openFails")

(* What the client may put something on.                                    *)
Base(s) == Stacked(s) /\ NoReport(s) /\ Shape(s) /\ Calm(s) /\ ~OnTop(s, "wsOpenFails")

LEMMA FromItself == ASSUME NEW s, ~OnTop(s, "wsOpenFails") PROVE From(s, s)
BY DEF From

LEMMA EmptyBase ==
  /\ Base(<<>>) /\ CancelsAbove(<<>>) /\ WsOf(<<>>) = {} /\ ~Peer(<<>>) /\ StackFits(<<>>)
  /\ \A t : From(t, <<>>) /\ Stacked(t) => CancelsAbove(t)
<1>1. /\ Stacked(<<>>) /\ NoReport(<<>>) /\ ToSet(<<>>) = {}
      /\ \A o : ~Has(<<>>, o) /\ ~OnTop(<<>>, o)
  BY EmptyStack, HasNothing
<1>2. Shape(<<>>) /\ CancelsAbove(<<>>)
  BY DEF Shape, CancelsAbove
<1>3. QED
  BY <1>1, <1>2 DEF Base, Calm, WsOf, Peer, StackFits, From

LEMMA CalmPop ==
  ASSUME NEW s, Stacked(s), s # <<>>, Calm(s) PROVE Calm(Tail(s))
<1>0. \A r \in Seq(FrameSet) : Len(r) = 1 => DOMAIN r = {1}
  OBVIOUS
<1>1. /\ ToSet(s) = {s[1]} \cup ToSet(Tail(s)) /\ Stacked(Tail(s))
      /\ s[1].op = "consume" => Tail(s) = <<>> \/ (Len(Tail(s)) = 1 /\ Tail(s)[1].op = "decode")
  BY StackedPop
<1>2. Has(s, "consume") => s[1].op = "consume" \/ Has(Tail(s), "consume")
  BY <1>1 DEF Has
<1>3. ASSUME s[1].op = "consume" PROVE ~Peer(Tail(s)) /\ ~Has(Tail(s), "wsNotOpen")
  <2>1. CASE Tail(s) = <<>>
    BY <2>1, EmptyBase, HasNothing
  <2>2. CASE Len(Tail(s)) = 1 /\ Tail(s)[1].op = "decode"
    <3>1. Tail(s) \in Seq(FrameSet)
      BY <1>1 DEF Stacked
    <3>2. DOMAIN Tail(s) = {1}
      BY <1>0, <2>2, <3>1
    <3>3. \A f \in ToSet(Tail(s)) : f.op = "decode"
      BY <2>2, <3>2 DEF ToSet
    <3>4. QED
      BY <3>3 DEF Peer, Tell, Has
  <2>3. QED
    BY <1>1, <1>3, <2>1, <2>2
<1>4. /\ Peer(Tail(s)) => Peer(s)
      /\ Has(Tail(s), "wsNotOpen") => Has(s, "wsNotOpen")
  BY <1>1 DEF Peer, Has
<1>5. QED
  BY <1>1, <1>2, <1>3, <1>4 DEF Calm

(* A frame of the client, or a callback that it makes.                      *)
LEMMA Pushes ==
  ASSUME NEW r, NEW s, Base(s), From(s, r), NEW f, NEW t, Pushed(t, f, s),
         f.op \in (ClientOps \cup {"user"}) \ {"respond", "cancel", "sent", "destroyed"},
         ~Tell(f, "peerClosed")
  PROVE  /\ Stacked(t) /\ StackFits(t) /\ From(t, r) /\ t # <<>> /\ t[1] = f /\ Tail(t) = s
         /\ ~OnTop(t, "wsOpenFails")
         /\ f.op # "user" => Calm(t)
         /\ f.op \notin AtOnce /\ f.op # "user" => Base(t)
<1>1. /\ Stacked(t) /\ t # <<>> /\ t[1] = f /\ Tail(t) = s /\ ToSet(t) = {f} \cup ToSet(s)
      /\ f.op \notin AtOnce => NoReport(t)
  BY DEF Pushed
<1>2. f.op \notin WsOps \cup {"respond", "cancel", "sent", "destroyed"}
  BY UserOpsAssumption, WsAssumption DEF WsOps, ClientOps
<1>3. /\ Shape(s) => Shape(t)
      /\ CancelsAbove(s) => CancelsAbove(t)
  <2>1. f.op # "wsCancel"
    BY <1>2 DEF WsOps
  <2>2. QED
    BY <2>1, ShapePush DEF Base
<1>4. \A o : Has(t, o) <=> o = f.op \/ Has(s, o)
  BY <1>1 DEF Has
<1>5. /\ WsOf(t) = WsOf(s) /\ (Peer(t) => Peer(s)) /\ ~OnTop(t, "wsOpenFails")
  BY <1>1, <1>2 DEF WsOf, Peer, OnTop, WsOps
<1>6. From(t, r)
  BY <1>2, <1>3, <1>4, <1>5 DEF From
<1>7. f.op # "user" => Calm(t)
  <2>1. f.op # "wsNotOpen"
    BY <1>2 DEF WsOps
  <2>2. QED
    BY <1>1, <1>2, <1>4, <1>5, <2>1 DEF Base, Calm
<1>8. StackFits(t)
  BY <1>1, <1>3, <1>7 DEF StackFits, Base
<1>9. QED
  BY <1>1, <1>3, <1>5, <1>6, <1>7, <1>8 DEF Base

(* What a call of the io reports.                                           *)
LEMMA Reporting ==
  ASSUME NEW r, NEW s, Base(s), From(s, r), NEW c, Reported(c),
         c # <<>> => c[1].op # "sent"
  PROVE  /\ Stacked(c \o s) /\ StackFits(c \o s) /\ From(c \o s, r) /\ Calm(c \o s)
         /\ ~OnTop(c \o s, "wsOpenFails")
<1>1. CASE c = <<>>
  <2>1. c \o s = s
    BY <1>1, PutReported DEF Base
  <2>2. s # <<>> => Calm(Tail(s))
    BY CalmPop DEF Base
  <2>3. QED
    BY <2>1, <2>2 DEF Base, StackFits
<1>2. CASE \E f \in FrameSet : f.op \in AtOnce /\ c = <<f>>
  <2>1. PICK f \in FrameSet : f.op \in AtOnce /\ c = <<f>>
    BY <1>2
  <2>2. f.op # "sent" /\ f.op \in {"opened", "closed", "closeSent"}
    BY <2>1 DEF AtOnce
  <2>3. Pushed(c \o s, f, s)
    <3>1. Fits(f, s)
      BY <2>2 DEF Fits, Base
    <3>2. f.op \in AtOnce
      BY <2>1
    <3>3. QED
      BY <2>1, <3>1, <3>2, StackedPush DEF Pushed, Base
  <2>4. /\ f.op \in (ClientOps \cup {"user"}) \ {"respond", "cancel", "sent", "destroyed"}
        /\ ~Tell(f, "peerClosed") /\ f.op # "user"
    BY <2>2 DEF ClientOps, Tell
  <2>5. QED
    BY <2>3, <2>4, Pushes
<1>3. CASE c = Opened("CANCELLED") \o Call("tlsCloses")
  <2> DEFINE u == Call("tlsCloses") \o s
             f == CallFrame("tlsCloses")
             g == [op |-> "opened", ev |-> "CANCELLED", n |-> 0]
  <2>1. Pushed(u, f, s) /\ NoReport(u)
    BY PutCall DEF Base, Anywhere, AllOps, ClientOps, AtOnce
  <2>2. f.op = "tlsCloses" /\ g.op = "opened"
    BY DEF CallFrame
  <2>3. c \o s = Frame("opened", "CANCELLED", 0) \o u
    <3>1. /\ Opened("CANCELLED") \in Seq(FrameSet) /\ Call("tlsCloses") \in Seq(FrameSet)
          /\ s \in Seq(FrameSet)
      BY DEF Opened, Call, Frame, FrameSet, AllOps, ClientOps, Evs, Base, Stacked
    <3> DEFINE a == Opened("CANCELLED")
               k == Call("tlsCloses")
    <3>2. a \in Seq(FrameSet) /\ k \in Seq(FrameSet) /\ c = a \o k
      BY <1>3, <3>1
    <3> HIDE DEF a, k
    <3>a. a \in Seq(FrameSet) /\ k \in Seq(FrameSet) /\ s \in Seq(FrameSet)
      BY <3>1, <3>2
    <3>3. (a \o k) \o s = a \o (k \o s)
      BY <3>a, Appended
    <3>4. QED
      BY <3>2, <3>3 DEF a, k, Opened
  <2>4. Stacked(u)
    BY <2>1 DEF Pushed
  <2>5. Pushed(Frame("opened", "CANCELLED", 0) \o u, g, u)
    BY <2>1, <2>4, Put DEF Anywhere, AllOps, ClientOps, Evs
  <2> HIDE DEF u, f, g
  <2>6. Base(u) /\ From(u, r)
    <3>1. /\ f.op \in (ClientOps \cup {"user"}) \ {"respond", "cancel", "sent", "destroyed"}
          /\ ~Tell(f, "peerClosed") /\ f.op # "user" /\ f.op \notin AtOnce
      BY <2>2 DEF ClientOps, Tell, AtOnce
    <3>2. QED
      BY <2>1, <3>1, Pushes
  <2>7. /\ g.op \in (ClientOps \cup {"user"}) \ {"respond", "cancel", "sent", "destroyed"}
        /\ ~Tell(g, "peerClosed") /\ g.op # "user"
    BY <2>2 DEF ClientOps, Tell
  <2>8. QED
    BY <2>3, <2>5, <2>6, <2>7, Pushes
<1>4. QED
  BY <1>1, <1>2, <1>3 DEF Reported

(* A step of the client, as wsio sees it.                                   *)
Low == uws_state \in {"CLOSED", "CLOSING_SENDING_CLOSE", "CLOSING_UNDERLYING_IO"}
Tells ==
  /\ Tops(stack, "open") =>
       /\ answers # <<>>
       /\ \/ Last(answers) = "OK" /\ uws_state = "OPEN"
          \/ Last(answers) = "ERROR" /\ uws_state = "CLOSED"
  /\ Tops(stack, "closed") => uws_state = "CLOSED"
  /\ Tops(stack, "error") => uws_state = "ERROR"
  /\ OnTop(stack, "wsOpenFails") => uws_state = "CLOSED"
  /\ OnTop(stack, "respond") => uws_state = "CLOSING_SENDING_CLOSE"

Plain ==
  /\ UNCHANGED <<asked, on_ws_close_complete, sends, accepted, opens, reopened>>
  /\ ToSet(pending_sends') \subseteq ToSet(pending_sends)
  /\ Doomed => received' = <<>>
Shifts ==
  \/ Low' \/ UNCHANGED uws_state
  \/ uws_state \in {"OPEN", "ERROR"} /\ uws_state' = "ERROR"
  \/ uws_state = "OPENING_UNDERLYING_IO" /\ uws_state' = "WAITING_FOR_UPGRADE_RESPONSE"
  \/ uws_state = "WAITING_FOR_UPGRADE_RESPONSE" /\ uws_state' = "OPEN" /\ Tops(stack', "open")
Works ==
  /\ Plain /\ Shifts
  /\ StackFits(stack') /\ From(stack', stack) /\ Tells'
  /\ \/ answers' = answers /\ ~Tops(stack', "open")
     \/ \E a \in {"OK", "ERROR"} : answers' = Append(answers, a)
  /\ Tops(stack', "sent") =>
       /\ stack'[1].n \in ToSet(pending_sends) \ ToSet(pending_sends')
       /\ Has(stack, "sent") \/ Has(stack, "cancel")

LEMMA Below ==
  ASSUME IInv, StackFits(stack), Running, stack[1].op \in ClientOps \ {"destroyed"}
  PROVE  /\ Types /\ Stacked(stack) /\ Stacked(Rest) /\ NoReport(Rest) /\ Calm(Rest)
         /\ StackFits(Rest)
         /\ received # <<>> \/ stack[1].op # "consume" => From(Rest, stack)
         /\ stack[1].op # "openFails" => Base(Rest)
         /\ OnTop(Rest, "wsOpenFails") => stack[1].op = "openFails"
         /\ stack[1].op # "respond" => Calm(stack)
         /\ stack[1].op \in {"decode", "masked"} => Rest = <<>>
<1>1. /\ Types /\ Stacked(stack) /\ stack # <<>> /\ Shape(stack) /\ Calm(Rest)
  BY DEF IInv, Running, StackFits, Rest
<1>2. /\ Stacked(Rest) /\ NoReport(Rest) /\ ToSet(stack) = {stack[1]} \cup ToSet(Rest)
      /\ stack[1].op \in {"decode", "masked"} => Rest = <<>>
  BY <1>1, StackedPop DEF Rest
<1>3. /\ Shape(Rest) /\ (OnTop(Rest, "wsOpenFails") => stack[1].op = "openFails")
      /\ CancelsAbove(stack) => CancelsAbove(Rest)
  BY <1>1, ShapePop DEF Rest
<1>4. stack[1].op \notin WsOps \cup {"user"}
  BY UserOpsAssumption, WsAssumption
<1>5. \A o : Has(stack, o) <=> o = stack[1].op \/ Has(Rest, o)
  BY <1>2 DEF Has
<1>6. WsOf(Rest) = WsOf(stack)
  BY <1>2, <1>4 DEF WsOf
<1>7. received # <<>> \/ stack[1].op # "consume" => From(Rest, stack)
  <2>1. Peer(Rest) => Peer(stack)
    BY <1>2 DEF Peer
  <2>2. OnTop(Rest, "wsOpenFails") => OnTop(stack, "openFails")
    BY <1>1, <1>3 DEF OnTop
  <2>3. QED
    BY <1>3, <1>5, <1>6, <2>1, <2>2 DEF From
<1>8. StackFits(Rest)
  <2>1. Rest # <<>> => Calm(Tail(Rest))
    BY <1>1, <1>2, CalmPop
  <2>2. QED
    BY <1>1, <1>3, <2>1 DEF StackFits
<1>9. stack[1].op # "respond" => Calm(stack)
  BY <1>4 DEF StackFits
<1>10. QED
  BY <1>1, <1>2, <1>3, <1>7, <1>8, <1>9 DEF Base

LEMMA SilentWorks ==
  ASSUME Plain, Shifts, Stacked(stack'), StackFits(stack'), From(stack', stack), Calm(stack'),
         OnTop(stack', "wsOpenFails") => uws_state' = "CLOSED", UNCHANGED answers
  PROVE  Works
<1>1. ~OnTop(stack', "respond") /\ \A ev : Tops(stack', ev) => ev = "peerClosed"
  <2>1. stack' # <<>> => stack'[1] \in ToSet(stack')
    BY TopIn
  <2>2. QED
    BY <2>1 DEF Calm, OnTop, Tops, Tell
<1>2. Tells'
  <2>1. \A ev \in {"open", "closed", "error"} : ~Tops(stack', ev)
    BY <1>1
  <2>2. QED
    BY <1>1, <2>1 DEF Tells
<1>3. ~Tops(stack', "open") /\ ~Tops(stack', "sent")
  BY <1>1
<1>4. QED
  BY <1>2, <1>3 DEF Works

(* A frame of the client returns.                                           *)
LEMMA PopWorks ==
  ASSUME IInv, StackFits(stack), Running, stack[1].op \in ClientOps \ {"destroyed"},
         stack' = Rest, Plain, Shifts, UNCHANGED answers,
         stack[1].op = "openFails" => uws_state' = "CLOSED",
         received # <<>> \/ stack[1].op # "consume"
  PROVE  Works
BY Below, SilentWorks

(* A callback of the client, on what is left of it.                         *)
LEMMA UserWorks ==
  ASSUME Types, NEW ev \in {"open", "frame", "error", "closed"}, NEW b, Base(b), From(b, stack),
         stack' = User(ev) \o b, Plain, Shifts,
         IF ev = "open"
           THEN \/ answers' = Append(answers, "OK") /\ uws_state' = "OPEN"
                \/ answers' = Append(answers, "ERROR") /\ uws_state' = "CLOSED"
           ELSE UNCHANGED answers,
         ev = "error" => uws_state' = "ERROR", ev = "closed" => uws_state' = "CLOSED"
  PROVE  Works
<1> DEFINE f == UserFrame(ev)
           t == User(ev) \o b
<1>1. Pushed(t, f, b) /\ f.op = "user" /\ f.ev = ev /\ stack' = t
  BY PutUser DEF UserFrame, Base, Events
<1> HIDE DEF f, t
<1>2. /\ f.op \in (ClientOps \cup {"user"}) \ {"respond", "cancel", "sent", "destroyed"}
      /\ ~Tell(f, "peerClosed")
  BY <1>1, UserOpsAssumption DEF ClientOps, Tell
<1>3. /\ StackFits(t) /\ From(t, stack) /\ t # <<>> /\ t[1] = f /\ ~OnTop(t, "wsOpenFails")
      /\ stack' = t
  BY <1>1, <1>2, Pushes
<1>4. \A e : Tops(stack', e) <=> e = ev
  BY <1>1, <1>3 DEF Tops, Tell
<1>5. ~OnTop(stack', "respond")
  BY <1>1, <1>3 DEF OnTop
<1>6. ASSUME NEW a \in {"OK", "ERROR"}
      PROVE  Append(answers, a) # <<>> /\ Last(Append(answers, a)) = a
  <2>1. answers \in Seq({"OK", "ERROR"})
    BY DEF Types
  <2>2. QED
    BY <1>6, <2>1 DEF Last
<1>7. Tells'
  BY <1>3, <1>4, <1>5, <1>6 DEF Tells
<1>8. QED
  BY <1>3, <1>4, <1>7 DEF Works

LEMMA ReportsNoSend ==
  ASSUME Types, NEW callback \in BOOLEAN
  PROVE  LET c == XioClose(callback).calls IN Reported(c) /\ (c # <<>> => c[1].op # "sent")
<1> DEFINE c == XioClose(callback).calls
<1>1. /\ Reported(c)
      /\ c \in {<<>>, Call("closed"), Opened("CANCELLED"),
                Opened("CANCELLED") \o Call("tlsCloses")}
  BY XioCloses
<1>2. /\ Call("closed")[1].op = "closed" /\ Opened("CANCELLED")[1].op = "opened"
      /\ (Opened("CANCELLED") \o Call("tlsCloses"))[1].op = "opened"
  BY DEF Call, Opened, Frame
<1> HIDE DEF c
<1>3. QED
  BY <1>1, <1>2 DEF c

(* The client closes its io, and goes on.                                   *)
LEMMA CloseWorks ==
  ASSUME Types, NEW callback \in BOOLEAN, NEW b, Base(b), From(b, stack),
         stack' = XioClose(callback).calls \o b, Plain, Shifts, UNCHANGED answers
  PROVE  Works
<1> DEFINE c == XioClose(callback).calls
<1>1. Reported(c) /\ (c # <<>> => c[1].op # "sent")
  BY ReportsNoSend
<1>2. stack' = c \o b
  OBVIOUS
<1> HIDE DEF c
<1>3. /\ Stacked(stack') /\ StackFits(stack') /\ From(stack', stack) /\ Calm(stack')
      /\ ~OnTop(stack', "wsOpenFails")
  BY <1>1, <1>2, Reporting
<1>4. QED
  BY <1>2, <1>3, SilentWorks

LEMMA BreakWorks ==
  ASSUME Types, NEW b, Base(b), From(b, stack), IndicateOpenErrorAndClose(b), Plain
  PROVE  Works
<1> DEFINE e == Call("openError") \o b
           f == CallFrame("openError")
           c == XioClose(FALSE).calls
<1>1. Pushed(e, f, b) /\ f.op = "openError"
  BY PutCall DEF Base, Anywhere, AllOps, ClientOps, CallFrame
<1>2. stack' = c \o e
  <2> DEFINE k == Call("openError")
  <2>1. k \in Seq(FrameSet) /\ b \in Seq(FrameSet)
    BY DEF Call, Frame, FrameSet, AllOps, ClientOps, Evs, Base, Stacked
  <2>2. c \in Seq(FrameSet)
    BY XioCloses, EmptyStack, PutReported
  <2>3. stack' = (c \o k) \o b
    BY DEF IndicateOpenErrorAndClose
  <2> HIDE DEF k, c
  <2>4. (c \o k) \o b = c \o (k \o b)
    BY <2>1, <2>2, Appended
  <2>5. QED
    BY <2>3, <2>4 DEF k
<1>3. Base(e) /\ From(e, stack)
  <2> HIDE DEF e, f
  <2>1. /\ f.op \in (ClientOps \cup {"user"}) \ {"respond", "cancel", "sent", "destroyed"}
        /\ ~Tell(f, "peerClosed") /\ f.op \notin AtOnce /\ f.op # "user"
    BY <1>1 DEF ClientOps, Tell, AtOnce
  <2>2. QED
    BY <1>1, <2>1, Pushes
<1>4. UNCHANGED <<answers, uws_state>>
  BY DEF IndicateOpenErrorAndClose
<1>5. Shifts
  BY <1>4 DEF Shifts
<1>6. QED
  BY <1>2, <1>3, <1>4, <1>5, CloseWorks

Core == IInv /\ Connects /\ Streams /\ Completing
Whole == Core /\ StackFits(stack) /\ Tells /\ asked # "handshake"

(* The frames that only return.                                             *)
LEMMA ReturnsWork ==
  ASSUME Whole, Running,
         \/ OpenFails \/ ToClosed \/ TlsCloses \/ SendFails
         \/ Top("decode") /\ (DecodesNothing \/ DecodePart)
  PROVE  Works
<1>1. IInv /\ StackFits(stack) /\ Types /\ stack[1].op \in ClientOps \ {"destroyed"}
      /\ stack[1].op # "consume" /\ stack' = Rest
      /\ (stack[1].op = "openFails" => uws_state' = "CLOSED")
  BY DEF Whole, Core, IInv, OpenFails, ToClosed, TlsCloses, SendFails, DecodesNothing, DecodePart,
         Top, ClientOps
<1>2. Shifts /\ UNCHANGED answers
  BY DEF OpenFails, ToClosed, TlsCloses, SendFails, DecodesNothing, DecodePart, Shifts, Low,
         clientVars, history
<1>3. /\ UNCHANGED <<asked, on_ws_close_complete, sends, accepted, opens, reopened, received>>
      /\ pending_sends' = pending_sends \/ pending_sends' = Without(pending_sends, stack[1].n)
  BY DEF OpenFails, ToClosed, TlsCloses, SendFails, DecodesNothing, DecodePart,
         clientVars, history, opening, sendHistory
<1>4. Plain
  <2>1. ToSet(pending_sends') \subseteq ToSet(pending_sends)
    BY <1>1, <1>3, WithoutElements DEF Core, Whole, IInv, Accounts, Types
  <2>2. QED
    BY <1>3, <2>1 DEF Plain, Doomed
<1>5. QED
  BY <1>1, <1>2, <1>4, PopWorks

LEMMA ConsumeWorks == ASSUME Whole, Running, ConsumeReceivedBytes PROVE Works
<1>1. /\ IInv /\ StackFits(stack) /\ Types /\ stack[1].op = "consume"
      /\ stack[1].op \in ClientOps \ {"destroyed"} /\ stack # <<>> /\ Stacked(stack)
  BY DEF Whole, Core, IInv, Running, ConsumeReceivedBytes, Top, ClientOps
<1>2. stack[1].n \in {2, 3}
  <2>1. stack[1] \in Eats(stack)
    BY <1>1, TopIn DEF Eats
  <2>2. QED
    BY <2>1 DEF Whole, Core, Streams, Flowing, ConsumeFits
<1>3. UNCHANGED <<asked, on_ws_close_complete, sends, accepted, opens, reopened, pending_sends,
                  answers, uws_state>>
  BY DEF ConsumeReceivedBytes, history, opening, sendHistory
<1>4. Shifts
  BY <1>3 DEF Shifts
<1>5. CASE Len(received) >= stack[1].n /\ stack' = Rest
  <2>1. received # <<>>
    BY <1>2, <1>5
  <2>2. Plain
    BY <1>3, <2>1 DEF Plain, Doomed
  <2>3. QED
    BY <1>1, <1>3, <1>4, <1>5, <2>1, <2>2, PopWorks
<1>6. CASE UNCHANGED <<received, stack>>
  <2>1. Calm(stack) /\ Stacked(stack) /\ ~OnTop(stack, "wsOpenFails")
    BY <1>1, Below DEF OnTop
  <2>2. From(stack, stack)
    BY <2>1, FromItself
  <2>3. Plain
    BY <1>3, <1>6 DEF Plain, Doomed
  <2>4. QED
    BY <1>1, <1>3, <1>4, <1>6, <2>1, <2>2, <2>3, SilentWorks
<1>7. QED
  BY <1>5, <1>6 DEF ConsumeReceivedBytes

(* What a frame of the decoder leaves.                                      *)
LEMMA DecoderBase ==
  ASSUME Whole, Running, stack[1].op \in {"decode", "masked"}
  PROVE  /\ Rest = <<>> /\ Types /\ stack[1].op \in ClientOps \ {"destroyed"}
         /\ Base(Rest) /\ From(Rest, stack)
         /\ Base(Call("decode")) /\ From(Call("decode"), stack)
         /\ \A n \in Nat :
              /\ Base(Consume(n)) /\ From(Consume(n), stack)
              /\ Base(Consume(n) \o Call("decode")) /\ From(Consume(n) \o Call("decode"), stack)
         /\ Base(Call("masked")) /\ From(Call("masked"), stack)
         /\ ~Has(stack, "consume") /\ uws_state # "CLOSING_WAITING_FOR_CLOSE"
<1>1. stack[1].op \in ClientOps \ {"destroyed"} /\ IInv /\ StackFits(stack)
  BY DEF Whole, Core, ClientOps
<1>2. Rest = <<>> /\ Types /\ Base(Rest) /\ From(Rest, stack)
  BY <1>1, Below
<1>3. /\ ~Has(stack, "consume") /\ uws_state # "CLOSING_WAITING_FOR_CLOSE"
  <2>1. \A o : Has(stack, o) <=> o = stack[1].op \/ Has(Rest, o)
    BY RunningFacts DEF Whole, Core
  <2>2. QED
    BY <1>2, <2>1, HasNothing DEF Whole, Core, Streams, Flowing, AskedFits
<1> DEFINE Good(t) == Base(t) /\ From(t, stack)
<1>4. ASSUME NEW s, Good(s), NEW t, NEW f, Pushed(t, f, s), f.op \in {"decode", "masked", "consume"}
      PROVE  Good(t)
  <2>1. /\ f.op \in (ClientOps \cup {"user"}) \ {"respond", "cancel", "sent", "destroyed"}
        /\ ~Tell(f, "peerClosed") /\ f.op \notin AtOnce /\ f.op # "user"
    BY <1>4 DEF ClientOps, Tell, AtOnce
  <2>2. Base(s) /\ From(s, stack)
    BY <1>4
  <2>3. QED
    BY <1>4, <2>1, <2>2, Pushes
<1>5. Good(<<>>)
  BY <1>2
<1> HIDE DEF Good
<1>6. Good(Call("decode")) /\ Good(Call("masked"))
  <2>1. Pushed(Call("decode"), CallFrame("decode"), <<>>)
    <3>1. /\ Stacked(Call("decode")) /\ Call("decode") # <<>>
          /\ Call("decode")[1] = CallFrame("decode") /\ Tail(Call("decode")) = <<>>
      BY DecodeAlone DEF Call, Frame, CallFrame
    <3>2. NoReport(Call("decode")) /\ ToSet(Call("decode")) = {CallFrame("decode")}
      BY DecodeAlone
    <3>3. QED
      BY <3>1, <3>2, EmptyStack DEF Pushed
  <2>2. Pushed(Call("masked"), CallFrame("masked"), <<>>)
    BY DecoderPuts
  <2>3. CallFrame("decode").op = "decode" /\ CallFrame("masked").op = "masked"
    BY DEF CallFrame
  <2>4. QED
    BY <1>4, <1>5, <2>1, <2>2, <2>3
<1>7. ASSUME NEW n \in Nat PROVE Good(Consume(n)) /\ Good(Consume(n) \o Call("decode"))
  <2> DEFINE f == [op |-> "consume", ev |-> "none", n |-> n]
  <2>1. /\ Pushed(Consume(n), f, <<>>) /\ Pushed(Consume(n) \o Call("decode"), f, Call("decode"))
        /\ f.op = "consume"
    BY DecoderPuts
  <2> HIDE DEF f
  <2>2. QED
    BY <1>4, <1>5, <1>6, <2>1
<1>8. QED
  BY <1>1, <1>2, <1>3, <1>6, <1>7 DEF Good

LEMMA DecodesWork ==
  ASSUME Whole, Running,
         \/ Top("decode") /\ (DecodeBad \/ DecodeMasked \/ DecodeData \/ DecodePing \/ DecodePong)
         \/ Masked
  PROVE  Works
<1>1. stack[1].op \in {"decode", "masked"}
  BY DEF Top, Masked
<1>2. /\ Rest = <<>> /\ Types /\ stack[1].op \in ClientOps \ {"destroyed"}
      /\ Base(Rest) /\ From(Rest, stack)
      /\ Base(Call("decode")) /\ From(Call("decode"), stack)
      /\ \A n \in Nat :
           /\ Base(Consume(n)) /\ From(Consume(n), stack)
           /\ Base(Consume(n) \o Call("decode")) /\ From(Consume(n) \o Call("decode"), stack)
      /\ Base(Call("masked")) /\ From(Call("masked"), stack)
      /\ ~Has(stack, "consume") /\ uws_state # "CLOSING_WAITING_FOR_CLOSE"
  BY <1>1, DecoderBase
<1>3. /\ UNCHANGED <<asked, on_ws_close_complete, sends, accepted, opens, reopened, pending_sends,
                     answers, received>>
      /\ Plain
  <2>1. UNCHANGED <<asked, on_ws_close_complete, sends, accepted, opens, reopened, pending_sends,
                    answers, received>>
    BY DEF DecodeBad, DecodeMasked, DecodeData, DecodePing, DecodePong, Masked, clientVars,
           history, opening, sendHistory
  <2>2. QED
    BY <2>1 DEF Plain, Doomed
<1>4. \A q \in Seq(FrameSet) : q \o <<>> = q
  OBVIOUS
<1>5. /\ Call("decode") \o Rest = Call("decode") /\ Call("masked") \o Rest = Call("masked")
      /\ \A n \in Nat : Consume(n) \o Rest = Consume(n)
  BY <1>2, <1>4 DEF Base, Stacked
<1>6. CASE \/ Top("decode") /\ (DecodeBad \/ DecodeMasked)
  <2>1. uws_state' = "ERROR" /\ uws_state = "OPEN"
    BY <1>2, <1>6 DEF DecodeBad, DecodeMasked, IndicateError, InFrames
  <2>2. \E b \in {Rest, Call("masked")} : stack' = User("error") \o b
    BY <1>5, <1>6 DEF DecodeBad, DecodeMasked, IndicateError
  <2>3. Shifts
    BY <2>1 DEF Shifts
  <2>4. QED
    BY <1>2, <1>3, <2>1, <2>2, <2>3, UserWorks
<1>7. CASE \/ Top("decode") /\ DecodeData
           \/ Masked /\ stack' # Rest
  <2>1. uws_state' = uws_state
    BY <1>7 DEF DecodeData, Masked, clientVars
  <2>2. \E n \in {2, 3} : stack' = User("frame") \o (Consume(n) \o Call("decode"))
    <3>1. \E n \in {2, 3} : stack' = ((User("frame") \o Consume(n)) \o Call("decode")) \o Rest
      BY <1>7 DEF DecodeData, Masked
    <3>2. PICK n \in {2, 3} : stack' = ((User("frame") \o Consume(n)) \o Call("decode")) \o Rest
      BY <3>1
    <3>a. User("frame") \in Seq(FrameSet)
      BY UserOpsAssumption DEF User, Frame, FrameSet, AllOps, Evs, Events
    <3> DEFINE a == User("frame")
               c == Consume(n)
               d == Call("decode")
    <3>3. a \in Seq(FrameSet) /\ c \in Seq(FrameSet) /\ d \in Seq(FrameSet)
      BY <1>2, <3>a DEF Base, Stacked
    <3>4. stack' = ((a \o c) \o d) \o <<>>
      BY <1>2, <3>2
    <3> HIDE DEF a, c, d
    <3>5. ((a \o c) \o d) \o <<>> = a \o (c \o d)
      <4>1. (a \o c) \o d = a \o (c \o d)
        BY <3>3, Appended
      <4>2. a \o c \in Seq(FrameSet)
        BY <3>3
      <4>3. (a \o c) \o d \in Seq(FrameSet)
        BY <3>3, <4>2
      <4>4. QED
        BY <1>4, <4>1, <4>3
    <3>6. QED
      BY <3>4, <3>5 DEF a, c, d
  <2>3. Shifts
    BY <2>1 DEF Shifts
  <2>4. PICK n \in {2, 3} : stack' = User("frame") \o (Consume(n) \o Call("decode"))
    BY <2>2
  <2>5. QED
    BY <1>2, <1>3, <2>3, <2>4, UserWorks
<1>8. CASE \/ Top("decode") /\ (DecodePing \/ DecodePong)
           \/ Masked /\ stack' = Rest
  <2>1. uws_state' = uws_state \/ (uws_state = "OPEN" /\ uws_state' = "ERROR")
    BY <1>2, <1>8 DEF DecodePing, DecodePong, Masked, clientVars, Complete, InFrames
  <2>2. \E b \in {Rest, Consume(2)} : stack' = b
    BY <1>5, <1>8 DEF DecodePing, DecodePong
  <2>3. Shifts
    BY <2>1 DEF Shifts
  <2>4. PICK b \in {Rest, Consume(2)} : stack' = b
    BY <2>2
  <2>5. Base(b) /\ From(b, stack)
    BY <1>2, <2>4
  <2>6. /\ Stacked(b) /\ Calm(b) /\ StackFits(b) /\ ~OnTop(b, "wsOpenFails")
    BY <2>5, CalmPop DEF Base, StackFits
  <2>7. QED
    BY <1>3, <2>3, <2>4, <2>5, <2>6, SilentWorks
<1>9. QED
  BY <1>6, <1>7, <1>8

LEMMA NotRefused ==
  ASSUME Whole, uws_state \in {"OPEN", "CLOSING_SENDING_CLOSE"} PROVE XioClose(TRUE).ok
<1>1. under = "open"
  BY DEF Whole, Core, Completing, UnderFits, UsesIo
<1>2. QED
  BY <1>1, EmptyStack, RefusedClose DEF Whole, Core, IInv

LEMMA ResponseWorks ==
  ASSUME Whole, Running, Top("decode"), DecodeResponse \/ DecodeTooEarly PROVE Works
<1>1. stack[1].op = "decode"
  BY DEF Top
<1>2. /\ Rest = <<>> /\ Types /\ stack[1].op \in ClientOps \ {"destroyed"} /\ IInv
      /\ StackFits(stack) /\ Base(Rest) /\ From(Rest, stack)
      /\ Base(Call("decode")) /\ From(Call("decode"), stack) /\ ~Has(stack, "consume")
  BY <1>1, DecoderBase DEF Whole, Core
<1>3. Plain
  <2>1. UNCHANGED <<asked, on_ws_close_complete, sends, accepted, opens, reopened, pending_sends>>
    BY DEF DecodeResponse, DecodeTooEarly, opening, sendHistory
  <2>2. QED
    BY <1>2, <2>1 DEF Plain, Doomed
<1>4. CASE IndicateOpenErrorAndClose(Rest)
  BY <1>2, <1>3, <1>4, BreakWorks
<1>5. CASE stack' = Rest /\ UNCHANGED <<uws_state, answers>>
  <2>1. Shifts
    BY <1>5 DEF Shifts
  <2>2. QED
    BY <1>1, <1>2, <1>3, <1>5, <2>1, PopWorks DEF Whole
<1>6. CASE /\ uws_state' = "OPEN" /\ answers' = Append(answers, "OK")
           /\ uws_state = "WAITING_FOR_UPGRADE_RESPONSE"
           /\ stack' = User("open") \o Call("decode") \o Rest
  <2>1. stack' = User("open") \o Call("decode")
    <3> DEFINE a == User("open")
               d == Call("decode")
    <3>1. a \in Seq(FrameSet) /\ d \in Seq(FrameSet) /\ stack' = (a \o d) \o <<>>
      BY <1>2, <1>6, UserOpsAssumption
      DEF User, Frame, FrameSet, AllOps, Evs, Events, Base, Stacked
    <3> HIDE DEF a, d
    <3>2. (a \o d) \o <<>> = a \o d
      BY <3>1
    <3>3. QED
      BY <3>1, <3>2 DEF a, d
  <2>2. Shifts
    <3>1. Tops(stack', "open")
      <4>1. Pushed(stack', UserFrame("open"), Call("decode"))
        BY <1>2, <2>1, PutUser DEF Base, Events
      <4>2. QED
        BY <4>1 DEF Pushed, Tops, Tell, UserFrame
    <3>2. QED
      BY <1>6, <3>1 DEF Shifts
  <2>3. QED
    BY <1>2, <1>3, <1>6, <2>1, <2>2, UserWorks
<1>7. QED
  BY <1>4, <1>5, <1>6 DEF DecodeResponse, DecodeTooEarly

LEMMA CloseFrameWorks ==
  ASSUME Whole, Running, Top("decode"), DecodeClose PROVE Works
<1> DEFINE t == User("peerClosed") \o Consume(2) \o Rest
           r == Call("respond") \o t
           f == UserFrame("peerClosed")
           g == CallFrame("respond")
<1>1. stack[1].op = "decode"
  BY DEF Top
<1>2. /\ Rest = <<>> /\ Types /\ Base(Consume(2)) /\ From(Consume(2), stack)
      /\ ~Has(stack, "consume") /\ uws_state # "CLOSING_WAITING_FOR_CLOSE"
  BY <1>1, DecoderBase
<1>3. uws_state = "OPEN"
  BY <1>2 DEF DecodeClose, Complete, InFrames
<1>4. /\ Plain /\ UNCHANGED answers
      /\ CloseUnderlying(t) \/ (uws_state' = "CLOSING_SENDING_CLOSE" /\ stack' = r)
  <2>1. UNCHANGED <<asked, on_ws_close_complete, sends, accepted, opens, reopened, pending_sends,
                    received, answers>>
    BY DEF DecodeClose, opening, sendHistory
  <2>2. Plain
    BY <2>1 DEF Plain, Doomed
  <2>3. CloseUnderlying(t) \/ (uws_state' = "CLOSING_SENDING_CLOSE" /\ stack' = r)
    BY <1>3 DEF DecodeClose
  <2>4. QED
    BY <2>1, <2>2, <2>3
<1>5. Pushed(t, f, Consume(2)) /\ NoReport(t)
  <2> DEFINE a == User("peerClosed")
             c == Consume(2)
  <2>1. a \in Seq(FrameSet) /\ c \in Seq(FrameSet) /\ t = (a \o c) \o <<>>
    BY <1>2, UserOpsAssumption
    DEF User, Frame, FrameSet, AllOps, Evs, Events, Base, Stacked
  <2> HIDE DEF a, c
  <2>2. (a \o c) \o <<>> = a \o c
    BY <2>1
  <2>3. t = User("peerClosed") \o Consume(2)
    BY <2>1, <2>2 DEF a, c
  <2>4. QED
    BY <1>2, <2>3, PutUser DEF Base, Events
<1> DEFINE c == [op |-> "consume", ev |-> "none", n |-> 2]
<1>6. ToSet(Consume(2)) = {c} /\ c.op = "consume"
  BY DecoderPuts, EmptyStack DEF Pushed
<1>7. f.op = "user" /\ f.ev = "peerClosed" /\ g.op = "respond"
  BY DEF UserFrame, CallFrame
<1> HIDE DEF t, f, c
<1>8. Base(t) /\ From(t, stack)
  <2>1. Shape(t) /\ (CancelsAbove(Consume(2)) => CancelsAbove(t))
    <3>1. \A h \in ToSet(Consume(2)) : h.op \in {"consume", "decode"}
      BY <1>6
    <3>2. ~OnTop(Consume(2), "wsOpenFails") /\ f.op # "wsCancel" /\ Shape(Consume(2))
      BY <1>2, <1>7 DEF Base
    <3>3. QED
      BY <1>5, <3>1, <3>2, ShapePush
  <2>2. ToSet(t) = {f} \cup ToSet(Consume(2)) /\ t # <<>> /\ t[1] = f
    BY <1>5 DEF Pushed
  <2>3. \A o : Has(t, o) <=> o \in {"user", "consume"}
    BY <1>6, <1>7, <2>2 DEF Has
  <2>4. Calm(t)
    BY <1>6, <1>7, <2>2, <2>3 DEF Calm
  <2>5. WsOf(t) = WsOf(Consume(2))
    BY <1>7, <2>2, UserOpsAssumption DEF WsOf, WsOps, ClientOps
  <2>6. /\ ~OnTop(t, "wsOpenFails") /\ Stacked(t)
    BY <1>5, <1>7, <2>2 DEF OnTop, Pushed
  <2>7. From(t, stack)
    BY <1>2, <1>3, <2>1, <2>3, <2>5, <2>6 DEF From
  <2>8. QED
    BY <1>5, <2>1, <2>4, <2>6, <2>7 DEF Base
<1>9. CASE CloseUnderlying(t)
  <2>1. stack' = XioClose(TRUE).calls \o t /\ uws_state' = "CLOSING_UNDERLYING_IO"
    BY <1>3, <1>9, NotRefused DEF CloseUnderlying
  <2>2. Shifts
    BY <2>1 DEF Shifts, Low
  <2>3. QED
    BY <1>2, <1>4, <1>8, <2>1, <2>2, CloseWorks
<1>10. CASE uws_state' = "CLOSING_SENDING_CLOSE" /\ stack' = r
  <2>1. Pushed(r, g, t)
    BY <1>8, PutCall DEF Base, Anywhere, AllOps, ClientOps
  <2> HIDE DEF r, g
  <2>2. /\ r # <<>> /\ r[1] = g /\ Tail(r) = t /\ ToSet(r) = {g} \cup ToSet(t)
    BY <2>1 DEF Pushed
  <2>3. Shape(r) /\ (CancelsAbove(t) => CancelsAbove(r))
    <3>1. ~Tell(g, "peerClosed") /\ g.op # "wsCancel" /\ ~OnTop(t, "wsOpenFails") /\ Shape(t)
      BY <1>7, <1>8 DEF Tell, Base
    <3>2. QED
      BY <2>1, <3>1, ShapePush
  <2>4. StackFits(r)
    BY <1>7, <1>8, <2>2, <2>3 DEF StackFits, Base, Tell
  <2>5. \A o : Has(r, o) <=> o = "respond" \/ Has(t, o)
    BY <1>7, <2>2 DEF Has
  <2>6. WsOf(r) = WsOf(t)
    BY <1>7, <2>2, UserOpsAssumption, WsAssumption DEF WsOf, ClientOps
  <2>7. ~OnTop(r, "wsOpenFails") /\ \A ev : ~Tops(r, ev)
    BY <1>7, <2>2 DEF OnTop, Tops, Tell
  <2>8. From(r, stack)
    BY <1>3, <1>8, <2>3, <2>5, <2>6, <2>7 DEF From
  <2>9. Tells'
    BY <1>10, <2>7 DEF Tells
  <2>10. Shifts
    BY <1>10 DEF Shifts, Low
  <2>11. QED
    BY <1>4, <1>10, <2>4, <2>7, <2>8, <2>9, <2>10 DEF Works
<1>11. QED
  BY <1>4, <1>9, <1>10

LEMMA RespondWorks == ASSUME Whole, Running, Respond PROVE Works
<1>1. /\ stack[1].op = "respond" /\ stack[1].op \in ClientOps \ {"destroyed"} /\ stack # <<>>
      /\ stack[1].op \notin {"openFails", "consume"} /\ IInv /\ StackFits(stack) /\ Types
  BY DEF Respond, Top, ClientOps, Whole, Core, IInv, Running
<1>2. /\ Base(Rest) /\ From(Rest, stack) /\ uws_state = "CLOSING_SENDING_CLOSE"
  BY <1>1, Below DEF Whole, Tells, OnTop
<1>3. /\ Plain /\ UNCHANGED answers
  <2>1. UNCHANGED <<asked, on_ws_close_complete, sends, accepted, opens, reopened, pending_sends,
                    received, answers>>
    BY DEF Respond, history, opening, sendHistory
  <2>2. QED
    BY <2>1 DEF Plain, Doomed
<1>4. ASSUME NEW o \in XioSend(CloseFrame, Call("closeSent")), stack' = o.calls \o Rest,
             UNCHANGED uws_state
      PROVE  Works
  <2>1. o.calls \in {<<>>, Call("closeSent")}
    BY <1>1, XioSends, UwsAssumption DEF CloseFrame
  <2>2. Reported(o.calls) /\ (o.calls # <<>> => o.calls[1].op # "sent")
    <3>1. /\ CallFrame("closeSent") \in FrameSet /\ CallFrame("closeSent").op = "closeSent"
          /\ Call("closeSent") = <<CallFrame("closeSent")>>
      BY DEF CallFrame, FrameSet, AllOps, ClientOps, Evs, Call, Frame
    <3>2. QED
      BY <2>1, <3>1 DEF Reported, AtOnce
  <2> DEFINE c == o.calls
  <2>3. stack' = c \o Rest /\ Reported(c) /\ (c # <<>> => c[1].op # "sent")
    BY <1>4, <2>2
  <2> HIDE DEF c
  <2>4. /\ Stacked(stack') /\ StackFits(stack') /\ From(stack', stack) /\ Calm(stack')
        /\ ~OnTop(stack', "wsOpenFails")
    BY <1>2, <2>3, Reporting
  <2>5. Shifts
    BY <1>4 DEF Shifts
  <2>6. QED
    BY <1>3, <2>4, <2>5, SilentWorks
<1>5. CASE CloseUnderlying(Rest)
  <2>1. stack' = XioClose(TRUE).calls \o Rest /\ uws_state' = "CLOSING_UNDERLYING_IO"
    BY <1>2, <1>5, NotRefused DEF CloseUnderlying
  <2>2. Shifts
    BY <2>1 DEF Shifts, Low
  <2>3. QED
    BY <1>1, <1>2, <1>3, <2>1, <2>2, CloseWorks
<1>6. QED
  BY <1>4, <1>5 DEF Respond

(* A send completes.                                                        *)
LEMMA SentWorks ==
  ASSUME Whole, NEW s \in ToSet(pending_sends), NEW b, Base(b), From(b, stack),
         stack' = Frame("user", "sent", s) \o b,
         ToSet(pending_sends') = ToSet(pending_sends) \ {s},
         UNCHANGED <<uws_state, asked, on_ws_close_complete, sends, accepted, opens, reopened,
                     received, answers>>,
         Has(stack, "sent") \/ Has(stack, "cancel")
  PROVE  Works
<1> DEFINE f == [op |-> "user", ev |-> "sent", n |-> s]
           t == Frame("user", "sent", s) \o b
<1>1. Pushed(t, f, b) /\ f.op = "user" /\ f.ev = "sent" /\ f.n = s /\ stack' = t
  <2>1. s \in Nat
    BY DEF Whole, Core, IInv, Accounts, Types
  <2>2. QED
    BY <2>1, Put, UserOpsAssumption DEF Base, Anywhere, AllOps, ClientOps, Evs, Events
<1> HIDE DEF f, t
<1>2. /\ f.op \in (ClientOps \cup {"user"}) \ {"respond", "cancel", "sent", "destroyed"}
      /\ ~Tell(f, "peerClosed")
  BY <1>1, UserOpsAssumption DEF ClientOps, Tell
<1>3. /\ StackFits(t) /\ From(t, stack) /\ t # <<>> /\ t[1] = f /\ ~OnTop(t, "wsOpenFails")
      /\ stack' = t
  BY <1>1, <1>2, Pushes
<1>4. (\A e : Tops(stack', e) <=> e = "sent") /\ ~OnTop(stack', "respond")
  BY <1>1, <1>3 DEF Tops, Tell, OnTop
<1>5. Plain /\ Shifts /\ Tells'
  BY <1>3, <1>4 DEF Plain, Shifts, Tells, Doomed
<1>6. QED
  BY <1>1, <1>3, <1>4, <1>5 DEF Works

LEMMA CancelWorks == ASSUME Whole, Running, Cancel PROVE Works
<1>1. /\ stack[1].op = "cancel" /\ stack[1].op \in ClientOps \ {"destroyed"} /\ stack # <<>>
      /\ IInv /\ StackFits(stack) /\ Types /\ Stacked(stack)
  BY DEF Cancel, Top, ClientOps, Whole, Core, IInv, Running
<1>2. UNCHANGED <<uws_state, asked, on_ws_close_complete, sends, accepted, opens, reopened,
                  received, answers>>
  BY DEF Cancel, opening
<1>3. CASE stack' = Rest /\ UNCHANGED pending_sends
  <2>1. Plain /\ Shifts
    BY <1>2, <1>3 DEF Plain, Shifts, Doomed
  <2>2. QED
    BY <1>1, <1>2, <1>3, <2>1, PopWorks DEF Whole
<1>4. CASE /\ pending_sends # <<>> /\ pending_sends' = Tail(pending_sends)
           /\ stack' = Frame("user", "sent", Head(pending_sends)) \o stack
  <2>1. /\ Head(pending_sends) \in ToSet(pending_sends)
        /\ ToSet(pending_sends') = ToSet(pending_sends) \ {Head(pending_sends)}
    BY <1>1, <1>4, TailElements DEF IInv, Types, Accounts
  <2>2. Base(stack) /\ From(stack, stack) /\ Has(stack, "cancel")
    <3>1. ToSet(stack) = {stack[1]} \cup ToSet(Rest) /\ NoReport(Rest) /\ Calm(stack)
      BY <1>1, StackedPop, Below DEF Rest, Whole
    <3>2. NoReport(stack)
      BY <1>1, <3>1 DEF NoReport, AtOnce
    <3>3. ~OnTop(stack, "wsOpenFails") /\ Has(stack, "cancel")
      BY <1>1, TopIn DEF OnTop
    <3>4. QED
      BY <1>1, <3>1, <3>2, <3>3, FromItself DEF Base, StackFits
  <2>3. QED
    BY <1>2, <1>4, <2>1, <2>2, SentWorks
<1>5. QED
  BY <1>3, <1>4 DEF Cancel

LEMMA SendCompleteWorks == ASSUME Whole, Running, OnUnderlyingSendComplete PROVE Works
<1> DEFINE s == stack[1].n
<1>1. /\ stack[1].op = "sent" /\ stack[1].op \in ClientOps \ {"destroyed"} /\ stack # <<>>
      /\ stack[1].op \notin {"openFails", "consume", "respond"}
      /\ IInv /\ StackFits(stack) /\ Types /\ Stacked(stack)
  BY DEF OnUnderlyingSendComplete, Top, ClientOps, Whole, Core, IInv, Running
<1>2. UNCHANGED <<uws_state, asked, on_ws_close_complete, sends, accepted, opens, reopened,
                  received, answers>>
  BY DEF OnUnderlyingSendComplete, opening
<1>3. Base(Rest) /\ From(Rest, stack) /\ Calm(stack)
  BY <1>1, Below
<1>4. Has(stack, "sent") /\ ~OnTop(stack, "wsOpenFails")
  BY <1>1, TopIn DEF OnTop
<1>5. CASE UNCHANGED <<pending_sends, stack>>
  <2>1. Plain /\ Shifts
    BY <1>2, <1>5 DEF Plain, Shifts, Doomed
  <2>2. From(stack, stack)
    BY <1>4, FromItself
  <2>3. QED
    BY <1>1, <1>2, <1>3, <1>4, <1>5, <2>1, <2>2, SilentWorks
<1>6. CASE /\ s \in ToSet(pending_sends) /\ pending_sends' = Without(pending_sends, s)
           /\ stack' = Frame("user", "sent", s) \o Rest
  <2>1. ToSet(pending_sends') = ToSet(pending_sends) \ {s}
    BY <1>1, <1>6, WithoutElements DEF IInv, Types, Accounts
  <2>2. QED
    BY <1>2, <1>3, <1>4, <1>6, <2>1, SentWorks
<1>7. QED
  BY <1>5, <1>6 DEF OnUnderlyingSendComplete

(* The io has told the end of a close, or of the CLOSE.                     *)
LEMMA CloseEndsWork ==
  ASSUME Whole, Running, OnUnderlyingCloseSent \/ OnUnderlyingCloseComplete \/ OpenError
  PROVE  Works
<1>1. /\ stack[1].op \in {"closeSent", "closed", "openError"}
      /\ stack[1].op \in ClientOps \ {"destroyed"} /\ stack # <<>>
      /\ stack[1].op \notin {"openFails", "consume"} /\ IInv /\ StackFits(stack) /\ Types
  BY DEF OnUnderlyingCloseSent, OnUnderlyingCloseComplete, OpenError, Top, ClientOps, Whole, Core,
         IInv, Running
<1>2. Base(Rest) /\ From(Rest, stack)
  BY <1>1, Below
<1>3. Plain /\ (OpenError \/ UNCHANGED answers)
  <2>1. /\ UNCHANGED <<asked, on_ws_close_complete, sends, accepted, opens, reopened, pending_sends,
                       received>>
        /\ OpenError \/ UNCHANGED answers
    BY DEF OnUnderlyingCloseSent, OnUnderlyingCloseComplete, OpenError, opening, sendHistory
  <2>2. QED
    BY <2>1 DEF Plain, Doomed
<1>4. CASE stack' = Rest /\ UNCHANGED <<uws_state, answers>>
  <2>1. Shifts
    BY <1>4 DEF Shifts
  <2>2. QED
    BY <1>1, <1>3, <1>4, <2>1, PopWorks
<1>5. CASE OpenError
  <2>1. /\ uws_state' = "CLOSED" /\ answers' = Append(answers, "ERROR")
        /\ stack' = User("open") \o Rest
    BY <1>5 DEF OpenError, IndicateOpenError
  <2>2. Shifts
    BY <2>1 DEF Shifts, Low
  <2>3. QED
    BY <1>1, <1>2, <1>3, <2>1, <2>2, UserWorks
<1>6. CASE OnUnderlyingCloseSent /\ uws_state = "CLOSING_SENDING_CLOSE"
  <2>1. stack' = XioClose(TRUE).calls \o Rest /\ uws_state' = "CLOSING_UNDERLYING_IO"
    BY <1>6, NotRefused DEF OnUnderlyingCloseSent, CloseUnderlyingOrIndicate
  <2>2. Shifts /\ UNCHANGED answers
    BY <1>6, <2>1 DEF Shifts, Low, OnUnderlyingCloseSent
  <2>3. QED
    BY <1>1, <1>2, <1>3, <2>1, <2>2, CloseWorks
<1>7. CASE OnUnderlyingCloseComplete /\ IndicateClosed(Call("toClosed") \o Rest)
  <2> DEFINE b == Call("toClosed") \o Rest
             f == CallFrame("toClosed")
  <2>1. /\ uws_state' = "CLOSED" /\ UNCHANGED answers
        /\ stack' = (IF on_ws_close_complete THEN User("closed") ELSE <<>>) \o b
    BY <1>7 DEF OnUnderlyingCloseComplete, IndicateClosed
  <2>2. Pushed(b, f, Rest) /\ f.op = "toClosed"
    BY <1>2, PutCall DEF Base, Anywhere, AllOps, ClientOps, CallFrame
  <2> HIDE DEF b, f
  <2>3. /\ f.op \in (ClientOps \cup {"user"}) \ {"respond", "cancel", "sent", "destroyed"}
        /\ ~Tell(f, "peerClosed") /\ f.op \notin AtOnce /\ f.op # "user"
    BY <2>2 DEF ClientOps, Tell, AtOnce
  <2>4. Base(b) /\ From(b, stack) /\ StackFits(b) /\ Calm(b) /\ Stacked(b)
        /\ ~OnTop(b, "wsOpenFails")
    BY <1>2, <2>2, <2>3, Pushes
  <2>5. Shifts
    BY <2>1 DEF Shifts, Low
  <2>6. CASE on_ws_close_complete
    BY <1>1, <1>3, <2>1, <2>4, <2>5, <2>6, UserWorks
  <2>7. CASE ~on_ws_close_complete
    <3>1. stack' = b
      <4>1. b \in Seq(FrameSet)
        BY <2>4 DEF Stacked
      <4>2. \A q \in Seq(FrameSet) : <<>> \o q = q
        OBVIOUS
      <4>3. QED
        BY <2>1, <2>7, <4>1, <4>2
    <3>2. QED
      BY <1>3, <2>1, <2>4, <2>5, <3>1, SilentWorks
  <2>8. QED
    BY <2>6, <2>7
<1>8. QED
  BY <1>4, <1>5, <1>6, <1>7 DEF OnUnderlyingCloseSent, OnUnderlyingCloseComplete

LEMMA OpenCompleteWorks == ASSUME Whole, Running, OnUnderlyingOpenComplete PROVE Works
<1>1. /\ stack[1].op = "opened" /\ stack[1].op \in ClientOps \ {"destroyed"} /\ stack # <<>>
      /\ stack[1].op \notin {"openFails", "consume", "respond"} /\ IInv /\ StackFits(stack)
      /\ Types /\ Stacked(stack)
  BY DEF OnUnderlyingOpenComplete, Top, ClientOps, Whole, Core, IInv, Running
<1>2. Base(Rest) /\ From(Rest, stack) /\ Calm(stack)
  BY <1>1, Below
<1>3. Plain
  <2>1. UNCHANGED <<asked, on_ws_close_complete, sends, accepted, opens, reopened, pending_sends,
                    received>>
    BY DEF OnUnderlyingOpenComplete, sendHistory
  <2>2. QED
    BY <2>1 DEF Plain, Doomed
<1>4. CASE IndicateOpenErrorAndClose(Rest)
  BY <1>1, <1>2, <1>3, <1>4, BreakWorks
<1>5. CASE UNCHANGED <<uws_state, stack, answers>>
  <2>1. Shifts /\ ~OnTop(stack, "wsOpenFails")
    BY <1>1, <1>5 DEF Shifts, OnTop
  <2>2. From(stack, stack)
    BY <2>1, FromItself
  <2>3. QED
    BY <1>1, <1>2, <1>3, <1>5, <2>1, <2>2, SilentWorks
<1>6. CASE IndicateOpenError(Rest)
  <2>1. /\ uws_state' = "CLOSED" /\ answers' = Append(answers, "ERROR")
        /\ stack' = User("open") \o Rest
    BY <1>6 DEF IndicateOpenError
  <2>2. Shifts
    BY <2>1 DEF Shifts, Low
  <2>3. QED
    BY <1>1, <1>2, <1>3, <2>1, <2>2, UserWorks
<1>7. CASE /\ stack' = Rest /\ UNCHANGED answers /\ uws_state = "OPENING_UNDERLYING_IO"
           /\ uws_state' = "WAITING_FOR_UPGRADE_RESPONSE"
  <2>1. Shifts
    BY <1>7 DEF Shifts
  <2>2. QED
    BY <1>1, <1>3, <1>7, <2>1, PopWorks
<1>8. QED
  BY <1>4, <1>5, <1>6, <1>7 DEF OnUnderlyingOpenComplete

LEMMA FramesWork == ASSUME Whole, Running, ClientFrames PROVE Works
BY ReturnsWork, ConsumeWorks, DecodesWork, ResponseWorks, CloseFrameWorks, RespondWorks,
   CancelWorks, SendCompleteWorks, CloseEndsWork, OpenCompleteWorks DEF ClientFrames, Decoder

(* What the io reports.                                                     *)
LEMMA EmptyWorks ==
  ASSUME Whole, DoWork
  PROVE  /\ stack = <<>> /\ Types /\ Base(<<>>) /\ From(<<>>, stack) /\ ~Doomed
         /\ Stacked(<<>>) /\ Calm(<<>>) /\ StackFits(<<>>)
<1>1. stack = <<>> /\ Types /\ ~OnTop(<<>>, "wsOpenFails") /\ ~Has(<<>>, "consume")
  BY HasNothing DEF Whole, Core, IInv, DoWork
<1>2. Base(<<>>) /\ StackFits(<<>>) /\ From(<<>>, stack)
  BY <1>1, EmptyBase, FromItself
<1>3. QED
  BY <1>1, <1>2 DEF Base, Doomed

LEMMA AloneWorks ==
  ASSUME Whole, DoWork, NEW o \in {"opened", "sent", "closeSent"}, NEW ev \in Evs, NEW n \in Nat,
         stack' = Frame(o, ev, n), Plain, UNCHANGED <<uws_state, answers>>
  PROVE  Works
<1> DEFINE g == [op |-> o, ev |-> ev, n |-> n]
           t == Frame(o, ev, n)
<1>1. Pushed(t, g, <<>>) /\ g.op = o /\ stack' = t
  <2>1. Pushed(t \o <<>>, g, <<>>)
    BY EmptyStack, Put DEF Anywhere, AllOps, ClientOps
  <2>2. t \o <<>> = t
    BY DEF Frame
  <2> HIDE DEF g, t
  <2>3. Pushed(t, g, <<>>)
    BY <2>1, <2>2
  <2>4. QED
    BY <2>3 DEF g, t
<1> HIDE DEF g, t
<1>2. stack = <<>> /\ ~OnTop(<<>>, "wsOpenFails") /\ Shape(<<>>) /\ CancelsAbove(<<>>)
  BY EmptyWorks, EmptyBase, HasNothing DEF Base
<1>3. g.op \notin WsOps \cup {"user", "destroyed", "cancel", "respond"}
  BY <1>1, UserOpsAssumption, WsAssumption DEF ClientOps
<1>4. Shape(t) /\ CancelsAbove(t)
  <2>1. g.op # "wsCancel" /\ ~Tell(g, "peerClosed")
    BY <1>3 DEF WsOps, Tell
  <2>2. QED
    BY <1>1, <1>2, <2>1, ShapePush
<1>5. ToSet(t) = {g} /\ t # <<>> /\ t[1] = g /\ Tail(t) = <<>> /\ Stacked(t)
  BY <1>1, EmptyStack DEF Pushed
<1>6. Calm(t) /\ ~OnTop(t, "wsOpenFails")
  <2>1. g.op \notin {"wsNotOpen", "wsOpenFails"}
    BY <1>3 DEF WsOps
  <2>2. QED
    BY <1>3, <1>5, <2>1 DEF Calm, Has, Peer, Tell, OnTop
<1>7. StackFits(t)
  BY <1>4, <1>5, <1>6, EmptyWorks DEF StackFits
<1>8. From(t, stack)
  <2>1. WsOf(t) = WsOf(stack)
    BY <1>2, <1>3, <1>5, EmptyBase DEF WsOf
  <2>2. ~Has(t, "cancel") /\ ~Peer(t)
    BY <1>3, <1>5 DEF Has, Peer, Tell
  <2>3. QED
    BY <1>2, <1>4, <1>6, <2>1, <2>2, HasNothing DEF From
<1>9. Shifts
  BY DEF Shifts
<1>10. QED
  BY <1>1, <1>5, <1>6, <1>7, <1>8, <1>9, SilentWorks

LEMMA IoReportsWork == ASSUME Whole, UnderlyingOpens \/ UnderlyingSends PROVE Works
<1>1. DoWork
  BY DEF UnderlyingOpens, UnderlyingSends
<1>2. Plain /\ UNCHANGED <<uws_state, answers>>
  <2>1. UNCHANGED <<asked, on_ws_close_complete, sends, accepted, opens, reopened, pending_sends,
                    received, uws_state, answers>>
    BY DEF UnderlyingOpens, UnderlyingSends, clientVars, history, opening, sendHistory
  <2>2. QED
    BY <2>1 DEF Plain, Doomed
<1>3. \E o \in {"opened", "sent", "closeSent"}, ev \in Evs, n \in Nat : stack' = Frame(o, ev, n)
  <2>1. CASE UnderlyingOpens
    BY <2>1 DEF UnderlyingOpens, Opened, Evs
  <2>2. CASE UnderlyingSends
    <3>1. Head(unsent) \in Nat
      <4>1. unsent \in Seq(0 .. Sends) /\ unsent # <<>> /\ Sends \in Nat
        BY <2>2, UwsAssumption DEF Whole, Core, IInv, Types, UnderlyingSends
      <4>2. Head(unsent) \in 0 .. Sends
        BY <4>1
      <4>3. QED
        BY <4>1, <4>2
    <3>2. QED
      BY <2>2, <3>1 DEF UnderlyingSends, Call, Sent, Evs
  <2>3. QED
    BY <2>1, <2>2
<1>4. QED
  BY <1>1, <1>2, <1>3, AloneWorks

LEMMA ErrorsWork ==
  ASSUME Whole,
         \/ OnUnderlyingError
         \/ \E n \in 1 .. 2 * (MaxFrames + 1) : OnUnderlyingBytesReceived(n)
  PROVE  Works
<1>1. DoWork
  BY DEF OnUnderlyingError, OnUnderlyingBytesReceived
<1>2. /\ stack = <<>> /\ Types /\ Base(<<>>) /\ From(<<>>, stack) /\ ~Doomed
      /\ Stacked(<<>>) /\ Calm(<<>>) /\ StackFits(<<>>) /\ ~OnTop(<<>>, "wsOpenFails")
  BY <1>1, EmptyWorks, HasNothing
<1>3. Plain /\ uws_state # "CLOSING_WAITING_FOR_CLOSE"
  <2>1. UNCHANGED <<asked, on_ws_close_complete, sends, accepted, opens, reopened, pending_sends>>
    BY DEF OnUnderlyingError, OnUnderlyingBytesReceived, opening, sendHistory
  <2>2. QED
    BY <1>2, <2>1 DEF Plain, Whole, Core, Streams, Flowing, AskedFits
<1>4. CASE stack' = stack /\ UNCHANGED <<uws_state, answers>>
  <2>1. Shifts /\ stack' = <<>>
    BY <1>2, <1>4 DEF Shifts
  <2>2. QED
    BY <1>2, <1>3, <1>4, <2>1, SilentWorks
<1>5. CASE stack' = Call("decode") /\ UNCHANGED <<uws_state, answers>>
  <2> DEFINE t == Call("decode")
             f == CallFrame("decode")
  <2>1. Pushed(t, f, <<>>) /\ f.op = "decode" /\ stack' = t
    <3>1. t[1] = f /\ Tail(t) = <<>> /\ f.op = "decode"
      BY DEF Call, Frame, CallFrame
    <3>2. Stacked(t) /\ t # <<>> /\ NoReport(t) /\ ToSet(t) = {f}
      BY DecodeAlone
    <3>3. QED
      BY <1>5, <3>1, <3>2, EmptyStack DEF Pushed
  <2> HIDE DEF t, f
  <2>2. /\ f.op \in (ClientOps \cup {"user"}) \ {"respond", "cancel", "sent", "destroyed"}
        /\ ~Tell(f, "peerClosed") /\ f.op # "user"
    BY <2>1 DEF ClientOps, Tell
  <2>3. /\ Stacked(t) /\ StackFits(t) /\ From(t, stack) /\ Calm(t) /\ ~OnTop(t, "wsOpenFails")
    BY <1>2, <2>1, <2>2, Pushes
  <2>4. Shifts
    BY <1>5 DEF Shifts
  <2>5. QED
    BY <1>3, <1>5, <2>1, <2>3, <2>4, SilentWorks
<1>6. CASE IndicateOpenErrorAndClose(<<>>)
  BY <1>2, <1>3, <1>6, BreakWorks
<1>7. CASE IndicateError(<<>>) /\ uws_state = "OPEN" /\ UNCHANGED answers
  <2>1. uws_state' = "ERROR" /\ stack' = User("error") \o <<>>
    BY <1>7 DEF IndicateError
  <2>2. Shifts
    BY <1>7, <2>1 DEF Shifts
  <2>3. QED
    BY <1>2, <1>3, <1>7, <2>1, <2>2, UserWorks
<1>8. CASE IndicateOpenError(<<>>)
  <2>1. /\ uws_state' = "CLOSED" /\ answers' = Append(answers, "ERROR")
        /\ stack' = User("open") \o <<>>
    BY <1>8 DEF IndicateOpenError
  <2>2. Shifts
    BY <2>1 DEF Shifts, Low
  <2>3. QED
    BY <1>2, <1>3, <2>1, <2>2, UserWorks
<1>9. CASE IndicateClosed(<<>>) /\ UNCHANGED answers
  <2>1. /\ uws_state' = "CLOSED"
        /\ stack' = User("closed") \o <<>> \/ stack' = <<>> \o <<>>
    BY <1>9 DEF IndicateClosed
  <2>2. Shifts
    BY <2>1 DEF Shifts, Low
  <2>3. CASE stack' = User("closed") \o <<>>
    BY <1>2, <1>3, <1>9, <2>1, <2>2, <2>3, UserWorks
  <2>4. CASE stack' = <<>> \o <<>>
    <3>1. stack' = <<>>
      BY <2>4
    <3>2. QED
      BY <1>2, <1>3, <1>9, <2>2, <3>1, SilentWorks
  <2>5. QED
    BY <2>1, <2>3, <2>4
<1>10. QED
  <2>1. CASE OnUnderlyingError
    BY <1>3, <1>4, <1>7, <1>8, <1>9, <2>1 DEF OnUnderlyingError
  <2>2. CASE \E n \in 1 .. 2 * (MaxFrames + 1) : OnUnderlyingBytesReceived(n)
    BY <1>3, <1>4, <1>5, <1>6, <1>7, <2>2 DEF OnUnderlyingBytesReceived
  <2>3. QED
    BY <2>1, <2>2

LEMMA ClientWorks ==
  ASSUME Whole, (Running /\ ClientFrames) \/ Reports \/ OnUnderlyingError PROVE Works
BY FramesWork, IoReportsWork, ErrorsWork DEF Reports

-------------------------------------------------------------------------------
(* The steps of wsio.  Its calls and callbacks put their frames on a stack  *)
(* like this.                                                               *)
Good(s) == Stacked(s) /\ NoReport(s) /\ Shape(s) /\ Calm(s)
Reps == AtOnce \cup {"tlsCloses"}

(* t has what s has, the frames F and what the io reports at once.          *)
Holds(t, s, F) ==
  /\ ToSet(s) \cup F \subseteq ToSet(t)
  /\ \A f \in ToSet(t) : f \in ToSet(s) \cup F \/ f.op \in Reps
  /\ CancelsAbove(s) /\ ((\E f \in F : f.op = "wsCancel") => ~Has(s, "cancel")) =>
       CancelsAbove(t)

LEMMA HoldsItself == ASSUME NEW s PROVE Holds(s, s, {})
BY DEF Holds

LEMMA Raises ==
  ASSUME NEW s, Good(s), NEW f, NEW t, Pushed(t, f, s), f.op \notin {"user", "respond"},
         f.op = "wsNotOpen" => Has(s, "consume"), OnTop(s, "wsOpenFails") => f.op = "openFails"
  PROVE  /\ Stacked(t) /\ StackFits(t) /\ Calm(t) /\ OnTop(t, f.op)
         /\ f.op \notin AtOnce => Good(t)
         /\ f.op \notin AtOnce /\ f.op # "wsOpenFails" => Base(t)
         /\ \A r, F : Holds(s, r, F) /\ (f.op = "wsCancel" => \A g \in F : g.op # "cancel") =>
              /\ Holds(t, r, F \cup {f})
              /\ f.op \in Reps => Holds(t, r, F)
<1>1. /\ Stacked(t) /\ t # <<>> /\ t[1] = f /\ Tail(t) = s /\ ToSet(t) = {f} \cup ToSet(s)
      /\ f.op \notin AtOnce => NoReport(t)
  BY DEF Pushed
<1>2. \A o : Has(t, o) <=> o = f.op \/ Has(s, o)
  BY <1>1 DEF Has
<1>3. ~Tell(f, "peerClosed")
  BY DEF Tell
<1>4. /\ Shape(t)
      /\ (f.op = "wsCancel" => ~Has(s, "cancel")) /\ CancelsAbove(s) => CancelsAbove(t)
  BY <1>3, ShapePush DEF Good
<1>5. Calm(t)
  BY <1>1, <1>2, <1>3 DEF Calm, Good, Peer
<1>6. StackFits(t) /\ OnTop(t, f.op)
  BY <1>1, <1>4, <1>5 DEF StackFits, Good, OnTop
<1>7. ASSUME NEW r, NEW F, Holds(s, r, F), f.op = "wsCancel" => \A g \in F : g.op # "cancel"
      PROVE  Holds(t, r, F \cup {f}) /\ (f.op \in Reps => Holds(t, r, F))
  <2>1. /\ ToSet(r) \cup F \subseteq ToSet(s)
        /\ \A g \in ToSet(s) : g \in ToSet(r) \cup F \/ g.op \in Reps
        /\ CancelsAbove(r) /\ ((\E g \in F : g.op = "wsCancel") => ~Has(r, "cancel")) =>
             CancelsAbove(s)
    BY <1>7 DEF Holds
  <2>2. "cancel" \notin Reps /\ "wsCancel" \notin Reps
    BY DEF Reps, AtOnce
  <2>3. ASSUME CancelsAbove(r), (\E g \in F \cup {f} : g.op = "wsCancel") => ~Has(r, "cancel")
        PROVE  CancelsAbove(t)
    <3>1. CancelsAbove(s)
      BY <2>1, <2>3
    <3>2. f.op = "wsCancel" => ~Has(s, "cancel")
      BY <1>7, <2>1, <2>2, <2>3 DEF Has
    <3>3. QED
      BY <1>4, <3>1, <3>2
  <2>4. f.op \in Reps =>
          (CancelsAbove(r) /\ ((\E g \in F : g.op = "wsCancel") => ~Has(r, "cancel")) =>
             CancelsAbove(t))
    BY <2>2, <2>3
  <2>5. QED
    BY <1>1, <2>1, <2>3, <2>4 DEF Holds
<1>8. QED
  BY <1>1, <1>4, <1>5, <1>6, <1>7 DEF Good, Base, OnTop

LEMMA CallersKeep ==
  ASSUME NEW s, Stacked(s), NEW f, NEW t, Pushed(t, f, s), f.op \in UserOps
  PROVE  /\ Others(t) = Others(s) /\ (TlsOn(s) => TlsOn(t)) /\ (Resumes(s) => Resumes(t))
         /\ \A o : Has(t, o) <=> o = f.op \/ Has(s, o)
<1>1. f.op \notin AtOnce
  BY UserOpsAssumption DEF AtOnce, ClientOps
<1>2. /\ Stacked(t) /\ ToSet(t) = {f} \cup ToSet(s) /\ NoReport(t)
  BY <1>1 DEF Pushed
<1>3. TlsOn(s) => TlsOn(t)
  BY TlsOnPush
<1>4. QED
  BY <1>2, <1>3 DEF Others, Resumes, Has

(* Whose turn it is, and what he returns to.                                *)
LEMMA Turn ==
  ASSUME Whole, Calling
  PROVE  /\ Types /\ Alive /\ Stacked(stack) /\ Resumes(stack) /\ fault = "none"
         /\ stack = <<>> \/ stack[1].op \notin {"user", "wsOpenFails"} => Base(stack)
         /\ stack # <<>> =>
              /\ Base(Rest) /\ Others(Rest) = Others(stack) /\ (TlsOn(stack) => TlsOn(Rest))
              /\ ToSet(stack) = {stack[1]} \cup ToSet(Rest)
              /\ \A o : Has(stack, o) <=> o = stack[1].op \/ Has(Rest, o)
              /\ CancelsAbove(stack) => CancelsAbove(Rest)
              /\ stack[1].op = "wsCancel" /\ CancelsAbove(stack) => ~Has(Rest, "cancel")
              /\ Tops(stack, "peerClosed") =>
                   /\ \A f \in ToSet(Rest) : f.op \in {"consume", "decode"}
                   /\ Has(Rest, "consume")
<1>1. /\ Types /\ Stacked(stack) /\ NoReport(stack) /\ Alive /\ IInv
  BY CallingFacts DEF Whole, Core
<1>2. fault = "none" /\ Resumes(stack)
  BY <1>1 DEF Alive, Resumes
<1>3. Shape(stack) /\ (stack # <<>> => Calm(Rest))
      /\ (Calm(stack) \/ (stack # <<>> /\ stack[1].op \in {"user", "respond"}
                          /\ ~Tell(stack[1], "peerClosed")))
  BY DEF Whole, StackFits, Rest
<1>4. \A o \in ClientOps : ~OnTop(stack, o)
  BY UserOpsAssumption DEF OnTop, Calling
<1>5. CASE stack = <<>>
  BY <1>1, <1>2, <1>5, EmptyBase
<1>6. CASE stack # <<>>
  <2>1. stack[1].op \in UserOps /\ stack[1].op \notin ClientOps
    BY <1>4, <1>6 DEF Calling, OnTop
  <2>2. /\ Stacked(Rest) /\ NoReport(Rest) /\ ToSet(stack) = {stack[1]} \cup ToSet(Rest)
    BY <1>1, <1>6, StackedPop DEF Rest
  <2>3. /\ Shape(Rest) /\ (OnTop(Rest, "wsOpenFails") => stack[1].op = "openFails")
        /\ Tell(stack[1], "peerClosed") => \A g \in ToSet(Rest) : g.op \in {"consume", "decode"}
        /\ CancelsAbove(stack) => CancelsAbove(Rest)
                                  /\ (stack[1].op = "wsCancel" => ~Has(Rest, "cancel"))
    BY <1>1, <1>3, <1>6, ShapePop DEF Rest
  <2>4. Base(Rest)
    BY <1>3, <1>6, <2>1, <2>2, <2>3 DEF Base, ClientOps
  <2>5. \A o : Has(stack, o) <=> o = stack[1].op \/ Has(Rest, o)
    BY <2>2 DEF Has
  <2>6. Others(Rest) = Others(stack)
    BY <2>1, <2>2 DEF Others
  <2>7. TlsOn(stack) => TlsOn(Rest)
    BY <1>1, <2>1, TlsOnFacts DEF Rest
  <2>8. stack[1].op \notin {"user", "wsOpenFails"} => Base(stack)
    <3>1. stack[1].op # "respond"
      BY <2>1 DEF ClientOps
    <3>2. QED
      BY <1>1, <1>3, <3>1 DEF Base, OnTop
  <2>9. Tops(stack, "peerClosed") => Has(Rest, "consume")
    <3>1. ASSUME Tell(stack[1], "peerClosed") PROVE Has(Rest, "consume")
      <4>1. Calm(stack) /\ Peer(stack)
        BY <1>3, <2>2, <3>1 DEF Peer
      <4>2. Has(stack, "consume") /\ stack[1].op # "consume"
        BY <2>1, <4>1 DEF Calm, ClientOps
      <4>3. QED
        BY <2>5, <4>2
    <3>2. QED
      BY <3>1 DEF Tops
  <2>10. QED
    BY <1>1, <1>2, <1>6, <2>2, <2>3, <2>4, <2>5, <2>6, <2>7, <2>8, <2>9 DEF Tops
<1>7. QED
  BY <1>5, <1>6

(* Nothing is due to wsio.                                                  *)
LEMMA NothingTells ==
  ASSUME Stacked(stack'), Calm(stack'), ~OnTop(stack', "wsOpenFails")
  PROVE  Tells' /\ \A ev : Tops(stack', ev) => ev = "peerClosed"
<1>1. ~OnTop(stack', "respond") /\ \A ev : Tops(stack', ev) => ev = "peerClosed"
  <2>1. stack' # <<>> => stack'[1] \in ToSet(stack')
    BY TopIn
  <2>2. QED
    BY <2>1 DEF Calm, OnTop, Tops, Tell
<1>2. \A ev \in {"open", "closed", "error"} : ~Tops(stack', ev)
  BY <1>1
<1>3. QED
  BY <1>1, <1>2 DEF Tells

(* A step of wsio that leaves the client alone.                             *)
LEMMA CallerWhole ==
  ASSUME Whole, Calling, UNCHANGED clientRest, Stacked(stack'), StackFits(stack'),
         Calm(stack'), ~OnTop(stack', "wsOpenFails"), Others(stack') = Others(stack),
         TlsOn(stack) => TlsOn(stack')
  PROVE  Whole'
<1>1. CallerStep
  BY DEF CallerStep, clientRest
<1>2. IInv /\ Connects /\ Streams /\ Completing
  BY DEF Whole, Core
<1>3. IInv' /\ Streams' /\ Completing'
  BY <1>1, <1>2, CallerStepIInv, CallerStepStream, CallerStepCompleting
<1>4. Connects'
  BY <1>2 DEF Connects, clientRest, ioVars, ioQueue
<1>5. asked' # "handshake"
  BY DEF Whole, clientRest, history
<1>6. QED
  BY <1>3, <1>4, <1>5, NothingTells DEF Whole, Core

(* Where wsio and the application may go on.                                *)
Turns(s) == Base(s) /\ Others(s) = Others(stack) /\ (TlsOn(stack) => TlsOn(s))
WsFrame(o, ev, n) == [op |-> o, ev |-> ev, n |-> n]

LEMMA BaseFits == ASSUME NEW s, Base(s) PROVE StackFits(s) /\ Good(s)
<1>1. s # <<>> => Calm(Tail(s))
  BY CalmPop DEF Base
<1>2. QED
  BY <1>1 DEF Base, StackFits, Good

LEMMA TurnsWhole ==
  ASSUME Whole, Calling, UNCHANGED clientRest, Turns(stack') PROVE Whole'
<1>1. Stacked(stack') /\ Calm(stack') /\ StackFits(stack') /\ ~OnTop(stack', "wsOpenFails")
  BY BaseFits DEF Turns, Base
<1>2. QED
  BY <1>1, CallerWhole DEF Turns

LEMMA WsPut ==
  ASSUME NEW s, Good(s), NEW o \in WsOps, NEW ev \in Evs, NEW n \in Nat,
         o = "wsDestroy" => s = <<>>
  PROVE  /\ Pushed(Frame(o, ev, n) \o s, WsFrame(o, ev, n), s) /\ o \notin AtOnce
         /\ WsFrame(o, ev, n).op = o /\ o \in UserOps /\ o \notin {"user", "respond", "cancel"}
<1>1. /\ o \in UserOps /\ o \notin ClientOps /\ o # "user"
      /\ o \notin {"decode", "masked", "consume"} /\ o \in AllOps
  BY WsAssumption, UserOpsAssumption DEF WsOps, AllOps, ClientOps
<1>2. CASE o # "wsDestroy"
  BY <1>1, <1>2, Put DEF Anywhere, Good, WsFrame, AtOnce, ClientOps
<1>3. CASE o = "wsDestroy"
  <2> DEFINE f == WsFrame(o, ev, n)
  <2>1. f \in FrameSet /\ f.op = o /\ Frame(o, ev, n) = <<f>>
    BY <1>1 DEF WsFrame, FrameSet, Frame
  <2> HIDE DEF f
  <2>2. Fits(f, s) /\ Stacked(s) /\ NoReport(s)
    BY <1>3, <2>1 DEF Fits, Good
  <2>3. Pushed(<<f>> \o s, f, s)
    <3>1. /\ Stacked(<<f>> \o s) /\ ToSet(<<f>> \o s) = {f} \cup ToSet(s)
          /\ (<<f>> \o s)[1] = f /\ <<f>> \o s # <<>> /\ Tail(<<f>> \o s) = s
      BY <2>2, StackedPush
    <3>2. NoReport(<<f>> \o s)
      BY <1>3, <2>1, <2>2, <3>1 DEF NoReport, AtOnce
    <3>3. QED
      BY <3>1, <3>2 DEF Pushed
  <2>4. QED
    BY <1>1, <2>1, <2>3 DEF f, AtOnce, ClientOps
<1>4. QED
  BY <1>2, <1>3

LEMMA TurnsPush ==
  ASSUME NEW s, Turns(s), NEW o \in WsOps \ {"wsOpenFails"}, NEW ev \in Evs, NEW n \in Nat,
         o = "wsDestroy" => s = <<>>, o = "wsNotOpen" => Has(s, "consume")
  PROVE  LET t == Frame(o, ev, n) \o s IN
         /\ Turns(t) /\ OnTop(t, o) /\ (Resumes(s) => Resumes(t))
         /\ \A r, F : Holds(s, r, F) /\ (o = "wsCancel" => \A g \in F : g.op # "cancel") =>
              Holds(t, r, F \cup {WsFrame(o, ev, n)})
<1> DEFINE t == Frame(o, ev, n) \o s
           f == WsFrame(o, ev, n)
<1>1. /\ Pushed(t, f, s) /\ f.op = o /\ o \notin AtOnce /\ o \in UserOps
      /\ o \notin {"user", "respond"} /\ Good(s)
  BY WsPut, BaseFits DEF Turns
<1> HIDE DEF t, f
<1>2. /\ Base(t) /\ OnTop(t, o)
      /\ \A r, F : Holds(s, r, F) /\ (o = "wsCancel" => \A g \in F : g.op # "cancel") =>
              Holds(t, r, F \cup {f})
  <2>1. ~OnTop(s, "wsOpenFails")
    BY DEF Turns, Base
  <2>2. QED
    BY <1>1, <2>1, Raises
<1>3. Others(t) = Others(s) /\ (TlsOn(s) => TlsOn(t)) /\ (Resumes(s) => Resumes(t))
  BY <1>1, CallersKeep DEF Good
<1>4. Turns(t) /\ OnTop(t, o) /\ (Resumes(s) => Resumes(t))
  BY <1>2, <1>3 DEF Turns
<1>5. QED
  BY <1>2, <1>4 DEF t, f

LEMMA Callers ==
  ASSUME Whole, Calling
  PROVE  /\ stack = <<>> \/ stack[1].op \notin {"user", "wsOpenFails"} =>
              Turns(stack) /\ Holds(stack, stack, {})
         /\ stack # <<>> => Turns(Rest) /\ Holds(Rest, Rest, {})
BY Turn, HoldsItself DEF Turns

(* A callback of the application, in the place of the frame on top or       *)
(* above it.                                                                *)
LEMMA AppCalled ==
  ASSUME NEW s, Turns(s), NEW r, NEW F, Holds(s, r, F), NEW ev \in Evs, NEW n \in Nat
  PROVE  /\ Turns(Frame("app", ev, n) \o s) /\ OnTop(Frame("app", ev, n) \o s, "app")
         /\ Holds(Frame("app", ev, n) \o s, r, F \cup {WsFrame("app", ev, n)})
<1>1. "app" \in WsOps \ {"wsOpenFails"} /\ "app" \notin {"wsDestroy", "wsNotOpen", "wsCancel"}
  BY DEF WsOps
<1>2. QED
  BY <1>1, TurnsPush

-------------------------------------------------------------------------------
(* The calls of wsio into the client.                                       *)
LEMMA ReportsPut ==
  ASSUME NEW s, Base(s), NEW c, Reported(c)
  PROVE  /\ Stacked(c \o s) /\ StackFits(c \o s) /\ Calm(c \o s) /\ ~OnTop(c \o s, "wsOpenFails")
         /\ \A r, F : Holds(s, r, F) => Holds(c \o s, r, F)
<1>1. Good(s) /\ ~OnTop(s, "wsOpenFails") /\ StackFits(s)
  BY BaseFits DEF Base
<1>2. CASE c = <<>>
  <2>1. c \o s = s
    BY <1>2, PutReported DEF Base
  <2>2. QED
    BY <1>1, <2>1 DEF Good
<1>3. CASE \E f \in FrameSet : f.op \in AtOnce /\ c = <<f>>
  <2>1. PICK f \in FrameSet : f.op \in AtOnce /\ c = <<f>>
    BY <1>3
  <2>2. f.op \in {"opened", "closed", "sent", "closeSent"} /\ f.op \in Reps
    BY <2>1 DEF AtOnce, Reps
  <2>3. Pushed(c \o s, f, s)
    <3>1. Fits(f, s)
      BY <2>2 DEF Fits, Base
    <3>2. QED
      BY <2>1, <3>1, StackedPush DEF Pushed, Base
  <2> DEFINE t == c \o s
  <2>4. Pushed(t, f, s)
    BY <2>3
  <2> HIDE DEF t
  <2>5. /\ Stacked(t) /\ StackFits(t) /\ Calm(t) /\ OnTop(t, f.op)
        /\ \A r, F : Holds(s, r, F) => Holds(t, r, F)
    BY <1>1, <2>2, <2>4, Raises
  <2>6. ~OnTop(t, "wsOpenFails")
    BY <2>2, <2>5 DEF OnTop
  <2>7. QED
    BY <2>5, <2>6 DEF t
<1>4. CASE c = Opened("CANCELLED") \o Call("tlsCloses")
  <2> DEFINE u == Call("tlsCloses") \o s
             f == CallFrame("tlsCloses")
             g == [op |-> "opened", ev |-> "CANCELLED", n |-> 0]
             t == Frame("opened", "CANCELLED", 0) \o u
  <2>1. Pushed(u, f, s) /\ NoReport(u)
    BY PutCall DEF Base, Anywhere, AllOps, ClientOps, AtOnce
  <2>2. /\ f.op = "tlsCloses" /\ f.op \in Reps /\ f.op \notin AtOnce
        /\ g.op = "opened" /\ g.op \in Reps
    BY DEF CallFrame, Reps, AtOnce
  <2>3. c \o s = t
    <3> DEFINE a == Opened("CANCELLED")
               k == Call("tlsCloses")
    <3>1. a \in Seq(FrameSet) /\ k \in Seq(FrameSet) /\ s \in Seq(FrameSet) /\ c = a \o k
      BY <1>4 DEF Opened, Call, Frame, FrameSet, AllOps, ClientOps, Evs, Base, Stacked
    <3> HIDE DEF a, k
    <3>2. (a \o k) \o s = a \o (k \o s)
      BY <3>1, Appended
    <3>3. QED
      BY <3>1, <3>2 DEF a, k, Opened
  <2>4. Stacked(u)
    BY <2>1 DEF Pushed
  <2>5. Pushed(t, g, u)
    BY <2>1, <2>4, Put DEF Anywhere, AllOps, ClientOps, Evs
  <2> HIDE DEF u, f, g, t
  <2>6. Base(u) /\ \A r, F : Holds(s, r, F) => Holds(u, r, F)
    BY <1>1, <2>1, <2>2, Raises
  <2>7. /\ Stacked(t) /\ StackFits(t) /\ Calm(t) /\ OnTop(t, g.op)
        /\ \A r, F : Holds(u, r, F) => Holds(t, r, F)
    <3>1. Good(u) /\ ~OnTop(u, "wsOpenFails")
      BY <2>6, BaseFits DEF Base
    <3>2. QED
      BY <2>2, <2>5, <3>1, Raises
  <2>8. ~OnTop(t, "wsOpenFails")
    BY <2>2, <2>7 DEF OnTop
  <2>9. QED
    BY <2>3, <2>6, <2>7, <2>8
<1>5. QED
  BY <1>2, <1>3, <1>4 DEF Reported

(* What a call of the client leaves, when it has put its reports on b.      *)
LEMMA CallWhole ==
  ASSUME Core', asked' # "handshake", NEW b, Base(b), NEW c, Reported(c), stack' = c \o b,
         NEW r, NEW F, Holds(b, r, F)
  PROVE  Whole' /\ Holds(stack', r, F)
<1>1. /\ Stacked(stack') /\ StackFits(stack') /\ Calm(stack') /\ ~OnTop(stack', "wsOpenFails")
      /\ Holds(stack', r, F)
  BY ReportsPut
<1>2. Tells'
  BY <1>1, NothingTells
<1>3. QED
  BY <1>1, <1>2 DEF Whole

(* One frame of the client on a stack of wsio.                              *)
LEMMA ClientPut ==
  ASSUME NEW s, Good(s), NEW o \in Anywhere \cap ClientOps, o \notin AtOnce \cup {"respond"},
         OnTop(s, "wsOpenFails") => o = "openFails", NEW n \in Nat,
         NEW r, NEW F, Holds(s, r, F)
  PROVE  LET t == Frame(o, "none", n) \o s IN
         /\ Base(t) /\ Holds(t, r, F \cup {WsFrame(o, "none", n)})
<1> DEFINE t == Frame(o, "none", n) \o s
           f == WsFrame(o, "none", n)
<1>1. Pushed(t, f, s) /\ f.op = o
  BY Put DEF Good, Evs, WsFrame
<1> HIDE DEF t, f
<1>2. f.op \notin AtOnce \cup {"user", "respond", "wsNotOpen", "wsOpenFails", "wsCancel"}
  BY <1>1, UserOpsAssumption, WsAssumption DEF WsOps
<1>3. Base(t) /\ Holds(t, r, F \cup {f})
  BY <1>1, <1>2, Raises
<1>4. QED
  BY <1>3 DEF t, f

LEMMA InAppFacts ==
  ASSUME Whole, InApp
  PROVE  /\ Calling /\ Turns(stack) /\ Resumes(stack) /\ Holds(stack, stack, {}) /\ Base(stack)
         /\ Good(stack) /\ freed = 0 /\ fault = "none"
<1>1. /\ Calling /\ freed = 0
      /\ stack = <<>> \/ stack[1].op \notin {"user", "wsOpenFails"}
  BY WsAssumption DEF InApp, Going, Calling, Top, WsOps
<1>2. QED
  BY <1>1, Callers, Turn, BaseFits DEF Turns

(* uws_client_open_async.                                                   *)
LEMMA OpenedWhole ==
  ASSUME Whole, InApp, OpenWith(stack, Call("wsOpenFails") \o stack)
  PROVE  /\ Whole'
         /\ \/ Holds(stack', stack, {})
            \/ Holds(stack', stack, {WsFrame("openFails", "none", 0),
                                     WsFrame("wsOpenFails", "none", 0)})
<1> DEFINE w == Call("wsOpenFails") \o stack
           g == WsFrame("wsOpenFails", "none", 0)
<1>1. /\ Calling /\ Turns(stack) /\ Resumes(stack) /\ Holds(stack, stack, {}) /\ Base(stack)
      /\ Good(stack) /\ Core /\ Types
  BY InAppFacts DEF Whole, Core, IInv
<1>2. Pushed(w, g, stack) /\ g.op = "wsOpenFails" /\ g.op \in UserOps /\ g.op \notin AtOnce
  BY <1>1, WsPut DEF WsOps, Evs, Call
<1>3. OpenWith(stack, w)
  OBVIOUS
<1>a. w = Call("wsOpenFails") \o stack
  OBVIOUS
<1> HIDE DEF w, g
<1>4. Resumes(w) /\ (TlsOn(stack) => TlsOn(w))
  BY <1>1, <1>2, CallersKeep DEF Good
<1>5. Good(w) /\ Holds(w, stack, {g})
  <2>1. ~OnTop(stack, "wsOpenFails")
    BY <1>1 DEF Base
  <2>2. Good(w) /\ Holds(w, stack, {} \cup {g})
    BY <1>1, <1>2, <2>1, Raises
  <2>3. {} \cup {g} = {g}
    OBVIOUS
  <2>4. QED
    BY <2>2, <2>3
<1>6. Core'
  <2>1. IInv /\ Connects /\ Streams /\ Completing /\ TlsFits
    BY <1>1 DEF Core, Streams
  <2>2. IInv' /\ Connects' /\ Completing'
    BY <1>1, <1>3, <1>4, <2>1, OpenCallIInv, OpenConnects, OpenCallCompleting
  <2>3. Moved
    BY <1>1, <1>3, <1>4, <2>1, OpenCallMoved
  <2>4. Streams'
    BY <1>3, <2>1, <2>3, OpenCallStream
  <2>5. QED
    BY <2>2, <2>4 DEF Core
<1>7. asked' # "handshake"
  BY DEF OpenWith
<1>8. PICK o \in XioOpen : stack' = o.calls \o (IF o.ok THEN stack ELSE Call("openFails") \o w)
  BY <1>3 DEF OpenWith
<1>9. Reported(o.calls)
  <2>1. o.calls \in {<<>>, Opened("OK"), Opened("ERROR")}
    BY <1>1, XioOpens DEF Core
  <2>2. \A e \in {"OK", "ERROR"} :
          \E f \in FrameSet : f.op \in AtOnce /\ Opened(e) = <<f>>
    <3>1. ASSUME NEW e \in {"OK", "ERROR"}
          PROVE  WsFrame("opened", e, 0) \in FrameSet /\ Opened(e) = <<WsFrame("opened", e, 0)>>
      BY DEF WsFrame, FrameSet, Opened, Frame, AllOps, ClientOps, Evs
    <3>2. \A e : WsFrame("opened", e, 0).op \in AtOnce
      BY DEF WsFrame, AtOnce
    <3>3. QED
      BY <3>1, <3>2
  <2>3. QED
    BY <2>1, <2>2 DEF Reported
<1>10. CASE o.ok
  BY <1>1, <1>6, <1>7, <1>8, <1>9, <1>10, CallWhole
<1>11. CASE ~o.ok
  <2> DEFINE p == Call("openFails") \o w
             h == WsFrame("openFails", "none", 0)
  <2>1. "openFails" \in Anywhere \cap ClientOps /\ "openFails" \notin AtOnce \cup {"respond"}
    BY DEF Anywhere, AllOps, ClientOps, AtOnce
  <2>2. Base(p) /\ Holds(p, stack, {g} \cup {h})
    BY <1>5, <2>1, ClientPut DEF Call
  <2>3. {g} \cup {h} = {h, g} /\ stack' = o.calls \o p
    BY <1>8, <1>11
  <2> HIDE DEF p, h
  <2>4. Whole' /\ Holds(stack', stack, {h, g})
    BY <1>6, <1>7, <1>9, <2>2, <2>3, CallWhole
  <2>5. QED
    BY <2>4 DEF h, g
<1>12. QED
  BY <1>10, <1>11

(* uws_client_send_frame_async.                                             *)
LEMMA SentWhole ==
  ASSUME Whole, InApp,
         SendFrameWith(Frame("wsSent", "none", sends + 1) \o stack,
                       Frame("wsSendFails", "none", sends + 1) \o stack)
  PROVE  LET s == sends + 1 IN
         /\ Whole' /\ sends' = s /\ sends < Sends /\ uws_state = "OPEN"
         /\ UNCHANGED <<uws_state, received, on_ws_close_complete, opens, reopened, asked, answers>>
         /\ pending_sends' = Append(pending_sends, s)
         /\ \/ /\ accepted' = accepted \cup {s}
               /\ Holds(stack', stack, {WsFrame("wsSent", "none", s)})
            \/ /\ accepted' = accepted
               /\ Holds(stack', stack, {WsFrame("sendFails", "none", s),
                                        WsFrame("wsSendFails", "none", s)})
<1> DEFINE s == sends + 1
           a == Frame("wsSent", "none", s) \o stack
           b == Frame("wsSendFails", "none", s) \o stack
           p == Frame("sendFails", "none", s) \o b
           f == WsFrame("wsSent", "none", s)
           g == WsFrame("wsSendFails", "none", s)
           h == WsFrame("sendFails", "none", s)
<1>1. /\ Calling /\ Turns(stack) /\ Resumes(stack) /\ Holds(stack, stack, {}) /\ Base(stack)
      /\ Good(stack) /\ Core /\ Types /\ IInv /\ Connects /\ Streams /\ TlsFits /\ Completing
  BY InAppFacts DEF Whole, Core, IInv, Streams
<1>2. s \in Nat /\ (sends < Sends => s \in 0 .. Sends)
  BY <1>1, UwsAssumption DEF Types
<1>3. /\ SendFrameWith(a, b) /\ sends' = s /\ sends < Sends
      /\ UNCHANGED <<asked, opens, reopened, uws_state, received, on_ws_close_complete, answers>>
      /\ pending_sends' = Append(pending_sends, s) /\ uws_state = "OPEN"
  BY DEF SendFrameWith, opening
<1>4. /\ Turns(a) /\ Resumes(a) /\ Holds(a, stack, {f})
      /\ Turns(b) /\ Resumes(b) /\ Holds(b, stack, {g})
  <2>1. /\ "wsSent" \in WsOps \ {"wsOpenFails"} /\ "wsSendFails" \in WsOps \ {"wsOpenFails"}
        /\ "none" \in Evs
    BY DEF WsOps, Evs
  <2>2. /\ Turns(a) /\ (Resumes(stack) => Resumes(a)) /\ Holds(a, stack, {} \cup {f})
    BY <1>1, <1>2, <2>1, TurnsPush
  <2>3. /\ Turns(b) /\ (Resumes(stack) => Resumes(b)) /\ Holds(b, stack, {} \cup {g})
    BY <1>1, <1>2, <2>1, TurnsPush
  <2>4. {} \cup {f} = {f} /\ {} \cup {g} = {g}
    OBVIOUS
  <2>5. QED
    BY <1>1, <2>2, <2>3, <2>4
<1>5. Base(p) /\ Holds(p, stack, {h, g}) /\ Base(a)
  <2>1. "sendFails" \in Anywhere \cap ClientOps /\ "sendFails" \notin AtOnce \cup {"respond"}
    BY DEF Anywhere, AllOps, ClientOps, AtOnce
  <2>2. Good(b) /\ ~OnTop(b, "wsOpenFails")
    BY <1>4, BaseFits DEF Turns, Base
  <2>3. Base(p) /\ Holds(p, stack, {g} \cup {h})
    BY <1>2, <1>4, <2>1, <2>2, ClientPut
  <2>4. {g} \cup {h} = {h, g}
    OBVIOUS
  <2>5. QED
    BY <1>4, <2>3, <2>4 DEF Turns
<1>6. PICK o \in XioSend(s, Sent(s)) :
        /\ accepted' = IF o.ok THEN accepted \cup {s} ELSE accepted
        /\ stack' = o.calls \o (IF o.ok THEN a ELSE p)
  BY DEF SendFrameWith
<1>7. Reported(o.calls) /\ o.ok \in BOOLEAN
  <2>1. o.ok \in BOOLEAN /\ o.calls \in {<<>>, Sent(s)}
    BY <1>1, <1>2, <1>3, XioSends
  <2>2. f.op = "wsSent" /\ \E k \in FrameSet : k.op \in AtOnce /\ Sent(s) = <<k>>
    <3>1. WsFrame("sent", "none", s) \in FrameSet /\ Sent(s) = <<WsFrame("sent", "none", s)>>
      BY <1>2 DEF WsFrame, FrameSet, Sent, Frame, AllOps, ClientOps, Evs
    <3>2. WsFrame("sent", "none", s).op \in AtOnce
      BY DEF WsFrame, AtOnce
    <3>3. QED
      BY <3>1, <3>2 DEF WsFrame
  <2>3. QED
    BY <2>1, <2>2 DEF Reported
<1> HIDE DEF a, b, p, f, g, h
<1>8. Stacked(stack')
  <2>1. CASE o.ok
    BY <1>5, <1>6, <1>7, <2>1, ReportsPut
  <2>2. CASE ~o.ok
    BY <1>5, <1>6, <1>7, <2>2, ReportsPut
  <2>3. QED
    BY <2>1, <2>2
<1>9. Core'
  <2>1. IInv' /\ Connects' /\ Completing'
    BY <1>1, <1>3, <1>4, <1>8, SendCallIInv, CallsConnect, SendCallCompleting
  <2>2. Moved
    BY <1>1, <1>3, <1>4, SendCallMoved
  <2>3. ~Broken
    BY <1>1, CallerFacts
  <2>4. Streams'
    BY <1>1, <1>3, <2>2, <2>3, SendCallStream
  <2>5. QED
    BY <2>1, <2>4 DEF Core
<1>10. asked' # "handshake"
  BY <1>3 DEF Whole
<1>11. CASE o.ok
  <2>1. Whole' /\ Holds(stack', stack, {f})
    BY <1>4, <1>5, <1>6, <1>7, <1>9, <1>10, <1>11, CallWhole
  <2>2. QED
    BY <1>3, <1>6, <1>11, <2>1 DEF f
<1>12. CASE ~o.ok
  <2>1. Whole' /\ Holds(stack', stack, {h, g})
    BY <1>5, <1>6, <1>7, <1>9, <1>10, <1>12, CallWhole
  <2>2. QED
    BY <1>3, <1>6, <1>12, <2>1 DEF g, h
<1>13. QED
  BY <1>11, <1>12

(* uws_client_close_async, from wsio_close or wsio_destroy.                 *)
Cancels == {WsFrame("wsCancel", "none", 0), WsFrame("cancel", "none", 0)}
CloseFails == {WsFrame("wsCancel", "none", 0), WsFrame("wsCloseFails", "none", 0)}

LEMMA ClosedWhole ==
  ASSUME Whole, Calling, NEW then, Turns(then), Resumes(then), NEW F, Holds(then, stack, F),
         \A g \in F : g.op # "cancel",
         LET rest == Call("wsCancel") \o then
             fails == Call("wsCloseFails") \o rest IN
         \/ CloseWith(TRUE, rest, fails)
         \/ stack' = fails /\ UNCHANGED clientRest
  PROVE  /\ Whole'
         /\ \/ Holds(stack', stack, F \cup Cancels) /\ ~Low
            \/ Holds(stack', stack, F \cup CloseFails)
<1> DEFINE rest == Call("wsCancel") \o then
           fails == Call("wsCloseFails") \o rest
           p == Call("cancel") \o rest
           f == WsFrame("wsCancel", "none", 0)
           g == WsFrame("wsCloseFails", "none", 0)
           h == WsFrame("cancel", "none", 0)
<1>1. /\ Core /\ Types /\ IInv /\ Connects /\ Streams /\ TlsFits /\ Completing
  BY DEF Whole, Core, IInv, Streams
<1>2. /\ "wsCancel" \in WsOps \ {"wsOpenFails"} /\ "wsCloseFails" \in WsOps \ {"wsOpenFails"}
      /\ "none" \in Evs /\ "wsCloseFails" \notin {"wsDestroy", "wsNotOpen", "wsCancel"}
      /\ "wsCancel" \notin {"wsDestroy", "wsNotOpen"}
  BY DEF WsOps, Evs
<1>3. /\ Turns(rest) /\ Resumes(rest) /\ Holds(rest, stack, F \cup {f})
  BY <1>2, TurnsPush DEF Call
<1>4. /\ Turns(fails) /\ Resumes(fails) /\ Holds(fails, stack, (F \cup {f}) \cup {g})
  BY <1>2, <1>3, TurnsPush DEF Call
<1>5. Base(p) /\ Holds(p, stack, (F \cup {f}) \cup {h})
  <2>1. "cancel" \in Anywhere \cap ClientOps /\ "cancel" \notin AtOnce \cup {"respond"}
    BY DEF Anywhere, AllOps, ClientOps, AtOnce
  <2>2. Good(rest) /\ ~OnTop(rest, "wsOpenFails")
    BY <1>3, BaseFits DEF Turns, Base
  <2>3. QED
    BY <1>3, <2>1, <2>2, ClientPut DEF Call
<1>6. (F \cup {f}) \cup {g} = F \cup CloseFails /\ (F \cup {f}) \cup {h} = F \cup Cancels
  BY DEF CloseFails, Cancels
<1>7. CloseWith(TRUE, rest, fails) \/ (stack' = fails /\ UNCHANGED clientRest)
  OBVIOUS
<1>8. CloseWith(TRUE, rest, fails) =>
        LET o == XioClose(TRUE) IN
        stack' = o.calls \o (IF o.ok THEN p ELSE fails)
  BY DEF CloseWith
<1> HIDE DEF rest, fails, p, f, g, h
<1>9. CASE stack' = fails /\ UNCHANGED clientRest
  BY <1>4, <1>6, <1>9, TurnsWhole
<1>10. CASE CloseWith(TRUE, rest, fails)
  <2>1. IInv' /\ Connects' /\ Completing'
    BY <1>1, <1>3, <1>4, <1>10, CloseCallIInv, CallsConnect, CloseCallCompleting
  <2>2. Moved
    BY <1>1, <1>3, <1>4, <1>10, CloseCallMoved
  <2>3. Core' /\ asked' # "handshake"
    <3>1. Streams'
      BY <1>1, <1>10, <2>2, CloseCallStream
    <3>2. asked' # "handshake"
      BY <1>10 DEF CloseWith, Whole
    <3>3. QED
      BY <2>1, <3>1, <3>2 DEF Core
  <2>4. Reported(XioClose(TRUE).calls)
    BY <1>1, ReportsNoSend
  <2>5. Base(fails)
    BY <1>4 DEF Turns
  <2>6. CASE XioClose(TRUE).ok
    <3>1. ~Low
      BY <1>10 DEF CloseWith, Low
    <3>2. QED
      BY <1>5, <1>6, <1>8, <1>10, <2>3, <2>4, <2>6, <3>1, CallWhole
  <2>7. CASE ~XioClose(TRUE).ok
    BY <1>4, <1>6, <1>8, <1>10, <2>3, <2>4, <2>5, <2>7, CallWhole
  <2>8. QED
    BY <2>6, <2>7
<1>11. QED
  BY <1>7, <1>9, <1>10

(* uws_client_destroy, the last of wsio_destroy.                            *)
Destroys == {WsFrame("destroyed", "none", 0)}
LEMMA DestroyedWhole ==
  ASSUME Whole, Calling, stack = <<>> \/ Top("wsDestroy"), DestroyClient
  PROVE  /\ Whole'
         /\ \/ Holds(stack', <<>>, Destroys)
            \/ Holds(stack', <<>>, Destroys \cup {WsFrame("cancel", "none", 0)})
<1> DEFINE d == Call("destroyed")
           p == Call("cancel") \o d
           f == WsFrame("destroyed", "none", 0)
           h == WsFrame("cancel", "none", 0)
<1>1. /\ Core /\ Types /\ IInv /\ Connects /\ Streams /\ TlsFits /\ Completing /\ Stacked(stack)
  BY DEF Whole, Core, IInv, Streams
<1>2. OnlyCallers
  <2>1. CASE stack = <<>>
    BY <2>1, EmptyStack DEF OnlyCallers
  <2>2. CASE stack # <<>> /\ Top("wsDestroy")
    <3>1. stack[1].op = "wsDestroy" /\ stack[1].op \in UserOps
      BY <2>2 DEF Top, Calling
    <3>2. ToSet(stack) = {stack[1]} \cup ToSet(Tail(stack)) /\ Tail(stack) = <<>>
      BY <1>1, <2>2, <3>1, StackedPop
    <3>3. QED
      BY <3>1, <3>2, EmptyStack DEF OnlyCallers
  <2>3. QED
    BY <2>1, <2>2
<1>3. Good(<<>>) /\ Holds(<<>>, <<>>, {}) /\ ~OnTop(<<>>, "wsOpenFails")
  BY EmptyBase, HoldsItself, BaseFits, HasNothing
<1>4. Base(d) /\ Holds(d, <<>>, {f})
  <2>1. "destroyed" \in Anywhere \cap ClientOps /\ "destroyed" \notin AtOnce \cup {"respond"}
    BY DEF Anywhere, AllOps, ClientOps, AtOnce
  <2>2. Base(d \o <<>>) /\ Holds(d \o <<>>, <<>>, {} \cup {f})
    BY <1>3, <2>1, ClientPut DEF Call
  <2>3. d \o <<>> = d /\ {} \cup {f} = {f}
    BY DEF Call, Frame
  <2>4. QED
    BY <2>2, <2>3
<1>5. Base(p) /\ Holds(p, <<>>, {f} \cup {h})
  <2>1. "cancel" \in Anywhere \cap ClientOps /\ "cancel" \notin AtOnce \cup {"respond"}
    BY DEF Anywhere, AllOps, ClientOps, AtOnce
  <2>2. Good(d) /\ ~OnTop(d, "wsOpenFails")
    BY <1>4, BaseFits DEF Base
  <2> HIDE DEF d
  <2>3. QED
    BY <1>4, <2>1, <2>2, ClientPut DEF Call
<1>6. Core'
  <2>1. IInv' /\ Connects' /\ Completing'
    BY <1>1, <1>2, DestroyCallIInv, CallsConnect, DestroyCallCompleting
  <2>2. Moved /\ ~Broken
    BY <1>1, <1>2, DestroyCallMoved, CallerFacts
  <2>3. Streams'
    BY <1>1, <2>2, DestroyCallStream
  <2>4. QED
    BY <2>1, <2>3 DEF Core
<1>7. asked' # "handshake"
  BY DEF DestroyClient, CloseWith, Whole, history
<1>8. LET o == XioClose(FALSE) IN
      \/ stack' = d \/ stack' = o.calls \o d \/ stack' = o.calls \o p
  BY DEF DestroyClient, CloseWith
<1>9. Reported(XioClose(FALSE).calls) /\ Reported(<<>>)
  BY <1>1, ReportsNoSend DEF Reported
<1>10. <<>> \o d = d
  BY DEF Call, Frame
<1>11. Destroys = {f} /\ Destroys \cup {h} = {f} \cup {h}
  BY DEF Destroys
<1> HIDE DEF d, p, f, h
<1>12. CASE stack' = d
  <2>1. stack' = <<>> \o d
    BY <1>10, <1>12
  <2>2. Whole' /\ Holds(stack', <<>>, {f})
    BY <1>4, <1>6, <1>7, <1>9, <2>1, CallWhole
  <2>3. QED
    BY <1>11, <2>2
<1>13. CASE stack' = XioClose(FALSE).calls \o d
  <2>1. Whole' /\ Holds(stack', <<>>, {f})
    BY <1>4, <1>6, <1>7, <1>9, <1>13, CallWhole
  <2>2. QED
    BY <1>11, <2>1
<1>14. CASE stack' = XioClose(FALSE).calls \o p
  <2>1. Whole' /\ Holds(stack', <<>>, {f} \cup {h})
    BY <1>5, <1>6, <1>7, <1>9, <1>14, CallWhole
  <2>2. QED
    BY <1>11, <2>1 DEF h
<1>15. QED
  BY <1>8, <1>12, <1>13, <1>14

-------------------------------------------------------------------------------
(* What wsio keeps.  While it is OPENING its open is not answered, and its  *)
(* client does not fail without telling it; once it is NOT_OPEN or closing  *)
(* its client is CLOSED or closes; and its list is that of the accepted     *)
(* sends, but for those of calls that have not returned.                    *)
WsTypes ==
  /\ io_state \in {"NOT_OPEN", "OPENING", "OPEN", "CLOSING", "ERROR"}
  /\ pending_io_list \in Seq(1 .. Sends) /\ on_io_close_complete \in BOOLEAN
  /\ freed \in 0 .. Sends /\ abandoned \in BOOLEAN
  /\ opened \in 0 .. 1 /\ closes \in Nat
  /\ told \in [1 .. Sends -> Nat] /\ ioAccepted \subseteq 1 .. Sends

AskedFor == asked = "close" => on_ws_close_complete \/ Has(stack, "destroyed")
OpeningFits ==
  io_state = "OPENING" =>
    /\ opened = 0 /\ uws_state # "ERROR" /\ (uws_state = "OPEN" => Tops(stack, "open"))
    /\ Peer(stack) => Doomed
LowFits ==
  ~abandoned /\ (io_state \in {"NOT_OPEN", "CLOSING"} \/ Has(stack, "wsNotOpen")) => Low \/ Doomed
SentFits ==
  Tops(stack, "sent") => stack[1].n \in 1 .. sends /\ stack[1].n \notin ToSet(pending_sends)

WsSends(s) == {f \in ToSet(s) : f.op \in {"wsSent", "wsSendFails"}}
WsAccounts ==
  /\ Distinct(pending_io_list) /\ ToSet(pending_io_list) \subseteq 1 .. sends
  /\ ioAccepted \subseteq accepted
  /\ \A s \in 1 .. Sends :
       /\ told[s] <= 1
       /\ s \in ToSet(pending_io_list) \/ s > sends => told[s] = 0
       /\ s \in accepted /\ told[s] = 0 => s \in ToSet(pending_io_list)
       /\ s \in ToSet(pending_io_list) /\ s \notin ioAccepted => \E f \in WsSends(stack) : f.n = s
  /\ \A f \in WsSends(stack) : f.n \in 1 .. sends /\ (f.n \in accepted <=> f.op = "wsSent")

States == AskedFor /\ OpeningFits /\ LowFits /\ SentFits
WsCore == Whole /\ WsTypes /\ States /\ WsAccounts

LEMMA AccountsKeep ==
  ASSUME WsAccounts, UNCHANGED <<pending_io_list, told, ioAccepted, sends, accepted>>,
         WsSends(stack') = WsSends(stack)
  PROVE  WsAccounts'
BY DEF WsAccounts

(* What a step of wsio leaves on the stack, and what it puts there.         *)
LEMMA Seen ==
  ASSUME Whole, Calling, NEW s, s = stack \/ (stack # <<>> /\ s = Rest),
         NEW F, Holds(stack', s, F), \A f \in F : f.op # "user"
  PROVE  /\ \A o \in ClientOps : Has(stack, o) => Has(stack', o)
         /\ Peer(stack') => Peer(stack)
         /\ \A o : Has(stack', o) => Has(stack, o) \/ o \in Reps \/ \E f \in F : f.op = o
         /\ \A o : Has(s, o) \/ (\E f \in F : f.op = o) => Has(stack', o)
         /\ WsSends(s) \subseteq WsSends(stack') /\ WsSends(stack') \subseteq WsSends(s) \cup F
         /\ WsSends(s) \subseteq WsSends(stack)
         /\ WsSends(stack) \subseteq WsSends(s) \cup (IF s = stack THEN {} ELSE {stack[1]})
<1>1. /\ ToSet(s) \cup F \subseteq ToSet(stack')
      /\ \A f \in ToSet(stack') : f \in ToSet(s) \cup F \/ f.op \in Reps
  BY DEF Holds
<1>2. /\ ToSet(s) \subseteq ToSet(stack)
      /\ \A f \in ToSet(stack) : f \in ToSet(s) \/ (s # stack /\ f = stack[1] /\ stack # <<>>)
  BY Turn
<1>3. \A f \in ToSet(stack) : f \notin ToSet(s) => f.op \notin ClientOps
  BY <1>2, UserOpsAssumption DEF Calling
<1>4. "user" \notin Reps /\ "wsSent" \notin Reps /\ "wsSendFails" \notin Reps
  BY DEF Reps, AtOnce
<1>5. QED
  BY <1>1, <1>2, <1>3, <1>4 DEF Has, Peer, Tell, WsSends

(* Steps of wsio that leave the client alone.                               *)
LEMMA StatesKeep ==
  ASSUME WsCore, Calling, NEW s, s = stack \/ (stack # <<>> /\ s = Rest),
         NEW F, Holds(stack', s, F), \A f \in F : f.op # "user",
         Stacked(stack'), Calm(stack'), ~OnTop(stack', "wsOpenFails"), UNCHANGED clientRest,
         io_state' = "OPENING" =>
           io_state = "OPENING" /\ opened' = opened /\ ~Tops(stack, "open"),
         /\ ~abandoned'
         /\ io_state' \in {"NOT_OPEN", "CLOSING"} \/ \E f \in F : f.op = "wsNotOpen"
         => Low \/ Doomed,
         abandoned => abandoned'
  PROVE  States'
<1>1. /\ \A o \in ClientOps : Has(stack, o) => Has(stack', o)
      /\ Peer(stack') => Peer(stack)
      /\ \A o : Has(stack', o) => Has(stack, o) \/ o \in Reps \/ \E f \in F : f.op = o
  BY Seen DEF WsCore
<1>2. /\ UNCHANGED <<uws_state, received, asked, on_ws_close_complete, sends, pending_sends>>
      /\ {"consume", "destroyed"} \subseteq ClientOps /\ "wsNotOpen" \notin Reps
  BY DEF clientRest, clientVars, history, sendHistory, ClientOps, Reps, AtOnce
<1>3. (Low => Low') /\ (Doomed => Doomed')
  BY <1>1, <1>2 DEF Low, Doomed
<1>4. ~Tops(stack', "sent")
  BY NothingTells
<1>5. AskedFor'
  BY <1>1, <1>2 DEF AskedFor, WsCore, States
<1>6. OpeningFits'
  BY <1>1, <1>2, <1>3 DEF OpeningFits, WsCore, States
<1>7. LowFits'
  BY <1>1, <1>2, <1>3 DEF LowFits, WsCore, States
<1>8. QED
  BY <1>4, <1>5, <1>6, <1>7 DEF States, SentFits

-------------------------------------------------------------------------------
(* The steps of the client.                                                 *)
LEMMA ClientTurn ==
  ASSUME Running, ClientFrames PROVE stack[1].op \in ClientOps \ {"destroyed"}
BY DEF ClientFrames, Decoder, Masked, Respond, ConsumeReceivedBytes, OpenFails, OpenError,
       TlsCloses, ToClosed, Cancel, SendFails, OnUnderlyingSendComplete, OnUnderlyingCloseSent,
       OnUnderlyingCloseComplete, OnUnderlyingOpenComplete, Top, ClientOps

ClientSteps == (Running /\ ClientFrames) \/ Reports \/ OnUnderlyingError

LEMMA ClientWhole == ASSUME Whole, ClientSteps PROVE Works /\ Whole'
<1>1. Works
  BY ClientWorks DEF ClientSteps
<1>2. Served /\ IInv /\ Connects /\ Streams /\ Completing
  BY DEF ClientSteps, Served, Whole, Core
<1>3. Core'
  BY <1>2, ServedIInv, ServedConnects, ServedStream, ServedCompleting DEF Core, IInv
<1>4. QED
  BY <1>1, <1>3 DEF Whole, Works, Plain

LEMMA ClientTops ==
  ASSUME ClientSteps PROVE stack = <<>> \/ (stack[1].op \in ClientOps /\ stack[1].op # "user")
<1>1. Reports \/ OnUnderlyingError => stack = <<>>
  BY DEF Reports, UnderlyingOpens, UnderlyingSends, OnUnderlyingBytesReceived, OnUnderlyingError,
         DoWork
<1>2. QED
  BY <1>1, ClientTurn, UserOpsAssumption DEF ClientSteps

LEMMA ClientKeeps == ASSUME WsCore, ClientSteps, UNCHANGED wsVars PROVE WsCore'
<1>1. Works /\ Whole' /\ Types
  BY ClientWhole DEF WsCore, Whole, Core, IInv
<1>2. /\ Plain /\ Shifts /\ From(stack', stack)
      /\ UNCHANGED <<io_state, pending_io_list, on_io_close_complete, freed, opened, told, closes,
                     ioAccepted, abandoned, sends, accepted, asked, on_ws_close_complete>>
  BY <1>1 DEF Works, Plain, wsVars, wsState, wsHistory
<1>3. \A ev : ~Tops(stack, ev)
  BY ClientTops DEF Tops, Tell
<1>4. WsOf(stack') = WsOf(stack)
  BY <1>2 DEF From
<1>5. /\ Has(stack, "destroyed") => Has(stack', "destroyed")
      /\ Has(stack', "wsNotOpen") => Has(stack, "wsNotOpen")
      /\ WsSends(stack') = WsSends(stack)
  <2>1. ASSUME NEW o \in WsOps \cup {"destroyed"}
        PROVE  {f \in ToSet(stack') : f.op = o} = {f \in ToSet(stack) : f.op = o}
    <3>1. {f \in ToSet(stack') : f.op = o} = {f \in WsOf(stack') : f.op = o}
      BY <2>1 DEF WsOf
    <3>2. {f \in ToSet(stack) : f.op = o} = {f \in WsOf(stack) : f.op = o}
      BY <2>1 DEF WsOf
    <3>3. QED
      BY <1>4, <3>1, <3>2
  <2>2. {"wsNotOpen", "wsSent", "wsSendFails", "destroyed"} \subseteq WsOps \cup {"destroyed"}
    BY DEF WsOps
  <2>3. \A t : WsSends(t) = {f \in ToSet(t) : f.op = "wsSent"}
                             \cup {f \in ToSet(t) : f.op = "wsSendFails"}
    BY DEF WsSends
  <2>4. \A t, o : Has(t, o) <=> {f \in ToSet(t) : f.op = o} # {}
    BY DEF Has
  <2>5. QED
    BY <2>1, <2>2, <2>3, <2>4
<1>6. (Low => Low') /\ (Doomed => Doomed')
  <2>1. Low => Low'
    BY <1>2 DEF Shifts, Low
  <2>2. Doomed => Doomed'
    BY <1>2 DEF Plain, Doomed, From
  <2>3. QED
    BY <2>1, <2>2
<1>7. WsTypes'
  BY <1>2 DEF WsCore, WsTypes
<1>8. WsAccounts'
  BY <1>2, <1>5, AccountsKeep DEF WsCore
<1>9. AskedFor' /\ LowFits'
  BY <1>2, <1>5, <1>6 DEF WsCore, States, AskedFor, LowFits
<1>10. OpeningFits'
  <2>1. ASSUME io_state = "OPENING"
        PROVE  opened = 0 /\ uws_state # "ERROR" /\ uws_state # "OPEN" /\ (Peer(stack) => Doomed)
    BY <1>3, <2>1 DEF WsCore, States, OpeningFits
  <2>2. Peer(stack') => Peer(stack) \/ uws_state = "OPEN"
    BY <1>2 DEF From
  <2>3. io_state = "OPENING" =>
          uws_state' # "ERROR" /\ (uws_state' = "OPEN" => Tops(stack', "open"))
    BY <1>2, <2>1 DEF Shifts, Low
  <2>4. QED
    BY <1>2, <1>6, <2>1, <2>2, <2>3 DEF OpeningFits
<1>11. SentFits'
  <2>1. Tops(stack', "sent") => stack'[1].n \in ToSet(pending_sends) \ ToSet(pending_sends')
    BY <1>1 DEF Works
  <2>2. ToSet(pending_sends) \subseteq 1 .. sends
    BY DEF WsCore, Whole, Core, IInv, Accounts
  <2>3. QED
    BY <1>2, <2>1, <2>2 DEF SentFits
<1>12. QED
  BY <1>1, <1>7, <1>8, <1>9, <1>10, <1>11 DEF WsCore, States

-------------------------------------------------------------------------------
(* The steps of wsio that leave the client alone.                           *)
Fine(F) ==
  /\ io_state' = "OPENING" => io_state = "OPENING" /\ opened' = opened /\ ~Tops(stack, "open")
  /\ ~abandoned' /\ (io_state' \in {"NOT_OPEN", "CLOSING"} \/ \E f \in F : f.op = "wsNotOpen") =>
       Low \/ Doomed
  /\ abandoned => abandoned'

LEMMA FineSame ==
  ASSUME WsCore, UNCHANGED <<io_state, opened, abandoned>>, ~Tops(stack, "open"),
         NEW F, \A f \in F : f.op # "wsNotOpen"
  PROVE  Fine(F)
BY DEF WsCore, States, LowFits, Fine

LEMMA StepWhole ==
  ASSUME WsCore, Calling, NEW s, s = stack \/ (stack # <<>> /\ s = Rest),
         NEW F, Holds(stack', s, F), \A f \in F : f.op \notin {"user", "wsSent", "wsSendFails"},
         Turns(stack'), UNCHANGED clientRest, Fine(F)
  PROVE  /\ Whole' /\ States'
         /\ UNCHANGED <<sends, accepted>>
         /\ s = stack \/ stack[1].op \notin {"wsSent", "wsSendFails"} =>
              WsSends(stack') = WsSends(stack)
<1>1. /\ Whole' /\ Stacked(stack') /\ Calm(stack') /\ ~OnTop(stack', "wsOpenFails")
  BY TurnsWhole DEF WsCore, Turns, Base
<1>2. States'
  BY <1>1, StatesKeep DEF Fine
<1>3. /\ WsSends(s) \subseteq WsSends(stack') /\ WsSends(stack') \subseteq WsSends(s) \cup F
      /\ WsSends(s) \subseteq WsSends(stack)
      /\ WsSends(stack) \subseteq WsSends(s) \cup (IF s = stack THEN {} ELSE {stack[1]})
  BY Seen DEF WsCore
<1>4. s = stack \/ stack[1].op \notin {"wsSent", "wsSendFails"} =>
        WsSends(stack') = WsSends(stack)
  <2>1. \A f \in WsSends(stack') : f \notin F
    BY DEF WsSends
  <2>2. stack[1].op \notin {"wsSent", "wsSendFails"} => stack[1] \notin WsSends(stack)
    BY DEF WsSends
  <2>3. QED
    BY <1>3, <2>1, <2>2
<1>5. QED
  BY <1>1, <1>2, <1>4 DEF clientRest, history, sendHistory

LEMMA StepKeeps ==
  ASSUME WsCore, Calling, NEW s, s = stack \/ (stack # <<>> /\ s = Rest),
         NEW F, Holds(stack', s, F), \A f \in F : f.op \notin {"user", "wsSent", "wsSendFails"},
         Turns(stack'), UNCHANGED clientRest, Fine(F),
         s = stack \/ stack[1].op \notin {"wsSent", "wsSendFails"},
         WsTypes', UNCHANGED <<pending_io_list, told, ioAccepted>>
  PROVE  WsCore'
<1>1. /\ Whole' /\ States' /\ WsSends(stack') = WsSends(stack) /\ UNCHANGED <<sends, accepted>>
  BY StepWhole
<1>2. QED
  BY <1>1, AccountsKeep DEF WsCore

(* A frame of wsio, or a callback of it, is on top.                         *)
LEMMA TopTurn ==
  ASSUME Whole, Running, stack[1].op \in WsOps \cup {"user"}
  PROVE  /\ Calling /\ stack # <<>> /\ Turns(Rest) /\ Holds(Rest, Rest, {})
         /\ stack[1].op \notin {"user", "wsOpenFails"} => Turns(stack) /\ Holds(stack, stack, {})
<1>1. Calling /\ stack # <<>>
  BY WsAssumption, UserOpsAssumption DEF Running, Calling
<1>2. QED
  BY <1>1, Callers

LEMMA PopKeeps ==
  ASSUME WsCore, Running, stack[1].op \in (WsOps \cup {"user"}) \ {"wsSent", "wsSendFails"},
         stack' = Rest, UNCHANGED clientRest, Fine({}),
         WsTypes', UNCHANGED <<pending_io_list, told, ioAccepted>>
  PROVE  WsCore'
<1>1. Calling /\ stack # <<>> /\ Turns(Rest) /\ Holds(Rest, Rest, {})
  BY TopTurn DEF WsCore
<1>2. QED
  BY <1>1, StepKeeps

LEMMA AppKeeps ==
  ASSUME WsCore, Running, stack[1].op \in (WsOps \cup {"user"}) \ {"wsSent", "wsSendFails"},
         NEW ev \in Evs, stack' = App(ev) \o Rest, UNCHANGED clientRest, Fine({}),
         WsTypes', UNCHANGED <<pending_io_list, told, ioAccepted>>
  PROVE  WsCore'
<1> DEFINE f == WsFrame("app", ev, 0)
<1>1. Calling /\ stack # <<>> /\ Turns(Rest) /\ Holds(Rest, Rest, {})
  BY TopTurn DEF WsCore
<1>2. Turns(stack') /\ Holds(stack', Rest, {} \cup {f})
  BY <1>1, AppCalled DEF App
<1>3. f.op = "app"
  BY DEF WsFrame
<1>4. Fine({} \cup {f})
  BY <1>3 DEF Fine
<1> HIDE DEF f
<1>5. QED
  BY <1>1, <1>2, <1>3, <1>4, StepKeeps

LEMMA TopsOp ==
  ASSUME stack # <<>> /\ stack[1].op # "user" PROVE \A ev : ~Tops(stack, ev)
BY DEF Tops, Tell

LEMMA AppReturnsKeeps == ASSUME WsCore, Running, AppReturns PROVE WsCore'
<1>1. stack[1].op = "app" /\ "app" \in (WsOps \cup {"user"}) \ {"wsSent", "wsSendFails"}
  BY DEF AppReturns, Top, WsOps
<1>2. /\ stack' = Rest /\ UNCHANGED clientRest
      /\ UNCHANGED <<io_state, opened, abandoned, pending_io_list, told, ioAccepted,
                     on_io_close_complete, freed, closes>>
  BY DEF AppReturns, wsVars, wsState, wsHistory
<1>3. Fine({}) /\ WsTypes'
  BY <1>1, <1>2, FineSame, TopsOp DEF Running, WsTypes, WsCore
<1>4. QED
  BY <1>1, <1>2, <1>3, PopKeeps

LEMMA WsOpenFailsKeeps == ASSUME WsCore, Running, WsOpenFails \/ WsNotOpen PROVE WsCore'
<1>1. stack[1].op \in {"wsOpenFails", "wsNotOpen"} /\ stack # <<>>
  BY DEF WsOpenFails, WsNotOpen, Top, Running
<1>2. /\ stack' = Rest /\ UNCHANGED clientRest /\ io_state' = "NOT_OPEN"
      /\ UNCHANGED <<opened, abandoned, pending_io_list, told, ioAccepted,
                     on_io_close_complete, freed, closes>>
  BY DEF WsOpenFails, WsNotOpen, wsHistory
<1>3. ~abandoned => Low \/ Doomed
  <2>1. CASE stack[1].op = "wsOpenFails"
    BY <1>1, <2>1 DEF WsCore, Whole, Tells, OnTop, Low
  <2>2. CASE stack[1].op = "wsNotOpen"
    <3>1. Has(stack, "wsNotOpen")
      BY <1>1, <2>2, TopIn DEF WsCore, Whole, Core, IInv
    <3>2. QED
      BY <3>1 DEF WsCore, States, LowFits
  <2>3. QED
    BY <1>1, <2>1, <2>2
<1>4. Fine({}) /\ WsTypes'
  BY <1>2, <1>3 DEF Fine, WsTypes, WsCore
<1>5. QED
  BY <1>1, <1>2, <1>4, PopKeeps DEF WsOps

LEMMA WsCloseFailsKeeps == ASSUME WsCore, Running, WsCloseFails PROVE WsCore'
<1>1. /\ stack[1].op = "wsCloseFails"
      /\ "wsCloseFails" \in (WsOps \cup {"user"}) \ {"wsSent", "wsSendFails"} /\ "closed" \in Evs
  BY DEF WsCloseFails, Top, WsOps, Evs, Events
<1>2. /\ UNCHANGED clientRest /\ closes' \in Nat
      /\ stack' = App("closed") \o Rest \/ stack' = Rest
      /\ UNCHANGED <<io_state, opened, abandoned, pending_io_list, told, ioAccepted,
                     on_io_close_complete, freed>>
  BY DEF WsCloseFails, wsState, WsCore, WsTypes
<1>3. Fine({}) /\ WsTypes'
  BY <1>1, <1>2, FineSame, TopsOp DEF Running, WsTypes, WsCore
<1>4. QED
  BY <1>1, <1>2, <1>3, PopKeeps, AppKeeps

(* A send is completed to the application.                                  *)
LEMMA TellsAccounts ==
  ASSUME WsAccounts, WsTypes, sends \in 0 .. Sends, NEW s \in ToSet(pending_io_list),
         pending_io_list' = Without(pending_io_list, s), told' = [told EXCEPT ![s] = @ + 1],
         UNCHANGED <<ioAccepted, sends, accepted>>, WsSends(stack') = WsSends(stack)
  PROVE  WsAccounts' /\ pending_io_list' \in Seq(1 .. Sends) /\ told' \in [1 .. Sends -> Nat]
<1>1. /\ pending_io_list' \in Seq(1 .. Sends) /\ Distinct(pending_io_list')
      /\ ToSet(pending_io_list') = ToSet(pending_io_list) \ {s}
  BY WithoutElements DEF WsAccounts, WsTypes
<1>2. s \in 1 .. sends /\ s \in 1 .. Sends /\ told \in [1 .. Sends -> Nat] /\ told[s] = 0
  BY UwsAssumption DEF WsAccounts, WsTypes
<1>3. /\ told' \in [1 .. Sends -> Nat] /\ told'[s] = 1
      /\ \A x \in 1 .. Sends : x # s => told'[x] = told[x]
  BY <1>2
<1>4. ASSUME NEW x \in 1 .. Sends
      PROVE  /\ told'[x] <= 1
             /\ x \in ToSet(pending_io_list') \/ x > sends' => told'[x] = 0
             /\ x \in accepted' /\ told'[x] = 0 => x \in ToSet(pending_io_list')
             /\ x \in ToSet(pending_io_list') /\ x \notin ioAccepted' =>
                  \E f \in WsSends(stack') : f.n = x
  <2>1. CASE x = s
    <3>1. ~(x > sends)
      BY <1>2, <2>1
    <3>2. QED
      BY <1>1, <1>3, <2>1, <3>1
  <2>2. CASE x # s
    <3>1. /\ told'[x] = told[x]
          /\ x \in ToSet(pending_io_list') <=> x \in ToSet(pending_io_list)
      BY <1>1, <1>3, <1>4, <2>2
    <3>2. QED
      BY <1>4, <3>1 DEF WsAccounts
  <2>3. QED
    BY <2>1, <2>2
<1>5. QED
  BY <1>1, <1>3, <1>4 DEF WsAccounts

LEMMA CompletesKeep ==
  ASSUME WsCore, Calling, NEW b, b = stack \/ (stack # <<>> /\ b = Rest),
         Turns(b), Holds(b, b, {}), NEW s \in ToSet(pending_io_list), CompleteSendItem(s, b),
         b = stack \/ stack[1].op \notin {"wsSent", "wsSendFails"}, ~Tops(stack, "open"),
         UNCHANGED clientRest,
         UNCHANGED <<io_state, abandoned, on_io_close_complete, opened, closes, ioAccepted>>
  PROVE  WsCore'
<1> DEFINE f == WsFrame("app", "sent", s)
<1>1. s \in 1 .. Sends /\ s \in Nat /\ sends \in 0 .. Sends
  <2>1. pending_io_list \in Seq(1 .. Sends) /\ sends \in 0 .. Sends
    BY DEF WsCore, WsTypes, Whole, Core, IInv, Types
  <2>2. ToSet(pending_io_list) \subseteq 1 .. Sends
    <3> DEFINE E == 1 .. Sends
    <3>1. pending_io_list \in Seq(E)
      BY <2>1
    <3> HIDE DEF E
    <3>2. ToSet(pending_io_list) \subseteq E
      BY <3>1 DEF ToSet
    <3>3. QED
      BY <3>2 DEF E
  <2>3. QED
    BY <2>1, <2>2, UwsAssumption
<1>2. /\ Turns(stack') /\ Holds(stack', b, {} \cup {f})
  <2>1. stack' = Frame("app", "sent", s) \o b /\ "sent" \in Evs
    BY DEF CompleteSendItem, Evs, Events
  <2>2. QED
    BY <1>1, <2>1, AppCalled
<1>3. \A g \in {} \cup {f} : g.op = "app"
  BY DEF WsFrame
<1> HIDE DEF f
<1>4. Fine({} \cup {f})
  BY <1>3, FineSame
<1>5. Whole' /\ States' /\ WsSends(stack') = WsSends(stack) /\ UNCHANGED <<sends, accepted>>
  BY <1>2, <1>3, <1>4, StepWhole
<1>6. WsAccounts' /\ pending_io_list' \in Seq(1 .. Sends) /\ told' \in [1 .. Sends -> Nat]
  BY <1>1, <1>5, TellsAccounts DEF CompleteSendItem, WsCore
<1>7. WsTypes'
  BY <1>6 DEF CompleteSendItem, WsCore, WsTypes
<1>8. QED
  BY <1>5, <1>6, <1>7 DEF WsCore

LEMMA WsCancelKeeps == ASSUME WsCore, Running, WsCancel PROVE WsCore'
<1>1. /\ stack[1].op = "wsCancel" /\ "wsCancel" \notin {"user", "wsOpenFails"}
      /\ "wsCancel" \in (WsOps \cup {"user"}) \ {"wsSent", "wsSendFails"}
  BY DEF WsCancel, Top, WsOps
<1>2. UNCHANGED <<clientRest, on_io_close_complete, opened, closes, ioAccepted>>
  BY DEF WsCancel
<1>3. ~Tops(stack, "open") /\ stack # <<>>
  BY <1>1, TopsOp DEF Running
<1>4. CASE /\ pending_io_list # <<>>
           /\ CompleteSendItem(Head(pending_io_list), stack)
           /\ UNCHANGED <<io_state, abandoned>>
  <2>1. Head(pending_io_list) \in ToSet(pending_io_list)
    BY <1>4, TailElements DEF WsCore, WsTypes, WsAccounts
  <2>2. Calling /\ Turns(stack) /\ Holds(stack, stack, {})
    BY <1>1, TopTurn DEF WsCore
  <2>3. QED
    BY <1>2, <1>3, <1>4, <2>1, <2>2, CompletesKeep
<1>5. CASE /\ io_state' = "NOT_OPEN" /\ stack' = Rest
           /\ abandoned' = (abandoned \/ io_state \notin {"CLOSING", "NOT_OPEN"})
           /\ UNCHANGED <<pending_io_list, told, freed>>
  <2>1. Fine({})
    BY <1>5 DEF Fine, WsCore, States, LowFits
  <2>2. WsTypes'
    BY <1>2, <1>5 DEF WsCore, WsTypes
  <2>3. QED
    BY <1>1, <1>2, <1>5, <2>1, <2>2, PopKeeps
<1>6. QED
  BY <1>4, <1>5 DEF WsCancel

(* uws_client_send_frame_async has returned.                                *)
LEMMA SendReturnsWhole ==
  ASSUME WsCore, Running, stack[1].op \in {"wsSent", "wsSendFails"}, stack' = Rest,
         UNCHANGED clientRest, UNCHANGED <<io_state, opened, abandoned>>
  PROVE  /\ Whole' /\ States' /\ UNCHANGED <<sends, accepted>>
         /\ WsSends(stack') \subseteq WsSends(stack)
         /\ WsSends(stack) \subseteq WsSends(stack') \cup {stack[1]}
         /\ stack[1] \in WsSends(stack)
         /\ stack[1].n \in 1 .. sends /\ (stack[1].n \in accepted <=> stack[1].op = "wsSent")
         /\ sends \in 0 .. Sends
<1>1. /\ Calling /\ stack # <<>> /\ Turns(Rest) /\ Holds(Rest, Rest, {})
  <2>1. stack[1].op \in WsOps \cup {"user"}
    BY DEF WsOps
  <2>2. QED
    BY <2>1, TopTurn DEF WsCore
<1>2. Fine({})
  <2>1. ~Tops(stack, "open")
    BY <1>1, TopsOp
  <2>2. QED
    BY <2>1, FineSame
<1>3. Whole' /\ States' /\ UNCHANGED <<sends, accepted>>
  BY <1>1, <1>2, StepWhole
<1>4. /\ WsSends(Rest) \subseteq WsSends(stack)
      /\ WsSends(stack) \subseteq WsSends(Rest) \cup (IF Rest = stack THEN {} ELSE {stack[1]})
  BY <1>1, Seen DEF WsCore
<1>5. stack[1] \in WsSends(stack)
  <2>1. stack[1] \in ToSet(stack)
    BY <1>1, TopIn DEF WsCore, Whole, Core, IInv
  <2>2. QED
    BY <2>1 DEF WsSends
<1>6. QED
  BY <1>3, <1>4, <1>5 DEF WsCore, WsAccounts, Whole, Core, IInv, Types

LEMMA WsSentKeeps == ASSUME WsCore, Running, WsSent PROVE WsCore'
<1>1. /\ stack[1].op = "wsSent" /\ stack' = Rest /\ UNCHANGED clientRest
      /\ ioAccepted' = ioAccepted \cup {stack[1].n}
      /\ UNCHANGED <<io_state, opened, abandoned, pending_io_list, told, on_io_close_complete,
                     freed, closes>>
  BY DEF WsSent, Top, wsState
<1>2. /\ Whole' /\ States' /\ UNCHANGED <<sends, accepted>>
      /\ WsSends(stack') \subseteq WsSends(stack)
      /\ WsSends(stack) \subseteq WsSends(stack') \cup {stack[1]}
      /\ stack[1].n \in 1 .. sends /\ stack[1].n \in accepted /\ sends \in 0 .. Sends
  BY <1>1, SendReturnsWhole
<1>3. WsTypes'
  <2>1. stack[1].n \in 1 .. Sends
    BY <1>2, UwsAssumption
  <2>2. QED
    BY <1>1, <2>1 DEF WsCore, WsTypes
<1>4. WsAccounts'
  BY <1>1, <1>2 DEF WsCore, WsAccounts
<1>5. QED
  BY <1>2, <1>3, <1>4 DEF WsCore

LEMMA WsSendFailsKeeps == ASSUME WsCore, Running, WsSendFails PROVE WsCore'
<1> DEFINE s == stack[1].n
<1>1. /\ stack[1].op = "wsSendFails" /\ stack' = Rest /\ UNCHANGED clientRest
      /\ pending_io_list' = Without(pending_io_list, s)
      /\ freed' \in {0, s}
      /\ UNCHANGED <<io_state, opened, abandoned, told, on_io_close_complete, ioAccepted, closes>>
  BY DEF WsSendFails, Top, wsHistory
<1>2. /\ Whole' /\ States' /\ UNCHANGED <<sends, accepted>>
      /\ WsSends(stack') \subseteq WsSends(stack)
      /\ WsSends(stack) \subseteq WsSends(stack') \cup {stack[1]}
      /\ s \in 1 .. sends /\ s \notin accepted /\ sends \in 0 .. Sends
  BY <1>1, SendReturnsWhole
<1>3. /\ pending_io_list' \in Seq(1 .. Sends) /\ Distinct(pending_io_list')
      /\ ToSet(pending_io_list') = ToSet(pending_io_list) \ {s}
  BY <1>1, WithoutElements DEF WsCore, WsAccounts, WsTypes
<1>4. WsTypes'
  <2>1. s \in 0 .. Sends /\ 0 \in 0 .. Sends
    BY <1>2, UwsAssumption
  <2>2. QED
    BY <1>1, <1>3, <2>1 DEF WsCore, WsTypes
<1> HIDE DEF s
<1>5. WsAccounts'
  <2>1. ASSUME NEW x \in 1 .. Sends
        PROVE  /\ told'[x] <= 1
               /\ x \in ToSet(pending_io_list') \/ x > sends' => told'[x] = 0
               /\ x \in accepted' /\ told'[x] = 0 => x \in ToSet(pending_io_list')
    BY <1>1, <1>2, <1>3, <2>1 DEF WsCore, WsAccounts
  <2>2. ASSUME NEW x \in 1 .. Sends, x \in ToSet(pending_io_list'), x \notin ioAccepted'
        PROVE  \E f \in WsSends(stack') : f.n = x
    <3>1. PICK f \in WsSends(stack) : f.n = x
      BY <1>1, <1>3, <2>2 DEF WsCore, WsAccounts
    <3>2. f # stack[1]
      BY <1>3, <2>2, <3>1 DEF s
    <3>3. QED
      BY <1>2, <3>1, <3>2
  <2>3. /\ ToSet(pending_io_list') \subseteq 1 .. sends' /\ ioAccepted' \subseteq accepted'
        /\ \A f \in WsSends(stack') : f.n \in 1 .. sends' /\ (f.n \in accepted' <=> f.op = "wsSent")
    BY <1>1, <1>2, <1>3 DEF WsCore, WsAccounts
  <2>4. QED
    BY <1>3, <2>1, <2>2, <2>3 DEF WsAccounts
<1>6. QED
  BY <1>2, <1>4, <1>5 DEF WsCore

-------------------------------------------------------------------------------
(* The callbacks of the client.                                             *)
LEMMA CallsTurn ==
  ASSUME WsCore, Running, NEW ev, Calls(ev)
  PROVE  /\ Calling /\ stack # <<>> /\ stack[1].op = "user" /\ Tops(stack, ev)
         /\ stack[1].op \in (WsOps \cup {"user"}) \ {"wsSent", "wsSendFails"}
         /\ Turns(Rest) /\ Holds(Rest, Rest, {})
         /\ \A e : Tops(stack, e) => e = ev
<1>1. stack # <<>> /\ stack[1].op = "user" /\ stack[1].ev = ev
  BY DEF Calls, Top, Running
<1>2. Calling /\ Turns(Rest) /\ Holds(Rest, Rest, {})
  BY <1>1, TopTurn DEF WsCore
<1>3. QED
  BY <1>1, <1>2 DEF Tops, Tell

LEMMA OpenCompleteKeeps == ASSUME WsCore, Running, OnUnderlyingWsOpenComplete PROVE WsCore'
<1>1. /\ Calls("open") /\ {"open", "error"} \subseteq Evs
      /\ UNCHANGED <<clientRest, pending_io_list, on_io_close_complete, freed, told, closes,
                     ioAccepted, abandoned>>
  BY DEF OnUnderlyingWsOpenComplete, Evs, Events
<1>2. stack[1].op \in (WsOps \cup {"user"}) \ {"wsSent", "wsSendFails"} /\ Tops(stack, "open")
  BY <1>1, CallsTurn
<1>3. CASE /\ io_state = "OPENING"
           /\ IndicateOpenComplete(IF Last(answers) = "OK" THEN "OPEN" ELSE "NOT_OPEN", Rest)
  <2>1. /\ io_state' = (IF Last(answers) = "OK" THEN "OPEN" ELSE "NOT_OPEN")
        /\ opened' = opened + 1 /\ stack' = App("open") \o Rest
    BY <1>3 DEF IndicateOpenComplete
  <2>2. io_state' = "NOT_OPEN" => Low
    BY <1>2, <2>1 DEF WsCore, Whole, Tells, Low
  <2>3. Fine({})
    BY <1>1, <2>1, <2>2 DEF Fine
  <2>4. WsTypes'
    BY <1>1, <1>3, <2>1 DEF WsCore, WsTypes, States, OpeningFits
  <2>5. QED
    BY <1>1, <1>2, <2>1, <2>3, <2>4, AppKeeps
<1>4. CASE io_state # "OPENING" /\ WsIndicateError(Rest) /\ UNCHANGED opened
  <2>1. io_state' = "ERROR" /\ stack' = App("error") \o Rest
    BY <1>4 DEF WsIndicateError
  <2>2. Fine({}) /\ WsTypes'
    BY <1>1, <1>4, <2>1 DEF Fine, WsCore, WsTypes
  <2>3. QED
    BY <1>1, <1>2, <2>1, <2>2, AppKeeps
<1>5. QED
  BY <1>3, <1>4 DEF OnUnderlyingWsOpenComplete

LEMMA FrameReceivedKeeps ==
  ASSUME WsCore, Running, OnUnderlyingWsFrameReceived PROVE WsCore'
<1>1. /\ Calls("frame") /\ {"frame", "error"} \subseteq Evs
      /\ UNCHANGED <<clientRest, pending_io_list, on_io_close_complete, freed, opened, told,
                     closes, ioAccepted, abandoned>>
      /\ \/ io_state = "OPEN" /\ stack' = App("frame") \o Rest /\ UNCHANGED io_state
         \/ io_state' = "ERROR" /\ stack' = App("error") \o Rest
         \/ stack' = Rest /\ UNCHANGED io_state
  BY DEF OnUnderlyingWsFrameReceived, wsHistory, WsIndicateError, Evs, Events
<1>2. /\ stack[1].op \in (WsOps \cup {"user"}) \ {"wsSent", "wsSendFails"}
      /\ ~Tops(stack, "open")
  BY <1>1, CallsTurn
<1>3. Fine({})
  <2>1. CASE UNCHANGED io_state
    BY <1>1, <1>2, <2>1, FineSame
  <2>2. CASE io_state' = "ERROR"
    BY <1>1, <2>2 DEF Fine
  <2>3. QED
    BY <1>1, <2>1, <2>2
<1>4. WsTypes'
  BY <1>1 DEF WsCore, WsTypes
<1>5. QED
  BY <1>1, <1>2, <1>3, <1>4, AppKeeps, PopKeeps

LEMMA PeerClosedKeeps == ASSUME WsCore, Running, OnUnderlyingWsPeerClosed PROVE WsCore'
<1>1. /\ Calls("peerClosed") /\ {"open", "error", "none"} \subseteq Evs
      /\ UNCHANGED <<clientRest, pending_io_list, on_io_close_complete, freed, told, closes,
                     ioAccepted, abandoned>>
  BY DEF OnUnderlyingWsPeerClosed, Evs, Events
<1>2. /\ stack[1].op \in (WsOps \cup {"user"}) \ {"wsSent", "wsSendFails"}
      /\ Tops(stack, "peerClosed") /\ ~Tops(stack, "open") /\ Calling /\ stack # <<>>
      /\ Turns(Rest) /\ Holds(Rest, Rest, {})
  BY <1>1, CallsTurn
<1>3. Peer(stack) /\ Has(Rest, "consume")
  <2>1. stack[1] \in ToSet(stack)
    BY <1>2, Turn DEF WsCore
  <2>2. QED
    BY <1>2, <2>1, Turn DEF WsCore, Peer, Tops
<1>4. CASE io_state = "OPENING" /\ IndicateOpenComplete("NOT_OPEN", Rest)
  <2>1. io_state' = "NOT_OPEN" /\ opened' = opened + 1 /\ stack' = App("open") \o Rest
    BY <1>4 DEF IndicateOpenComplete
  <2>2. opened = 0 /\ Doomed
    BY <1>3, <1>4 DEF WsCore, States, OpeningFits
  <2>3. Fine({}) /\ WsTypes'
    BY <1>1, <2>1, <2>2 DEF Fine, WsCore, WsTypes
  <2>4. QED
    BY <1>1, <1>2, <2>1, <2>3, AppKeeps
<1>5. CASE io_state \notin {"OPENING", "NOT_OPEN"} /\ WsIndicateError(Rest) /\ UNCHANGED opened
  <2>1. io_state' = "ERROR" /\ stack' = App("error") \o Rest
    BY <1>5 DEF WsIndicateError
  <2>2. Fine({}) /\ WsTypes'
    BY <1>1, <1>5, <2>1 DEF Fine, WsCore, WsTypes
  <2>3. QED
    BY <1>1, <1>2, <2>1, <2>2, AppKeeps
<1>6. CASE io_state = "NOT_OPEN" /\ WsIndicateError(Call("wsNotOpen") \o Rest) /\ UNCHANGED opened
  <2> DEFINE w == Call("wsNotOpen") \o Rest
             g == WsFrame("wsNotOpen", "none", 0)
             f == WsFrame("app", "error", 0)
  <2>1. io_state' = "ERROR" /\ stack' = App("error") \o w
    BY <1>6 DEF WsIndicateError
  <2>2. "wsNotOpen" \in WsOps \ {"wsOpenFails"} /\ "wsNotOpen" # "wsDestroy"
    BY DEF WsOps
  <2>3. Turns(w) /\ Holds(w, Rest, {} \cup {g})
    BY <1>1, <1>2, <1>3, <2>2, TurnsPush DEF Call
  <2>4. Turns(stack') /\ Holds(stack', Rest, ({} \cup {g}) \cup {f})
    <3> HIDE DEF w, g
    <3>1. stack' = Frame("app", "error", 0) \o w
      BY <2>1 DEF App
    <3>2. QED
      BY <1>1, <2>3, <3>1, AppCalled
  <2>5. \A h \in ({} \cup {g}) \cup {f} : h.op \in {"app", "wsNotOpen"}
    BY DEF WsFrame
  <2>6. Fine(({} \cup {g}) \cup {f})
    <3>1. ~abandoned => Low \/ Doomed
      BY <1>6 DEF WsCore, States, LowFits
    <3>2. QED
      BY <1>1, <2>1, <3>1 DEF Fine
  <2>7. WsTypes'
    BY <1>1, <1>6, <2>1 DEF WsCore, WsTypes
  <2> HIDE DEF f, g, w
  <2>8. QED
    BY <1>1, <1>2, <2>4, <2>5, <2>6, <2>7, StepKeeps
<1>7. QED
  BY <1>4, <1>5, <1>6 DEF OnUnderlyingWsPeerClosed

LEMMA ErrorKeeps == ASSUME WsCore, Running, OnUnderlyingWsError PROVE WsCore'
<1>1. /\ Calls("error") /\ "error" \in Evs
      /\ UNCHANGED <<clientRest, pending_io_list, on_io_close_complete, freed, told, closes,
                     ioAccepted, abandoned>>
  BY DEF OnUnderlyingWsError, Evs, Events
<1>2. /\ stack[1].op \in (WsOps \cup {"user"}) \ {"wsSent", "wsSendFails"}
      /\ Tops(stack, "error") /\ ~Tops(stack, "open")
  BY <1>1, CallsTurn
<1>3. io_state # "OPENING"
  BY <1>2 DEF WsCore, States, OpeningFits, Whole, Tells
<1>4. stack' = App("error") \o Rest /\ UNCHANGED <<io_state, opened>>
  BY <1>3 DEF OnUnderlyingWsError
<1>5. Fine({}) /\ WsTypes'
  BY <1>1, <1>2, <1>4, FineSame DEF WsCore, WsTypes
<1>6. QED
  BY <1>1, <1>2, <1>4, <1>5, AppKeeps

LEMMA CloseCompleteKeeps == ASSUME WsCore, Running, OnUnderlyingWsCloseComplete PROVE WsCore'
<1>1. /\ Calls("closed") /\ "closed" \in Evs /\ io_state' = "NOT_OPEN"
      /\ stack' = App("closed") \o Rest \/ stack' = Rest
      /\ closes' \in Nat
      /\ UNCHANGED <<clientRest, pending_io_list, on_io_close_complete, freed, opened, told,
                     ioAccepted, abandoned>>
  BY DEF OnUnderlyingWsCloseComplete, Evs, Events, WsCore, WsTypes
<1>2. /\ stack[1].op \in (WsOps \cup {"user"}) \ {"wsSent", "wsSendFails"}
      /\ Tops(stack, "closed")
  BY <1>1, CallsTurn
<1>3. Low
  BY <1>2 DEF WsCore, Whole, Tells, Low
<1>4. Fine({}) /\ WsTypes'
  BY <1>1, <1>3 DEF Fine, WsCore, WsTypes
<1>5. QED
  BY <1>1, <1>2, <1>4, AppKeeps, PopKeeps

LEMMA SendFrameCompleteKeeps ==
  ASSUME WsCore, Running, OnUnderlyingWsSendFrameComplete PROVE WsCore'
<1> DEFINE s == stack[1].n
<1>1. /\ Calls("sent")
      /\ UNCHANGED <<clientRest, io_state, on_io_close_complete, opened, closes, ioAccepted,
                     abandoned>>
  BY DEF OnUnderlyingWsSendFrameComplete
<1>2. /\ stack[1].op \in (WsOps \cup {"user"}) \ {"wsSent", "wsSendFails"}
      /\ Calling /\ stack # <<>> /\ Turns(Rest) /\ Holds(Rest, Rest, {})
      /\ Tops(stack, "sent") /\ ~Tops(stack, "open")
  BY <1>1, CallsTurn
<1>3. CASE s \in ToSet(pending_io_list) /\ CompleteSendItem(s, Rest)
  BY <1>1, <1>2, <1>3, CompletesKeep
<1>4. CASE freed' = s /\ stack' = Rest /\ UNCHANGED <<pending_io_list, told>>
  <2>1. Fine({})
    BY <1>1, <1>2, FineSame
  <2>2. s \in 0 .. Sends
    <3>1. s \in 1 .. sends /\ sends \in 0 .. Sends
      BY <1>2 DEF WsCore, States, SentFits, Whole, Core, IInv, Types
    <3>2. QED
      BY <3>1, UwsAssumption
  <2>3. WsTypes'
    BY <1>1, <1>4, <2>2 DEF WsCore, WsTypes
  <2>4. QED
    BY <1>1, <1>2, <1>4, <2>1, <2>3, PopKeeps
<1>5. QED
  BY <1>3, <1>4 DEF OnUnderlyingWsSendFrameComplete

-------------------------------------------------------------------------------
(* The calls.                                                               *)
LEMMA NothingDue ==
  ASSUME Whole', NEW s, Base(s), NEW F, Holds(stack', s, F), \A f \in F : f.op # "user"
  PROVE  \A ev : Tops(stack', ev) => ev = "peerClosed"
<1>1. stack' # <<>> => stack'[1] \in ToSet(stack')
  BY TopIn DEF Whole, Core, IInv
<1>2. \A f \in ToSet(stack') : f.op = "user" => f.ev = "peerClosed"
  BY DEF Holds, Base, Calm, Reps, AtOnce
<1>3. QED
  BY <1>1, <1>2 DEF Tops, Tell

LEMMA CallKeeps ==
  ASSUME WsCore, Calling, NEW s, Base(s), s = stack \/ (stack # <<>> /\ s = Rest), NEW F,
         Holds(stack', s, F), \A f \in F : f.op \notin {"user", "wsSent", "wsSendFails"},
         s = stack \/ stack[1].op \notin {"wsSent", "wsSendFails"},
         Whole', WsTypes', AskedFor', OpeningFits', LowFits',
         UNCHANGED <<pending_io_list, told, ioAccepted, sends, accepted>>
  PROVE  WsCore'
<1>1. SentFits'
  BY NothingDue DEF SentFits
<1>2. /\ WsSends(s) \subseteq WsSends(stack') /\ WsSends(stack') \subseteq WsSends(s) \cup F
      /\ WsSends(s) \subseteq WsSends(stack)
      /\ WsSends(stack) \subseteq WsSends(s) \cup (IF s = stack THEN {} ELSE {stack[1]})
  BY Seen DEF WsCore
<1>3. WsSends(stack') = WsSends(stack)
  <2>1. \A f \in WsSends(stack') : f \notin F
    BY DEF WsSends
  <2>2. stack[1].op \notin {"wsSent", "wsSendFails"} => stack[1] \notin WsSends(stack)
    BY DEF WsSends
  <2>3. QED
    BY <1>2, <2>1, <2>2
<1>4. WsAccounts'
  BY <1>3, AccountsKeep DEF WsCore
<1>5. QED
  BY <1>1, <1>4 DEF WsCore, States

LEMMA WsioOpenKeeps == ASSUME WsCore, WsioOpen PROVE WsCore'
<1>1. /\ InApp /\ OpenWith(stack, Call("wsOpenFails") \o stack) /\ io_state' = "OPENING"
      /\ opened' = 0 /\ closes' = 0 /\ abandoned' = FALSE
      /\ UNCHANGED <<pending_io_list, on_io_close_complete, freed, told, ioAccepted>>
  BY DEF WsioOpen
<1>2. /\ Calling /\ Base(stack)
  BY <1>1, InAppFacts DEF WsCore
<1>3. /\ Whole'
      /\ \/ Holds(stack', stack, {})
         \/ Holds(stack', stack, {WsFrame("openFails", "none", 0),
                                  WsFrame("wsOpenFails", "none", 0)})
  BY <1>1, OpenedWhole DEF WsCore
<1>4. PICK F : Holds(stack', stack, F) /\ \A f \in F : f.op \in {"openFails", "wsOpenFails"}
  <2>1. \A o : WsFrame(o, "none", 0).op = o
    BY DEF WsFrame
  <2>2. QED
    BY <1>3, <2>1
<1>5. /\ uws_state' = "OPENING_UNDERLYING_IO" /\ received' = <<>> /\ asked' = "no"
      /\ UNCHANGED <<sends, accepted>>
  BY <1>1 DEF OpenWith, sendHistory
<1>6. /\ Peer(stack') => Peer(stack)
      /\ Has(stack, "consume") => Has(stack', "consume")
      /\ Has(stack', "wsNotOpen") => Has(stack, "wsNotOpen")
  <2>1. "wsNotOpen" \notin Reps /\ "consume" \in ClientOps
    BY DEF Reps, AtOnce, ClientOps
  <2>2. QED
    BY <1>2, <1>4, <2>1, Seen DEF WsCore
<1>7. Peer(stack') \/ Has(stack', "wsNotOpen") => Doomed'
  BY <1>2, <1>5, <1>6 DEF Base, Calm, Doomed
<1>8. AskedFor' /\ OpeningFits' /\ LowFits'
  BY <1>1, <1>5, <1>7 DEF AskedFor, OpeningFits, LowFits
<1>9. WsTypes'
  <2>1. WsTypes /\ 0 \in Nat /\ 0 \in 0 .. 1
    BY DEF WsCore
  <2>2. /\ io_state' \in {"NOT_OPEN", "OPENING", "OPEN", "CLOSING", "ERROR"}
        /\ opened' \in 0 .. 1 /\ closes' \in Nat /\ abandoned' \in BOOLEAN
    BY <1>1, <2>1
  <2>3. UNCHANGED <<pending_io_list, on_io_close_complete, freed, told, ioAccepted>>
    BY <1>1
  <2>4. QED
    BY <2>1, <2>2, <2>3 DEF WsTypes
<1>10. QED
  BY <1>1, <1>2, <1>3, <1>4, <1>5, <1>8, <1>9, CallKeeps

(* A fresh element at the end of a sequence.                                *)
LEMMA AppendElements ==
  ASSUME NEW E, NEW q \in Seq(E), Distinct(q), NEW e \in E, e \notin ToSet(q)
  PROVE  /\ Append(q, e) \in Seq(E)
         /\ ToSet(Append(q, e)) = ToSet(q) \cup {e}
         /\ Distinct(Append(q, e))
<1> DEFINE r == Append(q, e)
<1>1. /\ DOMAIN r = 1 .. Len(q) + 1 /\ r[Len(q) + 1] = e /\ r \in Seq(E)
      /\ DOMAIN q = 1 .. Len(q) /\ Len(q) \in Nat
      /\ \A i \in 1 .. Len(q) : r[i] = q[i]
  OBVIOUS
<1> HIDE DEF r
<1>2. ASSUME NEW x \in ToSet(r) PROVE x = e \/ x \in ToSet(q)
  <2>1. PICK i \in DOMAIN r : x = r[i]
    BY <1>2 DEF ToSet
  <2>2. i = Len(q) + 1 \/ i \in 1 .. Len(q)
    BY <1>1
  <2>3. QED
    BY <1>1, <2>1, <2>2 DEF ToSet
<1>3. \A i \in DOMAIN q : i \in DOMAIN r
  BY <1>1
<1>4. ToSet(q) \subseteq ToSet(r)
  BY <1>1, <1>3 DEF ToSet
<1>5. e \in ToSet(r)
  <2>1. Len(q) + 1 \in DOMAIN r
    BY <1>1
  <2>2. QED
    BY <1>1, <2>1 DEF ToSet
<1>6. ToSet(r) = ToSet(q) \cup {e}
  BY <1>2, <1>4, <1>5
<1>7. \A i \in 1 .. Len(q) : q[i] # e
  BY <1>1 DEF ToSet
<1>8. \A i, j \in DOMAIN q : q[i] = q[j] => i = j
  BY DEF Distinct
<1>9. ASSUME NEW i \in DOMAIN r, NEW j \in DOMAIN r, r[i] = r[j] PROVE i = j
  BY <1>1, <1>7, <1>8, <1>9
<1>10. Distinct(r)
  BY <1>9 DEF Distinct
<1>11. QED
  BY <1>1, <1>6, <1>10 DEF r

(* internal_close, from wsio_close and wsio_destroy.                        *)
LEMMA InternalCloseKeeps ==
  ASSUME WsCore, Calling, Base(stack), freed = 0, NEW callback \in BOOLEAN,
         NEW then, Turns(then), Resumes(then), NEW D, Holds(then, stack, D),
         \A f \in D : f.op = "wsDestroy", InternalClose(callback, then)
  PROVE  WsCore'
<1>1. CASE /\ io_state = "OPENING" /\ IndicateOpenComplete("NOT_OPEN", then)
           /\ abandoned' = TRUE
           /\ UNCHANGED <<clientRest, pending_io_list, on_io_close_complete, freed, told,
                          closes, ioAccepted>>
  <2> DEFINE f == WsFrame("app", "open", 0)
  <2>1. io_state' = "NOT_OPEN" /\ opened' = opened + 1 /\ stack' = App("open") \o then
    BY <1>1 DEF IndicateOpenComplete
  <2>2. Turns(stack') /\ Holds(stack', stack, D \cup {f})
    BY <2>1, AppCalled DEF App, Evs, Events
  <2>3. \A g \in D \cup {f} : g.op \in {"wsDestroy", "app"}
    BY DEF WsFrame
  <2>4. Fine(D \cup {f})
    BY <1>1, <2>1, <2>3 DEF Fine
  <2>5. WsTypes'
    BY <1>1, <2>1 DEF WsCore, WsTypes, States, OpeningFits
  <2> HIDE DEF f
  <2>6. QED
    BY <1>1, <2>2, <2>3, <2>4, <2>5, StepKeeps
<1>2. CASE /\ io_state \in {"OPEN", "ERROR"} /\ io_state' = "CLOSING"
           /\ on_io_close_complete' = callback
           /\ LET rest == Call("wsCancel") \o then
                  fails == Call("wsCloseFails") \o rest IN
              \/ CloseWith(TRUE, rest, fails)
              \/ /\ uws_state \in {"CLOSED", "CLOSING_SENDING_CLOSE", "CLOSING_UNDERLYING_IO"}
                 /\ stack' = fails
                 /\ UNCHANGED clientRest
           /\ UNCHANGED <<pending_io_list, freed, wsHistory>>
  <2> DEFINE rest == Call("wsCancel") \o then
             fails == Call("wsCloseFails") \o rest
  <2>1. \/ CloseWith(TRUE, rest, fails)
        \/ Low /\ stack' = fails /\ UNCHANGED clientRest
    BY <1>2 DEF Low
  <2>2. /\ Whole'
        /\ \/ Holds(stack', stack, D \cup Cancels) \/ Holds(stack', stack, D \cup CloseFails)
    <3>1. \A g \in D : g.op # "cancel"
      OBVIOUS
    <3>2. Whole
      BY DEF WsCore
    <3>3. CloseWith(TRUE, rest, fails) \/ (stack' = fails /\ UNCHANGED clientRest)
      BY <2>1
    <3>4. QED
      BY <3>1, <3>2, <3>3, ClosedWhole
  <2>3. PICK F : /\ Holds(stack', stack, F)
                 /\ \A f \in F : f.op \in {"wsDestroy", "wsCancel", "wsCloseFails", "cancel"}
    <3>1. \A f \in Cancels \cup CloseFails : f.op \in {"wsCancel", "wsCloseFails", "cancel"}
      BY DEF Cancels, CloseFails, WsFrame
    <3>2. QED
      BY <2>2, <3>1
  <2>4. Low' /\ UNCHANGED <<sends, accepted>>
        /\ (on_ws_close_complete' \/ UNCHANGED <<asked, on_ws_close_complete>>)
    BY <2>1 DEF CloseWith, Low, clientRest, clientVars, history, sendHistory
  <2>5. Has(stack, "destroyed") => Has(stack', "destroyed")
    <3>1. "destroyed" \in ClientOps /\ \A f \in F : f.op # "user"
      BY <2>3 DEF ClientOps
    <3>2. QED
      BY <2>3, <3>1, Seen DEF WsCore
  <2>6. AskedFor' /\ OpeningFits' /\ LowFits'
    BY <1>2, <2>4, <2>5 DEF AskedFor, OpeningFits, LowFits, WsCore, States
  <2>7. WsTypes'
    BY <1>2 DEF WsCore, WsTypes, wsHistory
  <2>8. UNCHANGED <<pending_io_list, told, ioAccepted>>
    BY <1>2 DEF wsHistory
  <2> HIDE DEF rest, fails
  <2>9. QED
    BY <2>2, <2>3, <2>4, <2>6, <2>7, <2>8, CallKeeps
<1>3. QED
  BY <1>1, <1>2 DEF InternalClose

LEMMA WsioCloseKeeps == ASSUME WsCore, WsioClose PROVE WsCore'
<1>1. InApp /\ \E callback \in BOOLEAN : InternalClose(callback, stack)
  BY DEF WsioClose
<1>2. /\ Calling /\ Base(stack) /\ freed = 0 /\ Turns(stack) /\ Resumes(stack)
      /\ Holds(stack, stack, {})
  BY <1>1, InAppFacts DEF WsCore
<1>3. QED
  BY <1>1, <1>2, InternalCloseKeeps

LEMMA DestroyKeeps ==
  ASSUME WsCore, Calling, stack = <<>> \/ (stack # <<>> /\ Top("wsDestroy")),
         DestroyClient, UNCHANGED wsVars
  PROVE  WsCore'
<1> DEFINE h == WsFrame("cancel", "none", 0)
<1>0. Stacked(stack) /\ "wsDestroy" \in WsOps
  BY DEF WsCore, Whole, Core, IInv, WsOps
<1>1. /\ <<>> = stack \/ (stack # <<>> /\ <<>> = Rest)
      /\ <<>> = stack \/ stack[1].op = "wsDestroy"
  BY <1>0, StackedPop DEF Top, Rest
<1>2. Whole' /\ \E F : Holds(stack', <<>>, F) /\ (F = Destroys \/ F = Destroys \cup {h})
  <2>1. Whole' /\ (Holds(stack', <<>>, Destroys) \/ Holds(stack', <<>>, Destroys \cup {h}))
    BY DestroyedWhole DEF WsCore
  <2>2. QED
    BY <2>1
<1>3. PICK F : Holds(stack', <<>>, F) /\ (F = Destroys \/ F = Destroys \cup {h})
  BY <1>2
<1>4. /\ \A f \in F : f.op \in {"destroyed", "cancel"}
      /\ \E f \in F : f.op = "destroyed"
  <2>1. F = Destroys \/ F = Destroys \cup {h}
    BY <1>3
  <2>2. \A f \in Destroys : f.op = "destroyed"
    BY DEF Destroys, WsFrame
  <2>3. \E f \in Destroys : f.op = "destroyed"
    BY DEF Destroys, WsFrame
  <2>4. h.op = "cancel"
    BY DEF WsFrame
  <2> HIDE DEF h
  <2>5. QED
    BY <2>1, <2>2, <2>3, <2>4
<1>5. /\ Has(stack', "destroyed") /\ ~Has(stack', "wsNotOpen") /\ ~Peer(stack')
      /\ ~Has(stack, "consume")
  <2>1. \A f \in ToSet(stack') : f \in F \/ f.op \in Reps
    BY <1>3, EmptyStack DEF Holds
  <2>2. F \subseteq ToSet(stack')
    BY <1>3 DEF Holds
  <2>3. ~Has(stack, "consume")
    <3>1. CASE stack = <<>>
      BY <3>1, HasNothing
    <3>2. CASE stack # <<>> /\ Rest = <<>> /\ stack[1].op = "wsDestroy"
      <4>1. ToSet(stack) = {stack[1]} \cup ToSet(Rest)
        BY <1>0, <3>2, StackedPop DEF Rest
      <4>2. QED
        BY <3>2, <4>1, EmptyStack DEF Has
    <3>3. QED
      BY <1>1, <3>1, <3>2
  <2>4. QED
    BY <1>4, <2>1, <2>2, <2>3 DEF Has, Peer, Tell, Reps, AtOnce
<1>6. /\ UNCHANGED <<sends, accepted, io_state, pending_io_list, on_io_close_complete, freed,
                     opened, told, closes, ioAccepted, abandoned>>
  BY DEF DestroyClient, CloseWith, history, sendHistory, wsVars, wsState, wsHistory
<1>7. ~Tops(stack, "open")
  BY <1>1 DEF Tops, Tell
<1>8. Low' \/ (UNCHANGED uws_state /\ uws_state \notin {"OPEN", "ERROR"})
  BY DEF DestroyClient, CloseWith, Low, clientVars
<1>9. AskedFor' /\ OpeningFits'
  BY <1>5, <1>6, <1>7, <1>8 DEF AskedFor, OpeningFits, WsCore, States, Low
<1>10. LowFits'
  <2>1. ~Doomed
    BY <1>5 DEF Doomed
  <2>2. Low => Low'
    BY <1>8 DEF Low
  <2>3. QED
    BY <1>5, <1>6, <2>1, <2>2 DEF LowFits, WsCore, States
<1>11. WsTypes'
  BY <1>6 DEF WsCore, WsTypes
<1>12. Base(<<>>)
  BY EmptyBase
<1> HIDE DEF h
<1>13. \A f \in F : f.op \notin {"user", "wsSent", "wsSendFails"}
  BY <1>4
<1>14. QED
  BY <1>1, <1>2, <1>3, <1>6, <1>9, <1>10, <1>11, <1>12, <1>13, CallKeeps

LEMMA WsDestroyKeeps == ASSUME WsCore, Running, WsDestroy PROVE WsCore'
<1>1. stack # <<>> /\ Top("wsDestroy") /\ DestroyClient /\ UNCHANGED wsVars /\ Alive
  BY DEF WsDestroy, Running
<1>2. Calling
  BY <1>1, WsAssumption DEF Calling, Top, WsOps
<1>3. QED
  BY <1>1, <1>2, DestroyKeeps

LEMMA WsioDestroyKeeps == ASSUME WsCore, WsioDestroy PROVE WsCore'
<1>1. /\ stack = <<>> /\ Calling /\ freed = 0
      /\ \/ DestroyClient /\ UNCHANGED wsVars
         \/ InternalClose(FALSE, Call("wsDestroy"))
  BY DEF WsioDestroy, Going, Calling
<1>2. CASE DestroyClient /\ UNCHANGED wsVars
  BY <1>1, <1>2, DestroyKeeps
<1>3. CASE InternalClose(FALSE, Call("wsDestroy"))
  <2> DEFINE g == WsFrame("wsDestroy", "none", 0)
             w == Call("wsDestroy") \o stack
  <2>1. Turns(stack) /\ Resumes(stack) /\ Holds(stack, stack, {}) /\ Base(stack)
    BY <1>1, Callers, Turn DEF WsCore
  <2>2. "wsDestroy" \in WsOps \ {"wsOpenFails"} /\ "none" \in Evs
        /\ "wsDestroy" \notin {"wsNotOpen", "wsCancel"}
    BY DEF WsOps, Evs
  <2>3. Turns(w) /\ Resumes(w) /\ Holds(w, stack, {} \cup {g})
    BY <1>1, <2>1, <2>2, TurnsPush DEF Call
  <2>4. w = Call("wsDestroy")
    BY <1>1 DEF Call, Frame
  <2>5. \A f \in {} \cup {g} : f.op = "wsDestroy"
    BY DEF WsFrame
  <2>6. InternalClose(FALSE, w)
    BY <1>3, <2>4
  <2> HIDE DEF w, g
  <2>7. QED
    BY <1>1, <2>1, <2>3, <2>5, <2>6, InternalCloseKeeps
<1>4. QED
  BY <1>1, <1>2, <1>3

LEMMA WsioSendKeeps == ASSUME WsCore, WsioSend PROVE WsCore'
<1> DEFINE s == sends + 1
           a == WsFrame("wsSent", "none", s)
           b == WsFrame("sendFails", "none", s)
           c == WsFrame("wsSendFails", "none", s)
<1>1. /\ InApp /\ io_state = "OPEN" /\ pending_io_list' = Append(pending_io_list, s)
      /\ SendFrameWith(Frame("wsSent", "none", s) \o stack,
                       Frame("wsSendFails", "none", s) \o stack)
      /\ UNCHANGED <<io_state, on_io_close_complete, freed, opened, told, closes, ioAccepted,
                     abandoned>>
  BY DEF WsioSend, wsHistory
<1>2. Calling /\ Base(stack) /\ Types /\ Accounts
  BY <1>1, InAppFacts DEF WsCore, Whole, Core, IInv
<1>3. /\ Whole' /\ sends' = s /\ sends < Sends
      /\ UNCHANGED <<uws_state, received, on_ws_close_complete, asked>>
      /\ \/ accepted' = accepted \cup {s} /\ Holds(stack', stack, {a})
         \/ accepted' = accepted /\ Holds(stack', stack, {b, c})
  BY <1>1, SentWhole DEF WsCore
<1>4. /\ s \in 1 .. Sends /\ s \in Nat /\ sends \in Nat /\ s > sends /\ sends \in 0 .. Sends
      /\ \A x : x \in 1 .. s <=> x \in 1 .. sends \/ x = s
  BY <1>2, <1>3, UwsAssumption DEF Types
<1>5. PICK F : /\ Holds(stack', stack, F)
               /\ \/ accepted' = accepted \cup {s} /\ F = {a}
                  \/ accepted' = accepted /\ F = {b, c}
  BY <1>3
<1>6. /\ a.op = "wsSent" /\ a.n = s /\ b.op = "sendFails" /\ c.op = "wsSendFails" /\ c.n = s
  BY DEF WsFrame
<1> HIDE DEF s, a, b, c
<1>7. \A f \in F : f.op # "user" /\ f.op # "wsNotOpen"
  BY <1>5, <1>6
<1>8. /\ \A o \in ClientOps : Has(stack, o) => Has(stack', o)
      /\ Has(stack', "wsNotOpen") => Has(stack, "wsNotOpen")
      /\ WsSends(stack) \subseteq WsSends(stack')
      /\ WsSends(stack') \subseteq WsSends(stack) \cup F
  <2>1. "wsNotOpen" \notin Reps
    BY DEF Reps, AtOnce
  <2>2. QED
    BY <1>2, <1>5, <1>7, <2>1, Seen DEF WsCore
<1>9. SentFits'
  BY <1>2, <1>3, <1>5, <1>7, NothingDue DEF SentFits
<1>10. AskedFor' /\ OpeningFits' /\ LowFits'
  <2>1. "consume" \in ClientOps /\ "destroyed" \in ClientOps
    BY DEF ClientOps
  <2>2. QED
    BY <1>1, <1>3, <1>8, <2>1 DEF AskedFor, OpeningFits, LowFits, Low, Doomed, WsCore, States
<1>11. /\ pending_io_list' \in Seq(1 .. Sends)
       /\ ToSet(pending_io_list') = ToSet(pending_io_list) \cup {s}
       /\ Distinct(pending_io_list')
  <2>1. pending_io_list \in Seq(1 .. Sends) /\ Distinct(pending_io_list)
        /\ s \notin ToSet(pending_io_list)
    BY <1>4 DEF WsCore, WsTypes, WsAccounts
  <2> DEFINE E == 1 .. Sends
  <2>2. pending_io_list \in Seq(E) /\ s \in E
    BY <1>4, <2>1
  <2> HIDE DEF E
  <2>3. /\ Append(pending_io_list, s) \in Seq(E)
        /\ ToSet(Append(pending_io_list, s)) = ToSet(pending_io_list) \cup {s}
        /\ Distinct(Append(pending_io_list, s))
    BY <2>1, <2>2, AppendElements
  <2>4. QED
    BY <1>1, <2>3 DEF E
<1>12. WsTypes'
  BY <1>1, <1>11 DEF WsCore, WsTypes
<1>13. WsAccounts'
  <2>1. accepted \subseteq 1 .. sends /\ accepted \subseteq accepted'
        /\ \A x : x # s => (x \in accepted' <=> x \in accepted)
    BY <1>2, <1>5 DEF Accounts
  <2>2. s \notin accepted /\ \E f \in WsSends(stack') : f.n = s
    <3>1. s \notin accepted
      BY <1>4, <2>1
    <3>2. F \subseteq ToSet(stack')
      BY <1>5 DEF Holds
    <3>3. QED
      BY <1>5, <1>6, <3>1, <3>2 DEF WsSends
  <2>3. ASSUME NEW x \in 1 .. Sends
        PROVE  /\ told'[x] <= 1
               /\ x \in ToSet(pending_io_list') \/ x > sends' => told'[x] = 0
               /\ x \in accepted' /\ told'[x] = 0 => x \in ToSet(pending_io_list')
               /\ x \in ToSet(pending_io_list') /\ x \notin ioAccepted' =>
                    \E f \in WsSends(stack') : f.n = x
    <3>1. CASE x = s
      BY <1>1, <1>4, <1>11, <2>2, <3>1 DEF WsCore, WsAccounts
    <3>2. CASE x # s
      <4>1. x > sends' => x > sends
        BY <1>3, <1>4, <2>3
      <4>2. x \in ToSet(pending_io_list') <=> x \in ToSet(pending_io_list)
        BY <1>11, <3>2
      <4>3. QED
        BY <1>1, <1>8, <2>1, <2>3, <3>2, <4>1, <4>2 DEF WsCore, WsAccounts
    <3>3. QED
      BY <3>1, <3>2
  <2>4. ASSUME NEW f \in WsSends(stack')
        PROVE  f.n \in 1 .. sends' /\ (f.n \in accepted' <=> f.op = "wsSent")
    <3>1. CASE f \in WsSends(stack)
      <4>1. f.n \in 1 .. sends /\ (f.n \in accepted <=> f.op = "wsSent")
        BY <3>1 DEF WsCore, WsAccounts
      <4>2. f.n # s
        BY <1>4, <4>1
      <4>3. QED
        BY <1>3, <1>4, <2>1, <4>1, <4>2
    <3>2. CASE f \in F
      BY <1>3, <1>4, <1>5, <1>6, <2>2, <2>4, <3>2 DEF WsSends
    <3>3. QED
      BY <1>8, <2>4, <3>1, <3>2
  <2>5. ToSet(pending_io_list') \subseteq 1 .. sends' /\ ioAccepted' \subseteq accepted'
    BY <1>1, <1>3, <1>4, <1>11, <2>1 DEF WsCore, WsAccounts
  <2>6. QED
    BY <1>11, <2>3, <2>4, <2>5 DEF WsAccounts
<1>14. QED
  BY <1>3, <1>9, <1>10, <1>12, <1>13 DEF WsCore, States

-------------------------------------------------------------------------------
LEMMA InitWsCore == ASSUME WsInit PROVE WsCore
<1>1. /\ Init /\ io_state = "NOT_OPEN" /\ pending_io_list = <<>> /\ on_io_close_complete = FALSE
      /\ freed = 0 /\ opened = 0 /\ told = [s \in 1 .. Sends |-> 0] /\ closes = 0
      /\ ioAccepted = {} /\ abandoned = FALSE
  BY DEF WsInit
<1>2. /\ stack = <<>> /\ uws_state = "CLOSED" /\ asked = "no" /\ sends = 0 /\ accepted = {}
  BY <1>1 DEF Init
<1>3. Core
  BY <1>1, InitIInv, InitStream, InitCompleting DEF Core
<1>4. /\ StackFits(stack) /\ \A ev : ~Tops(stack, ev)
      /\ \A o : ~OnTop(stack, o)
      /\ ~Peer(stack) /\ WsSends(stack) = {} /\ \A o : ~Has(stack, o)
  BY <1>2, EmptyBase, EmptyStack, HasNothing DEF Tops, WsSends
<1>5. Whole
  BY <1>2, <1>3, <1>4 DEF Whole, Tells
<1>6. States
  BY <1>1, <1>2, <1>4 DEF States, AskedFor, OpeningFits, LowFits, SentFits, Low
<1>7. Sends \in Nat
  BY UwsAssumption
<1>8. /\ ToSet(pending_io_list) = {} /\ Distinct(pending_io_list)
      /\ pending_io_list \in Seq(1 .. Sends)
  BY <1>1, EmptyStack DEF Distinct, ToSet
<1>9. WsTypes
  <2>1. 0 \in 0 .. Sends /\ 0 \in 0 .. 1 /\ 0 \in Nat
    BY <1>7
  <2>2. told \in [1 .. Sends -> Nat]
    BY <1>1
  <2>3. QED
    BY <1>1, <1>8, <2>1, <2>2 DEF WsTypes
<1>10. WsAccounts
  <2>1. \A s \in 1 .. Sends : told[s] = 0
    BY <1>1
  <2>2. QED
    BY <1>1, <1>2, <1>4, <1>8, <2>1 DEF WsAccounts
<1>11. QED
  BY <1>5, <1>6, <1>9, <1>10 DEF WsCore

LEMMA FramesKeep == ASSUME WsCore, WsFrames PROVE WsCore'
<1>1. Running
  BY DEF WsFrames
<1>2. CASE ClientFrames /\ UNCHANGED wsVars
  BY <1>1, <1>2, ClientKeeps DEF ClientSteps
<1>3. CASE AppReturns \/ WsOpenFails \/ WsCloseFails \/ WsCancel \/ WsSendFails \/ WsSent
  BY <1>1, <1>3, AppReturnsKeeps, WsOpenFailsKeeps, WsCloseFailsKeeps, WsCancelKeeps,
     WsSendFailsKeeps, WsSentKeeps
<1>4. CASE WsDestroy \/ WsNotOpen
  BY <1>1, <1>4, WsDestroyKeeps, WsOpenFailsKeeps
<1>5. CASE \/ OnUnderlyingWsOpenComplete \/ OnUnderlyingWsFrameReceived
           \/ OnUnderlyingWsPeerClosed \/ OnUnderlyingWsError \/ OnUnderlyingWsCloseComplete
           \/ OnUnderlyingWsSendFrameComplete
  BY <1>1, <1>5, OpenCompleteKeeps, FrameReceivedKeeps, PeerClosedKeeps, ErrorKeeps,
     CloseCompleteKeeps, SendFrameCompleteKeeps
<1>6. QED
  BY <1>2, <1>3, <1>4, <1>5 DEF WsFrames

LEMMA NextWsCore == ASSUME WsCore, [WsNext]_allVars PROVE WsCore'
<1>1. CASE WsioOpen \/ WsioClose \/ WsioSend \/ WsioDestroy
  BY <1>1, WsioOpenKeeps, WsioCloseKeeps, WsioSendKeeps, WsioDestroyKeeps
<1>2. CASE WsFrames
  BY <1>2, FramesKeep
<1>3. CASE WsReports \/ WsUnderlyingError
  BY <1>3, ClientKeeps DEF WsReports, WsUnderlyingError, ClientSteps
<1>4. CASE UNCHANGED allVars
  <2>1. UNCHANGED vars /\ UNCHANGED wsVars
    BY <1>4 DEF allVars
  <2>2. UNCHANGED <<stack, clientRest, wsState, wsHistory>>
    BY <2>1 DEF vars, wsVars, clientRest, clientVars, ioVars, history
  <2>3. [Next]_vars
    BY <2>1
  <2>4. Core'
    BY <2>3, NextIInv, NextStream, NextCompleting DEF WsCore, Whole, Core
  <2>5. QED
    <3>1. (StackFits(stack) /\ Tells /\ asked # "handshake")'
      BY <2>2 DEF WsCore, Whole, Tells, clientRest, clientVars, history, opening
    <3>2. WsTypes' /\ WsAccounts'
      BY <2>2 DEF WsCore, WsTypes, WsAccounts, clientRest, history, sendHistory, wsState,
         wsHistory
    <3>3. States'
      BY <2>2 DEF WsCore, States, AskedFor, OpeningFits, LowFits, SentFits, Low, Doomed,
         clientRest, clientVars, history, opening, sendHistory, wsState, wsHistory
    <3>4. QED
      BY <2>4, <3>1, <3>2, <3>3 DEF WsCore, Whole
<1>5. QED
  BY <1>1, <1>2, <1>3, <1>4 DEF WsNext

(* wsio keeps its types, and answers an open once at most, one that is      *)
(* still OPENING not yet.  on_underlying_ws_open_complete and the callbacks *)
(* for an error and an end, whatever the application calls from them.       *)
THEOREM WsioIsTyped == WsSpec => []WsTypeOK
<1>1. ASSUME WsCore PROVE WsTypeOK
  BY <1>1 DEF WsCore, WsTypes, States, OpeningFits, WsTypeOK
<1>2. QED
  BY <1>1, InitWsCore, NextWsCore, PTL DEF WsSpec

(* Behind a wsio that is NOT_OPEN its client is CLOSED, but where a close   *)
(* cut an open short or crossed the CLOSE of the peer, or a TLS io that had *)
(* failed keeps the close to itself.  internal_close and                    *)
(* on_underlying_ws_close_complete, with uws_client_close_async.            *)
THEOREM WsioClosesBelow == WsSpec => []ClosedBelow
<1>1. ASSUME WsCore PROVE ClosedBelow
  <2>1. SUFFICES ASSUME stack = <<>>, io_state = "NOT_OPEN", ~abandoned
                 PROVE  \/ uws_state \in {"CLOSED", "CLOSING_SENDING_CLOSE"}
                        \/ uws_state = "CLOSING_UNDERLYING_IO" /\ io = "tls"
    BY DEF ClosedBelow
  <2>2. \A o : ~Has(stack, o) /\ ~OnTop(stack, o)
    BY <2>1, HasNothing
  <2>3. AskedFor /\ LowFits /\ Closing /\ asked # "handshake" /\ Failed
    BY <1>1 DEF WsCore, States, Whole, Core, Completing
  <2>4. Low
    BY <2>1, <2>2, <2>3 DEF LowFits, Doomed
  <2>5. ASSUME uws_state = "CLOSING_UNDERLYING_IO" PROVE io = "tls"
    <3>1. asked \in {"no", "close", "handshake"}
      BY <1>1 DEF WsCore, Whole, Core, IInv, Types
    <3>2. asked = "no" \/ (asked = "close" /\ on_ws_close_complete)
      BY <2>2, <2>3, <3>1 DEF AskedFor
    <3>3. QED
      BY <2>2, <2>3, <2>5, <3>2 DEF Closing
  <2>6. QED
    BY <2>4, <2>5 DEF Low
<1>2. QED
  BY <1>1, InitWsCore, NextWsCore, PTL DEF WsSpec

-------------------------------------------------------------------------------
(* The sends of the first connection.  Every pending send that was accepted *)
(* has its item in the list of wsio (Kept), until wsio_close frees the      *)
(* items of a client that is closed or closes already (Over): nothing       *)
(* drives it any more, so it completes nothing.                             *)
Winds(s) == \E o \in {"cancel", "wsCancel", "wsDestroy", "destroyed"} : Has(s, o)
Kept == \A s \in ToSet(pending_sends) \cap accepted : s \in ToSet(pending_io_list)
Over ==
  /\ Low /\ ~Has(stack, "cancel") /\ ~Has(stack, "sent")
  /\ io_state = "NOT_OPEN" \/ Has(stack, "wsCancel") \/ Has(stack, "wsNotOpen")

(* Once something was sent: a client that winds up is that of an io that    *)
(* closes, and its own sends are cancelled before wsio cancels the rest.    *)
Used ==
  /\ ~Tops(stack, "open")
  /\ Winds(stack) => io_state \in {"CLOSING", "NOT_OPEN"}
  /\ CancelsAbove(stack)
  /\ Has(stack, "destroyed") => ~Has(stack, "wsCancel")
  /\ Kept \/ Over

(* Nothing is sent before the one open is answered.                         *)
Opened1 ==
  /\ uws_state = "OPEN" \/ sends # 0 => answers # <<>>
  /\ Winds(stack) => io_state \notin {"OPENING", "OPEN"}
  /\ Has(stack, "wsCancel") /\ asked = "no" => Low
  /\ sends # 0 => Used
  /\ Tops(stack, "sent") => stack[1].n \in ToSet(pending_io_list) \/ stack[1].n \notin accepted
  /\ freed \notin accepted
First ==
  /\ opens = 0 =>
       /\ io_state = "NOT_OPEN" /\ uws_state = "CLOSED" /\ sends = 0
       /\ stack \in {<<>>, Call("destroyed")}
  /\ opens <= 1 => ~reopened
  /\ opens = 1 => Opened1

LEMMA AtOnceTop ==
  ASSUME NEW s, Stacked(s), NEW o \in AtOnce, Has(s, o) PROVE s # <<>> /\ s[1].op = o
<1>1. PICK i \in DOMAIN s : s[i].op = o
  BY DEF Has, ToSet
<1>2. i = 1
  BY <1>1 DEF Stacked
<1>3. s # <<>>
  <2>1. SUFFICES ASSUME s = <<>> PROVE FALSE
    OBVIOUS
  <2>2. QED
    BY <2>1, HasNothing
<1>4. QED
  BY <1>1, <1>2, <1>3

(* What the steps of the client leave of a first connection.                *)
LEMMA ClientFirst ==
  ASSUME WsCore, First, opens = 1, ClientSteps, UNCHANGED wsVars,
         stack = <<>> => io_state # "NOT_OPEN"
  PROVE  First'
<1>1. Works /\ Whole' /\ IInv /\ IInv' /\ Accounts /\ Opened1 /\ ~reopened
  BY ClientWhole DEF WsCore, Whole, Core, IInv, First
<1>2. /\ Plain /\ Shifts /\ From(stack', stack) /\ Tells'
      /\ UNCHANGED <<io_state, pending_io_list, freed, sends, accepted, asked, opens, reopened>>
      /\ ToSet(pending_sends') \subseteq ToSet(pending_sends)
  BY <1>1 DEF Works, Plain, wsVars, wsState, wsHistory
<1>3. WsOf(stack') = WsOf(stack) /\ (CancelsAbove(stack) => CancelsAbove(stack'))
      /\ (Has(stack', "cancel") => Has(stack, "cancel"))
      /\ (Has(stack', "sent") => Has(stack, "sent") \/ stack = <<>>)
  BY <1>2 DEF From
<1>4. \A o \in {"wsCancel", "wsDestroy", "wsNotOpen", "destroyed"} :
        Has(stack', o) <=> Has(stack, o)
  BY <1>3 DEF WsOf, WsOps, Has
<1>5. Winds(stack') => Winds(stack)
  BY <1>3, <1>4 DEF Winds
<1>6. Low => Low'
  BY <1>2 DEF Shifts, Low
<1>7. answers # <<>> => answers' # <<>> /\ ~Tops(stack', "open")
  <2>1. CASE answers' = answers /\ ~Tops(stack', "open")
    BY <2>1
  <2>2. CASE \E a \in {"OK", "ERROR"} : answers' = Append(answers, a)
    <3>1. answers \in Seq({"OK", "ERROR"}) /\ answers' \in Seq({"OK", "ERROR"})
      BY <1>1 DEF IInv, Types
    <3>2. Len(answers') = Len(answers) + 1 /\ Len(answers) \in Nat
      BY <2>2, <3>1
    <3>3. Len(answers') <= 1
      BY <1>1, <1>2 DEF IInv
    <3>4. answers = <<>>
      BY <3>1, <3>2, <3>3
    <3>5. QED
      BY <3>4
  <2>3. QED
    BY <1>1, <2>1, <2>2 DEF Works
<1>8. uws_state' = "OPEN" \/ sends' # 0 => answers' # <<>>
  <2>1. uws_state' = "OPEN" => uws_state = "OPEN" \/ Tops(stack', "open")
    BY <1>2 DEF Shifts, Low
  <2>2. Tops(stack', "open") => answers' # <<>>
    BY <1>2 DEF Tells
  <2>3. QED
    BY <1>1, <1>2, <1>7, <2>1, <2>2 DEF Opened1
<1>9. sends # 0 => Used'
  <2>1. SUFFICES ASSUME sends # 0 PROVE Used'
    OBVIOUS
  <2>2. Used /\ answers # <<>>
    BY <1>1, <2>1 DEF Opened1
  <2>3. Kept => Kept'
    BY <1>2 DEF Kept
  <2>4. ASSUME Over PROVE Over'
    <3>1. stack # <<>>
      <4>1. SUFFICES ASSUME stack = <<>> PROVE FALSE
        OBVIOUS
      <4>2. ~Has(stack, "wsCancel") /\ ~Has(stack, "wsNotOpen")
        BY <4>1, HasNothing
      <4>3. QED
        BY <2>4, <4>1, <4>2 DEF Over
    <3>2. QED
      BY <1>2, <1>3, <1>4, <1>6, <2>4, <3>1 DEF Over
  <2>5. QED
    BY <1>2, <1>3, <1>4, <1>5, <1>7, <2>2, <2>3, <2>4 DEF Used
<1>10. Tops(stack', "sent") =>
         stack'[1].n \in ToSet(pending_io_list') \/ stack'[1].n \notin accepted'
  <2>1. SUFFICES ASSUME Tops(stack', "sent")
                 PROVE  stack'[1].n \in ToSet(pending_io_list) \/ stack'[1].n \notin accepted
    BY <1>2
  <2>2. stack'[1].n \in ToSet(pending_sends) /\ (Has(stack, "sent") \/ Has(stack, "cancel"))
    BY <1>1, <2>1 DEF Works
  <2>3. sends # 0
    <3>1. ToSet(pending_sends) \subseteq 1 .. sends /\ sends \in Nat
      BY <1>1, UwsAssumption DEF IInv, Types, Accounts
    <3>2. QED
      BY <2>2, <3>1
  <2>4. Kept
    BY <1>1, <2>2, <2>3 DEF Opened1, Used, Over
  <2>5. QED
    BY <2>2, <2>4 DEF Kept
<1>11. Opened1'
  BY <1>1, <1>2, <1>4, <1>5, <1>6, <1>8, <1>9, <1>10 DEF Opened1
<1>12. QED
  BY <1>1, <1>2, <1>11 DEF First

(* The steps of wsio that leave the client alone.                           *)
LEMMA CallerFirst ==
  ASSUME WsCore, First, opens = 1, Calling, NEW s, s = stack \/ (stack # <<>> /\ s = Rest),
         NEW F, Holds(stack', s, F), \A f \in F : f.op \in {"app", "wsNotOpen"},
         Turns(stack'), UNCHANGED clientRest, WsTypes', freed' \notin accepted,
         io_state' \in {"OPENING", "OPEN"} => io_state \in {"OPENING", "OPEN"},
         io_state' = "ERROR" =>
           io_state \in {"ERROR", "OPENING", "OPEN"} \/ sends = 0 \/ ~Winds(stack'),
         sends # 0 =>
           \/ Kept'
           \/ /\ Over
              /\ \/ io_state' = "NOT_OPEN" \/ \E f \in F : f.op = "wsNotOpen"
                 \/ io_state # "NOT_OPEN" /\
                      (s = stack \/ stack[1].op \notin {"wsCancel", "wsNotOpen"})
  PROVE  First'
<1>1. /\ Opened1 /\ ~reopened /\ Whole
      /\ UNCHANGED <<uws_state, pending_sends, answers, sends, accepted, asked, opens, reopened>>
  BY DEF First, WsCore, clientRest, clientVars, history, opening, sendHistory
<1>2. /\ \A o : Has(stack', o) => Has(stack, o) \/ o \in Reps \/ \E f \in F : f.op = o
      /\ \A o : Has(s, o) \/ (\E f \in F : f.op = o) => Has(stack', o)
  BY Seen DEF WsCore
<1>3. \A o \in {"cancel", "wsCancel", "wsDestroy", "destroyed"} : Has(stack', o) => Has(stack, o)
  BY <1>2 DEF Reps, AtOnce
<1>4. Winds(stack') => Winds(stack)
  BY <1>3 DEF Winds
<1>5. /\ Stacked(stack') /\ Calm(stack') /\ ~OnTop(stack', "wsOpenFails") /\ NoReport(stack')
  BY DEF Turns, Base
<1>6. ~Tops(stack', "open") /\ ~Tops(stack', "sent") /\ ~Has(stack', "sent")
  <2>1. "sent" \in AtOnce
    BY DEF AtOnce
  <2>2. QED
    BY <1>5, <2>1, NothingTells DEF NoReport, Has
<1>7. Low' <=> Low
  BY <1>1 DEF Low
<1>8. sends # 0 => Used'
  <2>1. SUFFICES ASSUME sends # 0 PROVE Used'
    OBVIOUS
  <2>2. Used
    BY <1>1, <2>1 DEF Opened1
  <2>3. CancelsAbove(stack')
    <3>1. CancelsAbove(s)
      BY <1>1, <2>2, Turn DEF Used
    <3>2. QED
      BY <3>1 DEF Holds
  <2>4. io_state' \in {"NOT_OPEN", "OPENING", "OPEN", "CLOSING", "ERROR"} =>
          (Winds(stack') => io_state' \in {"CLOSING", "NOT_OPEN"})
    BY <1>1, <1>4, <2>1, <2>2 DEF Opened1, Used
  <2>5. io_state' \in {"NOT_OPEN", "OPENING", "OPEN", "CLOSING", "ERROR"}
    BY DEF WsTypes
  <2>6. Kept' \/ Over'
    <3>1. SUFFICES ASSUME ~Kept' PROVE Over'
      OBVIOUS
    <3>2. /\ Over
          /\ \/ io_state' = "NOT_OPEN" \/ \E f \in F : f.op = "wsNotOpen"
             \/ io_state # "NOT_OPEN" /\
                  (s = stack \/ stack[1].op \notin {"wsCancel", "wsNotOpen"})
      BY <2>1, <3>1
    <3>3. Low' /\ ~Has(stack', "cancel") /\ ~Has(stack', "sent")
      BY <1>3, <1>6, <1>7, <3>2 DEF Over
    <3>4. CASE io_state' = "NOT_OPEN"
      BY <3>3, <3>4 DEF Over
    <3>5. CASE \E f \in F : f.op = "wsNotOpen"
      BY <1>2, <3>3, <3>5 DEF Over
    <3>6. CASE /\ io_state # "NOT_OPEN"
               /\ s = stack \/ stack[1].op \notin {"wsCancel", "wsNotOpen"}
      <4>1. PICK o \in {"wsCancel", "wsNotOpen"} : Has(stack, o)
        BY <3>2, <3>6 DEF Over
      <4>2. Has(s, o)
        BY <1>1, <3>6, <4>1, Turn
      <4>3. Has(stack', o)
        BY <1>2, <4>2
      <4>4. QED
        BY <3>3, <4>1, <4>3 DEF Over
    <3>7. QED
      BY <3>2, <3>4, <3>5, <3>6
  <2>7. QED
    BY <1>3, <1>6, <2>2, <2>3, <2>4, <2>5, <2>6 DEF Used
<1>9. Opened1'
  BY <1>1, <1>3, <1>4, <1>6, <1>7, <1>8 DEF Opened1
<1>10. QED
  BY <1>1, <1>9 DEF First

(* A frame of wsio returns, or the application is called in its place.      *)
LEMMA TopFirst ==
  ASSUME WsCore, WsTypes', First, opens = 1, freed = 0, Running,
         stack[1].op \in WsOps \cup {"user"},
         \/ stack' = Rest
         \/ \E ev \in Evs, n \in Nat : stack' = Frame("app", ev, n) \o Rest,
         UNCHANGED clientRest, freed' \notin accepted,
         io_state' \in {"OPENING", "OPEN"} => io_state \in {"OPENING", "OPEN"},
         io_state' = "ERROR" =>
           io_state \in {"ERROR", "OPENING", "OPEN"} \/ sends = 0 \/ ~Winds(stack'),
         sends # 0 =>
           \/ Kept'
           \/ /\ Over
              /\ \/ io_state' = "NOT_OPEN"
                 \/ io_state # "NOT_OPEN" /\ stack[1].op \notin {"wsCancel", "wsNotOpen"}
  PROVE  First'
<1>1. Calling /\ stack # <<>> /\ Turns(Rest) /\ Holds(Rest, Rest, {})
  BY TopTurn DEF WsCore
<1>2. Turns(stack') /\ \E F : Holds(stack', Rest, F) /\ \A f \in F : f.op \in {"app", "wsNotOpen"}
  <2>1. CASE stack' = Rest
    BY <1>1, <2>1
  <2>2. CASE \E ev \in Evs, n \in Nat : stack' = Frame("app", ev, n) \o Rest
    <3>1. PICK ev \in Evs, n \in Nat : stack' = Frame("app", ev, n) \o Rest
      BY <2>2
    <3>2. Turns(stack') /\ Holds(stack', Rest, {} \cup {WsFrame("app", ev, n)})
      BY <1>1, <3>1, AppCalled
    <3>3. \A f \in {} \cup {WsFrame("app", ev, n)} : f.op = "app"
      BY DEF WsFrame
    <3>4. QED
      BY <3>2, <3>3
  <2>3. QED
    BY <2>1, <2>2
<1>3. PICK F : Holds(stack', Rest, F) /\ \A f \in F : f.op \in {"app", "wsNotOpen"}
  BY <1>2
<1>4. QED
  BY <1>1, <1>2, <1>3, CallerFirst

(* No item of a pending send leaves the list.                               *)
LEMMA KeptStays ==
  ASSUME UNCHANGED <<pending_sends, accepted>>,
         \A x \in ToSet(pending_io_list) :
           x \in ToSet(pending_io_list') \/ x \notin ToSet(pending_sends) \cap accepted,
         Kept
  PROVE  Kept'
BY DEF Kept

LEMMA NothingFreed == ASSUME WsCore, freed = 0 PROVE freed \notin accepted
<1>1. accepted \subseteq 1 .. sends /\ sends \in Nat
  BY UwsAssumption DEF WsCore, Whole, Core, IInv, Types, Accounts
<1>2. QED
  BY <1>1

LEMMA SameFirst ==
  ASSUME WsCore, WsTypes', First, opens = 1, freed = 0, Running,
         stack[1].op \in WsOps \cup {"user"},
         \/ stack' = Rest
         \/ \E ev \in Evs, n \in Nat : stack' = Frame("app", ev, n) \o Rest,
         UNCHANGED clientRest, UNCHANGED <<pending_io_list, freed>>,
         \/ io_state' = "NOT_OPEN"
         \/ /\ io_state' = io_state \/ (io_state = "OPEN" /\ io_state' = "ERROR")
            /\ stack[1].op \notin {"wsCancel", "wsNotOpen"}
  PROVE  First'
<1>1. UNCHANGED <<pending_sends, accepted>>
  BY DEF clientRest, clientVars, history, sendHistory
<1>2. freed' \notin accepted
  BY NothingFreed
<1>3. sends # 0 => Kept \/ Over
  BY DEF First, Opened1, Used
<1>4. Kept => Kept'
  BY <1>1, KeptStays
<1>5. QED
  BY <1>2, <1>3, <1>4, TopFirst

LEMMA ReturnsFirst ==
  ASSUME WsCore, WsCore', First, opens = 1, freed = 0, Running,
         AppReturns \/ WsOpenFails \/ WsCloseFails \/ WsSent \/ WsNotOpen
  PROVE  First'
<1>1. WsTypes' /\ {"closed"} \subseteq Evs /\ 0 \in Nat
  BY DEF WsCore, Evs, Events
<1>2. UNCHANGED clientRest /\ UNCHANGED <<pending_io_list, freed>>
  BY DEF AppReturns, WsOpenFails, WsCloseFails, WsSent, WsNotOpen, wsVars, wsState
<1>3. \/ stack' = Rest
      \/ \E ev \in Evs, n \in Nat : stack' = Frame("app", ev, n) \o Rest
  BY <1>1 DEF AppReturns, WsOpenFails, WsCloseFails, WsSent, WsNotOpen, App
<1>4. /\ stack[1].op \in WsOps
      /\ \/ io_state' = "NOT_OPEN"
         \/ io_state' = io_state /\ stack[1].op \notin {"wsCancel", "wsNotOpen"}
  BY DEF AppReturns, WsOpenFails, WsCloseFails, WsSent, WsNotOpen, Top, WsOps, wsVars, wsState
<1>5. QED
  BY <1>1, <1>2, <1>3, <1>4, SameFirst

LEMMA SendFailsFirst ==
  ASSUME WsCore, WsCore', First, opens = 1, freed = 0, Running, WsSendFails PROVE First'
<1> DEFINE s == stack[1].n
<1>1. /\ stack[1].op = "wsSendFails" /\ stack' = Rest
      /\ freed' = IF s \in ToSet(pending_io_list) THEN 0 ELSE s
      /\ pending_io_list' = Without(pending_io_list, s)
      /\ UNCHANGED <<clientRest, io_state>>
  BY DEF WsSendFails, Top
<1>2. s \notin accepted
  <2>1. stack[1] \in WsSends(stack)
    <3>1. stack[1] \in ToSet(stack)
      BY TopIn DEF WsCore, Whole, Core, IInv, Running
    <3>2. QED
      BY <1>1, <3>1 DEF WsSends
  <2>2. QED
    BY <1>1, <2>1 DEF WsCore, WsAccounts
<1>3. 0 \notin accepted
  BY NothingFreed
<1>4. ToSet(pending_io_list') = ToSet(pending_io_list) \ {s}
  <2>1. pending_io_list \in Seq(1 .. Sends) /\ Distinct(pending_io_list)
    BY DEF WsCore, WsTypes, WsAccounts
  <2>2. QED
    BY <1>1, <2>1, WithoutElements
<1>5. UNCHANGED <<pending_sends, accepted>>
  BY <1>1 DEF clientRest, clientVars, history, sendHistory
<1>6. Kept => Kept'
  BY <1>2, <1>4, <1>5, KeptStays
<1>7. sends # 0 => Kept \/ Over
  BY DEF First, Opened1, Used
<1>8. freed' \notin accepted
  BY <1>1, <1>2, <1>3
<1>9. "wsSendFails" \in WsOps /\ "wsSendFails" \notin {"wsCancel", "wsNotOpen"} /\ WsTypes'
  BY DEF WsOps, WsCore
<1> HIDE DEF s
<1>10. QED
  BY <1>1, <1>6, <1>7, <1>8, <1>9, TopFirst

(* What wsio cancels is not pending in the client, or the client is over.   *)
LEMMA CancelFirst ==
  ASSUME WsCore, WsCore', First, opens = 1, freed = 0, Running, WsCancel PROVE First'
<1>1. /\ stack[1].op = "wsCancel" /\ "wsCancel" \in WsOps /\ stack # <<>>
      /\ UNCHANGED clientRest /\ WsTypes'
  BY DEF WsCancel, Top, WsOps, Running, WsCore
<1>2. UNCHANGED <<pending_sends, accepted>>
  BY <1>1 DEF clientRest, clientVars, history, sendHistory
<1>3. freed \notin accepted
  BY NothingFreed
<1>4. CASE /\ pending_io_list # <<>>
           /\ CompleteSendItem(Head(pending_io_list), stack)
           /\ UNCHANGED <<io_state, abandoned>>
  <2> DEFINE s == Head(pending_io_list)
             f == WsFrame("app", "sent", s)
  <2>1. /\ s \in 1 .. Sends /\ s \in Nat /\ "sent" \in Evs
        /\ stack' = Frame("app", "sent", s) \o stack /\ UNCHANGED freed
    <3>1. s \in ToSet(pending_io_list) /\ ToSet(pending_io_list) \subseteq 1 .. sends
      BY <1>4, TailElements DEF WsCore, WsTypes, WsAccounts
    <3>2. sends \in 0 .. Sends /\ Sends \in Nat
      BY UwsAssumption DEF WsCore, Whole, Core, IInv, Types
    <3>3. QED
      BY <1>4, <3>1, <3>2 DEF CompleteSendItem, Evs, Events
  <2>2. Calling /\ Turns(stack) /\ Holds(stack, stack, {})
    BY <1>1, TopTurn DEF WsCore
  <2>3. Turns(stack') /\ Holds(stack', stack, {} \cup {f})
    <3> HIDE DEF s
    <3>1. QED
      BY <2>1, <2>2, AppCalled
  <2>4. \A g \in {} \cup {f} : g.op \in {"app", "wsNotOpen"}
    BY DEF WsFrame
  <2>5. ASSUME sends # 0
        PROVE  Kept' \/ Over
    <3>1. Used /\ Opened1 /\ ~reopened
      BY <2>5 DEF First, Opened1
    <3>2. Stacked(stack) /\ Has(stack, "wsCancel") /\ ~Has(stack, "sent")
      <4>1. Stacked(stack) /\ "sent" \in AtOnce
        BY DEF WsCore, Whole, Core, IInv, AtOnce
      <4>2. QED
        BY <1>1, <4>1, AtOnceTop, TopIn
    <3>3. ~Has(stack, "cancel")
      BY <1>1, <2>2, <3>1, Turn DEF Used, WsCore
    <3>4. asked \in {"no", "close"}
      BY DEF WsCore, Whole, Core, IInv, Types
    <3>5. CASE asked = "no"
      <4>1. Low
        BY <3>1, <3>2, <3>5 DEF Opened1
      <4>2. Over
        BY <3>2, <3>3, <4>1 DEF Over
      <4>3. QED
        BY <4>2
    <3>6. CASE asked = "close"
      <4>1. ~Has(stack, "destroyed")
        BY <3>1, <3>2 DEF Used
      <4>2. on_ws_close_complete
        BY <3>6, <4>1 DEF WsCore, States, AskedFor
      <4>3. ~Doomed
        <5>1. SUFFICES ASSUME received = <<>>, NEW g \in ToSet(stack), g.op = "consume"
                       PROVE  FALSE
          BY DEF Doomed, Has
        <5>2. Norm
          BY <2>2, <3>1 DEF Calling, Alive, Norm
        <5>3. g.n <= Len(received)
          BY <5>1, <5>2 DEF WsCore, Whole, Core, IInv, AnswersFit
        <5>4. g.n \in {2, 3}
          BY <5>1 DEF WsCore, Whole, Core, Streams, Flowing, ConsumeFits, Eats
        <5>5. QED
          BY <5>1, <5>3, <5>4, EmptyStack
      <4>4. pending_sends = <<>>
        BY <3>3, <3>6, <4>2, <4>3 DEF WsCore, Whole, Core, Completing, Closing
      <4>5. Kept'
        BY <1>2, <4>4, EmptyStack DEF Kept
      <4>6. QED
        BY <4>5
    <3>7. QED
      BY <3>4, <3>5, <3>6
  <2> HIDE DEF s, f
  <2>6. io_state' = "NOT_OPEN" \/ io_state # "NOT_OPEN"
    BY <1>4
  <2>7. io_state' = io_state /\ freed' = freed
    BY <1>4, <2>1
  <2>8. QED
    BY <1>1, <1>3, <2>2, <2>3, <2>4, <2>5, <2>6, <2>7, CallerFirst
<1>5. CASE io_state' = "NOT_OPEN" /\ stack' = Rest /\ UNCHANGED <<pending_io_list, freed>>
  BY <1>1, <1>5, SameFirst
<1>6. QED
  BY <1>4, <1>5 DEF WsCancel

(* The callbacks of the client.                                             *)
LEMMA CallbackFirst ==
  ASSUME WsCore, WsCore', First, opens = 1, freed = 0, Running,
         \/ OnUnderlyingWsFrameReceived \/ OnUnderlyingWsCloseComplete
  PROVE  First'
<1>1. WsTypes' /\ {"closed", "frame", "error"} \subseteq Evs /\ 0 \in Nat
      /\ "user" \notin {"wsCancel", "wsNotOpen"}
  BY DEF WsCore, Evs, Events
<1>2. UNCHANGED clientRest /\ UNCHANGED <<pending_io_list, freed>> /\ stack[1].op = "user"
  BY DEF OnUnderlyingWsFrameReceived, OnUnderlyingWsCloseComplete, Calls, Top
<1>3. \/ stack' = Rest
      \/ \E ev \in Evs, n \in Nat : stack' = Frame("app", ev, n) \o Rest
  BY <1>1 DEF OnUnderlyingWsFrameReceived, OnUnderlyingWsCloseComplete, App, WsIndicateError
<1>4. \/ io_state' = "NOT_OPEN"
      \/ io_state' = io_state \/ (io_state = "OPEN" /\ io_state' = "ERROR")
  BY DEF OnUnderlyingWsFrameReceived, OnUnderlyingWsCloseComplete, WsIndicateError
<1>5. QED
  BY <1>1, <1>2, <1>3, <1>4, SameFirst

LEMMA OpenCompleteFirst ==
  ASSUME WsCore, WsCore', First, opens = 1, freed = 0, Running, OnUnderlyingWsOpenComplete
  PROVE  First'
<1>1. WsTypes' /\ {"open", "error"} \subseteq Evs /\ 0 \in Nat
  BY DEF WsCore, Evs, Events
<1>2. UNCHANGED clientRest /\ UNCHANGED <<pending_io_list, freed>> /\ Calls("open")
  BY DEF OnUnderlyingWsOpenComplete
<1>3. stack[1].op = "user" /\ Tops(stack, "open")
  BY <1>2, CallsTurn
<1>4. sends = 0
  BY <1>3 DEF First, Opened1, Used
<1>5. \E ev \in Evs, n \in Nat : stack' = Frame("app", ev, n) \o Rest
  BY <1>1 DEF OnUnderlyingWsOpenComplete, App, WsIndicateError, IndicateOpenComplete
<1>6. io_state = "OPENING" \/ io_state' = "ERROR"
  BY DEF OnUnderlyingWsOpenComplete, WsIndicateError
<1>7. freed' \notin accepted
  BY <1>2, NothingFreed
<1>8. QED
  BY <1>1, <1>2, <1>3, <1>4, <1>5, <1>6, <1>7, TopFirst

LEMMA SendCompleteFirst ==
  ASSUME WsCore, WsCore', First, opens = 1, freed = 0, Running, OnUnderlyingWsSendFrameComplete
  PROVE  First'
<1> DEFINE s == stack[1].n
<1>1. /\ Calls("sent") /\ UNCHANGED <<clientRest, io_state>>
      /\ \/ s \in ToSet(pending_io_list) /\ CompleteSendItem(s, Rest)
         \/ /\ s \notin ToSet(pending_io_list)
            /\ freed' = s /\ stack' = Rest /\ UNCHANGED pending_io_list
  BY DEF OnUnderlyingWsSendFrameComplete
<1>2. stack[1].op = "user" /\ Tops(stack, "sent")
  BY <1>1, CallsTurn
<1>3. s \in 1 .. sends /\ s \notin ToSet(pending_sends) /\ s \in Nat
  <2>1. s \in 1 .. sends /\ s \notin ToSet(pending_sends)
    BY <1>2 DEF WsCore, States, SentFits
  <2>2. sends \in Nat
    BY UwsAssumption DEF WsCore, Whole, Core, IInv, Types
  <2>3. QED
    BY <2>1, <2>2
<1>4. UNCHANGED <<pending_sends, accepted>>
  BY <1>1 DEF clientRest, clientVars, history, sendHistory
<1>5. \A x \in ToSet(pending_io_list) : x = s \/ x \in ToSet(pending_io_list')
  <2>1. pending_io_list \in Seq(1 .. Sends) /\ Distinct(pending_io_list)
    BY DEF WsCore, WsTypes, WsAccounts
  <2>2. ToSet(Without(pending_io_list, s)) = ToSet(pending_io_list) \ {s}
    BY <2>1, WithoutElements
  <2>3. QED
    BY <1>1, <2>2 DEF CompleteSendItem
<1>6. Kept => Kept'
  BY <1>3, <1>4, <1>5, KeptStays
<1>7. sends # 0 => Kept \/ Over
  BY DEF First, Opened1, Used
<1>8. freed' \notin accepted
  <2>1. s \in ToSet(pending_io_list) \/ s \notin accepted
    BY <1>2 DEF First, Opened1
  <2>2. QED
    BY <1>1, <2>1, NothingFreed DEF CompleteSendItem
<1>9. WsTypes' /\ "sent" \in Evs /\ "user" \notin {"wsCancel", "wsNotOpen"}
  BY DEF WsCore, Evs, Events
<1>10. \/ stack' = Rest
       \/ \E ev \in Evs, n \in Nat : stack' = Frame("app", ev, n) \o Rest
  BY <1>1, <1>3, <1>9 DEF CompleteSendItem
<1> HIDE DEF s
<1>11. QED
  BY <1>1, <1>2, <1>6, <1>7, <1>8, <1>9, <1>10, TopFirst

(* An error or an end, which may have wsio go back to NOT_OPEN.             *)
LEMMA NoticeFirst ==
  ASSUME WsCore, WsCore', First, opens = 1, freed = 0, Running,
         stack[1].op = "user", UNCHANGED clientRest, UNCHANGED <<pending_io_list, freed>>,
         NEW ev \in Evs, stack' = App(ev) \o (Call("wsNotOpen") \o Rest), Has(Rest, "consume"),
         io_state' = "OPENING" => io_state = "OPENING", io_state' # "OPEN",
         io_state' = "ERROR" => io_state = "ERROR" \/ ~Winds(stack')
  PROVE  First'
<1> DEFINE w == Call("wsNotOpen") \o Rest
           g == WsFrame("wsNotOpen", "none", 0)
           f == WsFrame("app", ev, 0)
<1>1. Calling /\ stack # <<>> /\ Turns(Rest) /\ Holds(Rest, Rest, {})
  BY TopTurn DEF WsCore
<1>2. "wsNotOpen" \in WsOps \ {"wsOpenFails"} /\ "wsNotOpen" # "wsDestroy" /\ "none" \in Evs
  BY DEF WsOps, Evs
<1>3. Turns(w) /\ Holds(w, Rest, {} \cup {g})
  BY <1>1, <1>2, TurnsPush DEF Call
<1>4. Turns(stack') /\ Holds(stack', Rest, ({} \cup {g}) \cup {f})
  <2> HIDE DEF w, g
  <2>1. stack' = Frame("app", ev, 0) \o w 
    BY DEF App, w
  <2> DEFINE z == Frame("app", ev, 0) \o w
  <2>2. Turns(z) /\ Holds(z, Rest, ({} \cup {g}) \cup {f})
    BY <1>3, AppCalled
  <2> HIDE DEF f
  <2>3. QED
    BY <2>1, <2>2
<1>5. /\ \A h \in ({} \cup {g}) \cup {f} : h.op \in {"app", "wsNotOpen"}
      /\ \E h \in ({} \cup {g}) \cup {f} : h.op = "wsNotOpen"
  BY DEF WsFrame
<1>6. freed' \notin accepted
  BY NothingFreed
<1>7. sends # 0 => Kept' \/ Over
  <2>1. UNCHANGED <<pending_sends, accepted>>
    BY DEF clientRest, clientVars, history, sendHistory
  <2>2. Kept => Kept'
    BY <2>1, KeptStays
  <2>3. QED
    BY <2>2 DEF First, Opened1, Used
<1>8. WsTypes'
  BY DEF WsCore
<1> HIDE DEF f, g, w
<1>9. QED
  BY <1>1, <1>4, <1>5, <1>6, <1>7, <1>8, CallerFirst

LEMMA PeerClosedFirst ==
  ASSUME WsCore, WsCore', First, opens = 1, freed = 0, Running, OnUnderlyingWsPeerClosed
  PROVE  First'
<1>1. /\ Calls("peerClosed") /\ {"open", "error"} \subseteq Evs /\ WsTypes' /\ 0 \in Nat
      /\ UNCHANGED clientRest /\ UNCHANGED <<pending_io_list, freed>>
  BY DEF OnUnderlyingWsPeerClosed, WsCore, Evs, Events
<1>2. /\ stack[1].op = "user" /\ Tops(stack, "peerClosed") /\ Calling /\ stack # <<>>
  BY <1>1, CallsTurn
<1>3. Has(Rest, "consume") /\ \A f \in ToSet(Rest) : f.op \in {"consume", "decode"}
  BY <1>2, Turn DEF WsCore
<1>4. CASE io_state = "OPENING" /\ IndicateOpenComplete("NOT_OPEN", Rest)
  <2>1. \E ev \in Evs, n \in Nat : stack' = Frame("app", ev, n) \o Rest
    BY <1>1, <1>4 DEF IndicateOpenComplete, App
  <2>2. io_state' = "NOT_OPEN"
    BY <1>4 DEF IndicateOpenComplete
  <2>3. QED
    BY <1>1, <1>2, <2>1, <2>2, SameFirst
<1>5. io_state' = "ERROR" => ~Winds(stack')
  <2>1. SUFFICES ASSUME io_state' = "ERROR",
                        NEW o \in {"cancel", "wsCancel", "wsDestroy", "destroyed"}, Has(stack', o)
                 PROVE  FALSE
    BY DEF Winds
  <2>2. PICK b \in {Rest, Call("wsNotOpen") \o Rest} : stack' = App("error") \o b
    BY <2>1 DEF OnUnderlyingWsPeerClosed, IndicateOpenComplete, WsIndicateError
  <2>3. Turns(Rest) /\ Holds(Rest, Rest, {})
    BY <1>1, CallsTurn
  <2>4. Turns(b) /\ \E F : Holds(b, Rest, F) /\ \A f \in F : f.op = "wsNotOpen"
    <3>1. CASE b = Rest
      BY <2>3, <3>1
    <3>2. CASE b = Call("wsNotOpen") \o Rest
      <4>1. "wsNotOpen" \in WsOps \ {"wsOpenFails"} /\ "wsNotOpen" # "wsDestroy" /\ "none" \in Evs
        BY DEF WsOps, Evs
      <4>2. Turns(b) /\ Holds(b, Rest, {} \cup {WsFrame("wsNotOpen", "none", 0)})
        BY <1>3, <2>3, <3>2, <4>1, TurnsPush DEF Call
      <4>3. \A f \in {} \cup {WsFrame("wsNotOpen", "none", 0)} : f.op = "wsNotOpen"
        BY DEF WsFrame
      <4>4. QED
        BY <4>2, <4>3
    <3>3. QED
      BY <3>1, <3>2
  <2>5. PICK F : Holds(b, Rest, F) /\ \A f \in F : f.op = "wsNotOpen"
    BY <2>4
  <2>6. Holds(stack', Rest, F \cup {WsFrame("app", "error", 0)})
    BY <1>1, <2>2, <2>4, <2>5, AppCalled DEF App
  <2>7. \A f \in F \cup {WsFrame("app", "error", 0)} : f.op \in {"wsNotOpen", "app"}
    BY <2>5 DEF WsFrame
  <2>8. PICK f \in ToSet(stack') : f.op = o
    BY <2>1 DEF Has
  <2>9. f \in ToSet(Rest) \/ f.op \in {"wsNotOpen", "app"} \/ f.op \in Reps
    BY <2>6, <2>7 DEF Holds
  <2>10. QED
    BY <1>3, <2>8, <2>9 DEF Reps, AtOnce
<1>6. CASE io_state \notin {"OPENING", "NOT_OPEN"} /\ WsIndicateError(Rest)
  <2>1. io_state' = "ERROR" /\ \E ev \in Evs, n \in Nat : stack' = Frame("app", ev, n) \o Rest
    BY <1>1, <1>6 DEF WsIndicateError, App
  <2>2. freed' \notin accepted
    BY <1>1, NothingFreed
  <2>3. sends # 0 => Kept' \/ Over
    <3>1. UNCHANGED <<pending_sends, accepted>>
      BY <1>1 DEF clientRest, clientVars, history, sendHistory
    <3>2. Kept => Kept'
      BY <1>1, <3>1, KeptStays
    <3>3. QED
      BY <3>2 DEF First, Opened1, Used
  <2>4. QED
    BY <1>1, <1>2, <1>5, <1>6, <2>1, <2>2, <2>3, TopFirst
<1>7. CASE io_state = "NOT_OPEN" /\ WsIndicateError(Call("wsNotOpen") \o Rest)
  <2>1. io_state' = "ERROR" /\ stack' = App("error") \o (Call("wsNotOpen") \o Rest)
    BY <1>7 DEF WsIndicateError
  <2>2. QED
    BY <1>1, <1>2, <1>3, <1>5, <2>1, NoticeFirst
<1>8. QED
  BY <1>4, <1>6, <1>7 DEF OnUnderlyingWsPeerClosed

LEMMA ErrorFirst ==
  ASSUME WsCore, WsCore', First, opens = 1, freed = 0, Running, OnUnderlyingWsError
  PROVE  First'
<1>1. /\ Calls("error") /\ "error" \in Evs /\ 0 \in Nat /\ WsTypes'
      /\ UNCHANGED <<clientRest, pending_io_list, freed>>
  BY DEF OnUnderlyingWsError, Evs, Events, WsCore
<1>2. stack[1].op = "user" /\ Tops(stack, "error")
  BY <1>1, CallsTurn
<1>3. io_state # "OPENING"
  BY <1>2 DEF WsCore, States, OpeningFits, Whole, Tells
<1>4. io_state' = io_state /\ \E ev \in Evs, n \in Nat : stack' = Frame("app", ev, n) \o Rest
  BY <1>1, <1>3 DEF OnUnderlyingWsError, App
<1>5. QED
  BY <1>1, <1>2, <1>4, SameFirst
-------------------------------------------------------------------------------
(* The calls.                                                               *)
LEMMA NoCancel == ASSUME NEW s, ~Has(s, "wsCancel") PROVE CancelsAbove(s)
BY DEF Has, ToSet, CancelsAbove

LEMMA PutSeen ==
  ASSUME WsCore, Whole', Calling, NEW s, Base(s), s = stack \/ (stack # <<>> /\ s = Rest),
         NEW F, Holds(stack', s, F), \A f \in F : f.op # "user"
  PROVE  /\ ~Tops(stack', "open") /\ ~Tops(stack', "sent")
         /\ \A o \in {"cancel", "wsCancel", "wsDestroy", "destroyed"} :
              Has(stack', o) => Has(s, o) \/ \E f \in F : f.op = o
<1>1. ~Tops(stack', "open") /\ ~Tops(stack', "sent")
  BY NothingDue
<1>2. \A f \in ToSet(stack') : f \in ToSet(s) \cup F \/ f.op \in Reps
  BY DEF Holds
<1>3. ASSUME NEW o \in {"cancel", "wsCancel", "wsDestroy", "destroyed"}, Has(stack', o)
      PROVE  Has(s, o) \/ \E f \in F : f.op = o
  BY <1>2, <1>3 DEF Has, Reps, AtOnce
<1>4. QED
  BY <1>1, <1>3

LEMMA LaterFirst ==
  ASSUME WsCore, opens \notin {0, 1}, opens' = opens \/ opens' = opens + 1
  PROVE  First'
<1>1. opens \in Nat
  BY UwsAssumption DEF WsCore, Whole, Core, IInv, Types
<1>2. opens' \in Nat /\ opens' >= 2
  BY <1>1
<1>3. QED
  BY <1>2 DEF First

LEMMA OpenFirst == ASSUME WsCore, WsCore', First, WsioOpen PROVE First'
<1>1. /\ InApp /\ OpenWith(stack, Call("wsOpenFails") \o stack) /\ UNCHANGED freed
  BY DEF WsioOpen
<1>2. /\ opens' = opens + 1 /\ reopened' = (reopened \/ stack # <<>>)
      /\ uws_state' = "OPENING_UNDERLYING_IO" /\ UNCHANGED <<sends, accepted>>
  BY <1>1 DEF OpenWith, sendHistory
<1>3. opens \in Nat
  BY UwsAssumption DEF WsCore, Whole, Core, IInv, Types
<1>4. CASE opens = 0
  <2>1. /\ Calling /\ Base(stack) /\ freed = 0 /\ Whole'
        /\ \/ Holds(stack', stack, {})
           \/ Holds(stack', stack, {WsFrame("openFails", "none", 0),
                                    WsFrame("wsOpenFails", "none", 0)})
    BY <1>1, InAppFacts, OpenedWhole DEF WsCore
  <2>2. stack = <<>> /\ ~reopened /\ sends = 0
    BY <1>4, <2>1 DEF First, Calling, Alive
  <2>3. PICK F : Holds(stack', stack, F) /\ \A f \in F : f.op \in {"openFails", "wsOpenFails"}
    <3>1. \A o : WsFrame(o, "none", 0).op = o
      BY DEF WsFrame
    <3>2. QED
      BY <2>1, <3>1
  <2>4. ~Winds(stack') /\ ~Has(stack', "wsCancel") /\ ~Tops(stack', "sent")
    BY <2>1, <2>2, <2>3, PutSeen, HasNothing DEF Winds
  <2>5. freed' \notin accepted'
    BY <1>1, <1>2, <2>1, NothingFreed
  <2>6. Opened1'
    BY <1>2, <2>2, <2>4, <2>5 DEF Opened1
  <2>7. opens' = 1
    BY <1>2, <1>4
  <2>8. ~reopened'
    BY <1>2, <2>2, Zenon
  <2>9. QED
    BY <2>6, <2>7, <2>8 DEF First
<1>5. CASE opens # 0
  <2>1. opens' \in Nat /\ opens' >= 2
    BY <1>2, <1>3, <1>5
  <2>2. QED
    BY <2>1 DEF First
<1>6. QED
  BY <1>4, <1>5

LEMMA SendFirst == ASSUME WsCore, WsCore', First, opens = 1, WsioSend PROVE First'
<1> DEFINE s == sends + 1
           a == WsFrame("wsSent", "none", s)
           b == WsFrame("sendFails", "none", s)
           c == WsFrame("wsSendFails", "none", s)
<1>1. /\ InApp /\ io_state = "OPEN" /\ pending_io_list' = Append(pending_io_list, s)
      /\ SendFrameWith(Frame("wsSent", "none", s) \o stack,
                       Frame("wsSendFails", "none", s) \o stack)
      /\ UNCHANGED <<io_state, freed>>
  BY DEF WsioSend
<1>2. Calling /\ Base(stack) /\ freed = 0 /\ Types /\ Accounts
  BY <1>1, InAppFacts DEF WsCore, Whole, Core, IInv
<1>3. /\ Whole' /\ sends' = s /\ sends < Sends /\ uws_state = "OPEN"
      /\ UNCHANGED <<uws_state, opens, reopened, asked, answers>>
      /\ pending_sends' = Append(pending_sends, s)
      /\ accepted' \subseteq accepted \cup {s}
      /\ Holds(stack', stack, {a}) \/ Holds(stack', stack, {b, c})
  BY <1>1, SentWhole DEF WsCore
<1>4. PICK F : /\ Holds(stack', stack, F)
               /\ \A f \in F : f.op \in {"wsSent", "sendFails", "wsSendFails"}
  <2>1. \A f \in {a} \cup {b, c} : f.op \in {"wsSent", "sendFails", "wsSendFails"}
    BY DEF WsFrame
  <2> HIDE DEF a, b, c
  <2>2. QED
    BY <1>3, <2>1
<1> HIDE DEF a, b, c
<1>5. s \in 1 .. Sends /\ s # 0 /\ sends \in Nat /\ s \notin 1 .. sends
  BY <1>2, <1>3, UwsAssumption DEF Types
<1> HIDE DEF s
<1>6. Opened1 /\ ~reopened
  BY DEF First
<1>7. ~Winds(stack') /\ ~Tops(stack', "open") /\ ~Tops(stack', "sent")
  <2>1. ~Winds(stack)
    BY <1>1, <1>6 DEF Opened1
  <2>2. QED
    BY <1>2, <1>3, <1>4, <2>1, PutSeen DEF Winds
<1>8. Kept
  <2>1. CASE sends = 0
    <3>1. accepted = {}
      BY <1>2, <2>1 DEF Accounts
    <3>2. QED
      BY <3>1 DEF Kept
  <2>2. CASE sends # 0
    BY <1>3, <1>6, <2>2 DEF Opened1, Used, Over, Low
  <2>3. QED
    BY <2>1, <2>2
<1>9. /\ ToSet(pending_sends') = ToSet(pending_sends) \cup {s}
      /\ ToSet(pending_io_list') = ToSet(pending_io_list) \cup {s}
  <2> DEFINE E == 1 .. Sends
  <2>1. /\ pending_sends \in Seq(E) /\ Distinct(pending_sends)
        /\ pending_io_list \in Seq(E) /\ Distinct(pending_io_list)
        /\ ToSet(pending_sends) \subseteq 1 .. sends /\ ToSet(pending_io_list) \subseteq 1 .. sends
    BY <1>2 DEF Types, Accounts, WsCore, WsTypes, WsAccounts
  <2>2. s \in E /\ s \notin ToSet(pending_sends) /\ s \notin ToSet(pending_io_list)
    BY <1>5, <2>1
  <2> HIDE DEF E
  <2>3. QED
    BY <1>1, <1>3, <2>1, <2>2, AppendElements
<1>10. Kept'
  BY <1>3, <1>8, <1>9 DEF Kept
<1>11. CancelsAbove(stack') /\ ~Has(stack', "wsCancel")
  BY <1>7, NoCancel DEF Winds
<1>12. Used'
  BY <1>7, <1>10, <1>11 DEF Used
<1>13. freed' \notin accepted'
  BY <1>1, <1>2, <1>3, <1>5, NothingFreed
<1>14. answers' # <<>>
  BY <1>3, <1>6 DEF Opened1
<1>15. Opened1'
  BY <1>7, <1>11, <1>12, <1>13, <1>14 DEF Opened1
<1>16. QED
  BY <1>3, <1>6, <1>15 DEF First

(* internal_close, which leaves the items of a client that is closed or     *)
(* closing to nobody.                                                       *)
LEMMA InternalCloseFirst ==
  ASSUME WsCore, WsCore', First, opens = 1, Calling, Base(stack), freed = 0,
         NEW callback \in BOOLEAN, NEW then, Turns(then), Resumes(then), NEW D,
         Holds(then, stack, D), \A f \in D : f.op = "wsDestroy", InternalClose(callback, then)
  PROVE  First'
<1>1. Opened1 /\ ~reopened /\ Whole' /\ Stacked(stack')
  BY DEF First, WsCore, Whole, Core, IInv
<1>2. UNCHANGED <<pending_sends, answers, sends, accepted, opens, reopened, pending_io_list, freed>>
  BY DEF InternalClose, CloseWith, clientRest, clientVars, history, opening, sendHistory
<1>3. freed' \notin accepted'
  BY <1>2, NothingFreed
<1>4. Kept => Kept'
  BY <1>2 DEF Kept
<1>5. CASE /\ io_state = "OPENING" /\ IndicateOpenComplete("NOT_OPEN", then)
           /\ UNCHANGED clientRest
  <2> DEFINE f == WsFrame("app", "open", 0)
  <2>1. io_state' = "NOT_OPEN" /\ stack' = App("open") \o then
    BY <1>5 DEF IndicateOpenComplete
  <2>2. UNCHANGED <<uws_state, asked>>
    BY <1>5 DEF clientRest, clientVars, history
  <2>3. Turns(stack') /\ Holds(stack', stack, D \cup {f})
    BY <2>1, AppCalled DEF App, Evs, Events
  <2>4. \A g \in D \cup {f} : g.op \in {"wsDestroy", "app"}
    BY DEF WsFrame
  <2> HIDE DEF f
  <2>5. ~Winds(stack)
    BY <1>1, <1>5 DEF Opened1
  <2>6. /\ ~Tops(stack', "open") /\ ~Tops(stack', "sent")
        /\ ~Has(stack', "wsCancel") /\ ~Has(stack', "cancel")
    BY <1>1, <2>3, <2>4, <2>5, PutSeen DEF Winds
  <2>7. ~Has(stack', "sent")
    <3>1. "sent" \in AtOnce
      BY DEF AtOnce
    <3>2. QED
      BY <2>3, <3>1 DEF Turns, Base, NoReport, Has
  <2>8. sends # 0 => Used'
    <3>1. CancelsAbove(stack')
      BY <2>6, NoCancel
    <3>2. Over => Over'
      BY <2>1, <2>2, <2>6, <2>7 DEF Over, Low
    <3>3. QED
      BY <1>1, <1>4, <2>1, <2>6, <3>1, <3>2 DEF Opened1, Used
  <2>9. Opened1'
    BY <1>1, <1>2, <1>3, <2>1, <2>2, <2>6, <2>8 DEF Opened1
  <2>10. QED
    BY <1>1, <1>2, <2>9 DEF First
<1>6. CASE /\ io_state \in {"OPEN", "ERROR"} /\ io_state' = "CLOSING"
           /\ LET rest == Call("wsCancel") \o then
                  fails == Call("wsCloseFails") \o rest IN
              \/ CloseWith(TRUE, rest, fails)
              \/ /\ uws_state \in {"CLOSED", "CLOSING_SENDING_CLOSE", "CLOSING_UNDERLYING_IO"}
                 /\ stack' = fails
                 /\ UNCHANGED clientRest
  <2> DEFINE rest == Call("wsCancel") \o then
             fails == Call("wsCloseFails") \o rest
  <2>1. \/ CloseWith(TRUE, rest, fails) /\ ~Low
        \/ Low /\ stack' = fails /\ UNCHANGED clientRest
    BY <1>6 DEF Low, CloseWith
  <2>2. \/ Holds(stack', stack, D \cup Cancels) /\ ~Low
        \/ Holds(stack', stack, D \cup CloseFails)
    <3>1. \A g \in D : g.op # "cancel"
      OBVIOUS
    <3>2. Whole
      BY DEF WsCore
    <3>3. CloseWith(TRUE, rest, fails) \/ (stack' = fails /\ UNCHANGED clientRest)
      BY <2>1
    <3>4. QED
      BY <3>1, <3>2, <3>3, ClosedWhole
  <2>3. PICK F : /\ Holds(stack', stack, F)
                 /\ \A f \in F : f.op \in {"wsDestroy", "wsCancel", "wsCloseFails", "cancel"}
                 /\ Low => \A f \in F : f.op # "cancel"
                 /\ \E f \in F : f.op = "wsCancel"
    <3>1. /\ \A f \in Cancels \cup CloseFails : f.op \in {"wsCancel", "wsCloseFails", "cancel"}
          /\ \A f \in CloseFails : f.op # "cancel"
          /\ \E f \in Cancels : f.op = "wsCancel"
          /\ \E f \in CloseFails : f.op = "wsCancel"
      BY DEF Cancels, CloseFails, WsFrame
    <3>2. CASE Holds(stack', stack, D \cup Cancels) /\ ~Low
      BY <3>1, <3>2
    <3>3. CASE Holds(stack', stack, D \cup CloseFails)
      BY <3>1, <3>3
    <3>4. QED
      BY <2>2, <3>2, <3>3
  <2>4. Low'
    BY <2>1 DEF CloseWith, Low, clientRest, clientVars
  <2>5. Low => stack'[1].op = "wsCloseFails"
    <3>1. Low => stack' = fails
      BY <2>1
    <3>2. fails[1].op = "wsCloseFails"
      <4>1. Pushed(fails, WsFrame("wsCloseFails", "none", 0), rest)
        <5>1. Turns(rest)
          <6>1. "wsCancel" \in WsOps \ {"wsOpenFails"} /\ "none" \in Evs /\ 0 \in Nat
                /\ "wsCancel" \notin {"wsDestroy", "wsNotOpen"}
            BY DEF WsOps, Evs
          <6>2. QED
            BY <6>1, TurnsPush DEF Call
        <5>2. Good(rest) /\ "wsCloseFails" \in WsOps /\ "none" \in Evs /\ 0 \in Nat
              /\ "wsCloseFails" # "wsDestroy"
          BY <5>1, BaseFits DEF WsOps, Evs, Turns
        <5> HIDE DEF rest
        <5>3. QED
          BY <5>2, WsPut DEF Call
      <4> HIDE DEF rest, fails
      <4>2. QED
        BY <4>1, Indices DEF WsFrame
    <3>3. QED
      BY <3>1, <3>2
  <2> HIDE DEF rest, fails
  <2>6. /\ ~Tops(stack', "open") /\ ~Tops(stack', "sent")
        /\ \A o \in {"cancel", "wsCancel", "wsDestroy", "destroyed"} :
             Has(stack', o) => Has(stack, o) \/ \E f \in F : f.op = o
    BY <1>1, <2>3, PutSeen
  <2>7. ASSUME sends # 0 PROVE Used'
    <3>1. Used /\ ~Winds(stack)
      BY <1>1, <1>6, <2>7 DEF Opened1, Used
    <3>2. CancelsAbove(stack')
      BY <2>3, <3>1 DEF Holds, Used, Winds
    <3>3. ~Has(stack', "destroyed")
      BY <2>3, <2>6, <3>1 DEF Winds
    <3>4. Over => Over'
      <4>1. SUFFICES ASSUME Over PROVE Over'
        OBVIOUS
      <4>2. Low
        BY <4>1 DEF Over
      <4>3. ~Has(stack', "cancel")
        BY <2>3, <2>6, <3>1, <4>2 DEF Winds
      <4>4. ~Has(stack', "sent")
        <5>1. "sent" \in AtOnce
          BY DEF AtOnce
        <5>2. QED
          BY <1>1, <2>5, <4>2, <5>1, AtOnceTop
      <4>5. Has(stack', "wsCancel")
        BY <2>3 DEF Holds, Has
      <4>6. QED
        BY <2>4, <4>3, <4>4, <4>5 DEF Over
    <3>5. QED
      BY <1>4, <1>6, <2>6, <3>1, <3>2, <3>3, <3>4 DEF Used
  <2>8. uws_state' # "OPEN"
    BY <2>4 DEF Low
  <2>9. Opened1'
    BY <1>1, <1>2, <1>3, <1>6, <2>4, <2>6, <2>7, <2>8 DEF Opened1
  <2>10. QED
    BY <1>1, <1>2, <2>9 DEF First
<1>7. QED
  BY <1>5, <1>6 DEF InternalClose

LEMMA DestroyFirst ==
  ASSUME WsCore, WsCore', First, opens = 1, freed = 0, Calling,
         (stack = <<>> /\ io_state = "NOT_OPEN") \/ (stack # <<>> /\ Top("wsDestroy")),
         DestroyClient, UNCHANGED wsVars
  PROVE  First'
<1> DEFINE h == WsFrame("cancel", "none", 0)
<1>0. Stacked(stack) /\ "wsDestroy" \in WsOps /\ Whole' /\ Opened1 /\ ~reopened
  BY DEF WsCore, Whole, Core, IInv, WsOps, First
<1>1. <<>> = stack \/ (stack # <<>> /\ <<>> = Rest)
  BY <1>0, StackedPop DEF Top, Rest
<1>2. Holds(stack', <<>>, Destroys) \/ Holds(stack', <<>>, Destroys \cup {h})
  BY DestroyedWhole DEF WsCore
<1>3. PICK F : Holds(stack', <<>>, F) /\ \A f \in F : f.op \in {"destroyed", "cancel"}
  <2>1. \A f \in Destroys \cup {h} : f.op \in {"destroyed", "cancel"}
    BY DEF Destroys, WsFrame
  <2> HIDE DEF h
  <2>2. QED
    BY <1>2, <2>1
<1>4. ~Tops(stack', "open") /\ ~Tops(stack', "sent") /\ ~Has(stack', "wsCancel")
  <2>1. Base(<<>>)
    BY EmptyBase
  <2>2. QED
    BY <1>0, <1>1, <1>3, <2>1, PutSeen, HasNothing
<1>5. UNCHANGED <<io_state, pending_io_list, freed, pending_sends, sends, accepted, answers,
                  opens, reopened>>
  BY DEF DestroyClient, CloseWith, clientVars, history, opening, sendHistory, wsVars, wsState
<1>6. /\ io_state \notin {"OPENING", "OPEN"}
      /\ sends # 0 => io_state \in {"CLOSING", "NOT_OPEN"}
  <2>1. CASE stack # <<>> /\ Top("wsDestroy")
    <3>1. Winds(stack)
      BY <1>0, <2>1, TopIn DEF Winds, Top
    <3>2. QED
      BY <1>0, <3>1 DEF Opened1, Used
  <2>2. QED
    BY <2>1
<1>7. uws_state' # "OPEN"
  BY DEF DestroyClient, CloseWith, clientVars
<1>8. freed' \notin accepted'
  BY <1>5, NothingFreed
<1>9. Over => Over'
  <2>1. SUFFICES ASSUME Over PROVE Over'
    OBVIOUS
  <2>2. stack' = Call("destroyed") /\ UNCHANGED uws_state
    BY <2>1 DEF Over, Low, DestroyClient, clientVars
  <2>3. ToSet(stack') = {WsFrame("destroyed", "none", 0)}
    BY <2>2 DEF Call, Frame, WsFrame, ToSet
  <2>4. ~Has(stack', "cancel") /\ ~Has(stack', "sent")
    BY <2>3 DEF Has, WsFrame
  <2>5. io_state = "NOT_OPEN"
    <3>1. CASE stack # <<>> /\ Top("wsDestroy")
      <4>1. ToSet(stack) = {stack[1]} \cup ToSet(Rest)
        BY <1>0, <3>1, StackedPop DEF Rest
      <4>2. ~Has(stack, "wsCancel") /\ ~Has(stack, "wsNotOpen")
        BY <1>1, <3>1, <4>1, EmptyStack DEF Has, Top
      <4>3. QED
        BY <2>1, <4>2 DEF Over
    <3>2. QED
      BY <3>1
  <2>6. QED
    BY <1>5, <2>1, <2>2, <2>4, <2>5 DEF Over, Low
<1>10. Kept => Kept'
  BY <1>5 DEF Kept
<1>11. sends # 0 => Used'
  <2>1. CancelsAbove(stack')
    BY <1>4, NoCancel
  <2>2. QED
    BY <1>0, <1>4, <1>5, <1>6, <1>9, <1>10, <2>1 DEF Opened1, Used
<1>12. Opened1'
  BY <1>0, <1>4, <1>5, <1>6, <1>7, <1>8, <1>11 DEF Opened1
<1>13. QED
  BY <1>0, <1>5, <1>12 DEF First

LEMMA CallsFirst ==
  ASSUME WsCore, WsCore', First, opens = 1, WsioClose \/ WsioDestroy PROVE First'
<1>1. CASE WsioClose
  <2>1. InApp /\ \E callback \in BOOLEAN : InternalClose(callback, stack)
    BY <1>1 DEF WsioClose
  <2>2. /\ Calling /\ Base(stack) /\ freed = 0 /\ Turns(stack) /\ Resumes(stack)
        /\ Holds(stack, stack, {})
    BY <2>1, InAppFacts DEF WsCore
  <2>3. QED
    BY <2>1, <2>2, InternalCloseFirst
<1>2. CASE WsioDestroy
  <2>1. /\ stack = <<>> /\ Calling /\ freed = 0
        /\ \/ io_state = "NOT_OPEN" /\ DestroyClient /\ UNCHANGED wsVars
           \/ InternalClose(FALSE, Call("wsDestroy"))
    BY <1>2 DEF WsioDestroy, Going, Calling
  <2>2. CASE io_state = "NOT_OPEN" /\ DestroyClient /\ UNCHANGED wsVars
    BY <2>1, <2>2, DestroyFirst
  <2>3. CASE InternalClose(FALSE, Call("wsDestroy"))
    <3> DEFINE g == WsFrame("wsDestroy", "none", 0)
               w == Call("wsDestroy") \o stack
    <3>1. Turns(stack) /\ Resumes(stack) /\ Holds(stack, stack, {}) /\ Base(stack)
      BY <2>1, Callers, Turn DEF WsCore
    <3>2. "wsDestroy" \in WsOps \ {"wsOpenFails"} /\ "none" \in Evs
          /\ "wsDestroy" \notin {"wsNotOpen", "wsCancel"}
      BY DEF WsOps, Evs
    <3>3. Turns(w) /\ Resumes(w) /\ Holds(w, stack, {} \cup {g})
      BY <2>1, <3>1, <3>2, TurnsPush DEF Call
    <3>4. w = Call("wsDestroy")
      BY <2>1 DEF Call, Frame
    <3>5. \A f \in {} \cup {g} : f.op = "wsDestroy"
      BY DEF WsFrame
    <3>6. InternalClose(FALSE, w)
      BY <2>3, <3>4
    <3> HIDE DEF w, g
    <3>7. QED
      BY <2>1, <3>1, <3>3, <3>5, <3>6, InternalCloseFirst
  <2>4. QED
    BY <2>1, <2>2, <2>3
<1>3. QED
  BY <1>1, <1>2

LEMMA FramesFirst == ASSUME WsCore, WsCore', First, opens = 1, WsFrames PROVE First'
<1>1. Running /\ freed = 0 /\ stack # <<>>
  BY DEF WsFrames, Running
<1>2. CASE ClientFrames /\ UNCHANGED wsVars
  BY <1>1, <1>2, ClientFirst DEF ClientSteps
<1>3. CASE AppReturns \/ WsOpenFails \/ WsCloseFails \/ WsSent \/ WsNotOpen
  BY <1>1, <1>3, ReturnsFirst
<1>4. CASE WsCancel \/ WsSendFails
  BY <1>1, <1>4, CancelFirst, SendFailsFirst
<1>5. CASE WsDestroy
  <2>1. Top("wsDestroy") /\ DestroyClient /\ UNCHANGED wsVars
    BY <1>5 DEF WsDestroy
  <2>2. Calling
    BY <1>1, <2>1, WsAssumption DEF Calling, Top, WsOps, Running
  <2>3. QED
    BY <1>1, <2>1, <2>2, DestroyFirst
<1>6. CASE \/ OnUnderlyingWsOpenComplete \/ OnUnderlyingWsFrameReceived
           \/ OnUnderlyingWsPeerClosed \/ OnUnderlyingWsError \/ OnUnderlyingWsCloseComplete
           \/ OnUnderlyingWsSendFrameComplete
  BY <1>1, <1>6, OpenCompleteFirst, CallbackFirst, PeerClosedFirst, ErrorFirst,
     SendCompleteFirst
<1>7. QED
  BY <1>2, <1>3, <1>4, <1>5, <1>6 DEF WsFrames

(* No connection yet: nothing runs but wsio_destroy.                        *)
LEMMA UnopenedFirst ==
  ASSUME First, opens = 0,
         WsioClose \/ WsioSend \/ WsioDestroy \/ WsFrames \/ WsReports \/ WsUnderlyingError
  PROVE  First'
<1>1. /\ io_state = "NOT_OPEN" /\ uws_state = "CLOSED" /\ sends = 0 /\ ~reopened
      /\ stack \in {<<>>, Call("destroyed")}
  BY DEF First
<1>2. ~Running
  BY <1>1 DEF Running, Alive
<1>3. WsioDestroy
  BY <1>1, <1>2 DEF WsioClose, WsioSend, WsFrames, WsReports, WsUnderlyingError, Pumps,
     InternalClose
<1>4. /\ DestroyClient /\ UNCHANGED wsVars
  BY <1>1, <1>3 DEF WsioDestroy, InternalClose
<1>5. stack' = Call("destroyed") /\ UNCHANGED <<clientVars, history>>
  BY <1>1, <1>4 DEF DestroyClient
<1>6. UNCHANGED <<io_state, uws_state, sends, reopened, opens>>
  BY <1>4, <1>5 DEF wsVars, wsState, clientVars, history, opening, sendHistory
<1>7. QED
  BY <1>1, <1>5, <1>6 DEF First

LEMMA OpensStay ==
  ASSUME WsCore,
         WsioClose \/ WsioSend \/ WsioDestroy \/ WsFrames \/ WsReports \/ WsUnderlyingError
  PROVE  opens' = opens
<1>1. CASE ClientSteps
  BY <1>1, ClientWhole DEF WsCore, Works, Plain
<1>2. CASE WsioClose \/ WsioSend \/ WsioDestroy
  BY <1>2 DEF WsioClose, WsioSend, WsioDestroy, InternalClose, CloseWith, SendFrameWith,
     DestroyClient, clientRest, history, opening
<1>3. CASE WsFrames /\ ~ClientFrames
  <2>1. UNCHANGED clientRest \/ DestroyClient
    BY <1>3 DEF WsFrames, AppReturns, WsOpenFails, WsCloseFails, WsCancel, WsSendFails, WsSent,
       WsDestroy, WsNotOpen, OnUnderlyingWsOpenComplete, OnUnderlyingWsFrameReceived,
       OnUnderlyingWsPeerClosed, OnUnderlyingWsError, OnUnderlyingWsCloseComplete,
       OnUnderlyingWsSendFrameComplete
  <2>2. QED
    BY <2>1 DEF DestroyClient, CloseWith, clientRest, history, opening
<1>4. QED
  BY <1>1, <1>2, <1>3 DEF WsFrames, WsReports, WsUnderlyingError, ClientSteps

LEMMA InitFirst == ASSUME WsInit PROVE First
BY DEF WsInit, Init, First

LEMMA NextFirst == ASSUME WsCore, WsCore', First, [WsNext]_allVars PROVE First'
<1>1. CASE WsioOpen
  BY <1>1, OpenFirst
<1>2. CASE WsioClose \/ WsioSend \/ WsioDestroy \/ WsFrames \/ WsReports \/ WsUnderlyingError
  <2>1. CASE opens = 0
    BY <1>2, <2>1, UnopenedFirst
  <2>2. CASE opens = 1
    <3>1. CASE WsioClose \/ WsioSend \/ WsioDestroy
      BY <2>2, <3>1, CallsFirst, SendFirst
    <3>2. CASE WsFrames
      BY <2>2, <3>2, FramesFirst
    <3>3. CASE WsReports \/ WsUnderlyingError
      BY <2>2, <3>3, ClientFirst DEF WsReports, WsUnderlyingError, ClientSteps, Pumps
    <3>4. QED
      BY <1>2, <3>1, <3>2, <3>3
  <2>3. CASE opens \notin {0, 1}
    BY <1>2, <2>3, OpensStay, LaterFirst
  <2>4. QED
    BY <2>1, <2>2, <2>3
<1>3. CASE UNCHANGED allVars
  <2>1. UNCHANGED vars /\ UNCHANGED wsVars
    BY <1>3 DEF allVars
  <2>2. UNCHANGED <<stack, uws_state, pending_sends, opens, reopened, sends, accepted, answers,
                    asked, io_state, pending_io_list, freed>>
    BY <2>1 DEF vars, clientVars, history, opening, sendHistory, wsVars, wsState
  <2>3. QED
    BY <2>2 DEF First, Opened1, Used, Kept, Over, Low
<1>4. QED
  BY <1>1, <1>2, <1>3 DEF WsNext

(* A send is completed once at most, the list holds between calls what is   *)
(* accepted and not completed, and no completion of the first connection    *)
(* reaches an item that was freed.  wsio_send, complete_send_item, and the  *)
(* cancels of wsio_close, whatever the client completes at that time.       *)
THEOREM WsioAccountsForSends == WsSpec => []WsSendsAccounted
<1>1. ASSUME WsCore, First PROVE WsSendsAccounted
  <2>1. /\ \A s \in 1 .. Sends : told[s] <= 1
        /\ opens = 1 => freed \notin accepted
    BY <1>1 DEF WsCore, WsAccounts, First, Opened1
  <2>2. ASSUME stack = <<>> PROVE ToSet(pending_io_list) = {s \in ioAccepted : told[s] = 0}
    <3>1. WsSends(stack) = {}
      BY <2>2, EmptyStack DEF WsSends
    <3>2. /\ ToSet(pending_io_list) \subseteq 1 .. sends /\ sends \in 0 .. Sends
          /\ ioAccepted \subseteq 1 .. Sends /\ ioAccepted \subseteq accepted
      BY <1>1 DEF WsCore, WsAccounts, WsTypes, Whole, Core, IInv, Types
    <3>3. ToSet(pending_io_list) \subseteq 1 .. Sends
      BY <3>2, UwsAssumption
    <3>4. \A s \in 1 .. Sends :
            /\ s \in ToSet(pending_io_list) => told[s] = 0 /\ s \in ioAccepted
            /\ s \in accepted /\ told[s] = 0 => s \in ToSet(pending_io_list)
      BY <1>1, <3>1 DEF WsCore, WsAccounts
    <3>5. QED
      BY <3>2, <3>3, <3>4
  <2>3. QED
    BY <2>1, <2>2 DEF WsSendsAccounted
<1>2. QED
  BY <1>1, InitWsCore, NextWsCore, InitFirst, NextFirst, PTL DEF WsSpec

================================================================================
