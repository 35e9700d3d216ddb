---------------------------- MODULE UwsClientProofs ---------------------------
(***************************************************************************)
(* Proofs about the websocket client, for any io, any reply of the server  *)
(* and any number of opens and sends.                                      *)
(***************************************************************************)
EXTENDS WsIo, DataLemmas

-------------------------------------------------------------------------------
(* The stack.  The reports of the io run at once; the decoder, and          *)
(* wsio_destroy, run on an empty stack, and what the decoder consumes is    *)
(* consumed before it goes on.                                              *)
AllOps == ClientOps \cup UserOps
Evs == Events \cup {"none", "OK", "ERROR", "CANCELLED"}
FrameSet == [op : AllOps, ev : Evs, n : Nat]
AtOnce == {"opened", "closed", "sent", "closeSent"}

Has(s, o) == \E f \in ToSet(s) : f.op = o
NoReport(s) == \A f \in ToSet(s) : f.op \notin AtOnce

Stacked(s) ==
  /\ s \in Seq(FrameSet)
  /\ \A i \in DOMAIN s :
       /\ s[i].op \in AtOnce => i = 1
       /\ s[i].op \in {"decode", "masked", "wsDestroy"} => i = Len(s)
       /\ s[i].op = "consume" => i = Len(s) \/ (i + 1 = Len(s) /\ s[Len(s)].op = "decode")

(* A frame that may be put on s.                                            *)
Fits(f, s) ==
  /\ f \in FrameSet /\ NoReport(s)
  /\ f.op \in {"decode", "masked", "wsDestroy"} => s = <<>>
  /\ f.op = "consume" => s = <<>> \/ (Len(s) = 1 /\ s[1].op = "decode")

LEMMA PushOne ==
  ASSUME NEW s \in Seq(FrameSet), NEW f \in FrameSet
  PROVE  /\ <<f>> \o s \in Seq(FrameSet) /\ Len(<<f>> \o s) = Len(s) + 1
         /\ (<<f>> \o s)[1] = f /\ \A i \in 1 .. Len(s) : (<<f>> \o s)[i + 1] = s[i]
         /\ Tail(<<f>> \o s) = s /\ <<f>> \o s # <<>>
<1>1. <<f>> \in Seq(FrameSet) /\ Len(<<f>>) = 1 /\ <<f>>[1] = f
  OBVIOUS
<1>2. QED
  BY <1>1

LEMMA SetPush ==
  ASSUME NEW s \in Seq(FrameSet), NEW f \in FrameSet
  PROVE  ToSet(<<f>> \o s) = {f} \cup ToSet(s)
<1> DEFINE t == <<f>> \o s
<1>1. /\ t \in Seq(FrameSet) /\ Len(t) = Len(s) + 1 /\ t[1] = f
      /\ \A i \in 1 .. Len(s) : t[i + 1] = s[i]
  BY PushOne
<1> HIDE DEF t
<1>2. DOMAIN t = 1 .. Len(s) + 1 /\ DOMAIN s = 1 .. Len(s) /\ Len(s) \in Nat
  BY <1>1
<1>3. ASSUME NEW x \in ToSet(t) PROVE x = f \/ x \in ToSet(s)
  <2>1. PICK i \in 1 .. Len(s) + 1 : x = t[i]
    BY <1>2, <1>3 DEF ToSet
  <2>2. CASE i # 1
    <3>1. i - 1 \in 1 .. Len(s) /\ (i - 1) + 1 = i
      BY <1>2, <2>2
    <3>2. x = s[i - 1]
      BY <1>1, <2>1, <3>1
    <3>3. QED
      BY <1>2, <3>1, <3>2 DEF ToSet
  <2>3. QED
    BY <1>1, <2>1, <2>2
<1>4. f \in ToSet(t)
  <2>1. 1 \in DOMAIN t
    BY <1>2
  <2>2. QED
    BY <1>1, <2>1 DEF ToSet
<1>5. ASSUME NEW x \in ToSet(s) PROVE x \in ToSet(t)
  <2>1. PICK i \in 1 .. Len(s) : x = s[i]
    BY <1>2, <1>5 DEF ToSet
  <2>2. i + 1 \in DOMAIN t /\ t[i + 1] = x
    BY <1>1, <1>2, <2>1
  <2>3. QED
    BY <2>2 DEF ToSet
<1>6. QED
  BY <1>3, <1>4, <1>5 DEF t

LEMMA StackedPush ==
  ASSUME NEW s, Stacked(s), NEW f, Fits(f, s)
  PROVE  /\ Stacked(<<f>> \o s) /\ ToSet(<<f>> \o s) = {f} \cup ToSet(s)
         /\ (<<f>> \o s)[1] = f /\ <<f>> \o s # <<>> /\ Tail(<<f>> \o s) = s
         /\ Len(<<f>> \o s) = Len(s) + 1
<1> DEFINE t == <<f>> \o s
<1>0. s \in Seq(FrameSet) /\ f \in FrameSet
  BY DEF Stacked, Fits
<1>1. /\ t \in Seq(FrameSet) /\ Len(t) = Len(s) + 1 /\ t[1] = f /\ t # <<>> /\ Tail(t) = s
      /\ \A i \in 1 .. Len(s) : t[i + 1] = s[i]
  BY <1>0, PushOne
<1>a. ToSet(t) = {f} \cup ToSet(s)
  BY <1>0, SetPush
<1> HIDE DEF t
<1>2. DOMAIN t = 1 .. Len(s) + 1 /\ DOMAIN s = 1 .. Len(s) /\ Len(s) \in Nat
  BY <1>0, <1>1
<1>3. s = <<>> <=> Len(s) = 0
  BY <1>0, EmptySeq
<1>4. ASSUME NEW i \in DOMAIN t
      PROVE  /\ t[i].op \in AtOnce => i = 1
             /\ t[i].op \in {"decode", "masked", "wsDestroy"} => i = Len(t)
             /\ t[i].op = "consume" =>
                  i = Len(t) \/ (i + 1 = Len(t) /\ t[Len(t)].op = "decode")
  <2>1. CASE i = 1
    <3>1. Len(s) # 0 => t[2] = s[1]
      BY <1>1, <1>2
    <3>2. QED
      BY <1>1, <1>2, <1>3, <2>1, <3>1 DEF Fits
  <2>2. CASE i # 1
    <3>1. PICK j \in 1 .. Len(s) : i = j + 1
      <4>1. i - 1 \in 1 .. Len(s) /\ i = (i - 1) + 1
        BY <1>2, <2>2
      <4>2. QED
        BY <4>1
    <3>2. t[i] = s[j]
      BY <1>1, <3>1
    <3>a. j \in DOMAIN s /\ s[j] \in ToSet(s)
      BY <1>2 DEF ToSet
    <3>3. s[j].op \notin AtOnce
      BY <3>a DEF Fits, NoReport
    <3>4. s[j].op \in {"decode", "masked", "wsDestroy"} => j = Len(s)
      BY <3>a DEF Stacked
    <3>5. s[j].op = "consume" => j = Len(s) \/ (j + 1 = Len(s) /\ s[Len(s)].op = "decode")
      BY <3>a, Zenon DEF Stacked
    <3>6. t[Len(t)] = s[Len(s)]
      BY <1>1, <1>2
    <3>7. QED
      BY <1>1, <1>2, <3>1, <3>2, <3>3, <3>4, <3>5, <3>6
  <2>3. QED
    BY <2>1, <2>2
<1>5. Stacked(t)
  BY <1>1, <1>4 DEF Stacked
<1>6. QED
  BY <1>1, <1>5, <1>a DEF t

LEMMA StackedPop ==
  ASSUME NEW s, Stacked(s), s # <<>>
  PROVE  /\ Stacked(Tail(s)) /\ s[1] \in FrameSet /\ NoReport(Tail(s))
         /\ ToSet(s) = {s[1]} \cup ToSet(Tail(s))
         /\ s[1].op \in {"decode", "masked", "wsDestroy"} => Tail(s) = <<>>
         /\ s[1].op = "consume" =>
              Tail(s) = <<>> \/ (Len(Tail(s)) = 1 /\ Tail(s)[1].op = "decode")
<1> DEFINE t == Tail(s)
<1>0. s \in Seq(FrameSet) /\ Len(s) \in Nat /\ Len(s) # 0 /\ DOMAIN s = 1 .. Len(s)
  BY EmptySeq DEF Stacked
<1>1. /\ t \in Seq(FrameSet) /\ Len(t) = Len(s) - 1 /\ DOMAIN t = 1 .. Len(s) - 1
      /\ \A i \in 1 .. Len(s) - 1 : t[i] = s[i + 1]
  <2>1. t \in Seq(FrameSet) /\ Len(t) = Len(s) - 1 /\ \A i \in 1 .. Len(t) : t[i] = s[i + 1]
    BY <1>0, HeadTailProperties
  <2>2. QED
    BY <2>1
<1>2. s = <<s[1]>> \o t
  BY <1>0
<1> HIDE DEF t
<1>3. 1 \in DOMAIN s /\ s[1] \in FrameSet
  BY <1>0
<1>4. ToSet(s) = {s[1]} \cup ToSet(t)
  <2>1. ToSet(<<s[1]>> \o t) = {s[1]} \cup ToSet(t)
    BY <1>1, <1>3, SetPush
  <2>2. QED
    BY <1>2, <2>1
<1>5. \A i \in 1 .. Len(s) - 1 : i + 1 \in 1 .. Len(s) /\ i + 1 # 1
  BY <1>0
<1>6. t = <<>> <=> Len(s) = 1
  BY <1>0, <1>1, EmptySeq
<1>7. \A i \in DOMAIN s :
       /\ s[i].op \in AtOnce => i = 1
       /\ s[i].op \in {"decode", "masked", "wsDestroy"} => i = Len(s)
       /\ s[i].op = "consume" => i = Len(s) \/ (i + 1 = Len(s) /\ s[Len(s)].op = "decode")
  BY DEF Stacked
<1>8. ASSUME NEW i \in DOMAIN t
      PROVE  /\ t[i].op \notin AtOnce
             /\ t[i].op \in {"decode", "masked", "wsDestroy"} => i = Len(t)
             /\ t[i].op = "consume" =>
                  i = Len(t) \/ (i + 1 = Len(t) /\ t[Len(t)].op = "decode")
  <2>1. i \in 1 .. Len(s) - 1 /\ t[i] = s[i + 1] /\ i + 1 \in DOMAIN s /\ i + 1 # 1
    BY <1>0, <1>1, <1>5
  <2>2. t[Len(t)] = s[Len(s)]
    <3>1. Len(s) - 1 \in 1 .. Len(s) - 1 /\ (Len(s) - 1) + 1 = Len(s)
      BY <1>0, <2>1
    <3>2. QED
      BY <1>1, <3>1
  <2>3. QED
    BY <1>0, <1>1, <1>7, <2>1, <2>2
<1>9. NoReport(t)
  <2>1. ASSUME NEW f \in ToSet(t) PROVE f.op \notin AtOnce
    <3>1. PICK i \in DOMAIN t : f = t[i]
      BY <2>1 DEF ToSet
    <3>2. QED
      BY <1>8, <3>1
  <2>2. QED
    BY <2>1 DEF NoReport
<1>10. Stacked(t)
  BY <1>1, <1>8 DEF Stacked
<1>11. /\ s[1].op \in {"decode", "masked", "wsDestroy"} => t = <<>>
       /\ s[1].op = "consume" => t = <<>> \/ (Len(t) = 1 /\ t[1].op = "decode")
  <2>1. Len(s) = 1 \/ t[1] = s[2]
    BY <1>0, <1>1
  <2>2. QED
    BY <1>0, <1>1, <1>6, <1>7, <1>3, <2>1
<1>12. QED
  BY <1>3, <1>4, <1>9, <1>10, <1>11 DEF t

LEMMA EmptyStack == Stacked(<<>>) /\ ToSet(<<>>) = {} /\ NoReport(<<>>)
BY DEF Stacked, ToSet, NoReport

LEMMA Appended ==
  ASSUME NEW a \in Seq(FrameSet), NEW b \in Seq(FrameSet), NEW c \in Seq(FrameSet)
  PROVE  /\ (a \o b) \o c = a \o (b \o c) /\ a \o b \in Seq(FrameSet)
         /\ <<>> \o a = a /\ a \o <<>> = a
<1>1. (a \o b) \o c = a \o (b \o c)
  OBVIOUS
<1>2. QED
  BY <1>1

(* t is s with the frame f on top.                                          *)
Pushed(t, f, s) ==
  /\ Stacked(t) /\ t # <<>> /\ t[1] = f /\ Tail(t) = s /\ ToSet(t) = {f} \cup ToSet(s)
  /\ f.op \notin AtOnce => NoReport(t)

UserFrame(ev) == [op |-> "user", ev |-> ev, n |-> 0]
CallFrame(o) == [op |-> o, ev |-> "none", n |-> 0]
Anywhere == AllOps \ {"decode", "masked", "consume", "wsDestroy"}

LEMMA Put ==
  ASSUME NEW s, Stacked(s), NoReport(s), NEW o \in Anywhere, NEW ev \in Evs, NEW n \in Nat
  PROVE  Pushed(Frame(o, ev, n) \o s, [op |-> o, ev |-> ev, n |-> n], s)
<1> DEFINE f == [op |-> o, ev |-> ev, n |-> n]
<1>1. Fits(f, s) /\ f.op = o
  BY DEF Fits, FrameSet, Anywhere, Evs
<1> HIDE DEF f
<1>2. /\ Stacked(<<f>> \o s) /\ ToSet(<<f>> \o s) = {f} \cup ToSet(s)
      /\ (<<f>> \o s)[1] = f /\ <<f>> \o s # <<>> /\ Tail(<<f>> \o s) = s
  BY <1>1, StackedPush
<1>3. f.op \notin AtOnce => NoReport(<<f>> \o s)
  BY <1>1, <1>2 DEF NoReport
<1>4. QED
  BY <1>2, <1>3 DEF Frame, Pushed, f

LEMMA PutUser ==
  ASSUME NEW s, Stacked(s), NoReport(s), NEW ev \in Events
  PROVE  Pushed(User(ev) \o s, UserFrame(ev), s) /\ NoReport(User(ev) \o s)
BY Put, UserOpsAssumption DEF User, UserFrame, AtOnce, Pushed, Anywhere, AllOps, ClientOps, Evs

LEMMA PutCall ==
  ASSUME NEW s, Stacked(s), NoReport(s), NEW o \in Anywhere
  PROVE  /\ Pushed(Call(o) \o s, CallFrame(o), s)
         /\ o \notin AtOnce => NoReport(Call(o) \o s)
<1>1. Pushed(Call(o) \o s, CallFrame(o), s)
  BY Put DEF Call, CallFrame, Evs
<1>2. QED
  BY <1>1 DEF Pushed, CallFrame

(* What a call of the io may report before it returns.                      *)
Reported(c) ==
  \/ c = <<>>
  \/ \E f \in FrameSet : f.op \in AtOnce /\ c = <<f>>
  \/ c = Opened("CANCELLED") \o Call("tlsCloses")

LEMMA PutReported ==
  ASSUME NEW s, Stacked(s), NoReport(s), NEW c, Reported(c)
  PROVE  /\ Stacked(c \o s) /\ c \in Seq(FrameSet)
         /\ ToSet(c \o s) = ToSet(c) \cup ToSet(s)
         /\ c = <<>> => c \o s = s
         /\ c # <<>> => c \o s # <<>> /\ (c \o s)[1] = c[1] /\ c[1].op \in AtOnce
<1>0. s \in Seq(FrameSet)
  BY DEF Stacked
<1>1. CASE c = <<>>
  <2>1. c \o s = s /\ c \in Seq(FrameSet) /\ ToSet(c) = {}
    BY <1>0, <1>1 DEF ToSet
  <2>2. QED
    BY <1>1, <2>1
<1>2. CASE \E f \in FrameSet : f.op \in AtOnce /\ c = <<f>>
  <2>1. PICK f \in FrameSet : f.op \in AtOnce /\ c = <<f>>
    BY <1>2
  <2>2. Fits(f, s)
    BY <2>1 DEF Fits, AtOnce
  <2>3. /\ Stacked(<<f>> \o s) /\ ToSet(<<f>> \o s) = {f} \cup ToSet(s)
        /\ (<<f>> \o s)[1] = f /\ <<f>> \o s # <<>>
    BY <2>2, StackedPush
  <2>4. ToSet(<<f>>) = {f} /\ <<f>>[1] = f /\ <<f>> # <<>> /\ <<f>> \in Seq(FrameSet)
    BY DEF ToSet
  <2>5. QED
    BY <2>1, <2>3, <2>4
<1>3. CASE c = Opened("CANCELLED") \o Call("tlsCloses")
  <2> DEFINE f == [op |-> "opened", ev |-> "CANCELLED", n |-> 0]
             g == [op |-> "tlsCloses", ev |-> "none", n |-> 0]
  <2>1. f \in FrameSet /\ g \in FrameSet /\ f.op = "opened" /\ g.op = "tlsCloses"
    BY DEF FrameSet, AllOps, ClientOps, Evs
  <2>2. c = <<f>> \o <<g>>
    BY <1>3 DEF Opened, Call, Frame
  <2> HIDE DEF f, g
  <2>3. Fits(g, s)
    BY <2>1 DEF Fits
  <2>4. Stacked(<<g>> \o s) /\ ToSet(<<g>> \o s) = {g} \cup ToSet(s)
    BY <2>3, StackedPush
  <2>5. Fits(f, <<g>> \o s)
    BY <2>1, <2>4 DEF Fits, NoReport, AtOnce
  <2>6. /\ Stacked(<<f>> \o (<<g>> \o s)) /\ (<<f>> \o (<<g>> \o s))[1] = f
        /\ ToSet(<<f>> \o (<<g>> \o s)) = {f} \cup ({g} \cup ToSet(s))
        /\ <<f>> \o (<<g>> \o s) # <<>>
    BY <2>4, <2>5, StackedPush
  <2>7. <<f>> \in Seq(FrameSet) /\ <<g>> \in Seq(FrameSet)
    BY <2>1
  <2>8. c \o s = <<f>> \o (<<g>> \o s) /\ c \in Seq(FrameSet)
    BY <1>0, <2>2, <2>7, Appended
  <2>9. ToSet(c) = {f} \cup {g} /\ c[1] = f /\ c # <<>>
    <3>1. ToSet(<<g>>) = {g}
      BY DEF ToSet
    <3>2. ToSet(<<f>> \o <<g>>) = {f} \cup ToSet(<<g>>)
      BY <2>1, <2>7, SetPush
    <3>3. (<<f>> \o <<g>>)[1] = f /\ <<f>> \o <<g>> # <<>>
      BY <2>1, <2>7, PushOne
    <3>4. QED
      BY <2>2, <3>1, <3>2, <3>3
  <2>10. QED
    BY <2>1, <2>6, <2>8, <2>9 DEF AtOnce
<1>4. QED
  BY <1>1, <1>2, <1>3 DEF Reported

LEMMA ReportedOps ==
  ASSUME NEW c, Reported(c)
  PROVE  \A f \in ToSet(c) : f.op \in AtOnce \cup {"tlsCloses"}
<1>1. CASE c = <<>>
  BY <1>1, EmptyStack
<1>2. CASE \E f \in FrameSet : f.op \in AtOnce /\ c = <<f>>
  BY <1>2 DEF ToSet
<1>3. CASE c = Opened("CANCELLED") \o Call("tlsCloses")
  <2> DEFINE t == Call("tlsCloses")
             f == [op |-> "opened", ev |-> "CANCELLED", n |-> 0]
  <2>1. t = t \o <<>>
    BY DEF Call, Frame
  <2>2. Pushed(t, CallFrame("tlsCloses"), <<>>) /\ NoReport(t)
    <3>1. Pushed(t \o <<>>, CallFrame("tlsCloses"), <<>>) /\ NoReport(t \o <<>>)
      BY PutCall, EmptyStack DEF Anywhere, AllOps, ClientOps, AtOnce
    <3> HIDE DEF t
    <3>2. QED
      BY <2>1, <3>1
  <2> HIDE DEF t
  <2>3. Pushed(Frame("opened", "CANCELLED", 0) \o t, f, t)
    BY <2>2, Put DEF Pushed, Anywhere, AllOps, ClientOps, Evs
  <2>4. ToSet(c) = {f} \cup ({CallFrame("tlsCloses")} \cup {})
    BY <1>3, <2>2, <2>3, EmptyStack DEF Pushed, Opened, t
  <2>5. QED
    BY <2>4 DEF AtOnce, CallFrame
<1>4. QED
  BY <1>1, <1>2, <1>3 DEF Reported

LEMMA DecodeAlone ==
  /\ Stacked(Call("decode")) /\ NoReport(Call("decode"))
  /\ ToSet(Call("decode")) = {CallFrame("decode")}
  /\ Len(Call("decode")) = 1 /\ Call("decode")[1].op = "decode" /\ Call("decode") # <<>>
<1> DEFINE f == CallFrame("decode")
<1>1. f \in FrameSet /\ f.op = "decode"
  BY DEF FrameSet, AllOps, ClientOps, CallFrame, Evs
<1> HIDE DEF f
<1>2. Fits(f, <<>>)
  BY <1>1, EmptyStack DEF Fits
<1>3. <<f>> = <<f>> \o <<>>
  BY <1>1
<1>4. Stacked(<<f>>) /\ ToSet(<<f>>) = {f} /\ <<f>>[1] = f /\ Len(<<f>>) = 1 /\ <<f>> # <<>>
  BY <1>1, <1>2, <1>3, EmptyStack, StackedPush
<1>5. NoReport(<<f>>)
  BY <1>1, <1>4 DEF NoReport, AtOnce
<1>6. QED
  BY <1>1, <1>4, <1>5 DEF f, Call, Frame, CallFrame

-------------------------------------------------------------------------------
(* The inductive invariant: the types; the sends of the list and of the     *)
(* calls that are to remove theirs; and, as long as no callback has opened  *)
(* the client, the answer to the open.                                      *)
Types ==
  /\ uws_state \in {"CLOSED", "OPENING_UNDERLYING_IO", "WAITING_FOR_UPGRADE_RESPONSE", "OPEN",
                    "CLOSING_WAITING_FOR_CLOSE", "CLOSING_SENDING_CLOSE",
                    "CLOSING_UNDERLYING_IO", "ERROR"}
  /\ received \in Seq(Piece) /\ inbound \in Seq(Piece)
  /\ pending_sends \in Seq(1 .. Sends) /\ unsent \in Seq(0 .. Sends)
  /\ fault \in {"none", "underflow", "dangling", "recursion"}
  /\ io \in Ios /\ under \in {"closed", "opening", "open", "failed"} /\ lost \in BOOLEAN
  /\ on_ws_close_complete \in BOOLEAN /\ asked \in {"no", "close", "handshake"}
  /\ nonceFailed \in BOOLEAN /\ reopened \in BOOLEAN
  /\ opens \in 0 .. MaxOpens /\ sends \in 0 .. Sends /\ noticed \in Nat
  /\ answers \in Seq({"OK", "ERROR"}) /\ reply \in Seq(AllKinds \cup {"101", "other"})
  /\ delivered \in Seq(Nat) /\ accepted \subseteq 1 .. Sends /\ done \in [1 .. Sends -> Nat]

Fails(s) == {f \in ToSet(s) : f.op = "sendFails"}
Distinct(q) == \A i, j \in DOMAIN q : q[i] = q[j] => i = j

Accounts ==
  /\ Distinct(pending_sends)
  /\ ToSet(pending_sends) \subseteq 1 .. sends /\ accepted \subseteq 1 .. sends
  /\ \A s \in 1 .. Sends :
       /\ done[s] <= 1
       /\ s \in ToSet(pending_sends) \/ s > sends => done[s] = 0
       /\ s \in accepted /\ done[s] = 0 => s \in ToSet(pending_sends)
       /\ s \in ToSet(pending_sends) /\ s \notin accepted =>
            \E f \in Fails(stack) : f.n = s
  /\ \A f \in Fails(stack) : f.n \in 1 .. sends /\ f.n \notin accepted

Decoding(s) == Has(s, "decode") \/ Has(s, "masked")
OnTop(s, o) == s # <<>> /\ s[1].op = o
Pending == {"OPENING_UNDERLYING_IO", "WAITING_FOR_UPGRADE_RESPONSE"}

(* What an open that is pending, and what the stack has still to do about   *)
(* it, leave unanswered.                                                    *)
AnswersFit ==
  /\ \/ uws_state \in Pending \/ under = "opening"
     \/ OnTop(stack, "opened") \/ OnTop(stack, "openError")
     => answers = <<>>
  /\ Has(stack, "openError") => stack[1].op = "openError" /\ under = "closed"
                                /\ ~Has(Rest, "openError")
  /\ OnTop(stack, "opened") /\ under = "opening" =>
       io = "tls" /\ uws_state # "OPENING_UNDERLYING_IO"
  /\ Has(stack, "tlsCloses") => OnTop(stack, "opened") /\ under = "opening"
  /\ uws_state = "OPENING_UNDERLYING_IO" => ~Decoding(stack)
  /\ uws_state = "WAITING_FOR_UPGRADE_RESPONSE" =>
       under = "open" \/ OnTop(stack, "openError")
  /\ \A f \in ToSet(stack) : f.op = "consume" => f.n <= Len(received)

Norm == fault = "none" /\ ~reopened
IInv == /\ Types /\ Stacked(stack) /\ Accounts
        /\ Norm => AnswersFit
        /\ ~reopened => Len(answers) <= 1 /\ fault # "underflow"

-------------------------------------------------------------------------------
(* What a close of the io may report and leave.                             *)
LEMMA XioCloses ==
  ASSUME Types, NEW callback \in BOOLEAN
  PROVE  LET o == XioClose(callback) IN
         /\ Reported(o.calls) /\ o.ok \in BOOLEAN
         /\ o.under \in {"closed", "opening"}
         /\ under # "opening" =>
              /\ o.under = "closed"
              /\ o.calls = <<>> \/ (callback /\ o.calls = Call("closed"))
         /\ under = "opening" =>
              /\ o.ok
              /\ o.under = "opening" <=> io = "tls"
              /\ o.calls \in {<<>>, Call("closed"), Opened("CANCELLED"),
                               Opened("CANCELLED") \o Call("tlsCloses")}
              /\ io = "tls" => o.calls = Opened("CANCELLED") \o Call("tlsCloses")
<1> DEFINE o == XioClose(callback)
           c == Call("closed")
           d == Opened("CANCELLED")
           e == d \o Call("tlsCloses")
<1>1. io \in {"socket", "tls", "proxy"} /\ under \in {"closed", "opening", "open", "failed"}
  BY UwsAssumption DEF Types
<1>2. Reported(<<>>) /\ Reported(c) /\ Reported(d) /\ Reported(e)
  <2>1. /\ [op |-> "closed", ev |-> "none", n |-> 0] \in FrameSet
        /\ [op |-> "opened", ev |-> "CANCELLED", n |-> 0] \in FrameSet
    BY DEF FrameSet, AllOps, ClientOps, Evs
  <2>2. QED
    BY <2>1 DEF Reported, Call, Opened, Frame, AtOnce
<1> HIDE DEF c, d, e
<1>5. CASE io = "socket"
  <2>1. o = Outcome(TRUE, "closed", IF callback THEN c ELSE <<>>)
    BY <1>5 DEF XioClose, c
  <2>2. o.ok /\ o.under = "closed" /\ o.calls = IF callback THEN c ELSE <<>>
    BY <2>1 DEF Outcome
  <2> HIDE DEF o
  <2>3. QED
    BY <1>1, <1>2, <1>5, <2>2 DEF o, c, d, e
<1>6. CASE io = "tls" /\ under = "opening"
  <2>1. o = Outcome(TRUE, "opening", e)
    BY <1>6 DEF XioClose, d, e
  <2>2. o.ok /\ o.under = "opening" /\ o.calls = e
    BY <2>1 DEF Outcome
  <2> HIDE DEF o
  <2>3. QED
    BY <1>1, <1>2, <1>6, <2>2 DEF o, c, d, e
<1>7. CASE io = "tls" /\ under # "opening"
  <2>1. o = Outcome(TRUE, "closed", IF under = "open" THEN (IF callback THEN c ELSE <<>>)
                                                       ELSE <<>>)
    BY <1>7 DEF XioClose, c
  <2>2. o.ok /\ o.under = "closed" /\ o.calls \in {<<>>, IF callback THEN c ELSE <<>>}
    BY <2>1 DEF Outcome
  <2> HIDE DEF o
  <2>3. QED
    BY <1>1, <1>2, <1>7, <2>2 DEF o, c, d, e
<1>8. CASE io = "proxy"
  <2>1. CASE under = "opening"
    <3>1. o = Outcome(TRUE, "closed", d)
      BY <1>8, <2>1 DEF XioClose, d
    <3>2. o.ok /\ o.under = "closed" /\ o.calls = d
      BY <3>1 DEF Outcome
    <3> HIDE DEF o
    <3>3. QED
      BY <1>1, <1>2, <1>8, <2>1, <3>2 DEF o, c, d, e
  <2>2. CASE under = "closed"
    <3>1. o = Outcome(FALSE, under, <<>>)
      BY <1>8, <2>2 DEF XioClose
    <3>2. o.ok = FALSE /\ o.under = "closed" /\ o.calls = <<>>
      BY <2>2, <3>1 DEF Outcome
    <3> HIDE DEF o
    <3>3. QED
      BY <1>1, <1>2, <1>8, <2>2, <3>2 DEF o, c, d, e
  <2>3. CASE under \notin {"opening", "closed"}
    <3>1. o = Outcome(TRUE, "closed", IF callback THEN c ELSE <<>>)
      BY <1>8, <2>3 DEF XioClose, c
    <3>2. o.ok /\ o.under = "closed" /\ o.calls = IF callback THEN c ELSE <<>>
      BY <3>1 DEF Outcome
    <3> HIDE DEF o
    <3>3. QED
      BY <1>1, <1>2, <1>8, <2>3, <3>2 DEF o, c, d, e
  <2>4. QED
    BY <2>1, <2>2, <2>3
<1>9. QED
  BY <1>1, <1>5, <1>6, <1>7, <1>8
-------------------------------------------------------------------------------
LEMMA AccountsStay ==
  ASSUME Accounts, UNCHANGED <<pending_sends, accepted, done, sends>>,
         Fails(stack') = Fails(stack)
  PROVE  Accounts'
<1> DEFINE T == ToSet(pending_sends)
<1>1. T' = T /\ Distinct(pending_sends)' /\ Fails(stack)' = Fails(stack)
  BY DEF Accounts
<1> HIDE DEF T
<1>2. QED
  BY <1>1 DEF Accounts, T

(* A stack of which nothing concerns the open.                              *)
Quiet(s) == \A f \in ToSet(s) : f.op \notin {"openError", "tlsCloses", "opened"}
Consumes(s) == \A f \in ToSet(s) : f.op = "consume" => f.n <= Len(received)

LEMMA QuietStack ==
  ASSUME Stacked(stack), AnswersFit, ~OnTop(stack, "opened"), ~OnTop(stack, "openError")
  PROVE  Quiet(stack) /\ Consumes(stack)
<1>1. ~Has(stack, "tlsCloses")
  BY DEF AnswersFit
<1>2. ~Has(stack, "openError")
  <2>1. Has(stack, "openError") => stack # <<>>
    BY EmptyStack DEF Has
  <2>2. QED
    BY <2>1 DEF AnswersFit, OnTop
<1>3. ~Has(stack, "opened")
  <2>1. CASE stack = <<>>
    BY <2>1, EmptyStack DEF Has
  <2>2. CASE stack # <<>>
    BY <2>2, StackedPop DEF Has, OnTop, NoReport, AtOnce
  <2>3. QED
    BY <2>1, <2>2
<1>4. QED
  BY <1>1, <1>2, <1>3 DEF Quiet, Consumes, Has, AnswersFit

LEMMA AnswersStay ==
  ASSUME Stacked(stack'), Quiet(stack'), Consumes(stack)',
         uws_state' \in Pending \/ under' = "opening" => answers' = <<>>,
         uws_state' = "OPENING_UNDERLYING_IO" => ~Decoding(stack'),
         uws_state' = "WAITING_FOR_UPGRADE_RESPONSE" => under' = "open"
  PROVE  AnswersFit'
<1>1. ~Has(stack', "openError") /\ ~Has(stack', "tlsCloses")
  BY DEF Quiet, Has
<1>2. ~OnTop(stack', "opened") /\ ~OnTop(stack', "openError")
  <2>1. stack' # <<>> => stack'[1] \in ToSet(stack')
    BY StackedPop
  <2>2. QED
    BY <2>1 DEF Quiet, OnTop
<1>3. QED
  BY <1>1, <1>2 DEF AnswersFit, Consumes

(* One step: what it leaves of the types, the sends and the open.           *)
LEMMA StepIInv ==
  ASSUME IInv, fault = "none", reopened => reopened', Types', Stacked(stack'), Accounts',
         ~reopened' /\ AnswersFit =>
           /\ fault' = "none" => AnswersFit'
           /\ Len(answers') <= 1 /\ fault' # "underflow"
  PROVE  IInv'
<1>1. reopened \in BOOLEAN /\ reopened' \in BOOLEAN
  BY DEF IInv, Types
<1>2. ASSUME ~reopened' PROVE AnswersFit
  BY <1>1, <1>2 DEF IInv, Norm
<1>3. QED
  BY <1>2 DEF IInv, Norm

(* The call on top returns, and nothing but the state of the client changes.*)
LEMMA ReturnsIInv ==
  ASSUME IInv, Alive, stack # <<>>, stack' = Rest, Types',
         stack[1].op \notin {"opened", "openError", "sendFails"},
         UNCHANGED <<received, pending_sends, fault, under, sendHistory, answers, reopened>>,
         uws_state' = uws_state \/ uws_state' \notin Pending
  PROVE  IInv'
<1>1. /\ Stacked(stack') /\ ToSet(stack) = {stack[1]} \cup ToSet(stack')
      /\ NoReport(stack')
  BY StackedPop DEF IInv, Rest
<1>2. Fails(stack') = Fails(stack)
  BY <1>1 DEF Fails
<1>3. Accounts'
  BY <1>2, AccountsStay DEF IInv, sendHistory
<1>4. ASSUME ~reopened', AnswersFit PROVE AnswersFit'
  <2>1. Quiet(stack) /\ Consumes(stack)
    BY <1>4, QuietStack DEF IInv, OnTop
  <2>2. Quiet(stack') /\ Consumes(stack)'
    BY <1>1, <2>1 DEF Quiet, Consumes
  <2>3. ~OnTop(stack, "openError")
    BY DEF OnTop
  <2>4. Decoding(stack') => Decoding(stack)
    BY <1>1 DEF Has, Decoding
  <2>5. QED
    BY <1>1, <1>4, <2>2, <2>3, <2>4, AnswersStay DEF AnswersFit, Pending
<1>5. QED
  BY <1>1, <1>3, <1>4, StepIInv DEF IInv, Alive

LEMMA UserReturnsIInv == ASSUME IInv, Running, UserReturns PROVE IInv'
<1>1. Types'
  BY DEF IInv, Types, UserReturns, clientVars, ioVars, ioQueue, history, opening, sendHistory
<1>2. QED
  BY <1>1, ReturnsIInv
     DEF UserReturns, Running, Top, clientVars, ioVars, history, opening, sendHistory

LEMMA OpenFailsIInv == ASSUME IInv, Running, OpenFails PROVE IInv'
<1>1. Types'
  BY DEF IInv, Types, OpenFails, clientVars, ioVars, ioQueue, history, opening, sendHistory
<1>2. QED
  BY <1>1, ReturnsIInv
     DEF OpenFails, Running, Top, clientVars, ioVars, history, opening, sendHistory, Pending

LEMMA ToClosedIInv == ASSUME IInv, Running, ToClosed PROVE IInv'
<1>1. Types'
  BY DEF IInv, Types, ToClosed, clientVars, ioVars, ioQueue, history, opening, sendHistory
<1>2. QED
  BY <1>1, ReturnsIInv
     DEF ToClosed, Running, Top, clientVars, ioVars, history, opening, sendHistory, Pending

LEMMA DecodesNothingIInv ==
  ASSUME IInv, Running, Top("decode"), DecodesNothing \/ DecodePart PROVE IInv'
<1>0. stack' = Rest /\ UNCHANGED <<clientVars, fault, ioVars, history>>
  BY DEF DecodesNothing, DecodePart
<1>1. Types'
  BY <1>0 DEF IInv, Types, clientVars, ioVars, ioQueue, history, opening, sendHistory
<1>2. QED
  BY <1>0, <1>1, ReturnsIInv
     DEF Running, Top, clientVars, ioVars, history, opening, sendHistory, Pending

(* In a client that no callback has opened the TLS io has called back       *)
(* before, and calls back for ever.                                         *)
LEMMA TlsClosesIInv == ASSUME IInv, Running, TlsCloses PROVE IInv'
<1>1. Types'
  BY DEF IInv, Types, TlsCloses, Goes, clientVars, ioVars, ioQueue, history, opening, sendHistory
<1>2. /\ Stacked(stack') /\ ToSet(stack) = {stack[1]} \cup ToSet(stack')
  BY StackedPop DEF IInv, Rest, Running, TlsCloses
<1>3. Fails(stack') = Fails(stack)
  BY <1>2 DEF Fails, TlsCloses, Top
<1>4. Accounts'
  BY <1>3, AccountsStay DEF IInv, sendHistory, TlsCloses, clientVars, history
<1>5. ASSUME AnswersFit PROVE FALSE
  BY <1>2, <1>5 DEF AnswersFit, OnTop, Has, TlsCloses, Top
<1>6. QED
  BY <1>1, <1>2, <1>4, <1>5, StepIInv
     DEF Running, Alive, TlsCloses, history, opening
-------------------------------------------------------------------------------
(* The client answers its open.                                             *)
LEMMA ErrorAndClosePut ==
  ASSUME Types, NEW b, Stacked(b), NoReport(b), IndicateOpenErrorAndClose(b)
  PROVE  /\ Stacked(stack') /\ Fails(stack') = Fails(b)
         /\ under' \in {"closed", "opening"} /\ inbound' \in Seq(Piece)
         /\ under # "opening" =>
              /\ under' = "closed" /\ stack' # <<>> /\ stack'[1].op = "openError"
              /\ Tail(stack') = b /\ ToSet(stack') = {CallFrame("openError")} \cup ToSet(b)
<1> DEFINE o == XioClose(FALSE)
           s == Call("openError") \o b
<1>1. /\ Reported(o.calls) /\ o.under \in {"closed", "opening"}
      /\ under # "opening" => o.under = "closed" /\ o.calls = <<>>
  BY XioCloses
<1>2. Pushed(s, CallFrame("openError"), b) /\ NoReport(s)
  BY PutCall DEF Anywhere, AllOps, ClientOps, AtOnce
<1>3. under' = o.under /\ inbound' \in Seq(Piece) /\ stack' = (o.calls \o Call("openError")) \o b
  <2>1. Goes(o.under) /\ stack' = (o.calls \o Call("openError")) \o b
    BY DEF IndicateOpenErrorAndClose
  <2>2. <<>> \in Seq(Piece) /\ inbound \in Seq(Piece)
    BY DEF Types
  <2> HIDE DEF o
  <2>3. QED
    BY <2>1, <2>2 DEF Goes
<1>4. Call("openError") \in Seq(FrameSet) /\ b \in Seq(FrameSet) /\ o.calls \in Seq(FrameSet)
  <2>1. [op |-> "openError", ev |-> "none", n |-> 0] \in FrameSet
    BY DEF FrameSet, AllOps, ClientOps, Evs
  <2>2. o.calls \in Seq(FrameSet)
    BY <1>1, PutReported, EmptyStack, Zenon
  <2>3. b \in Seq(FrameSet)
    BY DEF Stacked
  <2> HIDE DEF o
  <2>4. QED
    BY <2>1, <2>2, <2>3 DEF Call, Frame
<1> HIDE DEF o
<1>5. stack' = o.calls \o s
  <2>1. (o.calls \o Call("openError")) \o b = o.calls \o (Call("openError") \o b)
    <3> DEFINE c == o.calls
               d == Call("openError")
    <3>1. c \in Seq(FrameSet) /\ d \in Seq(FrameSet) /\ b \in Seq(FrameSet)
      BY <1>4
    <3> HIDE DEF c, d
    <3>2. (c \o d) \o b = c \o (d \o b)
      BY <3>1, Appended
    <3>3. QED
      BY <3>2 DEF c, d
  <2>2. QED
    BY <1>3, <2>1
<1>6. Fails(s) = Fails(b)
  BY <1>2 DEF Fails, Pushed, CallFrame
<1> HIDE DEF s
<1>7. /\ Stacked(o.calls \o s) /\ ToSet(o.calls \o s) = ToSet(o.calls) \cup ToSet(s)
      /\ o.calls = <<>> => o.calls \o s = s
  BY <1>1, <1>2, PutReported DEF Pushed
<1>8. \A f \in ToSet(o.calls) : f.op # "sendFails"
  BY <1>1, ReportedOps DEF AtOnce
<1>9. Fails(stack') = Fails(b)
  BY <1>5, <1>6, <1>7, <1>8 DEF Fails
<1>10. ASSUME under # "opening"
       PROVE  under' = "closed" /\ Pushed(stack', CallFrame("openError"), b)
  BY <1>1, <1>2, <1>3, <1>5, <1>7, <1>10
<1>11. CallFrame("openError").op = "openError"
  BY DEF CallFrame
<1>12. Stacked(stack')
  BY <1>5, <1>7
<1> HIDE DEF o
<1>13. QED
  BY <1>1, <1>3, <1>9, <1>10, <1>11, <1>12 DEF Pushed

LEMMA ErrorAndCloseAnswers ==
  ASSUME Types, NEW b, Stacked(b), NoReport(b), IndicateOpenErrorAndClose(b),
         Quiet(b), Consumes(b)', under # "opening", answers = <<>>,
         uws_state = "OPENING_UNDERLYING_IO" => ~Decoding(b)
  PROVE  AnswersFit' /\ answers' = <<>>
<1>1. /\ under' = "closed" /\ stack' # <<>> /\ stack'[1].op = "openError" /\ Tail(stack') = b
      /\ ToSet(stack') = {CallFrame("openError")} \cup ToSet(b)
  BY ErrorAndClosePut
<1>2. uws_state' = uws_state /\ answers' = answers
  BY DEF IndicateOpenErrorAndClose
<1>3. ~Has(b, "openError") /\ ~Has(stack', "tlsCloses")
  BY <1>1 DEF Quiet, Has, CallFrame
<1>4. Decoding(stack') => Decoding(b)
  BY <1>1 DEF Has, CallFrame, Decoding
<1>5. Consumes(stack)'
  BY <1>1 DEF Consumes, CallFrame
<1>6. Rest' = b
  BY <1>1 DEF Rest
<1>7. QED
  BY <1>1, <1>2, <1>3, <1>4, <1>5, <1>6 DEF AnswersFit, OnTop, Consumes

LEMMA OpenErrorIInv == ASSUME IInv, Running, OpenError PROVE IInv'
<1>1. answers' = Append(answers, "ERROR") /\ uws_state' = "CLOSED" /\ stack' = User("open") \o Rest
  BY DEF OpenError, IndicateOpenError
<1>2. Types'
  BY <1>1 DEF IInv, Types, OpenError, ioVars, ioQueue, opening, sendHistory
<1>3. Stacked(Rest) /\ NoReport(Rest) /\ ToSet(stack) = {stack[1]} \cup ToSet(Rest)
  BY StackedPop DEF IInv, Rest, Running
<1>4. Pushed(stack', UserFrame("open"), Rest)
  BY <1>1, <1>3, PutUser DEF Events
<1>a. Stacked(stack') /\ ToSet(stack') = {UserFrame("open")} \cup ToSet(Rest)
  BY <1>4 DEF Pushed
<1>5. Fails(stack') = Fails(stack)
  BY <1>3, <1>a DEF Fails, OpenError, Top, UserFrame
<1>6. Accounts'
  BY <1>5, AccountsStay DEF IInv, sendHistory, OpenError
<1>7. ASSUME AnswersFit PROVE AnswersFit' /\ Len(answers') <= 1
  <2>1. OnTop(stack, "openError") /\ ~OnTop(stack, "opened") /\ Has(stack, "openError")
    BY <1>3 DEF OpenError, Top, OnTop, Running, Has
  <2>2. answers = <<>> /\ under = "closed" /\ ~Has(Rest, "openError") /\ ~Has(stack, "tlsCloses")
    BY <1>7, <2>1 DEF AnswersFit
  <2>3. Quiet(stack') /\ Consumes(stack)'
    BY <1>3, <1>a, <1>7, <2>2
       DEF Quiet, Consumes, Has, AnswersFit, NoReport, AtOnce, OpenError, UserFrame
  <2>4. under' = "closed"
    BY <2>2 DEF OpenError, ioVars
  <2>5. QED
    BY <1>1, <1>a, <2>2, <2>3, <2>4, AnswersStay DEF Pending
<1>8. QED
  BY <1>2, <1>a, <1>6, <1>7, StepIInv DEF Running, Alive, OpenError, opening

LEMMA DecodeResponseIInv ==
  ASSUME IInv, Running, Top("decode"), DecodeResponse \/ DecodeTooEarly PROVE IInv'
<1>0. /\ Types /\ Stacked(Rest) /\ NoReport(Rest) /\ Rest = <<>>
      /\ ToSet(stack) = {stack[1]} \cup ToSet(Rest)
      /\ ~OnTop(stack, "openError") /\ ~OnTop(stack, "opened") /\ Decoding(stack)
  BY StackedPop DEF IInv, Rest, Running, Top, OnTop, Has, Decoding
<1>1. CASE Len(received) < 2 /\ uws_state' = uws_state /\ stack' = Rest /\ DecodeResponse
  <2>1. UNCHANGED <<received, pending_sends, fault, under, sendHistory, answers, reopened>>
    BY <1>1 DEF DecodeResponse, opening
  <2>2. Types'
    BY <1>1, <2>1 DEF IInv, Types, DecodeResponse, ioQueue, opening, sendHistory
  <2>3. QED
    BY <1>1, <2>1, <2>2, ReturnsIInv DEF Running, Top
<1>2. CASE (DecodeResponse \/ DecodeTooEarly) /\ IndicateOpenErrorAndClose(Rest)
           /\ UNCHANGED received
  <2>0. UNCHANGED <<pending_sends, on_ws_close_complete, fault, ioQueue, opening, delivered,
                    sendHistory, asked, noticed, answers, uws_state>>
    BY <1>2 DEF DecodeResponse, DecodeTooEarly, IndicateOpenErrorAndClose
  <2>1. /\ Stacked(stack') /\ Fails(stack') = Fails(Rest)
        /\ under' \in {"closed", "opening"} /\ inbound' \in Seq(Piece)
    BY <1>0, <1>2, ErrorAndClosePut
  <2>2. Types'
    BY <1>2, <2>0, <2>1 DEF IInv, Types, ioQueue, opening, sendHistory
  <2>3. Fails(stack') = Fails(stack)
    BY <1>0, <2>1 DEF Fails, Top
  <2>4. Accounts'
    BY <2>0, <2>3, AccountsStay DEF IInv, sendHistory
  <2>5. ASSUME AnswersFit PROVE AnswersFit' /\ answers' = <<>>
    <3>1. uws_state # "OPENING_UNDERLYING_IO"
      BY <1>0, <2>5 DEF AnswersFit
    <3>2. uws_state = "WAITING_FOR_UPGRADE_RESPONSE"
      BY <1>2, <3>1 DEF DecodeResponse, DecodeTooEarly
    <3>3. under = "open" /\ answers = <<>>
      BY <1>0, <2>5, <3>2 DEF AnswersFit, Pending
    <3>4. ToSet(Rest) = {}
      BY <1>0, EmptyStack
    <3>5. Quiet(Rest)
      BY <3>4 DEF Quiet
    <3>6. \A f \in ToSet(Rest) : f.op = "consume" => f.n <= Len(received')
      BY <3>4
    <3>7. QED
      BY <1>0, <1>2, <3>1, <3>3, <3>5, <3>6, ErrorAndCloseAnswers DEF Consumes
  <2>6. QED
    BY <2>0, <2>1, <2>2, <2>4, <2>5, StepIInv DEF Running, Alive, opening
<1>3. CASE /\ DecodeResponse /\ uws_state' = "OPEN" /\ Len(received) >= 2
           /\ received' = Consumed(2) /\ answers' = Append(answers, "OK")
           /\ stack' = User("open") \o Call("decode") \o Rest /\ UNCHANGED <<under, inbound>>
  <2>0. UNCHANGED <<pending_sends, on_ws_close_complete, fault, ioQueue, opening, delivered,
                    sendHistory, asked, noticed>> /\ uws_state = "WAITING_FOR_UPGRADE_RESPONSE"
    BY <1>3 DEF DecodeResponse
  <2>1. received' \in Seq(Piece)
    BY <1>3 DEF IInv, Types, Consumed
  <2>2. Types'
    BY <1>3, <2>0, <2>1 DEF IInv, Types, ioQueue, opening, sendHistory
  <2>3. Stacked(stack') /\ ToSet(stack') = {UserFrame("open")} \cup {CallFrame("decode")}
    <3>1. stack' = User("open") \o Call("decode")
      BY <1>0, <1>3 DEF User, Call, Frame
    <3>2. /\ Stacked(Call("decode")) /\ NoReport(Call("decode"))
          /\ ToSet(Call("decode")) = {CallFrame("decode")}
      BY DecodeAlone
    <3>3. Pushed(stack', UserFrame("open"), Call("decode"))
      BY <3>1, <3>2, PutUser DEF Events
    <3>4. QED
      BY <3>2, <3>3 DEF Pushed
  <2>4. Fails(stack') = Fails(stack)
    BY <1>0, <2>3, EmptyStack DEF Fails, Top, UserFrame, CallFrame
  <2>5. Accounts'
    BY <2>0, <2>4, AccountsStay DEF IInv, sendHistory
  <2>6. ASSUME AnswersFit PROVE AnswersFit' /\ Len(answers') <= 1
    <3>1. under = "open" /\ answers = <<>>
      BY <1>0, <2>0, <2>6 DEF AnswersFit, Pending
    <3>2. Quiet(stack') /\ Consumes(stack)'
      BY <2>3 DEF Quiet, Consumes, UserFrame, CallFrame
    <3>3. QED
      BY <1>3, <2>3, <3>1, <3>2, AnswersStay DEF Pending
  <2>7. QED
    BY <2>0, <2>2, <2>3, <2>5, <2>6, StepIInv DEF Running, Alive, opening
<1>4. QED
  BY <1>1, <1>2, <1>3 DEF DecodeResponse, DecodeTooEarly
-------------------------------------------------------------------------------
(* The client closes its io.                                                *)
LEMMA CallSets ==
  /\ ToSet(Call("closed")) = {CallFrame("closed")}
  /\ \A f \in ToSet(Opened("CANCELLED")) : f.op = "opened"
  /\ LET c == Opened("CANCELLED") \o Call("tlsCloses") IN
     /\ c # <<>> /\ c[1].op = "opened"
     /\ \A f \in ToSet(c) : f.op \in {"opened", "tlsCloses"}
<1> DEFINE t == Call("tlsCloses")
           f == [op |-> "opened", ev |-> "CANCELLED", n |-> 0]
<1>1. t = t \o <<>>
  BY DEF Call, Frame
<1>2. Pushed(t, CallFrame("tlsCloses"), <<>>) /\ NoReport(t)
  <2>1. Pushed(t \o <<>>, CallFrame("tlsCloses"), <<>>) /\ NoReport(t \o <<>>)
    BY PutCall, EmptyStack DEF Anywhere, AllOps, ClientOps, AtOnce
  <2> HIDE DEF t
  <2>2. QED
    BY <1>1, <2>1
<1> HIDE DEF t
<1>3. Pushed(Frame("opened", "CANCELLED", 0) \o t, f, t)
  BY <1>2, Put DEF Pushed, Anywhere, AllOps, ClientOps, Evs
<1>4. ToSet(Opened("CANCELLED") \o t) = {f} \cup ({CallFrame("tlsCloses")} \cup {})
  BY <1>2, <1>3, EmptyStack DEF Pushed, Opened
<1>5. (Opened("CANCELLED") \o t)[1] = f /\ Opened("CANCELLED") \o t # <<>>
  BY <1>3 DEF Pushed, Opened
<1>6. \A g \in ToSet(Opened("CANCELLED") \o t) : g.op \in {"opened", "tlsCloses"}
  BY <1>4 DEF CallFrame
<1>7. ToSet(Call("closed")) = {CallFrame("closed")}
  BY DEF ToSet, Call, Frame, CallFrame
<1>8. \A g \in ToSet(Opened("CANCELLED")) : g.op = "opened"
  BY DEF ToSet, Opened, Frame
<1>9. f.op = "opened"
  OBVIOUS
<1> HIDE DEF f
<1>10. QED
  BY <1>5, <1>6, <1>7, <1>8, <1>9 DEF t

(* t is b under what a close of the io reports.                             *)
ClosePut(t, b) ==
  /\ Stacked(t) /\ Fails(t) = Fails(b) /\ ToSet(b) \subseteq ToSet(t)
  /\ \A f \in ToSet(t) \ ToSet(b) : f.op \in {"opened", "closed", "tlsCloses"}
  /\ under # "opening" => \A f \in ToSet(t) \ ToSet(b) : f.op = "closed"
  /\ under = "opening" /\ io = "tls" => OnTop(t, "opened")
  /\ under = "opening" /\ io # "tls" =>
       \A f \in ToSet(t) \ ToSet(b) : f.op \in {"opened", "closed"}

LEMMA CloseCallsPut ==
  ASSUME Types, NEW callback \in BOOLEAN, NEW b, Stacked(b), NoReport(b)
  PROVE  ClosePut(XioClose(callback).calls \o b, b)
<1> DEFINE c == XioClose(callback).calls
           d == Opened("CANCELLED") \o Call("tlsCloses")
<1>1. /\ Reported(c)
      /\ under # "opening" => c = <<>> \/ c = Call("closed")
      /\ under = "opening" => c \in {<<>>, Call("closed"), Opened("CANCELLED"), d}
      /\ under = "opening" /\ io = "tls" => c = d
      /\ under = "opening" /\ io # "tls" => c \in {<<>>, Call("closed"), Opened("CANCELLED")}
  <2>1. under = "opening" /\ io = "proxy" => c = Opened("CANCELLED")
    BY DEF XioClose, Outcome
  <2>2. under = "opening" /\ io = "socket" => c \in {<<>>, Call("closed")}
    BY DEF XioClose, Outcome
  <2>3. io \in {"socket", "tls", "proxy"}
    BY UwsAssumption DEF Types
  <2>4. QED
    BY <2>1, <2>2, <2>3, XioCloses
<1> DEFINE t == c \o b
<1> HIDE DEF c
<1>2. /\ Stacked(t) /\ ToSet(t) = ToSet(c) \cup ToSet(b)
      /\ c # <<>> => t # <<>> /\ t[1] = c[1]
  BY <1>1, PutReported
<1>a. \A f \in ToSet(d) : f.op \in {"opened", "tlsCloses"}
  BY CallSets
<1> HIDE DEF d, t
<1>3. \A f \in ToSet(c) : f.op \in {"opened", "closed", "tlsCloses"}
  BY <1>1, <1>a, CallSets, EmptyStack DEF CallFrame
<1>4. under # "opening" => \A f \in ToSet(c) : f.op = "closed"
  BY <1>1, CallSets, EmptyStack DEF CallFrame
<1>5. under = "opening" /\ io # "tls" => \A f \in ToSet(c) : f.op \in {"opened", "closed"}
  BY <1>1, CallSets, EmptyStack DEF CallFrame
<1>6. under = "opening" /\ io = "tls" => OnTop(t, "opened")
  BY <1>1, <1>2, CallSets DEF OnTop, d
<1>7. Fails(t) = Fails(b)
  BY <1>2, <1>3 DEF Fails
<1>8. QED
  BY <1>2, <1>3, <1>4, <1>5, <1>6, <1>7 DEF ClosePut, t, c

LEMMA CloseCallsAnswers ==
  ASSUME Types, AnswersFit, NEW callback \in BOOLEAN, NEW b, Stacked(b), NoReport(b),
         Quiet(b), Consumes(b)', stack' = XioClose(callback).calls \o b,
         under' = XioClose(callback).under, uws_state' \notin Pending, UNCHANGED <<io, answers>>
  PROVE  AnswersFit'
<1>1. /\ under' \in {"closed", "opening"}
      /\ under # "opening" => under' = "closed"
      /\ under' = "opening" => under = "opening" /\ io = "tls"
      /\ under = "opening" /\ io = "tls" => under' = "opening"
  BY XioCloses
<1>2. ClosePut(stack', b)
  BY CloseCallsPut
<1>3. ~Has(stack', "openError") /\ Consumes(stack)'
  BY <1>2 DEF Has, Quiet, Consumes, ClosePut
<1>4. under # "opening" => ~Has(stack', "opened")
  BY <1>2 DEF Has, Quiet, ClosePut
<1>5. ~(under = "opening" /\ io = "tls") => ~Has(stack', "tlsCloses")
  BY <1>2 DEF Has, Quiet, ClosePut
<1>6. \A o : OnTop(stack', o) => Has(stack', o)
  <2>1. stack' # <<>> => stack'[1] \in ToSet(stack')
    BY <1>2, StackedPop DEF ClosePut
  <2>2. QED
    BY <2>1 DEF Has, OnTop
<1>7. OnTop(stack', "opened") => under = "opening"
  BY <1>4, <1>6
<1>8. under = "opening" => answers' = <<>>
  BY DEF AnswersFit
<1>9. ~OnTop(stack', "openError")
  BY <1>3, <1>6
<1>10. QED
  BY <1>1, <1>2, <1>3, <1>5, <1>7, <1>8, <1>9
     DEF AnswersFit, Consumes, Pending, ClosePut

(* t is b under the end of a close.                                         *)
Ended(t, b) ==
  /\ Stacked(t) /\ Fails(t) = Fails(b) /\ ToSet(b) \subseteq ToSet(t)
  /\ \A f \in ToSet(t) \ ToSet(b) : f.op \in {"user", "toClosed"}

LEMMA EndedPut ==
  ASSUME NEW b, Stacked(b), NoReport(b), NEW ev \in Events
  PROVE  /\ Ended(b, b) /\ Ended(User(ev) \o b, b)
         /\ Ended(Call("toClosed") \o b, b) /\ Ended(User(ev) \o (Call("toClosed") \o b), b)
         /\ NoReport(Call("toClosed") \o b)
<1> DEFINE s == Call("toClosed") \o b
<1>1. Pushed(s, CallFrame("toClosed"), b) /\ NoReport(s)
  BY PutCall DEF Anywhere, AllOps, ClientOps, AtOnce
<1>2. Pushed(User(ev) \o b, UserFrame(ev), b)
  BY PutUser
<1> HIDE DEF s
<1>3. Pushed(User(ev) \o s, UserFrame(ev), s)
  BY <1>1, PutUser DEF Pushed
<1>4. CallFrame("toClosed").op = "toClosed" /\ UserFrame(ev).op = "user"
  BY DEF CallFrame, UserFrame
<1>5. Ended(User(ev) \o b, b)
  BY <1>2, <1>4 DEF Pushed, Ended, Fails
<1>6. Ended(s, b)
  BY <1>1, <1>4 DEF Pushed, Ended, Fails
<1>7. Ended(User(ev) \o s, b)
  BY <1>1, <1>3, <1>4 DEF Pushed, Ended, Fails
<1>8. Ended(b, b)
  BY DEF Ended
<1>9. QED
  BY <1>1, <1>5, <1>6, <1>7, <1>8 DEF s

Closes(b) == \/ CloseUnderlying(b) /\ UNCHANGED noticed
             \/ CloseUnderlyingOrIndicate(b, <<>>)
             \/ CloseUnderlyingOrIndicate(b, Call("toClosed"))

LEMMA ClosesPut ==
  ASSUME Types, NEW b, Stacked(b), NoReport(b), Closes(b)
  PROVE  /\ Goes(XioClose(TRUE).under) /\ inbound' \in Seq(Piece) /\ noticed' \in Nat
         /\ under' = XioClose(TRUE).under /\ under' \in {"closed", "opening"}
         /\ \/ /\ XioClose(TRUE).ok
               /\ uws_state' = "CLOSING_UNDERLYING_IO" /\ noticed' = noticed
               /\ stack' = XioClose(TRUE).calls \o b
            \/ /\ ~XioClose(TRUE).ok /\ under # "opening" /\ under' = "closed"
               /\ uws_state' \in {"ERROR", "CLOSED"} /\ Ended(stack', b)
         /\ Stacked(stack') /\ Fails(stack') = Fails(b)
<1> DEFINE o == XioClose(TRUE)
           u == User("closed")
           e == User("error")
           d == Call("toClosed")
<1>0. /\ o.ok \in BOOLEAN /\ o.under \in {"closed", "opening"}
      /\ under = "opening" => o.ok
      /\ under # "opening" => o.under = "closed"
  BY XioCloses
<1>a. ClosePut(o.calls \o b, b)
  BY CloseCallsPut
<1>b. /\ Ended(b, b) /\ Ended(u \o b, b) /\ Ended(d \o b, b) /\ Ended(u \o (d \o b), b)
      /\ Ended(e \o (d \o b), b)
  BY EndedPut DEF Events
<1>1. /\ Goes(o.under)
      /\ \/ /\ o.ok /\ uws_state' = "CLOSING_UNDERLYING_IO" /\ stack' = o.calls \o b
            /\ noticed' = noticed
         \/ /\ ~o.ok /\ uws_state' = "ERROR" /\ stack' = e \o (d \o b) /\ noticed' = noticed
         \/ /\ ~o.ok /\ uws_state' = "CLOSED"
            /\ \E f \in {<<>>, d} :
                 stack' = (IF on_ws_close_complete THEN u ELSE <<>>) \o (f \o b)
            /\ noticed' = noticed + (IF on_ws_close_complete THEN 1 ELSE 0)
  BY DEF Closes, CloseUnderlying, CloseUnderlyingOrIndicate, IndicateError, IndicateClosed
<1> HIDE DEF o
<1>2. /\ noticed \in Nat /\ on_ws_close_complete \in BOOLEAN /\ inbound \in Seq(Piece)
      /\ <<>> \in Seq(Piece)
  BY DEF Types
<1>3. inbound' \in Seq(Piece) /\ under' = o.under
  BY <1>1, <1>2 DEF Goes
<1>4. noticed' \in Nat
  <2>1. \/ noticed' = noticed
        \/ noticed' = noticed + (IF on_ws_close_complete THEN 1 ELSE 0)
    BY <1>1, Zenon
  <2>2. QED
    BY <1>2, <2>1
<1>5. b \in Seq(FrameSet) /\ d \in Seq(FrameSet)
  <2>1. CallFrame("toClosed") \in FrameSet
    BY DEF CallFrame, FrameSet, AllOps, ClientOps, Evs
  <2>2. d = <<CallFrame("toClosed")>>
    BY DEF Call, Frame, CallFrame
  <2>3. b \in Seq(FrameSet)
    BY DEF Stacked
  <2> HIDE DEF d
  <2>4. QED
    BY <2>1, <2>2, <2>3
<1> HIDE DEF u, e, d
<1>6. <<>> \o b = b /\ <<>> \o (d \o b) = d \o b
  BY <1>5, Appended
<1>7. CASE o.ok
  BY <1>0, <1>1, <1>3, <1>4, <1>7, <1>a DEF ClosePut, o
<1>8. CASE ~o.ok
  <2>1. Ended(stack', b) /\ uws_state' \in {"ERROR", "CLOSED"}
    BY <1>1, <1>2, <1>6, <1>8, <1>b
  <2>2. QED
    BY <1>0, <1>1, <1>3, <1>4, <1>8, <2>1 DEF Ended, o
<1>9. QED
  BY <1>7, <1>8

LEMMA ClosesAnswers ==
  ASSUME Types, AnswersFit, NEW b, Stacked(b), NoReport(b), Closes(b),
         Quiet(b), Consumes(b)', UNCHANGED <<io, answers>>
  PROVE  AnswersFit'
<1>1. CASE XioClose(TRUE).ok
  <2>1. /\ stack' = XioClose(TRUE).calls \o b /\ under' = XioClose(TRUE).under
        /\ uws_state' = "CLOSING_UNDERLYING_IO"
    BY <1>1, ClosesPut
  <2>2. QED
    BY <2>1, CloseCallsAnswers DEF Pending
<1>2. CASE ~XioClose(TRUE).ok
  <2>1. under' = "closed" /\ uws_state' \in {"ERROR", "CLOSED"} /\ Ended(stack', b)
    BY <1>2, ClosesPut
  <2>2. Stacked(stack') /\ Quiet(stack') /\ Consumes(stack)'
    BY <2>1 DEF Ended, Quiet, Consumes
  <2>3. QED
    BY <2>1, <2>2, AnswersStay DEF Pending
<1>3. QED
  BY <1>1, <1>2

-------------------------------------------------------------------------------
(* A step that leaves the open and the sends alone.                         *)
LEMMA AloneIInv ==
  ASSUME IInv, Alive, ~OnTop(stack, "opened"), ~OnTop(stack, "openError"),
         Types', Stacked(stack'), Fails(stack') = Fails(stack),
         UNCHANGED <<received, pending_sends, fault, under, sendHistory, answers, reopened>>,
         \A f \in ToSet(stack') \ ToSet(stack) :
           /\ f.op \notin {"openError", "tlsCloses", "opened"}
           /\ f.op = "consume" => f.n <= Len(received)
           /\ f.op \in {"decode", "masked"} => Decoding(stack),
         uws_state' = uws_state \/ uws_state' \notin Pending
  PROVE  IInv'
<1>1. Accounts'
  BY AccountsStay DEF IInv, sendHistory
<1>2. ASSUME ~reopened', AnswersFit PROVE AnswersFit'
  <2>1. Quiet(stack) /\ Consumes(stack)
    BY <1>2, QuietStack DEF IInv
  <2>2. Quiet(stack') /\ Consumes(stack)'
    BY <2>1 DEF Quiet, Consumes
  <2>3. Decoding(stack') => Decoding(stack)
    BY DEF Has, Decoding
  <2>4. QED
    BY <1>2, <2>2, <2>3, AnswersStay DEF AnswersFit, Pending
<1>3. QED
  BY <1>1, <1>2, StepIInv DEF IInv, Alive

(* What the decoder puts on the stack that it leaves.                       *)
LEMMA DecoderPuts ==
  ASSUME NEW n \in Nat
  PROVE  /\ Pushed(Consume(n), [op |-> "consume", ev |-> "none", n |-> n], <<>>)
         /\ Pushed(Consume(n) \o Call("decode"), [op |-> "consume", ev |-> "none", n |-> n],
                   Call("decode"))
         /\ Pushed(Call("masked"), CallFrame("masked"), <<>>)
         /\ NoReport(Consume(n)) /\ NoReport(Consume(n) \o Call("decode"))
         /\ NoReport(Call("masked"))
<1> DEFINE f == [op |-> "consume", ev |-> "none", n |-> n]
           g == CallFrame("masked")
<1>1. f \in FrameSet /\ g \in FrameSet /\ f.op = "consume" /\ g.op = "masked"
  BY DEF FrameSet, AllOps, ClientOps, CallFrame, Evs
<1> HIDE DEF f, g
<1>2. Fits(f, <<>>) /\ Fits(f, Call("decode")) /\ Fits(g, <<>>)
  BY <1>1, EmptyStack, DecodeAlone DEF Fits
<1>3. <<f>> = <<f>> \o <<>> /\ <<g>> = <<g>> \o <<>>
  BY <1>1
<1>4. \A t, s, x : /\ Stacked(t) /\ ToSet(t) = {x} \cup ToSet(s) /\ t[1] = x /\ t # <<>>
                   /\ Tail(t) = s /\ NoReport(s) /\ x.op \notin AtOnce
                   => Pushed(t, x, s) /\ NoReport(t)
  BY DEF Pushed, NoReport
<1>5. Pushed(<<f>> \o <<>>, f, <<>>) /\ NoReport(<<f>> \o <<>>)
  <2>1. f.op \notin AtOnce
    BY <1>1 DEF AtOnce
  <2>2. QED
    BY <1>2, <1>4, <2>1, EmptyStack, StackedPush
<1>6. Pushed(<<g>> \o <<>>, g, <<>>) /\ NoReport(<<g>> \o <<>>)
  <2>1. g.op \notin AtOnce
    BY <1>1 DEF AtOnce
  <2>2. QED
    BY <1>2, <1>4, <2>1, EmptyStack, StackedPush
<1>7. Pushed(<<f>> \o Call("decode"), f, Call("decode")) /\ NoReport(<<f>> \o Call("decode"))
  <2>1. f.op \notin AtOnce
    BY <1>1 DEF AtOnce
  <2>2. QED
    BY <1>2, <1>4, <2>1, DecodeAlone, StackedPush
<1>8. Consume(n) = <<f>> /\ Call("masked") = <<g>>
  BY DEF Consume, Call, Frame, CallFrame, f, g
<1>9. QED
  BY <1>3, <1>5, <1>6, <1>7, <1>8 DEF f, g

(* The frames of one step of the decoder on a frame of the server.          *)
LEMMA DecodeFramesIInv ==
  ASSUME IInv, Running,
         \/ Top("decode") /\ (DecodeBad \/ DecodeMasked \/ DecodeData \/ DecodePing \/ DecodePong)
         \/ Masked
  PROVE  IInv'
<1> DEFINE c(n) == [op |-> "consume", ev |-> "none", n |-> n]
           fr == User("frame") \o Consume(2) \o Call("decode") \o Rest
           fm == User("frame") \o Consume(3) \o Call("decode") \o Rest
<1>0. /\ Types /\ Stacked(stack) /\ Stacked(Rest) /\ NoReport(Rest) /\ Rest = <<>>
      /\ ToSet(stack) = {stack[1]} \cup ToSet(Rest)
      /\ ~OnTop(stack, "openError") /\ ~OnTop(stack, "opened")
      /\ stack[1].op \in {"decode", "masked"}
  BY StackedPop DEF IInv, Rest, Running, Top, OnTop, Masked
<1>1. UNCHANGED <<received, pending_sends, fault, under, sendHistory, answers, reopened,
                  inbound, on_ws_close_complete, io, unsent, lost, nonceFailed, opens, reply,
                  asked, noticed>>
  BY DEF DecodeBad, DecodeMasked, DecodeData, DecodePing, DecodePong, Masked, IndicateError,
         ioVars, ioQueue, history, opening, clientVars
<1>2. \/ uws_state' = uws_state
      \/ uws_state' = "ERROR"
  BY DEF DecodeBad, DecodeMasked, DecodeData, DecodePing, DecodePong, Masked, IndicateError,
         clientVars
<1>3. delivered' = delivered \/ (delivered' = Append(delivered, received[1].n) /\ Len(received) >= 2)
  BY DEF DecodeBad, DecodeMasked, DecodeData, DecodePing, DecodePong, Masked, IndicateError,
         history, Complete, IInv, Types
<1>4. Types'
  <2>0. delivered \in Seq(Nat) /\ received \in Seq(Piece)
    BY <1>0 DEF Types
  <2>1. Len(received) >= 2 => received[1].n \in Nat
    <3>1. Len(received) >= 2 => received[1] \in Piece
      BY <2>0
    <3>2. QED
      BY <3>1 DEF Piece
  <2>2. delivered' \in Seq(Nat)
    <3>1. \A d \in Seq(Nat), x \in Nat : Append(d, x) \in Seq(Nat)
      OBVIOUS
    <3>2. QED
      BY <1>3, <2>0, <2>1, <3>1
  <2>3. QED
    BY <1>0, <1>1, <1>2, <2>2 DEF Types, sendHistory
<1>5. \/ stack' = Rest
      \/ stack' = User("error") \o Rest
      \/ stack' = User("error") \o (Call("masked") \o Rest)
      \/ stack' = fr /\ Len(received) >= 2 /\ stack[1].op = "decode"
      \/ stack' = Consume(2) \o Rest /\ Len(received) >= 2
      \/ stack' = fm /\ Len(received) >= 3
  BY DEF DecodeBad, DecodeMasked, DecodeData, DecodePing, DecodePong, Masked, IndicateError,
         Complete, Top
<1>6. /\ Pushed(Consume(2), c(2), <<>>) /\ NoReport(Consume(2))
      /\ \A n \in {2, 3} : /\ Pushed(Consume(n) \o Call("decode"), c(n), Call("decode"))
                           /\ NoReport(Consume(n) \o Call("decode"))
      /\ Pushed(Call("masked"), CallFrame("masked"), <<>>) /\ NoReport(Call("masked"))
      /\ ToSet(Call("decode")) = {CallFrame("decode")}
  BY DecoderPuts, DecodeAlone
<1>7. ASSUME NEW n \in {2, 3}
      PROVE  Pushed(User("frame") \o (Consume(n) \o Call("decode")), UserFrame("frame"),
                    Consume(n) \o Call("decode"))
  BY <1>6, PutUser DEF Pushed, Events
<1>8. ASSUME NEW b, Stacked(b), NoReport(b) PROVE Pushed(User("error") \o b, UserFrame("error"), b)
  BY <1>8, PutUser DEF Events
<1>9. /\ fr = User("frame") \o (Consume(2) \o Call("decode"))
      /\ fm = User("frame") \o (Consume(3) \o Call("decode"))
      /\ Consume(2) \o Rest = Consume(2) /\ Call("masked") \o Rest = Call("masked")
  BY <1>0 DEF User, Consume, Call, Frame
<1> HIDE DEF fr, fm
<1>10. /\ UserFrame("error").op = "user" /\ UserFrame("frame").op = "user"
       /\ CallFrame("masked").op = "masked" /\ CallFrame("decode").op = "decode"
       /\ \A n : c(n).op = "consume" /\ c(n).n = n
  BY DEF UserFrame, CallFrame
<1> HIDE DEF c
<1>11. /\ Stacked(stack')
       /\ \A f \in ToSet(stack') :
            \/ f.op \in {"user", "masked"}
            \/ f.op = "decode"
            \/ f.op = "consume" /\ f.n <= Len(received)
  <2>0. Len(received) \in Nat /\ ToSet(Rest) = {} /\ ToSet(<<>>) = {}
    BY <1>0, EmptyStack DEF Types
  <2>1. CASE stack' = Rest
    BY <1>0, <2>0, <2>1
  <2>2. CASE stack' = User("error") \o Rest
    BY <1>0, <1>8, <1>10, <2>0, <2>2 DEF Pushed
  <2>3. CASE stack' = User("error") \o (Call("masked") \o Rest)
    <3>1. Pushed(stack', UserFrame("error"), Call("masked"))
      BY <1>6, <1>8, <1>9, <2>3 DEF Pushed
    <3>2. QED
      BY <1>6, <1>10, <2>0, <3>1 DEF Pushed
  <2>4. CASE stack' = fr /\ Len(received) >= 2
    <3>1. Pushed(stack', UserFrame("frame"), Consume(2) \o Call("decode"))
      BY <1>7, <1>9, <2>4
    <3>2. QED
      BY <1>6, <1>10, <2>0, <2>4, <3>1 DEF Pushed
  <2>5. CASE stack' = Consume(2) \o Rest /\ Len(received) >= 2
    <3>1. Pushed(stack', c(2), <<>>)
      BY <1>6, <1>9, <2>5
    <3>2. QED
      BY <1>10, <2>0, <2>5, <3>1 DEF Pushed
  <2>6. CASE stack' = fm /\ Len(received) >= 3
    <3>1. Pushed(stack', UserFrame("frame"), Consume(3) \o Call("decode"))
      BY <1>7, <1>9, <2>6
    <3>2. QED
      BY <1>6, <1>10, <2>0, <2>6, <3>1 DEF Pushed
  <2>7. QED
    BY <1>5, <2>1, <2>2, <2>3, <2>4, <2>5, <2>6
<1>12. Fails(stack') = {} /\ Fails(stack) = {}
  BY <1>0, <1>11, EmptyStack DEF Fails
<1>13. Decoding(stack)
  BY <1>0, StackedPop DEF Decoding, Has, Running
<1>14. QED
  BY <1>0, <1>1, <1>2, <1>4, <1>11, <1>12, <1>13, AloneIInv DEF Running, Pending

(* The frame is consumed, unless a callback has opened the client again.    *)
LEMMA ConsumeReceivedBytesIInv == ASSUME IInv, Running, ConsumeReceivedBytes PROVE IInv'
<1>0. /\ Types /\ Stacked(stack) /\ Stacked(Rest) /\ stack[1] \in FrameSet
      /\ stack[1].op = "consume" /\ stack[1] \in ToSet(stack)
      /\ ToSet(stack) = {stack[1]} \cup ToSet(Rest) /\ Alive
      /\ Rest = <<>> \/ (Len(Rest) = 1 /\ Rest[1].op = "decode")
  BY StackedPop DEF IInv, Rest, Running, Top, ConsumeReceivedBytes
<1>1. UNCHANGED <<uws_state, pending_sends, on_ws_close_complete, ioVars, history>>
  BY DEF ConsumeReceivedBytes
<1>2. stack[1].n \in Nat /\ received \in Seq(Piece)
  BY <1>0 DEF FrameSet, Types
<1>3. ASSUME ~reopened, AnswersFit
      PROVE  stack[1].n <= Len(received) /\ Quiet(stack) /\ ~OnTop(stack, "openError")
  <2>1. ~OnTop(stack, "opened") /\ ~OnTop(stack, "openError")
    BY <1>0 DEF OnTop
  <2>2. QED
    BY <1>0, <1>3, <2>1, QuietStack DEF Consumes
<1>4. CASE Len(received) >= stack[1].n /\ received' = Consumed(stack[1].n) /\ stack' = Rest
           /\ fault' = fault
  <2>1. received' \in Seq(Piece)
    BY <1>2, <1>4 DEF Consumed
  <2>2. Types'
    BY <1>0, <1>1, <1>4, <2>1 DEF Types, ioVars, ioQueue, history, opening, sendHistory
  <2>3. Fails(stack') = Fails(stack)
    BY <1>0, <1>4 DEF Fails
  <2>4. Accounts'
    BY <1>1, <2>3, AccountsStay DEF IInv, history, sendHistory
  <2>5. \A f \in ToSet(stack') : f.op # "consume"
    <3>1. Rest \in Seq(FrameSet)
      BY <1>0 DEF Stacked
    <3>2. Rest = <<>> => ToSet(Rest) = {}
      BY EmptyStack
    <3>3. Len(Rest) = 1 => ToSet(Rest) = {Rest[1]}
      BY <3>1 DEF ToSet
    <3>4. QED
      BY <1>0, <1>4, <3>2, <3>3
  <2>6. ASSUME ~reopened', AnswersFit PROVE AnswersFit'
    <3>1. Quiet(stack') /\ Consumes(stack)' /\ (Decoding(stack') => Decoding(stack))
      BY <1>0, <1>1, <1>3, <1>4, <2>5, <2>6 DEF Quiet, Consumes, Decoding, Has, history, opening
    <3>2. ~OnTop(stack, "openError")
      BY <1>0 DEF OnTop
    <3>3. QED
      BY <1>0, <1>1, <1>4, <2>6, <3>1, <3>2, AnswersStay
         DEF AnswersFit, Pending, ioVars, history
  <2>7. QED
    BY <1>0, <1>1, <1>4, <2>2, <2>4, <2>6, StepIInv DEF IInv, Alive, history, opening
<1>5. CASE Len(received) < stack[1].n /\ fault' = "underflow" /\ UNCHANGED <<received, stack>>
  <2>1. Types'
    BY <1>0, <1>1, <1>5 DEF Types, ioVars, ioQueue, history, opening, sendHistory
  <2>2. Accounts'
    BY <1>1, <1>5, AccountsStay DEF IInv, history, sendHistory
  <2>3. ~(~reopened' /\ AnswersFit)
    BY <1>1, <1>2, <1>3, <1>5 DEF history, opening, Types
  <2>4. QED
    BY <1>0, <1>1, <1>5, <2>1, <2>2, <2>3, StepIInv DEF Alive, history, opening
<1>6. QED
  BY <1>4, <1>5 DEF ConsumeReceivedBytes

(* The client closes its io, and is told of it or not.                      *)
LEMMA ClosesIInv ==
  ASSUME IInv, Alive, NEW b, Stacked(b), NoReport(b), Closes(b), Fails(b) = Fails(stack),
         ~reopened /\ AnswersFit => Quiet(b) /\ Consumes(b),
         UNCHANGED <<received, pending_sends, on_ws_close_complete, fault, ioQueue, opening,
                     answers, delivered, sendHistory, asked>>
  PROVE  IInv'
<1>1. /\ inbound' \in Seq(Piece) /\ noticed' \in Nat /\ under' \in {"closed", "opening"}
      /\ uws_state' \in {"CLOSING_UNDERLYING_IO", "ERROR", "CLOSED"}
      /\ Stacked(stack') /\ Fails(stack') = Fails(stack)
  BY ClosesPut DEF IInv
<1>2. Types'
  BY <1>1 DEF IInv, Types, ioQueue, opening, sendHistory
<1>3. Accounts'
  BY <1>1, AccountsStay DEF IInv, sendHistory
<1>4. ASSUME ~reopened', AnswersFit PROVE AnswersFit'
  <2>1. Quiet(b) /\ Consumes(b)'
    BY <1>4 DEF Consumes, opening
  <2>2. QED
    BY <1>4, <2>1, ClosesAnswers DEF IInv, ioQueue
<1>5. QED
  BY <1>1, <1>2, <1>3, <1>4, StepIInv DEF IInv, Alive, opening

(* The decoder's CLOSE: what is under the calls that it makes.              *)
LEMMA ToUser ==
  LET t == User("peerClosed") \o Consume(2) \o <<>> IN
  /\ Stacked(t) /\ NoReport(t) /\ Stacked(Call("respond") \o t) /\ NoReport(Call("respond") \o t)
  /\ \A f \in ToSet(t) \cup ToSet(Call("respond") \o t) :
       f.op \in {"user", "respond"} \/ (f.op = "consume" /\ f.n = 2)
<1> DEFINE t == User("peerClosed") \o Consume(2) \o <<>>
           c == [op |-> "consume", ev |-> "none", n |-> 2]
<1>1. Pushed(Consume(2), c, <<>>) /\ NoReport(Consume(2))
  BY DecoderPuts
<1>2. c.op = "consume" /\ c.n = 2
  OBVIOUS
<1> HIDE DEF c
<1>3. t = User("peerClosed") \o Consume(2)
  BY DEF User, Consume, Frame
<1>4. Pushed(t, UserFrame("peerClosed"), Consume(2)) /\ NoReport(t)
  BY <1>1, <1>3, PutUser DEF Pushed, Events
<1> HIDE DEF t
<1>5. Pushed(Call("respond") \o t, CallFrame("respond"), t) /\ NoReport(Call("respond") \o t)
  BY <1>4, PutCall DEF Pushed, Anywhere, AllOps, ClientOps, AtOnce
<1>6. /\ ToSet(t) = {UserFrame("peerClosed")} \cup {c}
      /\ ToSet(Call("respond") \o t) = {CallFrame("respond")} \cup ToSet(t)
  BY <1>1, <1>4, <1>5, EmptyStack DEF Pushed
<1>7. /\ Stacked(t) /\ NoReport(t)
      /\ Stacked(Call("respond") \o t) /\ NoReport(Call("respond") \o t)
  BY <1>4, <1>5 DEF Pushed
<1>8. \A f \in ToSet(t) \cup ToSet(Call("respond") \o t) :
        f.op \in {"user", "respond"} \/ (f.op = "consume" /\ f.n = 2)
  BY <1>2, <1>6 DEF UserFrame, CallFrame
<1>9. QED
  BY <1>7, <1>8 DEF t

LEMMA DecodeCloseIInv == ASSUME IInv, Running, Top("decode"), DecodeClose PROVE IInv'
<1> DEFINE t == User("peerClosed") \o Consume(2) \o Rest
           r == Call("respond") \o t
<1>0. /\ Types /\ Stacked(stack) /\ Rest = <<>> /\ Alive
      /\ ToSet(stack) = {stack[1]} \cup ToSet(Rest) /\ stack[1].op = "decode"
  BY StackedPop DEF IInv, Rest, Running, Top
<1>1. /\ Stacked(t) /\ NoReport(t) /\ Stacked(r) /\ NoReport(r)
      /\ \A f \in ToSet(t) \cup ToSet(r) :
           f.op \in {"user", "respond"} \/ (f.op = "consume" /\ f.n = 2)
  BY <1>0, ToUser
<1>2. /\ UNCHANGED <<received, pending_sends, on_ws_close_complete, fault, ioQueue, opening,
                     answers, delivered, sendHistory, asked>>
      /\ Len(received) >= 2
      /\ \/ CloseUnderlying(t) /\ UNCHANGED noticed
         \/ CloseUnderlyingOrIndicate(r, Call("toClosed"))
         \/ /\ uws_state' = "CLOSING_SENDING_CLOSE" /\ stack' = r
            /\ UNCHANGED <<under, inbound, noticed>>
  BY DEF DecodeClose, Complete
<1> HIDE DEF t, r
<1>3. Fails(stack) = {} /\ Fails(t) = {} /\ Fails(r) = {}
  BY <1>0, <1>1, EmptyStack DEF Fails
<1>4. Quiet(t) /\ Quiet(r) /\ Consumes(t) /\ Consumes(r)
  BY <1>1, <1>2 DEF Quiet, Consumes
<1>5. CASE CloseUnderlying(t) /\ UNCHANGED noticed
  BY <1>0, <1>1, <1>2, <1>3, <1>4, <1>5, ClosesIInv DEF Closes
<1>6. CASE CloseUnderlyingOrIndicate(r, Call("toClosed"))
  BY <1>0, <1>1, <1>2, <1>3, <1>4, <1>6, ClosesIInv DEF Closes
<1>7. CASE /\ uws_state' = "CLOSING_SENDING_CLOSE" /\ stack' = r
           /\ UNCHANGED <<under, inbound, noticed>>
  <2>1. Types'
    BY <1>0, <1>2, <1>7 DEF Types, ioQueue, opening, sendHistory
  <2>2. ~OnTop(stack, "opened") /\ ~OnTop(stack, "openError")
    BY <1>0 DEF OnTop
  <2>3. \A f \in ToSet(stack') \ ToSet(stack) :
          /\ f.op \notin {"openError", "tlsCloses", "opened"}
          /\ f.op = "consume" => f.n <= Len(received)
          /\ f.op \in {"decode", "masked"} => Decoding(stack)
    BY <1>1, <1>2, <1>7
  <2>4. QED
    BY <1>0, <1>1, <1>2, <1>3, <1>7, <2>1, <2>2, <2>3, AloneIInv DEF opening, Pending
<1>8. QED
  BY <1>2, <1>5, <1>6, <1>7

(* What a send of the io leaves.                                            *)
LEMMA XioSends ==
  ASSUME Types, NEW s \in 0 .. Sends, NEW completion, NEW o \in XioSend(s, completion)
  PROVE  /\ o.ok \in BOOLEAN /\ o.unsent \in Seq(0 .. Sends) /\ o.lost \in BOOLEAN
         /\ o.calls \in {<<>>, completion}
<1> DEFINE result(ok, queue, calls, isLost) ==
             [ok |-> ok, unsent |-> queue, calls |-> calls,
              lost |-> lost \/ (isLost /\ s = CloseFrame)]
<1>1. \/ o = result(FALSE, unsent, <<>>, FALSE) \/ o = result(FALSE, unsent, completion, FALSE)
      \/ o = result(TRUE, Append(unsent, s), <<>>, FALSE)
      \/ o = result(TRUE, unsent, completion, FALSE) \/ o = result(TRUE, unsent, <<>>, TRUE)
  BY DEF XioSend
<1>2. \A ok, queue, calls, isLost :
        /\ result(ok, queue, calls, isLost).ok = ok
        /\ result(ok, queue, calls, isLost).unsent = queue
        /\ result(ok, queue, calls, isLost).calls = calls
        /\ result(ok, queue, calls, isLost).lost \in BOOLEAN
  BY DEF Types
<1>3. unsent \in Seq(0 .. Sends) /\ Append(unsent, s) \in Seq(0 .. Sends)
  BY DEF Types
<1> HIDE DEF result
<1>4. PICK ok \in BOOLEAN, queue \in {unsent, Append(unsent, s)}, calls \in {<<>>, completion},
           isLost \in BOOLEAN : o = result(ok, queue, calls, isLost)
  BY <1>1
<1>5. o.ok = ok /\ o.unsent = queue /\ o.calls = calls /\ o.lost \in BOOLEAN
  BY <1>2, <1>4
<1>6. QED
  BY <1>3, <1>4, <1>5

(* A call that neither opens nor ends a send makes one more, or returns.    *)
LEMMA PopFacts ==
  ASSUME IInv, Running, stack[1].op \notin {"sendFails", "opened", "openError"}
  PROVE  /\ Types /\ Stacked(stack) /\ Stacked(Rest) /\ NoReport(Rest) /\ Alive
         /\ ToSet(Rest) \subseteq ToSet(stack) /\ Fails(Rest) = Fails(stack)
         /\ ~OnTop(stack, "opened") /\ ~OnTop(stack, "openError")
         /\ ~reopened /\ AnswersFit => Quiet(Rest) /\ Consumes(Rest)
<1>1. /\ Types /\ Stacked(stack) /\ Stacked(Rest) /\ NoReport(Rest) /\ Alive
      /\ ToSet(stack) = {stack[1]} \cup ToSet(Rest)
  BY StackedPop DEF IInv, Rest, Running
<1>2. Fails(Rest) = Fails(stack)
  BY <1>1 DEF Fails
<1>3. ~OnTop(stack, "opened") /\ ~OnTop(stack, "openError")
  BY DEF OnTop
<1>4. ASSUME ~reopened, AnswersFit PROVE Quiet(Rest) /\ Consumes(Rest)
  <2>1. Quiet(stack) /\ Consumes(stack)
    BY <1>1, <1>3, <1>4, QuietStack
  <2>2. QED
    BY <1>1, <2>1 DEF Quiet, Consumes
<1>5. QED
  BY <1>1, <1>2, <1>3, <1>4

LEMMA RespondIInv == ASSUME IInv, Running, Respond PROVE IInv'
<1>0. /\ Types /\ Stacked(stack) /\ Stacked(Rest) /\ NoReport(Rest) /\ Alive
      /\ ToSet(Rest) \subseteq ToSet(stack) /\ Fails(Rest) = Fails(stack)
      /\ ~OnTop(stack, "opened") /\ ~OnTop(stack, "openError")
      /\ ~reopened /\ AnswersFit => Quiet(Rest) /\ Consumes(Rest)
  BY PopFacts DEF Respond, Top
<1>1. UNCHANGED <<received, pending_sends, on_ws_close_complete, fault, io, history>>
  BY DEF Respond
<1>2. CASE \E o \in XioSend(CloseFrame, Call("closeSent")) :
             /\ unsent' = o.unsent /\ lost' = o.lost /\ stack' = o.calls \o Rest
             /\ UNCHANGED <<uws_state, under, inbound>>
  <2>1. PICK o \in XioSend(CloseFrame, Call("closeSent")) :
          /\ unsent' = o.unsent /\ lost' = o.lost /\ stack' = o.calls \o Rest
          /\ UNCHANGED <<uws_state, under, inbound>>
    BY <1>2
  <2>2. /\ o.unsent \in Seq(0 .. Sends) /\ o.lost \in BOOLEAN
        /\ o.calls \in {<<>>, Call("closeSent")}
    <3>1. CloseFrame \in 0 .. Sends
      BY UwsAssumption DEF CloseFrame
    <3>2. QED
      BY <1>0, <3>1, XioSends
  <2>3. Types'
    BY <1>0, <1>1, <2>1, <2>2 DEF Types, history, opening, sendHistory
  <2>4. /\ Stacked(stack') /\ Fails(stack') = Fails(Rest)
        /\ \A f \in ToSet(stack') \ ToSet(Rest) : f.op = "closeSent"
    <3>1. CASE o.calls = <<>>
      <4>1. stack' = Rest
        BY <1>0, <2>1, <3>1 DEF Stacked
      <4>2. QED
        BY <1>0, <4>1
    <3>2. CASE o.calls = Call("closeSent")
      <4>1. Pushed(stack', CallFrame("closeSent"), Rest)
        BY <1>0, <2>1, <3>2, PutCall DEF Anywhere, AllOps, ClientOps
      <4>2. QED
        BY <4>1 DEF Pushed, CallFrame, Fails
    <3>3. QED
      BY <2>2, <3>1, <3>2
  <2>5. \A f \in ToSet(stack') \ ToSet(stack) :
          /\ f.op \notin {"openError", "tlsCloses", "opened"}
          /\ f.op = "consume" => f.n <= Len(received)
          /\ f.op \in {"decode", "masked"} => Decoding(stack)
    BY <1>0, <2>4
  <2>6. QED
    BY <1>0, <1>1, <2>1, <2>3, <2>4, <2>5, AloneIInv DEF history, opening
<1>3. CASE CloseUnderlying(Rest) /\ UNCHANGED <<unsent, lost>>
  <2>1. Closes(Rest)
    BY <1>1, <1>3 DEF Closes, history
  <2>2. QED
    BY <1>0, <1>1, <1>3, <2>1, ClosesIInv DEF ioQueue, history
<1>4. QED
  BY <1>2, <1>3 DEF Respond

LEMMA OnUnderlyingCloseSentIInv == ASSUME IInv, Running, OnUnderlyingCloseSent PROVE IInv'
<1>0. /\ Types /\ Stacked(stack) /\ Stacked(Rest) /\ NoReport(Rest) /\ Alive
      /\ ToSet(Rest) \subseteq ToSet(stack) /\ Fails(Rest) = Fails(stack)
      /\ ~OnTop(stack, "opened") /\ ~OnTop(stack, "openError")
      /\ ~reopened /\ AnswersFit => Quiet(Rest) /\ Consumes(Rest)
  BY PopFacts DEF OnUnderlyingCloseSent, Top
<1>1. UNCHANGED <<received, pending_sends, on_ws_close_complete, fault, ioQueue, opening, answers,
                  delivered, sendHistory, asked>>
  BY DEF OnUnderlyingCloseSent
<1>2. CASE CloseUnderlyingOrIndicate(Rest, <<>>)
  <2>1. Closes(Rest)
    BY <1>2 DEF Closes
  <2>2. QED
    BY <1>0, <1>1, <2>1, ClosesIInv
<1>3. CASE stack' = Rest /\ UNCHANGED <<uws_state, under, inbound, noticed>>
  <2>1. Types'
    BY <1>0, <1>1, <1>3 DEF Types, ioQueue, opening, sendHistory
  <2>2. QED
    BY <1>0, <1>1, <1>3, <2>1, AloneIInv DEF opening
<1>4. QED
  BY <1>2, <1>3 DEF OnUnderlyingCloseSent

LEMMA OnUnderlyingCloseCompleteIInv ==
  ASSUME IInv, Running, OnUnderlyingCloseComplete PROVE IInv'
<1>0. /\ Types /\ Stacked(stack) /\ Stacked(Rest) /\ NoReport(Rest) /\ Alive
      /\ ToSet(Rest) \subseteq ToSet(stack) /\ Fails(Rest) = Fails(stack)
      /\ ~OnTop(stack, "opened") /\ ~OnTop(stack, "openError")
  BY PopFacts DEF OnUnderlyingCloseComplete, Top
<1>1. UNCHANGED <<received, pending_sends, on_ws_close_complete, fault, ioVars, opening, answers,
                  delivered, sendHistory, asked>>
  BY DEF OnUnderlyingCloseComplete
<1>2. /\ Ended(stack', Rest) /\ noticed' \in Nat
      /\ uws_state' = uws_state \/ uws_state' = "CLOSED"
  <2>1. /\ Ended(Rest, Rest) /\ Ended(Call("toClosed") \o Rest, Rest)
        /\ Ended(User("closed") \o (Call("toClosed") \o Rest), Rest)
    BY <1>0, EndedPut DEF Events
  <2>2. Call("toClosed") \o Rest \in Seq(FrameSet)
    BY <2>1 DEF Ended, Stacked
  <2> DEFINE b == Call("toClosed") \o Rest
  <2> HIDE DEF b
  <2>3. <<>> \o b = b
    BY <2>2 DEF b
  <2>4. CASE IndicateClosed(b)
    <3>1. /\ uws_state' = "CLOSED"
          /\ noticed' = noticed + (IF on_ws_close_complete THEN 1 ELSE 0)
          /\ stack' = (IF on_ws_close_complete THEN User("closed") ELSE <<>>) \o b
      BY <2>4 DEF IndicateClosed
    <3>2. noticed' \in Nat
      BY <1>0, <3>1 DEF Types
    <3>3. stack' = User("closed") \o b \/ stack' = b
      BY <2>3, <3>1
    <3>4. Ended(b, Rest) /\ Ended(User("closed") \o b, Rest)
      BY <2>1 DEF b
    <3>5. QED
      BY <3>1, <3>2, <3>3, <3>4
  <2>5. CASE stack' = Rest /\ UNCHANGED <<uws_state, noticed>>
    BY <1>0, <2>1, <2>5 DEF Types
  <2>6. QED
    BY <2>4, <2>5 DEF OnUnderlyingCloseComplete, b
<1>3. Types'
  BY <1>0, <1>1, <1>2 DEF Types, ioVars, ioQueue, opening, sendHistory
<1>4. \A f \in ToSet(stack') \ ToSet(stack) : f.op \in {"user", "toClosed"}
  BY <1>0, <1>2 DEF Ended
<1>5. Stacked(stack') /\ Fails(stack') = Fails(stack)
  BY <1>0, <1>2 DEF Ended
<1>6. QED
  BY <1>0, <1>1, <1>2, <1>3, <1>4, <1>5, AloneIInv DEF ioVars, opening, Pending

(* The io has opened or failed to, and reports it.                          *)
LEMMA OpenedFacts ==
  ASSUME IInv, Running, Top("opened")
  PROVE  /\ Types /\ Stacked(stack) /\ Stacked(Rest) /\ NoReport(Rest) /\ Alive
         /\ ToSet(Rest) \subseteq ToSet(stack) /\ Fails(Rest) = Fails(stack)
         /\ ~reopened /\ AnswersFit =>
              /\ answers = <<>> /\ Consumes(Rest)
              /\ under = "opening" => io = "tls" /\ uws_state # "OPENING_UNDERLYING_IO"
              /\ under # "opening" => Quiet(Rest)
              /\ uws_state = "OPENING_UNDERLYING_IO" => ~Decoding(Rest)
<1>1. /\ Types /\ Stacked(stack) /\ Stacked(Rest) /\ NoReport(Rest) /\ Alive
      /\ ToSet(stack) = {stack[1]} \cup ToSet(Rest) /\ OnTop(stack, "opened")
      /\ stack[1].op = "opened"
  BY StackedPop DEF IInv, Rest, Running, Top, OnTop
<1>2. Fails(Rest) = Fails(stack)
  BY <1>1 DEF Fails
<1>3. ASSUME ~reopened, AnswersFit
      PROVE  /\ answers = <<>> /\ Consumes(Rest)
             /\ under = "opening" => io = "tls" /\ uws_state # "OPENING_UNDERLYING_IO"
             /\ under # "opening" => Quiet(Rest)
             /\ uws_state = "OPENING_UNDERLYING_IO" => ~Decoding(Rest)
  <2>1. /\ answers = <<>> /\ Consumes(Rest)
        /\ under = "opening" => io = "tls" /\ uws_state # "OPENING_UNDERLYING_IO"
    BY <1>1, <1>3 DEF AnswersFit, Consumes
  <2>2. ~Has(stack, "openError") /\ (under # "opening" => ~Has(stack, "tlsCloses"))
    BY <1>1, <1>3 DEF AnswersFit
  <2>3. under # "opening" => Quiet(Rest)
    BY <1>1, <2>2 DEF Quiet, Has, NoReport, AtOnce
  <2>4. uws_state = "OPENING_UNDERLYING_IO" => ~Decoding(Rest)
    BY <1>1, <1>3 DEF AnswersFit, Decoding, Has
  <2>5. QED
    BY <2>1, <2>3, <2>4
<1>4. QED
  BY <1>1, <1>2, <1>3

(* The open is answered with an error, or its answer is to follow.          *)
LEMMA OpenEndsIInv ==
  ASSUME IInv, Running, Top("opened"),
         \/ IndicateOpenError(Rest) /\ UNCHANGED <<under, inbound>>
         \/ IndicateOpenErrorAndClose(Rest),
         \/ uws_state = "OPENING_UNDERLYING_IO"
         \/ ~(io = "tls" /\ under = "opening") /\ IndicateOpenErrorAndClose(Rest),
         UNCHANGED <<fault, received, pending_sends, on_ws_close_complete, ioQueue, reopened,
                     opens, reply, delivered, sendHistory, asked, noticed>>,
         nonceFailed' \in BOOLEAN
  PROVE  IInv'
<1>0. /\ Types /\ Stacked(stack) /\ Stacked(Rest) /\ NoReport(Rest) /\ Alive
      /\ ToSet(Rest) \subseteq ToSet(stack) /\ Fails(Rest) = Fails(stack)
      /\ ~reopened /\ AnswersFit =>
           /\ answers = <<>> /\ Consumes(Rest)
           /\ under = "opening" => io = "tls" /\ uws_state # "OPENING_UNDERLYING_IO"
           /\ under # "opening" => Quiet(Rest)
           /\ uws_state = "OPENING_UNDERLYING_IO" => ~Decoding(Rest)
  BY OpenedFacts
<1>1. CASE IndicateOpenError(Rest) /\ UNCHANGED <<under, inbound>>
           /\ uws_state = "OPENING_UNDERLYING_IO"
  <2>1. /\ uws_state' = "CLOSED" /\ answers' = Append(answers, "ERROR")
        /\ stack' = User("open") \o Rest
    BY <1>1 DEF IndicateOpenError
  <2>2. answers' \in Seq({"OK", "ERROR"}) /\ (answers = <<>> => Len(answers') <= 1)
    BY <1>0, <2>1 DEF Types
  <2>3. Types'
    BY <1>0, <1>1, <2>1, <2>2 DEF Types, ioQueue, sendHistory
  <2>4. Pushed(stack', UserFrame("open"), Rest)
    BY <1>0, <2>1, PutUser DEF Events
  <2>5. /\ Stacked(stack') /\ Fails(stack') = Fails(stack)
        /\ \A f \in ToSet(stack') : f \in ToSet(Rest) \/ f.op = "user"
    BY <1>0, <2>4 DEF Pushed, Fails, UserFrame
  <2>6. Accounts'
    BY <2>5, AccountsStay DEF IInv, sendHistory
  <2>7. ASSUME ~reopened', AnswersFit PROVE AnswersFit' /\ Len(answers') <= 1
    <3>1. Quiet(stack') /\ Consumes(stack)' /\ under' # "opening"
      BY <1>0, <1>1, <2>5, <2>7 DEF Quiet, Consumes
    <3>2. AnswersFit'
      BY <2>1, <2>5, <3>1, AnswersStay DEF Pending
    <3>3. QED
      BY <1>0, <2>2, <2>7, <3>2
  <2>8. QED
    BY <1>0, <2>3, <2>5, <2>6, <2>7, StepIInv DEF Alive
<1>2. CASE IndicateOpenErrorAndClose(Rest)
  <2>1. UNCHANGED <<uws_state, answers>>
    BY <1>2 DEF IndicateOpenErrorAndClose
  <2>2. /\ Stacked(stack') /\ Fails(stack') = Fails(Rest)
        /\ under' \in {"closed", "opening"} /\ inbound' \in Seq(Piece)
    BY <1>0, <1>2, ErrorAndClosePut
  <2>3. Types'
    BY <1>0, <2>1, <2>2 DEF Types, ioQueue, sendHistory
  <2>4. Accounts'
    BY <1>0, <2>2, AccountsStay DEF IInv, sendHistory
  <2>5. ASSUME ~reopened', AnswersFit PROVE AnswersFit' /\ answers' = <<>>
    <3>1. under # "opening"
      BY <1>0, <2>5
    <3>2. PICK b : b = Rest
      OBVIOUS
    <3>3. /\ Stacked(b) /\ NoReport(b) /\ IndicateOpenErrorAndClose(b) /\ Quiet(b)
          /\ uws_state = "OPENING_UNDERLYING_IO" => ~Decoding(b)
      BY <1>0, <1>2, <2>5, <3>1, <3>2
    <3>4. Consumes(b)'
      BY <1>0, <2>5, <3>2 DEF Consumes
    <3>5. QED
      BY <1>0, <2>5, <3>1, <3>3, <3>4, ErrorAndCloseAnswers
  <2>6. answers' = <<>> => Len(answers') <= 1
    OBVIOUS
  <2>7. QED
    BY <1>0, <2>2, <2>3, <2>4, <2>5, <2>6, StepIInv DEF Alive
<1>3. QED
  BY <1>1, <1>2

LEMMA OnUnderlyingOpenCompleteIInv ==
  ASSUME IInv, Running, OnUnderlyingOpenComplete PROVE IInv'
<1>0. /\ Types /\ Stacked(stack) /\ Stacked(Rest) /\ NoReport(Rest) /\ Alive /\ Top("opened")
      /\ ToSet(Rest) \subseteq ToSet(stack) /\ Fails(Rest) = Fails(stack)
      /\ ~reopened /\ AnswersFit =>
           /\ answers = <<>> /\ Consumes(Rest)
           /\ under = "opening" => io = "tls" /\ uws_state # "OPENING_UNDERLYING_IO"
           /\ under # "opening" => Quiet(Rest)
           /\ uws_state = "OPENING_UNDERLYING_IO" => ~Decoding(Rest)
  BY OpenedFacts DEF OnUnderlyingOpenComplete
<1>1. UNCHANGED <<received, pending_sends, on_ws_close_complete, ioQueue, reopened, opens, reply,
                  delivered, sendHistory, asked, noticed>>
  BY DEF OnUnderlyingOpenComplete
<1>2. CASE /\ uws_state # "OPENING_UNDERLYING_IO" /\ ~(io = "tls" /\ under = "opening")
           /\ IndicateOpenErrorAndClose(Rest) /\ UNCHANGED <<fault, nonceFailed>>
  BY <1>0, <1>1, <1>2, OpenEndsIInv DEF Types
<1>3. CASE /\ fault' = "recursion"
           /\ UNCHANGED <<uws_state, stack, under, inbound, answers, nonceFailed>>
  <2>1. Types'
    BY <1>0, <1>1, <1>3 DEF Types, ioQueue, sendHistory
  <2>2. Accounts'
    BY <1>1, <1>3, AccountsStay DEF IInv, sendHistory
  <2>3. ASSUME ~reopened PROVE Len(answers') <= 1
    BY <1>3, <2>3 DEF IInv
  <2>4. QED
    BY <1>0, <1>1, <1>3, <2>1, <2>2, <2>3, StepIInv DEF Alive
<1>4. CASE /\ uws_state = "OPENING_UNDERLYING_IO" /\ IndicateOpenError(Rest)
           /\ UNCHANGED <<under, inbound, fault>> /\ nonceFailed' \in {nonceFailed, TRUE}
  BY <1>0, <1>1, <1>4, OpenEndsIInv DEF Types
<1>5. CASE /\ uws_state = "OPENING_UNDERLYING_IO" /\ IndicateOpenErrorAndClose(Rest)
           /\ UNCHANGED <<fault, nonceFailed>>
  BY <1>0, <1>1, <1>5, OpenEndsIInv DEF Types
<1>6. CASE /\ under = "open" /\ uws_state' = "WAITING_FOR_UPGRADE_RESPONSE" /\ stack' = Rest
           /\ UNCHANGED <<under, inbound, answers, nonceFailed, fault>>
  <2>1. Types'
    BY <1>0, <1>1, <1>6 DEF Types, ioQueue, sendHistory
  <2>2. Accounts'
    BY <1>0, <1>1, <1>6, AccountsStay DEF IInv, sendHistory
  <2>3. ASSUME ~reopened', AnswersFit PROVE AnswersFit' /\ Len(answers') <= 1
    <3>1. Quiet(stack') /\ Consumes(stack)' /\ answers' = <<>>
      BY <1>0, <1>1, <1>6, <2>3 DEF Consumes
    <3>2. AnswersFit'
      BY <1>0, <1>6, <3>1, AnswersStay
    <3>3. QED
      BY <3>1, <3>2
  <2>4. QED
    BY <1>0, <1>1, <1>6, <2>1, <2>2, <2>3, StepIInv DEF Alive
<1>7. QED
  BY <1>2, <1>3, <1>4, <1>5, <1>6 DEF OnUnderlyingOpenComplete

-------------------------------------------------------------------------------
(* The sends of the client.                                                 *)
LEMMA WithoutElements ==
  ASSUME NEW E, NEW q \in Seq(E), Distinct(q), NEW s
  PROVE  /\ Without(q, s) \in Seq(E) /\ Distinct(Without(q, s))
         /\ ToSet(Without(q, s)) = ToSet(q) \ {s}
<1>1. CASE s \notin ToSet(q)
  BY <1>1 DEF Without
<1>2. CASE s \in ToSet(q)
  <2> DEFINE n == CHOOSE i \in DOMAIN q : q[i] = s
             r == RemoveAt(q, n)
  <2>1. n \in DOMAIN q /\ q[n] = s
    BY <1>2 DEF ToSet
  <2>2. Without(q, s) = r
    BY <1>2 DEF Without
  <2> HIDE DEF n
  <2>3. /\ r \in Seq(E) /\ DOMAIN r = 1 .. Len(q) - 1
        /\ \A i \in 1 .. Len(q) - 1 : r[i] = IF i < n THEN q[i] ELSE q[i + 1]
    BY <2>1, RemoveAtElements
  <2> HIDE DEF r
  <2>4. Len(q) \in Nat /\ DOMAIN q = 1 .. Len(q) /\ n \in 1 .. Len(q)
    BY <2>1
  <2>5. \A i, j \in DOMAIN q : q[i] = q[j] => i = j
    BY DEF Distinct
  <2>6. \A i \in DOMAIN r : \E j \in DOMAIN q :
          /\ j = (IF i < n THEN i ELSE i + 1) /\ r[i] = q[j] /\ j # n
    BY <2>3, <2>4
  <2>7. Distinct(r)
    <3>1. ASSUME NEW i \in DOMAIN r, NEW j \in DOMAIN r, r[i] = r[j] PROVE i = j
      <4>1. PICK k \in DOMAIN q : k = (IF i < n THEN i ELSE i + 1) /\ r[i] = q[k]
        BY <2>6
      <4>2. PICK l \in DOMAIN q : l = (IF j < n THEN j ELSE j + 1) /\ r[j] = q[l]
        BY <2>6
      <4>3. k = l
        BY <2>5, <3>1, <4>1, <4>2
      <4>4. QED
        BY <2>3, <2>4, <4>1, <4>2, <4>3
    <3>2. QED
      BY <3>1 DEF Distinct
  <2>8. ASSUME NEW x \in ToSet(r) PROVE x \in ToSet(q) \ {s}
    <3>1. PICK i \in DOMAIN r : x = r[i]
      BY <2>8 DEF ToSet
    <3>2. PICK j \in DOMAIN q : r[i] = q[j] /\ j # n
      BY <2>6
    <3>3. q[j] # s
      BY <2>1, <2>5, <3>2
    <3>4. QED
      BY <3>1, <3>2, <3>3 DEF ToSet
  <2>9. ASSUME NEW x \in ToSet(q) \ {s} PROVE x \in ToSet(r)
    <3>1. PICK j \in DOMAIN q : x = q[j]
      BY <2>9 DEF ToSet
    <3>2. j # n
      BY <2>1, <2>9, <3>1
    <3>3. CASE j < n
      <4>1. j \in DOMAIN r /\ r[j] = q[j]
        BY <2>3, <2>4, <3>3
      <4>2. QED
        BY <3>1, <4>1 DEF ToSet
    <3>4. CASE ~(j < n)
      <4>1. j - 1 \in DOMAIN r /\ ~(j - 1 < n) /\ (j - 1) + 1 = j
        BY <2>3, <2>4, <3>2, <3>4
      <4>2. r[j - 1] = q[j]
        BY <2>3, <4>1
      <4>3. QED
        BY <3>1, <4>1, <4>2 DEF ToSet
    <3>5. QED
      BY <3>3, <3>4
  <2>10. QED
    BY <2>2, <2>3, <2>7, <2>8, <2>9
<1>3. QED
  BY <1>1, <1>2

LEMMA TailElements ==
  ASSUME NEW E, NEW q \in Seq(E), q # <<>>, Distinct(q)
  PROVE  /\ Tail(q) \in Seq(E) /\ Distinct(Tail(q)) /\ Head(q) \in ToSet(q) /\ Head(q) \in E
         /\ ToSet(Tail(q)) = ToSet(q) \ {Head(q)}
<1> DEFINE r == Tail(q)
<1>1. /\ Len(q) \in Nat /\ Len(q) # 0 /\ DOMAIN q = 1 .. Len(q) /\ Head(q) = q[1]
      /\ r \in Seq(E) /\ DOMAIN r = 1 .. Len(q) - 1
      /\ \A i \in 1 .. Len(q) - 1 : r[i] = q[i + 1]
  <2>1. Len(q) # 0
    BY EmptySeq
  <2>2. r \in Seq(E) /\ Len(r) = Len(q) - 1 /\ \A i \in 1 .. Len(r) : r[i] = q[i + 1]
    BY <2>1, HeadTailProperties
  <2>3. QED
    BY <2>1, <2>2
<1> HIDE DEF r
<1>2. 1 \in DOMAIN q /\ q[1] \in E
  BY <1>1
<1>3. \A i, j \in DOMAIN q : q[i] = q[j] => i = j
  BY DEF Distinct
<1>4. \A i \in DOMAIN r : i + 1 \in DOMAIN q /\ r[i] = q[i + 1] /\ i + 1 # 1 /\ i \in Int
  BY <1>1
<1>5. Distinct(r)
  <2>1. ASSUME NEW i \in DOMAIN r, NEW j \in DOMAIN r, r[i] = r[j] PROVE i = j
    <3>1. i + 1 = j + 1
      BY <1>3, <1>4, <2>1
    <3>2. QED
      BY <1>4, <3>1
  <2>2. QED
    BY <2>1 DEF Distinct
<1>6. ASSUME NEW x \in ToSet(r) PROVE x \in ToSet(q) \ {Head(q)}
  <2>1. PICK i \in DOMAIN r : x = r[i]
    BY <1>6 DEF ToSet
  <2>2. q[i + 1] # q[1]
    BY <1>2, <1>3, <1>4
  <2>3. QED
    BY <1>1, <1>4, <2>1, <2>2 DEF ToSet
<1>7. ASSUME NEW x \in ToSet(q) \ {Head(q)} PROVE x \in ToSet(r)
  <2>1. PICK j \in DOMAIN q : x = q[j]
    BY <1>7 DEF ToSet
  <2>2. j # 1
    BY <1>1, <1>7, <2>1
  <2>3. j - 1 \in 1 .. Len(q) - 1 /\ (j - 1) + 1 = j
    BY <1>1, <2>2
  <2>4. j - 1 \in DOMAIN r /\ r[j - 1] = q[j]
    BY <1>1, <2>3
  <2>5. QED
    BY <2>1, <2>4 DEF ToSet
<1>8. QED
  BY <1>1, <1>2, <1>5, <1>6, <1>7 DEF r, ToSet

(* Send s completes: it leaves the list, and its completion runs.           *)
LEMMA CompletedAccounts ==
  ASSUME Types, Accounts, NEW s \in ToSet(pending_sends), Distinct(pending_sends'),
         ToSet(pending_sends') = ToSet(pending_sends) \ {s},
         done' = [done EXCEPT ![s] = @ + 1], UNCHANGED <<sends, accepted>>,
         Fails(stack') = Fails(stack)
  PROVE  Accounts' /\ done' \in [1 .. Sends -> Nat]
<1>1. s \in 1 .. sends /\ s \in 1 .. Sends /\ sends \in 0 .. Sends /\ Sends \in Nat
  BY UwsAssumption DEF Accounts, Types
<1>2. /\ done[s] = 0 /\ done'[s] = 1 /\ done' \in [1 .. Sends -> Nat]
      /\ \A t \in 1 .. Sends : t # s => done'[t] = done[t]
  BY <1>1 DEF Accounts, Types
<1>3. ~(s > sends)
  BY <1>1
<1>4. ASSUME NEW t \in 1 .. Sends
      PROVE  /\ done'[t] <= 1
             /\ t \in ToSet(pending_sends') \/ t > sends' => done'[t] = 0
             /\ t \in accepted' /\ done'[t] = 0 => t \in ToSet(pending_sends')
             /\ t \in ToSet(pending_sends') /\ t \notin accepted' =>
                  \E f \in Fails(stack') : f.n = t
  BY <1>2, <1>3 DEF Accounts
<1>5. QED
  BY <1>2, <1>4 DEF Accounts

LEMMA SendFailsIInv == ASSUME IInv, Running, SendFails PROVE IInv'
<1>0. /\ Types /\ Stacked(stack) /\ Stacked(Rest) /\ NoReport(Rest) /\ Alive /\ Accounts
      /\ ToSet(stack) = {stack[1]} \cup ToSet(Rest) /\ stack[1].op = "sendFails"
      /\ stack[1] \in ToSet(stack)
  BY StackedPop DEF IInv, Rest, Running, SendFails, Top
<1> DEFINE s == stack[1].n
<1>1. /\ pending_sends' = Without(pending_sends, s) /\ stack' = Rest
      /\ UNCHANGED <<uws_state, received, on_ws_close_complete, fault, ioVars, history>>
  BY DEF SendFails
<1>2. /\ pending_sends' \in Seq(1 .. Sends) /\ Distinct(pending_sends')
      /\ ToSet(pending_sends') = ToSet(pending_sends) \ {s}
  BY <1>0, <1>1, WithoutElements DEF Types, Accounts
<1>3. Types'
  BY <1>0, <1>1, <1>2 DEF Types, ioVars, ioQueue, history, opening, sendHistory
<1>4. Fails(stack) = {stack[1]} \cup Fails(stack') /\ stack[1] \in Fails(stack)
  BY <1>0, <1>1 DEF Fails
<1>5. UNCHANGED <<sends, accepted, done>>
  BY <1>1 DEF history, sendHistory
<1>6. s \in 1 .. sends /\ s \notin accepted
  BY <1>0, <1>4 DEF Accounts
<1> HIDE DEF s
<1>7. ASSUME NEW t \in ToSet(pending_sends'), t \notin accepted PROVE \E f \in Fails(stack') : f.n = t
  <2>0. t \in ToSet(pending_sends) /\ t \in 1 .. Sends
    BY <1>0, <1>2, <1>7, UwsAssumption DEF Accounts, Types
  <2>1. PICK f \in Fails(stack) : f.n = t
    BY <1>0, <1>7, <2>0 DEF Accounts
  <2>2. f # stack[1]
    BY <1>2, <1>7, <2>1 DEF s
  <2>3. QED
    BY <1>4, <2>1, <2>2
<1>8. Accounts'
  BY <1>0, <1>2, <1>4, <1>5, <1>6, <1>7 DEF Accounts
<1>9. ASSUME ~reopened', AnswersFit PROVE AnswersFit'
  <2>1. ~OnTop(stack, "opened") /\ ~OnTop(stack, "openError")
    BY <1>0 DEF OnTop
  <2>2. Quiet(stack) /\ Consumes(stack)
    BY <1>0, <1>9, <2>1, QuietStack
  <2>3. Quiet(stack') /\ Consumes(stack)' /\ (Decoding(stack') => Decoding(stack))
    BY <1>0, <1>1, <2>2 DEF Quiet, Consumes, Decoding, Has
  <2>4. QED
    BY <1>0, <1>1, <1>9, <2>1, <2>3, AnswersStay DEF AnswersFit, Pending, ioVars, history
<1>10. QED
  BY <1>0, <1>1, <1>3, <1>8, <1>9, StepIInv DEF IInv, Alive, history, opening

(* The completion of a send puts its callback on b.                         *)
LEMMA CompletionIInv ==
  ASSUME IInv, Alive, NEW b, Stacked(b), NoReport(b), ToSet(b) \subseteq ToSet(stack),
         Fails(b) = Fails(stack), ~OnTop(stack, "opened"), ~OnTop(stack, "openError"),
         NEW s \in ToSet(pending_sends), Distinct(pending_sends'),
         ToSet(pending_sends') = ToSet(pending_sends) \ {s}, pending_sends' \in Seq(1 .. Sends),
         done' = [done EXCEPT ![s] = @ + 1], stack' = Frame("user", "sent", s) \o b,
         UNCHANGED <<uws_state, received, on_ws_close_complete, fault, ioVars, opening, answers,
                     delivered, sends, accepted, asked, noticed>>
  PROVE  IInv'
<1>1. s \in Nat
  BY UwsAssumption DEF IInv, Accounts, Types
<1> DEFINE f == [op |-> "user", ev |-> "sent", n |-> s]
<1>2. Pushed(stack', f, b)
  BY <1>1, Put, UserOpsAssumption DEF Anywhere, AllOps, ClientOps, Evs, Events
<1>3. f.op = "user"
  OBVIOUS
<1> HIDE DEF f
<1>4. Stacked(stack') /\ ToSet(stack') = {f} \cup ToSet(b) /\ Fails(stack') = Fails(stack)
  BY <1>2, <1>3 DEF Pushed, Fails
<1>5. Accounts' /\ done' \in [1 .. Sends -> Nat]
  BY <1>4, CompletedAccounts DEF IInv
<1>6. Types'
  BY <1>5 DEF IInv, Types, ioVars, ioQueue, opening
<1>7. ASSUME ~reopened', AnswersFit PROVE AnswersFit'
  <2>1. Quiet(stack) /\ Consumes(stack)
    BY <1>7, QuietStack DEF IInv
  <2>2. Quiet(stack') /\ Consumes(stack)' /\ (Decoding(stack') => Decoding(stack))
    BY <1>3, <1>4, <2>1 DEF Quiet, Consumes, Decoding, Has
  <2>3. QED
    BY <1>4, <1>7, <2>2, AnswersStay DEF AnswersFit, Pending, ioVars
<1>8. QED
  BY <1>4, <1>5, <1>6, <1>7, StepIInv DEF IInv, Alive, opening

LEMMA OnUnderlyingSendCompleteIInv ==
  ASSUME IInv, Running, OnUnderlyingSendComplete PROVE IInv'
<1>0. /\ Types /\ Stacked(stack) /\ Stacked(Rest) /\ NoReport(Rest) /\ Alive
      /\ ToSet(Rest) \subseteq ToSet(stack) /\ Fails(Rest) = Fails(stack)
      /\ ~OnTop(stack, "opened") /\ ~OnTop(stack, "openError")
  BY PopFacts DEF OnUnderlyingSendComplete, Top
<1> DEFINE s == stack[1].n
<1>1. UNCHANGED <<uws_state, received, on_ws_close_complete, ioVars, opening, answers, delivered,
                  sends, accepted, asked, noticed>>
  BY DEF OnUnderlyingSendComplete
<1>2. CASE /\ s \in ToSet(pending_sends) /\ pending_sends' = Without(pending_sends, s)
           /\ done' = [done EXCEPT ![s] = @ + 1]
           /\ stack' = Frame("user", "sent", s) \o Rest /\ UNCHANGED fault
  <2>1. /\ pending_sends' \in Seq(1 .. Sends) /\ Distinct(pending_sends')
        /\ ToSet(pending_sends') = ToSet(pending_sends) \ {s}
    BY <1>0, <1>2, WithoutElements DEF IInv, Types, Accounts
  <2> HIDE DEF s
  <2>2. QED
    BY <1>0, <1>1, <1>2, <2>1, CompletionIInv
<1>3. CASE fault' = "dangling" /\ UNCHANGED <<pending_sends, done, stack>>
  <2>1. Types'
    BY <1>0, <1>1, <1>3 DEF Types, ioVars, ioQueue, opening
  <2>2. Accounts'
    BY <1>1, <1>3, AccountsStay DEF IInv
  <2>3. QED
    BY <1>0, <1>1, <1>3, <2>1, <2>2, StepIInv DEF IInv, Alive, opening
<1>4. QED
  BY <1>1, <1>2, <1>3 DEF OnUnderlyingSendComplete

LEMMA CancelIInv == ASSUME IInv, Running, Cancel PROVE IInv'
<1>0. /\ Types /\ Stacked(stack) /\ Stacked(Rest) /\ Alive /\ stack # <<>>
      /\ ToSet(stack) = {stack[1]} \cup ToSet(Rest) /\ stack[1].op = "cancel" /\ NoReport(Rest)
      /\ ~OnTop(stack, "opened") /\ ~OnTop(stack, "openError")
  BY StackedPop DEF IInv, Rest, Running, Cancel, Top, OnTop
<1>1. UNCHANGED <<uws_state, received, on_ws_close_complete, fault, ioVars, opening, answers,
                  delivered, sends, accepted, asked, noticed>>
  BY DEF Cancel
<1>2. CASE stack' = Rest /\ UNCHANGED <<pending_sends, done>>
  <2>1. Types'
    BY <1>0, <1>1, <1>2 DEF Types, ioVars, ioQueue, opening
  <2>2. QED
    BY <1>0, <1>1, <1>2, <2>1, ReturnsIInv DEF sendHistory, ioVars, opening
<1>3. CASE /\ pending_sends # <<>> /\ pending_sends' = Tail(pending_sends)
           /\ done' = [done EXCEPT ![Head(pending_sends)] = @ + 1]
           /\ stack' = Frame("user", "sent", Head(pending_sends)) \o stack
  <2> DEFINE s == Head(pending_sends)
  <2>1. /\ pending_sends' \in Seq(1 .. Sends) /\ Distinct(pending_sends')
        /\ ToSet(pending_sends') = ToSet(pending_sends) \ {s} /\ s \in ToSet(pending_sends)
    BY <1>0, <1>3, TailElements DEF IInv, Types, Accounts
  <2>2. NoReport(stack)
    BY <1>0 DEF NoReport, AtOnce
  <2>3. done' = [done EXCEPT ![s] = @ + 1] /\ stack' = Frame("user", "sent", s) \o stack
    BY <1>3
  <2> HIDE DEF s
  <2>4. QED
    BY <1>0, <1>1, <2>1, <2>2, <2>3, CompletionIInv
<1>4. QED
  BY <1>1, <1>2, <1>3 DEF Cancel

-------------------------------------------------------------------------------
(* The calls of the user.                                                   *)
(* A caller runs: the user, or a module between him and the client.         *)
Calling == Alive /\ (stack = <<>> \/ stack[1].op \in UserOps)

(* Where a caller returns to, who may have more to do himself.              *)
Resumes(t) ==
  /\ Stacked(t) /\ NoReport(t) /\ ToSet(stack) \subseteq ToSet(t)
  /\ \A f \in ToSet(t) : f \in ToSet(stack) \/ f.op \in UserOps

LEMMA ResumesFacts ==
  ASSUME NEW t, Resumes(t)
  PROVE  /\ Stacked(t) /\ NoReport(t) /\ Fails(t) = Fails(stack)
         /\ Quiet(stack) => Quiet(t)
         /\ Consumes(stack) => Consumes(t)
         /\ \A f \in ToSet(t) : f \in ToSet(stack) \/ f.op \in UserOps
<1>1. Fails(t) = Fails(stack)
  BY UserOpsAssumption DEF Resumes, Fails, AllOps, ClientOps
<1>2. /\ Quiet(stack) => Quiet(t)
      /\ Consumes(stack) => Consumes(t)
  BY UserOpsAssumption DEF Resumes, Quiet, Consumes, AllOps, ClientOps
<1>3. QED
  BY <1>1, <1>2 DEF Resumes

LEMMA CallingFacts ==
  ASSUME IInv, Calling
  PROVE  /\ Types /\ Stacked(stack) /\ NoReport(stack) /\ Alive
         /\ ~OnTop(stack, "opened") /\ ~OnTop(stack, "openError")
         /\ ~reopened /\ AnswersFit => Quiet(stack) /\ Consumes(stack)
<1>1. /\ Types /\ Stacked(stack) /\ Alive /\ (stack # <<>> => stack[1].op \in UserOps)
  BY DEF IInv, Calling
<1>2. NoReport(stack) /\ ~OnTop(stack, "opened") /\ ~OnTop(stack, "openError")
  <2>1. CASE stack = <<>>
    BY <2>1, EmptyStack DEF OnTop
  <2>2. CASE stack # <<>>
    <3>1. ToSet(stack) = {stack[1]} \cup ToSet(Tail(stack)) /\ NoReport(Tail(stack))
      BY <1>1, <2>2, StackedPop
    <3>2. stack[1].op \in UserOps
      BY <1>1, <2>2
    <3>3. QED
      BY <3>1, <3>2, UserOpsAssumption DEF NoReport, AtOnce, OnTop, AllOps, ClientOps
  <2>3. QED
    BY <2>1, <2>2
<1>3. QED
  BY <1>1, <1>2, QuietStack

LEMMA InUserFacts ==
  ASSUME IInv, InUser PROVE Calling /\ Resumes(stack)
<1>1. Calling
  BY UserOpsAssumption DEF InUser, Calling, AllOps, ClientOps
<1>2. QED
  BY <1>1, CallingFacts DEF Resumes

(* A close of the io that the user has begun puts its reports on b.         *)
LEMMA CloseWithIInv ==
  ASSUME IInv, Alive, NEW callback \in BOOLEAN, NEW b, Stacked(b), NoReport(b),
         Fails(b) = Fails(stack), ~reopened /\ AnswersFit => Quiet(b) /\ Consumes(b),
         on_ws_close_complete' = callback, uws_state' = "CLOSING_UNDERLYING_IO",
         Goes(XioClose(callback).under), stack' = XioClose(callback).calls \o b,
         asked' \in {"no", "close", "handshake"},
         UNCHANGED <<received, pending_sends, fault, ioQueue, opening, answers, delivered,
                     sendHistory, noticed>>
  PROVE  IInv'
<1>1. under' = XioClose(callback).under /\ inbound' \in {inbound, <<>>}
  BY DEF Goes
<1>2. under' \in {"closed", "opening"}
  BY <1>1, XioCloses DEF IInv
<1>3. Types'
  <2>1. on_ws_close_complete' \in BOOLEAN
    BY Zenon
  <2>2. inbound' \in Seq(Piece)
    <3>1. inbound \in Seq(Piece) /\ <<>> \in Seq(Piece)
      BY DEF IInv, Types
    <3>2. QED
      BY <1>1, <3>1
  <2>3. QED
    BY <1>2, <2>1, <2>2 DEF IInv, Types, ioQueue, opening, sendHistory
<1>4. ClosePut(stack', b)
  BY CloseCallsPut DEF IInv
<1>5. Stacked(stack') /\ Fails(stack') = Fails(stack)
  BY <1>4 DEF ClosePut
<1>6. Accounts'
  BY <1>5, AccountsStay DEF IInv, sendHistory
<1>7. ASSUME ~reopened', AnswersFit PROVE AnswersFit'
  <2>1. Quiet(b) /\ Consumes(b)'
    BY <1>7 DEF Consumes, opening
  <2>2. uws_state' \notin Pending
    BY DEF Pending
  <2>3. QED
    BY <1>1, <1>7, <2>1, <2>2, CloseCallsAnswers DEF IInv, ioQueue
<1>8. QED
  BY <1>3, <1>5, <1>6, <1>7, StepIInv DEF IInv, Alive, opening

LEMMA CloseCallIInv ==
  ASSUME IInv, Calling, NEW callback \in BOOLEAN, NEW then, Resumes(then),
         NEW failed, Resumes(failed), CloseWith(callback, then, failed)
  PROVE  IInv'
<1>0. /\ Types /\ Stacked(then) /\ NoReport(then) /\ Fails(then) = Fails(stack)
      /\ Stacked(failed) /\ NoReport(failed) /\ Fails(failed) = Fails(stack) /\ Alive
      /\ ~reopened /\ AnswersFit => Quiet(then) /\ Consumes(then)
      /\ ~reopened /\ AnswersFit => Quiet(failed) /\ Consumes(failed)
  BY CallingFacts, ResumesFacts
<1> DEFINE t == Call("cancel") \o then
<1>2. /\ on_ws_close_complete' = callback /\ uws_state' = "CLOSING_UNDERLYING_IO"
      /\ Goes(XioClose(callback).under)
      /\ stack' = XioClose(callback).calls \o (IF XioClose(callback).ok THEN t ELSE failed)
      /\ asked' = (IF asked = "handshake" THEN asked ELSE "close")
      /\ UNCHANGED <<received, pending_sends, fault, ioQueue, opening, answers, delivered,
                     sendHistory, noticed>>
  BY DEF CloseWith
<1>3. asked' \in {"no", "close", "handshake"}
  BY <1>0, <1>2 DEF Types
<1>4. Pushed(t, CallFrame("cancel"), then) /\ NoReport(t)
  BY <1>0, PutCall DEF Anywhere, AllOps, ClientOps, AtOnce
<1> HIDE DEF t
<1>5. /\ Stacked(t) /\ Fails(t) = Fails(stack)
      /\ \A f \in ToSet(t) : f \in ToSet(then) \/ f.op = "cancel"
  BY <1>0, <1>4 DEF Pushed, CallFrame, Fails
<1>6. ~reopened /\ AnswersFit => Quiet(t) /\ Consumes(t)
  BY <1>0, <1>5 DEF Quiet, Consumes
<1>7. CASE XioClose(callback).ok
  BY <1>0, <1>2, <1>3, <1>4, <1>5, <1>6, <1>7, CloseWithIInv
<1>8. CASE ~XioClose(callback).ok
  BY <1>0, <1>2, <1>3, <1>8, CloseWithIInv
<1>9. QED
  BY <1>7, <1>8

LEMMA CloseAsyncIInv == ASSUME IInv, CloseAsync PROVE IInv'
BY InUserFacts, CloseCallIInv DEF CloseAsync

(* Only callers are left, who return to nobody.                             *)
OnlyCallers == \A f \in ToSet(stack) : f.op \in UserOps

LEMMA DestroyCallIInv ==
  ASSUME IInv, Calling, OnlyCallers, DestroyClient PROVE IInv'
<1>0. /\ Types /\ Stacked(stack) /\ Alive /\ Fails(stack) = {}
      /\ ~OnTop(stack, "opened") /\ ~OnTop(stack, "openError")
  BY CallingFacts, UserOpsAssumption DEF OnlyCallers, Fails, AllOps, ClientOps
<1> DEFINE d == Call("destroyed")
           t == Call("cancel") \o d
<1>1. /\ Pushed(d, CallFrame("destroyed"), <<>>) /\ NoReport(d)
  <2>1. Pushed(d \o <<>>, CallFrame("destroyed"), <<>>) /\ NoReport(d \o <<>>)
    BY EmptyStack, PutCall DEF Anywhere, AllOps, ClientOps, AtOnce
  <2>2. d \o <<>> = d
    BY DEF Call, Frame
  <2> HIDE DEF d
  <2>3. QED
    BY <2>1, <2>2
<1>2. CASE /\ stack' = d /\ UNCHANGED <<clientVars, fault, ioVars, history>>
  <2> HIDE DEF d
  <2>1. Types'
    BY <1>0, <1>2 DEF Types, clientVars, ioVars, ioQueue, history, opening, sendHistory
  <2>2. /\ Stacked(stack') /\ Fails(stack') = Fails(stack)
        /\ \A f \in ToSet(stack') : f.op = "destroyed"
    BY <1>0, <1>1, <1>2, EmptyStack DEF Pushed, CallFrame, Fails
  <2>3. QED
    BY <1>0, <1>2, <2>1, <2>2, AloneIInv DEF clientVars, ioVars, history, opening, Pending
<1>3. CASE CloseWith(FALSE, d, d)
  <2> HIDE DEF d
  <2>1. /\ on_ws_close_complete' = FALSE /\ uws_state' = "CLOSING_UNDERLYING_IO"
        /\ Goes(XioClose(FALSE).under)
        /\ stack' = XioClose(FALSE).calls \o (IF XioClose(FALSE).ok THEN t ELSE d)
        /\ asked' = (IF asked = "handshake" THEN asked ELSE "close")
        /\ UNCHANGED <<received, pending_sends, fault, ioQueue, opening, answers, delivered,
                       sendHistory, noticed>>
    BY <1>3 DEF CloseWith
  <2>2. asked' \in {"no", "close", "handshake"}
    BY <1>0, <2>1 DEF Types
  <2>3. Pushed(t, CallFrame("cancel"), d) /\ NoReport(t)
    BY <1>1, PutCall DEF Pushed, Anywhere, AllOps, ClientOps, AtOnce
  <2> HIDE DEF t
  <2>4. /\ Stacked(t) /\ Stacked(d) /\ Fails(t) = Fails(stack) /\ Fails(d) = Fails(stack)
        /\ \A f \in ToSet(t) \cup ToSet(d) : f.op \in {"destroyed", "cancel"}
    BY <1>0, <1>1, <2>3, EmptyStack DEF Pushed, CallFrame, Fails
  <2>5. Quiet(t) /\ Consumes(t) /\ Quiet(d) /\ Consumes(d)
    BY <2>4 DEF Quiet, Consumes
  <2>6. CASE XioClose(FALSE).ok
    BY <1>0, <2>1, <2>2, <2>3, <2>4, <2>5, <2>6, CloseWithIInv
  <2>7. CASE ~XioClose(FALSE).ok
    BY <1>0, <1>1, <2>1, <2>2, <2>4, <2>5, <2>7, CloseWithIInv
  <2>8. QED
    BY <2>6, <2>7
<1>4. QED
  BY <1>2, <1>3 DEF DestroyClient

LEMMA DestroyIInv == ASSUME IInv, Destroy PROVE IInv'
BY DestroyCallIInv, EmptyStack DEF Destroy, Calling, OnlyCallers

LEMMA CloseHandshakeAsyncIInv == ASSUME IInv, CloseHandshakeAsync PROVE IInv'
<1>0. /\ Types /\ Stacked(stack) /\ NoReport(stack) /\ Alive
      /\ ~OnTop(stack, "opened") /\ ~OnTop(stack, "openError")
  BY InUserFacts, CallingFacts DEF CloseHandshakeAsync
<1>1. /\ on_ws_close_complete' = TRUE /\ uws_state' = "CLOSING_WAITING_FOR_CLOSE"
      /\ asked' = "handshake"
      /\ UNCHANGED <<received, pending_sends, fault, ioVars, opening, answers, delivered,
                     sendHistory, noticed>>
      /\ stack' = Call("cancel") \o stack \/ stack' = stack
  BY DEF CloseHandshakeAsync
<1>2. Types'
  BY <1>0, <1>1 DEF Types, ioVars, ioQueue, opening, sendHistory
<1>3. /\ Stacked(stack') /\ Fails(stack') = Fails(stack)
      /\ \A f \in ToSet(stack') : f \in ToSet(stack) \/ f.op = "cancel"
  <2>1. Pushed(Call("cancel") \o stack, CallFrame("cancel"), stack)
    BY <1>0, PutCall DEF Anywhere, AllOps, ClientOps
  <2>2. CASE stack' = Call("cancel") \o stack
    <3>1. Pushed(stack', CallFrame("cancel"), stack)
      BY <2>1, <2>2
    <3>2. QED
      BY <3>1 DEF Pushed, CallFrame, Fails
  <2>3. QED
    BY <1>0, <1>1, <2>2
<1>4. QED
  BY <1>0, <1>1, <1>2, <1>3, AloneIInv DEF ioVars, opening, Pending

LEMMA SendCallIInv ==
  ASSUME IInv, Calling, NEW sent, Resumes(sent), NEW failed, Resumes(failed),
         SendFrameWith(sent, failed)
  PROVE  IInv'
<1>0. /\ Types /\ Stacked(stack) /\ Alive /\ Accounts
      /\ ~reopened /\ AnswersFit => Quiet(stack) /\ Consumes(stack)
      /\ ~OnTop(stack, "opened") /\ ~OnTop(stack, "openError")
  BY CallingFacts DEF IInv
<1>a. /\ Stacked(sent) /\ NoReport(sent) /\ Fails(sent) = Fails(stack)
      /\ Stacked(failed) /\ NoReport(failed) /\ Fails(failed) = Fails(stack)
      /\ \A f \in ToSet(sent) \cup ToSet(failed) : f \in ToSet(stack) \/ f.op \in UserOps
  BY ResumesFacts
<1> DEFINE s == sends + 1
<1>1. PICK o \in XioSend(s, Sent(s)) :
        /\ unsent' = o.unsent /\ lost' = o.lost
        /\ accepted' = (IF o.ok THEN accepted \cup {s} ELSE accepted)
        /\ stack' = o.calls \o (IF o.ok THEN sent ELSE Frame("sendFails", "none", s) \o failed)
  BY DEF SendFrameWith
<1>2. /\ uws_state = "OPEN" /\ sends < Sends /\ sends' = s
      /\ pending_sends' = Append(pending_sends, s)
      /\ UNCHANGED <<uws_state, received, on_ws_close_complete, fault, io, under, inbound,
                     opening, answers, delivered, done, asked, noticed>>
  BY DEF SendFrameWith
<1>3. s \in 1 .. Sends /\ s \in 0 .. Sends /\ sends \in Nat /\ Sends \in Nat /\ s \in Nat
      /\ s = sends + 1
  BY <1>0, <1>2, UwsAssumption DEF Types
<1> HIDE DEF s
<1>4. /\ o.ok \in BOOLEAN /\ o.unsent \in Seq(0 .. Sends) /\ o.lost \in BOOLEAN
      /\ o.calls \in {<<>>, Sent(s)}
  BY <1>0, <1>3, XioSends
<1>5. /\ pending_sends' \in Seq(1 .. Sends) /\ Distinct(pending_sends')
      /\ ToSet(pending_sends') = ToSet(pending_sends) \cup {s} /\ s \notin ToSet(pending_sends)
  <2>1. pending_sends \in Seq(1 .. Sends)
    BY <1>0 DEF Types
  <2>4. /\ DOMAIN pending_sends' = 1 .. Len(pending_sends) + 1
        /\ pending_sends'[Len(pending_sends) + 1] = s
        /\ DOMAIN pending_sends = 1 .. Len(pending_sends) /\ Len(pending_sends) \in Nat
        /\ \A i \in 1 .. Len(pending_sends) : pending_sends'[i] = pending_sends[i]
    BY <1>2, <1>3, <2>1
  <2>2. ToSet(pending_sends') = ToSet(pending_sends) \cup {s}
    <3>1. ASSUME NEW x \in ToSet(pending_sends') PROVE x = s \/ x \in ToSet(pending_sends)
      <4>1. PICK i \in DOMAIN pending_sends' : x = pending_sends'[i]
        BY <3>1 DEF ToSet
      <4>2. i = Len(pending_sends) + 1 \/ i \in 1 .. Len(pending_sends)
        BY <2>4
      <4>3. QED
        BY <2>4, <4>1, <4>2 DEF ToSet
    <3>2. \A i \in DOMAIN pending_sends : i \in DOMAIN pending_sends'
      BY <2>4
    <3>3. ToSet(pending_sends) \subseteq ToSet(pending_sends')
      BY <2>4, <3>2 DEF ToSet
    <3>4. s \in ToSet(pending_sends')
      <4>1. Len(pending_sends) + 1 \in DOMAIN pending_sends'
        BY <2>4
      <4>2. QED
        BY <2>4, <4>1 DEF ToSet
    <3>5. QED
      BY <3>1, <3>3, <3>4
  <2>3. s \notin ToSet(pending_sends)
    BY <1>0, <1>3 DEF Accounts
  <2>5. \A i \in 1 .. Len(pending_sends) : pending_sends[i] # s
    BY <2>3, <2>4 DEF ToSet
  <2>6. \A i, j \in DOMAIN pending_sends : pending_sends[i] = pending_sends[j] => i = j
    BY <1>0 DEF Accounts, Distinct
  <2>7. ASSUME NEW i \in DOMAIN pending_sends', NEW j \in DOMAIN pending_sends',
               pending_sends'[i] = pending_sends'[j]
        PROVE  i = j
    BY <2>4, <2>5, <2>6, <2>7
  <2>8. QED
    BY <1>2, <1>3, <2>1, <2>2, <2>3, <2>7 DEF Distinct
<1> DEFINE f == [op |-> "sendFails", ev |-> "none", n |-> s]
           b == IF o.ok THEN sent ELSE Frame("sendFails", "none", s) \o failed
<1>6. /\ Stacked(b) /\ NoReport(b)
      /\ Fails(b) = Fails(stack) \cup (IF o.ok THEN {} ELSE {f})
      /\ \A g \in ToSet(b) : g \in ToSet(stack) \/ g.op \in UserOps \/ g = f
  <2>1. CASE o.ok
    BY <1>a, <2>1
  <2>2. CASE ~o.ok
    <3>1. Pushed(b, f, failed)
      BY <1>a, <1>3, <2>2, Put DEF Anywhere, AllOps, ClientOps, Evs
    <3>2. f.op = "sendFails"
      OBVIOUS
    <3> HIDE DEF f, b
    <3>3. QED
      BY <1>a, <2>2, <3>1, <3>2 DEF Pushed, Fails, AtOnce
  <2>3. QED
    BY <2>1, <2>2
<1>7. f.op = "sendFails" /\ f.n = s
  OBVIOUS
<1> HIDE DEF f
<1>8. stack' = o.calls \o b
  BY <1>1
<1> HIDE DEF b
<1>9. /\ Stacked(stack') /\ Fails(stack') = Fails(b)
      /\ \A g \in ToSet(stack') : g \in ToSet(b) \/ g.op = "sent"
  <2>1. CASE o.calls = <<>>
    <3>1. stack' = b
      BY <1>6, <1>8, <2>1 DEF Stacked
    <3>2. QED
      BY <1>6, <3>1
  <2>2. CASE o.calls = Sent(s)
    <3> DEFINE g == [op |-> "sent", ev |-> "none", n |-> s]
    <3>1. Pushed(stack', g, b)
      BY <1>3, <1>6, <1>8, <2>2, Put DEF Anywhere, AllOps, ClientOps, Evs, Sent
    <3>2. g.op = "sent"
      OBVIOUS
    <3> HIDE DEF g
    <3>3. QED
      BY <3>1, <3>2 DEF Pushed, Fails
  <2>3. QED
    BY <1>4, <2>1, <2>2
<1>10. accepted' \subseteq 1 .. Sends
  BY <1>0, <1>1, <1>3 DEF Types
<1>11. Types'
  BY <1>0, <1>1, <1>2, <1>3, <1>4, <1>5, <1>10 DEF Types, opening
<1>12. Accounts'
  <2>1. ToSet(pending_sends') \subseteq 1 .. sends' /\ accepted' \subseteq 1 .. sends'
    BY <1>0, <1>1, <1>2, <1>3, <1>5 DEF Accounts
  <2>2. ASSUME NEW t \in 1 .. Sends
        PROVE  /\ done'[t] <= 1
               /\ t \in ToSet(pending_sends') \/ t > sends' => done'[t] = 0
               /\ t \in accepted' /\ done'[t] = 0 => t \in ToSet(pending_sends')
    <3>1. t = s \/ t > sends' => t > sends
      BY <1>2, <1>3
    <3>2. QED
      BY <1>0, <1>1, <1>2, <1>5, <3>1 DEF Accounts
  <2>3. ASSUME NEW t \in 1 .. Sends, t \in ToSet(pending_sends'), t \notin accepted'
        PROVE  \E g \in Fails(stack') : g.n = t
    <3>1. CASE t = s
      <4>1. ~o.ok
        BY <1>1, <2>3, <3>1
      <4>2. f \in Fails(stack')
        BY <1>6, <1>9, <4>1
      <4>3. QED
        BY <1>7, <3>1, <4>2
    <3>2. CASE t # s
      <4>1. t \in ToSet(pending_sends) /\ t \notin accepted
        BY <1>1, <1>5, <2>3, <3>2
      <4>2. PICK g \in Fails(stack) : g.n = t
        BY <1>0, <4>1 DEF Accounts
      <4>3. QED
        BY <1>6, <1>9, <4>2
    <3>3. QED
      BY <3>1, <3>2
  <2>4. ASSUME NEW g \in Fails(stack') PROVE g.n \in 1 .. sends' /\ g.n \notin accepted'
    <3>1. g \in Fails(stack) \/ (g = f /\ ~o.ok)
      BY <1>6, <1>9
    <3>2. CASE g \in Fails(stack)
      <4>1. g.n \in 1 .. sends /\ g.n \notin accepted
        BY <1>0, <3>2 DEF Accounts
      <4>2. g.n \in 1 .. sends' /\ g.n # s
        BY <1>2, <1>3, <4>1
      <4>3. QED
        BY <1>1, <4>1, <4>2
    <3>3. CASE g = f /\ ~o.ok
      <4>1. s \in 1 .. sends' /\ s \notin accepted
        BY <1>0, <1>2, <1>3 DEF Accounts
      <4>2. QED
        BY <1>1, <1>7, <3>3, <4>1
    <3>4. QED
      BY <3>1, <3>2, <3>3
  <2>5. QED
    BY <1>5, <2>1, <2>2, <2>3, <2>4 DEF Accounts
<1>13. ASSUME ~reopened', AnswersFit PROVE AnswersFit'
  <2>1. Quiet(stack') /\ Consumes(stack)' /\ (Decoding(stack') => Decoding(stack))
    BY <1>0, <1>2, <1>6, <1>7, <1>9, <1>13, UserOpsAssumption
       DEF Quiet, Consumes, Decoding, Has, opening, ClientOps
  <2>2. QED
    BY <1>2, <1>9, <1>13, <2>1, AnswersStay DEF AnswersFit, Pending
<1>14. QED
  BY <1>0, <1>2, <1>9, <1>11, <1>12, <1>13, StepIInv DEF IInv, Alive, opening

LEMMA SendFrameAsyncIInv == ASSUME IInv, SendFrameAsync PROVE IInv'
BY InUserFacts, SendCallIInv DEF SendFrameAsync

(* What the server may send is a sequence of frames, cut into pieces.       *)
LEMMA RepliesArePieces ==
  ASSUME NEW r \in Replies \cup {<<>>}
  PROVE  r \in Seq(AllKinds \cup {"101", "other"}) /\ Pieces(r) \in Seq(Piece)
<1> DEFINE K == AllKinds \cup {"101", "other"}
           behind(kind) == IF kind \in {"close", "badReason"} THEN 0 ELSE MaxFrames - 1
<1>1. r \in Seq(K)
  <2>1. CASE r = <<>> \/ r = <<"other">>
    <3>1. "other" \in K
      OBVIOUS
    <3> HIDE DEF K
    <3>2. <<>> \in Seq(K) /\ <<"other">> \in Seq(K)
      BY <3>1
    <3>3. QED
      BY <2>1, <3>2
  <2>2. CASE \E kind \in Kinds : r = <<"101", kind>> \o [i \in 1 .. behind(kind) |-> "data"]
    <3>1. PICK kind \in Kinds : r = <<"101", kind>> \o [i \in 1 .. behind(kind) |-> "data"]
      BY <2>2
    <3> DEFINE n == behind(kind)
               d == [i \in 1 .. n |-> "data"]
    <3>2. <<"101", kind>> \in Seq(K)
      BY UwsAssumption
    <3>3. n \in Int
      BY UwsAssumption
    <3>4. "data" \in K
      BY DEF AllKinds
    <3> HIDE DEF n, K
    <3>5. d \in Seq(K)
      <4>1. CASE n \in Nat
        BY <3>4, <4>1
      <4>2. CASE n \notin Nat
        <5>1. 1 .. n = 1 .. 0
          BY <3>3, <4>2
        <5>2. d = [i \in 1 .. 0 |-> "data"]
          BY <5>1
        <5>3. [i \in 1 .. 0 |-> "data"] \in Seq(K)
          BY <3>4
        <5>4. QED
          BY <5>2, <5>3
      <4>3. QED
        BY <4>1, <4>2
    <3> HIDE DEF d
    <3>6. r = <<"101", kind>> \o d
      BY <3>1 DEF d, n
    <3>7. QED
      BY <3>2, <3>5, <3>6
  <2>3. QED
    BY <2>1, <2>2 DEF Replies
<1>2. Pieces(r) \in Seq(Piece)
  <2>1. Len(r) \in Nat /\ DOMAIN r = 1 .. Len(r) /\ 2 * Len(r) \in Nat
    BY <1>1
  <2>2. ASSUME NEW k \in 1 .. 2 * Len(r)
        PROVE  [n |-> (k - 1) \div 2, kind |-> r[(k + 1) \div 2], part |-> 2 - (k % 2)] \in Piece
    <3>1. (k - 1) \div 2 \in Nat /\ (k + 1) \div 2 \in 1 .. Len(r) /\ 2 - (k % 2) \in {1, 2}
      BY <2>1
    <3>2. r[(k + 1) \div 2] \in K
      BY <1>1, <3>1
    <3>3. QED
      BY <3>1, <3>2 DEF Piece
  <2>3. QED
    BY <2>1, <2>2 DEF Pieces
<1>3. QED
  BY <1>1, <1>2

(* Only an io that is not a socket goes on opening after xio_open.          *)
Connects == under = "opening" => io # "socket"

(* What an open of the io reports.                                          *)
LEMMA XioOpens ==
  ASSUME Types, Connects, NEW o \in XioOpen
  PROVE  /\ o.under \in {"closed", "opening", "open", "failed"}
         /\ o.under = "opening" => io # "socket"
         /\ o.calls \in {<<>>, Opened("OK"), Opened("ERROR")}
         /\ o.under = "opening" => o.calls = <<>>
<1> DEFINE e == Opened("ERROR")
           k == Opened("OK")
<1> HIDE DEF e, k
<1>1. under \in {"closed", "opening", "open", "failed"}
  BY DEF Types
<1>2. CASE under # "closed"
  <2>1. o = Outcome(FALSE, under, IF io = "socket" THEN e ELSE <<>>)
    BY <1>2 DEF XioOpen, e
  <2>2. o.ok \in BOOLEAN /\ o.under = under /\ o.calls = IF io = "socket" THEN e ELSE <<>>
    BY <2>1 DEF Outcome
  <2>3. QED
    BY <1>1, <2>2 DEF Connects, e, k
<1>3. CASE under = "closed"
  <2>1. \/ o = Outcome(FALSE, "closed", IF io = "socket" THEN e ELSE <<>>)
        \/ o = Outcome(TRUE, "open", k)
        \/ o = Outcome(TRUE, "opening", <<>>) /\ io # "socket"
    BY <1>3 DEF XioOpen, e, k
  <2>2. /\ \/ o.under = "closed" /\ o.calls \in {<<>>, e}
           \/ o.under = "open" /\ o.calls = k
           \/ o.under = "opening" /\ o.calls = <<>> /\ io # "socket"
    <3>1. CASE o = Outcome(FALSE, "closed", IF io = "socket" THEN e ELSE <<>>)
      BY <3>1 DEF Outcome
    <3>2. CASE o = Outcome(TRUE, "open", k)
      BY <3>2 DEF Outcome
    <3>3. CASE o = Outcome(TRUE, "opening", <<>>) /\ io # "socket"
      BY <3>3 DEF Outcome
    <3>4. QED
      BY <2>1, <3>1, <3>2, <3>3
  <2>3. QED
    BY <2>2 DEF e, k
<1>4. QED
  BY <1>1, <1>2, <1>3

(* A close leaves an io opening only where it was.                          *)
LEMMA CloseConnects ==
  ASSUME Types, Connects, io' = io, NEW callback \in BOOLEAN,
         Goes(XioClose(callback).under)
  PROVE  Connects'
<1>1. under' = XioClose(callback).under
  BY DEF Goes
<1>2. XioClose(callback).under = "opening" => under = "opening"
  BY XioCloses
<1>3. QED
  BY <1>1, <1>2 DEF Connects

(* What the client and its io do, whoever called them.                      *)
Served == (Running /\ (ClientFrames \/ UserReturns)) \/ Reports \/ OnUnderlyingError

LEMMA ServedConnects == ASSUME Types, Connects, Served PROVE Connects'
<1>1. io' = io
  BY DEF Served, ClientFrames, UserReturns, Decoder,
         Masked, Respond, ConsumeReceivedBytes, OpenFails, OpenError, TlsCloses, ToClosed,
         Cancel, SendFails, OnUnderlyingSendComplete, OnUnderlyingCloseSent,
         OnUnderlyingCloseComplete, OnUnderlyingOpenComplete, DecodesNothing, DecodeResponse,
         DecodeTooEarly, DecodePart, DecodeBad, DecodeMasked, DecodeData, DecodePing, DecodePong,
         DecodeClose, Reports, UnderlyingOpens, UnderlyingSends, OnUnderlyingBytesReceived,
         OnUnderlyingError, ioVars, ioQueue
<1> DEFINE Ok == \/ under' \in {under, "closed", "open", "failed"}
                 \/ \E callback \in BOOLEAN : Goes(XioClose(callback).under)
<1>2. Ok
  <2>3. CASE Decoder
    BY <2>3 DEF Decoder, DecodesNothing, DecodeResponse, DecodeTooEarly, DecodePart, DecodeBad,
       DecodeMasked, DecodeData, DecodePing, DecodePong, DecodeClose, IndicateOpenErrorAndClose,
       CloseUnderlying, CloseUnderlyingOrIndicate, ioVars
  <2>4. CASE \/ Masked \/ ConsumeReceivedBytes \/ OpenFails \/ OpenError \/ TlsCloses \/ ToClosed
             \/ Cancel \/ SendFails \/ OnUnderlyingSendComplete \/ OnUnderlyingCloseComplete
             \/ UserReturns
    BY <2>4 DEF Masked, ConsumeReceivedBytes, OpenFails, OpenError, TlsCloses, ToClosed, Cancel,
       SendFails, OnUnderlyingSendComplete, OnUnderlyingCloseComplete, UserReturns, Goes, ioVars
  <2>5. CASE Respond \/ OnUnderlyingCloseSent \/ OnUnderlyingOpenComplete
    BY <2>5 DEF Respond, OnUnderlyingCloseSent, OnUnderlyingOpenComplete,
       IndicateOpenErrorAndClose, CloseUnderlying, CloseUnderlyingOrIndicate, ioVars
  <2>6. CASE Reports \/ OnUnderlyingError
    BY <2>6 DEF Reports, UnderlyingOpens, UnderlyingSends, OnUnderlyingBytesReceived,
       OnUnderlyingError, IndicateOpenErrorAndClose, Goes
  <2>7. QED
    BY <2>3, <2>4, <2>5, <2>6 DEF Served, ClientFrames
<1>3. QED
  BY <1>1, <1>2, CloseConnects DEF Connects

LEMMA OpenConnects ==
  ASSUME Types, Connects, NEW succeeded, NEW failed, OpenWith(succeeded, failed)
  PROVE  Connects'
<1>1. PICK o \in XioOpen : under' = o.under /\ io' = io
  BY DEF OpenWith
<1>2. QED
  BY <1>1, XioOpens DEF Connects

LEMMA CallsConnect ==
  ASSUME Types, Connects, NEW a, NEW b,
         SendFrameWith(a, b) \/ DestroyClient
         \/ \E callback \in BOOLEAN : CloseWith(callback, a, b)
  PROVE  Connects'
<1>1. io' = io /\ (under' = under \/ \E callback \in BOOLEAN : Goes(XioClose(callback).under))
  BY DEF SendFrameWith, DestroyClient, CloseWith, ioVars, ioQueue
<1>2. QED
  BY <1>1, CloseConnects DEF Connects

LEMMA OpenCallIInv ==
  ASSUME IInv, Connects, Calling, NEW succeeded, Resumes(succeeded),
         NEW failed, Resumes(failed), OpenWith(succeeded, failed)
  PROVE  IInv'
<1>0. /\ Types /\ Stacked(stack) /\ Alive /\ Accounts
  BY CallingFacts DEF IInv
<1>a. /\ Stacked(succeeded) /\ NoReport(succeeded) /\ Fails(succeeded) = Fails(stack)
      /\ Stacked(failed) /\ NoReport(failed) /\ Fails(failed) = Fails(stack)
      /\ \A f \in ToSet(succeeded) \cup ToSet(failed) : f \in ToSet(stack) \/ f.op \in UserOps
  BY ResumesFacts
<1>1. /\ opens < MaxOpens /\ opens' = opens + 1 /\ reopened' = (reopened \/ stack # <<>>)
      /\ answers' = <<>> /\ delivered' = <<>> /\ asked' = "no" /\ noticed' = 0
      /\ received' = <<>> /\ lost' = FALSE /\ uws_state' = "OPENING_UNDERLYING_IO"
      /\ UNCHANGED <<pending_sends, on_ws_close_complete, fault, io, unsent, sendHistory,
                     nonceFailed>>
  BY DEF OpenWith
<1> DEFINE t == Call("openFails") \o failed
<1>2. PICK o \in XioOpen :
        /\ under' = o.under
        /\ reply' \in (IF o.ok THEN Replies ELSE {<<>>}) /\ inbound' = Pieces(reply')
        /\ stack' = o.calls \o (IF o.ok THEN succeeded ELSE t)
  BY DEF OpenWith
<1>3. /\ o.under \in {"closed", "opening", "open", "failed"}
      /\ o.calls \in {<<>>, Opened("OK"), Opened("ERROR")}
      /\ o.under = "opening" => o.calls = <<>>
  BY <1>0, XioOpens
<1>4. reply' \in Seq(AllKinds \cup {"101", "other"}) /\ inbound' \in Seq(Piece)
  <2>1. reply' \in Replies \cup {<<>>}
    BY <1>2
  <2>2. QED
    BY <1>2, <2>1, RepliesArePieces
<1>5. opens' \in 0 .. MaxOpens /\ reopened' \in BOOLEAN
  <2>1. opens' \in 0 .. MaxOpens
    BY <1>0, <1>1, UwsAssumption DEF Types
  <2>2. reopened' \in BOOLEAN
    BY <1>1
  <2>3. QED
    BY <2>1, <2>2
<1>6. Types'
  <2>1. /\ received' \in Seq(Piece) /\ answers' \in Seq({"OK", "ERROR"}) /\ delivered' \in Seq(Nat)
    BY <1>1
  <2>5. lost' \in BOOLEAN /\ asked' \in {"no", "close", "handshake"} /\ noticed' \in Nat
    BY <1>1
  <2>2. /\ under' \in {"closed", "opening", "open", "failed"}
        /\ uws_state' = "OPENING_UNDERLYING_IO"
    BY <1>1, <1>2, <1>3
  <2>3. UNCHANGED <<pending_sends, on_ws_close_complete, fault, io, unsent, sends, accepted, done,
                    nonceFailed>>
    BY <1>1 DEF sendHistory
  <2>4. QED
    BY <1>0, <1>4, <1>5, <2>1, <2>2, <2>3, <2>5 DEF Types
<1>7. Pushed(t, CallFrame("openFails"), failed) /\ NoReport(t)
  BY <1>a, PutCall DEF Anywhere, AllOps, ClientOps, AtOnce
<1> HIDE DEF t
<1> DEFINE b == IF o.ok THEN succeeded ELSE t
<1>8. /\ Stacked(b) /\ NoReport(b) /\ Fails(b) = Fails(stack)
      /\ \A f \in ToSet(b) : f \in ToSet(stack) \/ f.op \in UserOps \cup {"openFails"}
  <2>1. /\ Stacked(t) /\ Fails(t) = Fails(stack)
        /\ \A f \in ToSet(t) : f \in ToSet(stack) \/ f.op \in UserOps \cup {"openFails"}
    BY <1>a, <1>7 DEF Pushed, CallFrame, Fails
  <2>2. QED
    BY <1>a, <1>7, <2>1
<1>9. stack' = o.calls \o b
  BY <1>2
<1> HIDE DEF b
<1>10. /\ Stacked(stack') /\ Fails(stack') = Fails(b)
       /\ \A f \in ToSet(stack') : f \in ToSet(b) \/ f.op = "opened"
       /\ o.calls = <<>> => stack' = b
       /\ ~Has(b, "openError") => ~OnTop(stack', "openError")
  <2>1. CASE o.calls = <<>>
    <3>1. stack' = b
      BY <1>8, <1>9, <2>1 DEF Stacked
    <3>2. b # <<>> => b[1] \in ToSet(b)
      BY <1>8, StackedPop
    <3>3. QED
      BY <1>8, <3>1, <3>2 DEF OnTop, Has
  <2>2. ASSUME NEW ev \in {"OK", "ERROR"}, o.calls = Opened(ev)
        PROVE  /\ Stacked(stack') /\ Fails(stack') = Fails(b) /\ OnTop(stack', "opened")
               /\ \A f \in ToSet(stack') : f \in ToSet(b) \/ f.op = "opened"
    <3> DEFINE g == [op |-> "opened", ev |-> ev, n |-> 0]
    <3>1. Pushed(stack', g, b)
      BY <1>8, <1>9, <2>2, Put DEF Anywhere, AllOps, ClientOps, Evs, Opened
    <3>2. g.op = "opened"
      OBVIOUS
    <3> HIDE DEF g
    <3>3. QED
      BY <3>1, <3>2 DEF Pushed, Fails, OnTop
  <2>3. Opened("OK") # <<>> /\ Opened("ERROR") # <<>>
    BY DEF Opened, Frame
  <2>4. QED
    BY <1>3, <2>1, <2>2, <2>3 DEF OnTop
<1>11. Accounts'
  BY <1>0, <1>1, <1>8, <1>10, AccountsStay DEF sendHistory
<1>12. ASSUME ~reopened' PROVE AnswersFit'
  <2>1. stack = <<>>
    BY <1>1, <1>12
  <2>2. \A f \in ToSet(b) : f.op \in UserOps \cup {"openFails"}
    BY <1>8, <2>1, EmptyStack
  <2>3. \A f \in ToSet(stack') : f.op \in UserOps \cup {"openFails", "opened"}
    BY <1>10, <2>2
  <2>4. /\ ~Has(stack', "openError") /\ ~Has(stack', "tlsCloses") /\ ~Decoding(stack')
        /\ ~OnTop(stack', "openError") /\ (\A f \in ToSet(stack') : f.op # "consume")
    BY <1>10, <2>2, <2>3, UserOpsAssumption DEF Has, Decoding, AllOps, ClientOps
  <2>5. under' = "opening" => ~OnTop(stack', "opened")
    <3>1. b # <<>> => b[1].op \in UserOps \cup {"openFails"}
      <4>1. b # <<>> => b[1] \in ToSet(b)
        BY <1>8, StackedPop
      <4>2. QED
        BY <2>2, <4>1
    <3>2. QED
      BY <1>2, <1>3, <1>10, <3>1, UserOpsAssumption DEF OnTop, AllOps, ClientOps
  <2>6. QED
    BY <1>1, <2>4, <2>5 DEF AnswersFit
<1>13. Len(answers') <= 1 /\ (reopened => reopened')
  <2>1. Len(answers') <= 1
    BY <1>1
  <2>2. reopened => reopened'
    BY <1>1, Zenon
  <2>3. QED
    BY <2>1, <2>2
<1>14. QED
  BY <1>0, <1>1, <1>6, <1>8, <1>10, <1>11, <1>12, <1>13, StepIInv DEF IInv, Alive

LEMMA OpenAsyncIInv == ASSUME IInv, Connects, OpenAsync PROVE IInv'
BY InUserFacts, OpenCallIInv DEF OpenAsync

-------------------------------------------------------------------------------
(* What the io reports from uws_client_dowork.                              *)
LEMMA DoWorkFacts ==
  ASSUME IInv, DoWork
  PROVE  /\ Types /\ stack = <<>> /\ Alive /\ Accounts /\ Fails(stack) = {}
         /\ ~OnTop(stack, "opened") /\ ~OnTop(stack, "openError") /\ ToSet(stack) = {}
         /\ ~reopened /\ AnswersFit =>
              /\ uws_state \in Pending \/ under = "opening" => answers = <<>>
              /\ uws_state = "WAITING_FOR_UPGRADE_RESPONSE" => under = "open"
BY EmptyStack DEF IInv, DoWork, OnTop, AnswersFit, Fails

(* One report on an empty stack.                                            *)
LEMMA PutAlone ==
  ASSUME NEW o \in Anywhere, NEW ev \in Evs, NEW n \in Nat, o # "sendFails"
  PROVE  LET t == Frame(o, ev, n) IN
         /\ Stacked(t) /\ OnTop(t, o) /\ Fails(t) = {} /\ \A f \in ToSet(t) : f.op = o
<1> DEFINE g == [op |-> o, ev |-> ev, n |-> n]
           t == Frame(o, ev, n)
<1>1. Pushed(t \o <<>>, g, <<>>)
  BY EmptyStack, Put
<1>2. t \o <<>> = t
  BY DEF Frame
<1>3. g.op = o
  OBVIOUS
<1> HIDE DEF g, t
<1>4. Pushed(t, g, <<>>)
  BY <1>1, <1>2
<1>5. ToSet(t) = {g} /\ Stacked(t) /\ OnTop(t, o)
  BY <1>3, <1>4, EmptyStack DEF Pushed, OnTop
<1>6. QED
  BY <1>3, <1>5 DEF Fails, t

LEMMA UnderlyingOpensIInv == ASSUME IInv, UnderlyingOpens PROVE IInv'
<1>0. /\ Types /\ stack = <<>> /\ Alive /\ Accounts /\ Fails(stack) = {}
      /\ ~reopened /\ AnswersFit =>
           /\ uws_state \in Pending \/ under = "opening" => answers = <<>>
           /\ uws_state = "WAITING_FOR_UPGRADE_RESPONSE" => under = "open"
  BY DoWorkFacts DEF UnderlyingOpens
<1>1. /\ UNCHANGED <<clientVars, fault, ioQueue, history>> /\ under = "opening"
      /\ under' \in {"open", "closed"} /\ inbound' \in {inbound, <<>>}
      /\ stack' = Opened("OK") \/ stack' = Opened("ERROR")
  BY DEF UnderlyingOpens, Goes
<1>2. /\ Stacked(stack') /\ OnTop(stack', "opened") /\ Fails(stack') = {}
      /\ \A f \in ToSet(stack') : f.op = "opened"
  <2>1. "opened" \in Anywhere /\ {"OK", "ERROR"} \subseteq Evs
    BY DEF Anywhere, AllOps, ClientOps, Evs
  <2>2. CASE stack' = Opened("OK")
    BY <2>1, <2>2, PutAlone DEF Opened
  <2>3. CASE stack' = Opened("ERROR")
    BY <2>1, <2>3, PutAlone DEF Opened
  <2>4. QED
    BY <1>1, <2>2, <2>3
<1>3. Types'
  <2>1. inbound' \in Seq(Piece)
    <3>1. inbound \in Seq(Piece) /\ <<>> \in Seq(Piece)
      BY <1>0 DEF Types
    <3>2. QED
      BY <1>1, <3>1
  <2>2. QED
    BY <1>0, <1>1, <2>1 DEF Types, clientVars, ioQueue, history, opening, sendHistory
<1>4. Accounts'
  BY <1>0, <1>1, <1>2, AccountsStay DEF clientVars, history, sendHistory
<1>5. ASSUME ~reopened', AnswersFit PROVE AnswersFit' /\ Len(answers') <= 1
  <2>1. answers' = <<>> /\ uws_state' # "WAITING_FOR_UPGRADE_RESPONSE"
    BY <1>0, <1>1, <1>5 DEF clientVars, history, opening
  <2>2. /\ ~Has(stack', "openError") /\ ~Has(stack', "tlsCloses") /\ ~Decoding(stack')
        /\ ~OnTop(stack', "openError") /\ \A f \in ToSet(stack') : f.op # "consume"
    BY <1>2 DEF Has, Decoding, OnTop
  <2>3. AnswersFit'
    BY <1>1, <2>1, <2>2 DEF AnswersFit
  <2>4. Len(answers') <= 1
    BY <2>1
  <2>5. QED
    BY <2>3, <2>4
<1>6. QED
  BY <1>0, <1>1, <1>2, <1>3, <1>4, <1>5, StepIInv DEF IInv, Alive, history, opening

LEMMA UnderlyingSendsIInv == ASSUME IInv, UnderlyingSends PROVE IInv'
<1>0. /\ Types /\ stack = <<>> /\ Alive /\ Fails(stack) = {}
      /\ ~OnTop(stack, "opened") /\ ~OnTop(stack, "openError")
  BY DoWorkFacts DEF UnderlyingSends
<1>1. /\ UNCHANGED <<clientVars, fault, io, under, lost, inbound, history>>
      /\ unsent # <<>> /\ unsent' = Tail(unsent)
      /\ stack' = Call("closeSent") \/ stack' = Sent(Head(unsent))
  BY DEF UnderlyingSends
<1>2. Head(unsent) \in 0 .. Sends /\ Tail(unsent) \in Seq(0 .. Sends)
  <2> DEFINE E == 0 .. Sends
  <2>1. unsent \in Seq(E)
    BY <1>0 DEF Types
  <2> HIDE DEF E
  <2>2. Head(unsent) \in E /\ Tail(unsent) \in Seq(E)
    BY <1>1, <2>1
  <2>3. QED
    BY <2>2 DEF E
<1>3. Types'
  BY <1>0, <1>1, <1>2 DEF Types, clientVars, history, opening, sendHistory
<1>4. /\ Stacked(stack') /\ Fails(stack') = {}
      /\ \A f \in ToSet(stack') : f.op \in {"closeSent", "sent"}
  <2>1. {"closeSent", "sent"} \subseteq Anywhere /\ "none" \in Evs /\ Head(unsent) \in Nat /\ 0 \in Nat
    BY <1>2, UwsAssumption DEF Anywhere, AllOps, ClientOps, Evs
  <2>2. CASE stack' = Call("closeSent")
    BY <2>1, <2>2, PutAlone DEF Call
  <2>3. CASE stack' = Sent(Head(unsent))
    BY <2>1, <2>3, PutAlone DEF Sent
  <2>4. QED
    BY <1>1, <2>2, <2>3
<1>5. QED
  BY <1>0, <1>1, <1>3, <1>4, AloneIInv DEF clientVars, history, opening

LEMMA OnUnderlyingBytesReceivedIInv ==
  ASSUME IInv, NEW n \in Nat, OnUnderlyingBytesReceived(n) PROVE IInv'
<1>0. /\ Types /\ stack = <<>> /\ Alive /\ Accounts /\ Fails(stack) = {}
      /\ ~OnTop(stack, "opened") /\ ~OnTop(stack, "openError")
      /\ ~reopened /\ AnswersFit =>
           /\ uws_state \in Pending \/ under = "opening" => answers = <<>>
           /\ uws_state = "WAITING_FOR_UPGRADE_RESPONSE" => under = "open"
  BY DoWorkFacts DEF OnUnderlyingBytesReceived
<1>1. /\ UNCHANGED <<pending_sends, on_ws_close_complete, fault, ioQueue, opening, delivered,
                     sendHistory, asked, noticed>>
      /\ under = "open" /\ n \in 1 .. Len(inbound)
  BY DEF OnUnderlyingBytesReceived
<1> DEFINE come == SubSeq(inbound, 1, n)
           left == SubSeq(inbound, n + 1, Len(inbound))
<1>2. /\ inbound \in Seq(Piece) /\ received \in Seq(Piece)
      /\ come \in Seq(Piece) /\ left \in Seq(Piece) /\ received \o come \in Seq(Piece)
  <2>1. inbound \in Seq(Piece) /\ received \in Seq(Piece)
    BY <1>0 DEF Types
  <2>2. come \in Seq(Piece) /\ left \in Seq(Piece)
    BY <1>1, <2>1
  <2> HIDE DEF come, left
  <2>3. QED
    BY <2>1, <2>2
<1> HIDE DEF come, left
<1>3. CASE /\ uws_state # "OPENING_UNDERLYING_IO"
           /\ received' = received \o come /\ inbound' = left
           /\ stack' = Call("decode") /\ UNCHANGED <<uws_state, under, answers>>
  <2>1. Types'
    BY <1>0, <1>1, <1>2, <1>3 DEF Types, ioQueue, opening, sendHistory
  <2>2. /\ Stacked(stack') /\ Fails(stack') = {}
        /\ \A f \in ToSet(stack') : f.op = "decode"
    BY <1>3, DecodeAlone DEF Fails, CallFrame
  <2>3. Accounts'
    BY <1>0, <1>1, <2>2, AccountsStay DEF sendHistory
  <2>4. ASSUME ~reopened', AnswersFit PROVE AnswersFit' /\ Len(answers') <= 1
    <3>1. Quiet(stack') /\ Consumes(stack)'
      BY <2>2 DEF Quiet, Consumes
    <3>2. AnswersFit'
      BY <1>0, <1>1, <1>3, <2>2, <2>4, <3>1, AnswersStay DEF opening
    <3>3. QED
      BY <1>1, <1>3, <2>4, <3>2 DEF IInv, opening
  <2>5. QED
    BY <1>0, <1>1, <2>1, <2>2, <2>3, <2>4, StepIInv DEF IInv, Alive, opening
<1>4. CASE /\ uws_state = "WAITING_FOR_UPGRADE_RESPONSE" /\ IndicateOpenErrorAndClose(<<>>)
           /\ UNCHANGED received
  <2>1. UNCHANGED <<uws_state, answers>>
    BY <1>4 DEF IndicateOpenErrorAndClose
  <2>2. /\ Stacked(stack') /\ Fails(stack') = Fails(stack)
        /\ under' \in {"closed", "opening"} /\ inbound' \in Seq(Piece)
    BY <1>0, <1>4, EmptyStack, ErrorAndClosePut
  <2>3. Types'
    BY <1>0, <1>1, <1>4, <2>1, <2>2 DEF Types, ioQueue, opening, sendHistory
  <2>4. Accounts'
    BY <1>0, <1>1, <2>2, AccountsStay DEF sendHistory
  <2>5. ASSUME ~reopened', AnswersFit PROVE AnswersFit' /\ answers' = <<>>
    <3>1. under # "opening" /\ answers = <<>>
      BY <1>0, <1>1, <1>4, <2>5 DEF Pending, opening
    <3>2. /\ Quiet(<<>>) /\ Consumes(<<>>)' /\ Stacked(<<>>) /\ NoReport(<<>>) /\ ~Decoding(<<>>)
      BY EmptyStack DEF Quiet, Consumes, Decoding, Has
    <3>3. QED
      BY <1>0, <1>4, <3>1, <3>2, ErrorAndCloseAnswers
  <2>6. answers' = <<>> => Len(answers') <= 1
    OBVIOUS
  <2>7. QED
    BY <1>0, <1>1, <2>2, <2>3, <2>4, <2>5, <2>6, StepIInv DEF Alive, opening
<1>5. CASE /\ IndicateError(<<>>) /\ inbound' = left /\ UNCHANGED <<received, under, answers>>
  <2>1. Types'
    BY <1>0, <1>1, <1>2, <1>5 DEF Types, ioQueue, opening, sendHistory, IndicateError
  <2>2. Ended(stack', <<>>) /\ uws_state' = "ERROR"
    BY <1>5, EmptyStack, EndedPut DEF IndicateError, Events
  <2>3. /\ Stacked(stack') /\ Fails(stack') = Fails(stack)
        /\ \A f \in ToSet(stack') : f.op \in {"user", "toClosed"}
    BY <1>0, <2>2, EmptyStack DEF Ended
  <2>4. QED
    BY <1>0, <1>1, <1>5, <2>1, <2>2, <2>3, AloneIInv DEF opening, Pending
<1>6. CASE inbound' = left /\ UNCHANGED <<uws_state, received, stack, under, answers>>
  <2>1. Types'
    BY <1>0, <1>1, <1>2, <1>6 DEF Types, ioQueue, opening, sendHistory
  <2>2. Stacked(stack')
    BY <1>6 DEF IInv
  <2>3. QED
    BY <1>0, <1>1, <1>6, <2>1, <2>2, AloneIInv DEF opening
<1>7. QED
  BY <1>3, <1>4, <1>5, <1>6 DEF OnUnderlyingBytesReceived, come, left

LEMMA OnUnderlyingErrorIInv == ASSUME IInv, OnUnderlyingError PROVE IInv'
<1>0. /\ Types /\ stack = <<>> /\ Alive /\ Accounts /\ Fails(stack) = {}
      /\ ~reopened /\ AnswersFit =>
           /\ uws_state \in Pending \/ under = "opening" => answers = <<>>
           /\ uws_state = "WAITING_FOR_UPGRADE_RESPONSE" => under = "open"
  BY DoWorkFacts DEF OnUnderlyingError
<1>1. /\ UNCHANGED <<received, pending_sends, on_ws_close_complete, fault, io, opening, delivered,
                     sendHistory, asked>>
      /\ inbound' = <<>>
  BY DEF OnUnderlyingError
<1>2. PICK u \in {"open", "failed"}, n \in {0, 1} :
        /\ unsent' = SubSeq(unsent, n + 1, Len(unsent)) /\ n <= Len(unsent)
        /\ lost' = (lost \/ (n = 1 /\ Head(unsent) = CloseFrame))
        /\ \/ /\ under' = "closed" /\ IndicateClosed(<<>>) /\ UNCHANGED answers
           \/ /\ uws_state \in Pending /\ under' = "closed" /\ IndicateOpenError(<<>>)
              /\ UNCHANGED noticed
           \/ /\ under' = u /\ IndicateError(<<>>) /\ UNCHANGED <<answers, noticed>>
           \/ /\ uws_state = "ERROR" /\ under' = u
              /\ UNCHANGED <<uws_state, stack, answers, noticed>>
  BY DEF OnUnderlyingError, Pending
<1>3. /\ unsent' \in Seq(0 .. Sends) /\ lost' \in BOOLEAN /\ inbound' \in Seq(Piece)
  <2> DEFINE E == 0 .. Sends
  <2>1. unsent \in Seq(E)
    BY <1>0 DEF Types
  <2> HIDE DEF E
  <2>2. SubSeq(unsent, n + 1, Len(unsent)) \in Seq(E)
    BY <2>1, <1>2
  <2>3. QED
    BY <1>1, <1>2, <2>2 DEF E
<1>4. /\ under' \in {"closed", "open", "failed"} /\ noticed' \in Nat
      /\ \/ uws_state' = uws_state /\ uws_state = "ERROR"
         \/ uws_state' \in {"CLOSED", "ERROR"}
      /\ \/ answers' = answers
         \/ uws_state \in Pending /\ answers' = Append(answers, "ERROR")
  BY <1>0, <1>2 DEF IndicateClosed, IndicateOpenError, IndicateError, Types
<1>5. Ended(stack', <<>>)
  <2>1. \A ev \in Events : Ended(User(ev) \o <<>>, <<>>)
    BY EmptyStack, EndedPut
  <2>2. Ended(<<>>, <<>>) /\ <<>> \o <<>> = <<>>
    BY EmptyStack, EndedPut DEF Events
  <2>3. {"open", "closed", "error"} \subseteq Events
    BY DEF Events
  <2>4. \/ stack' = <<>> \o <<>> \/ stack' = <<>>
        \/ \E ev \in {"open", "closed", "error"} : stack' = User(ev) \o <<>>
    BY <1>0, <1>2 DEF IndicateClosed, IndicateOpenError, IndicateError
  <2>5. QED
    BY <2>1, <2>2, <2>3, <2>4
<1>6. /\ Stacked(stack') /\ Fails(stack') = Fails(stack)
      /\ \A f \in ToSet(stack') : f.op \in {"user", "toClosed"}
  BY <1>0, <1>5, EmptyStack DEF Ended
<1>7. /\ answers' \in Seq({"OK", "ERROR"})
      /\ answers = <<>> => Len(answers') <= 1
  <2>1. answers \in Seq({"OK", "ERROR"})
    BY <1>0 DEF Types
  <2>2. Append(answers, "ERROR") \in Seq({"OK", "ERROR"})
    BY <2>1
  <2>3. answers = <<>> => Len(Append(answers, "ERROR")) <= 1 /\ Len(answers) <= 1
    BY <2>1
  <2>4. QED
    BY <1>4, <2>1, <2>2, <2>3
<1>8. Types'
  BY <1>0, <1>1, <1>3, <1>4, <1>7 DEF Types, opening, sendHistory
<1>9. Accounts'
  BY <1>0, <1>1, <1>6, AccountsStay DEF sendHistory
<1>10. ASSUME ~reopened', AnswersFit PROVE AnswersFit' /\ Len(answers') <= 1
  <2>1. Quiet(stack') /\ Consumes(stack)'
    BY <1>6 DEF Quiet, Consumes
  <2>2. AnswersFit'
    BY <1>4, <1>6, <2>1, AnswersStay DEF Pending
  <2>3. ~reopened
    BY <1>1, <1>10 DEF opening
  <2>4. Len(answers') <= 1
    BY <1>0, <1>4, <1>7, <1>10, <2>3 DEF IInv
  <2>5. QED
    BY <2>2, <2>4
<1>11. QED
  BY <1>0, <1>1, <1>6, <1>8, <1>9, <1>10, StepIInv DEF IInv, Alive, opening

-------------------------------------------------------------------------------
LEMMA InitIInv == ASSUME Init PROVE IInv /\ Connects
<1>1. /\ stack = <<>> /\ pending_sends = <<>> /\ fault = "none" /\ answers = <<>>
      /\ under = "closed" /\ uws_state = "CLOSED" /\ sends = 0 /\ accepted = {}
      /\ done = [s \in 1 .. Sends |-> 0]
  BY DEF Init
<1>2. Types
  <2>1. /\ received \in Seq(Piece) /\ inbound \in Seq(Piece) /\ pending_sends \in Seq(1 .. Sends)
        /\ unsent \in Seq(0 .. Sends) /\ answers \in Seq({"OK", "ERROR"}) /\ delivered \in Seq(Nat)
        /\ reply \in Seq(AllKinds \cup {"101", "other"})
    BY DEF Init
  <2>2. opens \in 0 .. MaxOpens /\ sends \in 0 .. Sends /\ noticed \in Nat
    BY UwsAssumption DEF Init
  <2>3. accepted \subseteq 1 .. Sends /\ done \in [1 .. Sends -> Nat]
    BY DEF Init
  <2>4. QED
    BY <2>1, <2>2, <2>3 DEF Init, Types
<1>3. ToSet(stack) = {} /\ ToSet(pending_sends) = {} /\ Stacked(stack)
  BY <1>1, EmptyStack
<1>4. Distinct(pending_sends)
  BY <1>1 DEF Distinct
<1>5. Accounts
  BY <1>1, <1>3, <1>4 DEF Accounts, Fails
<1>6. AnswersFit /\ Len(answers) <= 1
  BY <1>1, <1>3 DEF AnswersFit, OnTop, Has, Decoding
<1>7. QED
  BY <1>1, <1>2, <1>3, <1>5, <1>6 DEF IInv, Connects

LEMMA FramesIInv == ASSUME IInv, Running, ClientFrames \/ UserReturns PROVE IInv'
<1>1. CASE Decoder
  <2>1. CASE DecodeResponse \/ DecodeTooEarly
    BY <1>1, <2>1, DecodeResponseIInv DEF Decoder
  <2>2. CASE DecodesNothing \/ DecodePart
    BY <1>1, <2>2, DecodesNothingIInv DEF Decoder
  <2>3. CASE DecodeBad \/ DecodeMasked \/ DecodeData \/ DecodePing \/ DecodePong
    BY <1>1, <2>3, DecodeFramesIInv DEF Decoder
  <2>4. CASE DecodeClose
    BY <1>1, <2>4, DecodeCloseIInv DEF Decoder
  <2>5. QED
    BY <1>1, <2>1, <2>2, <2>3, <2>4 DEF Decoder
<1>2. CASE Masked
  BY <1>2, DecodeFramesIInv
<1>3. CASE Respond \/ ConsumeReceivedBytes \/ OpenFails \/ OpenError \/ TlsCloses \/ ToClosed
  BY <1>3, RespondIInv, ConsumeReceivedBytesIInv, OpenFailsIInv, OpenErrorIInv, TlsClosesIInv,
     ToClosedIInv
<1>4. CASE Cancel \/ SendFails \/ OnUnderlyingSendComplete \/ OnUnderlyingCloseSent
           \/ OnUnderlyingCloseComplete \/ OnUnderlyingOpenComplete \/ UserReturns
  BY <1>4, CancelIInv, SendFailsIInv, OnUnderlyingSendCompleteIInv, OnUnderlyingCloseSentIInv,
     OnUnderlyingCloseCompleteIInv, OnUnderlyingOpenCompleteIInv, UserReturnsIInv
<1>5. QED
  BY <1>1, <1>2, <1>3, <1>4 DEF ClientFrames

LEMMA UnchangedIInv == ASSUME IInv, UNCHANGED vars PROVE IInv'
<1>1. UNCHANGED <<uws_state, received, pending_sends, on_ws_close_complete, stack, fault, io,
                  unsent, lost, under, inbound, nonceFailed, reopened, opens, reply, sends,
                  accepted, done, answers, delivered, asked, noticed>>
  BY DEF vars, clientVars, ioVars, ioQueue, history, opening, sendHistory
<1>2. Types' /\ Stacked(stack')
  BY <1>1 DEF IInv, Types
<1>3. Accounts'
  BY <1>1, AccountsStay DEF IInv, sendHistory
<1>4. AnswersFit => AnswersFit'
  BY <1>1 DEF AnswersFit, Rest
<1>5. QED
  BY <1>1, <1>2, <1>3, <1>4 DEF IInv, Norm

LEMMA ServedIInv == ASSUME IInv, Served PROVE IInv'
<1>1. CASE Running /\ (ClientFrames \/ UserReturns)
  BY <1>1, FramesIInv
<1>2. ASSUME NEW n \in 1 .. 2 * (MaxFrames + 1), OnUnderlyingBytesReceived(n) PROVE IInv'
  <2>1. n \in Nat
    BY UwsAssumption
  <2>2. QED
    BY <1>2, <2>1, OnUnderlyingBytesReceivedIInv
<1>3. CASE Reports
  BY <1>2, <1>3, UnderlyingOpensIInv, UnderlyingSendsIInv DEF Reports
<1>4. CASE OnUnderlyingError
  BY <1>4, OnUnderlyingErrorIInv
<1>5. QED
  BY <1>1, <1>3, <1>4 DEF Served

LEMMA NextIInv == ASSUME IInv, Connects, [Next]_vars PROVE IInv' /\ Connects'
<1>1. CASE UNCHANGED vars
  <2>1. Connects'
    BY <1>1 DEF Connects, vars, ioVars, ioQueue
  <2>2. QED
    BY <1>1, <2>1, UnchangedIInv
<1>2. CASE Next
  <2>1. IInv'
    <3>1. CASE OpenAsync \/ CloseAsync \/ CloseHandshakeAsync \/ SendFrameAsync \/ Destroy
      BY <3>1, OpenAsyncIInv, CloseAsyncIInv, CloseHandshakeAsyncIInv, SendFrameAsyncIInv,
         DestroyIInv
    <3>2. CASE Served
      BY <3>2, ServedIInv
    <3>3. QED
      BY <1>2, <3>1, <3>2 DEF Next, Served, Frames
  <2>2. Connects'
    <3>1. CASE OpenAsync
      BY <3>1, OpenConnects DEF OpenAsync, IInv
    <3>2. CASE CloseAsync \/ SendFrameAsync \/ Destroy
      BY <3>2, CallsConnect DEF CloseAsync, SendFrameAsync, Destroy, IInv
    <3>3. CASE CloseHandshakeAsync
      BY <3>3 DEF CloseHandshakeAsync, Connects, ioVars, ioQueue
    <3>4. CASE Served
      BY <3>4, ServedConnects DEF IInv
    <3>5. QED
      BY <1>2, <3>1, <3>2, <3>3, <3>4 DEF Next, Served, Frames
  <2>3. QED
    BY <2>1, <2>2
<1>3. QED
  BY <1>1, <1>2

(* The types, whatever the io, the server and the user do.                  *)
LEMMA IInvTypeOK == IInv => TypeOK
<1>1. ASSUME Stacked(stack), NEW i \in DOMAIN stack PROVE stack[i].op \in AllOps
  <2>1. stack[i] \in FrameSet
    BY <1>1 DEF Stacked
  <2>2. QED
    BY <2>1 DEF FrameSet
<1>2. QED
  BY <1>1 DEF IInv, Types, TypeOK, AllOps

(* The types hold, an open is answered at most once and a send completed at *)
(* most once, and between calls the list holds the accepted sends that are  *)
(* not completed: none of those that io_send has still to remove.           *)
THEOREM EveryCallbackRunsOnce == Spec => []CallbacksRunOnce
<1>1. ASSUME IInv PROVE CallbacksRunOnce
  <2>1. \A s \in 1 .. Sends : done[s] <= 1
    BY <1>1 DEF IInv, Accounts
  <2>2. ASSUME stack = <<>> PROVE ToSet(pending_sends) = {s \in accepted : done[s] = 0}
    <3>1. Fails(stack) = {}
      BY <2>2, EmptyStack DEF Fails
    <3>2. ToSet(pending_sends) \subseteq 1 .. Sends /\ accepted \subseteq 1 .. Sends
      <4>1. sends \in 0 .. Sends /\ Sends \in Nat
        BY <1>1, UwsAssumption DEF IInv, Types
      <4>2. QED
        BY <1>1, <4>1 DEF IInv, Accounts
    <3>3. QED
      BY <1>1, <3>1, <3>2 DEF IInv, Accounts
  <2>3. QED
    BY <1>1, <2>1, <2>2, IInvTypeOK
    DEF CallbacksRunOnce, OpenAnsweredOnce, SendsAccounted, IInv
<1>2. QED
  BY <1>1, InitIInv, NextIInv, PTL DEF Spec

(* The decoder has the bytes it consumes.                                   *)
THEOREM DecoderHasItsBytes == Spec => []DecoderOwnsItsBytes
<1>1. IInv => DecoderOwnsItsBytes
  BY DEF IInv, DecoderOwnsItsBytes
<1>2. QED
  BY <1>1, InitIInv, NextIInv, PTL DEF Spec

-------------------------------------------------------------------------------
(* The stream.  What is in the buffer and under way is what the server has  *)
(* sent behind the frames that were consumed, and those were given to the   *)
(* user.  This holds while the client reads; once it does not, only the     *)
(* frames that were given matter, until it is opened again.                 *)
Reading == Pending \cup {"OPEN"}
Eats(s) == {f \in ToSet(s) : f.op = "consume"}

(* The buffer and what is under way begin with frame x of the reply.        *)
Coming(x) == received \o inbound = SubSeq(Pieces(reply), 2 * x + 1, 2 * Len(reply))

(* The frames before frame y were for the user, who has them, or PONGs.     *)
Given(y) ==
  /\ \A j \in DOMAIN delivered : \A i \in 1 .. j - 1 : delivered[i] < delivered[j]
  /\ ToSet(delivered) = {n \in 1 .. y - 1 : reply[n + 1] = "data"}
  /\ \A n \in 1 .. y - 1 : reply[n + 1] \in {"data", "pong"}

(* The open is about to end with an error, whatever the state says.         *)
Broken == OnTop(stack, "openError") \/ (OnTop(stack, "opened") /\ stack[1].ev # "OK")

EnterFits ==
  uws_state \in Pending /\ ~Broken =>
    /\ Coming(0) /\ delivered = <<>>
    /\ uws_state = "OPENING_UNDERLYING_IO" \/ Eats(stack) # {} => received = <<>>
OpenFits ==
  uws_state = "OPEN" /\ ~Broken =>
    \E x \in 1 .. Len(reply) :
      Coming(x) /\ IF Eats(stack) = {} THEN Given(x) ELSE received # <<>> /\ Given(x + 1)

(* A frame that is refused and goes to the user all the same.               *)
MaskedFits ==
  Has(stack, "masked") /\ asked # "handshake" /\ received # <<>> =>
    /\ uws_state \notin Reading /\ delivered = <<>>
    /\ received[1].n = 1 /\ Len(reply) > 1 /\ reply[2] = "masked"
ConsumeFits ==
  \A f \in Eats(stack) : f.n \in {2, 3} /\ (uws_state = "OPEN" => f.n = 2)
WaitFits ==
  uws_state = "OPEN" /\ "pong" \notin ToSet(reply) /\ Len(received) > 1 => Has(stack, "decode")
AskedFits ==
  /\ asked = "handshake" => uws_state \notin Reading
  /\ asked # "handshake" => uws_state # "CLOSING_WAITING_FOR_CLOSE"

Flowing ==
  /\ reply \in Replies
  /\ EnterFits /\ OpenFits /\ MaskedFits /\ ConsumeFits /\ WaitFits /\ AskedFits

(* A TLS io that cancels its open is opening until the cancel has returned; *)
(* the client, which that has told, is CLOSED and can only fail to open.    *)
TlsOn(s) ==
  \E k \in DOMAIN s :
    /\ s[k].op = "tlsCloses" /\ \A i \in 1 .. k - 1 : s[i].op \in UserOps
    /\ \A i \in k + 1 .. Len(s) : s[i].op # "tlsCloses"
TlsFits ==
  Has(stack, "tlsCloses") =>
    /\ io = "tls" /\ under = "opening"
    /\ \/ OnTop(stack, "opened") /\ stack[1].ev # "OK" /\ TlsOn(Rest)
       \/ OnTop(stack, "openFails") /\ TlsOn(Rest)
       \/ uws_state = "CLOSED" /\ TlsOn(stack)

(* The frames of the decoder.                                               *)
Lows(s) == {f \in ToSet(s) : f.op \in {"decode", "masked", "consume"}}

(* What a step leaves that runs no decoder.                                 *)
Moved == Lows(stack') = Lows(stack) /\ TlsFits'

LEMMA TlsOnFacts ==
  ASSUME NEW s, Stacked(s), TlsOn(s)
  PROVE  /\ s # <<>> /\ s[1].op \in UserOps \cup {"tlsCloses"} /\ Has(s, "tlsCloses")
         /\ s[1].op = "tlsCloses" => ~Has(Tail(s), "tlsCloses")
         /\ s[1].op \in UserOps => TlsOn(Tail(s))
<1>0. /\ s \in Seq(FrameSet) /\ DOMAIN s = 1 .. Len(s) /\ Len(s) \in Nat
  BY DEF Stacked
<1>1. PICK k \in 1 .. Len(s) :
        /\ s[k].op = "tlsCloses" /\ \A i \in 1 .. k - 1 : s[i].op \in UserOps
        /\ \A i \in k + 1 .. Len(s) : s[i].op # "tlsCloses"
  BY <1>0 DEF TlsOn
<1>2. s # <<>> /\ (k # 1 => 1 \in 1 .. k - 1)
  BY <1>0, <1>1, EmptySeq
<1>3. s[k] \in ToSet(s)
  BY <1>0 DEF ToSet
<1> DEFINE t == Tail(s)
<1>4. /\ t \in Seq(FrameSet) /\ Len(t) = Len(s) - 1 /\ DOMAIN t = 1 .. Len(s) - 1
      /\ \A i \in 1 .. Len(s) - 1 : t[i] = s[i + 1]
  <2>1. t \in Seq(FrameSet) /\ Len(t) = Len(s) - 1 /\ \A i \in 1 .. Len(t) : t[i] = s[i + 1]
    BY <1>0, <1>2, HeadTailProperties
  <2>2. QED
    BY <2>1
<1> HIDE DEF t
<1>5. CASE k = 1
  <2>1. ~Has(t, "tlsCloses")
    <3>1. ASSUME NEW f \in ToSet(t) PROVE f.op # "tlsCloses"
      <4>1. PICK i \in 1 .. Len(s) - 1 : f = s[i + 1]
        BY <1>4, <3>1 DEF ToSet
      <4>2. i + 1 \in k + 1 .. Len(s)
        BY <1>0, <1>5
      <4>3. QED
        BY <1>1, <4>1, <4>2
    <3>2. QED
      BY <3>1 DEF Has
  <2>2. QED
    BY <1>1, <1>2, <1>3, <1>5, <2>1, UserOpsAssumption DEF Has, t, AllOps, ClientOps
<1>6. CASE k # 1
  <2>1. k - 1 \in DOMAIN t /\ t[k - 1] = s[k]
    BY <1>0, <1>4, <1>6
  <2>2. ASSUME NEW i \in 1 .. (k - 1) - 1 PROVE t[i].op \in UserOps
    <3>1. i + 1 \in 1 .. k - 1 /\ i \in 1 .. Len(s) - 1
      BY <1>0
    <3>2. QED
      BY <1>1, <1>4, <3>1
  <2>3. ASSUME NEW i \in (k - 1) + 1 .. Len(t) PROVE t[i].op # "tlsCloses"
    <3>1. i + 1 \in k + 1 .. Len(s) /\ i \in 1 .. Len(s) - 1
      BY <1>0, <1>4
    <3>2. QED
      BY <1>1, <1>4, <3>1
  <2>4. TlsOn(t)
    BY <1>1, <2>1, <2>2, <2>3 DEF TlsOn
  <2>5. s[1].op \in UserOps
    BY <1>1, <1>2, <1>6
  <2>6. QED
    BY <1>1, <1>2, <1>3, <2>4, <2>5, UserOpsAssumption DEF Has, t, AllOps, ClientOps
<1>7. QED
  BY <1>5, <1>6

(* One frame more.                                                          *)
LEMMA TlsOnPush ==
  ASSUME NEW s, Stacked(s), NEW f, NEW t, Pushed(t, f, s)
  PROVE  /\ f.op \in UserOps /\ TlsOn(s) => TlsOn(t)
         /\ f.op = "tlsCloses" /\ ~Has(s, "tlsCloses") => TlsOn(t)
<1>0. /\ s \in Seq(FrameSet) /\ DOMAIN s = 1 .. Len(s) /\ Len(s) \in Nat
      /\ t \in Seq(FrameSet) /\ t # <<>> /\ t[1] = f /\ Tail(t) = s
  BY DEF Stacked, Pushed
<1>1. /\ Len(t) = Len(s) + 1 /\ DOMAIN t = 1 .. Len(t)
      /\ \A i \in 1 .. Len(s) : t[i + 1] = s[i]
  <2>1. Len(s) = Len(t) - 1 /\ \A i \in 1 .. Len(s) : s[i] = t[i + 1]
    BY <1>0, HeadTailProperties
  <2>2. Len(t) \in Nat /\ DOMAIN t = 1 .. Len(t)
    BY <1>0
  <2>3. QED
    BY <1>0, <2>1, <2>2
<1>a. \A i \in 2 .. Len(t) : i - 1 \in 1 .. Len(s) /\ t[i] = s[i - 1]
  <2>1. ASSUME NEW i \in 2 .. Len(t) PROVE i - 1 \in 1 .. Len(s) /\ t[i] = s[i - 1]
    <3>1. i - 1 \in 1 .. Len(s) /\ (i - 1) + 1 = i
      BY <1>0, <1>1
    <3>2. QED
      BY <1>1, <3>1
  <2>2. QED
    BY <2>1
<1>2. ASSUME f.op \in UserOps, TlsOn(s) PROVE TlsOn(t)
  <2>1. PICK k \in 1 .. Len(s) :
          /\ s[k].op = "tlsCloses" /\ \A i \in 1 .. k - 1 : s[i].op \in UserOps
          /\ \A i \in k + 1 .. Len(s) : s[i].op # "tlsCloses"
    BY <1>0, <1>2 DEF TlsOn
  <2>2. k + 1 \in DOMAIN t /\ t[k + 1] = s[k]
    BY <1>0, <1>1
  <2>3. ASSUME NEW i \in 1 .. (k + 1) - 1 PROVE t[i].op \in UserOps
    <3>1. i = 1 \/ (i \in 2 .. Len(t) /\ i - 1 \in 1 .. k - 1)
      BY <1>0, <1>1
    <3>2. QED
      BY <1>0, <1>2, <1>a, <2>1, <3>1
  <2>4. ASSUME NEW i \in (k + 1) + 1 .. Len(t) PROVE t[i].op # "tlsCloses"
    <3>1. i \in 2 .. Len(t) /\ i - 1 \in k + 1 .. Len(s)
      BY <1>0, <1>1
    <3>2. QED
      BY <1>a, <2>1, <3>1
  <2>5. QED
    BY <2>1, <2>2, <2>3, <2>4 DEF TlsOn
<1>3. ASSUME f.op = "tlsCloses", ~Has(s, "tlsCloses") PROVE TlsOn(t)
  <2>1. 1 \in DOMAIN t /\ t[1].op = "tlsCloses"
    BY <1>0, <1>1, <1>3
  <2>2. \A i \in 1 .. 1 - 1 : t[i].op \in UserOps
    OBVIOUS
  <2>3. ASSUME NEW i \in 1 + 1 .. Len(t) PROVE t[i].op # "tlsCloses"
    <3>1. i - 1 \in DOMAIN s /\ t[i] = s[i - 1]
      BY <1>0, <1>a
    <3>2. t[i] \in ToSet(s)
      BY <3>1 DEF ToSet
    <3>3. QED
      BY <1>3, <3>2 DEF Has
  <2>4. QED
    BY <2>1, <2>2, <2>3 DEF TlsOn
<1>4. QED
  BY <1>2, <1>3

LEMMA NoTls ==
  ASSUME TlsFits, Stacked(stack),
         stack = <<>> \/ stack[1].op \notin UserOps \cup {"opened", "openFails", "tlsCloses"}
         \/ (stack[1].op \in UserOps /\ uws_state # "CLOSED")
  PROVE  ~Has(stack, "tlsCloses")
<1>1. stack = <<>> => ~Has(stack, "tlsCloses")
  BY EmptyStack DEF Has
<1>2. QED
  BY <1>1, TlsOnFacts, UserOpsAssumption DEF TlsFits, OnTop, AllOps, ClientOps

(* A close of the io.                                                       *)
LEMMA ClosesMove ==
  ASSUME Types, NEW callback \in BOOLEAN, NEW b, Stacked(b), NoReport(b),
         ~Has(b, "tlsCloses"), stack' = XioClose(callback).calls \o b,
         under' = XioClose(callback).under, io' = io
  PROVE  Lows(stack') = Lows(b) /\ TlsFits'
<1>1. ClosePut(stack', b)
  BY CloseCallsPut
<1>2. Lows(stack') = Lows(b)
  BY <1>1 DEF ClosePut, Lows
<1>3. CASE ~(io = "tls" /\ under = "opening")
  <2>1. \A f \in ToSet(stack') \ ToSet(b) : f.op \in {"opened", "closed"}
    BY <1>1, <1>3 DEF ClosePut
  <2>2. ~Has(stack', "tlsCloses")
    BY <2>1 DEF Has
  <2>3. QED
    BY <1>2, <2>2 DEF TlsFits
<1>4. CASE io = "tls" /\ under = "opening"
  <2> DEFINE s == Call("tlsCloses") \o b
             f == [op |-> "opened", ev |-> "CANCELLED", n |-> 0]
  <2>1. /\ stack' = (Opened("CANCELLED") \o Call("tlsCloses")) \o b
        /\ under' = "opening"
    BY <1>4, XioCloses
  <2>2. Pushed(s, CallFrame("tlsCloses"), b) /\ NoReport(s)
    BY PutCall DEF Anywhere, AllOps, ClientOps, AtOnce
  <2>3. stack' = Opened("CANCELLED") \o s
    <3>1. [op |-> "tlsCloses", ev |-> "none", n |-> 0] \in FrameSet /\ f \in FrameSet
      BY DEF FrameSet, AllOps, ClientOps, Evs
    <3>2. Call("tlsCloses") \in Seq(FrameSet) /\ Opened("CANCELLED") \in Seq(FrameSet)
      BY <3>1 DEF Call, Opened, Frame
    <3>3. b \in Seq(FrameSet)
      BY DEF Stacked
    <3>4. QED
      BY <2>1, <3>2, <3>3, Appended
  <2> HIDE DEF s
  <2>4. Pushed(stack', f, s)
    <3>1. Stacked(s)
      BY <2>2 DEF Pushed
    <3>2. "opened" \in Anywhere /\ "CANCELLED" \in Evs /\ 0 \in Nat
      BY DEF Anywhere, AllOps, ClientOps, Evs
    <3>3. Pushed(Frame("opened", "CANCELLED", 0) \o s, f, s)
      BY <2>2, <3>1, <3>2, Put
    <3>4. QED
      BY <2>3, <3>3 DEF Opened
  <2>5. f.op = "opened" /\ f.ev # "OK" /\ CallFrame("tlsCloses").op = "tlsCloses"
    BY DEF CallFrame
  <2> HIDE DEF f
  <2>6. Rest' = s /\ stack' # <<>> /\ stack'[1] = f
    BY <2>4 DEF Pushed, Rest
  <2>7. TlsOn(s)
    BY <2>2, <2>5, TlsOnPush
  <2>8. TlsFits'
    BY <1>4, <2>1, <2>5, <2>6, <2>7 DEF TlsFits, OnTop
  <2>9. QED
    BY <1>2, <2>8
<1>5. QED
  BY <1>3, <1>4

(* t keeps the frames of the decoder, and no TLS io is to close.            *)
Settles(t) == Stacked(t) /\ Lows(t) = Lows(stack) /\ ~Has(t, "tlsCloses")
Under(b) == Settles(b) /\ NoReport(b)

LEMMA Settled == ASSUME Settles(stack') PROVE Moved
BY DEF Settles, Moved, TlsFits

LEMMA UnderPut ==
  ASSUME NEW b, Under(b), NEW o \in Anywhere, o # "tlsCloses", NEW ev \in Evs, NEW n \in Nat
  PROVE  /\ Settles(Frame(o, ev, n) \o b) /\ OnTop(Frame(o, ev, n) \o b, o)
         /\ o \notin AtOnce => Under(Frame(o, ev, n) \o b)
<1> DEFINE f == [op |-> o, ev |-> ev, n |-> n]
           t == Frame(o, ev, n) \o b
<1>1. Pushed(t, f, b)
  BY Put DEF Under, Settles
<1>2. f.op = o
  OBVIOUS
<1> HIDE DEF f, t
<1>3. Settles(t) /\ OnTop(t, o) /\ (o \notin AtOnce => NoReport(t))
  BY <1>1, <1>2 DEF Pushed, Under, Settles, Lows, Has, OnTop, Anywhere
<1>4. QED
  BY <1>3 DEF Under, t

(* The frame on top returns.                                                *)
LEMMA PopMoves ==
  ASSUME Stacked(stack), stack # <<>>
  PROVE  /\ Stacked(Rest) /\ NoReport(Rest) /\ ToSet(stack) = {stack[1]} \cup ToSet(Rest)
         /\ stack[1].op \notin {"decode", "masked", "consume"} => Lows(Rest) = Lows(stack)
         /\ stack[1].op \notin {"decode", "masked", "consume"} /\ ~Has(stack, "tlsCloses") =>
              Under(Rest)
<1>1. Stacked(Rest) /\ NoReport(Rest) /\ ToSet(stack) = {stack[1]} \cup ToSet(Rest)
  BY StackedPop DEF Rest
<1>2. stack[1].op \notin {"decode", "masked", "consume"} => Lows(Rest) = Lows(stack)
  BY <1>1 DEF Lows
<1>3. QED
  BY <1>1, <1>2 DEF Under, Settles, Has

LEMMA UserReturnsMoved == ASSUME IInv, TlsFits, Running, UserReturns PROVE Moved
<1>1. stack' = Rest /\ stack[1].op = "user" /\ stack # <<>> /\ UNCHANGED <<uws_state, io, under>>
  BY DEF UserReturns, Running, Top, clientVars, ioVars, ioQueue
<1>2. /\ Lows(Rest) = Lows(stack) /\ (~Has(stack, "tlsCloses") => Under(Rest))
      /\ ToSet(stack) = {stack[1]} \cup ToSet(Rest)
  BY <1>1, PopMoves DEF IInv
<1>3. CASE ~Has(stack, "tlsCloses")
  BY <1>1, <1>2, <1>3, Settled DEF Under
<1>4. CASE Has(stack, "tlsCloses")
  <2>1. uws_state = "CLOSED" /\ TlsOn(Rest) /\ io = "tls" /\ under = "opening"
    BY <1>1, <1>4, TlsOnFacts, UserOpsAssumption DEF TlsFits, OnTop, Rest, IInv, AllOps, ClientOps
  <2>2. TlsFits'
    BY <1>1, <2>1 DEF TlsFits
  <2>3. QED
    BY <1>1, <1>2, <2>2 DEF Moved
<1>5. QED
  BY <1>3, <1>4

LEMMA OpenFailsMoved == ASSUME IInv, TlsFits, Running, OpenFails PROVE Moved
<1>1. /\ stack' = Rest /\ stack[1].op = "openFails" /\ stack # <<>> /\ uws_state' = "CLOSED"
      /\ UNCHANGED <<io, under>>
  BY DEF OpenFails, Running, Top, ioVars, ioQueue
<1>2. /\ Lows(Rest) = Lows(stack) /\ (~Has(stack, "tlsCloses") => Under(Rest))
  BY <1>1, PopMoves DEF IInv
<1>3. CASE ~Has(stack, "tlsCloses")
  BY <1>1, <1>2, <1>3, Settled DEF Under
<1>4. CASE Has(stack, "tlsCloses")
  <2>1. TlsOn(Rest) /\ io = "tls" /\ under = "opening"
    BY <1>1, <1>4, TlsOnFacts, UserOpsAssumption DEF TlsFits, OnTop, IInv, AllOps, ClientOps
  <2>2. TlsFits'
    BY <1>1, <2>1 DEF TlsFits, Rest
  <2>3. QED
    BY <1>1, <1>2, <2>2 DEF Moved
<1>5. QED
  BY <1>3, <1>4

LEMMA TlsClosesMoved ==
  ASSUME IInv, TlsFits, Running, TlsCloses PROVE Moved /\ uws_state = "CLOSED"
<1>1. stack' = Rest /\ stack[1].op = "tlsCloses" /\ stack # <<>>
  BY DEF TlsCloses, Running, Top
<1>2. Lows(Rest) = Lows(stack) /\ ToSet(stack) = {stack[1]} \cup ToSet(Rest)
  BY <1>1, PopMoves DEF IInv
<1>3. Has(stack, "tlsCloses")
  BY <1>1, <1>2 DEF Has
<1>4. uws_state = "CLOSED" /\ TlsOn(stack)
  BY <1>1, <1>3 DEF TlsFits, OnTop
<1>5. TlsFits'
  BY <1>1, <1>4, TlsOnFacts DEF TlsFits, Rest, IInv
<1>6. QED
  BY <1>1, <1>2, <1>4, <1>5 DEF Moved

(* Frames that no TLS io is to close under.                                 *)
LEMMA PlainPops ==
  ASSUME IInv, TlsFits, Running,
         stack[1].op \in {"openError", "closed", "toClosed", "cancel", "respond", "sent",
                          "closeSent", "sendFails"}
  PROVE  Under(Rest) /\ Types /\ ~Has(stack, "tlsCloses") /\ ~OnTop(stack, "opened")
<1>1. ~Has(stack, "tlsCloses")
  BY NoTls, UserOpsAssumption DEF IInv, AllOps, ClientOps
<1>2. Under(Rest)
  BY <1>1, PopMoves DEF IInv, Running
<1>3. QED
  BY <1>1, <1>2 DEF IInv, OnTop

LEMMA OpenErrorMoved == ASSUME IInv, TlsFits, Running, OpenError PROVE Moved
<1>1. Under(Rest) /\ stack' = Frame("user", "open", 0) \o Rest
  BY PlainPops DEF OpenError, Top, IndicateOpenError, User
<1>2. Settles(stack')
  BY <1>1, UnderPut, UserOpsAssumption DEF Anywhere, AllOps, ClientOps, Evs, Events
<1>3. QED
  BY <1>2, Settled

LEMMA SimplePopsMoved ==
  ASSUME IInv, TlsFits, Running, ToClosed \/ SendFails PROVE Moved
<1>1. Under(Rest) /\ stack' = Rest
  BY PlainPops DEF ToClosed, SendFails, Top
<1>2. QED
  BY <1>1, Settled DEF Under

LEMMA CompletionMoved ==
  ASSUME IInv, TlsFits, Running, Cancel \/ OnUnderlyingSendComplete PROVE Moved
<1>1. /\ Under(Rest) /\ ~Has(stack, "tlsCloses") /\ Types
      /\ stack[1].op \in {"cancel", "sent"} /\ Stacked(stack)
  BY PlainPops DEF Cancel, OnUnderlyingSendComplete, Top, IInv
<1>2. CASE stack' = Rest
  BY <1>1, <1>2, Settled DEF Under
<1>3. CASE UNCHANGED stack
  <2>1. Settles(stack')
    BY <1>1, <1>3 DEF Settles
  <2>2. QED
    BY <2>1, Settled
<1>4. CASE Cancel /\ pending_sends # <<>> /\ stack' = Frame("user", "sent", Head(pending_sends)) \o stack
  <2>1. NoReport(stack)
    <3>1. Top("cancel") /\ ToSet(stack) = {stack[1]} \cup ToSet(Rest) /\ NoReport(Rest)
      BY <1>4, PopMoves DEF Cancel, IInv, Running
    <3>2. QED
      BY <3>1 DEF NoReport, AtOnce, Top
  <2>2. Under(stack)
    BY <1>1, <2>1 DEF Under, Settles
  <2>3. Head(pending_sends) \in Nat
    <3> DEFINE E == 1 .. Sends
    <3>1. pending_sends \in Seq(E)
      BY <1>1 DEF Types
    <3> HIDE DEF E
    <3>2. Head(pending_sends) \in E
      BY <1>4, <3>1
    <3>3. QED
      BY <3>2, UwsAssumption DEF E
  <2>4. Settles(stack')
    BY <1>4, <2>2, <2>3, UnderPut, UserOpsAssumption DEF Anywhere, AllOps, ClientOps, Evs, Events
  <2>5. QED
    BY <2>4, Settled
<1>5. CASE stack' = Frame("user", "sent", stack[1].n) \o Rest
  <2>1. stack[1].n \in Nat
    <3>1. stack[1] \in FrameSet
      BY StackedPop DEF IInv, Running
    <3>2. QED
      BY <3>1 DEF FrameSet
  <2>2. Settles(stack')
    BY <1>1, <1>5, <2>1, UnderPut, UserOpsAssumption DEF Anywhere, AllOps, ClientOps, Evs, Events
  <2>3. QED
    BY <2>2, Settled
<1>6. QED
  BY <1>2, <1>3, <1>4, <1>5 DEF Cancel, OnUnderlyingSendComplete

(* The client closes its io.                                                *)
LEMMA ClosingMoves ==
  ASSUME Types, NEW b, Stacked(b), NoReport(b), ~Has(b, "tlsCloses"), Closes(b), io' = io
  PROVE  Lows(stack') = Lows(b) /\ TlsFits'
<1>1. /\ under' = XioClose(TRUE).under
      /\ stack' = XioClose(TRUE).calls \o b \/ Ended(stack', b)
  BY ClosesPut
<1>2. CASE Ended(stack', b)
  <2>1. ~Has(stack', "tlsCloses")
    BY <1>2 DEF Ended, Has
  <2>2. QED
    BY <1>2, <2>1 DEF Ended, Lows, TlsFits
<1>3. CASE stack' = XioClose(TRUE).calls \o b
  BY <1>1, <1>3, ClosesMove
<1>4. QED
  BY <1>1, <1>2, <1>3

LEMMA ErrorAndCloseMoves ==
  ASSUME Types, NEW b, Stacked(b), NoReport(b), ~Has(b, "tlsCloses"),
         IndicateOpenErrorAndClose(b), io' = io
  PROVE  Lows(stack') = Lows(b) /\ TlsFits' /\ Broken'
<1> DEFINE o == XioClose(FALSE)
           s == Call("openError") \o b
<1>1. /\ Stacked(s) /\ NoReport(s) /\ ~Has(s, "tlsCloses") /\ Lows(s) = Lows(b)
      /\ OnTop(s, "openError")
  <2>1. Pushed(s, CallFrame("openError"), b) /\ NoReport(s)
    BY PutCall DEF Anywhere, AllOps, ClientOps, AtOnce
  <2>2. CallFrame("openError").op = "openError"
    BY DEF CallFrame
  <2> HIDE DEF s
  <2>3. QED
    BY <2>1, <2>2 DEF Pushed, Has, Lows, OnTop
<1>2. under' = o.under /\ stack' = (o.calls \o Call("openError")) \o b
  BY DEF IndicateOpenErrorAndClose, Goes
<1>3. /\ Reported(o.calls) /\ o.calls \in Seq(FrameSet)
      /\ o.calls \in {<<>>, Opened("CANCELLED"), Opened("CANCELLED") \o Call("tlsCloses")}
  <2>1. Reported(o.calls)
    BY XioCloses
  <2>2. o.calls \in Seq(FrameSet)
    BY <2>1, PutReported, EmptyStack, Zenon
  <2>3. o.calls \in {<<>>, Opened("CANCELLED"), Opened("CANCELLED") \o Call("tlsCloses")}
    BY UwsAssumption DEF Types, XioClose, Outcome
  <2>4. QED
    BY <2>1, <2>2, <2>3
<1>4. [op |-> "openError", ev |-> "none", n |-> 0] \in FrameSet
  BY DEF FrameSet, AllOps, ClientOps, Evs
<1>5. Call("openError") \in Seq(FrameSet) /\ b \in Seq(FrameSet)
  BY <1>4 DEF Call, Frame, Stacked
<1> HIDE DEF s
<1>6. stack' = o.calls \o s
  <2> HIDE DEF o
  <2>1. (o.calls \o Call("openError")) \o b = o.calls \o (Call("openError") \o b)
    <3> DEFINE c == o.calls
               d == Call("openError")
    <3>1. c \in Seq(FrameSet) /\ d \in Seq(FrameSet) /\ b \in Seq(FrameSet)
      BY <1>3, <1>5
    <3> HIDE DEF c, d
    <3>2. (c \o d) \o b = c \o (d \o b)
      BY <3>1, Appended
    <3>3. QED
      BY <3>2 DEF c, d
  <2>2. QED
    BY <1>2, <2>1 DEF s
<1>7. Lows(stack') = Lows(b) /\ TlsFits'
  BY <1>1, <1>2, <1>6, ClosesMove
<1>8. /\ o.calls = <<>> => stack' = s
      /\ o.calls # <<>> => stack' # <<>> /\ stack'[1] = o.calls[1]
  <2> HIDE DEF o
  <2>1. QED
    BY <1>1, <1>3, <1>6, PutReported
<1>9. /\ Opened("CANCELLED")[1] = [op |-> "opened", ev |-> "CANCELLED", n |-> 0]
      /\ Opened("CANCELLED") # <<>>
  BY DEF Opened, Frame
<1>10. /\ (Opened("CANCELLED") \o Call("tlsCloses"))[1] = [op |-> "opened", ev |-> "CANCELLED", n |-> 0]
       /\ Opened("CANCELLED") \o Call("tlsCloses") # <<>>
  BY DEF Opened, Frame, Call
<1>11. Broken'
  <2>1. CASE o.calls = <<>>
    BY <1>1, <1>8, <2>1 DEF Broken
  <2>2. CASE o.calls # <<>>
    <3>1. stack' # <<>> /\ stack'[1] = [op |-> "opened", ev |-> "CANCELLED", n |-> 0]
      <4> HIDE DEF o
      <4>1. QED
        BY <1>3, <1>8, <1>9, <1>10, <2>2
    <3>2. QED
      BY <3>1 DEF Broken, OnTop
  <2>3. QED
    BY <2>1, <2>2
<1>12. QED
  BY <1>7, <1>11

LEMMA CloseSentMoved == ASSUME IInv, TlsFits, Running, OnUnderlyingCloseSent PROVE Moved
<1>1. Under(Rest) /\ Types /\ io' = io
  BY PlainPops DEF OnUnderlyingCloseSent, Top, ioQueue
<1>2. CASE CloseUnderlyingOrIndicate(Rest, <<>>)
  BY <1>1, <1>2, ClosingMoves DEF Closes, Under, Settles, Moved
<1>3. CASE stack' = Rest
  BY <1>1, <1>3, Settled DEF Under
<1>4. QED
  BY <1>2, <1>3 DEF OnUnderlyingCloseSent

LEMMA CloseCompleteMoved == ASSUME IInv, TlsFits, Running, OnUnderlyingCloseComplete PROVE Moved
<1>1. Under(Rest)
  BY PlainPops DEF OnUnderlyingCloseComplete, Top
<1> DEFINE b == Call("toClosed") \o Rest
<1>2. Under(b)
  BY <1>1, UnderPut DEF Call, Anywhere, AllOps, ClientOps, Evs, AtOnce
<1> HIDE DEF b
<1>3. /\ \A c : c = <<>> => c \o b = b
      /\ Settles(User("closed") \o b)
  <2>1. b \in Seq(FrameSet)
    BY <1>2 DEF Under, Settles, Stacked
  <2>2. Settles(User("closed") \o b)
    BY <1>2, UnderPut, UserOpsAssumption DEF User, Anywhere, AllOps, ClientOps, Evs, Events
  <2>3. QED
    BY <2>1, <2>2
<1>4. \/ stack' = Rest
      \/ stack' = (IF on_ws_close_complete THEN User("closed") ELSE <<>>) \o b
  BY DEF OnUnderlyingCloseComplete, IndicateClosed, b
<1>5. stack' \in {Rest, b, User("closed") \o b}
  BY <1>3, <1>4
<1>6. QED
  BY <1>1, <1>2, <1>3, <1>5, Settled DEF Under

LEMMA RespondMoved == ASSUME IInv, TlsFits, Running, Respond PROVE Moved
<1>1. Under(Rest) /\ Types /\ io' = io /\ noticed' = noticed
  BY PlainPops DEF Respond, Top, history
<1>2. CASE CloseUnderlying(Rest)
  BY <1>1, <1>2, ClosingMoves DEF Closes, Under, Settles, Moved
<1>3. CASE \E o \in XioSend(CloseFrame, Call("closeSent")) : stack' = o.calls \o Rest
  <2>1. CloseFrame \in 0 .. Sends
    BY UwsAssumption DEF CloseFrame
  <2>2. stack' = <<>> \o Rest \/ stack' = Frame("closeSent", "none", 0) \o Rest
    BY <1>1, <1>3, <2>1, XioSends DEF Call
  <2>3. Rest \in Seq(FrameSet) /\ Settles(Rest)
    BY <1>1 DEF Under, Settles, Stacked
  <2>4. Settles(stack')
    <3>1. <<>> \o Rest = Rest
      BY <2>3
    <3>2. Settles(Frame("closeSent", "none", 0) \o Rest)
      BY <1>1, UnderPut DEF Anywhere, AllOps, ClientOps, Evs
    <3>3. QED
      BY <2>2, <2>3, <3>1, <3>2
  <2>5. QED
    BY <2>4, Settled
<1>4. QED
  BY <1>2, <1>3 DEF Respond

(* The open ends here, with the io that it closes.                          *)
OpenEnds == /\ IndicateOpenErrorAndClose(Rest)
            /\ ~(io = "tls" /\ under = "opening") \/ stack[1].ev = "OK"

LEMMA OpenCompleteMoved ==
  ASSUME IInv, TlsFits, Running, OnUnderlyingOpenComplete
  PROVE  Moved /\ (OpenEnds => Broken')
<1>1. /\ stack # <<>> /\ stack[1].op = "opened" /\ Types /\ io' = io /\ Stacked(stack)
      /\ ~Has(stack, "tlsCloses") => Under(Rest)
      /\ ToSet(stack) = {stack[1]} \cup ToSet(Rest) /\ Lows(Rest) = Lows(stack)
      /\ Stacked(Rest) /\ NoReport(Rest)
  BY PopMoves DEF OnUnderlyingOpenComplete, Running, Top, IInv, ioQueue
<1>2. CASE OpenEnds
  <2>1. ~Has(stack, "tlsCloses")
    BY <1>1, <1>2, TlsOnFacts, UserOpsAssumption DEF OpenEnds, TlsFits, OnTop, AllOps, ClientOps
  <2>2. QED
    BY <1>1, <1>2, <2>1, ErrorAndCloseMoves DEF Under, Settles, Moved, OpenEnds
<1>3. CASE ~OpenEnds
  <2>1. CASE UNCHANGED <<uws_state, stack, under>>
    <3>1. TlsFits'
      BY <1>1, <2>1 DEF TlsFits, Rest
    <3>2. QED
      BY <1>3, <2>1, <3>1 DEF Moved
  <2>2. CASE IndicateOpenError(Rest) /\ UNCHANGED under
    <3>1. Pushed(stack', UserFrame("open"), Rest) /\ uws_state' = "CLOSED"
      BY <1>1, <2>2, PutUser DEF IndicateOpenError, Events
    <3>2. /\ Lows(stack') = Lows(stack)
          /\ Has(stack', "tlsCloses") => Has(stack, "tlsCloses")
      BY <1>1, <3>1 DEF Pushed, UserFrame, Lows, Has
    <3>3. ASSUME Has(stack, "tlsCloses") PROVE TlsOn(stack') /\ io = "tls" /\ under = "opening"
      <4>1. TlsOn(Rest) /\ io = "tls" /\ under = "opening"
        BY <1>1, <3>3, TlsOnFacts, UserOpsAssumption DEF TlsFits, OnTop, AllOps, ClientOps
      <4>2. UserFrame("open").op \in UserOps
        BY UserOpsAssumption DEF UserFrame, AllOps, ClientOps
      <4>3. QED
        BY <1>1, <3>1, <4>1, <4>2, TlsOnPush
    <3>4. TlsFits'
      BY <1>1, <2>2, <3>1, <3>2, <3>3 DEF TlsFits
    <3>5. QED
      BY <1>3, <3>2, <3>4 DEF Moved
  <2>3. CASE stack' = Rest /\ stack[1].ev = "OK"
    <3>1. ~Has(stack, "tlsCloses")
      BY <1>1, <2>3, TlsOnFacts, UserOpsAssumption DEF TlsFits, OnTop, AllOps, ClientOps
    <3>2. QED
      BY <1>1, <1>3, <2>3, <3>1, Settled DEF Under
  <2>4. QED
    BY <1>3, <2>1, <2>2, <2>3 DEF OnUnderlyingOpenComplete, OpenEnds
<1>4. QED
  BY <1>2, <1>3

-------------------------------------------------------------------------------
(* The calls of the user.                                                   *)
LEMMA CallerFacts ==
  ASSUME IInv, TlsFits, Calling
  PROVE  /\ Types /\ Stacked(stack) /\ NoReport(stack) /\ ~Broken
         /\ uws_state # "CLOSED" \/ stack = <<>> => ~Has(stack, "tlsCloses")
         /\ Has(stack, "tlsCloses") =>
              uws_state = "CLOSED" /\ TlsOn(stack) /\ io = "tls" /\ under = "opening"
         /\ ~Has(stack, "tlsCloses") => \A t : Resumes(t) => Under(t)
<1>1. /\ Types /\ Stacked(stack) /\ NoReport(stack)
      /\ ~OnTop(stack, "opened") /\ ~OnTop(stack, "openError")
  BY CallingFacts
<1>2. uws_state # "CLOSED" \/ stack = <<>> => ~Has(stack, "tlsCloses")
  BY <1>1, NoTls DEF Calling
<1>3. ~Has(stack, "tlsCloses") => \A t : Resumes(t) => Under(t)
  BY UserOpsAssumption DEF Resumes, Under, Settles, Lows, Has, AllOps, ClientOps
<1>4. Has(stack, "tlsCloses") => TlsOn(stack)
  <2>1. ~OnTop(stack, "openFails")
    BY UserOpsAssumption DEF Calling, OnTop, AllOps, ClientOps
  <2>2. QED
    BY <1>1, <2>1 DEF TlsFits
<1>5. QED
  BY <1>1, <1>2, <1>3, <1>4 DEF Broken, TlsFits

LEMMA CloseWithMoves ==
  ASSUME Types, io' = io, NEW callback \in BOOLEAN, NEW then, Under(then),
         NEW failed, Under(failed), CloseWith(callback, then, failed)
  PROVE  Moved
<1> DEFINE o == XioClose(callback)
           t == Call("cancel") \o then
<1>1. under' = o.under /\ stack' = o.calls \o (IF o.ok THEN t ELSE failed)
  BY DEF CloseWith, Goes
<1>2. Under(t)
  BY UnderPut DEF Call, Anywhere, AllOps, ClientOps, Evs, AtOnce
<1> HIDE DEF t
<1> DEFINE c == IF o.ok THEN t ELSE failed
<1>3. Under(c) /\ stack' = o.calls \o c
  BY <1>1, <1>2
<1> HIDE DEF c
<1>4. QED
  BY <1>1, <1>3, ClosesMove DEF Under, Settles, Moved

LEMMA CloseCallMoved ==
  ASSUME IInv, TlsFits, Calling, NEW callback \in BOOLEAN, NEW then, Resumes(then),
         NEW failed, Resumes(failed), CloseWith(callback, then, failed)
  PROVE  Moved
<1>1. Under(then) /\ Under(failed) /\ Types /\ io' = io
  BY CallerFacts DEF CloseWith, ioQueue
<1>2. QED
  BY <1>1, CloseWithMoves

LEMMA DestroyCallMoved ==
  ASSUME IInv, TlsFits, Calling, OnlyCallers, DestroyClient PROVE Moved
<1> DEFINE d == Call("destroyed")
<1>1. Types /\ Lows(stack) = {} /\ Under(<<>>)
  <2>1. Lows(stack) = {} /\ Lows(<<>>) = {} /\ ~Has(<<>>, "tlsCloses")
    BY EmptyStack, UserOpsAssumption DEF OnlyCallers, Lows, Has, AllOps, ClientOps
  <2>2. QED
    BY <2>1, EmptyStack DEF IInv, Under, Settles
<1>2. Under(d)
  <2>1. Under(Frame("destroyed", "none", 0) \o <<>>)
    BY <1>1, UnderPut DEF Anywhere, AllOps, ClientOps, Evs, AtOnce
  <2>2. Frame("destroyed", "none", 0) \o <<>> = d
    BY DEF Call, Frame
  <2> HIDE DEF d
  <2>3. QED
    BY <2>1, <2>2
<1> HIDE DEF d
<1>3. CASE stack' = d
  BY <1>2, <1>3, Settled DEF Under
<1>4. CASE CloseWith(FALSE, d, d)
  BY <1>1, <1>2, <1>4, CloseWithMoves DEF CloseWith, ioQueue
<1>5. QED
  BY <1>3, <1>4 DEF DestroyClient, d

LEMMA CloseHandshakeMoved == ASSUME IInv, TlsFits, CloseHandshakeAsync PROVE Moved
<1>1. Under(stack)
  BY InUserFacts, CallerFacts DEF CloseHandshakeAsync
<1>2. Settles(Call("cancel") \o stack)
  BY <1>1, UnderPut DEF Call, Anywhere, AllOps, ClientOps, Evs
<1>3. stack' = Call("cancel") \o stack \/ stack' = stack
  BY DEF CloseHandshakeAsync
<1>4. QED
  BY <1>1, <1>2, <1>3, Settled DEF Under

LEMMA SendCallMoved ==
  ASSUME IInv, TlsFits, Calling, NEW sent, Resumes(sent), NEW failed, Resumes(failed),
         SendFrameWith(sent, failed)
  PROVE  Moved
<1> DEFINE s == sends + 1
           t == Frame("sendFails", "none", s) \o failed
<1>1. Under(sent) /\ Under(failed) /\ Types
  BY CallerFacts DEF SendFrameWith
<1>2. s \in 0 .. Sends /\ s \in Nat
  BY <1>1, UwsAssumption DEF SendFrameWith, Types
<1>3. PICK o \in XioSend(s, Sent(s)) : stack' = o.calls \o (IF o.ok THEN sent ELSE t)
  BY DEF SendFrameWith
<1>4. o.calls \in {<<>>, Sent(s)}
  BY <1>1, <1>2, XioSends
<1> HIDE DEF s
<1>5. Under(t)
  BY <1>1, <1>2, UnderPut DEF Anywhere, AllOps, ClientOps, Evs, AtOnce
<1> HIDE DEF t
<1> DEFINE b == IF o.ok THEN sent ELSE t
<1>6. Under(b) /\ stack' = o.calls \o b
  BY <1>1, <1>3, <1>5
<1> HIDE DEF b
<1>7. Settles(stack')
  <2>1. b \in Seq(FrameSet)
    BY <1>6 DEF Under, Settles, Stacked
  <2>2. <<>> \o b = b
    BY <2>1
  <2>3. Settles(Frame("sent", "none", s) \o b)
    BY <1>2, <1>6, UnderPut DEF Anywhere, AllOps, ClientOps, Evs
  <2>4. QED
    BY <1>4, <1>6, <2>2, <2>3 DEF Sent, Under
<1>8. QED
  BY <1>7, Settled

LEMMA OpenCallMoved ==
  ASSUME IInv, TlsFits, Calling, NEW succeeded, Resumes(succeeded),
         NEW failed, Resumes(failed), TlsOn(stack) => TlsOn(failed),
         OpenWith(succeeded, failed)
  PROVE  Moved
<1>1. /\ Types /\ Stacked(stack) /\ NoReport(stack) /\ io' = io
      /\ Has(stack, "tlsCloses") => TlsOn(stack) /\ io = "tls" /\ under = "opening"
      /\ ~Has(stack, "tlsCloses") => Under(succeeded) /\ Under(failed)
  BY CallerFacts DEF OpenWith
<1> DEFINE t == Frame("openFails", "none", 0) \o failed
<1>2. PICK o \in XioOpen :
        under' = o.under /\ stack' = o.calls \o (IF o.ok THEN succeeded ELSE t)
  BY DEF OpenWith, Call
<1>3. CASE ~Has(stack, "tlsCloses")
  <2>1. Under(t) /\ Under(succeeded)
    BY <1>1, <1>3, UnderPut DEF Anywhere, AllOps, ClientOps, Evs, AtOnce
  <2> HIDE DEF t
  <2> DEFINE b == IF o.ok THEN succeeded ELSE t
  <2>2. Under(b) /\ stack' = o.calls \o b
    BY <1>2, <2>1
  <2> HIDE DEF b
  <2>3. o.calls \in {<<>>, Opened("OK"), Opened("ERROR")}
    BY <1>1 DEF XioOpen, Outcome
  <2>4. b \in Seq(FrameSet)
    BY <2>2 DEF Under, Settles, Stacked
  <2>5. <<>> \o b = b
    BY <2>4
  <2>6. Settles(Opened("OK") \o b) /\ Settles(Opened("ERROR") \o b)
    BY <2>2, UnderPut DEF Opened, Anywhere, AllOps, ClientOps, Evs
  <2>7. QED
    BY <2>2, <2>3, <2>5, <2>6, Settled DEF Under
<1>4. CASE Has(stack, "tlsCloses")
  <2>1. TlsOn(failed) /\ io = "tls" /\ under = "opening"
    BY <1>1, <1>4
  <2>2. o.ok = FALSE /\ o.under = under /\ o.calls = <<>>
    BY <1>2, <2>1 DEF XioOpen, Outcome
  <2>3. Pushed(t, CallFrame("openFails"), failed)
    BY Put DEF Resumes, Anywhere, AllOps, ClientOps, Evs, CallFrame
  <2> HIDE DEF t
  <2>4. stack' = t
    <3>1. t \in Seq(FrameSet)
      BY <2>3 DEF Pushed, Stacked
    <3>2. stack' = <<>> \o t
      BY <1>2, <2>2
    <3>3. QED
      BY <3>1, <3>2
  <2>5. OnTop(stack', "openFails") /\ Rest' = failed /\ Lows(stack') = Lows(stack)
    BY <2>3, <2>4, UserOpsAssumption
       DEF Pushed, OnTop, Rest, Lows, CallFrame, Resumes, ClientOps
  <2>6. TlsFits'
    BY <1>1, <1>2, <2>1, <2>2, <2>5 DEF TlsFits, Rest
  <2>7. QED
    BY <2>5, <2>6 DEF Moved
<1>5. QED
  BY <1>3, <1>4

-------------------------------------------------------------------------------
(* What the io reports on an empty stack.                                   *)
LEMMA ReportMoves ==
  ASSUME IInv, TlsFits, DoWork
  PROVE  /\ Types /\ stack = <<>> /\ ~Broken /\ Under(<<>>) /\ ToSet(stack) = {}
         /\ Lows(stack) = {} /\ Eats(stack) = {} /\ ~Has(stack, "tlsCloses")
BY NoTls, EmptyStack DEF DoWork, IInv, Types, Broken, OnTop, Under, Settles, Lows, Eats, Has

LEMMA OneReport ==
  ASSUME Under(<<>>), NEW o \in Anywhere, o # "tlsCloses", NEW ev \in Evs, NEW n \in Nat,
         stack' = Frame(o, ev, n)
  PROVE  Moved
<1>1. Settles(Frame(o, ev, n) \o <<>>)
  BY UnderPut
<1>2. Frame(o, ev, n) \o <<>> = Frame(o, ev, n)
  BY DEF Frame
<1>3. QED
  BY <1>1, <1>2, Settled

LEMMA OpensMoved == ASSUME IInv, TlsFits, UnderlyingOpens PROVE Moved
<1>1. Under(<<>>) /\ stack' \in {Frame("opened", "OK", 0), Frame("opened", "ERROR", 0)}
  BY ReportMoves DEF UnderlyingOpens, Opened
<1>2. QED
  BY <1>1, OneReport DEF Anywhere, AllOps, ClientOps, Evs

LEMMA SendsMoved == ASSUME IInv, TlsFits, UnderlyingSends PROVE Moved
<1>1. /\ Under(<<>>) /\ Types /\ unsent # <<>>
      /\ stack' \in {Frame("closeSent", "none", 0), Frame("sent", "none", Head(unsent))}
  BY ReportMoves DEF UnderlyingSends, Call, Sent
<1>2. Head(unsent) \in Nat
  <2> DEFINE E == 0 .. Sends
  <2>1. unsent \in Seq(E)
    BY <1>1 DEF Types
  <2> HIDE DEF E
  <2>2. Head(unsent) \in E
    BY <1>1, <2>1
  <2>3. QED
    BY <2>2, UwsAssumption DEF E
<1>3. QED
  BY <1>1, <1>2, OneReport DEF Anywhere, AllOps, ClientOps, Evs

LEMMA ErrorMoved == ASSUME IInv, TlsFits, OnUnderlyingError PROVE Moved
<1>1. stack = <<>> /\ Under(<<>>)
  BY ReportMoves DEF OnUnderlyingError
<1>2. \A ev \in Events : Settles(User(ev) \o <<>>)
  BY <1>1, UnderPut, UserOpsAssumption DEF User, Anywhere, AllOps, ClientOps, Evs
<1>3. stack' = <<>> \/ stack' = <<>> \o <<>> \/ \E ev \in Events : stack' = User(ev) \o <<>>
  BY <1>1 DEF OnUnderlyingError, IndicateClosed, IndicateOpenError, IndicateError, Events
<1>4. <<>> \o <<>> = <<>>
  OBVIOUS
<1>5. QED
  BY <1>1, <1>2, <1>3, <1>4, Settled DEF Under

-------------------------------------------------------------------------------
(* The stream under the steps that run no decoder.                          *)
Silent == {"CLOSED", "ERROR", "CLOSING_UNDERLYING_IO", "CLOSING_SENDING_CLOSE"}

LEMMA LowFrames ==
  ASSUME NEW s, NEW t, Lows(s) = Lows(t)
  PROVE  /\ Eats(s) = Eats(t) /\ (Has(s, "masked") <=> Has(t, "masked"))
         /\ Has(s, "decode") <=> Has(t, "decode")
<1>1. \A f : f.op \in {"decode", "masked", "consume"} => (f \in ToSet(s) <=> f \in ToSet(t))
  BY DEF Lows
<1>2. QED
  BY <1>1 DEF Eats, Has

LEMMA FlowStays ==
  ASSUME Flowing, Lows(stack') = Lows(stack), UNCHANGED <<received, reply, delivered>>,
         asked' = "handshake" <=> asked = "handshake",
         \/ uws_state' \in Silent
         \/ uws_state' = uws_state /\ (Broken' \/ uws_state \notin Reading)
         \/ uws_state' = uws_state /\ inbound' = inbound /\ ~Broken
  PROVE  Flowing'
<1>1. /\ Eats(stack') = Eats(stack) /\ (Has(stack', "masked") <=> Has(stack, "masked"))
      /\ Has(stack', "decode") <=> Has(stack, "decode")
  BY LowFrames
<1>2. uws_state' = uws_state \/ uws_state' \notin Reading \cup {"CLOSING_WAITING_FOR_CLOSE"}
  BY DEF Silent, Reading, Pending
<1>3. EnterFits'
  <2>1. CASE uws_state' \in Pending /\ ~Broken'
    <3>1. uws_state' = uws_state /\ inbound' = inbound /\ ~Broken
      BY <1>2, <2>1 DEF Reading, Silent, Pending
    <3>2. QED
      BY <1>1, <3>1 DEF Flowing, EnterFits, Coming
  <2>2. QED
    BY <2>1 DEF EnterFits
<1>4. OpenFits'
  <2>1. CASE uws_state' = "OPEN" /\ ~Broken'
    <3>1. uws_state' = uws_state /\ inbound' = inbound /\ ~Broken
      BY <1>2, <2>1 DEF Reading, Silent, Pending
    <3>2. QED
      BY <1>1, <2>1, <3>1 DEF Flowing, OpenFits, Coming, Given
  <2>2. QED
    BY <2>1 DEF OpenFits
<1>5. MaskedFits'
  BY <1>1, <1>2 DEF Flowing, MaskedFits
<1>6. ConsumeFits'
  BY <1>1, <1>2 DEF Flowing, ConsumeFits, Reading
<1>7. WaitFits'
  BY <1>1, <1>2 DEF Flowing, WaitFits, Reading
<1>8. AskedFits'
  BY <1>2 DEF Flowing, AskedFits
<1>9. QED
  BY <1>3, <1>4, <1>5, <1>6, <1>7, <1>8 DEF Flowing

(* The frames due stay in order when no frame is given to the user.         *)
LEMMA OrderStays ==
  ASSUME FramesInOrder, UNCHANGED <<reply, delivered>>,
         asked' = "handshake" <=> asked = "handshake"
  PROVE  FramesInOrder'
BY DEF FramesInOrder, Due

(* All of it, with the order of the frames that were given.                 *)
Streams == Flowing /\ TlsFits /\ FramesInOrder

LEMMA MovedStays ==
  ASSUME Streams, Moved, UNCHANGED <<received, reply, delivered>>,
         asked' = "handshake" <=> asked = "handshake",
         \/ uws_state' \in Silent
         \/ uws_state' = uws_state /\ (Broken' \/ uws_state \notin Reading)
         \/ uws_state' = uws_state /\ inbound' = inbound /\ ~Broken
  PROVE  Streams'
<1>1. Flowing'
  BY FlowStays DEF Moved, Streams
<1>2. FramesInOrder'
  BY OrderStays DEF Streams
<1>3. QED
  BY <1>1, <1>2 DEF Moved, Streams

LEMMA ReturnsStream ==
  ASSUME IInv, Streams, Running,
         UserReturns \/ OpenFails \/ TlsCloses \/ OpenError \/ ToClosed \/ SendFails
         \/ Cancel \/ OnUnderlyingSendComplete
  PROVE  Streams'
<1>1. Moved
  BY UserReturnsMoved, OpenFailsMoved, TlsClosesMoved, OpenErrorMoved, SimplePopsMoved,
     CompletionMoved DEF Streams
<1>2. UNCHANGED <<received, reply, delivered, asked>>
  BY DEF UserReturns, OpenFails, TlsCloses, OpenError, ToClosed, SendFails, Cancel,
         OnUnderlyingSendComplete, clientVars, ioVars, history, opening
<1>3. CASE OpenFails \/ TlsCloses \/ OpenError \/ ToClosed
  <2>1. uws_state' = "CLOSED"
    <3>1. TlsCloses => uws_state = "CLOSED" /\ uws_state' = uws_state
      BY TlsClosesMoved DEF Streams, TlsCloses, clientVars
    <3>2. QED
      BY <1>3, <3>1 DEF OpenFails, OpenError, ToClosed, IndicateOpenError
  <2>2. QED
    BY <1>1, <1>2, <2>1, MovedStays DEF Silent
<1>4. CASE UserReturns \/ SendFails \/ Cancel \/ OnUnderlyingSendComplete
  <2>1. uws_state' = uws_state /\ inbound' = inbound
    BY <1>4 DEF UserReturns, SendFails, Cancel, OnUnderlyingSendComplete, clientVars, ioVars
  <2>2. ~Broken
    BY <1>4 DEF UserReturns, SendFails, Cancel, OnUnderlyingSendComplete, Broken, OnTop, Top
  <2>3. QED
    BY <1>1, <1>2, <2>1, <2>2, MovedStays
<1>5. QED
  BY <1>3, <1>4

LEMMA ClosingStream ==
  ASSUME IInv, Streams, Running,
         OnUnderlyingCloseSent \/ OnUnderlyingCloseComplete \/ Respond
  PROVE  Streams'
<1>1. Moved
  BY CloseSentMoved, CloseCompleteMoved, RespondMoved DEF Streams
<1>2. UNCHANGED <<received, reply, delivered, asked>> /\ ~Broken
  BY DEF OnUnderlyingCloseSent, OnUnderlyingCloseComplete, Respond, ioVars, history, opening,
         Broken, OnTop, Top
<1>3. uws_state' \in Silent \/ (uws_state' = uws_state /\ inbound' = inbound)
  BY DEF OnUnderlyingCloseSent, OnUnderlyingCloseComplete, Respond, CloseUnderlying,
         CloseUnderlyingOrIndicate, IndicateClosed, IndicateError, Silent, ioVars
<1>4. QED
  BY <1>1, <1>2, <1>3, MovedStays

LEMMA OpenCompleteStream ==
  ASSUME IInv, Streams, Running, OnUnderlyingOpenComplete
  PROVE  Streams'
<1>1. Moved /\ (OpenEnds => Broken')
  BY OpenCompleteMoved DEF Streams
<1>2. /\ UNCHANGED <<received, reply, delivered, asked>>
      /\ stack # <<>> /\ stack[1].op = "opened"
  BY DEF OnUnderlyingOpenComplete, Running, Top
<1>3. CASE OpenEnds
  <2>1. uws_state' = uws_state
    BY <1>3 DEF OpenEnds, IndicateOpenErrorAndClose
  <2>2. QED
    BY <1>1, <1>2, <1>3, <2>1, MovedStays
<1>4. CASE UNCHANGED <<uws_state, stack, inbound>>
  <2>1. Broken => Broken'
    BY <1>4 DEF Broken, OnTop
  <2>2. QED
    BY <1>1, <1>2, <1>4, <2>1, MovedStays
<1>5. CASE IndicateOpenError(Rest)
  BY <1>1, <1>2, <1>5, MovedStays DEF IndicateOpenError, Silent
<1>6. CASE /\ uws_state = "OPENING_UNDERLYING_IO" /\ stack[1].ev = "OK"
           /\ uws_state' = "WAITING_FOR_UPGRADE_RESPONSE" /\ UNCHANGED inbound
  <2>1. /\ Eats(stack') = Eats(stack) /\ (Has(stack', "masked") <=> Has(stack, "masked"))
    BY <1>1, LowFrames DEF Moved
  <2>2. ~Broken
    BY <1>2, <1>6 DEF Broken, OnTop
  <2>3. received = <<>> /\ Coming(0) /\ delivered = <<>>
    BY <1>6, <2>2 DEF Streams, Flowing, EnterFits, Pending
  <2>4. EnterFits' /\ OpenFits' /\ MaskedFits' /\ WaitFits'
    BY <1>2, <1>6, <2>3 DEF EnterFits, OpenFits, MaskedFits, WaitFits, Coming
  <2>5. ConsumeFits' /\ AskedFits'
    BY <1>2, <1>6, <2>1 DEF Streams, Flowing, ConsumeFits, AskedFits, Reading, Pending
  <2>6. Flowing' /\ FramesInOrder'
    BY <1>2, <2>4, <2>5, OrderStays DEF Streams, Flowing
  <2>7. QED
    BY <1>1, <2>6 DEF Streams, Moved
<1>7. QED
  BY <1>3, <1>4, <1>5, <1>6 DEF OnUnderlyingOpenComplete, OpenEnds

LEMMA CloseCallStream ==
  ASSUME Streams, Moved, NEW callback, NEW then, NEW failed, CloseWith(callback, then, failed)
  PROVE  Streams'
<1>1. /\ UNCHANGED <<received, reply, delivered>> /\ uws_state' = "CLOSING_UNDERLYING_IO"
      /\ asked' = "handshake" <=> asked = "handshake"
  BY DEF CloseWith, opening
<1>2. QED
  BY <1>1, MovedStays DEF Silent

LEMMA SendCallStream ==
  ASSUME Streams, Moved, ~Broken, NEW sent, NEW failed, SendFrameWith(sent, failed)
  PROVE  Streams'
BY MovedStays DEF SendFrameWith, opening, Streams

LEMMA DestroyCallStream ==
  ASSUME Streams, Moved, ~Broken, DestroyClient
  PROVE  Streams'
<1>1. CASE UNCHANGED <<clientVars, ioVars, history>>
  BY <1>1, MovedStays DEF clientVars, ioVars, history, opening
<1>2. QED
  BY <1>1, CloseCallStream DEF DestroyClient

LEMMA CallsStream ==
  ASSUME IInv, Streams, CloseAsync \/ SendFrameAsync \/ Destroy
  PROVE  Streams'
<1>1. CASE CloseAsync
  BY <1>1, InUserFacts, CloseCallMoved, CloseCallStream DEF CloseAsync, Streams
<1>2. CASE SendFrameAsync
  BY <1>2, InUserFacts, CallerFacts, SendCallMoved, SendCallStream DEF SendFrameAsync, Streams
<1>3. CASE Destroy
  <2>1. Calling /\ OnlyCallers /\ ~Broken
    BY <1>3, EmptyStack DEF Destroy, Calling, OnlyCallers, Broken, OnTop
  <2>2. QED
    BY <1>3, <2>1, DestroyCallMoved, DestroyCallStream DEF Destroy, Streams
<1>4. QED
  BY <1>1, <1>2, <1>3

(* A step of a caller that leaves the client alone: it returns, or a        *)
(* callback becomes what its user does in it.                               *)
Others(s) == {f \in ToSet(s) : f.op \notin UserOps}
CallerStep ==
  /\ Calling /\ UNCHANGED <<clientVars, fault, ioVars, history>>
  /\ Stacked(stack') /\ Others(stack') = Others(stack) /\ (TlsOn(stack) => TlsOn(stack'))

LEMMA CallerStepIInv == ASSUME IInv, CallerStep PROVE IInv'
<1>0. /\ Types /\ Stacked(stack) /\ Alive
      /\ ~OnTop(stack, "opened") /\ ~OnTop(stack, "openError")
      /\ ~reopened /\ AnswersFit => Quiet(stack) /\ Consumes(stack)
  BY CallingFacts DEF CallerStep
<1>1. Types' /\ fault' = fault /\ reopened' = reopened
  BY <1>0 DEF CallerStep, Types, clientVars, ioVars, ioQueue, history, opening, sendHistory
<1>2. \A f : f.op \notin UserOps => (f \in ToSet(stack') <=> f \in ToSet(stack))
  <2>1. \A f : f \in Others(stack') <=> f \in Others(stack)
    BY DEF CallerStep
  <2>2. QED
    BY <2>1 DEF Others
<1>3. Fails(stack') = Fails(stack)
  BY <1>2, UserOpsAssumption DEF Fails, AllOps, ClientOps
<1>4. Accounts'
  BY <1>3, AccountsStay DEF IInv, CallerStep, clientVars, history, sendHistory
<1>5. ASSUME ~reopened', AnswersFit PROVE AnswersFit'
  <2>1. Quiet(stack) /\ Consumes(stack)
    BY <1>0, <1>1, <1>5
  <2>2. Quiet(stack') /\ Consumes(stack)'
    BY <1>2, <2>1, UserOpsAssumption DEF Quiet, Consumes, CallerStep, clientVars, AllOps, ClientOps
  <2>3. Decoding(stack') => Decoding(stack)
    BY <1>2, UserOpsAssumption DEF Decoding, Has, AllOps, ClientOps
  <2>4. QED
    BY <1>0, <1>5, <2>2, <2>3, AnswersStay
       DEF AnswersFit, CallerStep, clientVars, ioVars, history, Pending
<1>6. QED
  BY <1>0, <1>1, <1>4, <1>5, StepIInv DEF IInv, CallerStep, Alive, history

LEMMA CallerStepMoved == ASSUME IInv, TlsFits, CallerStep PROVE Moved
<1>1. \A f : f.op \notin UserOps => (f \in ToSet(stack') <=> f \in ToSet(stack))
  <2>1. \A f : f \in Others(stack') <=> f \in Others(stack)
    BY DEF CallerStep
  <2>2. QED
    BY <2>1 DEF Others
<1>2. Lows(stack') = Lows(stack)
  BY <1>1, UserOpsAssumption DEF Lows, AllOps, ClientOps
<1>3. Has(stack', "tlsCloses") => Has(stack, "tlsCloses")
  BY <1>1, UserOpsAssumption DEF Has, AllOps, ClientOps
<1>4. /\ Has(stack, "tlsCloses") =>
           uws_state = "CLOSED" /\ TlsOn(stack) /\ io = "tls" /\ under = "opening"
      /\ UNCHANGED <<uws_state, io, under>> /\ (TlsOn(stack) => TlsOn(stack'))
  BY CallerFacts DEF CallerStep, clientVars, ioVars, ioQueue
<1>5. TlsFits'
  BY <1>3, <1>4 DEF TlsFits
<1>6. QED
  BY <1>2, <1>5 DEF Moved

LEMMA CallerStepStream == ASSUME IInv, Streams, CallerStep PROVE Streams'
<1>1. Moved /\ ~Broken
  BY CallerStepMoved, CallerFacts DEF Streams, CallerStep
<1>2. QED
  BY <1>1, MovedStays DEF CallerStep, clientVars, ioVars, history, opening

LEMMA CloseHandshakeStream == ASSUME IInv, Streams, CloseHandshakeAsync PROVE Streams'
<1>1. Moved
  BY CloseHandshakeMoved DEF Streams
<1>2. /\ UNCHANGED <<received, reply, delivered>> /\ asked' = "handshake"
      /\ uws_state' = "CLOSING_WAITING_FOR_CLOSE"
  BY DEF CloseHandshakeAsync, opening
<1>3. Eats(stack') = Eats(stack)
  BY <1>1, LowFrames DEF Moved
<1>4. EnterFits' /\ OpenFits' /\ MaskedFits' /\ WaitFits' /\ AskedFits'
  BY <1>2 DEF EnterFits, OpenFits, MaskedFits, WaitFits, AskedFits, Reading, Pending
<1>5. ConsumeFits'
  BY <1>2, <1>3 DEF Streams, Flowing, ConsumeFits
<1>6. Flowing' /\ FramesInOrder'
  BY <1>2, <1>4, <1>5 DEF Streams, Flowing, FramesInOrder
<1>7. QED
  BY <1>1, <1>6 DEF Moved, Streams

LEMMA OpenCallStream ==
  ASSUME Streams, Moved, NEW succeeded, NEW failed, OpenWith(succeeded, failed)
  PROVE  Streams'
<1>2. /\ received' = <<>> /\ delivered' = <<>> /\ asked' = "no"
      /\ uws_state' = "OPENING_UNDERLYING_IO" /\ inbound' = Pieces(reply') /\ reply' \in Replies
  BY DEF OpenWith, Replies
<1>3. Eats(stack') = Eats(stack)
  BY LowFrames DEF Moved
<1>4. Coming(0)'
  <2>1. Pieces(reply') \in Seq(Piece) /\ Len(Pieces(reply')) = 2 * Len(reply')
    <3>1. reply' \in Seq(AllKinds \cup {"101", "other"}) /\ Pieces(reply') \in Seq(Piece)
      BY <1>2, RepliesArePieces
    <3>2. Len(reply') \in Nat
      BY <3>1
    <3>3. DOMAIN Pieces(reply') = 1 .. 2 * Len(reply')
      BY DEF Pieces
    <3>4. QED
      BY <3>1, <3>2, <3>3
  <2> DEFINE p == Pieces(reply')
  <2>2. received' \o inbound' = p /\ SubSeq(p, 1, 2 * Len(reply')) = p
    <3>1. p \in Seq(Piece) /\ Len(p) = 2 * Len(reply') /\ inbound' = p /\ received' = <<>>
      BY <1>2, <2>1
    <3> HIDE DEF p
    <3>2. QED
      BY <3>1
  <2>3. 2 * 0 + 1 = 1
    OBVIOUS
  <2>4. QED
    BY <2>2, <2>3 DEF Coming
<1>5. EnterFits' /\ OpenFits' /\ MaskedFits' /\ WaitFits' /\ AskedFits'
  BY <1>2, <1>4 DEF EnterFits, OpenFits, MaskedFits, WaitFits, AskedFits, Reading, Pending
<1>6. ConsumeFits'
  BY <1>2, <1>3 DEF Streams, Flowing, ConsumeFits
<1>7. FramesInOrder'
  BY <1>2 DEF FramesInOrder
<1>8. QED
  BY <1>2, <1>5, <1>6, <1>7 DEF Moved, Streams, Flowing

LEMMA OpenStream == ASSUME IInv, Streams, OpenAsync PROVE Streams'
BY InUserFacts, OpenCallMoved, OpenCallStream DEF OpenAsync, Streams

LEMMA ReportsStream ==
  ASSUME IInv, Streams, UnderlyingOpens \/ UnderlyingSends \/ OnUnderlyingError
  PROVE  Streams'
<1>1. Moved /\ ~Broken
  BY OpensMoved, SendsMoved, ErrorMoved, ReportMoves
     DEF Streams, UnderlyingOpens, UnderlyingSends, OnUnderlyingError
<1>2. UNCHANGED <<received, reply, delivered, asked>>
  BY DEF UnderlyingOpens, UnderlyingSends, OnUnderlyingError, clientVars, history, opening
<1>3. CASE UnderlyingOpens
  <2>1. uws_state' = uws_state
    BY <1>3 DEF UnderlyingOpens, clientVars
  <2>2. inbound' = inbound \/ Broken'
    <3>1. CASE Goes("open")
      BY <3>1 DEF Goes
    <3>2. CASE stack' = Opened("ERROR")
      <4>1. OnTop(stack', "opened") /\ stack'[1].ev # "OK"
        BY <3>2 DEF Opened, Frame, OnTop
      <4>2. QED
        BY <4>1 DEF Broken
    <3>3. QED
      BY <1>3, <3>1, <3>2 DEF UnderlyingOpens
  <2>3. QED
    BY <1>1, <1>2, <2>1, <2>2, MovedStays
<1>4. CASE UnderlyingSends
  BY <1>1, <1>2, <1>4, MovedStays DEF UnderlyingSends, clientVars
<1>5. CASE OnUnderlyingError
  <2>1. uws_state' \in Silent \/ (uws_state' = uws_state /\ uws_state \notin Reading)
    BY <1>5 DEF OnUnderlyingError, IndicateClosed, IndicateOpenError, IndicateError, Silent,
       Reading, Pending
  <2>2. QED
    BY <1>1, <1>2, <2>1, MovedStays
<1>6. QED
  BY <1>3, <1>4, <1>5

-------------------------------------------------------------------------------
(* The pieces of a reply, and the buffer that takes them.                   *)
LEMMA ReplyShape ==
  ASSUME NEW r \in Replies
  PROVE  /\ r \in Seq(AllKinds \cup {"101", "other"}) /\ Len(r) \in Nat
         /\ Pieces(r) \in Seq(Piece) /\ Len(Pieces(r)) = 2 * Len(r)
         /\ \A x \in 0 .. Len(r) - 1 :
              Pieces(r)[2 * x + 1] = [n |-> x, kind |-> r[x + 1], part |-> 1]
         /\ \A x \in 2 .. Len(r) - 1 : r[x + 1] = "data"
<1>1. r \in Seq(AllKinds \cup {"101", "other"}) /\ Pieces(r) \in Seq(Piece) /\ Len(r) \in Nat
  BY RepliesArePieces
<1>2. DOMAIN Pieces(r) = 1 .. 2 * Len(r)
  BY DEF Pieces
<1>3. ASSUME NEW x \in 0 .. Len(r) - 1
      PROVE  Pieces(r)[2 * x + 1] = [n |-> x, kind |-> r[x + 1], part |-> 1]
  <2>1. 2 * x + 1 \in 1 .. 2 * Len(r)
    BY <1>1, <1>3
  <2>2. ((2 * x + 1) - 1) \div 2 = x /\ ((2 * x + 1) + 1) \div 2 = x + 1 /\ (2 * x + 1) % 2 = 1
    BY <1>1, <1>3
  <2>3. QED
    BY <2>1, <2>2 DEF Pieces
<1>4. ASSUME NEW x \in 2 .. Len(r) - 1 PROVE r[x + 1] = "data"
  <2> DEFINE behind(kind) == IF kind \in {"close", "badReason"} THEN 0 ELSE MaxFrames - 1
  <2>1. r # <<>> /\ r # <<"other">>
    <3> DEFINE o == <<"other">>
    <3>1. Len(<<>>) = 0 /\ Len(o) = 1
      OBVIOUS
    <3>a. Len(r) \in Nat /\ Len(r) >= 3
      BY <1>1, <1>4
    <3> DEFINE len == Len(r)
    <3>b. len \in Nat /\ len >= 3
      BY <3>a
    <3> HIDE DEF len
    <3>c. len # 0 /\ len # 1
      BY <3>b
    <3>2. Len(r) # 0 /\ Len(r) # 1
      BY <3>c DEF len
    <3> HIDE DEF o
    <3>3. r # o
      BY <3>1, <3>2
    <3>4. r # <<>>
      BY <3>1, <3>2
    <3>5. QED
      BY <3>3, <3>4 DEF o
  <2>2. PICK kind \in Kinds : r = <<"101", kind>> \o [i \in 1 .. behind(kind) |-> "data"]
    BY <2>1 DEF Replies
  <2> DEFINE n == behind(kind)
             d == [i \in 1 .. n |-> "data"]
  <2>3. n \in Int
    BY UwsAssumption
  <2> HIDE DEF n
  <2>4. CASE n \in Nat
    <3>1. d \in Seq({"data"}) /\ Len(d) = n
      BY <2>4
    <3>2. r = <<"101", kind>> \o d
      BY <2>2 DEF n
    <3>3. \A i \in 1 .. n : d[i] = "data"
      OBVIOUS
    <3> HIDE DEF d
    <3> DEFINE h == <<"101", kind>>
    <3>a. h \in Seq(Kinds \cup {"101"}) /\ Len(h) = 2
      OBVIOUS
    <3> HIDE DEF h
    <3>b. /\ Len(r) = 2 + n
          /\ \A i \in 1 .. 2 + n : r[i] = IF i <= 2 THEN h[i] ELSE d[i - 2]
      <4> DEFINE T == Kinds \cup {"101", "data"}
      <4>1. h \in Seq(T) /\ d \in Seq(T) /\ r = h \o d
        BY <3>1, <3>2, <3>a DEF h
      <4> HIDE DEF T
      <4>2. QED
        <5>1. /\ Len(h \o d) = Len(h) + Len(d)
              /\ \A i \in 1 .. Len(h) + Len(d) :
                   (h \o d)[i] = IF i <= Len(h) THEN h[i] ELSE d[i - Len(h)]
          BY <4>1, ConcatProperties, Zenon
        <5>2. QED
          BY <3>1, <3>a, <4>1, <5>1
    <3>4. Len(r) = n + 2
      BY <2>4, <3>b
    <3>5. r[x + 1] = d[x - 1]
      BY <2>4, <3>b, <3>4, <1>4
    <3>6. QED
      BY <2>4, <3>3, <3>4, <3>5, <1>4
  <2>5. CASE n \notin Nat
    <3>1. 1 .. n = 1 .. 0
      BY <2>3, <2>5
    <3>2. d = [i \in 1 .. 0 |-> "data"]
      BY <3>1
    <3>3. d = <<>>
      BY <3>2
    <3>4. r = <<"101", kind>> \o d
      BY <2>2 DEF n
    <3> HIDE DEF d
    <3>5. Len(r) = 2
      BY <3>3, <3>4
    <3>6. QED
      BY <3>5, <1>4
  <2>6. QED
    BY <2>4, <2>5
<1>5. Len(Pieces(r)) = 2 * Len(r)
  <2> DEFINE p == Pieces(r)
  <2>1. p \in Seq(Piece) /\ DOMAIN p = 1 .. 2 * Len(r) /\ 2 * Len(r) \in Nat
    BY <1>1, <1>2
  <2> HIDE DEF p
  <2>2. Len(p) = 2 * Len(r)
    BY <2>1
  <2>3. QED
    BY <2>2 DEF p
<1>6. QED
  BY <1>1, <1>3, <1>4, <1>5, Zenon

LEMMA TakeFront ==
  ASSUME NEW T, NEW p \in Seq(T), NEW a \in Seq(T), NEW b \in Seq(T), NEW k \in Nat,
         a \o b = SubSeq(p, k + 1, Len(p))
  PROVE  /\ a # <<>> => k < Len(p) /\ a[1] = p[k + 1]
         /\ \A n \in 1 .. Len(a) : /\ SubSeq(a, n + 1, Len(a)) \o b = SubSeq(p, k + n + 1, Len(p))
                                   /\ k + n <= Len(p)
<1> DEFINE q == SubSeq(p, k + 1, Len(p))
<1>1. /\ Len(a) \in Nat /\ Len(b) \in Nat /\ Len(p) \in Nat
      /\ q \in Seq(T) /\ Len(q) = (IF k <= Len(p) THEN Len(p) - k ELSE 0)
      /\ \A i \in 1 .. Len(q) : q[i] = p[k + i]
  OBVIOUS
<1>2. a \o b = q
  OBVIOUS
<1> HIDE DEF q
<1>3. /\ Len(a) + Len(b) = Len(q)
      /\ \A i \in 1 .. Len(q) : p[k + i] = IF i <= Len(a) THEN a[i] ELSE b[i - Len(a)]
  <2>1. /\ Len(a \o b) = Len(a) + Len(b)
        /\ \A i \in 1 .. Len(a) + Len(b) :
             (a \o b)[i] = IF i <= Len(a) THEN a[i] ELSE b[i - Len(a)]
    BY ConcatProperties
  <2>2. QED
    BY <1>1, <1>2, <2>1
<1>4. a # <<>> => Len(a) > 0
  BY <1>1, EmptySeq
<1>5. a # <<>> => k < Len(p) /\ a[1] = p[k + 1]
  <2>1. SUFFICES ASSUME a # <<>> PROVE k < Len(p) /\ a[1] = p[k + 1]
    OBVIOUS
  <2>2. 1 \in 1 .. Len(q) /\ 1 <= Len(a)
    BY <1>1, <1>3, <1>4, <2>1
  <2>3. k < Len(p)
    BY <1>1, <2>2
  <2>4. p[k + 1] = a[1]
    BY <1>3, <2>2
  <2>5. QED
    BY <2>3, <2>4
<1>6. ASSUME NEW n \in 1 .. Len(a)
      PROVE  /\ SubSeq(a, n + 1, Len(a)) \o b = SubSeq(p, k + n + 1, Len(p))
             /\ k + n <= Len(p)
  <2>1. k + n <= Len(p)
    BY <1>1, <1>3
  <2> DEFINE l == SubSeq(a, n + 1, Len(a))
             s == l \o b
             t == SubSeq(p, k + n + 1, Len(p))
  <2>2. l \in Seq(T) /\ Len(l) = Len(a) - n /\ \A i \in 1 .. Len(a) - n : l[i] = a[n + i]
    BY <1>1
  <2>3. t \in Seq(T) /\ Len(t) = Len(p) - (k + n) /\ \A i \in 1 .. Len(t) : t[i] = p[k + n + i]
    BY <1>1, <2>1
  <2> HIDE DEF l, t
  <2>4. s \in Seq(T) /\ Len(s) = Len(l) + Len(b)
        /\ \A i \in 1 .. Len(s) : s[i] = IF i <= Len(l) THEN l[i] ELSE b[i - Len(l)]
    <3>1. /\ l \o b \in Seq(T) /\ Len(l \o b) = Len(l) + Len(b)
          /\ \A i \in 1 .. Len(l) + Len(b) :
               (l \o b)[i] = IF i <= Len(l) THEN l[i] ELSE b[i - Len(l)]
      BY <2>2, ConcatProperties, Zenon
    <3>2. QED
      BY <3>1
  <2> HIDE DEF s
  <2>5. Len(s) = Len(t)
    <3>1. Len(q) = Len(p) - k
      BY <1>1, <2>1
    <3>2. Len(s) = (Len(a) - n) + Len(b) /\ Len(t) = Len(p) - (k + n)
      BY <2>2, <2>3, <2>4
    <3>3. (Len(a) - n) + Len(b) = Len(p) - (k + n)
      <4> DEFINE la == Len(a)
                 lb == Len(b)
                 lp == Len(p)
      <4>1. la \in Nat /\ lb \in Nat /\ lp \in Nat /\ la + lb = lp - k /\ n \in Int
        <5>1. la \in Nat /\ lb \in Nat /\ lp \in Nat
          BY <1>1
        <5>2. n \in Int
          BY <5>1
        <5>3. la + lb = lp - k
          BY <1>3, <3>1, Zenon
        <5>4. QED
          BY <5>1, <5>2, <5>3
      <4> HIDE DEF la, lb, lp
      <4>2. (la - n) + lb = lp - (k + n)
        BY <4>1
      <4>3. QED
        BY <4>2 DEF la, lb, lp
    <3>4. QED
      BY <3>2, <3>3
  <2>6. ASSUME NEW i \in 1 .. Len(s) PROVE s[i] = t[i]
    <3>1. n + i \in 1 .. Len(q) /\ i \in Int
      BY <1>1, <1>3, <2>2, <2>4, <2>6
    <3>2. t[i] = p[k + (n + i)]
      BY <1>1, <2>3, <2>5, <2>6
    <3>3. t[i] = IF n + i <= Len(a) THEN a[n + i] ELSE b[(n + i) - Len(a)]
      BY <1>3, <3>1, <3>2
    <3>4. s[i] = IF i <= Len(a) - n THEN a[n + i] ELSE b[i - (Len(a) - n)]
      BY <1>1, <2>2, <2>4, <2>6
    <3>5. QED
      BY <1>1, <3>1, <3>3, <3>4
  <2>7. s = t
    BY <2>3, <2>4, <2>5, <2>6, SeqEqual
  <2>8. QED
    BY <2>1, <2>7 DEF s, l, t
<1>7. QED
  BY <1>5, <1>6

LEMMA Shift ==
  ASSUME NEW T, NEW a \in Seq(T), NEW b \in Seq(T), NEW n \in 1 .. Len(b)
  PROVE  (a \o SubSeq(b, 1, n)) \o SubSeq(b, n + 1, Len(b)) = a \o b
<1> DEFINE l == SubSeq(b, 1, n)
           r == SubSeq(b, n + 1, Len(b))
           s == (a \o l) \o r
           t == a \o b
<1>1. /\ l \in Seq(T) /\ Len(l) = n /\ \A i \in 1 .. n : l[i] = b[i]
      /\ r \in Seq(T) /\ Len(r) = Len(b) - n /\ \A i \in 1 .. Len(b) - n : r[i] = b[n + i]
      /\ Len(a) \in Nat /\ Len(b) \in Nat
  OBVIOUS
<1> HIDE DEF l, r
<1>2. /\ s \in Seq(T) /\ Len(s) = Len(a) + Len(b)
      /\ \A i \in 1 .. Len(s) : s[i] = IF i <= Len(a) THEN a[i] ELSE b[i - Len(a)]
  <2>1. a \o l \in Seq(T) /\ Len(a \o l) = Len(a) + n
        /\ \A i \in 1 .. Len(a) + n : (a \o l)[i] = IF i <= Len(a) THEN a[i] ELSE b[i - Len(a)]
    <3>1. /\ a \o l \in Seq(T) /\ Len(a \o l) = Len(a) + n
          /\ \A i \in 1 .. Len(a) + n : (a \o l)[i] = IF i <= Len(a) THEN a[i] ELSE l[i - Len(a)]
      BY <1>1, ConcatProperties
    <3>2. \A i \in 1 .. Len(a) + n : ~(i <= Len(a)) => i - Len(a) \in 1 .. n
      BY <1>1
    <3>3. QED
      BY <1>1, <3>1, <3>2
  <2> DEFINE u == a \o l
  <2> HIDE DEF u
  <2>2. /\ u \in Seq(T) /\ Len(u) = Len(a) + n
        /\ \A i \in 1 .. Len(a) + n : u[i] = IF i <= Len(a) THEN a[i] ELSE b[i - Len(a)]
    BY <2>1 DEF u
  <2>3. /\ u \o r \in Seq(T) /\ Len(u \o r) = Len(a) + Len(b)
        /\ \A i \in 1 .. Len(a) + Len(b) :
             (u \o r)[i] = IF i <= Len(a) + n THEN u[i] ELSE r[i - (Len(a) + n)]
    <3>1. Len(u) + Len(r) = Len(a) + Len(b)
      BY <1>1, <2>2
    <3>2. /\ u \o r \in Seq(T) /\ Len(u \o r) = Len(u) + Len(r)
          /\ \A i \in 1 .. Len(u) + Len(r) :
               (u \o r)[i] = IF i <= Len(u) THEN u[i] ELSE r[i - Len(u)]
      <4>1. u \in Seq(T) /\ r \in Seq(T)
        BY <1>1, <2>2
      <4>2. QED
        BY <4>1, ConcatProperties
    <3>3. QED
      BY <2>2, <3>1, <3>2
  <2>4. ASSUME NEW i \in 1 .. Len(a) + Len(b)
        PROVE  (u \o r)[i] = IF i <= Len(a) THEN a[i] ELSE b[i - Len(a)]
    <3>1. CASE i <= Len(a) + n
      <4>1. i \in 1 .. Len(a) + n
        BY <1>1, <3>1
      <4>2. QED
        BY <2>2, <2>3, <3>1, <4>1
    <3>2. CASE ~(i <= Len(a) + n)
      <4>1. (u \o r)[i] = r[i - (Len(a) + n)] /\ i - (Len(a) + n) \in 1 .. Len(b) - n
        BY <1>1, <2>3, <3>2
      <4>2. n + (i - (Len(a) + n)) = i - Len(a) /\ ~(i <= Len(a))
        BY <1>1, <3>2
      <4>3. r[i - (Len(a) + n)] = b[n + (i - (Len(a) + n))]
        BY <1>1, <4>1
      <4>4. QED
        BY <4>1, <4>2, <4>3
    <3>3. QED
      BY <3>1, <3>2
  <2>5. QED
    BY <2>3, <2>4 DEF u
<1>3. /\ t \in Seq(T) /\ Len(t) = Len(a) + Len(b)
      /\ \A i \in 1 .. Len(t) : t[i] = IF i <= Len(a) THEN a[i] ELSE b[i - Len(a)]
  OBVIOUS
<1> HIDE DEF s, t
<1>4. s = t
  BY <1>2, <1>3, SeqEqual
<1>5. QED
  BY <1>4 DEF s, t, l, r

-------------------------------------------------------------------------------
(* The stream under the decoder.                                            *)
Eaten(n) == [op |-> "consume", ev |-> "none", n |-> n]

LEMMA DecoderStacks ==
  ASSUME Rest = <<>>, NEW n \in Nat
  PROVE  /\ ToSet(User("open") \o Call("decode") \o Rest)
              = {UserFrame("open"), CallFrame("decode")}
         /\ ToSet(User("frame") \o Consume(n) \o Call("decode") \o Rest)
              = {UserFrame("frame"), Eaten(n), CallFrame("decode")}
         /\ ToSet(User("error") \o (Call("masked") \o Rest))
              = {UserFrame("error"), CallFrame("masked")}
         /\ ToSet(User("error") \o Rest) = {UserFrame("error")}
         /\ ToSet(Consume(n) \o Rest) = {Eaten(n)}
<1>1. /\ Pushed(Consume(n), Eaten(n), <<>>) /\ NoReport(Consume(n))
      /\ Pushed(Consume(n) \o Call("decode"), Eaten(n), Call("decode"))
      /\ NoReport(Consume(n) \o Call("decode"))
      /\ Pushed(Call("masked"), CallFrame("masked"), <<>>) /\ NoReport(Call("masked"))
      /\ ToSet(Call("decode")) = {CallFrame("decode")} /\ ToSet(<<>>) = {}
      /\ Stacked(Call("decode")) /\ NoReport(Call("decode")) /\ Stacked(<<>>) /\ NoReport(<<>>)
  BY DecoderPuts, DecodeAlone, EmptyStack DEF Eaten
<1>2. \A b, ev : Stacked(b) /\ NoReport(b) /\ ev \in Events =>
        Pushed(User(ev) \o b, UserFrame(ev), b)
  BY PutUser
<1>3. /\ User("open") \o Call("decode") \o Rest = User("open") \o Call("decode")
      /\ User("frame") \o Consume(n) \o Call("decode") \o Rest
           = User("frame") \o (Consume(n) \o Call("decode"))
      /\ Consume(n) \o Rest = Consume(n) /\ Call("masked") \o Rest = Call("masked")
  BY DEF User, Consume, Call, Frame
<1>4. {"open", "frame", "error"} \subseteq Events
  BY DEF Events
<1>5. Pushed(User("open") \o Call("decode"), UserFrame("open"), Call("decode"))
  BY <1>1, <1>2, <1>4
<1>6. Pushed(User("frame") \o (Consume(n) \o Call("decode")), UserFrame("frame"),
             Consume(n) \o Call("decode"))
  BY <1>1, <1>2, <1>4 DEF Pushed
<1>7. Pushed(User("error") \o Call("masked"), UserFrame("error"), Call("masked"))
  BY <1>1, <1>2, <1>4 DEF Pushed
<1>8. Pushed(User("error") \o Rest, UserFrame("error"), <<>>)
  BY <1>1, <1>2, <1>4
<1>9. QED
  BY <1>1, <1>3, <1>5, <1>6, <1>7, <1>8 DEF Pushed

LEMMA FrameOps ==
  /\ \A ev : UserFrame(ev).op = "user"
  /\ \A o : CallFrame(o).op = o
  /\ \A n : Eaten(n).op = "consume" /\ Eaten(n).n = n
BY DEF UserFrame, CallFrame, Eaten

(* The decoder on top is alone, but for what it consumes before it goes on. *)
LEMMA DecoderFacts ==
  ASSUME IInv, TlsFits, Running, stack[1].op \in {"decode", "masked", "consume"}
  PROVE  /\ Types /\ ~Broken /\ ~Has(stack, "tlsCloses")
         /\ stack[1].op # "consume" =>
              /\ Rest = <<>> /\ Eats(stack) = {} /\ ToSet(Rest) = {}
              /\ Stacked(Rest) /\ NoReport(Rest)
              /\ \A o : Has(stack, o) <=> o = stack[1].op
         /\ stack[1].op = "consume" =>
              /\ Eats(Rest) = {} /\ ~Has(Rest, "masked") /\ stack[1] \in Eats(stack)
              /\ Has(stack, "decode") => Has(Rest, "decode")
              /\ ~Has(stack, "masked") /\ ~Has(Rest, "tlsCloses")
<1>1. /\ Types /\ Stacked(Rest) /\ ToSet(stack) = {stack[1]} \cup ToSet(Rest)
      /\ stack[1].op \in {"decode", "masked"} => Rest = <<>>
      /\ stack[1].op = "consume" => Rest = <<>> \/ (Len(Rest) = 1 /\ Rest[1].op = "decode")
  BY StackedPop DEF IInv, Rest, Running
<1>2. ~Broken /\ ~Has(stack, "tlsCloses")
  BY NoTls, UserOpsAssumption DEF Broken, OnTop, IInv, ClientOps
<1>3. stack[1].op = "consume" => \A f \in ToSet(Rest) : f.op = "decode"
  <2>1. Rest \in Seq(FrameSet)
    BY <1>1 DEF Stacked
  <2>2. Rest = <<>> => ToSet(Rest) = {}
    BY EmptyStack
  <2>3. Len(Rest) = 1 => ToSet(Rest) = {Rest[1]}
    BY <2>1 DEF ToSet
  <2>4. QED
    BY <1>1, <2>2, <2>3
<1>4. CASE stack[1].op = "consume"
  BY <1>1, <1>2, <1>3, <1>4 DEF Eats, Has
<1>5. CASE stack[1].op # "consume"
  <2>1. /\ Rest = <<>> /\ ToSet(stack) = {stack[1]} /\ ToSet(Rest) = {}
        /\ Stacked(Rest) /\ NoReport(Rest)
    BY <1>1, <1>5, EmptyStack
  <2>2. QED
    BY <1>1, <1>2, <1>5, <2>1 DEF Eats, Has
<1>6. QED
  BY <1>4, <1>5

(* The frame at the front of the buffer, and what is behind it.             *)
LEMMA NextFrame ==
  ASSUME Types, reply \in Replies, NEW x \in Nat, Coming(x), received # <<>>
  PROVE  /\ x < Len(reply) /\ received[1].n = x
         /\ \A k \in Reads : k # "close" => reply[x + 1] = k
         /\ x > 0 /\ "masked" \in Reads => x = 1
         /\ Len(received) >= 2 =>
              Consumed(2) \o inbound = SubSeq(Pieces(reply), 2 * (x + 1) + 1, 2 * Len(reply))
<1> DEFINE p == Pieces(reply)
<1>1. /\ p \in Seq(Piece) /\ Len(p) = 2 * Len(reply) /\ Len(reply) \in Nat
      /\ \A y \in 0 .. Len(reply) - 1 : p[2 * y + 1] = [n |-> y, kind |-> reply[y + 1], part |-> 1]
      /\ \A y \in 2 .. Len(reply) - 1 : reply[y + 1] = "data"
  BY ReplyShape
<1>2. /\ received \in Seq(Piece) /\ inbound \in Seq(Piece) /\ 2 * x \in Nat
      /\ received \o inbound = SubSeq(p, 2 * x + 1, Len(p))
  BY <1>1 DEF Types, Coming
<1> HIDE DEF p
<1>3. /\ 2 * x < Len(p) /\ received[1] = p[2 * x + 1]
      /\ \A n \in 1 .. Len(received) :
           SubSeq(received, n + 1, Len(received)) \o inbound = SubSeq(p, 2 * x + n + 1, Len(p))
  <2>1. received \o inbound = SubSeq(p, (2 * x) + 1, Len(p))
    BY <1>2
  <2>2. /\ 2 * x < Len(p) /\ received[1] = p[(2 * x) + 1]
        /\ \A n \in 1 .. Len(received) :
             SubSeq(received, n + 1, Len(received)) \o inbound = SubSeq(p, (2 * x) + n + 1, Len(p))
    <3> DEFINE k == 2 * x
    <3>1. k \in Nat /\ received \o inbound = SubSeq(p, k + 1, Len(p))
      BY <1>2, <2>1
    <3> HIDE DEF k
    <3>2. /\ k < Len(p) /\ received[1] = p[k + 1]
          /\ \A n \in 1 .. Len(received) :
               SubSeq(received, n + 1, Len(received)) \o inbound = SubSeq(p, k + n + 1, Len(p))
      <4>1. p \in Seq(Piece) /\ received \in Seq(Piece) /\ inbound \in Seq(Piece)
        BY <1>1, <1>2
      <4>2. /\ received # <<>> => k < Len(p) /\ received[1] = p[k + 1]
            /\ \A n \in 1 .. Len(received) :
                 /\ SubSeq(received, n + 1, Len(received)) \o inbound = SubSeq(p, k + n + 1, Len(p))
                 /\ k + n <= Len(p)
        BY <3>1, <4>1, TakeFront, Zenon
      <4>3. QED
        BY <4>2
    <3>3. QED
      BY <3>2 DEF k
  <2>3. QED
    BY <2>2
<1>4. x < Len(reply) /\ received[1] = [n |-> x, kind |-> reply[x + 1], part |-> 1]
  BY <1>1, <1>3
<1>5. \A k \in Reads : k # "close" => reply[x + 1] = k
  BY <1>4 DEF Reads
<1>6. x > 0 /\ "masked" \in Reads => x = 1
  BY <1>1, <1>4, <1>5
<1>7. ASSUME Len(received) >= 2
      PROVE  Consumed(2) \o inbound = SubSeq(p, 2 * (x + 1) + 1, 2 * Len(reply))
  <2>1. 2 \in 1 .. Len(received) /\ 2 * x + 2 + 1 = 2 * (x + 1) + 1
    BY <1>2, <1>7
  <2>2. QED
    BY <1>1, <1>3, <2>1 DEF Consumed
<1>8. QED
  BY <1>4, <1>5, <1>6, <1>7 DEF p

LEMMA SilentFlows ==
  ASSUME Flowing, UNCHANGED <<reply, asked>>, MaskedFits',
         \A f \in Eats(stack') : f.n \in {2, 3},
         uws_state' \in Silent \/ (uws_state' = uws_state /\ uws_state \notin Reading)
  PROVE  Flowing'
<1>1. uws_state' \notin Reading
  BY DEF Silent, Reading, Pending
<1>2. EnterFits' /\ OpenFits' /\ WaitFits' /\ ConsumeFits'
  BY <1>1 DEF EnterFits, OpenFits, WaitFits, ConsumeFits, Reading
<1>3. AskedFits'
  BY <1>1 DEF Flowing, AskedFits, Silent
<1>4. QED
  BY <1>2, <1>3 DEF Flowing

(* The decoder stops.                                                       *)
LEMMA StopFlows ==
  ASSUME Types, Flowing, ~Broken,
         UNCHANGED <<uws_state, received, inbound, reply, delivered, asked>>,
         Eats(stack) = {}, stack' = <<>>, uws_state = "OPEN" => Len(received) < 2
  PROVE  Flowing'
<1>1. Eats(stack') = {} /\ ~Has(stack', "masked")
  BY EmptyStack DEF Eats, Has
<1>2. EnterFits' /\ OpenFits'
  BY <1>1 DEF Flowing, EnterFits, OpenFits, Coming, Given
<1>3. MaskedFits' /\ ConsumeFits' /\ AskedFits'
  BY <1>1 DEF Flowing, MaskedFits, ConsumeFits, AskedFits
<1>4. WaitFits'
  <2>1. Len(received) \in Nat
    BY DEF Types
  <2>2. QED
    BY <2>1 DEF WaitFits
<1>5. QED
  BY <1>2, <1>3, <1>4 DEF Flowing

LEMMA GiveNext ==
  ASSUME Types, reply' = reply, NEW x \in Nat, x > 0, Given(x), reply[x + 1] = "data",
         delivered' = Append(delivered, x)
  PROVE  Given(x + 1)'
<1>1. /\ delivered \in Seq(Nat) /\ Len(delivered) \in Nat
      /\ DOMAIN delivered = 1 .. Len(delivered)
  BY DEF Types
<1>2. /\ delivered' \in Seq(Nat) /\ DOMAIN delivered' = 1 .. Len(delivered) + 1
      /\ \A i \in 1 .. Len(delivered) : delivered'[i] = delivered[i]
      /\ delivered'[Len(delivered) + 1] = x
  BY <1>1
<1>3. \A i \in 1 .. Len(delivered) : delivered[i] \in ToSet(delivered)
  BY <1>1 DEF ToSet
<1>4. \A i \in 1 .. Len(delivered) : delivered[i] < x
  BY <1>3 DEF Given
<1>5. ToSet(delivered') = ToSet(delivered) \cup {x}
  <2>1. \A e : e \in ToSet(delivered') <=> \E i \in 1 .. Len(delivered) + 1 : delivered'[i] = e
    BY <1>2 DEF ToSet
  <2>2. \A e : e \in ToSet(delivered) <=> \E i \in 1 .. Len(delivered) : delivered[i] = e
    BY <1>1 DEF ToSet
  <2>3. \A i \in 1 .. Len(delivered) : i \in 1 .. Len(delivered) + 1
    BY <1>1
  <2>4. \A i \in 1 .. Len(delivered) + 1 : i \in 1 .. Len(delivered) \/ i = Len(delivered) + 1
    BY <1>1
  <2>5. Len(delivered) + 1 \in 1 .. Len(delivered) + 1
    BY <1>1
  <2>6. ASSUME NEW e \in ToSet(delivered') PROVE e \in ToSet(delivered) \cup {x}
    BY <1>2, <2>1, <2>2, <2>4, <2>6
  <2>7. ASSUME NEW e \in ToSet(delivered) \cup {x} PROVE e \in ToSet(delivered')
    BY <1>2, <2>1, <2>2, <2>3, <2>5, <2>7
  <2>8. QED
    BY <2>6, <2>7
<1>6. \A j \in DOMAIN delivered' : \A i \in 1 .. j - 1 : delivered'[i] < delivered'[j]
  <2>1. ASSUME NEW j \in 1 .. Len(delivered) + 1, NEW i \in 1 .. j - 1
        PROVE  delivered'[i] < delivered'[j]
    <3>1. i \in 1 .. Len(delivered)
      BY <1>1
    <3>2. CASE j \in 1 .. Len(delivered)
      BY <1>1, <1>2, <3>1, <3>2 DEF Given
    <3>3. CASE j = Len(delivered) + 1
      BY <1>2, <1>4, <3>1, <3>3
    <3>4. QED
      BY <1>1, <3>2, <3>3
  <2>2. QED
    BY <1>2, <2>1
<1>7. 1 .. (x + 1) - 1 = (1 .. x - 1) \cup {x}
  OBVIOUS
<1>8. ToSet(delivered') = {n \in 1 .. (x + 1) - 1 : reply'[n + 1] = "data"}
  BY <1>5, <1>7 DEF Given
<1>9. \A n \in 1 .. (x + 1) - 1 : reply'[n + 1] \in {"data", "pong"}
  BY <1>7 DEF Given
<1>10. QED
  BY <1>6, <1>8, <1>9 DEF Given

LEMMA GivenInOrder ==
  ASSUME Types', NEW y \in 1 .. Len(reply'), Given(y)' PROVE FramesInOrder'
<1>1. /\ delivered' \in Seq(Nat) /\ DOMAIN delivered' = 1 .. Len(delivered')
      /\ Len(reply') \in Nat
  BY DEF Types
<1>2. ASSUME NEW j \in DOMAIN delivered'
      PROVE  delivered'[j] \in 1 .. y - 1 /\ reply'[delivered'[j] + 1] = "data"
  <2>1. delivered'[j] \in ToSet(delivered')
    BY <1>1 DEF ToSet
  <2>2. QED
    BY <2>1 DEF Given
<1>3. \A j \in DOMAIN delivered' : delivered'[j] \in Due'
  BY <1>1, <1>2 DEF Due, Given
<1>4. \A j \in DOMAIN delivered' : \A n \in Due' : n < delivered'[j] => n \in ToSet(delivered')
  BY <1>1, <1>2 DEF Due, Given
<1>5. QED
  BY <1>3, <1>4 DEF FramesInOrder, Given

LEMMA DecodeStopsStream ==
  ASSUME IInv, Streams, Running, Top("decode"), DecodesNothing \/ DecodePart PROVE Streams'
<1>1. /\ Types /\ ~Broken /\ ~Has(stack, "tlsCloses") /\ Eats(stack) = {} /\ Rest = <<>>
  BY DecoderFacts DEF Streams, Top
<1>2. /\ UNCHANGED <<uws_state, received, inbound, reply, delivered, asked>> /\ stack' = <<>>
      /\ uws_state = "OPEN" => Len(received) < 2
  BY <1>1 DEF DecodesNothing, DecodePart, clientVars, ioVars, history, opening
<1>3. Flowing' /\ FramesInOrder'
  BY <1>1, <1>2, StopFlows, OrderStays DEF Streams
<1>4. TlsFits'
  BY <1>2, EmptyStack DEF TlsFits, Has
<1>5. QED
  BY <1>3, <1>4 DEF Streams

(* An open that ends with an error, and its io with it.                     *)
LEMMA OpenBreaksStream ==
  ASSUME Types, Streams, Eats(stack) = {}, uws_state \in Pending,
         IndicateOpenErrorAndClose(<<>>), UNCHANGED <<received, reply, delivered, asked, io>>
  PROVE  Streams'
<1>1. Lows(stack') = Lows(<<>>) /\ TlsFits' /\ Broken'
  BY ErrorAndCloseMoves, EmptyStack DEF Has
<1>2. Eats(stack') = {} /\ ~Has(stack', "masked")
  BY <1>1, LowFrames, EmptyStack DEF Eats, Has
<1>3. uws_state' = uws_state
  BY DEF IndicateOpenErrorAndClose
<1>4. EnterFits' /\ OpenFits' /\ MaskedFits' /\ ConsumeFits' /\ WaitFits'
  BY <1>1, <1>2, <1>3 DEF EnterFits, OpenFits, MaskedFits, ConsumeFits, WaitFits, Pending
<1>5. AskedFits'
  BY <1>3 DEF Streams, Flowing, AskedFits
<1>6. FramesInOrder'
  BY OrderStays DEF Streams
<1>7. QED
  BY <1>1, <1>4, <1>5, <1>6 DEF Streams, Flowing

LEMMA DecodeResponseStream ==
  ASSUME IInv, Streams, Running, Top("decode"), DecodeResponse \/ DecodeTooEarly
  PROVE  Streams'
<1>1. /\ Types /\ ~Broken /\ ~Has(stack, "tlsCloses") /\ Eats(stack) = {} /\ Rest = <<>>
  BY DecoderFacts DEF Streams, Top
<1>2. /\ UNCHANGED <<reply, delivered, asked, io>> /\ uws_state \in Pending
  BY DEF DecodeResponse, DecodeTooEarly, opening, ioQueue, Pending
<1>3. CASE IndicateOpenErrorAndClose(Rest) /\ UNCHANGED received
  BY <1>1, <1>2, <1>3, OpenBreaksStream
<1>4. CASE stack' = Rest /\ UNCHANGED <<uws_state, received, inbound>>
  <2>1. Flowing' /\ FramesInOrder'
    BY <1>1, <1>2, <1>4, StopFlows, OrderStays DEF Streams, Pending
  <2>2. TlsFits'
    BY <1>1, <1>4, EmptyStack DEF TlsFits, Has
  <2>3. QED
    BY <2>1, <2>2 DEF Streams
<1>5. CASE /\ uws_state = "WAITING_FOR_UPGRADE_RESPONSE" /\ uws_state' = "OPEN"
           /\ Len(received) >= 2 /\ received' = Consumed(2) /\ UNCHANGED inbound
           /\ stack' = User("open") \o Call("decode") \o Rest
  <2>1. reply \in Replies /\ Coming(0) /\ delivered = <<>>
    BY <1>1, <1>5 DEF Streams, Flowing, EnterFits, Pending
  <2>2. received # <<>> /\ Len(reply) \in Nat
    BY <1>1, <1>5 DEF Types
  <2>3. 0 < Len(reply) /\ Consumed(2) \o inbound = SubSeq(Pieces(reply), 2 * (0 + 1) + 1, 2 * Len(reply))
    BY <1>1, <1>5, <2>1, <2>2, NextFrame
  <2>4. Coming(1)'
    BY <1>2, <1>5, <2>3 DEF Coming
  <2>5. ToSet(stack') = {UserFrame("open"), CallFrame("decode")}
    BY <1>1, <1>5, DecoderStacks
  <2>6. /\ Eats(stack') = {} /\ ~Has(stack', "masked") /\ Has(stack', "decode")
        /\ ~Has(stack', "tlsCloses")
    BY <2>5, FrameOps DEF Eats, Has
  <2>7. Given(1)'
    <3>1. ToSet(<<>>) = {} /\ DOMAIN <<>> = {}
      BY EmptyStack
    <3>2. 1 .. 1 - 1 = {}
      OBVIOUS
    <3>3. QED
      BY <1>2, <2>1, <3>1, <3>2 DEF Given
  <2>8. 1 \in 1 .. Len(reply')
    BY <1>2, <2>2, <2>3
  <2>9. EnterFits' /\ OpenFits'
    BY <1>5, <2>4, <2>6, <2>7, <2>8 DEF EnterFits, OpenFits, Pending
  <2>10. MaskedFits' /\ ConsumeFits' /\ WaitFits' /\ AskedFits'
    BY <1>2, <1>5, <2>6
       DEF MaskedFits, ConsumeFits, WaitFits, AskedFits, Streams, Flowing, Reading
  <2>11. TlsFits' /\ FramesInOrder'
    BY <1>2, <2>6, OrderStays DEF TlsFits, Streams
  <2>12. QED
    BY <1>2, <2>9, <2>10, <2>11 DEF Streams, Flowing
<1>6. QED
  BY <1>3, <1>4, <1>5 DEF DecodeResponse, DecodeTooEarly

LEMMA DecodeBadStream ==
  ASSUME IInv, Streams, Running, Top("decode"), DecodeBad \/ DecodeMasked PROVE Streams'
<1>1. /\ Types /\ ~Broken /\ ~Has(stack, "tlsCloses") /\ Eats(stack) = {} /\ Rest = <<>>
      /\ received # <<>> /\ InFrames
  BY DecoderFacts DEF Streams, Top, DecodeBad, DecodeMasked
<1>2. UNCHANGED <<received, inbound, reply, delivered, asked>> /\ uws_state' = "ERROR"
  BY DEF DecodeBad, DecodeMasked, IndicateError, ioVars, history, opening
<1>3. /\ stack' = User("error") \o Rest \/ stack' = User("error") \o (Call("masked") \o Rest)
      /\ "masked" \notin Reads => stack' = User("error") \o Rest
  BY DEF DecodeBad, DecodeMasked, IndicateError
<1>4. /\ \A f \in ToSet(stack') : f.op \in {"user", "masked"}
      /\ stack' = User("error") \o Rest => \A f \in ToSet(stack') : f.op = "user"
  <2>1. /\ ToSet(User("error") \o (Call("masked") \o Rest))
             = {UserFrame("error"), CallFrame("masked")}
        /\ ToSet(User("error") \o Rest) = {UserFrame("error")}
    BY <1>1, DecoderStacks
  <2>2. stack' = User("error") \o Rest => \A f \in ToSet(stack') : f.op = "user"
    BY <2>1, FrameOps
  <2>3. stack' = User("error") \o (Call("masked") \o Rest) =>
          \A f \in ToSet(stack') : f.op \in {"user", "masked"}
    BY <2>1, FrameOps
  <2>4. QED
    BY <1>3, <2>2, <2>3
<1>5. Eats(stack') = {} /\ ~Has(stack', "tlsCloses")
  BY <1>4 DEF Eats, Has
<1>6. MaskedFits'
  <2>1. SUFFICES ASSUME Has(stack', "masked"), asked # "handshake"
                 PROVE  delivered = <<>> /\ received[1].n = 1 /\ Len(reply) > 1 /\ reply[2] = "masked"
    BY <1>2 DEF MaskedFits, Reading, Pending
  <2>2. "masked" \in Reads /\ uws_state = "OPEN"
    BY <1>1, <1>3, <1>4, <2>1 DEF Has, InFrames, Streams, Flowing, AskedFits
  <2>3. PICK x \in 1 .. Len(reply) : Coming(x) /\ Given(x)
    BY <1>1, <2>2 DEF Streams, Flowing, OpenFits
  <2>4. /\ x \in Nat /\ reply \in Replies /\ Len(reply) \in Nat
    BY <1>1 DEF Streams, Flowing, Types
  <2>5. x = 1 /\ 1 < Len(reply) /\ received[1].n = 1 /\ reply[2] = "masked"
    BY <1>1, <2>2, <2>3, <2>4, NextFrame
  <2>6. delivered = <<>>
    <3>1. ToSet(delivered) = {}
      BY <2>3, <2>5 DEF Given
    <3>2. \A i \in 1 .. Len(delivered) : delivered[i] \in ToSet(delivered)
      BY <1>1 DEF ToSet, Types
    <3>3. Len(delivered) \in Nat /\ delivered \in Seq(Nat)
      BY <1>1 DEF Types
    <3>4. Len(delivered) = 0
      BY <3>1, <3>2, <3>3
    <3>5. QED
      BY <3>3, <3>4, EmptySeq
  <2>7. QED
    BY <2>4, <2>5, <2>6
<1>7. Flowing'
  BY <1>2, <1>5, <1>6, SilentFlows DEF Streams, Silent
<1>8. TlsFits' /\ FramesInOrder'
  BY <1>2, <1>5, OrderStays DEF TlsFits, Streams
<1>9. QED
  BY <1>7, <1>8 DEF Streams

LEMMA MaskedStream == ASSUME IInv, Streams, Running, Masked PROVE Streams'
<1>1. /\ Types /\ ~Broken /\ ~Has(stack, "tlsCloses") /\ Eats(stack) = {} /\ Rest = <<>>
      /\ Has(stack, "masked")
  BY DecoderFacts DEF Streams, Top, Masked
<1>2. /\ UNCHANGED <<uws_state, received, inbound, reply, asked>>
      /\ asked # "handshake" /\ received # <<>> =>
           /\ uws_state \notin Reading /\ delivered = <<>>
           /\ received[1].n = 1 /\ Len(reply) > 1 /\ reply[2] = "masked"
      /\ uws_state \in Reading => asked # "handshake"
  BY <1>1 DEF Masked, clientVars, ioVars, opening, Streams, Flowing, MaskedFits, AskedFits
<1>3. CASE stack' = Rest /\ UNCHANGED delivered
  <2>1. CASE uws_state \in Reading
    <3>1. received = <<>>
      BY <1>2, <2>1
    <3>2. Flowing'
      BY <1>1, <1>2, <1>3, <3>1, StopFlows DEF Streams
    <3>3. QED
      BY <1>1, <1>2, <1>3, <3>2, EmptyStack, OrderStays DEF Streams, TlsFits, Has
  <2>2. CASE uws_state \notin Reading
    <3>1. ~Has(stack', "masked") /\ Eats(stack') = {} /\ ~Has(stack', "tlsCloses")
      BY <1>1, <1>3, EmptyStack DEF Has, Eats
    <3>2. Flowing'
      BY <1>2, <2>2, <3>1, SilentFlows DEF Streams, MaskedFits
    <3>3. QED
      BY <1>2, <1>3, <3>1, <3>2, OrderStays DEF Streams, TlsFits
  <2>3. QED
    BY <2>1, <2>2
<1>4. CASE /\ Len(received) >= 3 /\ delivered' = Append(delivered, received[1].n)
           /\ stack' = User("frame") \o Consume(3) \o Call("decode") \o Rest
  <2>1. received # <<>> /\ uws_state \notin Reading
    BY <1>1, <1>2, <1>4 DEF Types
  <2>2. ToSet(stack') = {UserFrame("frame"), Eaten(3), CallFrame("decode")}
    BY <1>1, <1>4, DecoderStacks
  <2>3. /\ ~Has(stack', "masked") /\ Eats(stack') = {Eaten(3)} /\ Eaten(3).n = 3
        /\ ~Has(stack', "tlsCloses")
    BY <2>2, FrameOps DEF Has, Eats
  <2>4. Flowing'
    BY <1>2, <2>1, <2>3, SilentFlows DEF Streams, MaskedFits
  <2>5. FramesInOrder'
    <3>1. CASE asked = "handshake"
      BY <1>2, <3>1 DEF FramesInOrder
    <3>2. CASE asked # "handshake"
      <4>1. delivered' = <<1>> /\ reply'[1 + 1] = "masked"
        BY <1>2, <1>4, <2>1, <3>2
      <4>2. \A j \in DOMAIN delivered' : j = 1 /\ delivered'[j] = 1
        BY <4>1
      <4>3. \A n \in Due' : ~(n < 1)
        BY DEF Due
      <4>4. QED
        BY <4>1, <4>2, <4>3 DEF FramesInOrder
    <3>3. QED
      BY <3>1, <3>2
  <2>6. QED
    BY <2>3, <2>4, <2>5 DEF Streams, TlsFits
<1>5. QED
  BY <1>3, <1>4 DEF Masked

(* The client reads the frame that the decoder goes on to consume.          *)
LEMMA FrameEaten ==
  ASSUME Types, Streams, uws_state = "OPEN", UNCHANGED <<uws_state, received, inbound, reply, asked>>,
         NEW x \in 1 .. Len(reply), Coming(x), received # <<>>, Given(x + 1)',
         Eats(stack') = {Eaten(2)}, ~Has(stack', "masked"),
         Has(stack', "decode") \/ "pong" \in ToSet(reply)
  PROVE  Flowing'
<1>1. OpenFits'
  BY DEF OpenFits, Coming
<1>2. ConsumeFits' /\ EnterFits' /\ MaskedFits' /\ WaitFits' /\ AskedFits'
  BY FrameOps DEF ConsumeFits, EnterFits, MaskedFits, WaitFits, AskedFits, Streams, Flowing, Pending
<1>3. QED
  BY <1>1, <1>2 DEF Streams, Flowing

LEMMA DecodeDataStream ==
  ASSUME IInv, Streams, Running, Top("decode"), DecodeData \/ DecodePong PROVE Streams'
<1>1. /\ Types /\ ~Broken /\ ~Has(stack, "tlsCloses") /\ Eats(stack) = {} /\ Rest = <<>>
      /\ Len(received) >= 2 /\ received # <<>> /\ InFrames
  BY DecoderFacts DEF Streams, Top, DecodeData, DecodePong, Complete, IInv, Types
<1>2. UNCHANGED <<uws_state, received, inbound, reply, asked>>
  BY DEF DecodeData, DecodePong, clientVars, ioVars, history, opening
<1>3. /\ DecodeData => stack' = User("frame") \o Consume(2) \o Call("decode") \o Rest
      /\ DecodePong => stack' = Consume(2) \o Rest
  BY DEF DecodeData, DecodePong
<1>4. /\ ToSet(stack') \subseteq {UserFrame("frame"), Eaten(2), CallFrame("decode")}
      /\ Eaten(2) \in ToSet(stack') /\ (DecodeData => CallFrame("decode") \in ToSet(stack'))
  BY <1>1, <1>3, DecoderStacks
<1>5. /\ Eats(stack') = {Eaten(2)} /\ ~Has(stack', "masked") /\ ~Has(stack', "tlsCloses")
      /\ DecodeData => Has(stack', "decode")
  BY <1>4, FrameOps DEF Eats, Has
<1>6. CASE uws_state # "OPEN"
  <2>1. asked = "handshake" /\ uws_state \notin Reading
    BY <1>1, <1>6 DEF InFrames, Streams, Flowing, AskedFits, Reading, Pending
  <2>2. Flowing'
    BY <1>2, <1>5, <2>1, FrameOps, SilentFlows DEF Streams, MaskedFits
  <2>3. QED
    BY <1>2, <1>5, <2>1, <2>2 DEF Streams, FramesInOrder, TlsFits
<1>7. CASE uws_state = "OPEN"
  <2>1. PICK x \in 1 .. Len(reply) : Coming(x) /\ Given(x)
    BY <1>1, <1>7 DEF Streams, Flowing, OpenFits
  <2>2. x \in Nat /\ reply \in Replies /\ Len(reply) \in Nat
    BY <1>1 DEF Streams, Flowing, Types
  <2>3. /\ x < Len(reply) /\ received[1].n = x
        /\ \A k \in Reads : k # "close" => reply[x + 1] = k
    BY <1>1, <2>1, <2>2, NextFrame
  <2>4. CASE DecodeData
    <3>1. reply[x + 1] = "data" /\ delivered' = Append(delivered, x)
      BY <2>3, <2>4 DEF DecodeData, Complete
    <3>2. Given(x + 1)'
      BY <1>1, <1>2, <2>1, <2>2, <3>1, GiveNext
    <3>3. Flowing'
      BY <1>1, <1>2, <1>5, <1>7, <2>1, <2>4, <3>2, FrameEaten
    <3>4. Types'
      <4>1. IInv'
        BY <2>4, DecodeFramesIInv
      <4>2. QED
        BY <4>1 DEF IInv
    <3>5. x + 1 \in 1 .. Len(reply')
      BY <1>2, <2>2, <2>3
    <3> DEFINE y == x + 1
    <3>6. Given(y)' /\ y \in 1 .. Len(reply')
      BY <3>2, <3>5
    <3> HIDE DEF y
    <3>7. FramesInOrder'
      BY <3>4, <3>6, GivenInOrder
    <3>8. QED
      BY <1>5, <3>3, <3>7 DEF Streams, TlsFits
  <2>5. CASE DecodePong
    <3>1. reply[x + 1] = "pong" /\ delivered' = delivered
      BY <2>3, <2>5 DEF DecodePong, Complete, history
    <3>2. "pong" \in ToSet(reply)
      <4>1. x + 1 \in DOMAIN reply
        BY <1>1, <2>2, <2>3 DEF Types
      <4>2. QED
        BY <3>1, <4>1 DEF ToSet
    <3>3. Given(x + 1)'
      <4>1. 1 .. (x + 1) - 1 = (1 .. x - 1) \cup {x}
        BY <2>1, <2>2
      <4>2. QED
        BY <1>2, <2>1, <3>1, <4>1 DEF Given
    <3>4. Flowing'
      BY <1>1, <1>2, <1>5, <1>7, <2>1, <3>2, <3>3, FrameEaten
    <3>5. FramesInOrder'
      BY <1>2, <3>1, OrderStays DEF Streams
    <3>6. QED
      BY <1>5, <3>4, <3>5 DEF Streams, TlsFits
  <2>6. QED
    BY <2>4, <2>5
<1>8. QED
  BY <1>6, <1>7

LEMMA DecodePingStream ==
  ASSUME IInv, Streams, Running, Top("decode"), DecodePing PROVE Streams'
<1>1. Rest = <<>>
  BY DecoderFacts DEF Streams, Top
<1>2. /\ UNCHANGED <<received, reply, delivered, asked>> /\ uws_state' = "ERROR"
      /\ stack' = Consume(2) \o Rest
  BY DEF DecodePing, history, opening
<1>3. ToSet(stack') = {Eaten(2)}
  BY <1>1, <1>2, DecoderStacks
<1>4. /\ Eats(stack') = {Eaten(2)} /\ Eaten(2).n = 2
      /\ ~Has(stack', "masked") /\ ~Has(stack', "tlsCloses")
  BY <1>3, FrameOps DEF Eats, Has
<1>5. Flowing'
  BY <1>2, <1>4, SilentFlows DEF Streams, MaskedFits, Silent
<1>6. QED
  BY <1>2, <1>4, <1>5, OrderStays DEF Streams, TlsFits

LEMMA DecodeCloseStream ==
  ASSUME IInv, Streams, Running, Top("decode"), DecodeClose PROVE Streams'
<1> DEFINE t == User("peerClosed") \o Consume(2) \o Rest
           r == Call("respond") \o t
<1>1. Types /\ Rest = <<>>
  BY DecoderFacts DEF Streams, Top
<1>2. /\ Stacked(t) /\ NoReport(t) /\ Stacked(r) /\ NoReport(r)
      /\ \A f \in ToSet(t) \cup ToSet(r) :
           f.op \in {"user", "respond"} \/ (f.op = "consume" /\ f.n = 2)
  BY <1>1, ToUser
<1>3. /\ UNCHANGED <<received, reply, delivered, asked, io>>
      /\ \/ CloseUnderlying(t) /\ UNCHANGED noticed
         \/ CloseUnderlyingOrIndicate(r, Call("toClosed"))
         \/ uws_state' = "CLOSING_SENDING_CLOSE" /\ stack' = r
  BY DEF DecodeClose, opening, ioQueue
<1> HIDE DEF t, r
<1>4. /\ ~Has(t, "tlsCloses") /\ ~Has(r, "tlsCloses")
      /\ \A f \in Lows(t) \cup Lows(r) : f.op = "consume" /\ f.n = 2
  BY <1>2 DEF Has, Lows
<1>5. /\ TlsFits' /\ \A f \in Lows(stack') : f.op = "consume" /\ f.n = 2
      /\ uws_state' \in Silent
  <2>1. CASE CloseUnderlying(t) /\ UNCHANGED noticed
    <3>1. Closes(t)
      BY <2>1 DEF Closes
    <3>2. Lows(stack') = Lows(t) /\ TlsFits'
      BY <1>1, <1>2, <1>3, <1>4, <3>1, ClosingMoves
    <3>3. QED
      BY <1>4, <2>1, <3>2 DEF CloseUnderlying, IndicateError, Silent
  <2>2. CASE CloseUnderlyingOrIndicate(r, Call("toClosed"))
    <3>1. Closes(r)
      BY <2>2 DEF Closes
    <3>2. Lows(stack') = Lows(r) /\ TlsFits'
      BY <1>1, <1>2, <1>3, <1>4, <3>1, ClosingMoves
    <3>3. QED
      BY <1>4, <2>2, <3>2 DEF CloseUnderlyingOrIndicate, IndicateClosed, Silent
  <2>3. CASE uws_state' = "CLOSING_SENDING_CLOSE" /\ stack' = r
    BY <1>4, <2>3 DEF TlsFits, Silent
  <2>4. QED
    BY <1>3, <2>1, <2>2, <2>3
<1>6. ~Has(stack', "masked") /\ \A f \in Eats(stack') : f.n = 2
  BY <1>5 DEF Lows, Has, Eats
<1>7. Flowing'
  BY <1>3, <1>5, <1>6, SilentFlows DEF Streams, MaskedFits
<1>8. QED
  BY <1>3, <1>5, <1>7, OrderStays DEF Streams

LEMMA ConsumeStream == ASSUME IInv, Streams, Running, ConsumeReceivedBytes PROVE Streams'
<1>1. /\ Types /\ ~Broken /\ ~Has(stack, "tlsCloses") /\ Eats(Rest) = {}
      /\ ~Has(Rest, "masked") /\ stack[1] \in Eats(stack)
      /\ (Has(stack, "decode") => Has(Rest, "decode")) /\ ~Has(Rest, "tlsCloses")
  BY DecoderFacts DEF Streams, Top, ConsumeReceivedBytes
<1>2. UNCHANGED <<uws_state, inbound, reply, delivered, asked>>
  BY DEF ConsumeReceivedBytes, ioVars, history, opening
<1>3. FramesInOrder'
  BY <1>2, OrderStays DEF Streams
<1>4. CASE UNCHANGED <<received, stack>>
  <2>1. Flowing'
    BY <1>1, <1>2, <1>4, FlowStays DEF Streams
  <2>2. QED
    BY <1>1, <1>3, <1>4, <2>1 DEF Streams, TlsFits
<1>5. CASE /\ Len(received) >= stack[1].n /\ received' = Consumed(stack[1].n)
           /\ stack' = Rest
  <2>1. TlsFits'
    BY <1>1, <1>5 DEF TlsFits
  <2>2. Len(received) \in Nat /\ received \in Seq(Piece)
    BY <1>1 DEF Types
  <2>3. stack[1].n \in {2, 3} /\ (uws_state = "OPEN" => stack[1].n = 2)
    BY <1>1 DEF Streams, Flowing, ConsumeFits
  <2>4. received # <<>>
    BY <1>5, <2>2, <2>3
  <2>5. uws_state \notin Pending
    BY <1>1, <2>4 DEF Streams, Flowing, EnterFits
  <2>6. MaskedFits' /\ \A f \in Eats(stack') : f.n \in {2, 3}
    BY <1>1, <1>5 DEF MaskedFits
  <2>7. CASE uws_state # "OPEN"
    <3>1. Flowing'
      BY <1>2, <2>5, <2>6, <2>7, SilentFlows DEF Streams, Reading
    <3>2. QED
      BY <1>3, <2>1, <3>1 DEF Streams
  <2>8. CASE uws_state = "OPEN"
    <3>1. PICK x \in 1 .. Len(reply) : Coming(x) /\ Given(x + 1)
      BY <1>1, <2>8 DEF Streams, Flowing, OpenFits
    <3>2. x \in Nat /\ Len(reply) \in Nat /\ reply \in Replies
      BY <1>1 DEF Types, Streams, Flowing
    <3>3. /\ x < Len(reply)
          /\ Consumed(2) \o inbound = SubSeq(Pieces(reply), 2 * (x + 1) + 1, 2 * Len(reply))
      BY <1>1, <1>5, <2>3, <2>4, <2>8, <3>1, <3>2, NextFrame
    <3>4. Coming(x + 1)' /\ Given(x + 1)' /\ x + 1 \in 1 .. Len(reply')
      <4>1. Coming(x + 1)'
        BY <1>2, <1>5, <2>3, <2>8, <3>3 DEF Coming
      <4>2. Given(x + 1)'
        BY <1>2, <3>1 DEF Given
      <4>3. x + 1 \in 1 .. Len(reply')
        BY <1>2, <3>2, <3>3
      <4>4. QED
        BY <4>1, <4>2, <4>3
    <3>5. OpenFits'
      <4> DEFINE y == x + 1
      <4>1. Coming(y)' /\ Given(y)' /\ y \in 1 .. Len(reply')
        BY <3>4
      <4> HIDE DEF y
      <4>2. QED
        BY <1>1, <1>5, <4>1 DEF OpenFits
    <3>6. WaitFits'
      BY <1>1, <1>2, <1>5, <2>2, <2>3, <2>8 DEF WaitFits, Streams, Flowing
    <3>7. EnterFits' /\ ConsumeFits' /\ AskedFits'
      BY <1>1, <1>2, <1>5, <2>5 DEF EnterFits, ConsumeFits, AskedFits, Streams, Flowing
    <3>8. Flowing'
      BY <1>2, <2>6, <3>5, <3>6, <3>7 DEF Streams, Flowing
    <3>9. QED
      BY <1>3, <2>1, <3>8 DEF Streams
  <2>9. QED
    BY <2>7, <2>8
<1>6. QED
  BY <1>4, <1>5 DEF ConsumeReceivedBytes

LEMMA BytesReceivedStream ==
  ASSUME IInv, Streams, NEW n \in Nat, OnUnderlyingBytesReceived(n) PROVE Streams'
<1>1. /\ Types /\ stack = <<>> /\ ~Broken /\ ToSet(stack) = {} /\ Eats(stack) = {}
  BY ReportMoves DEF Streams, OnUnderlyingBytesReceived
<1>2. UNCHANGED <<reply, delivered, asked, io>> /\ n \in 1 .. Len(inbound)
  BY DEF OnUnderlyingBytesReceived, opening, ioQueue
<1>3. FramesInOrder'
  BY <1>2, OrderStays DEF Streams
<1>4. CASE /\ uws_state # "OPENING_UNDERLYING_IO"
           /\ received' = received \o SubSeq(inbound, 1, n)
           /\ inbound' = SubSeq(inbound, n + 1, Len(inbound))
           /\ stack' = Call("decode") /\ UNCHANGED uws_state
  <2>1. received' \o inbound' = received \o inbound
    <3>1. received \in Seq(Piece) /\ inbound \in Seq(Piece)
      BY <1>1 DEF Types
    <3>2. QED
      BY <1>2, <1>4, <3>1, Shift, Zenon
  <2>2. ToSet(stack') = {CallFrame("decode")}
    BY <1>4, DecodeAlone
  <2>3. /\ Eats(stack') = {} /\ ~Has(stack', "masked") /\ Has(stack', "decode")
        /\ ~Has(stack', "tlsCloses")
    BY <2>2, FrameOps DEF Eats, Has
  <2>4. EnterFits'
    BY <1>1, <1>2, <1>4, <2>1, <2>3 DEF EnterFits, Coming, Streams, Flowing
  <2>5. OpenFits'
    BY <1>1, <1>2, <1>4, <2>1, <2>3 DEF OpenFits, Coming, Given, Streams, Flowing
  <2>6. MaskedFits' /\ ConsumeFits' /\ WaitFits' /\ AskedFits'
    BY <1>2, <1>4, <2>3 DEF MaskedFits, ConsumeFits, WaitFits, AskedFits, Streams, Flowing
  <2>7. QED
    BY <1>2, <1>3, <2>3, <2>4, <2>5, <2>6 DEF Streams, Flowing, TlsFits
<1>5. CASE /\ uws_state = "WAITING_FOR_UPGRADE_RESPONSE" /\ IndicateOpenErrorAndClose(<<>>)
           /\ UNCHANGED received
  BY <1>1, <1>2, <1>5, OpenBreaksStream DEF Pending
<1>6. CASE IndicateError(<<>>)
  <2>1. uws_state' = "ERROR" /\ stack' = User("error") \o <<>>
    BY <1>6 DEF IndicateError
  <2>2. ToSet(stack') = {UserFrame("error")}
    <3>1. Pushed(User("error") \o <<>>, UserFrame("error"), <<>>)
      BY EmptyStack, PutUser DEF Events
    <3>2. QED
      BY <2>1, <3>1, EmptyStack DEF Pushed
  <2>3. Eats(stack') = {} /\ ~Has(stack', "masked") /\ ~Has(stack', "tlsCloses")
    BY <2>2, FrameOps DEF Eats, Has
  <2>4. Flowing'
    BY <1>2, <2>1, <2>3, SilentFlows DEF Streams, MaskedFits, Silent
  <2>5. QED
    BY <1>3, <2>3, <2>4 DEF Streams, TlsFits
<1>7. CASE /\ uws_state \notin Reading /\ UNCHANGED <<uws_state, received, stack>>
  <2>1. Eats(stack') = {} /\ ~Has(stack', "masked") /\ ~Has(stack', "tlsCloses")
    BY <1>1, <1>7 DEF Eats, Has
  <2>2. Flowing'
    BY <1>2, <1>7, <2>1, SilentFlows DEF Streams, MaskedFits
  <2>3. QED
    BY <1>3, <2>1, <2>2 DEF Streams, TlsFits
<1>8. QED
  BY <1>4, <1>5, <1>6, <1>7 DEF OnUnderlyingBytesReceived, Reading, Pending

LEMMA ServedStream == ASSUME IInv, Streams, Served PROVE Streams'
<1>3. CASE Running /\ Decoder
  BY <1>3, DecodeStopsStream, DecodeResponseStream, DecodeBadStream, DecodeDataStream,
     DecodePingStream, DecodeCloseStream DEF Decoder
<1>4. CASE Running /\ (Masked \/ Respond \/ ConsumeReceivedBytes \/ OnUnderlyingCloseSent
                       \/ OnUnderlyingCloseComplete \/ OnUnderlyingOpenComplete)
  BY <1>4, MaskedStream, ConsumeStream, ClosingStream, OpenCompleteStream
<1>5. CASE Running /\ (OpenFails \/ OpenError \/ TlsCloses \/ ToClosed \/ Cancel \/ SendFails
                       \/ OnUnderlyingSendComplete \/ UserReturns)
  BY <1>5, ReturnsStream
<1>7. ASSUME NEW n \in 1 .. 2 * (MaxFrames + 1), OnUnderlyingBytesReceived(n) PROVE Streams'
  <2>1. n \in Nat
    BY UwsAssumption
  <2>2. QED
    BY <1>7, <2>1, BytesReceivedStream
<1>8. CASE Reports \/ OnUnderlyingError
  BY <1>7, <1>8, ReportsStream DEF Reports
<1>9. QED
  BY <1>3, <1>4, <1>5, <1>8 DEF Served, ClientFrames

LEMMA NextStream == ASSUME IInv, Streams, [Next]_vars PROVE Streams'
<1>1. CASE UNCHANGED vars
  <2>1. UNCHANGED <<uws_state, received, stack, inbound, reply, delivered, asked, io, under>>
    BY <1>1 DEF vars, clientVars, ioVars, ioQueue, history, opening
  <2>2. Flowing' /\ FramesInOrder'
    BY <2>1, FlowStays, OrderStays DEF Streams, Broken, OnTop
  <2>3. TlsFits'
    BY <2>1 DEF Streams, TlsFits, Rest
  <2>4. QED
    BY <2>2, <2>3 DEF Streams
<1>2. CASE OpenAsync \/ CloseAsync \/ CloseHandshakeAsync \/ SendFrameAsync \/ Destroy
  BY <1>2, OpenStream, CallsStream, CloseHandshakeStream
<1>3. CASE Served
  BY <1>3, ServedStream
<1>4. QED
  BY <1>1, <1>2, <1>3 DEF Next, Served, Frames

LEMMA InitStream == ASSUME Init PROVE Streams
<1>1. /\ stack = <<>> /\ uws_state = "CLOSED" /\ asked = "no" /\ reply = <<>>
      /\ delivered = <<>> /\ received = <<>>
  BY DEF Init
<1>2. Eats(stack) = {} /\ ~Has(stack, "masked") /\ ~Has(stack, "tlsCloses")
  BY <1>1, EmptyStack DEF Eats, Has
<1>3. reply \in Replies
  BY <1>1 DEF Replies
<1>4. Flowing
  BY <1>1, <1>2, <1>3 DEF Flowing, EnterFits, OpenFits, MaskedFits, ConsumeFits, WaitFits,
     AskedFits, Reading, Pending
<1>5. FramesInOrder
  BY <1>1 DEF FramesInOrder
<1>6. QED
  BY <1>2, <1>4, <1>5 DEF Streams, TlsFits

(* Frames come out of the buffer whole, in order and as soon as they are    *)
(* there: on_underlying_io_bytes_received loses none and repeats none,      *)
(* however the io cuts them and whatever their callbacks call.              *)
THEOREM FramesStayInOrder == Spec => []FramesComeThrough
<1>1. Init => Streams
  BY InitStream
<1>2. ASSUME IInv, Streams PROVE FramesComeThrough
  <2>1. NoFrameWaits
    <3>1. SUFFICES ASSUME stack = <<>>, uws_state = "OPEN", "pong" \notin ToSet(reply)
                   PROVE  Len(received) < 2
      BY DEF NoFrameWaits
    <3>2. ~Has(stack, "decode")
      BY <3>1, EmptyStack DEF Has
    <3>3. ~(Len(received) > 1)
      BY <1>2, <3>1, <3>2 DEF Streams, Flowing, WaitFits
    <3>4. Len(received) \in Nat
      BY <1>2 DEF IInv, Types
    <3>5. QED
      BY <3>3, <3>4
  <2>2. DecoderOwnsItsBytes
    BY <1>2 DEF IInv, DecoderOwnsItsBytes
  <2>3. QED
    BY <1>2, <2>1, <2>2 DEF FramesComeThrough, Streams
<1>3. IInv /\ Connects /\ Streams /\ [Next]_vars => (IInv /\ Connects /\ Streams)'
  BY NextIInv, NextStream
<1>4. Init => IInv /\ Connects
  BY InitIInv
<1>5. QED
  BY <1>1, <1>2, <1>3, <1>4, PTL DEF Spec

-------------------------------------------------------------------------------
(* How a close ends.  The io is open under a client that uses it.           *)
UsesIo == {"WAITING_FOR_UPGRADE_RESPONSE", "OPEN", "CLOSING_SENDING_CLOSE"}
UnderFits ==
  /\ uws_state \in UsesIo =>
       under = "open"
       \/ (uws_state = "WAITING_FOR_UPGRADE_RESPONSE" /\ OnTop(stack, "openError"))
  /\ uws_state = "OPENING_UNDERLYING_IO" =>
       \/ under = "opening" \/ OnTop(stack, "opened")
       \/ OnTop(stack, "openFails") \/ OnTop(stack, "openError")
  /\ OnTop(stack, "opened") =>
       uws_state \notin UsesIo /\ (uws_state = "ERROR" => asked = "handshake")

(* The CLOSE that answers the peer's is to be sent, or under way; a client  *)
(* that no longer wants to was opened again in a callback of the decoder,   *)
(* which consumes what is not there any more.                               *)
Doomed == received = <<>> /\ Has(stack, "consume")
Answering ==
  /\ Has(stack, "respond") => Has(stack, "consume")
  /\ Has(stack, "respond") /\ uws_state # "CLOSING_SENDING_CLOSE" /\ asked # "handshake" =>
       received = <<>>
  /\ uws_state = "CLOSING_SENDING_CLOSE" =>
       /\ \/ OnTop(stack, "respond") \/ OnTop(stack, "closeSent")
          \/ CloseFrame \in ToSet(unsent) \/ lost
       /\ Has(stack, "respond") => OnTop(stack, "respond") /\ ~Has(Rest, "respond")

(* A client in ERROR has an io to close, or its close has failed; a client  *)
(* that closes has cancelled its sends or is about to, and so for the rest. *)
Failed ==
  /\ uws_state = "ERROR" /\ asked # "handshake" =>
       under \in {"open", "failed"} \/ (Has(stack, "toClosed") /\ Doomed)
  /\ asked = "close" => uws_state \in {"CLOSING_UNDERLYING_IO", "CLOSED", "ERROR"}
Closing ==
  /\ asked = "close" /\ on_ws_close_complete =>
       /\ pending_sends = <<>> \/ Has(stack, "cancel") \/ Doomed
       /\ uws_state = "ERROR" => Has(stack, "toClosed")
  /\ /\ uws_state = "CLOSING_UNDERLYING_IO"
     /\ asked = "no" \/ (asked = "close" /\ on_ws_close_complete)
     =>
         \/ io = "tls" \/ OnTop(stack, "closed") \/ OnTop(stack, "opened")
         \/ OnTop(stack, "openError") \/ Has(stack, "toClosed")

(* What ends in CLOSED has closed its io.                                   *)
ClosedFits ==
  ~reopened /\ ~nonceFailed =>
    /\ uws_state = "CLOSED" => under = "closed"
    /\ Has(stack, "toClosed") \/ Has(stack, "openFails") \/ Has(stack, "openError")
       \/ OnTop(stack, "closed") => under = "closed"
    /\ OnTop(stack, "opened") /\ stack[1].ev # "OK" =>
         under = "closed" \/ uws_state # "OPENING_UNDERLYING_IO"

(* The user is told of the end once; before an open, and a close, never.    *)
Noticed ==
  /\ ~reopened /\ asked # "handshake" =>
       /\ Has(stack, "respond") => uws_state = "CLOSING_SENDING_CLOSE"
       /\ noticed # 0 => noticed = 1 /\ uws_state = "CLOSED"
  /\ opens < 2 /\ asked = "no" => noticed = 0 /\ ~on_ws_close_complete
Fresh ==
  opens = 0 =>
    /\ uws_state = "CLOSED" /\ ~on_ws_close_complete /\ asked = "no"
    /\ \A f \in ToSet(stack) : f.op \in UserOps \cup {"destroyed"}

Completing ==
  UnderFits /\ Answering /\ Failed /\ Closing /\ ClosedFits /\ Noticed /\ Fresh

-------------------------------------------------------------------------------
(* Which frames a stack has, and which is on top.                           *)
LEMMA TopIn == ASSUME NEW s, Stacked(s), s # <<>> PROVE s[1] \in ToSet(s) /\ Has(s, s[1].op)
<1>1. s \in Seq(FrameSet) /\ Len(s) # 0 /\ Len(s) \in Nat
  BY EmptySeq DEF Stacked
<1>2. 1 \in DOMAIN s
  BY <1>1
<1>3. QED
  BY <1>2 DEF ToSet, Has

LEMMA HasPush ==
  ASSUME NEW f, NEW s, NEW t, Pushed(t, f, s)
  PROVE  /\ t # <<>> /\ t[1] = f /\ Tail(t) = s /\ Stacked(t)
         /\ f.op \notin AtOnce => NoReport(t)
         /\ \A o : Has(t, o) <=> o = f.op \/ Has(s, o)
BY DEF Pushed, Has

LEMMA HasPop ==
  ASSUME Stacked(stack), stack # <<>>
  PROVE  /\ Stacked(Rest) /\ NoReport(Rest) /\ stack[1].op \in AllOps
         /\ \A o : Has(stack, o) <=> o = stack[1].op \/ Has(Rest, o)
         /\ Rest # <<>> => Rest[1].op \notin AtOnce
         /\ stack[1].op \in {"decode", "masked"} => Rest = <<>> /\ \A o : ~Has(Rest, o)
         /\ stack[1].op = "consume" => \A o : Has(Rest, o) => o = "decode"
<1>1. /\ Stacked(Rest) /\ NoReport(Rest) /\ ToSet(stack) = {stack[1]} \cup ToSet(Rest)
      /\ stack[1] \in FrameSet
      /\ stack[1].op \in {"decode", "masked"} => Rest = <<>>
      /\ stack[1].op = "consume" =>
           Rest = <<>> \/ (Len(Rest) = 1 /\ Rest[1].op = "decode")
  BY StackedPop DEF Rest
<1>2. \A o : Has(stack, o) <=> o = stack[1].op \/ Has(Rest, o)
  BY <1>1 DEF Has
<1>3. Rest # <<>> => Rest[1].op \notin AtOnce
  BY <1>1, TopIn DEF NoReport
<1>4. Rest = <<>> => \A o : ~Has(Rest, o)
  BY EmptyStack DEF Has
<1>5. ASSUME Len(Rest) = 1, Rest[1].op = "decode" PROVE \A o : Has(Rest, o) => o = "decode"
  <2>1. Rest \in Seq(FrameSet)
    BY <1>1 DEF Stacked
  <2>2. DOMAIN Rest = {1}
    BY <1>5, <2>1
  <2>3. QED
    BY <1>5, <2>2 DEF Has, ToSet
<1>6. QED
  BY <1>1, <1>2, <1>3, <1>4, <1>5 DEF FrameSet

(* What a close of the io puts on a stack.                                  *)
ClosedOver(t, b, callback, o) ==
  /\ \A x : x \notin {"opened", "closed", "tlsCloses"} => (Has(t, x) <=> Has(b, x))
  /\ \/ t = b
     \/ OnTop(t, "closed") /\ callback /\ o.under = "closed"
     \/ OnTop(t, "opened") /\ t[1].ev # "OK" /\ under = "opening"
  /\ under = "opening" => OnTop(t, "opened")
  /\ under # "opening" => o.under = "closed"
  /\ callback /\ io # "tls" /\ o.ok => OnTop(t, "closed") \/ OnTop(t, "opened")
  /\ ~o.ok => io = "proxy" /\ under = "closed" /\ t = b

LEMMA ClosesOver ==
  ASSUME Types, Connects, NEW callback \in BOOLEAN, NEW b, Stacked(b), NoReport(b)
  PROVE  ClosedOver(XioClose(callback).calls \o b, b, callback, XioClose(callback))
<1> DEFINE o == XioClose(callback)
           c == Call("closed")
           d == Opened("CANCELLED")
           t == o.calls \o b
<1>1. io \in {"socket", "tls", "proxy"} /\ under \in {"closed", "opening", "open", "failed"}
  BY UwsAssumption DEF Types
<1>2. Reported(o.calls)
  BY XioCloses
<1>3. /\ \A x : x \notin {"opened", "closed", "tlsCloses"} => (Has(t, x) <=> Has(b, x))
      /\ o.calls = <<>> => t = b
      /\ o.calls # <<>> => t # <<>> /\ t[1] = o.calls[1]
  <2>1. /\ ToSet(t) = ToSet(o.calls) \cup ToSet(b)
        /\ o.calls = <<>> => t = b
        /\ o.calls # <<>> => t # <<>> /\ t[1] = o.calls[1]
    BY <1>2, PutReported
  <2>2. \A f \in ToSet(o.calls) : f.op \in AtOnce \cup {"tlsCloses"}
    BY <1>2, ReportedOps
  <2>3. \A f \in ToSet(o.calls) : f.op \notin {"sent", "closeSent"}
    <3>1. o.calls \in {<<>>, c, d, d \o Call("tlsCloses")}
      BY XioCloses DEF c, d
    <3>2. /\ \A f \in ToSet(<<>>) : f.op \notin {"sent", "closeSent"}
          /\ \A f \in ToSet(c) : f.op \notin {"sent", "closeSent"}
          /\ \A f \in ToSet(d) : f.op \notin {"sent", "closeSent"}
      BY DEF ToSet, Call, Opened, Frame
    <3>3. \A f \in ToSet(d \o Call("tlsCloses")) : f.op \notin {"sent", "closeSent"}
      BY DEF ToSet, Call, Opened, Frame
    <3> HIDE DEF o, c, d
    <3>4. QED
      BY <3>1, <3>2, <3>3
  <2>4. QED
    BY <2>1, <2>2, <2>3 DEF Has, AtOnce
<1>4. /\ c # <<>> /\ c[1].op = "closed"
      /\ d # <<>> /\ d[1].op = "opened" /\ d[1].ev = "CANCELLED"
      /\ d \o Call("tlsCloses") # <<>> /\ (d \o Call("tlsCloses"))[1] = d[1]
  BY DEF Call, Opened, Frame
<1>5. /\ under = "opening" => o.calls \in {d, d \o Call("tlsCloses")}
      /\ under # "opening" => o.under = "closed"
      /\ under # "opening" => o.calls = <<>> \/ (callback /\ o.calls = c)
      /\ callback /\ io # "tls" /\ o.ok => o.calls \in {c, d}
      /\ ~o.ok => io = "proxy" /\ under = "closed" /\ o.calls = <<>>
  BY <1>1 DEF XioClose, Outcome, Connects
<1> HIDE DEF o, c, d, t
<1>6. QED
  BY <1>1, <1>3, <1>4, <1>5 DEF ClosedOver, OnTop, o, t

-------------------------------------------------------------------------------
(* Steps that leave the close alone: a frame without a part in it runs.     *)
Settled_Vars == <<uws_state, received, on_ws_close_complete, io, under, nonceFailed, reopened,
                  opens, asked, noticed>>
Ops == {"respond", "toClosed", "openFails", "openError"}
Keeps(t) ==
  /\ \A o \in Ops : Has(t, o) <=> Has(stack, o)
  /\ Has(stack, "consume") => Has(t, "consume")
Idle ==
  /\ UNCHANGED Settled_Vars
  /\ uws_state = "CLOSING_SENDING_CLOSE" /\ (CloseFrame \in ToSet(unsent) \/ lost) =>
       (CloseFrame \in ToSet(unsent) \/ lost)'
  /\ asked = "close" /\ (pending_sends = <<>> \/ Has(stack, "cancel")) =>
       pending_sends' = <<>> \/ Has(stack', "cancel")
  /\ Keeps(stack')
  /\ \A o \in Ops \cup {"opened"} : ~OnTop(stack, o)
  /\ OnTop(stack, "closed") => uws_state # "CLOSING_UNDERLYING_IO"
  /\ OnTop(stack, "closeSent") => uws_state # "CLOSING_SENDING_CLOSE"
  /\ ~OnTop(stack', "opened") /\ ~OnTop(stack', "closed")
  /\ opens # 0 \/ \A o : Has(stack', o) => o \in UserOps \cup {"destroyed"}

LEMMA FreshOps ==
  Fresh <=> (opens = 0 =>
    /\ uws_state = "CLOSED" /\ ~on_ws_close_complete /\ asked = "no"
    /\ \A o : Has(stack, o) => o \in UserOps \cup {"destroyed"})
BY DEF Fresh, Has

LEMMA FreshStays ==
  ASSUME opens' # 0 \/ (/\ uws_state' = "CLOSED" /\ ~on_ws_close_complete' /\ asked' = "no"
                        /\ \A o : Has(stack', o) => o \in UserOps \cup {"destroyed"})
  PROVE  Fresh'
BY DEF Fresh, Has

LEMMA IdleCompleting == ASSUME Completing, Idle PROVE Completing'
<1>0. /\ UNCHANGED <<uws_state, received, on_ws_close_complete, io, under, nonceFailed, reopened,
                     opens, asked, noticed>>
      /\ UnderFits /\ Answering /\ Failed /\ Closing /\ ClosedFits /\ Noticed /\ Fresh
  BY DEF Idle, Settled_Vars, Completing
<1>1. /\ \A o \in Ops : Has(stack', o) <=> Has(stack, o)
      /\ Has(stack, "consume") => Has(stack', "consume")
      /\ \A o \in Ops \cup {"opened"} : ~OnTop(stack, o)
      /\ OnTop(stack, "closed") => uws_state # "CLOSING_UNDERLYING_IO"
      /\ OnTop(stack, "closeSent") => uws_state # "CLOSING_SENDING_CLOSE"
      /\ ~OnTop(stack', "opened") /\ ~OnTop(stack', "closed")
  BY DEF Idle, Keeps
<1>2. UnderFits'
  BY <1>0, <1>1 DEF UnderFits, UsesIo, Ops
<1>3. Answering'
  BY <1>0, <1>1 DEF Answering, Ops, Idle
<1>4. Failed'
  BY <1>0, <1>1 DEF Failed, Doomed, Ops
<1>5. Closing'
  BY <1>0, <1>1 DEF Closing, Doomed, Ops, Idle
<1>6. ClosedFits'
  BY <1>0, <1>1 DEF ClosedFits, Ops
<1>7. Noticed'
  BY <1>0, <1>1 DEF Noticed, Ops
<1>8. Fresh'
  BY <1>0, FreshOps, FreshStays DEF Idle
<1>9. QED
  BY <1>2, <1>3, <1>4, <1>5, <1>6, <1>7, <1>8 DEF Completing

LEMMA UnchangedCompleting ==
  ASSUME Completing, UNCHANGED <<Settled_Vars, stack, unsent, lost, pending_sends>>
  PROVE  Completing'
BY DEF Completing, Settled_Vars, UnderFits, Answering, Failed, Closing, Doomed, ClosedFits, Noticed,
       Fresh, Rest

(* The client ends in CLOSED.                                               *)
Ends ==
  /\ uws_state' = "CLOSED"
  /\ UNCHANGED <<received, pending_sends, on_ws_close_complete, reopened, opens, asked>>
  /\ ~OnTop(stack, "respond") /\ ~OnTop(stack', "opened")
  /\ Has(stack', "respond") =>
       Has(stack', "consume") /\ (asked # "handshake" => Has(stack, "respond"))
  /\ Has(stack, "cancel") => Has(stack', "cancel")
  /\ Has(stack, "consume") => Has(stack', "consume")
  /\ ~reopened /\ ~nonceFailed' => under' = "closed"
  /\ \/ noticed' = noticed
     \/ /\ uws_state # "CLOSED"
        /\ noticed' = noticed + (IF on_ws_close_complete THEN 1 ELSE 0)
  /\ opens # 0

LEMMA EndsCompleting == ASSUME Types, Completing, Ends PROVE Completing'
<1>0. UnderFits /\ Answering /\ Failed /\ Closing /\ ClosedFits /\ Noticed
  BY DEF Completing
<1>1. UnderFits'
  BY DEF Ends, UnderFits, UsesIo
<1>2. Answering'
  BY <1>0 DEF Ends, Answering
<1>3. Failed'
  BY DEF Ends, Failed
<1>4. Closing'
  BY <1>0 DEF Ends, Closing, Doomed
<1>5. ClosedFits'
  BY DEF Ends, ClosedFits
<1>6. Noticed'
  <2>1. (~reopened /\ asked # "handshake" =>
           /\ Has(stack, "respond") => uws_state = "CLOSING_SENDING_CLOSE"
           /\ noticed # 0 => noticed = 1 /\ uws_state = "CLOSED")'
    <3>1. SUFFICES ASSUME ~reopened, asked # "handshake"
                   PROVE  ~Has(stack', "respond") /\ (noticed' # 0 => noticed' = 1)
      BY DEF Ends
    <3>2. ~Has(stack', "respond")
      BY <1>0, <3>1 DEF Ends, Answering, Noticed
    <3>3. noticed' # 0 => noticed' = 1
      BY <1>0, <3>1 DEF Ends, Noticed, Types
    <3>4. QED
      BY <3>2, <3>3
  <2>2. (opens < 2 /\ asked = "no" => noticed = 0 /\ ~on_ws_close_complete)'
    BY <1>0 DEF Ends, Noticed, Types
  <2>3. QED
    BY <2>1, <2>2 DEF Noticed
<1>7. Fresh'
  BY FreshStays DEF Ends
<1>8. QED
  BY <1>1, <1>2, <1>3, <1>4, <1>5, <1>6, <1>7 DEF Completing

(* indicate_ws_open_complete_error_and_close.                               *)
LEMMA BreaksOver ==
  ASSUME Types, Connects, NEW b, Stacked(b), NoReport(b), IndicateOpenErrorAndClose(b)
  PROVE  /\ \A x : x \notin {"opened", "closed", "tlsCloses", "openError"} =>
                     (Has(stack', x) <=> Has(b, x))
         /\ under = "opening" => OnTop(stack', "opened")
         /\ under # "opening" => OnTop(stack', "openError") /\ under' = "closed"
         /\ OnTop(stack', "opened") => under = "opening"
         /\ UNCHANGED <<uws_state, answers>>
<1> DEFINE o == XioClose(FALSE)
           s == Call("openError") \o b
           t == o.calls \o s
<1>1. Pushed(s, CallFrame("openError"), b) /\ NoReport(s)
  BY PutCall DEF Anywhere, AllOps, ClientOps, AtOnce
<1>2. CallFrame("openError").op = "openError"
  BY DEF CallFrame
<1>a. /\ Stacked(s) /\ s # <<>> /\ s[1] = CallFrame("openError")
      /\ \A x : Has(s, x) <=> x = CallFrame("openError").op \/ Has(b, x)
  <2> HIDE DEF s
  <2>1. QED
    BY <1>1, HasPush
<1>3. under' = o.under /\ stack' = (o.calls \o Call("openError")) \o b
  BY DEF IndicateOpenErrorAndClose, Goes
<1>4. stack' = t
  <2>1. Call("openError") \in Seq(FrameSet)
    BY DEF Call, Frame, FrameSet, AllOps, ClientOps, Evs
  <2>2. o.calls \in Seq(FrameSet)
    BY XioCloses, EmptyStack, PutReported
  <2>3. b \in Seq(FrameSet)
    BY DEF Stacked
  <2> DEFINE c == o.calls
             e == Call("openError")
  <2>a. c \in Seq(FrameSet) /\ e \in Seq(FrameSet)
    BY <2>1, <2>2
  <2> HIDE DEF c, e, o
  <2>4. (c \o e) \o b = c \o (e \o b)
    BY <2>a, <2>3, Appended
  <2>5. QED
    BY <1>3, <2>4 DEF c, e
<1>5. ClosedOver(t, s, FALSE, o)
  BY <1>1, <1>a, ClosesOver
<1>6. UNCHANGED <<uws_state, answers>>
  BY DEF IndicateOpenErrorAndClose
<1> HIDE DEF o, s, t
<1>7. QED
  BY <1>2, <1>a, <1>3, <1>4, <1>5, <1>6 DEF ClosedOver, OnTop

LEMMA BreaksCompleting ==
  ASSUME Types, Connects, Completing, NEW b, Stacked(b), NoReport(b),
         IndicateOpenErrorAndClose(b), \A o \in Ops \ {"openError"} : Has(b, o) <=> Has(stack, o),
         Has(stack, "cancel") => Has(b, "cancel"), Has(stack, "consume") => Has(b, "consume"),
         ~OnTop(stack, "respond"), ~OnTop(stack, "openFails"),
         ~reopened => under # "opening",
         uws_state \in UsesIo => uws_state = "WAITING_FOR_UPGRADE_RESPONSE" /\ under # "opening",
         uws_state = "ERROR" => asked = "handshake", opens # 0,
         UNCHANGED <<received, pending_sends, on_ws_close_complete, io, reopened, opens, asked,
                     noticed, nonceFailed>>
  PROVE  Completing'
<1>0. UnderFits /\ Answering /\ Failed /\ Closing /\ ClosedFits /\ Noticed
  BY DEF Completing
<1>1. /\ \A x : x \notin {"opened", "closed", "tlsCloses", "openError"} =>
                  (Has(stack', x) <=> Has(b, x))
      /\ under = "opening" => OnTop(stack', "opened")
      /\ under # "opening" => OnTop(stack', "openError") /\ under' = "closed"
      /\ OnTop(stack', "opened") => under = "opening"
      /\ uws_state' = uws_state
  BY BreaksOver
<1>a. /\ \A x \in {"respond", "toClosed"} : Has(stack', x) <=> Has(stack, x)
      /\ Has(stack, "cancel") => Has(stack', "cancel")
      /\ Has(stack, "consume") => Has(stack', "consume")
  BY <1>1 DEF Ops
<1>2. UnderFits'
  BY <1>0, <1>1 DEF UnderFits, UsesIo
<1>3. Answering'
  BY <1>0, <1>1, <1>a DEF Answering, UsesIo
<1>4. Failed'
  BY <1>0, <1>1, <1>a DEF Failed, Doomed
<1>5. Closing'
  BY <1>0, <1>1, <1>a DEF Closing, Doomed
<1>6. ClosedFits'
  BY <1>0, <1>1, <1>a DEF ClosedFits
<1>7. Noticed'
  BY <1>0, <1>1, <1>a DEF Noticed
<1>8. Fresh'
  BY FreshStays
<1>9. QED
  BY <1>2, <1>3, <1>4, <1>5, <1>6, <1>7, <1>8 DEF Completing

(* xio_close with a callback, by a client that goes on.                     *)
ClosesUnder(b) ==
  /\ under' = XioClose(TRUE).under /\ XioClose(TRUE).ok
  /\ stack' = XioClose(TRUE).calls \o b
  /\ uws_state' = "CLOSING_UNDERLYING_IO" /\ noticed' = noticed
Unanswered(b) ==
  /\ Has(b, "respond") => Has(b, "consume") /\ (asked # "handshake" => received = <<>>)
  /\ ~reopened /\ asked # "handshake" => ~Has(b, "respond") /\ noticed = 0
  /\ \A o \in Ops \ {"respond"} : Has(b, o) => Has(stack, o)
  /\ Has(stack, "cancel") => Has(b, "cancel")
  /\ Has(stack, "consume") => Has(b, "consume")
  /\ opens # 0
LEMMA ClosesUnderCompleting ==
  ASSUME Types, Connects, Completing, NEW b, Stacked(b), NoReport(b), Unanswered(b), ClosesUnder(b),
         UNCHANGED <<received, pending_sends, on_ws_close_complete, io, reopened, nonceFailed, opens,
                     asked>>
  PROVE  Completing'
<1>0. UnderFits /\ Answering /\ Failed /\ Closing /\ ClosedFits /\ Noticed
  BY DEF Completing
<1> DEFINE o == XioClose(TRUE)
<1>1. ClosedOver(stack', b, TRUE, o) /\ under' = o.under /\ o.ok
      /\ uws_state' = "CLOSING_UNDERLYING_IO" /\ noticed' = noticed
  BY ClosesOver DEF ClosesUnder
<1> HIDE DEF o
<1>a. /\ \A x : x \notin {"opened", "closed", "tlsCloses"} => (Has(stack', x) <=> Has(b, x))
      /\ under = "closed" => under' = "closed"
      /\ io # "tls" => OnTop(stack', "closed") \/ OnTop(stack', "opened")
      /\ OnTop(stack', "closed") => under' = "closed"
  <2>1. ~OnTop(b, "closed")
    BY TopIn DEF NoReport, AtOnce, OnTop
  <2>2. QED
    BY <1>1, <2>1 DEF ClosedOver, OnTop
<1>2. UnderFits'
  BY <1>1 DEF UnderFits, UsesIo
<1>3. Answering'
  BY <1>1, <1>a DEF Answering, Unanswered
<1>4. Failed'
  BY <1>1 DEF Failed
<1>5. Closing'
  BY <1>0, <1>1, <1>a DEF Closing, Doomed, Unanswered
<1>6. ClosedFits'
  BY <1>0, <1>1, <1>a DEF ClosedFits, Unanswered, Ops
<1>7. Noticed'
  BY <1>0, <1>1, <1>a DEF Noticed, Unanswered
<1>8. Fresh'
  BY FreshStays DEF Unanswered
<1>9. QED
  BY <1>2, <1>3, <1>4, <1>5, <1>6, <1>7, <1>8 DEF Completing

-------------------------------------------------------------------------------
(* The frames that leave the close alone.                                   *)
LEMMA OnTopHas == ASSUME NEW s, Stacked(s), NEW o, OnTop(s, o) PROVE Has(s, o)
BY TopIn DEF OnTop

LEMMA RunningFacts ==
  ASSUME IInv, Completing, Running
  PROVE  /\ Types /\ Stacked(stack) /\ stack # <<>> /\ Stacked(Rest) /\ NoReport(Rest)
         /\ stack[1].op \in AllOps /\ Alive /\ fault = "none"
         /\ \A o : Has(stack, o) <=> o = stack[1].op \/ Has(Rest, o)
         /\ \A o \in AtOnce : ~OnTop(Rest, o)
         /\ stack[1].op \in {"decode", "masked"} => Rest = <<>> /\ \A o : ~Has(Rest, o)
         /\ stack[1].op = "consume" => \A o : Has(Rest, o) => o = "decode"
         /\ stack[1].op \notin UserOps \cup {"destroyed"} => opens # 0
<1>1. Types /\ Stacked(stack) /\ stack # <<>> /\ Alive /\ fault = "none" /\ Fresh
  BY DEF IInv, Running, Alive, Completing
<1>2. /\ Stacked(Rest) /\ NoReport(Rest) /\ stack[1].op \in AllOps
      /\ \A o : Has(stack, o) <=> o = stack[1].op \/ Has(Rest, o)
      /\ \A o \in AtOnce : ~OnTop(Rest, o)
      /\ stack[1].op \in {"decode", "masked"} => Rest = <<>> /\ \A o : ~Has(Rest, o)
      /\ stack[1].op = "consume" => \A o : Has(Rest, o) => o = "decode"
  BY <1>1, HasPop DEF OnTop
<1>3. QED
  BY <1>1, <1>2, <1>3, FreshOps

(* A frame returns that has no part in the close.                           *)
LEMMA PopIdle ==
  ASSUME IInv, Completing, Running, stack' = Rest, UNCHANGED <<Settled_Vars, unsent, lost>>,
         stack[1].op \notin Ops \cup {"opened", "consume"},
         stack[1].op = "closed" => uws_state # "CLOSING_UNDERLYING_IO",
         stack[1].op = "closeSent" => uws_state # "CLOSING_SENDING_CLOSE",
         pending_sends = <<>> => pending_sends' = <<>>,
         stack[1].op = "cancel" => pending_sends' = <<>>
  PROVE  Completing'
<1>1. /\ \A o : Has(stack, o) <=> o = stack[1].op \/ Has(stack', o)
      /\ ~OnTop(stack', "opened") /\ ~OnTop(stack', "closed")
      /\ Fresh
  BY RunningFacts DEF AtOnce, Completing
<1>2. Keeps(stack')
  BY <1>1 DEF Keeps
<1>3. \A o \in Ops \cup {"opened"} : ~OnTop(stack, o)
  BY DEF OnTop
<1>4. opens # 0 \/ \A o : Has(stack', o) => o \in UserOps \cup {"destroyed"}
  BY <1>1, FreshOps
<1>5. Idle
  BY <1>1, <1>2, <1>3, <1>4 DEF Idle, OnTop
<1>6. QED
  BY <1>5, IdleCompleting

(* A frame on top of others, or of what the decoder has left.               *)
LEMMA PushIdle ==
  ASSUME IInv, Completing, Running, Stacked(stack'), UNCHANGED <<Settled_Vars, unsent, lost>>,
         stack[1].op \notin Ops \cup {"opened", "consume", "closed", "closeSent"},
         ~Has(stack', "opened"), ~Has(stack', "closed"), opens # 0, Keeps(stack'),
         pending_sends = <<>> => pending_sends' = <<>>,
         Has(stack, "cancel") => Has(stack', "cancel")
  PROVE  Completing'
<1>1. ~OnTop(stack', "opened") /\ ~OnTop(stack', "closed")
  BY OnTopHas
<1>2. Idle
  BY <1>1 DEF Idle, OnTop
<1>3. QED
  BY <1>2, IdleCompleting

LEMMA ReturnsCompleting ==
  ASSUME IInv, Completing, Running,
         \/ UserReturns \/ SendFails
         \/ Top("decode") /\ (DecodesNothing \/ DecodePart)
  PROVE  Completing'
<1>1. UserReturns => "user" \in UserOps
  BY UserOpsAssumption
<1>2. CASE SendFails
  <2>1. pending_sends = <<>> => pending_sends' = <<>>
    <3>1. pending_sends = <<>> => ~(stack[1].n \in ToSet(pending_sends))
      BY EmptyStack
    <3>2. QED
      BY <1>2, <3>1 DEF SendFails, Without
  <2>2. QED
    BY <1>2, <2>1, PopIdle DEF SendFails, Top, Settled_Vars, Ops, history, opening, ioVars, ioQueue
<1>3. CASE UserReturns \/ (Top("decode") /\ (DecodesNothing \/ DecodePart))
  <2>1. /\ stack' = Rest /\ UNCHANGED <<clientVars, fault, ioVars, history>>
        /\ stack[1].op \in {"user", "decode"}
    BY <1>3 DEF UserReturns, DecodesNothing, DecodePart, Top
  <2>2. QED
    BY <2>1, PopIdle DEF Settled_Vars, Ops, clientVars, history, opening, ioVars, ioQueue
<1>4. QED
  BY <1>2, <1>3

LEMMA CancelCompleting == ASSUME IInv, Completing, Running, Cancel, Stacked(stack') PROVE Completing'
<1>1. UNCHANGED <<Settled_Vars, unsent, lost>> /\ stack[1].op = "cancel"
  BY DEF Cancel, Top, Settled_Vars, opening, ioVars, ioQueue
<1>2. CASE pending_sends = <<>> /\ stack' = Rest /\ UNCHANGED pending_sends
  BY <1>1, <1>2, PopIdle DEF Ops
<1>3. CASE pending_sends # <<>> /\ stack' = Frame("user", "sent", Head(pending_sends)) \o stack
  <2> DEFINE f == [op |-> "user", ev |-> "sent", n |-> Head(pending_sends)]
  <2>1. /\ Stacked(stack) /\ stack # <<>> /\ NoReport(Rest)
        /\ \A o : Has(stack, o) <=> o = stack[1].op \/ Has(Rest, o)
        /\ opens # 0
    BY <1>1, RunningFacts, UserOpsAssumption DEF ClientOps
  <2>2. NoReport(stack)
    BY <1>1, <2>1, StackedPop DEF NoReport, AtOnce, Rest
  <2>3. Head(pending_sends) \in Nat
    <3> DEFINE E == 1 .. Sends
    <3>1. pending_sends \in Seq(E)
      BY DEF IInv, Types
    <3> HIDE DEF E
    <3>2. Head(pending_sends) \in E
      BY <1>3, <3>1
    <3>3. QED
      BY <3>2, UwsAssumption DEF E
  <2>4. Pushed(stack', f, stack)
    BY <1>3, <2>1, <2>2, <2>3, Put, UserOpsAssumption
       DEF Anywhere, AllOps, ClientOps, Evs, Events
  <2>5. f.op = "user"
    OBVIOUS
  <2> HIDE DEF f
  <2>6. \A o : Has(stack', o) <=> o = "user" \/ Has(stack, o)
    BY <2>4, <2>5, HasPush
  <2>7. ~Has(stack, "opened") /\ ~Has(stack, "closed")
    BY <2>2 DEF NoReport, AtOnce, Has
  <2>8. Keeps(stack')
    BY <2>6 DEF Keeps, Ops
  <2>9. /\ ~Has(stack', "opened") /\ ~Has(stack', "closed")
        /\ Has(stack, "cancel") => Has(stack', "cancel")
    BY <2>6, <2>7
  <2>10. pending_sends = <<>> => pending_sends' = <<>>
    BY <1>3
  <2>11. opens # 0 /\ stack[1].op \notin Ops \cup {"opened", "consume", "closed", "closeSent"}
    BY <1>1, <2>1 DEF Ops
  <2>12. QED
    BY <1>1, <2>8, <2>9, <2>10, <2>11, PushIdle
<1>4. QED
  BY <1>2, <1>3 DEF Cancel

LEMMA SendCompleteCompleting ==
  ASSUME IInv, Completing, Running, OnUnderlyingSendComplete, Stacked(stack')
  PROVE  Completing'
<1>1. UNCHANGED <<Settled_Vars, unsent, lost>> /\ stack[1].op = "sent"
  BY DEF OnUnderlyingSendComplete, Top, Settled_Vars, opening, ioVars, ioQueue
<1>2. CASE UNCHANGED <<pending_sends, stack>>
  BY <1>1, <1>2, UnchangedCompleting
<1>3. CASE stack[1].n \in ToSet(pending_sends) /\ stack' = Frame("user", "sent", stack[1].n) \o Rest
  <2> DEFINE f == [op |-> "user", ev |-> "sent", n |-> stack[1].n]
  <2>1. /\ Stacked(Rest) /\ NoReport(Rest) /\ stack # <<>>
        /\ \A o : Has(stack, o) <=> o = stack[1].op \/ Has(Rest, o)
        /\ opens # 0
    BY <1>1, RunningFacts, UserOpsAssumption DEF ClientOps
  <2>2. stack[1].n \in Nat
    BY <2>1, StackedPop DEF FrameSet, IInv
  <2>3. Pushed(stack', f, Rest)
    BY <1>3, <2>1, <2>2, Put, UserOpsAssumption DEF Anywhere, AllOps, ClientOps, Evs, Events
  <2>4. f.op = "user"
    OBVIOUS
  <2> HIDE DEF f
  <2>5. \A o : Has(stack', o) <=> o = "user" \/ Has(Rest, o)
    BY <2>3, <2>4, HasPush
  <2>6. ~Has(Rest, "opened") /\ ~Has(Rest, "closed")
    BY <2>1 DEF NoReport, AtOnce, Has
  <2>7. Keeps(stack')
    BY <1>1, <2>1, <2>5 DEF Keeps, Ops
  <2>8. pending_sends # <<>>
    BY <1>3, EmptyStack
  <2>9. QED
    BY <1>1, <2>1, <2>5, <2>6, <2>7, <2>8, PushIdle DEF Ops
<1>4. QED
  BY <1>2, <1>3 DEF OnUnderlyingSendComplete

LEMMA DecodeGivesCompleting ==
  ASSUME IInv, Completing, Running, Stacked(stack'),
         (Top("decode") /\ (DecodeData \/ DecodePong)) \/ Masked
  PROVE  Completing'
<1>1. /\ stack[1].op \in {"decode", "masked"} /\ Rest = <<>> /\ \A o : ~Has(Rest, o)
      /\ \A o : Has(stack, o) <=> o = stack[1].op \/ Has(Rest, o)
      /\ opens # 0 /\ UNCHANGED <<Settled_Vars, unsent, lost, pending_sends>>
  <2>1. /\ stack[1].op \in {"decode", "masked"}
        /\ UNCHANGED <<Settled_Vars, unsent, lost, pending_sends>>
    BY DEF DecodeData, DecodePong, Masked, Top, Settled_Vars, clientVars, history, opening, ioVars,
           ioQueue
  <2>2. QED
    BY <2>1, RunningFacts, UserOpsAssumption DEF ClientOps
<1>2. CASE stack' = Rest
  BY <1>1, <1>2, PopIdle DEF Ops
<1>3. ASSUME NEW n \in {2, 3},
             stack' = User("frame") \o Consume(n) \o Call("decode") \o Rest
             \/ stack' = Consume(n) \o Rest
      PROVE  Completing'
  <2>0. n \in Nat
    OBVIOUS
  <2>a. /\ ToSet(User("frame") \o Consume(n) \o Call("decode") \o Rest)
             = {UserFrame("frame"), Eaten(n), CallFrame("decode")}
        /\ ToSet(Consume(n) \o Rest) = {Eaten(n)}
    BY <1>1, <2>0, DecoderStacks
  <2>1. \A f \in ToSet(stack') : f \in {UserFrame("frame"), Eaten(n), CallFrame("decode")}
    BY <1>3, <2>a
  <2>2. \A o : Has(stack', o) => o \in {"user", "consume", "decode"}
    BY <2>1, FrameOps DEF Has
  <2>3. Keeps(stack')
    BY <1>1, <2>2 DEF Keeps, Ops
  <2>4. QED
    BY <1>1, <2>2, <2>3, PushIdle DEF Ops
<1>4. QED
  BY <1>2, <1>3 DEF DecodeData, DecodePong, Masked

-------------------------------------------------------------------------------
(* The frames that end the client, or close its io.                         *)
LEMMA HasUser ==
  ASSUME NEW b, Stacked(b), NoReport(b), NEW ev \in Events
  PROVE  /\ \A o : Has(User(ev) \o b, o) <=> o = "user" \/ Has(b, o)
         /\ OnTop(User(ev) \o b, "user")
<1> DEFINE f == UserFrame(ev)
           t == User(ev) \o b
<1>1. Pushed(t, f, b) /\ f.op = "user"
  BY PutUser DEF UserFrame
<1> HIDE DEF f, t
<1>2. t # <<>> /\ t[1] = f /\ \A o : Has(t, o) <=> o = f.op \/ Has(b, o)
  BY <1>1, HasPush
<1>3. QED
  BY <1>1, <1>2 DEF OnTop, t

LEMMA HasCall ==
  ASSUME NEW b, Stacked(b), NoReport(b), NEW p \in Anywhere, p \notin AtOnce
  PROVE  /\ \A o : Has(Call(p) \o b, o) <=> o = p \/ Has(b, o)
         /\ OnTop(Call(p) \o b, p) /\ Stacked(Call(p) \o b) /\ NoReport(Call(p) \o b)
         /\ Tail(Call(p) \o b) = b
<1> DEFINE f == CallFrame(p)
           t == Call(p) \o b
<1>1. Pushed(t, f, b) /\ f.op = p
  BY PutCall DEF CallFrame
<1> HIDE DEF f, t
<1>2. /\ t # <<>> /\ t[1] = f /\ Tail(t) = b /\ Stacked(t) /\ NoReport(t)
      /\ \A o : Has(t, o) <=> o = f.op \/ Has(b, o)
  BY <1>1, HasPush
<1>3. QED
  BY <1>1, <1>2 DEF OnTop, t

LEMMA FramesEndCompleting ==
  ASSUME IInv, TlsFits, Completing, Running, OpenFails \/ OpenError \/ ToClosed \/ TlsCloses
  PROVE  Completing'
<1>1. /\ stack[1].op \in {"openFails", "openError", "toClosed", "tlsCloses"}
      /\ UNCHANGED <<received, pending_sends, on_ws_close_complete, reopened, nonceFailed, opens,
                     asked, noticed>>
      /\ stack' = Rest \/ stack' = User("open") \o Rest
      /\ under' = under \/ under' = "closed"
  BY DEF OpenFails, OpenError, ToClosed, TlsCloses, IndicateOpenError, Top, Goes, clientVars,
         history, opening, ioVars
<1>2. /\ Stacked(Rest) /\ NoReport(Rest) /\ Types /\ stack # <<>>
      /\ \A o : Has(stack, o) <=> o = stack[1].op \/ Has(Rest, o)
      /\ \A o \in AtOnce : ~OnTop(Rest, o)
      /\ opens # 0
  BY <1>1, RunningFacts, UserOpsAssumption DEF ClientOps
<1>3. /\ \A o : o # stack[1].op /\ o # "user" => (Has(stack', o) <=> Has(stack, o))
      /\ ~OnTop(stack', "opened")
  <2>1. CASE stack' = Rest
    BY <1>2, <2>1 DEF AtOnce
  <2>2. CASE stack' = User("open") \o Rest
    <3>1. /\ \A o : Has(stack', o) <=> o = "user" \/ Has(Rest, o)
          /\ OnTop(stack', "user")
      BY <1>2, <2>2, HasUser DEF Events
    <3>2. QED
      BY <1>2, <3>1 DEF OnTop
  <2>3. QED
    BY <1>1, <2>1, <2>2
<1>4. uws_state' = "CLOSED"
  <2>1. TlsCloses => uws_state = "CLOSED"
    <3>1. TlsCloses => Has(stack, "tlsCloses") /\ ~OnTop(stack, "opened") /\ ~OnTop(stack, "openFails")
      BY <1>2 DEF TlsCloses, Top, OnTop
    <3>2. QED
      BY <3>1 DEF TlsFits
  <2>2. QED
    BY <2>1 DEF OpenFails, OpenError, ToClosed, TlsCloses, IndicateOpenError, clientVars
<1>5. ~reopened /\ ~nonceFailed' => under' = "closed"
  <2>1. TlsCloses => under' = "closed"
    BY DEF TlsCloses, Goes
  <2>2. ~TlsCloses => stack[1].op \in {"openFails", "openError", "toClosed"}
    BY DEF OpenFails, OpenError, ToClosed, Top
  <2>3. QED
    BY <1>1, <1>2, <2>1, <2>2 DEF Completing, ClosedFits
<1>6. Has(stack', "respond") => Has(stack', "consume") /\ Has(stack, "respond")
  BY <1>1, <1>3 DEF Completing, Answering
<1>7. Ends
  BY <1>1, <1>2, <1>3, <1>4, <1>5, <1>6 DEF Ends, OnTop
<1>8. QED
  BY <1>2, <1>7, EndsCompleting

LEMMA CloseCompleteCompleting ==
  ASSUME IInv, Completing, Running, OnUnderlyingCloseComplete
  PROVE  Completing'
<1>1. /\ stack[1].op = "closed"
      /\ UNCHANGED <<received, pending_sends, on_ws_close_complete, reopened, nonceFailed, opens,
                     asked, under, io, unsent, lost>>
  BY DEF OnUnderlyingCloseComplete, Top, opening, ioVars, ioQueue
<1>2. /\ Stacked(Rest) /\ NoReport(Rest) /\ Types /\ stack # <<>>
      /\ \A o : Has(stack, o) <=> o = stack[1].op \/ Has(Rest, o)
      /\ opens # 0
  BY <1>1, RunningFacts, UserOpsAssumption DEF ClientOps
<1>3. CASE uws_state # "CLOSING_UNDERLYING_IO"
  <2>1. stack' = Rest /\ UNCHANGED <<uws_state, noticed>>
    BY <1>3 DEF OnUnderlyingCloseComplete
  <2>2. QED
    BY <1>1, <1>3, <2>1, PopIdle DEF Settled_Vars, Ops
<1>4. CASE uws_state = "CLOSING_UNDERLYING_IO"
  <2> DEFINE b == Call("toClosed") \o Rest
  <2>1. /\ uws_state' = "CLOSED"
        /\ noticed' = noticed + (IF on_ws_close_complete THEN 1 ELSE 0)
        /\ stack' = User("closed") \o b \/ stack' = <<>> \o b
    BY <1>4 DEF OnUnderlyingCloseComplete, IndicateClosed
  <2>2. /\ \A o : Has(b, o) <=> o = "toClosed" \/ Has(Rest, o)
        /\ OnTop(b, "toClosed") /\ Stacked(b) /\ NoReport(b)
    BY <1>2, HasCall DEF Anywhere, AllOps, ClientOps, AtOnce
  <2>3. <<>> \o b = b
    BY <2>2, EmptyStack, Appended DEF Stacked
  <2> HIDE DEF b
  <2>4. /\ \A o : o \in {"respond", "cancel", "consume"} => (Has(stack', o) <=> Has(stack, o))
        /\ ~OnTop(stack', "opened")
    <3>1. CASE stack' = b
      BY <1>1, <1>2, <2>2, <3>1 DEF OnTop
    <3>2. CASE stack' = User("closed") \o b
      <4>1. /\ \A o : Has(stack', o) <=> o = "user" \/ Has(b, o)
            /\ OnTop(stack', "user")
        BY <2>2, <3>2, HasUser DEF Events
      <4>2. QED
        BY <1>1, <1>2, <2>2, <4>1 DEF OnTop
    <3>3. QED
      BY <2>1, <2>3, <3>1, <3>2
  <2>5. ~reopened /\ ~nonceFailed' => under' = "closed"
    BY <1>1, <1>2 DEF Completing, ClosedFits, OnTop
  <2>6. Has(stack', "respond") => Has(stack', "consume") /\ Has(stack, "respond")
    BY <2>4 DEF Completing, Answering
  <2>7. Ends
    BY <1>1, <1>2, <1>4, <2>1, <2>4, <2>5, <2>6 DEF Ends, OnTop
  <2>8. QED
    BY <1>2, <2>7, EndsCompleting
<1>5. QED
  BY <1>3, <1>4

(* A close of the io with a callback: it goes on, or it has failed.         *)
LEMMA ClosesSplit ==
  ASSUME NEW b, CloseUnderlyingOrIndicate(b, <<>>)
                \/ CloseUnderlyingOrIndicate(b, Call("toClosed"))
                \/ (CloseUnderlying(b) /\ UNCHANGED noticed)
  PROVE  /\ under' = XioClose(TRUE).under
         /\ XioClose(TRUE).ok => ClosesUnder(b)
         /\ ~XioClose(TRUE).ok =>
              \/ CloseUnderlyingOrIndicate(b, <<>>) /\ IndicateClosed(<<>> \o b)
              \/ /\ CloseUnderlyingOrIndicate(b, Call("toClosed"))
                 /\ IndicateClosed(Call("toClosed") \o b)
              \/ CloseUnderlying(b) /\ IndicateError(Call("toClosed") \o b) /\ UNCHANGED noticed
<1> DEFINE o == XioClose(TRUE)
<1>1. under' = o.under
  BY DEF CloseUnderlyingOrIndicate, CloseUnderlying, Goes
<1>2. o.ok => /\ stack' = o.calls \o b /\ uws_state' = "CLOSING_UNDERLYING_IO"
              /\ noticed' = noticed
  BY DEF CloseUnderlyingOrIndicate, CloseUnderlying
<1>3. QED
  BY <1>1, <1>2 DEF ClosesUnder, CloseUnderlyingOrIndicate, CloseUnderlying

LEMMA RefusedClose ==
  ASSUME Types, Connects, ~XioClose(TRUE).ok, NEW b, Stacked(b), NoReport(b)
  PROVE  under = "closed" /\ XioClose(TRUE).under = "closed"
<1>1. ClosedOver(XioClose(TRUE).calls \o b, b, TRUE, XioClose(TRUE))
  BY ClosesOver
<1>2. QED
  BY <1>1 DEF ClosedOver

LEMMA CloseSentCompleting ==
  ASSUME IInv, Connects, Completing, Running, OnUnderlyingCloseSent
  PROVE  Completing'
<1>1. /\ stack[1].op = "closeSent"
      /\ UNCHANGED <<received, pending_sends, on_ws_close_complete, reopened, nonceFailed, opens,
                     asked, io, unsent, lost>>
  BY DEF OnUnderlyingCloseSent, Top, opening, ioQueue
<1>2. /\ Stacked(Rest) /\ NoReport(Rest) /\ Types /\ stack # <<>>
      /\ \A o : Has(stack, o) <=> o = stack[1].op \/ Has(Rest, o)
      /\ opens # 0
  BY <1>1, RunningFacts, UserOpsAssumption DEF ClientOps
<1>3. CASE uws_state # "CLOSING_SENDING_CLOSE"
  <2>1. stack' = Rest /\ UNCHANGED <<uws_state, noticed, under>>
    BY <1>3 DEF OnUnderlyingCloseSent
  <2>2. QED
    BY <1>1, <1>3, <2>1, PopIdle DEF Settled_Vars, Ops
<1>4. CASE uws_state = "CLOSING_SENDING_CLOSE"
  <2>1. CloseUnderlyingOrIndicate(Rest, <<>>)
    BY <1>4 DEF OnUnderlyingCloseSent
  <2>2. under = "open" /\ ~Has(Rest, "respond")
    BY <1>1, <1>2, <1>4 DEF Completing, UnderFits, UsesIo, Answering, OnTop
  <2>3. ClosesUnder(Rest)
    BY <1>2, <2>1, <2>2, ClosesSplit, RefusedClose
  <2>4. ~reopened /\ asked # "handshake" => noticed = 0
    BY <1>4 DEF Completing, Noticed
  <2>5. Unanswered(Rest)
    BY <1>1, <1>2, <2>2, <2>4 DEF Unanswered, Ops
  <2>6. QED
    BY <1>1, <1>2, <2>3, <2>5, ClosesUnderCompleting
<1>5. QED
  BY <1>3, <1>4

(* A close that was refused, in the end for good.                           *)
LEMMA RefusedCompleting ==
  ASSUME Types, Completing, NEW b, Stacked(b), NoReport(b),
         IndicateError(Call("toClosed") \o b), under' = "closed", opens # 0,
         Has(b, "respond") => Has(b, "consume"),
         asked # "handshake" => received = <<>> /\ Has(b, "consume") /\ reopened,
         UNCHANGED <<received, pending_sends, on_ws_close_complete, reopened, opens, asked, noticed>>
  PROVE  Completing'
<1> DEFINE s == Call("toClosed") \o b
<1>1. /\ \A o : Has(s, o) <=> o = "toClosed" \/ Has(b, o)
      /\ Stacked(s) /\ NoReport(s)
  BY HasCall DEF Anywhere, AllOps, ClientOps, AtOnce
<1>2. uws_state' = "ERROR" /\ stack' = User("error") \o s
  BY DEF IndicateError
<1> HIDE DEF s
<1>3. /\ \A o : Has(stack', o) <=> o = "user" \/ o = "toClosed" \/ Has(b, o)
      /\ OnTop(stack', "user")
  BY <1>1, <1>2, HasUser DEF Events
<1>4. UnderFits'
  BY <1>2, <1>3 DEF UnderFits, UsesIo, OnTop
<1>5. Answering'
  BY <1>2, <1>3 DEF Answering
<1>6. Failed'
  BY <1>2, <1>3 DEF Failed, Doomed
<1>7. Closing'
  BY <1>2, <1>3 DEF Closing, Doomed
<1>8. ClosedFits'
  BY <1>2, <1>3 DEF ClosedFits, OnTop
<1>9. Noticed'
  BY DEF Noticed, Completing
<1>10. Fresh'
  BY FreshStays
<1>11. QED
  BY <1>4, <1>5, <1>6, <1>7, <1>8, <1>9, <1>10 DEF Completing

(* The CLOSE is sent, kept by the io, or lost.                              *)
LEMMA CloseIsSent ==
  ASSUME Types, NEW o \in XioSend(CloseFrame, Call("closeSent")), o.ok
  PROVE  \/ o.calls = Call("closeSent")
         \/ o.calls = <<>> /\ (o.lost \/ CloseFrame \in ToSet(o.unsent))
<1> DEFINE completion == Call("closeSent")
           result(ok, queue, calls, isLost) ==
             [ok |-> ok, unsent |-> queue, calls |-> calls,
              lost |-> lost \/ (isLost /\ CloseFrame = CloseFrame)]
<1> HIDE DEF completion
<1>1. \/ o = result(TRUE, Append(unsent, CloseFrame), <<>>, FALSE)
      \/ o = result(TRUE, unsent, completion, FALSE) \/ o = result(TRUE, unsent, <<>>, TRUE)
  BY DEF XioSend, completion
<1>3. CloseFrame \in ToSet(Append(unsent, CloseFrame))
  <2>1. unsent \in Seq(0 .. Sends)
    BY DEF Types
  <2>2. /\ Len(unsent) + 1 \in DOMAIN Append(unsent, CloseFrame)
        /\ Append(unsent, CloseFrame)[Len(unsent) + 1] = CloseFrame
    BY <2>1, UwsAssumption DEF CloseFrame
  <2>3. QED
    BY <2>2 DEF ToSet
<1>4. CASE o = result(TRUE, Append(unsent, CloseFrame), <<>>, FALSE)
  BY <1>3, <1>4
<1>5. CASE o = result(TRUE, unsent, completion, FALSE)
  BY <1>5 DEF completion
<1>6. CASE o = result(TRUE, unsent, <<>>, TRUE)
  BY <1>6
<1>7. QED
  BY <1>1, <1>4, <1>5, <1>6

LEMMA RespondCompleting ==
  ASSUME IInv, Connects, Completing, Running, Respond
  PROVE  Completing'
<1>1. /\ stack[1].op = "respond"
      /\ UNCHANGED <<received, pending_sends, on_ws_close_complete, reopened, nonceFailed, opens,
                     asked, noticed, io>>
  BY DEF Respond, Top, history, opening
<1>2. /\ Stacked(Rest) /\ NoReport(Rest) /\ Types /\ stack # <<>>
      /\ \A o : Has(stack, o) <=> o = stack[1].op \/ Has(Rest, o)
      /\ \A o \in AtOnce : ~OnTop(Rest, o)
      /\ opens # 0
  BY <1>1, RunningFacts, UserOpsAssumption DEF ClientOps
<1>0. UnderFits /\ Answering /\ Failed /\ Closing /\ ClosedFits /\ Noticed
  BY DEF Completing
<1>3. /\ Has(Rest, "consume")
      /\ uws_state = "CLOSING_SENDING_CLOSE" => ~Has(Rest, "respond") /\ under = "open"
      /\ uws_state # "CLOSING_SENDING_CLOSE" /\ asked # "handshake" =>
           received = <<>> /\ reopened
  BY <1>0, <1>1, <1>2 DEF Answering, UnderFits, UsesIo, Noticed, OnTop
<1>4. CASE CloseUnderlying(Rest)
  <2>1. CASE XioClose(TRUE).ok
    <3>1. ClosesUnder(Rest)
      BY <1>1, <1>4, <2>1, ClosesSplit
    <3>2. Unanswered(Rest)
      BY <1>0, <1>1, <1>2, <1>3 DEF Unanswered, Ops, Noticed
    <3>3. QED
      BY <1>1, <1>2, <3>1, <3>2, ClosesUnderCompleting
  <2>2. CASE ~XioClose(TRUE).ok
    <3>1. under = "closed" /\ under' = "closed"
      BY <1>1, <1>2, <1>4, <2>2, RefusedClose, ClosesSplit
    <3>2. IndicateError(Call("toClosed") \o Rest)
      BY <1>4, <2>2 DEF CloseUnderlying
    <3>3. QED
      BY <1>1, <1>2, <1>3, <3>1, <3>2, RefusedCompleting
  <2>3. QED
    BY <2>1, <2>2
<1>5. CASE \E o \in XioSend(CloseFrame, Call("closeSent")) :
             /\ o.ok
             /\ unsent' = o.unsent /\ lost' = o.lost
             /\ stack' = o.calls \o Rest
             /\ UNCHANGED <<uws_state, under, inbound>>
  <2>1. /\ UNCHANGED <<uws_state, under>>
        /\ \/ stack' = Call("closeSent") \o Rest
           \/ stack' = <<>> \o Rest /\ (lost' \/ CloseFrame \in ToSet(unsent'))
    BY <1>2, <1>5, CloseIsSent
  <2>2. <<>> \o Rest = Rest
    BY <1>2, EmptyStack, Appended DEF Stacked
  <2>3. Pushed(Call("closeSent") \o Rest, CallFrame("closeSent"), Rest)
    BY <1>2, PutCall DEF Anywhere, AllOps, ClientOps
  <2>4. /\ \A o : o # "closeSent" /\ o # "respond" => (Has(stack', o) <=> Has(stack, o))
        /\ Has(stack', "respond") <=> Has(Rest, "respond")
        /\ ~OnTop(stack', "opened") /\ ~OnTop(stack', "closed")
        /\ OnTop(stack', "closeSent") \/ lost' \/ CloseFrame \in ToSet(unsent')
    <3>1. CASE stack' = Call("closeSent") \o Rest
      <4> DEFINE f == CallFrame("closeSent")
      <4>1. Pushed(stack', f, Rest) /\ f.op = "closeSent"
        BY <2>3, <3>1, FrameOps
      <4> HIDE DEF f
      <4>2. stack' # <<>> /\ stack'[1] = f /\ \A o : Has(stack', o) <=> o = f.op \/ Has(Rest, o)
        BY <4>1, HasPush
      <4>3. QED
        BY <1>1, <1>2, <4>1, <4>2 DEF OnTop
    <3>2. CASE stack' = Rest /\ (lost' \/ CloseFrame \in ToSet(unsent'))
      BY <1>1, <1>2, <3>2 DEF AtOnce
    <3>3. QED
      BY <2>1, <2>2, <3>1, <3>2
  <2>5. UnderFits'
    BY <1>0, <1>1, <2>1, <2>4 DEF UnderFits, OnTop, UsesIo
  <2>6. Answering'
    BY <1>0, <1>1, <1>2, <1>3, <2>1, <2>4 DEF Answering
  <2>7. Failed'
    BY <1>0, <1>1, <2>1, <2>4 DEF Failed, Doomed
  <2>8. Closing'
    BY <1>0, <1>1, <2>1, <2>4 DEF Closing, Doomed, OnTop
  <2>9. ClosedFits'
    BY <1>0, <1>1, <2>1, <2>4 DEF ClosedFits
  <2>10. Noticed'
    BY <1>0, <1>1, <1>2, <2>1, <2>4 DEF Noticed
  <2>11. Fresh'
    BY <1>1, <1>2, FreshStays
  <2>12. QED
    BY <2>5, <2>6, <2>7, <2>8, <2>9, <2>10, <2>11 DEF Completing
<1>6. QED
  BY <1>4, <1>5 DEF Respond

LEMMA ConsumeCompleting ==
  ASSUME IInv, Streams, Completing, Running, ConsumeReceivedBytes
  PROVE  Completing'
<1>1. /\ stack[1].op = "consume"
      /\ UNCHANGED <<uws_state, pending_sends, on_ws_close_complete, reopened, nonceFailed, opens,
                     asked, noticed, io, under, unsent, lost>>
  BY DEF ConsumeReceivedBytes, Top, history, opening, ioVars, ioQueue
<1>2. /\ Stacked(Rest) /\ NoReport(Rest) /\ Types /\ stack # <<>>
      /\ \A o : Has(stack, o) <=> o = stack[1].op \/ Has(Rest, o)
      /\ \A o \in AtOnce : ~OnTop(Rest, o)
      /\ \A o : Has(Rest, o) => o = "decode"
      /\ opens # 0
  BY <1>1, RunningFacts, UserOpsAssumption DEF ClientOps
<1>0. UnderFits /\ Answering /\ Failed /\ Closing /\ ClosedFits /\ Noticed
  BY DEF Completing
<1>3. CASE UNCHANGED <<received, stack>>
  BY <1>1, <1>3, UnchangedCompleting DEF Settled_Vars
<1>4. CASE Len(received) >= stack[1].n /\ stack' = Rest
  <2>1. received # <<>>
    <3>1. stack[1].n \in {2, 3}
      <4>1. stack[1] \in Eats(stack)
        BY <1>1, <1>2, TopIn DEF Eats, IInv
      <4>2. QED
        BY <4>1 DEF Streams, Flowing, ConsumeFits
    <3>2. QED
      BY <1>4, <3>1
  <2>2. /\ \A o : o # "decode" => ~Has(stack', o)
        /\ \A o : o \notin {"decode", "consume"} => ~Has(stack, o)
        /\ ~OnTop(stack', "opened") /\ ~OnTop(stack', "closed")
    BY <1>1, <1>2, <1>4 DEF AtOnce
  <2>5. UnderFits'
    BY <1>0, <1>1, <2>2 DEF UnderFits, OnTop, UsesIo
  <2>6. Answering'
    BY <1>0, <1>1, <2>2 DEF Answering, OnTop
  <2>7. Failed'
    BY <1>0, <1>1, <2>1, <2>2 DEF Failed, Doomed
  <2>8. Closing'
    BY <1>0, <1>1, <2>1, <2>2 DEF Closing, Doomed, OnTop
  <2>9. ClosedFits'
    BY <1>0, <1>1, <2>2 DEF ClosedFits, OnTop
  <2>10. Noticed'
    BY <1>0, <1>1, <2>2 DEF Noticed
  <2>11. Fresh'
    BY <1>1, <1>2, FreshStays
  <2>12. QED
    BY <2>5, <2>6, <2>7, <2>8, <2>9, <2>10, <2>11 DEF Completing
<1>5. QED
  BY <1>3, <1>4 DEF ConsumeReceivedBytes

LEMMA OpenCompleteCompleting ==
  ASSUME IInv, Connects, Completing, Running, OnUnderlyingOpenComplete
  PROVE  Completing'
<1>1. /\ stack[1].op = "opened" /\ OnTop(stack, "opened")
      /\ UNCHANGED <<received, pending_sends, on_ws_close_complete, reopened, opens, asked, noticed,
                     io, unsent, lost>>
  BY DEF OnUnderlyingOpenComplete, Top, OnTop, Running, ioQueue
<1>2. /\ Stacked(Rest) /\ NoReport(Rest) /\ Types /\ stack # <<>> /\ fault = "none"
      /\ \A o : Has(stack, o) <=> o = stack[1].op \/ Has(Rest, o)
      /\ \A o \in AtOnce : ~OnTop(Rest, o)
      /\ opens # 0
  BY <1>1, RunningFacts, UserOpsAssumption DEF ClientOps
<1>0. UnderFits /\ Answering /\ Failed /\ Closing /\ ClosedFits /\ Noticed
  BY DEF Completing
<1>3. /\ uws_state \notin UsesIo /\ (uws_state = "ERROR" => asked = "handshake")
      /\ ~reopened /\ under = "opening" => io = "tls" /\ uws_state # "OPENING_UNDERLYING_IO"
  BY <1>0, <1>1, <1>2 DEF UnderFits, IInv, Norm, AnswersFit
<1>4. CASE UNCHANGED <<uws_state, stack, under, nonceFailed>>
  BY <1>1, <1>4, UnchangedCompleting DEF Settled_Vars
<1>5. CASE /\ IndicateOpenErrorAndClose(Rest) /\ UNCHANGED nonceFailed
           /\ uws_state # "OPENING_UNDERLYING_IO" => ~(io = "tls" /\ under = "opening")
  <2>1. /\ \A o \in Ops \ {"openError"} : Has(Rest, o) <=> Has(stack, o)
        /\ Has(stack, "cancel") => Has(Rest, "cancel")
        /\ Has(stack, "consume") => Has(Rest, "consume")
        /\ ~OnTop(stack, "respond") /\ ~OnTop(stack, "openFails")
    BY <1>1, <1>2 DEF Ops, OnTop
  <2>2. ~reopened => under # "opening"
    BY <1>3, <1>5
  <2>3. QED
    BY <1>1, <1>2, <1>3, <1>5, <2>1, <2>2, BreaksCompleting
<1>6. CASE /\ IndicateOpenError(Rest) /\ UNCHANGED under /\ uws_state = "OPENING_UNDERLYING_IO"
           /\ (stack[1].ev # "OK" /\ UNCHANGED nonceFailed) \/ nonceFailed'
  <2>1. uws_state' = "CLOSED" /\ stack' = User("open") \o Rest
    BY <1>6 DEF IndicateOpenError
  <2>2. /\ \A o : Has(stack', o) <=> o = "user" \/ Has(Rest, o)
        /\ OnTop(stack', "user")
    BY <1>2, <2>1, HasUser DEF Events
  <2>3. ~reopened /\ ~nonceFailed' => under' = "closed"
    BY <1>0, <1>1, <1>6 DEF ClosedFits
  <2>4. Has(stack', "respond") => Has(stack', "consume") /\ Has(stack, "respond")
    BY <1>0, <1>1, <1>2, <2>2 DEF Answering
  <2>5. Ends
    BY <1>1, <1>2, <2>1, <2>2, <2>3, <2>4 DEF Ends, OnTop
  <2>6. QED
    BY <1>2, <2>5, EndsCompleting
<1>7. CASE /\ uws_state = "OPENING_UNDERLYING_IO" /\ under = "open" /\ stack' = Rest
           /\ uws_state' = "WAITING_FOR_UPGRADE_RESPONSE" /\ UNCHANGED <<under, nonceFailed>>
  <2>2. /\ \A o : o # "opened" => (Has(stack', o) <=> Has(stack, o))
        /\ ~OnTop(stack', "opened") /\ ~OnTop(stack', "closed")
    BY <1>1, <1>2, <1>7 DEF AtOnce
  <2>5. UnderFits'
    BY <1>7, <2>2 DEF UnderFits, OnTop, UsesIo
  <2>6. Answering'
    BY <1>0, <1>1, <1>7, <2>2 DEF Answering
  <2>7. Failed'
    BY <1>0, <1>1, <1>7 DEF Failed
  <2>8. Closing'
    BY <1>0, <1>1, <1>7, <2>7 DEF Closing, Failed
  <2>9. ClosedFits'
    BY <1>0, <1>1, <1>7, <2>2 DEF ClosedFits, OnTop
  <2>10. Noticed'
    BY <1>0, <1>1, <1>7, <2>2 DEF Noticed
  <2>11. Fresh'
    BY <1>1, <1>2, FreshStays
  <2>12. QED
    BY <2>5, <2>6, <2>7, <2>8, <2>9, <2>10, <2>11 DEF Completing
<1>8. QED
  BY <1>4, <1>5, <1>6, <1>7 DEF OnUnderlyingOpenComplete

-------------------------------------------------------------------------------
(* The decoder, and an error that the client tells its user of.             *)
Bare(s) == \A o \in Ops \cup AtOnce : ~Has(s, o)

LEMMA BareTop == ASSUME NEW s, Stacked(s), Bare(s) PROVE \A o \in Ops \cup AtOnce : ~OnTop(s, o)
BY OnTopHas DEF Bare

LEMMA ErrorsCompleting ==
  ASSUME Types, Streams, Completing, Stacked(stack), Bare(stack), Stacked(stack'), Bare(stack'),
         uws_state \in {"OPEN", "CLOSING_WAITING_FOR_CLOSE"}, uws_state' = "ERROR",
         under' = under \/ (uws_state = "OPEN" /\ under' \in {"open", "failed"}), opens # 0,
         UNCHANGED <<received, pending_sends, on_ws_close_complete, reopened, opens, asked, noticed>>
  PROVE  Completing'
<1>0. UnderFits /\ Answering /\ Failed /\ Closing /\ ClosedFits /\ Noticed
  BY DEF Completing
<1>1. /\ \A o \in Ops \cup AtOnce : ~OnTop(stack, o)
      /\ \A o \in Ops \cup AtOnce : ~OnTop(stack', o)
      /\ uws_state = "CLOSING_WAITING_FOR_CLOSE" => asked = "handshake"
  BY BareTop DEF Streams, Flowing, AskedFits
<1>2. asked # "close"
  BY <1>0 DEF Failed
<1>3. UnderFits'
  BY <1>1 DEF UnderFits, UsesIo, AtOnce
<1>4. Answering'
  BY DEF Answering, Bare, Ops
<1>5. Failed'
  BY <1>0, <1>1, <1>2 DEF Failed, UnderFits, UsesIo
<1>6. Closing'
  BY <1>2 DEF Closing
<1>7. ClosedFits'
  BY <1>1 DEF ClosedFits, Bare, Ops, AtOnce
<1>8. Noticed'
  BY <1>0 DEF Noticed, Bare, Ops
<1>9. Fresh'
  BY FreshStays
<1>10. QED
  BY <1>3, <1>4, <1>5, <1>6, <1>7, <1>8, <1>9 DEF Completing

LEMMA Alone ==
  ASSUME IInv, Completing, Running, Top("decode")
  PROVE  /\ Types /\ stack # <<>> /\ Rest = <<>> /\ Bare(stack) /\ Bare(<<>>) /\ opens # 0
         /\ Stacked(stack) /\ Stacked(<<>>) /\ NoReport(<<>>) /\ fault = "none"
         /\ \A o : Has(stack, o) <=> o = "decode"
         /\ \A o \in Ops \cup AtOnce : ~OnTop(stack, o)
<1>1. /\ Types /\ stack # <<>> /\ Rest = <<>> /\ Stacked(stack) /\ opens # 0 /\ fault = "none"
      /\ \A o : Has(stack, o) <=> o = "decode"
  BY RunningFacts, UserOpsAssumption DEF Top, ClientOps
<1>2. Bare(stack) /\ Bare(<<>>)
  BY <1>1, EmptyStack DEF Bare, Ops, AtOnce, Has
<1>3. QED
  BY <1>1, <1>2, EmptyStack, BareTop

LEMMA DecodeErrorsCompleting ==
  ASSUME IInv, Streams, Completing, Running, Top("decode"), Stacked(stack'),
         DecodeBad \/ DecodeMasked \/ DecodePing
  PROVE  Completing'
<1>1. /\ Types /\ Rest = <<>> /\ Bare(stack) /\ opens # 0 /\ Stacked(stack)
  BY Alone
<1>2. /\ uws_state \in {"OPEN", "CLOSING_WAITING_FOR_CLOSE"} /\ uws_state' = "ERROR"
      /\ UNCHANGED <<under, received, pending_sends, on_ws_close_complete, reopened, opens, asked,
                     noticed>>
      /\ \/ stack' = User("error") \o (Call("masked") \o Rest) \/ stack' = User("error") \o Rest
         \/ stack' = Consume(2) \o Rest
  BY DEF DecodeBad, DecodeMasked, DecodePing, InFrames, Complete, IndicateError, history, opening,
         ioVars
<1>3. Bare(stack')
  <2>1. 2 \in Nat
    OBVIOUS
  <2>2. /\ ToSet(User("error") \o (Call("masked") \o Rest))
             = {UserFrame("error"), CallFrame("masked")}
        /\ ToSet(User("error") \o Rest) = {UserFrame("error")}
        /\ ToSet(Consume(2) \o Rest) = {Eaten(2)}
    BY <1>1, <2>1, DecoderStacks
  <2>3. \A f \in ToSet(stack') : f \in {UserFrame("error"), CallFrame("masked"), Eaten(2)}
    BY <1>2, <2>2
  <2>4. \A f \in ToSet(stack') : f.op \in {"user", "masked", "consume"}
    BY <2>3, FrameOps
  <2>5. QED
    BY <2>4 DEF Bare, Has, Ops, AtOnce
<1>4. QED
  BY <1>1, <1>2, <1>3, ErrorsCompleting

LEMMA DecodeResponseCompleting ==
  ASSUME IInv, Connects, Completing, Running, Top("decode"), Stacked(stack'),
         DecodeResponse \/ DecodeTooEarly
  PROVE  Completing'
<1>1. /\ Types /\ stack # <<>> /\ Rest = <<>> /\ Bare(stack) /\ Bare(<<>>) /\ opens # 0
      /\ Stacked(stack) /\ Stacked(<<>>) /\ NoReport(<<>>) /\ fault = "none"
      /\ \A o : Has(stack, o) <=> o = "decode"
      /\ \A o \in Ops \cup AtOnce : ~OnTop(stack, o)
  BY Alone
<1>2. UNCHANGED <<pending_sends, on_ws_close_complete, io, unsent, lost, reopened, nonceFailed,
                  opens, asked, noticed>>
  BY DEF DecodeResponse, DecodeTooEarly, opening, ioQueue
<1>0. UnderFits /\ Answering /\ Failed /\ Closing /\ ClosedFits /\ Noticed
  BY DEF Completing
<1>3. CASE stack' = Rest /\ UNCHANGED <<uws_state, received, under, inbound, answers>>
  BY <1>1, <1>2, <1>3, PopIdle DEF Settled_Vars, Ops, Top
<1>4. CASE IndicateOpenErrorAndClose(Rest) /\ UNCHANGED received
           /\ uws_state \in {"WAITING_FOR_UPGRADE_RESPONSE", "OPENING_UNDERLYING_IO"}
  <2>1. /\ uws_state = "WAITING_FOR_UPGRADE_RESPONSE" => under = "open"
        /\ uws_state = "OPENING_UNDERLYING_IO" => reopened
    <3>1. Decoding(stack)
      BY <1>1 DEF Decoding
    <3>2. QED
      BY <1>0, <1>1, <3>1 DEF UnderFits, UsesIo, Ops, IInv, Norm, AnswersFit
  <2>2. /\ \A o \in Ops \ {"openError"} : Has(Rest, o) <=> Has(stack, o)
        /\ Has(stack, "cancel") => Has(Rest, "cancel")
        /\ Has(stack, "consume") => Has(Rest, "consume")
        /\ ~OnTop(stack, "respond") /\ ~OnTop(stack, "openFails")
    BY <1>1 DEF Ops, Bare
  <2>3. /\ ~reopened => under # "opening"
        /\ uws_state \in UsesIo =>
             uws_state = "WAITING_FOR_UPGRADE_RESPONSE" /\ under # "opening"
    BY <1>4, <2>1 DEF UsesIo
  <2>4. QED
    BY <1>1, <1>2, <1>4, <2>2, <2>3, BreaksCompleting
<1>5. CASE /\ uws_state = "WAITING_FOR_UPGRADE_RESPONSE" /\ uws_state' = "OPEN"
           /\ stack' = User("open") \o Call("decode") \o Rest /\ UNCHANGED under
  <2>1. \A o : Has(stack', o) => o \in {"user", "decode"}
    <3>1. ToSet(stack') = {UserFrame("open"), CallFrame("decode")}
      BY <1>1, <1>5, DecoderStacks
    <3>2. \A f \in ToSet(stack') : f.op \in {"user", "decode"}
      BY <3>1, FrameOps
    <3>3. QED
      BY <3>2 DEF Has
  <2>2. Bare(stack') /\ \A o \in Ops \cup AtOnce : ~OnTop(stack', o)
    BY <2>1, BareTop DEF Bare, Ops, AtOnce
  <2>5. UnderFits'
    BY <1>0, <1>1, <1>5, <2>2 DEF UnderFits, UsesIo, Ops, AtOnce
  <2>6. Answering'
    BY <1>5, <2>2 DEF Answering, Bare, Ops
  <2>7. Failed'
    BY <1>0, <1>2, <1>5 DEF Failed
  <2>8. Closing'
    BY <1>0, <1>2, <1>5 DEF Closing, Failed
  <2>9. ClosedFits'
    BY <1>5, <2>2 DEF ClosedFits, Bare, Ops, AtOnce
  <2>10. Noticed'
    BY <1>0, <1>2, <1>5, <2>2 DEF Noticed, Bare, Ops
  <2>11. Fresh'
    BY <1>1, <1>2, FreshStays
  <2>12. QED
    BY <2>5, <2>6, <2>7, <2>8, <2>9, <2>10, <2>11 DEF Completing
<1>6. QED
  BY <1>3, <1>4, <1>5 DEF DecodeResponse, DecodeTooEarly

LEMMA DecodeCloseCompleting ==
  ASSUME IInv, Streams, Connects, Completing, Running, Top("decode"), Stacked(stack'), DecodeClose
  PROVE  Completing'
<1> DEFINE t == User("peerClosed") \o Consume(2) \o Rest
           r == Call("respond") \o t
<1>1. /\ Types /\ stack # <<>> /\ Rest = <<>> /\ Bare(stack) /\ Bare(<<>>) /\ opens # 0
      /\ Stacked(stack) /\ Stacked(<<>>) /\ NoReport(<<>>) /\ fault = "none"
      /\ \A o : Has(stack, o) <=> o = "decode"
      /\ \A o \in Ops \cup AtOnce : ~OnTop(stack, o)
  BY Alone
<1>2. UNCHANGED <<received, pending_sends, on_ws_close_complete, io, unsent, lost, reopened,
                  nonceFailed, opens, asked>>
  BY DEF DecodeClose, opening, ioQueue
<1>0. UnderFits /\ Answering /\ Failed /\ Closing /\ ClosedFits /\ Noticed
  BY DEF Completing
<1>3. /\ Stacked(t) /\ NoReport(t) /\ Stacked(r) /\ NoReport(r)
      /\ \A o : Has(t, o) <=> o = "user" \/ o = "consume"
      /\ \A o : Has(r, o) <=> o = "respond" \/ Has(t, o)
      /\ OnTop(r, "respond") /\ Tail(r) = t
  <2>1. /\ Pushed(Consume(2), Eaten(2), <<>>) /\ NoReport(Consume(2)) /\ Stacked(Consume(2))
    BY DecoderPuts DEF Eaten, Pushed
  <2>2. \A o : Has(Consume(2), o) <=> o = "consume"
    <3>1. ToSet(Consume(2)) = {Eaten(2)}
      BY <2>1, EmptyStack DEF Pushed
    <3>2. QED
      BY <3>1, FrameOps DEF Has
  <2>3. t = User("peerClosed") \o Consume(2)
    BY <1>1 DEF User, Consume, Frame
  <2>4. /\ \A o : Has(t, o) <=> o = "user" \/ Has(Consume(2), o)
    BY <2>1, <2>3, HasUser DEF Events
  <2>5. Stacked(t) /\ NoReport(t)
    BY <2>1, <2>3, PutUser DEF Events, Pushed
  <2> HIDE DEF t
  <2>6. QED
    BY <2>2, <2>4, <2>5, HasCall DEF Anywhere, AllOps, ClientOps, AtOnce
<1> HIDE DEF t, r
<1>4. CASE CloseUnderlying(t) /\ UNCHANGED noticed /\ Complete("badReason")
  <2>1. /\ uws_state \in {"OPEN", "CLOSING_WAITING_FOR_CLOSE"}
        /\ uws_state = "OPEN" => under = "open"
        /\ uws_state = "CLOSING_WAITING_FOR_CLOSE" => asked = "handshake"
    BY <1>0, <1>4
       DEF Complete, InFrames, UnderFits, UsesIo, Streams, Flowing, AskedFits
  <2>2. CASE XioClose(TRUE).ok
    <3>1. ClosesUnder(t)
      BY <1>4, <2>2, ClosesSplit
    <3>2. Unanswered(t)
      BY <1>0, <1>1, <1>3, <2>1 DEF Unanswered, Ops, Noticed
    <3>3. QED
      BY <1>1, <1>2, <1>3, <3>1, <3>2, ClosesUnderCompleting
  <2>3. CASE ~XioClose(TRUE).ok
    <3>1. under = "closed" /\ under' = "closed"
      BY <1>1, <1>3, <1>4, <2>3, RefusedClose, ClosesSplit
    <3>2. IndicateError(Call("toClosed") \o t)
      BY <1>4, <2>3 DEF CloseUnderlying
    <3>3. QED
      BY <1>1, <1>2, <1>3, <1>4, <2>1, <3>1, <3>2, RefusedCompleting
  <2>4. QED
    BY <2>2, <2>3
<1>5. CASE CloseUnderlyingOrIndicate(r, Call("toClosed"))
           /\ uws_state = "CLOSING_WAITING_FOR_CLOSE"
  <2>1. asked = "handshake"
    BY <1>5 DEF Streams, Flowing, AskedFits
  <2>2. CASE XioClose(TRUE).ok
    <3>1. ClosesUnder(r)
      BY <1>5, <2>2, ClosesSplit
    <3>2. Unanswered(r)
      BY <1>0, <1>1, <1>3, <2>1 DEF Unanswered, Ops, Noticed
    <3>3. QED
      BY <1>1, <1>2, <1>3, <3>1, <3>2, ClosesUnderCompleting
  <2>3. CASE ~XioClose(TRUE).ok
    <3>1. under = "closed" /\ under' = "closed"
      BY <1>1, <1>3, <1>5, <2>3, RefusedClose, ClosesSplit
    <3> DEFINE s == Call("toClosed") \o r
    <3>2. /\ uws_state' = "CLOSED"
          /\ noticed' = noticed + (IF on_ws_close_complete THEN 1 ELSE 0)
          /\ stack' = User("closed") \o s \/ stack' = <<>> \o s
      BY <1>5, <2>3 DEF CloseUnderlyingOrIndicate, IndicateClosed
    <3>3. /\ \A o : Has(s, o) <=> o = "toClosed" \/ Has(r, o)
          /\ Stacked(s) /\ NoReport(s) /\ OnTop(s, "toClosed")
      BY <1>3, HasCall DEF Anywhere, AllOps, ClientOps, AtOnce
    <3>4. <<>> \o s = s
      BY <3>3, EmptyStack, Appended DEF Stacked
    <3> HIDE DEF s
    <3>5. /\ \A o : Has(s, o) => Has(stack', o)
          /\ ~OnTop(stack', "opened")
      <4>1. CASE stack' = s
        BY <3>3, <4>1 DEF OnTop
      <4>2. CASE stack' = User("closed") \o s
        <5>1. /\ \A o : Has(stack', o) <=> o = "user" \/ Has(s, o)
              /\ OnTop(stack', "user")
          BY <3>3, <4>2, HasUser DEF Events
        <5>2. QED
          BY <5>1 DEF OnTop
      <4>3. QED
        BY <3>2, <3>4, <4>1, <4>2
    <3>6. Has(stack', "consume")
      BY <1>3, <3>3, <3>5
    <3>7. Ends
      BY <1>1, <1>2, <1>5, <2>1, <3>1, <3>2, <3>5, <3>6 DEF Ends, Ops
    <3>8. QED
      BY <1>1, <3>7, EndsCompleting
  <2>4. QED
    BY <2>2, <2>3
<1>6. CASE /\ uws_state = "OPEN" /\ uws_state' = "CLOSING_SENDING_CLOSE" /\ stack' = r
           /\ UNCHANGED <<under, inbound, noticed>>
  <2>2. /\ OnTop(stack', "respond") /\ ~OnTop(stack', "opened") /\ ~OnTop(stack', "closed")
        /\ \A o : Has(stack', o) <=> o \in {"respond", "user", "consume"}
        /\ ~Has(Rest', "respond")
    BY <1>3, <1>6 DEF OnTop, Rest
  <2>5. UnderFits'
    BY <1>0, <1>1, <1>6, <2>2 DEF UnderFits, UsesIo, Ops, AtOnce
  <2>6. Answering'
    BY <1>6, <2>2 DEF Answering
  <2>7. Failed'
    BY <1>0, <1>2, <1>6 DEF Failed
  <2>8. Closing'
    BY <1>0, <1>2, <1>6 DEF Closing, Failed
  <2>9. ClosedFits'
    BY <1>6, <2>2 DEF ClosedFits
  <2>10. Noticed'
    BY <1>0, <1>2, <1>6, <2>2 DEF Noticed
  <2>11. Fresh'
    BY <1>1, <1>2, FreshStays
  <2>12. QED
    BY <2>5, <2>6, <2>7, <2>8, <2>9, <2>10, <2>11 DEF Completing
<1>7. QED
  BY <1>4, <1>5, <1>6 DEF DecodeClose, t, r

-------------------------------------------------------------------------------
(* The calls.                                                               *)
LEMMA CallingOps ==
  ASSUME IInv, Calling
  PROVE  /\ Types /\ Stacked(stack) /\ NoReport(stack) /\ Alive /\ fault = "none"
         /\ \A o \in Ops \cup AtOnce : ~OnTop(stack, o)
         /\ \A t : Resumes(t) =>
              /\ Stacked(t) /\ NoReport(t)
              /\ \A o \in ClientOps : Has(t, o) <=> Has(stack, o)
              /\ \A o : Has(t, o) => Has(stack, o) \/ o \in UserOps
<1>1. Types /\ Stacked(stack) /\ NoReport(stack) /\ Alive /\ fault = "none"
  BY CallingFacts DEF Alive
<1>2. \A o \in Ops \cup AtOnce : ~OnTop(stack, o)
  BY UserOpsAssumption DEF Calling, OnTop, ClientOps, Ops, AtOnce
<1>3. ASSUME NEW t, Resumes(t)
      PROVE  /\ Stacked(t) /\ NoReport(t)
             /\ \A o \in ClientOps : Has(t, o) <=> Has(stack, o)
             /\ \A o : Has(t, o) => Has(stack, o) \/ o \in UserOps
  BY <1>3, UserOpsAssumption DEF Resumes, Has
<1>4. QED
  BY <1>1, <1>2, <1>3

(* uws_client_close_async puts its reports on b.                            *)
LEMMA CloseWithCompleting ==
  ASSUME IInv, Connects, Completing, Calling, NEW callback \in BOOLEAN,
         NEW then, Stacked(then), NoReport(then), NEW failed, Stacked(failed), NoReport(failed),
         \A o \in Ops \cup {"consume"} :
           (Has(then, o) <=> Has(stack, o)) /\ (Has(failed, o) <=> Has(stack, o)),
         CloseWith(callback, then, failed)
  PROVE  Completing'
<1> DEFINE x == XioClose(callback)
           t == Call("cancel") \o then
           b == IF x.ok THEN t ELSE failed
<1>0. UnderFits /\ Answering /\ Failed /\ Closing /\ ClosedFits /\ Noticed /\ Fresh
  BY DEF Completing
<1>1. /\ uws_state \in {"OPEN", "ERROR", "OPENING_UNDERLYING_IO", "WAITING_FOR_UPGRADE_RESPONSE"}
      /\ on_ws_close_complete' = callback /\ uws_state' = "CLOSING_UNDERLYING_IO"
      /\ under' = x.under /\ stack' = x.calls \o b
      /\ asked' = IF asked = "handshake" THEN asked ELSE "close"
      /\ UNCHANGED <<received, pending_sends, io, reopened, nonceFailed, opens, noticed>>
  BY DEF CloseWith, Goes, ioQueue, opening
<1>2. /\ Types /\ \A o \in Ops \cup AtOnce : ~OnTop(stack, o)
  BY CallingOps
<1>3. /\ Stacked(t) /\ NoReport(t)
      /\ \A o : Has(t, o) <=> o = "cancel" \/ Has(then, o)
  BY HasCall DEF Anywhere, AllOps, ClientOps, AtOnce
<1> HIDE DEF t, x
<1>4. /\ Stacked(b) /\ NoReport(b)
      /\ \A o \in Ops \cup {"consume"} : Has(b, o) <=> Has(stack, o)
      /\ x.ok => Has(b, "cancel")
  BY <1>3 DEF Ops
<1> HIDE DEF b
<1>5. ClosedOver(stack', b, callback, x)
  BY <1>1, <1>2, <1>4, ClosesOver DEF x
<1>6. /\ \A o \in Ops \cup {"consume"} : Has(stack', o) <=> Has(stack, o)
      /\ x.ok => Has(stack', "cancel")
      /\ OnTop(stack', "closed") => under' = "closed"
      /\ under = "closed" => under' = "closed"
      /\ callback /\ io # "tls" /\ x.ok => OnTop(stack', "closed") \/ OnTop(stack', "opened")
      /\ ~x.ok => under = "closed"
  <2>1. ~OnTop(b, "closed")
    BY <1>4, OnTopHas DEF NoReport, AtOnce, Has
  <2>2. QED
    BY <1>1, <1>4, <1>5, <2>1 DEF ClosedOver, OnTop, Ops
<1>7. UnderFits'
  BY <1>1 DEF UnderFits, UsesIo
<1>8. Answering'
  BY <1>0, <1>1, <1>6 DEF Answering, Ops
<1>9. Failed'
  BY <1>1 DEF Failed
<1>10. Closing'
  <2>1. ~x.ok => asked = "handshake" \/ (Has(stack, "toClosed") /\ Doomed)
    BY <1>0, <1>1, <1>2, <1>6 DEF UnderFits, UsesIo, Failed, Ops, AtOnce
  <2>2. QED
    BY <1>1, <1>6, <2>1 DEF Closing, Doomed, Ops
<1>11. ClosedFits'
  BY <1>0, <1>1, <1>6 DEF ClosedFits, Ops
<1>12. Noticed'
  BY <1>0, <1>1, <1>6 DEF Noticed, Ops
<1>13. Fresh'
  BY <1>0, <1>1, FreshOps, FreshStays
<1>14. QED
  BY <1>7, <1>8, <1>9, <1>10, <1>11, <1>12, <1>13 DEF Completing

LEMMA CloseCallCompleting ==
  ASSUME IInv, Connects, Completing, Calling, NEW callback \in BOOLEAN, NEW then, Resumes(then),
         NEW failed, Resumes(failed), CloseWith(callback, then, failed)
  PROVE  Completing'
<1>1. \A o \in Ops \cup {"consume"} : o \in ClientOps
  BY DEF Ops, ClientOps
<1>2. QED
  BY <1>1, CallingOps, CloseWithCompleting

LEMMA DestroyCallCompleting ==
  ASSUME IInv, Connects, Completing, Calling, OnlyCallers, DestroyClient
  PROVE  Completing'
<1> DEFINE d == Call("destroyed")
<1>1. Types /\ Stacked(stack) /\ \A o \in Ops \cup AtOnce : ~OnTop(stack, o)
  BY CallingOps
<1>2. Stacked(d) /\ NoReport(d) /\ \A o : Has(d, o) <=> o = "destroyed"
  <2> DEFINE e == d \o <<>>
  <2>1. /\ Stacked(e) /\ NoReport(e)
        /\ \A o : Has(e, o) <=> o = "destroyed" \/ Has(<<>>, o)
    BY EmptyStack, HasCall DEF Anywhere, AllOps, ClientOps, AtOnce
  <2>2. e = d
    BY DEF Call, Frame
  <2>3. \A o : ~Has(<<>>, o)
    BY EmptyStack DEF Has
  <2> HIDE DEF d, e
  <2>4. QED
    BY <2>1, <2>2, <2>3
<1> HIDE DEF d
<1>3. \A o \in ClientOps : ~Has(stack, o)
  BY UserOpsAssumption DEF OnlyCallers, Has
<1>4. CASE CloseWith(FALSE, d, d)
  <2>1. \A o \in Ops \cup {"consume"} : Has(d, o) <=> Has(stack, o)
    BY <1>2, <1>3 DEF Ops, ClientOps
  <2>2. QED
    BY <1>2, <1>4, <2>1, CloseWithCompleting
<1>5. CASE stack' = d /\ UNCHANGED <<clientVars, fault, ioVars, history>>
  <2>1. UNCHANGED <<Settled_Vars, unsent, lost, pending_sends>>
    BY <1>5 DEF Settled_Vars, clientVars, ioVars, ioQueue, history, opening
  <2>2. Keeps(stack') /\ ~Has(stack, "cancel")
    BY <1>2, <1>3, <1>5 DEF Keeps, Ops, ClientOps
  <2>3. ~OnTop(stack', "opened") /\ ~OnTop(stack', "closed")
    BY <1>2, <1>5, OnTopHas
  <2>4. Idle
    BY <1>1, <1>2, <1>5, <2>1, <2>2, <2>3 DEF Idle, Ops, AtOnce
  <2>5. QED
    BY <2>4, IdleCompleting
<1>6. QED
  BY <1>4, <1>5 DEF DestroyClient, d

LEMMA CloseHandshakeCompleting ==
  ASSUME IInv, Completing, CloseHandshakeAsync PROVE Completing'
<1>1. /\ uws_state \in {"OPEN", "ERROR", "OPENING_UNDERLYING_IO", "WAITING_FOR_UPGRADE_RESPONSE"}
      /\ uws_state' = "CLOSING_WAITING_FOR_CLOSE" /\ asked' = "handshake"
      /\ stack' = Call("cancel") \o stack \/ stack' = stack
      /\ UNCHANGED <<under, received, reopened, nonceFailed, opens, noticed>>
  BY DEF CloseHandshakeAsync, opening, ioVars
<1>2. /\ Types /\ NoReport(stack) /\ Stacked(stack) /\ \A o \in Ops \cup AtOnce : ~OnTop(stack, o)
  BY InUserFacts, CallingOps DEF CloseHandshakeAsync
<1>3. /\ \A o : o # "cancel" => (Has(stack', o) <=> Has(stack, o))
      /\ ~OnTop(stack', "opened") /\ ~OnTop(stack', "closed")
  <2>1. CASE stack' = Call("cancel") \o stack
    <3>1. /\ \A o : Has(stack', o) <=> o = "cancel" \/ Has(stack, o)
          /\ OnTop(stack', "cancel")
      BY <1>2, <2>1, HasCall DEF Anywhere, AllOps, ClientOps, AtOnce
    <3>2. QED
      BY <3>1 DEF OnTop
  <2>2. QED
    BY <1>1, <1>2, <2>1 DEF AtOnce
<1>4. UnderFits' /\ Failed' /\ Closing'
  BY <1>1, <1>3 DEF UnderFits, UsesIo, Failed, Closing
<1>5. Answering'
  BY <1>1, <1>3 DEF Answering, Completing
<1>6. ClosedFits'
  BY <1>1, <1>3 DEF ClosedFits, Completing
<1>7. Noticed'
  BY <1>1 DEF Noticed
<1>8. Fresh'
  BY <1>1, FreshStays, FreshOps DEF Completing
<1>9. QED
  BY <1>4, <1>5, <1>6, <1>7, <1>8 DEF Completing

LEMMA SendCallCompleting ==
  ASSUME IInv, Completing, Calling, NEW sent, Resumes(sent), NEW failed, Resumes(failed),
         SendFrameWith(sent, failed), Stacked(stack')
  PROVE  Completing'
<1> DEFINE s == sends + 1
           t == Frame("sendFails", "none", s) \o failed
<1>1. /\ Types /\ \A o \in Ops \cup AtOnce : ~OnTop(stack, o)
      /\ Stacked(sent) /\ NoReport(sent) /\ Stacked(failed) /\ NoReport(failed)
      /\ \A o \in ClientOps : Has(sent, o) <=> Has(stack, o)
      /\ \A o \in ClientOps : Has(failed, o) <=> Has(stack, o)
  BY CallingOps
<1>2. s \in 0 .. Sends /\ s \in Nat
  BY <1>1, UwsAssumption DEF SendFrameWith, Types
<1>3. PICK o \in XioSend(s, Sent(s)) : stack' = o.calls \o (IF o.ok THEN sent ELSE t)
  BY DEF SendFrameWith
<1>4. o.calls \in {<<>>, Sent(s)}
  BY <1>1, <1>2, XioSends
<1> DEFINE f == [op |-> "sendFails", ev |-> "none", n |-> s]
           g == [op |-> "sent", ev |-> "none", n |-> s]
           b == IF o.ok THEN sent ELSE t
<1>5. Pushed(t, f, failed) /\ f.op = "sendFails"
  BY <1>1, <1>2, Put DEF Anywhere, AllOps, ClientOps, Evs
<1> HIDE DEF s, t, f
<1>6. /\ Stacked(t) /\ NoReport(t)
      /\ \A p : Has(t, p) <=> p = "sendFails" \/ Has(failed, p)
  BY <1>5, HasPush DEF AtOnce
<1>7. /\ Stacked(b) /\ NoReport(b)
      /\ \A p \in ClientOps : p # "sendFails" => (Has(b, p) <=> Has(stack, p))
  BY <1>1, <1>6
<1> HIDE DEF b
<1>8. \A p \in ClientOps : p \notin {"sendFails", "sent"} => (Has(stack', p) <=> Has(stack, p))
  <2>1. CASE o.calls = <<>>
    <3>1. stack' = b
      BY <1>3, <1>7, <2>1, EmptyStack, Appended DEF b, Stacked
    <3>2. QED
      BY <1>7, <3>1
  <2>2. CASE o.calls = Sent(s)
    <3>1. Pushed(stack', g, b) /\ g.op = "sent"
      BY <1>2, <1>3, <1>7, <2>2, Put DEF Sent, Anywhere, AllOps, ClientOps, Evs, b
    <3> HIDE DEF g
    <3>2. \A p : Has(stack', p) <=> p = g.op \/ Has(b, p)
      BY <3>1, HasPush
    <3>3. QED
      BY <1>7, <3>1, <3>2
  <2>3. QED
    BY <1>4, <2>1, <2>2
<1>9. ~Has(stack, "opened") /\ ~Has(stack, "closed")
  BY CallingOps DEF NoReport, AtOnce, Has
<1>10. /\ UNCHANGED Settled_Vars /\ uws_state = "OPEN"
  BY DEF SendFrameWith, Settled_Vars, opening
<1>11. asked # "close" /\ opens # 0
  BY <1>10 DEF Completing, Failed, Fresh
<1>12. Keeps(stack') /\ ~OnTop(stack', "opened") /\ ~OnTop(stack', "closed")
  <2>1. ~Has(stack', "opened") /\ ~Has(stack', "closed")
    BY <1>8, <1>9 DEF ClientOps
  <2>2. Keeps(stack')
    BY <1>8 DEF Keeps, Ops, ClientOps
  <2>3. QED
    BY <2>1, <2>2, OnTopHas
<1>13. Idle
  BY <1>1, <1>10, <1>11, <1>12 DEF Idle, Ops, AtOnce
<1>14. QED
  BY <1>13, IdleCompleting

(* A caller goes on by himself.                                             *)
LEMMA CallerStepCompleting == ASSUME IInv, Completing, CallerStep PROVE Completing'
<1>1. /\ Types /\ NoReport(stack) /\ Stacked(stack') /\ \A o \in Ops \cup AtOnce : ~OnTop(stack, o)
  BY CallingOps DEF CallerStep
<1>2. \A o : o \notin UserOps => (Has(stack', o) <=> Has(stack, o))
  <2>1. \A f : f \in Others(stack') <=> f \in Others(stack)
    BY DEF CallerStep
  <2>2. QED
    BY <2>1 DEF Others, Has
<1>3. \A o \in ClientOps : Has(stack', o) <=> Has(stack, o)
  BY <1>2, UserOpsAssumption
<1>4. ~OnTop(stack', "opened") /\ ~OnTop(stack', "closed")
  <2>1. ~Has(stack, "opened") /\ ~Has(stack, "closed")
    BY <1>1 DEF NoReport, AtOnce, Has
  <2>2. QED
    BY <1>1, <1>3, <2>1, OnTopHas DEF ClientOps
<1>5. Keeps(stack') /\ (Has(stack, "cancel") => Has(stack', "cancel"))
  BY <1>3 DEF Keeps, Ops, ClientOps
<1>6. UNCHANGED <<Settled_Vars, unsent, lost, pending_sends>>
  BY DEF CallerStep, Settled_Vars, clientVars, ioVars, ioQueue, history, opening
<1>7. opens # 0 \/ \A o : Has(stack', o) => o \in UserOps \cup {"destroyed"}
  BY <1>2, FreshOps DEF Completing
<1>8. Idle
  BY <1>1, <1>4, <1>5, <1>6, <1>7 DEF Idle, Ops, AtOnce
<1>9. QED
  BY <1>8, IdleCompleting

LEMMA OpenOutcomes ==
  ASSUME Types, Connects, NEW o \in XioOpen
  PROVE  /\ o.calls \in {<<>>, Opened("OK"), Opened("ERROR")}
         /\ o.ok => o.under = "opening" \/ (o.under = "open" /\ o.calls = Opened("OK"))
         /\ ~o.ok => o.under = under /\ o.calls # Opened("OK")
         /\ o.ok => o.calls # Opened("ERROR")
<1> DEFINE e == Opened("ERROR")
           k == Opened("OK")
<1>1. e # k /\ <<>> # k /\ <<>> # e
  BY DEF Opened, Frame
<1> HIDE DEF e, k
<1>2. \/ o = Outcome(FALSE, under, e) \/ o = Outcome(FALSE, under, <<>>)
      \/ o = Outcome(TRUE, "open", k) \/ o = Outcome(TRUE, "opening", <<>>)
  BY DEF XioOpen, e, k
<1>3. CASE o = Outcome(FALSE, under, e)
  BY <1>1, <1>3 DEF Outcome, e, k
<1>4. CASE o = Outcome(FALSE, under, <<>>)
  BY <1>1, <1>4 DEF Outcome, e, k
<1>5. CASE o = Outcome(TRUE, "open", k)
  BY <1>1, <1>5 DEF Outcome, e, k
<1>6. CASE o = Outcome(TRUE, "opening", <<>>)
  <2>1. o.ok /\ o.under = "opening" /\ o.calls = <<>>
    BY <1>6 DEF Outcome
  <2>2. <<>> # Opened("ERROR")
    BY <1>1 DEF e
  <2>3. QED
    BY <2>1, <2>2
<1>7. QED
  BY <1>2, <1>3, <1>4, <1>5, <1>6

LEMMA OpenCallCompleting ==
  ASSUME IInv, Connects, Completing, Calling, NEW succeeded, Resumes(succeeded),
         NEW failed, Resumes(failed), OpenWith(succeeded, failed)
  PROVE  Completing'
<1> DEFINE t == Call("openFails") \o failed
<1>0. UnderFits /\ Answering /\ Failed /\ Closing /\ ClosedFits /\ Noticed /\ Fresh
  BY DEF Completing
<1>1. /\ Types /\ Stacked(succeeded) /\ NoReport(succeeded) /\ Stacked(failed) /\ NoReport(failed)
      /\ \A o \in ClientOps : Has(succeeded, o) <=> Has(stack, o)
      /\ \A o \in ClientOps : Has(failed, o) <=> Has(stack, o)
  BY CallingOps
<1>2. /\ uws_state = "CLOSED" /\ uws_state' = "OPENING_UNDERLYING_IO"
      /\ opens' = opens + 1 /\ reopened' = (reopened \/ stack # <<>>)
      /\ asked' = "no" /\ noticed' = 0 /\ received' = <<>>
      /\ UNCHANGED <<on_ws_close_complete, nonceFailed>>
  BY DEF OpenWith
<1>3. PICK o \in XioOpen :
        /\ under' = o.under
        /\ stack' = o.calls \o (IF o.ok THEN succeeded ELSE t)
  BY DEF OpenWith
<1> DEFINE b == IF o.ok THEN succeeded ELSE t
<1>4. /\ Stacked(t) /\ NoReport(t) /\ OnTop(t, "openFails")
      /\ \A p : Has(t, p) <=> p = "openFails" \/ Has(failed, p)
  BY <1>1, HasCall DEF Anywhere, AllOps, ClientOps, AtOnce
<1> HIDE DEF t
<1>5. /\ Stacked(b) /\ NoReport(b)
      /\ \A p \in ClientOps : p # "openFails" => (Has(b, p) <=> Has(stack, p))
      /\ o.ok => (Has(b, "openFails") <=> Has(stack, "openFails"))
      /\ ~o.ok => OnTop(b, "openFails")
  BY <1>1, <1>4 DEF ClientOps
<1> HIDE DEF b
<1>6. /\ o.calls \in {<<>>, Opened("OK"), Opened("ERROR")}
      /\ o.ok => o.under = "opening" \/ (o.under = "open" /\ o.calls = Opened("OK"))
      /\ ~o.ok => o.under = under /\ o.calls # Opened("OK")
      /\ o.ok => o.calls # Opened("ERROR")
  BY <1>1, OpenOutcomes
<1>7. /\ \A p \in ClientOps \ {"opened", "openFails"} : Has(stack', p) <=> Has(stack, p)
      /\ o.ok => (Has(stack', "openFails") <=> Has(stack, "openFails"))
      /\ ~o.ok => OnTop(stack', "openFails") \/ OnTop(stack', "opened")
      /\ o.ok /\ o.under = "open" => OnTop(stack', "opened")
      /\ OnTop(stack', "opened") => stack'[1].ev = "OK" \/ ~o.ok
      /\ ~OnTop(stack', "closed")
  <2>1. CASE o.calls = <<>>
    <3>1. stack' = b
      BY <1>3, <1>5, <2>1, EmptyStack, Appended DEF b, Stacked
    <3>2. ~OnTop(b, "opened") /\ ~OnTop(b, "closed")
      BY <1>5, OnTopHas DEF NoReport, AtOnce, Has
    <3>3. o.calls # Opened("OK")
      BY <2>1 DEF Opened, Frame
    <3>4. QED
      BY <1>5, <1>6, <3>1, <3>2, <3>3
  <2>2. ASSUME NEW r \in {"OK", "ERROR"}, o.calls = Opened(r)
        PROVE  /\ Has(stack', "opened") /\ stack' # <<>> /\ stack'[1].op = "opened"
               /\ stack'[1].ev = r
               /\ \A p : Has(stack', p) <=> p = "opened" \/ Has(b, p)
    <3> DEFINE f == [op |-> "opened", ev |-> r, n |-> 0]
    <3>1. Pushed(stack', f, b) /\ f.op = "opened" /\ f.ev = r
      BY <1>3, <1>5, <2>2, Put DEF Opened, Anywhere, AllOps, ClientOps, Evs, b
    <3> HIDE DEF f
    <3>2. /\ stack' # <<>> /\ stack'[1] = f
          /\ \A p : Has(stack', p) <=> p = f.op \/ Has(b, p)
      BY <3>1, HasPush
    <3>3. QED
      BY <3>1, <3>2
  <2>3. CASE o.calls = Opened("OK")
    BY <1>5, <1>6, <2>2, <2>3 DEF OnTop, ClientOps
  <2>4. CASE o.calls = Opened("ERROR")
    <3>1. o.calls # Opened("OK")
      BY <2>4 DEF Opened, Frame
    <3>2. QED
      BY <1>5, <1>6, <2>2, <2>4, <3>1 DEF ClientOps, OnTop
  <2>5. QED
    BY <1>6, <2>1, <2>3, <2>4
<1>8. UnderFits'
  BY <1>2, <1>3, <1>6, <1>7 DEF UnderFits, UsesIo
<1>9. Answering'
  BY <1>0, <1>2, <1>7 DEF Answering, ClientOps
<1>10. Failed' /\ Closing'
  BY <1>2 DEF Failed, Closing
<1>11. stack = <<>> => \A p : ~Has(stack, p)
  BY EmptyStack DEF Has
<1>12. ClosedFits'
  <2>1. SUFFICES ASSUME ~reopened', ~nonceFailed' PROVE ClosedFits'
    BY DEF ClosedFits
  <2>2. under = "closed" /\ \A p : ~Has(stack, p)
    BY <1>0, <1>2, <1>11, <2>1 DEF ClosedFits
  <2>3. QED
    BY <1>2, <1>3, <1>6, <1>7, <2>2 DEF ClosedFits, ClientOps
<1>13. Noticed'
  <2>1. ~reopened' => ~Has(stack', "respond")
    BY <1>2, <1>7, <1>11 DEF ClientOps
  <2>2. opens' < 2 => ~on_ws_close_complete'
    <3>1. opens \in Nat
      BY <1>1, UwsAssumption DEF Types
    <3>2. QED
      BY <1>0, <1>2, <3>1 DEF Fresh
  <2>3. QED
    BY <1>2, <2>1, <2>2 DEF Noticed
<1>14. Fresh'
  BY <1>1, <1>2, FreshStays DEF Types
<1>15. QED
  BY <1>8, <1>9, <1>10, <1>12, <1>13, <1>14 DEF Completing

-------------------------------------------------------------------------------
(* What the io reports.                                                     *)
LEMMA IoReports ==
  ASSUME IInv, Completing, DoWork
  PROVE  /\ Types /\ Stacked(stack) /\ stack = <<>> /\ Bare(stack) /\ opens # 0
         /\ Stacked(<<>>) /\ NoReport(<<>>) /\ fault = "none"
         /\ \A o : ~Has(stack, o) /\ ~OnTop(stack, o)
         /\ UnderFits /\ Answering /\ Failed /\ Closing /\ ClosedFits /\ Noticed
<1>1. \A o : ~Has(stack, o)
  BY EmptyStack DEF DoWork, Has
<1>2. QED
  BY <1>1, EmptyStack DEF IInv, DoWork, Alive, Completing, Fresh, Bare, OnTop

LEMMA HasOne ==
  ASSUME NEW o \in Anywhere, NEW ev \in Evs, NEW n \in Nat, o # "sendFails"
  PROVE  LET t == Frame(o, ev, n) IN
         /\ Stacked(t) /\ OnTop(t, o) /\ \A p : Has(t, p) <=> p = o
         /\ \A p : OnTop(t, p) <=> p = o
<1>1. LET t == Frame(o, ev, n) IN
      /\ Stacked(t) /\ OnTop(t, o) /\ \A f \in ToSet(t) : f.op = o
  BY PutAlone
<1>2. QED
  BY <1>1, TopIn DEF OnTop, Has

LEMMA OpensCompleting ==
  ASSUME IInv, Completing, UnderlyingOpens PROVE Completing'
<1>1. /\ Types /\ opens # 0 /\ \A o : ~Has(stack, o) /\ ~OnTop(stack, o)
      /\ UnderFits /\ Answering /\ Failed /\ Closing /\ ClosedFits /\ Noticed
  BY IoReports DEF UnderlyingOpens
<1>2. /\ under = "opening" /\ uws_state # "CLOSED"
      /\ UNCHANGED <<uws_state, received, on_ws_close_complete, nonceFailed, reopened, opens, asked,
                     noticed, pending_sends, io, unsent, lost>>
      /\ \/ under' = "open" /\ stack' = Frame("opened", "OK", 0)
         \/ under' = "closed" /\ stack' = Frame("opened", "ERROR", 0)
  BY DEF UnderlyingOpens, DoWork, Goes, Opened, clientVars, ioQueue, history, opening
<1>3. /\ \A p : Has(stack', p) <=> p = "opened"
      /\ \A p : OnTop(stack', p) <=> p = "opened"
      /\ stack'[1].ev = "OK" \/ under' = "closed"
  <2>1. ASSUME NEW r \in {"OK", "ERROR"}, stack' = Frame("opened", r, 0)
        PROVE  /\ \A p : Has(stack', p) <=> p = "opened"
               /\ \A p : OnTop(stack', p) <=> p = "opened"
    BY <2>1, HasOne DEF Anywhere, AllOps, ClientOps, Evs
  <2>2. Frame("opened", "OK", 0)[1].ev = "OK"
    BY DEF Frame
  <2>3. QED
    BY <1>2, <2>1, <2>2
<1>4. UnderFits'
  BY <1>1, <1>2, <1>3 DEF UnderFits, UsesIo, Failed
<1>5. Answering'
  BY <1>1, <1>2, <1>3 DEF Answering, UnderFits, UsesIo
<1>6. Failed'
  BY <1>1, <1>2, <1>3 DEF Failed
<1>7. Closing'
  BY <1>1, <1>2, <1>3 DEF Closing, Doomed
<1>8. ClosedFits'
  BY <1>1, <1>2, <1>3 DEF ClosedFits
<1>9. Noticed'
  BY <1>1, <1>2, <1>3 DEF Noticed
<1>10. Fresh'
  BY <1>1, <1>2, FreshStays
<1>11. QED
  BY <1>4, <1>5, <1>6, <1>7, <1>8, <1>9, <1>10 DEF Completing

LEMMA InTail ==
  ASSUME NEW E, NEW q \in Seq(E), q # <<>>, NEW x \in ToSet(q), x # Head(q)
  PROVE  x \in ToSet(Tail(q))
<1> DEFINE r == Tail(q)
<1>1. /\ Len(q) \in Nat /\ Len(q) # 0 /\ DOMAIN q = 1 .. Len(q) /\ Head(q) = q[1]
      /\ DOMAIN r = 1 .. Len(q) - 1 /\ \A i \in 1 .. Len(q) - 1 : r[i] = q[i + 1]
  <2>1. Len(q) # 0
    BY EmptySeq
  <2>2. r \in Seq(E) /\ Len(r) = Len(q) - 1 /\ \A i \in 1 .. Len(r) : r[i] = q[i + 1]
    BY <2>1, HeadTailProperties
  <2>3. QED
    BY <2>1, <2>2
<1> HIDE DEF r
<1>2. PICK i \in 1 .. Len(q) : x = q[i]
  BY <1>1 DEF ToSet
<1>3. i - 1 \in DOMAIN r /\ r[i - 1] = x
  BY <1>1, <1>2
<1>4. QED
  BY <1>3 DEF ToSet, r

LEMMA SendsCompleting ==
  ASSUME IInv, Completing, UnderlyingSends PROVE Completing'
<1>1. /\ Types /\ opens # 0 /\ \A o : ~Has(stack, o) /\ ~OnTop(stack, o)
      /\ UnderFits /\ Answering /\ Failed /\ Closing /\ ClosedFits /\ Noticed
  BY IoReports DEF UnderlyingSends
<1>2. /\ unsent # <<>> /\ unsent' = Tail(unsent)
      /\ UNCHANGED <<uws_state, received, on_ws_close_complete, nonceFailed, reopened, opens, asked,
                     noticed, pending_sends, io, under, lost>>
      /\ \/ Head(unsent) = CloseFrame /\ stack' = Frame("closeSent", "none", 0)
         \/ Head(unsent) # CloseFrame /\ stack' = Frame("sent", "none", Head(unsent))
  BY DEF UnderlyingSends, Call, Sent, clientVars, history, opening
<1>3. /\ Head(unsent) \in Nat /\ (Head(unsent) # CloseFrame /\ CloseFrame \in ToSet(unsent) =>
                                    CloseFrame \in ToSet(unsent'))
  <2> DEFINE E == 0 .. Sends
  <2>1. unsent \in Seq(E)
    BY <1>1 DEF Types
  <2>2. E \subseteq Nat
    BY UwsAssumption
  <2> HIDE DEF E
  <2>3. Head(unsent) \in E
    BY <1>2, <2>1
  <2>4. QED
    BY <1>2, <2>1, <2>2, <2>3, InTail
<1>4. /\ \A p : Has(stack', p) => p \in {"closeSent", "sent"}
      /\ \A p : OnTop(stack', p) => p \in {"closeSent", "sent"}
      /\ Head(unsent) = CloseFrame => OnTop(stack', "closeSent")
  <2>1. ASSUME NEW o \in {"closeSent", "sent"}, NEW n \in Nat, stack' = Frame(o, "none", n)
        PROVE  /\ \A p : Has(stack', p) <=> p = o
               /\ \A p : OnTop(stack', p) <=> p = o
    BY <2>1, HasOne DEF Anywhere, AllOps, ClientOps, Evs
  <2>2. QED
    BY <1>2, <1>3, <2>1
<1>5. UnderFits'
  BY <1>1, <1>2, <1>4 DEF UnderFits, UsesIo
<1>6. Answering'
  BY <1>1, <1>2, <1>3, <1>4 DEF Answering
<1>7. Failed'
  BY <1>1, <1>2, <1>4 DEF Failed
<1>8. Closing'
  BY <1>1, <1>2, <1>4 DEF Closing, Doomed
<1>9. ClosedFits'
  BY <1>1, <1>2, <1>4 DEF ClosedFits
<1>10. Noticed'
  BY <1>1, <1>2, <1>4 DEF Noticed
<1>11. Fresh'
  BY <1>1, <1>2, FreshStays
<1>12. QED
  BY <1>5, <1>6, <1>7, <1>8, <1>9, <1>10, <1>11 DEF Completing

(* Bytes of the server, and the errors of the io.                           *)
LEMMA HasNothing == Stacked(<<>>) /\ NoReport(<<>>) /\ \A o : ~Has(<<>>, o) /\ ~OnTop(<<>>, o)
BY EmptyStack DEF Has, OnTop

LEMMA BytesReceivedCompleting ==
  ASSUME IInv, Connects, Streams, Completing,
         NEW n \in 1 .. 2 * (MaxFrames + 1), OnUnderlyingBytesReceived(n), Stacked(stack')
  PROVE  Completing'
<1>1. /\ Types /\ Stacked(stack) /\ stack = <<>> /\ Bare(stack) /\ opens # 0
      /\ \A o : ~Has(stack, o) /\ ~OnTop(stack, o)
      /\ UnderFits /\ Answering /\ Failed /\ Closing /\ ClosedFits /\ Noticed
  BY IoReports DEF OnUnderlyingBytesReceived
<1>2. /\ under = "open"
      /\ UNCHANGED <<pending_sends, on_ws_close_complete, io, unsent, lost, reopened, nonceFailed,
                     opens, asked, noticed>>
  BY DEF OnUnderlyingBytesReceived, ioQueue, opening
<1>3. CASE /\ uws_state \in {"WAITING_FOR_UPGRADE_RESPONSE", "OPEN", "CLOSING_WAITING_FOR_CLOSE"}
           /\ stack' = Call("decode")
           /\ UNCHANGED <<uws_state, under>>
  <2>1. /\ \A p : Has(stack', p) <=> p = "decode"
        /\ \A p : OnTop(stack', p) <=> p = "decode"
    <3> DEFINE f == [op |-> "decode", ev |-> "none", n |-> 0]
    <3>1. stack' = <<f>> /\ f.op = "decode"
      BY <1>3 DEF Call, Frame
    <3> HIDE DEF f
    <3>2. stack' # <<>> /\ stack'[1] = f /\ ToSet(stack') = {f}
      BY <3>1 DEF ToSet
    <3>3. QED
      BY <3>1, <3>2 DEF Has, OnTop
  <2>2. UnderFits'
    BY <1>1, <1>2, <1>3, <2>1 DEF UnderFits, UsesIo
  <2>3. Answering'
    BY <1>1, <1>2, <1>3, <2>1 DEF Answering
  <2>4. Failed'
    BY <1>1, <1>2, <1>3, <2>1 DEF Failed
  <2>5. Closing'
    BY <1>1, <1>2, <1>3, <2>1 DEF Closing, Doomed
  <2>6. ClosedFits'
    BY <1>1, <1>2, <1>3, <2>1 DEF ClosedFits
  <2>7. Noticed'
    BY <1>1, <1>2, <1>3, <2>1 DEF Noticed
  <2>8. Fresh'
    BY <1>1, <1>2, FreshStays
  <2>9. QED
    BY <2>2, <2>3, <2>4, <2>5, <2>6, <2>7, <2>8 DEF Completing
<1>4. CASE /\ uws_state = "WAITING_FOR_UPGRADE_RESPONSE"
           /\ IndicateOpenErrorAndClose(<<>>) /\ UNCHANGED received
  <2>1. IndicateOpenErrorAndClose(stack)
    BY <1>1, <1>4
  <2>2. NoReport(stack)
    BY <1>1, EmptyStack
  <2>3. QED
    BY <1>1, <1>2, <1>4, <2>1, <2>2, BreaksCompleting
<1>5. CASE /\ uws_state \in {"OPEN", "CLOSING_WAITING_FOR_CLOSE"}
           /\ IndicateError(<<>>) /\ UNCHANGED <<received, under>>
  <2>1. uws_state' = "ERROR" /\ stack' = User("error") \o <<>>
    BY <1>5 DEF IndicateError
  <2>2. Bare(stack')
    BY <2>1, EmptyStack, HasUser, HasNothing, UserOpsAssumption
       DEF Events, Bare, Ops, AtOnce, ClientOps
  <2>3. QED
    BY <1>1, <1>2, <1>5, <2>1, <2>2, ErrorsCompleting
<1>6. CASE UNCHANGED <<uws_state, received, stack, under>>
  BY <1>2, <1>6, UnchangedCompleting DEF Settled_Vars
<1>7. QED
  BY <1>3, <1>4, <1>5, <1>6 DEF OnUnderlyingBytesReceived

LEMMA ErrorCompleting ==
  ASSUME IInv, Streams, Completing, OnUnderlyingError, Stacked(stack') PROVE Completing'
<1>1. /\ Types /\ Stacked(stack) /\ stack = <<>> /\ Bare(stack) /\ opens # 0
      /\ \A o : ~Has(stack, o) /\ ~OnTop(stack, o)
      /\ UnderFits /\ Answering /\ Failed /\ Closing /\ ClosedFits /\ Noticed
  BY IoReports DEF OnUnderlyingError
<1>2. /\ under = "open"
      /\ UNCHANGED <<received, pending_sends, on_ws_close_complete, io, reopened, nonceFailed,
                     opens, asked>>
  BY DEF OnUnderlyingError, opening
<1>3. \A ev \in Events :
        \A o : Has(User(ev) \o <<>>, o) <=> o = "user"
  BY HasNothing, HasUser
<1>4. <<>> \o <<>> = <<>>
  OBVIOUS
<1>5. CASE under' = "closed" /\ IndicateClosed(<<>>)
           /\ uws_state \in {"CLOSING_WAITING_FOR_CLOSE", "CLOSING_SENDING_CLOSE",
                             "CLOSING_UNDERLYING_IO"}
  <2>1. /\ uws_state' = "CLOSED"
        /\ noticed' = noticed + (IF on_ws_close_complete THEN 1 ELSE 0)
        /\ stack' = User("closed") \o <<>> \/ stack' = <<>> \o <<>>
    BY <1>5 DEF IndicateClosed
  <2>2. \A o \in Ops \cup AtOnce : ~Has(stack', o)
    BY <1>3, <1>4, <2>1, HasNothing, UserOpsAssumption DEF Events, Ops, AtOnce, ClientOps
  <2>3. QED
    BY <1>1, <1>2, <1>5, <2>1, <2>2, OnTopHas, EndsCompleting DEF Ends, Ops, AtOnce
<1>6. CASE under' = "closed" /\ IndicateOpenError(<<>>) /\ UNCHANGED noticed
  <2>1. uws_state' = "CLOSED" /\ stack' = User("open") \o <<>>
    BY <1>6 DEF IndicateOpenError
  <2>2. \A o \in Ops \cup AtOnce : ~Has(stack', o)
    BY <1>3, <2>1, UserOpsAssumption DEF Events, Ops, AtOnce, ClientOps
  <2>3. QED
    BY <1>1, <1>2, <1>6, <2>1, <2>2, OnTopHas, EndsCompleting DEF Ends, Ops, AtOnce
<1>7. CASE /\ uws_state = "OPEN" /\ under' \in {"open", "failed"}
           /\ IndicateError(<<>>) /\ UNCHANGED noticed
  <2>1. uws_state' = "ERROR" /\ stack' = User("error") \o <<>>
    BY <1>7 DEF IndicateError
  <2>2. Bare(stack')
    BY <1>3, <2>1, UserOpsAssumption DEF Events, Bare, Ops, AtOnce, ClientOps
  <2>3. QED
    BY <1>1, <1>2, <1>7, <2>1, <2>2, ErrorsCompleting
<1>8. CASE /\ uws_state = "ERROR" /\ under' \in {"open", "failed"}
           /\ UNCHANGED <<uws_state, stack, noticed>>
  <2>1. UnderFits'
    BY <1>1, <1>2, <1>8 DEF UnderFits, UsesIo
  <2>2. Answering'
    BY <1>1, <1>2, <1>8 DEF Answering
  <2>3. Failed'
    BY <1>1, <1>2, <1>8 DEF Failed
  <2>4. Closing'
    BY <1>1, <1>2, <1>8 DEF Closing, Doomed
  <2>5. ClosedFits'
    BY <1>1, <1>2, <1>8 DEF ClosedFits
  <2>6. Noticed'
    BY <1>1, <1>2, <1>8 DEF Noticed
  <2>7. Fresh'
    BY <1>1, <1>2, FreshStays
  <2>8. QED
    BY <2>1, <2>2, <2>3, <2>4, <2>5, <2>6, <2>7 DEF Completing
<1>9. QED
  BY <1>5, <1>6, <1>7, <1>8 DEF OnUnderlyingError

(* The steps that the client takes by itself, and those of its io.          *)
LEMMA ServedCompleting ==
  ASSUME IInv, Connects, Streams, Completing, Served PROVE Completing'
<1>1. Stacked(stack')
  BY ServedIInv DEF IInv
<1>2. TlsFits
  BY DEF Streams
<1>3. CASE Running /\ (ClientFrames \/ UserReturns)
  <2>1. CASE Decoder
    BY <1>1, <1>2, <1>3, <2>1, ReturnsCompleting, DecodeGivesCompleting, DecodeErrorsCompleting,
       DecodeResponseCompleting, DecodeCloseCompleting DEF Decoder
  <2>2. CASE Masked \/ Respond \/ ConsumeReceivedBytes \/ OpenFails \/ OpenError \/ TlsCloses
             \/ ToClosed
    BY <1>1, <1>2, <1>3, <2>2, DecodeGivesCompleting, RespondCompleting, ConsumeCompleting,
       FramesEndCompleting
  <2>3. CASE Cancel \/ SendFails \/ OnUnderlyingSendComplete \/ OnUnderlyingCloseSent
             \/ OnUnderlyingCloseComplete \/ OnUnderlyingOpenComplete \/ UserReturns
    BY <1>1, <1>2, <1>3, <2>3, CancelCompleting, ReturnsCompleting, SendCompleteCompleting,
       CloseSentCompleting, CloseCompleteCompleting, OpenCompleteCompleting
  <2>4. QED
    BY <1>3, <2>1, <2>2, <2>3 DEF ClientFrames
<1>4. CASE Reports
  BY <1>1, <1>4, OpensCompleting, SendsCompleting, BytesReceivedCompleting DEF Reports
<1>5. CASE OnUnderlyingError
  BY <1>1, <1>5, ErrorCompleting
<1>6. QED
  BY <1>3, <1>4, <1>5 DEF Served

LEMMA InitCompleting == ASSUME Init PROVE Completing
<1>1. /\ uws_state = "CLOSED" /\ on_ws_close_complete = FALSE /\ stack = <<>> /\ under = "closed"
      /\ opens = 0 /\ asked = "no" /\ noticed = 0 /\ reopened = FALSE
  BY DEF Init
<1>2. \A o : ~Has(stack, o) /\ ~OnTop(stack, o)
  BY <1>1, HasNothing
<1>3. UnderFits /\ Answering /\ Failed /\ Closing
  BY <1>1, <1>2 DEF UnderFits, UsesIo, Answering, Failed, Closing
<1>4. ClosedFits /\ Noticed /\ Fresh
  BY <1>1, <1>2 DEF ClosedFits, Noticed, Fresh, Has
<1>5. QED
  BY <1>3, <1>4 DEF Completing

LEMMA NextCompleting ==
  ASSUME IInv, Connects, Streams, Completing, [Next]_vars PROVE Completing'
<1>1. Stacked(stack')
  BY NextIInv DEF IInv
<1>2. CASE OpenAsync
  <2>1. Calling /\ Resumes(stack)
    BY <1>2, InUserFacts DEF OpenAsync
  <2>2. QED
    BY <1>2, <2>1, OpenCallCompleting DEF OpenAsync
<1>3. CASE CloseAsync
  <2>1. Calling /\ Resumes(stack)
    BY <1>3, InUserFacts DEF CloseAsync
  <2>2. PICK callback \in BOOLEAN : CloseWith(callback, stack, stack)
    BY <1>3 DEF CloseAsync
  <2>3. QED
    BY <2>1, <2>2, CloseCallCompleting
<1>4. CASE SendFrameAsync
  <2>1. Calling /\ Resumes(stack)
    BY <1>4, InUserFacts DEF SendFrameAsync
  <2>2. QED
    BY <1>1, <1>4, <2>1, SendCallCompleting DEF SendFrameAsync
<1>5. CASE Destroy
  <2>1. Calling /\ OnlyCallers
    BY <1>5, EmptyStack DEF Destroy, Calling, OnlyCallers
  <2>2. QED
    BY <1>5, <2>1, DestroyCallCompleting DEF Destroy
<1>6. CASE CloseHandshakeAsync
  BY <1>6, CloseHandshakeCompleting
<1>7. CASE Served
  BY <1>7, ServedCompleting
<1>8. CASE UNCHANGED vars
  BY <1>8, UnchangedCompleting DEF vars, clientVars, ioVars, ioQueue, history, opening, Settled_Vars
<1>9. QED
  BY <1>2, <1>3, <1>4, <1>5, <1>6, <1>7, <1>8 DEF Next, Frames, Served

(* A close of the websocket client ends in CLOSED, and CLOSED is closed all *)
(* the way down.  uws_client_close_async and its callbacks: when they have  *)
(* returned the sends are cancelled and the io is closed, the user is told  *)
(* once, and a CLOSE that is due is in the io.                              *)
THEOREM ClosesEndWell == Spec => []ClosesComplete
<1>1. Init => IInv /\ Connects /\ Streams /\ Completing
  BY InitIInv, InitStream, InitCompleting
<1>2. IInv /\ Connects /\ Streams /\ Completing /\ [Next]_vars
        => (IInv /\ Connects /\ Streams /\ Completing)'
  BY NextIInv, NextStream, NextCompleting
<1>3. ASSUME IInv, Completing PROVE ClosesComplete
  <2>1. /\ Types /\ UnderFits /\ Answering /\ Failed /\ Closing /\ ClosedFits /\ Noticed
    BY <1>3 DEF IInv, Completing
  <2>2. stack = <<>> => \A o : ~Has(stack, o) /\ ~OnTop(stack, o)
    BY HasNothing
  <2>3. ClosedIsClosed
    BY <2>1 DEF ClosedIsClosed, ClosedFits
  <2>4. stack = <<>> /\ uws_state = "CLOSING_SENDING_CLOSE" =>
          under = "open" /\ (CloseFrame \in ToSet(unsent) \/ lost)
    BY <2>1, <2>2 DEF UnderFits, UsesIo, Answering
  <2>5. stack = <<>> /\ asked = "close" /\ on_ws_close_complete =>
          /\ pending_sends = <<>>
          /\ uws_state = "CLOSED" \/ (uws_state = "CLOSING_UNDERLYING_IO" /\ io = "tls")
    BY <2>1, <2>2 DEF Closing, Failed, Doomed
  <2>6. asked # "handshake" /\ ~reopened => noticed <= 1
    BY <2>1 DEF Noticed, Types
  <2>7. asked = "no" /\ opens = 1 => noticed = 0
    BY <2>1 DEF Noticed
  <2>8. QED
    BY <2>3, <2>4, <2>5, <2>6, <2>7 DEF ClosesComplete, CloseCompletes
<1>4. QED
  BY <1>1, <1>2, <1>3, PTL DEF Spec

==============================================================================
