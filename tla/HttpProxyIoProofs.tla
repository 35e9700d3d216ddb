--------------------------- MODULE HttpProxyIoProofs ----------------------------
(***************************************************************************)
(* Proofs about the io behind an HTTP proxy, for any number of opens and    *)
(* with or without failing allocations.                                    *)
(***************************************************************************)
EXTENDS HttpProxyIo, SequenceTheorems, TLAPS

-------------------------------------------------------------------------------
(* The invariant.                                                           *)
Opening == {"OPENING_UNDERLYING_IO", "WAITING_FOR_CONNECT_RESPONSE"}

Aligned ==
  /\ state = "CLOSED" => under = "closed"
  /\ state = "OPENING_UNDERLYING_IO" => under = "opening"
  /\ state \in {"WAITING_FOR_CONNECT_RESPONSE", "OPEN", "ERROR"} => under = "open"
  /\ state = "CLOSING" => under = "closing"

(* What a handler still has to do belongs to a callback of the user, and    *)
(* only one that opens the io has bytes to indicate.                        *)
ResumeOfCallback ==
  /\ pc = "app" => resume = "nothing"
  /\ resume # "indicate the rest" => rest = <<>>
  /\ resume = "parse" => Malloc

(* The buffer is never emptied: a stale response stays.                     *)
Keeps == Ends(leftover) # {} => Ends(receive_buffer) # {}

AtMostOne(log) == Len(log) <= 1

(* While no stale response can be taken for the proxy's answer.             *)
Sound ==
  ~StaleResponse =>
    /\ pc # "destroyed" => Aligned
    /\ resume \in {"fail the open", "parse"} => state = "CLOSED"
    /\ Malloc /\ (state \in Opening \/ resume = "parse") => Ends(receive_buffer) = {}
    /\ state \in Opening => answers = <<>>
    /\ AtMostOne(answers)

(* From an empty buffer, what is there and what is to come is the reply.    *)
Gathers ==
  leftover = <<>> =>
    /\ state \in Opening => received = <<>> /\ rest = <<>>
    /\ state = "OPENING_UNDERLYING_IO" => receive_buffer = <<>>
    /\ state = "WAITING_FOR_CONNECT_RESPONSE" => receive_buffer \o inbound = reply

IInv == TypeOK /\ ResumeOfCallback /\ Keeps /\ Sound /\ Gathers /\ PayloadIntact

LEMMA InitIInv == Init => IInv
<1> SUFFICES ASSUME Init PROVE IInv
  OBVIOUS
<1> USE DEF Init
<1>1. TypeOK
  BY ProxyAssumption DEF TypeOK, ProxyAssumption
<1>2. ResumeOfCallback /\ Keeps /\ Gathers
  BY DEF ResumeOfCallback, Keeps, Gathers, Opening, Ends
<1>3. Sound
  BY DEF Sound, Aligned, Opening, AtMostOne
<1>4. PayloadIntact
  BY DEF PayloadIntact, ToSet
<1>5. QED
  BY <1>1, <1>2, <1>3, <1>4 DEF IInv

-------------------------------------------------------------------------------
(* Sequences.                                                               *)

LEMMA EndsOfConcat ==
  ASSUME NEW b \in Seq(Pieces), NEW c \in Seq(Pieces), Ends(b) # {}
  PROVE  Ends(b \o c) # {}
<1>1. PICK i \in 1 .. Len(b) : b[i].kind = "end"
  BY DEF Ends
<1>2. i \in DOMAIN (b \o c) /\ (b \o c)[i] = b[i]
  BY ConcatProperties, LenProperties
<1>3. QED
  BY <1>1, <1>2 DEF Ends

(* The first end of a prefix is the first end of the whole, and what is     *)
(* behind it goes on with what follows the prefix.                          *)
LEMMA FirstEndOfConcat ==
  ASSUME NEW b \in Seq(Pieces), NEW c \in Seq(Pieces),
         NEW i, FirstEnd(b, i), NEW j, FirstEnd(b \o c, j)
  PROVE  j = i /\ Behind(b, i) \o c = Behind(b \o c, j)
<1> DEFINE w == b \o c
<1>1. /\ w \in Seq(Pieces) /\ Len(w) = Len(b) + Len(c)
      /\ Len(b) \in Nat /\ Len(c) \in Nat
      /\ \A n \in 1 .. Len(b) + Len(c) : w[n] = IF n <= Len(b) THEN b[n] ELSE c[n - Len(b)]
  BY ConcatProperties, LenProperties
<1>2. i \in 1 .. Len(b) /\ b[i].kind = "end"
  BY DEF FirstEnd, Ends
<1>3. j \in 1 .. Len(w) /\ w[j].kind = "end"
  BY <1>1 DEF FirstEnd, Ends
<1> HIDE DEF w
<1>4. i \in Ends(w)
  BY <1>1, <1>2 DEF Ends
<1>5. j <= i
  BY <1>4 DEF FirstEnd, w
<1>6. j \in Ends(b)
  BY <1>1, <1>2, <1>3, <1>5 DEF Ends
<1>7. j = i
  BY <1>2, <1>3, <1>5, <1>6 DEF FirstEnd
<1>8. /\ Behind(b, i) \in Seq(Pieces) /\ Len(Behind(b, i)) = Len(b) - i
      /\ \A n \in 1 .. Len(b) - i : Behind(b, i)[n] = b[i + n]
  BY <1>1, <1>2 DEF Behind
<1>9. /\ Behind(w, i) \in Seq(Pieces) /\ Len(Behind(w, i)) = Len(w) - i
      /\ \A n \in 1 .. Len(w) - i : Behind(w, i)[n] = w[i + n]
  BY <1>1, <1>2 DEF Behind
<1>10. Behind(b, i) \o c = Behind(w, i)
  <2> DEFINE s == Behind(b, i) \o c
             t == Behind(w, i)
  <2>1. s \in Seq(Pieces) /\ Len(s) = Len(b) - i + Len(c)
    BY <1>8, ConcatProperties
  <2>2. \A n \in 1 .. Len(s) : s[n] = IF n <= Len(b) - i THEN b[i + n] ELSE c[n - (Len(b) - i)]
    BY <1>8, <2>1, ConcatProperties
  <2>3. ASSUME NEW n \in 1 .. Len(s) PROVE s[n] = t[n]
    <3>0. Len(w) - i = Len(s) /\ i \in Nat
      BY <1>1, <1>2, <2>1
    <3>1. t[n] = w[i + n] /\ i + n \in 1 .. Len(b) + Len(c)
      <4>1. t[n] = w[i + n]
        BY <1>9, <3>0
      <4>2. QED
        BY <1>1, <1>2, <2>1, <4>1
    <3>2. w[i + n] = IF i + n <= Len(b) THEN b[i + n] ELSE c[(i + n) - Len(b)]
      <4>1. PICK m : m = i + n
        OBVIOUS
      <4>2. w[m] = IF m <= Len(b) THEN b[m] ELSE c[m - Len(b)]
        BY <1>1, <3>1, <4>1
      <4>3. QED
        BY <4>1, <4>2
    <3>3. n - (Len(b) - i) = (i + n) - Len(b) /\ (n <= Len(b) - i <=> i + n <= Len(b))
      BY <1>1, <1>2, <2>1
    <3>4. QED
      BY <2>2, <3>1, <3>2, <3>3
  <2>4. Len(s) = Len(t)
    BY <1>1, <1>2, <1>9, <2>1
  <2>5. QED
    BY <1>9, <2>1, <2>3, <2>4, SeqEqual
<1>11. QED
  BY <1>7, <1>10 DEF w

-------------------------------------------------------------------------------
(* The steps keep each part of the invariant.                               *)

LEMMA ReplyType == ASSUME opens' \in 1 .. MaxOpens PROVE Replies \subseteq Seq(Pieces)
<1>1. \A k \in {"2xx", "other", "junk", "end", "data"} : Piece(k) \in Pieces
  BY DEF Piece, Pieces
<1>2. QED
  BY <1>1 DEF Replies

LEMMA CutType ==
  ASSUME inbound \in Seq(Pieces), NEW n \in 1 .. Len(inbound)
  PROVE  /\ SubSeq(inbound, 1, n) \in Seq(Pieces)
         /\ SubSeq(inbound, n + 1, Len(inbound)) \in Seq(Pieces)
         /\ SubSeq(inbound, 1, n) \o SubSeq(inbound, n + 1, Len(inbound)) = inbound
<1>1. Len(inbound) \in Nat
  BY LenProperties
<1>2. SubSeq(inbound, 1, Len(inbound)) = inbound
  BY SubSeqFull
<1>3. SubSeq(inbound, 1, n) \o SubSeq(inbound, n + 1, Len(inbound))
        = SubSeq(inbound, 1, Len(inbound))
  BY <1>1, ConcatAdjacentSubSeq
<1>4. SubSeq(inbound, 1, n) \in Seq(Pieces) /\ SubSeq(inbound, n + 1, Len(inbound)) \in Seq(Pieces)
  BY <1>1
<1>5. QED
  BY <1>2, <1>3, <1>4

(* The types with the sets of sequences left unexpanded.                    *)
Bytes == Seq(Pieces)
Answers == Seq({"OK", "ERROR", "CANCELLED"})
IoType ==
  /\ state \in {"CLOSED", "OPENING_UNDERLYING_IO", "WAITING_FOR_CONNECT_RESPONSE",
                "OPEN", "CLOSING", "ERROR"}
  /\ under \in {"closed", "opening", "open", "closing"}
  /\ pc \in {"app", "callback", "destroyed"}
  /\ resume \in {"nothing", "fail the open", "parse", "indicate the rest"}
BytesType ==
  /\ receive_buffer \in Bytes /\ inbound \in Bytes /\ rest \in Bytes
  /\ reply \in Bytes /\ received \in Bytes /\ leftover \in Bytes

LEMMA TypeParts ==
  TypeOK <=> IoType /\ BytesType /\ answers \in Answers /\ opens \in 0 .. MaxOpens
BY DEF TypeOK, IoType, BytesType, Bytes, Answers

LEMMA SequenceTypes ==
  /\ <<>> \in Bytes /\ <<>> \in Answers
  /\ \A b, c \in Bytes : b \o c \in Bytes
  /\ \A a \in Answers : \A r \in {"OK", "ERROR", "CANCELLED"} : Append(a, r) \in Answers
BY DEF Bytes, Answers

LEMMA ConcatNothing == \A b \in Bytes : b \o <<>> = b /\ <<>> \o b = b
BY DEF Bytes

LEMMA BehindType == ASSUME NEW b \in Bytes, NEW i \in DOMAIN b PROVE Behind(b, i) \in Bytes
BY DEF Behind, Bytes

LEMMA IoTypeStep == IoType /\ [Next]_vars => IoType'
<1> SUFFICES ASSUME IoType, [Next]_vars PROVE IoType'
  OBVIOUS
<1> USE DEF SendConnect, IndicateOpenError, CallUser, IoType
<1>1. CASE Open
  BY <1>1 DEF Open
<1>2. CASE OnUnderlyingOpenComplete \/ OnUnderlyingError \/ OnUnderlyingCloseComplete
  BY <1>2 DEF OnUnderlyingOpenComplete, OnUnderlyingError, OnUnderlyingCloseComplete
<1>3. CASE OnUnderlyingBytesReceived
  BY <1>3 DEF OnUnderlyingBytesReceived, Parse, callVars
<1>4. CASE CallbackReturns
  BY <1>4 DEF CallbackReturns, Parse, ioVars
<1>5. CASE Close \/ Destroy
  BY <1>5 DEF Close, Destroy, callVars
<1>6. CASE UNCHANGED vars
  BY <1>6 DEF vars, ioVars, callVars
<1>7. QED
  BY <1>1, <1>2, <1>3, <1>4, <1>5, <1>6 DEF Next

LEMMA AnswersStep == answers \in Answers /\ [Next]_vars => answers' \in Answers
<1> SUFFICES ASSUME answers \in Answers, [Next]_vars PROVE answers' \in Answers
  OBVIOUS
<1> USE SequenceTypes DEF SendConnect, IndicateOpenError, AnswerOpen
<1>1. CASE Open
  BY <1>1 DEF Open
<1>2. CASE OnUnderlyingOpenComplete \/ OnUnderlyingError \/ OnUnderlyingCloseComplete
  BY <1>2 DEF OnUnderlyingOpenComplete, OnUnderlyingError, OnUnderlyingCloseComplete, history
<1>3. CASE OnUnderlyingBytesReceived
  BY <1>3 DEF OnUnderlyingBytesReceived, Parse
<1>4. CASE CallbackReturns
  BY <1>4 DEF CallbackReturns, Parse
<1>5. CASE Close \/ Destroy
  BY <1>5 DEF Close, Destroy, history
<1>6. CASE UNCHANGED vars
  BY <1>6 DEF vars, history
<1>7. QED
  BY <1>1, <1>2, <1>3, <1>4, <1>5, <1>6 DEF Next

LEMMA ParseType ==
  ASSUME BytesType, NEW b \in Bytes, NEW later \in Bytes, NEW log, Parse(b, log, later)
  PROVE  inbound' \in Bytes /\ rest' \in Bytes
BY BehindType, SequenceTypes DEF Parse, BytesType, IndicateOpenError

LEMMA BytesStep ==
  BytesType /\ opens \in 0 .. MaxOpens /\ [Next]_vars => BytesType' /\ opens' \in 0 .. MaxOpens
<1> SUFFICES ASSUME BytesType, opens \in 0 .. MaxOpens, [Next]_vars
             PROVE  BytesType' /\ opens' \in 0 .. MaxOpens
  OBVIOUS
<1> USE DEF SendConnect, IndicateOpenError
<1>1. CASE Open
  <2>1. opens' \in 1 .. MaxOpens
    <3>1. opens < MaxOpens /\ opens' = opens + 1
      BY <1>1 DEF Open
    <3>2. QED
      BY <3>1, ProxyAssumption DEF ProxyAssumption
  <2>2. reply' \in Bytes
    BY <1>1, <2>1, ReplyType DEF Open, Bytes
  <2>3. BytesType'
    BY <1>1, <2>2, SequenceTypes DEF Open, BytesType
  <2>4. QED
    BY <2>1, <2>3, ProxyAssumption DEF ProxyAssumption
<1>2. CASE OnUnderlyingOpenComplete \/ OnUnderlyingError \/ OnUnderlyingCloseComplete
  BY <1>2, SequenceTypes DEF OnUnderlyingOpenComplete, OnUnderlyingError,
     OnUnderlyingCloseComplete, BytesType, history
<1>3. CASE OnUnderlyingBytesReceived
  <2>1. PICK n \in 1 .. Len(inbound) :
          LET bytes == SubSeq(inbound, 1, n)
              later == SubSeq(inbound, n + 1, Len(inbound)) IN
          \/ /\ receive_buffer' = receive_buffer \o bytes
             /\ Parse(receive_buffer', answers, later)
             /\ UNCHANGED received
          \/ /\ IndicateOpenError(answers, "parse")
             /\ UNCHANGED <<receive_buffer, rest, received>>
          \/ /\ received' = received \o bytes /\ inbound' = later
             /\ UNCHANGED <<receive_buffer, rest>>
          \/ inbound' = later /\ UNCHANGED <<receive_buffer, rest, received>>
    BY <1>3 DEF OnUnderlyingBytesReceived, callVars
  <2>2. SubSeq(inbound, 1, n) \in Bytes /\ SubSeq(inbound, n + 1, Len(inbound)) \in Bytes
    BY <2>1, CutType DEF Bytes, BytesType
  <2>3. receive_buffer' \in Bytes /\ inbound' \in Bytes /\ rest' \in Bytes /\ received' \in Bytes
    BY <2>1, <2>2, ParseType, SequenceTypes DEF BytesType
  <2>4. UNCHANGED <<opens, reply, leftover>>
    BY <1>3 DEF OnUnderlyingBytesReceived
  <2>5. QED
    BY <2>3, <2>4 DEF BytesType
<1>4. CASE CallbackReturns
  <2>1. CASE Parse(receive_buffer, answers, inbound) /\ UNCHANGED <<receive_buffer, received>>
    BY <1>4, <2>1, ParseType DEF BytesType, CallbackReturns
  <2>2. QED
    BY <1>4, <2>1, SequenceTypes DEF CallbackReturns, BytesType, ioVars
<1>5. CASE Close \/ Destroy
  BY <1>5, SequenceTypes DEF Close, Destroy, BytesType, callVars, history
<1>6. CASE UNCHANGED vars
  BY <1>6 DEF vars, ioVars, callVars, history, BytesType
<1>7. QED
  BY <1>1, <1>2, <1>3, <1>4, <1>5, <1>6 DEF Next

LEMMA TypeStep == TypeOK /\ [Next]_vars => TypeOK'
<1> SUFFICES ASSUME TypeOK, [Next]_vars PROVE TypeOK'
  OBVIOUS
<1>1. IoType /\ BytesType /\ answers \in Answers /\ opens \in 0 .. MaxOpens
  BY TypeParts
<1>2. IoType' /\ BytesType' /\ answers' \in Answers /\ opens' \in 0 .. MaxOpens
  BY <1>1, IoTypeStep, AnswersStep, BytesStep
<1>3. QED
  BY <1>2 DEF TypeOK, IoType, BytesType, Bytes, Answers

LEMMA ResumeStep == TypeOK /\ ResumeOfCallback /\ [Next]_vars => ResumeOfCallback'
<1> SUFFICES ASSUME TypeOK, ResumeOfCallback, [Next]_vars PROVE ResumeOfCallback'
  OBVIOUS
<1> USE DEF SendConnect, IndicateOpenError, AnswerOpen, CallUser, Parse, ResumeOfCallback
<1>1. CASE Open \/ OnUnderlyingOpenComplete \/ OnUnderlyingError
  BY <1>1 DEF Open, OnUnderlyingOpenComplete, OnUnderlyingError, Pumped
<1>2. CASE OnUnderlyingBytesReceived
  BY <1>2 DEF OnUnderlyingBytesReceived, Pumped, callVars
<1>3. CASE CallbackReturns
  BY <1>3 DEF CallbackReturns
<1>4. CASE OnUnderlyingCloseComplete \/ Close \/ Destroy
  BY <1>4 DEF OnUnderlyingCloseComplete, Close, Destroy, Pumped, callVars, TypeOK
<1>5. CASE UNCHANGED vars
  BY <1>5 DEF vars, callVars
<1>6. QED
  BY <1>1, <1>2, <1>3, <1>4, <1>5 DEF Next

LEMMA KeepsStep == TypeOK /\ Keeps /\ [Next]_vars => Keeps'
<1> SUFFICES ASSUME TypeOK, Keeps, [Next]_vars PROVE Keeps'
  OBVIOUS
<1>1. CASE Open
  BY <1>1 DEF Open, Keeps
<1>2. CASE OnUnderlyingBytesReceived
  <2>1. PICK n \in 1 .. Len(inbound) :
          receive_buffer' \in {receive_buffer, receive_buffer \o SubSeq(inbound, 1, n)}
    BY <1>2 DEF OnUnderlyingBytesReceived
  <2>2. Ends(receive_buffer) # {} => Ends(receive_buffer') # {}
    BY <2>1, TypeParts, CutType, EndsOfConcat DEF BytesType, Bytes
  <2>3. leftover' = leftover
    BY <1>2 DEF OnUnderlyingBytesReceived
  <2>4. QED
    BY <2>2, <2>3 DEF Keeps
<1>3. ASSUME UNCHANGED <<receive_buffer, leftover>> PROVE Keeps'
  BY <1>3 DEF Keeps
<1>4. QED
  BY <1>1, <1>2, <1>3 DEF Next, OnUnderlyingOpenComplete, OnUnderlyingError,
     OnUnderlyingCloseComplete, CallbackReturns, Close, Destroy, vars, ioVars, history

LEMMA SoundStep ==
  TypeOK /\ ResumeOfCallback /\ Keeps /\ Sound /\ [Next]_vars => Sound'
<1> SUFFICES ASSUME TypeOK, ResumeOfCallback, Keeps, Sound, [Next]_vars, ~StaleResponse'
             PROVE  (/\ pc # "destroyed" => Aligned
                     /\ resume \in {"fail the open", "parse"} => state = "CLOSED"
                     /\ Malloc /\ (state \in Opening \/ resume = "parse")
                          => Ends(receive_buffer) = {}
                     /\ state \in Opening => answers = <<>>
                     /\ AtMostOne(answers))'
  BY DEF Sound
<1>1. answers \in Answers /\ IoType
  BY TypeParts
<1>2. \A r \in {"OK", "ERROR", "CANCELLED"} : AtMostOne(Append(<<>>, r))
  BY DEF AtMostOne
<1>3. AtMostOne(<<>>)
  BY DEF AtMostOne
<1> USE DEF SendConnect, IndicateOpenError, AnswerOpen, CallUser, Aligned, Opening, IoType
<1>4. CASE Open
  <2>1. Malloc => Ends(receive_buffer) = {}
    BY <1>4 DEF Open, StaleResponse
  <2>2. QED
    BY <1>1, <1>2, <1>3, <1>4, <2>1 DEF Open, ResumeOfCallback
<1>5. ASSUME UNCHANGED leftover
      PROVE  ~StaleResponse /\ (pc # "destroyed" => Aligned)
             /\ (resume \in {"fail the open", "parse"} => state = "CLOSED")
             /\ (Malloc /\ (state \in Opening \/ resume = "parse") => Ends(receive_buffer) = {})
             /\ (state \in Opening => answers = <<>>)
             /\ AtMostOne(answers)
  BY <1>5 DEF Sound, StaleResponse
<1>6. CASE OnUnderlyingOpenComplete
  BY <1>1, <1>2, <1>3, <1>5, <1>6 DEF OnUnderlyingOpenComplete, Pumped, ResumeOfCallback
<1>7. CASE OnUnderlyingError
  BY <1>1, <1>2, <1>3, <1>5, <1>7 DEF OnUnderlyingError, Pumped, ResumeOfCallback
<1>8. CASE OnUnderlyingBytesReceived
  BY <1>1, <1>2, <1>3, <1>5, <1>8
     DEF OnUnderlyingBytesReceived, Parse, Pumped, Indicates, ResumeOfCallback, callVars
<1>9. CASE OnUnderlyingCloseComplete
  BY <1>1, <1>5, <1>9 DEF OnUnderlyingCloseComplete, Pumped, ResumeOfCallback, history
<1>10. CASE CallbackReturns
  BY <1>1, <1>5, <1>10 DEF CallbackReturns, Parse, ResumeOfCallback, ioVars
<1>11. CASE Close
  BY <1>1, <1>2, <1>3, <1>5, <1>11 DEF Close, callVars
<1>12. CASE Destroy
  BY <1>1, <1>5, <1>12 DEF Destroy, history
<1>13. CASE UNCHANGED vars
  BY <1>1, <1>5, <1>13 DEF vars, ioVars, callVars, history
<1>14. QED
  BY <1>4, <1>6, <1>7, <1>8, <1>9, <1>10, <1>11, <1>12, <1>13 DEF Next

-------------------------------------------------------------------------------
(* What is opened and indicated, from an empty buffer.                      *)

LEMMA OkAppended ==
  ASSUME NEW r \in {"ERROR", "CANCELLED"}, NEW log \in Answers
  PROVE  "OK" \in ToSet(Append(log, r)) => "OK" \in ToSet(log)
BY DEF ToSet, Answers

(* No end in an empty buffer, so from one no response is stale.             *)
LEMMA EmptyNotStale == leftover = <<>> => ~StaleResponse
BY DEF StaleResponse, Ends

(* The search of a buffer b that with what is to come is the reply.         *)
LEMMA ParseGathers ==
  ASSUME IoType, BytesType, NEW b \in Bytes, NEW later \in Bytes, b # <<>>, b \o later = reply,
         received = <<>>, answers = <<>>, state = "WAITING_FOR_CONNECT_RESPONSE",
         receive_buffer' = b, rest = <<>>,
         Parse(b, answers, later), UNCHANGED <<reply, received>>
  PROVE  /\ state' = "WAITING_FOR_CONNECT_RESPONSE" =>
              receive_buffer' \o inbound' = reply' /\ rest' = <<>>
         /\ state' # "OPENING_UNDERLYING_IO"
         /\ "OK" \in ToSet(answers') => Head(reply').kind = "2xx"
         /\ state' = "OPEN" =>
              \A j \in DOMAIN reply' : FirstEnd(reply', j) =>
                received' \o rest' \o inbound' = Behind(reply', j)
<1>1. CASE Ends(b) = {} /\ answers' = answers /\ inbound' = later /\ UNCHANGED <<state, rest>>
  BY <1>1 DEF ToSet
<1>2. ASSUME Ends(b) # {}, Successful(b), state' = "OPEN", inbound' = later,
             NEW i \in DOMAIN b, FirstEnd(b, i), rest' = Behind(b, i)
      PROVE  /\ Head(reply').kind = "2xx"
             /\ \A j \in DOMAIN reply' : FirstEnd(reply', j) =>
                  received' \o rest' \o inbound' = Behind(reply', j)
  <2>1. Head(reply) = b[1]
    <3>1. Len(b) \in Nat \ {0} /\ b \in Seq(Pieces) /\ later \in Seq(Pieces)
      BY EmptySeq DEF Bytes
    <3>2. (b \o later)[1] = b[1]
      BY <3>1
    <3>3. Head(b \o later) = (b \o later)[1]
      BY <3>1 
    <3>4. QED
      BY <3>2, <3>3
  <2>2. ASSUME NEW j \in DOMAIN reply, FirstEnd(reply, j)
        PROVE  received' \o rest' \o inbound' = Behind(reply, j)
    <3>0. FirstEnd(b \o later, j) /\ FirstEnd(b, i) /\ b \in Seq(Pieces) /\ later \in Seq(Pieces)
      BY <1>2, <2>2 DEF Bytes
    <3>1. Behind(b, i) \o later = Behind(b \o later, j)
      BY ONLY <3>0, FirstEndOfConcat
    <3>2. Behind(b, i) \in Seq(Pieces)
      BY <1>2, BehindType DEF Bytes
    <3>3. received' \o rest' = Behind(b, i)
      BY <1>2, <3>2
    <3>4. QED
      BY <1>2, <3>1, <3>3
  <2>3. QED
    BY <1>2, <2>1, <2>2 DEF Successful
<1>3. CASE IndicateOpenError(answers, "nothing")
  <2>1. state' = "CLOSED" /\ answers' = Append(answers, "ERROR")
    BY <1>3 DEF IndicateOpenError, AnswerOpen
  <2>2. "OK" \notin ToSet(answers')
    BY <2>1 DEF ToSet
  <2>3. QED
    BY <2>1, <2>2
<1>4. QED
  BY <1>1, <1>2, <1>3 DEF Parse

(* What the search of the buffer leaves, when it finds no whole response.   *)
LEMMA ParseNothing ==
  ASSUME NEW b, NEW bytes, Ends(b) = {}, Parse(b, answers, bytes)
  PROVE  answers' = answers /\ inbound' = bytes /\ UNCHANGED <<state, under, rest>>
BY DEF Parse

LEMMA GatherStep == IInv /\ [Next]_vars => Gathers' /\ PayloadIntact'
<1> SUFFICES ASSUME IInv, [Next]_vars PROVE Gathers' /\ PayloadIntact'
  OBVIOUS
<1>t. IoType /\ BytesType /\ answers \in Answers
  BY TypeParts DEF IInv
<1>o. opens \in 0 .. MaxOpens
  BY TypeParts DEF IInv
<1>g. ResumeOfCallback /\ Sound /\ Gathers /\ PayloadIntact
  BY DEF IInv
<1>n. "OK" \notin ToSet(<<>>)
  BY DEF ToSet
<1>a. ASSUME NEW log \in Answers, NEW r \in {"ERROR", "CANCELLED"}, answers' = Append(log, r)
      PROVE  "OK" \in ToSet(answers') => "OK" \in ToSet(log)
  BY <1>a DEF ToSet, Answers
<1>1. CASE Open
  <2>0. Open
    BY <1>1
  <2>1. received' = <<>> /\ rest' = rest /\ leftover' = receive_buffer
        /\ receive_buffer' = receive_buffer
    BY <2>0 DEF Open
  <2>2. rest = <<>>
    BY <1>1, <1>g DEF Open, ResumeOfCallback
  <2>3. reply' \in Bytes
    <3>1. opens < MaxOpens /\ opens' = opens + 1 /\ reply' \in Replies
      BY <2>0 DEF Open
    <3>2. opens' \in 1 .. MaxOpens
      BY <1>o, <3>1, ProxyAssumption DEF ProxyAssumption
    <3>3. QED
      BY <3>1, <3>2, ReplyType DEF Bytes
  <2>4. CASE SendConnect(<<>>, reply') /\ answers' = <<>> /\ inbound' = reply'
              /\ state' = "WAITING_FOR_CONNECT_RESPONSE"
    <3>1. <<>> \o reply' = reply'
      BY <2>3 DEF Bytes
    <3>2. QED
      BY <1>n, <2>1, <2>2, <2>4, <3>1 DEF Gathers, PayloadIntact, Opening
  <2>5. CASE state' = "CLOSED" /\ answers' = Append(<<>>, "ERROR")
    <3>1. "OK" \notin ToSet(answers')
      BY <1>a, <1>n, <2>5, SequenceTypes
    <3>2. QED
      BY <2>5, <3>1 DEF Gathers, PayloadIntact, Opening
  <2>6. CASE state' = "OPENING_UNDERLYING_IO" /\ answers' = <<>>
    BY <1>n, <2>1, <2>2, <2>6 DEF Gathers, PayloadIntact, Opening
  <2>7. QED
    BY <1>1, <2>4, <2>5, <2>6 DEF Open, SendConnect, IndicateOpenError, AnswerOpen
<1>2. CASE OnUnderlyingOpenComplete
  <2>1. UNCHANGED <<receive_buffer, rest, reply, received, leftover>>
        /\ state = "OPENING_UNDERLYING_IO"
    BY <1>2 DEF OnUnderlyingOpenComplete
  <2>2. CASE answers' = answers /\ inbound' = reply /\ state' = "WAITING_FOR_CONNECT_RESPONSE"
    <3>1. <<>> \o reply = reply
      BY <1>t DEF BytesType, Bytes
    <3>2. QED
      BY <1>g, <2>1, <2>2, <3>1 DEF Gathers, PayloadIntact, Opening
  <2>3. CASE state' = "CLOSED" /\ \E r \in {"ERROR", "CANCELLED"} : answers' = Append(answers, r)
    BY <1>a, <1>g, <1>t, <2>1, <2>3 DEF Gathers, PayloadIntact, Opening
  <2>4. QED
    BY <1>2, <2>2, <2>3 DEF OnUnderlyingOpenComplete, SendConnect, IndicateOpenError, AnswerOpen
<1>3. CASE OnUnderlyingError
  <2>1. UNCHANGED <<receive_buffer, rest, reply, received, leftover>>
    BY <1>3 DEF OnUnderlyingError
  <2>2. CASE state' = "CLOSED" /\ answers' = Append(answers, "ERROR")
    BY <1>a, <1>g, <1>t, <2>1, <2>2 DEF Gathers, PayloadIntact, Opening
  <2>3. CASE state' = "ERROR" /\ answers' = answers
    BY <1>g, <2>1, <2>3 DEF Gathers, PayloadIntact, Opening
  <2>4. QED
    BY <1>3, <2>2, <2>3 DEF OnUnderlyingError, IndicateOpenError, AnswerOpen
<1>4. CASE OnUnderlyingBytesReceived
  <2>1. UNCHANGED <<reply, leftover>>
    BY <1>4 DEF OnUnderlyingBytesReceived
  <2>2. PICK n \in 1 .. Len(inbound) :
          LET bytes == SubSeq(inbound, 1, n)
              later == SubSeq(inbound, n + 1, Len(inbound)) IN
          \/ /\ state = "WAITING_FOR_CONNECT_RESPONSE"
             /\ receive_buffer' = receive_buffer \o bytes
             /\ Parse(receive_buffer', answers, later)
             /\ UNCHANGED received
          \/ /\ state = "WAITING_FOR_CONNECT_RESPONSE" /\ Malloc
             /\ IndicateOpenError(answers, "parse")
             /\ UNCHANGED <<receive_buffer, rest, received>>
          \/ /\ Indicates
             /\ received' = received \o bytes /\ inbound' = later
             /\ CallUser("nothing")
             /\ UNCHANGED <<state, receive_buffer, under, rest, answers>>
          \/ /\ state \in {"CLOSING", "ERROR"} /\ ~Indicates
             /\ inbound' = later
             /\ UNCHANGED <<state, receive_buffer, under, callVars, answers, received>>
    BY <1>4 DEF OnUnderlyingBytesReceived
  <2> DEFINE bytes == SubSeq(inbound, 1, n)
             later == SubSeq(inbound, n + 1, Len(inbound))
  <2>3. bytes \in Bytes /\ later \in Bytes /\ bytes \o later = inbound /\ bytes # <<>>
    <3>1. inbound \in Seq(Pieces)
      BY <1>t DEF BytesType, Bytes
    <3>2. n \in 1 .. Len(inbound) /\ Len(inbound) \in Nat
      BY <2>2, <3>1, LenProperties
    <3>3. bytes # <<>>
      BY <3>1, <3>2
    <3>4. QED
      BY <3>1, <3>2, <3>3, CutType DEF Bytes
  <2>4. pc = "app" /\ resume = "nothing" /\ rest = <<>>
    BY <1>4, <1>g DEF OnUnderlyingBytesReceived, Pumped, ResumeOfCallback
  <2> HIDE DEF bytes, later
  <2>5. CASE state = "WAITING_FOR_CONNECT_RESPONSE" /\ receive_buffer' = receive_buffer \o bytes
              /\ Parse(receive_buffer', answers, later) /\ UNCHANGED received
    <3> SUFFICES ASSUME leftover = <<>> PROVE Gathers' /\ PayloadIntact'
      BY <2>1 DEF Gathers, PayloadIntact
    <3> DEFINE b == receive_buffer \o bytes
    <3>1. b \in Bytes /\ b # <<>> /\ b \o later = reply
      <4>1. receive_buffer \in Seq(Pieces) /\ bytes \in Seq(Pieces) /\ later \in Seq(Pieces)
        BY <1>t, <2>3 DEF BytesType, Bytes
      <4>2. b \o later = receive_buffer \o (bytes \o later)
        BY ONLY <4>1, ConcatAssociative
      <4>3. receive_buffer \o inbound = reply
        BY <1>g, <2>5 DEF Gathers
      <4>4. b # <<>>
        BY <2>3, <4>1, ConcatEmptySeq
      <4>5. QED
        BY <1>t, <2>3, <4>2, <4>3, <4>4, SequenceTypes DEF BytesType
    <3>2. ~StaleResponse
      BY DEF StaleResponse, Ends
    <3>3. answers = <<>> /\ received = <<>>
      BY <1>g, <2>5, <3>2 DEF Sound, Gathers, Opening
    <3> HIDE DEF b
    <3>4. receive_buffer' = b /\ Parse(b, answers, later) /\ UNCHANGED <<reply, received>>
      BY <2>1, <2>5 DEF b
    <3>5. /\ state' = "WAITING_FOR_CONNECT_RESPONSE" =>
               receive_buffer' \o inbound' = reply' /\ rest' = <<>>
          /\ state' # "OPENING_UNDERLYING_IO"
          /\ "OK" \in ToSet(answers') => Head(reply').kind = "2xx"
          /\ state' = "OPEN" =>
               \A j \in DOMAIN reply' : FirstEnd(reply', j) =>
                 received' \o rest' \o inbound' = Behind(reply', j)
      BY ONLY <1>t, <2>3, <2>4, <2>5, <3>1, <3>3, <3>4, ParseGathers
    <3>6. QED
      BY <2>5, <3>3, <3>5 DEF Gathers, PayloadIntact, Opening
  <2>6. CASE IndicateOpenError(answers, "parse") /\ UNCHANGED <<receive_buffer, rest, received>>
    <3>1. state' = "CLOSED" /\ answers' = Append(answers, "ERROR")
      BY <2>6 DEF IndicateOpenError, AnswerOpen
    <3>2. QED
      BY <1>a, <1>g, <1>t, <2>1, <3>1 DEF Gathers, PayloadIntact, Opening
  <2>7. CASE Indicates /\ received' = received \o bytes /\ inbound' = later
              /\ UNCHANGED <<state, receive_buffer, under, rest, answers>>
    <3>1. received' \o rest' \o inbound' = received \o rest \o inbound
      <4>1. received \in Seq(Pieces) /\ bytes \in Seq(Pieces) /\ later \in Seq(Pieces)
        BY <1>t, <2>3 DEF BytesType, Bytes
      <4>2. (received \o bytes) \o later = received \o (bytes \o later)
        BY ONLY <4>1, ConcatAssociative
      <4>3. received \o bytes \o <<>> = received \o bytes /\ received \o <<>> = received
        BY <1>t, <2>3, SequenceTypes, ConcatNothing DEF BytesType
      <4>4. QED
        BY <2>3, <2>4, <2>7, <4>2, <4>3
    <3>2. state = "OPEN" /\ state' = "OPEN"
      BY <2>7 DEF Indicates
    <3>3. QED
      BY <1>g, <2>1, <2>7, <3>1, <3>2 DEF Gathers, PayloadIntact, Opening
  <2>8. CASE state \in {"CLOSING", "ERROR"} /\ UNCHANGED <<state, receive_buffer, answers, received>>
    BY <1>g, <2>1, <2>8 DEF Gathers, PayloadIntact, Opening
  <2>9. QED
    BY <2>2, <2>5, <2>6, <2>7, <2>8 DEF bytes, later
<1>5. CASE OnUnderlyingCloseComplete
  BY <1>5, <1>g DEF OnUnderlyingCloseComplete, history, Gathers, PayloadIntact, Opening
<1>6. CASE CallbackReturns
  <2>1. UNCHANGED <<reply, leftover>> /\ pc = "callback"
    BY <1>6 DEF CallbackReturns
  <2>2. CASE UNCHANGED <<ioVars, rest, answers, received>>
    BY <1>g, <2>1, <2>2 DEF ioVars, Gathers, PayloadIntact
  <2>3. CASE state' = "CLOSED" /\ UNCHANGED <<answers, received>>
    BY <1>g, <2>1, <2>3 DEF Gathers, PayloadIntact, Opening
  <2>4. CASE resume = "parse" /\ Parse(receive_buffer, answers, inbound)
              /\ UNCHANGED <<receive_buffer, received>>
    <3> SUFFICES ASSUME leftover = <<>> PROVE Gathers' /\ PayloadIntact'
      BY <2>1 DEF Gathers, PayloadIntact
    <3>1. ~StaleResponse
      BY DEF StaleResponse, Ends
    <3>2. Ends(receive_buffer) = {}
      BY <1>g, <2>4, <3>1 DEF Sound, ResumeOfCallback
    <3>3. UNCHANGED <<answers, inbound, state, rest>>
      BY <2>4, <3>2, ParseNothing
    <3>4. QED
      BY <1>g, <2>1, <2>4, <3>3 DEF Gathers, PayloadIntact
  <2>5. CASE resume = "indicate the rest" /\ received' = received \o rest /\ rest' = <<>>
              /\ UNCHANGED <<ioVars, answers>>
    <3> SUFFICES ASSUME leftover = <<>> PROVE Gathers' /\ PayloadIntact'
      BY <2>1 DEF Gathers, PayloadIntact
    <3>1. received' \o rest' = received \o rest
      BY <1>t, <2>5, SequenceTypes, ConcatNothing DEF BytesType
    <3>2. received' \o rest' \o inbound' = received \o rest \o inbound
      BY <2>5, <3>1 DEF ioVars
    <3>3. state \in Opening => received' = <<>> /\ rest' = <<>>
      BY <1>g, <2>5, SequenceTypes, ConcatNothing DEF Gathers
    <3>4. QED
      BY <1>g, <2>1, <2>5, <3>2, <3>3 DEF ioVars, Gathers, PayloadIntact, Opening
  <2>6. QED
    BY <1>6, <2>2, <2>3, <2>4, <2>5 DEF CallbackReturns
<1>7. CASE Close
  <2>1. UNCHANGED <<receive_buffer, rest, reply, received, leftover>>
    BY <1>7 DEF Close, callVars
  <2>2. CASE state' \in {"CLOSED", "CLOSING"} /\ answers' = answers
    BY <1>g, <2>1, <2>2 DEF Gathers, PayloadIntact, Opening
  <2>3. CASE state' = "CLOSED" /\ answers' = Append(answers, "CANCELLED")
    BY <1>a, <1>g, <1>t, <2>1, <2>3 DEF Gathers, PayloadIntact, Opening
  <2>4. QED
    BY <1>7, <2>2, <2>3 DEF Close, AnswerOpen
<1>8. CASE Destroy
  BY <1>8, <1>g DEF Destroy, history, Gathers, PayloadIntact
<1>9. CASE UNCHANGED vars
  BY <1>9, <1>g DEF vars, ioVars, callVars, history, Gathers, PayloadIntact
<1>10. QED
  BY <1>1, <1>2, <1>3, <1>4, <1>5, <1>6, <1>7, <1>8, <1>9 DEF Next

-------------------------------------------------------------------------------
(* The theorems.                                                            *)

LEMMA Invariant == Spec => []IInv
<1>1. IInv /\ [Next]_vars => IInv'
  BY TypeStep, ResumeStep, KeepsStep, SoundStep, GatherStep DEF IInv
<1>2. QED
  BY InitIInv, <1>1, PTL DEF Spec

(* Every variable keeps its type, through every callback of the user.       *)
THEOREM TypeCorrect == Spec => []TypeOK
<1>1. IInv => TypeOK
  BY DEF IInv
<1>2. QED
  BY Invariant, <1>1, PTL

(* indicate_open_complete_error_and_close, http_proxy_io_close and the      *)
(* handlers keep the io and the one under it in step, and an open is        *)
(* answered at most once, while no stale response is in the buffer.         *)
THEOREM StandsOnItsIo == Spec => []StandsOnUnderlying
<1>1. IInv => StandsOnUnderlying
  BY DEF IInv, Sound, Aligned, AtMostOne, StandsOnUnderlying
<1>2. QED
  BY Invariant, <1>1, PTL

(* From an empty buffer the io opens only on a 2xx, and hands over every    *)
(* byte behind the response, once and in order, however they were cut.      *)
THEOREM PayloadComesThrough == Spec => []PayloadIntact
<1>1. IInv => PayloadIntact
  BY DEF IInv
<1>2. QED
  BY Invariant, <1>1, PTL

================================================================================
