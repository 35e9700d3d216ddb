------------------------------- MODULE HttpProxyIo -----------------------------
(***************************************************************************)
(* The HTTP proxy IO (http_proxy_io.c): opens its underlying io to the     *)
(* proxy, sends CONNECT, gathers the response until a double new-line,     *)
(* and from then on passes bytes through.                                  *)
(*                                                                         *)
(* The underlying io is any xio: its open and its close complete inside    *)
(* the call, as those of the socket IO do, or later, once; its close does  *)
(* not fail.  Everything else it reports from xio_dowork.  The user's      *)
(* callbacks may close the io; they do not open it from inside an open.    *)
(***************************************************************************)
EXTENDS Naturals, SequencesExt

CONSTANTS
  MaxOpens, (* bound on the opens                                            *)
  Malloc    (* TRUE when the realloc of the receive buffer may fail          *)

ASSUME ProxyAssumption == MaxOpens \in Nat /\ Malloc \in BOOLEAN

VARIABLES
  state,    (* http_proxy_io_state                                           *)
  receive_buffer,
  under,    (* the underlying io                                             *)
  inbound,  (* what the peer has yet to send on this connection              *)
  pc,       (* "app", or "callback" while a callback of the user runs        *)
  resume,   (* what is left to do when the callback returns                  *)
  rest,     (* the bytes behind the response that opened the io              *)
  (* History, read by the properties only:                                   *)
  opens,    (* the opens so far                                              *)
  reply,    (* what the proxy sends on this connection                       *)
  answers,  (* what on_io_open_complete was called with for this open        *)
  received, (* the bytes indicated to the user since this open               *)
  leftover  (* the receive buffer when this open began                       *)

ioVars == <<state, receive_buffer, under, inbound>>
callVars == <<pc, resume, rest>>
history == <<opens, reply, answers, received, leftover>>
vars == <<ioVars, callVars, history>>

(* The bytes of a connection, in pieces: a status line (successful, not, or *)
(* none at all), the end of the header, and what follows it.                *)
Pieces == [conn : 1 .. MaxOpens, kind : {"2xx", "other", "junk", "end", "data"}]
Piece(k) == [conn |-> opens', kind |-> k]
Replies ==
  {<<Piece("2xx"), Piece("end")>>, <<Piece("2xx"), Piece("end"), Piece("data"), Piece("data")>>,
   <<Piece("other"), Piece("end"), Piece("data")>>, <<Piece("junk"), Piece("end")>>}

TypeOK ==
  /\ state \in {"CLOSED", "OPENING_UNDERLYING_IO", "WAITING_FOR_CONNECT_RESPONSE",
                "OPEN", "CLOSING", "ERROR"}
  /\ receive_buffer \in Seq(Pieces)
  /\ under \in {"closed", "opening", "open", "closing"}
  /\ inbound \in Seq(Pieces) /\ rest \in Seq(Pieces) /\ reply \in Seq(Pieces)
  /\ pc \in {"app", "callback", "destroyed"}
  /\ resume \in {"nothing", "fail the open", "parse", "indicate the rest"}
  /\ opens \in 0 .. MaxOpens
  /\ answers \in Seq({"OK", "ERROR", "CANCELLED"})
  /\ received \in Seq(Pieces) /\ leftover \in Seq(Pieces)

(* http_proxy_io_create.                                                    *)
Init ==
  /\ state = "CLOSED" /\ receive_buffer = <<>> /\ under = "closed" /\ inbound = <<>>
  /\ pc = "app" /\ resume = "nothing" /\ rest = <<>>
  /\ opens = 0 /\ reply = <<>> /\ answers = <<>> /\ received = <<>> /\ leftover = <<>>

-------------------------------------------------------------------------------
(* A callback of the user is called; r is what follows when it returns.     *)
CallUser(r) == pc' = "callback" /\ resume' = r

AnswerOpen(log, result) == answers' = Append(log, result)

(* Mutant: the underlying io is left open.                                  *)
IndicateOpenError_LeavesIo(log, r) ==
  /\ state' = "CLOSED"
  /\ under' = under /\ inbound' = inbound
  /\ AnswerOpen(log, "ERROR")
  /\ CallUser(r)

(* indicate_open_complete_error_and_close.                                  *)
IndicateOpenError(log, r) ==
  /\ state' = "CLOSED"
  /\ under' = "closed" /\ inbound' = <<>>
  /\ AnswerOpen(log, "ERROR")
  /\ CallUser(r)

(* on_underlying_io_open_complete with IO_OPEN_OK: the CONNECT request is   *)
(* sent, or cannot be built or sent.                                        *)
SendConnect(log, bytes) ==
  \/ /\ state' = "WAITING_FOR_CONNECT_RESPONSE"
     /\ under' = "open" /\ inbound' = bytes /\ answers' = log
     /\ UNCHANGED <<pc, resume>>
  \/ IndicateOpenError(log, "nothing")

(* http_proxy_io_open.  An underlying io that fails to open says so twice,  *)
(* to on_underlying_io_open_complete and in the value xio_open returns.     *)
Open ==
  /\ pc = "app" /\ state = "CLOSED" /\ opens < MaxOpens
  /\ opens' = opens + 1
  /\ reply' \in Replies
  /\ received' = <<>> /\ leftover' = receive_buffer
  /\ \/ SendConnect(<<>>, reply')
     \/ IndicateOpenError(<<>>, "fail the open")
     \/ /\ state' = "OPENING_UNDERLYING_IO" /\ under' = "opening" /\ answers' = <<>>
        /\ UNCHANGED <<inbound, pc, resume>>
  /\ UNCHANGED <<receive_buffer, rest>>

-------------------------------------------------------------------------------
(* http_proxy_io_dowork pumps the underlying io unless the io is closed.    *)
Pumped == pc = "app" /\ state # "CLOSED"

(* on_underlying_io_open_complete, when xio_open left it for later.         *)
OnUnderlyingOpenComplete ==
  /\ Pumped /\ under = "opening" /\ state = "OPENING_UNDERLYING_IO"
  /\ \/ SendConnect(answers, reply)
     \/ IndicateOpenError(answers, "nothing")
     \/ /\ state' = "CLOSED" /\ under' = "closed"
        /\ AnswerOpen(answers, "CANCELLED") /\ CallUser("nothing")
        /\ UNCHANGED inbound
  /\ UNCHANGED <<receive_buffer, rest, opens, reply, received, leftover>>

(* on_underlying_io_error.                                                  *)
OnUnderlyingError ==
  /\ Pumped /\ under \in {"opening", "open"}
  /\ \/ /\ state \in {"OPENING_UNDERLYING_IO", "WAITING_FOR_CONNECT_RESPONSE"}
        /\ IndicateOpenError(answers, "nothing")
     \/ /\ state = "OPEN" /\ state' = "ERROR"
        /\ CallUser("nothing")
        /\ UNCHANGED <<under, inbound, answers>>
  /\ UNCHANGED <<receive_buffer, rest, opens, reply, received, leftover>>

(* The double new-line, the first one, and the bytes behind it.             *)
Ends(b) == {i \in DOMAIN b : b[i].kind = "end"}
FirstEnd(b, i) == i \in Ends(b) /\ \A j \in Ends(b) : i <= j
Behind(b, i) == SubSeq(b, i + 1, Len(b))

(* The status code parsed at the start of the buffer is a 2xx.              *)
Successful(b) == b[1].kind = "2xx"

(* Mutants: what is behind the response is dropped, a refusal is ignored.   *)
Parse_DropsRest(b, log, bytes) ==
  \/ /\ Ends(b) = {}
     /\ answers' = log /\ inbound' = bytes
     /\ pc' = "app" /\ resume' = "nothing"
     /\ UNCHANGED <<state, under, rest>>
  \/ /\ Ends(b) # {} /\ Successful(b)
     /\ state' = "OPEN" /\ inbound' = bytes
     /\ AnswerOpen(log, "OK") /\ CallUser("indicate the rest")
     /\ UNCHANGED <<under, rest>>
  \/ Ends(b) # {} /\ ~Successful(b) /\ IndicateOpenError(log, "nothing") /\ UNCHANGED rest
Parse_IgnoresRefusal(b, log, bytes) ==
  \/ /\ Ends(b) # {} => ~Successful(b)
     /\ answers' = log /\ inbound' = bytes
     /\ pc' = "app" /\ resume' = "nothing"
     /\ UNCHANGED <<state, under, rest>>
  \/ /\ Ends(b) # {} /\ Successful(b)
     /\ state' = "OPEN" /\ inbound' = bytes
     /\ AnswerOpen(log, "OK") /\ CallUser("indicate the rest")
     /\ \E i \in DOMAIN b : FirstEnd(b, i) /\ rest' = Behind(b, i)
     /\ UNCHANGED under

(* The buffer b is searched for a whole response; a successful one opens    *)
(* the io, any other closes it.                                             *)
Parse(b, log, bytes) ==
  \/ /\ Ends(b) = {}
     /\ answers' = log /\ inbound' = bytes
     /\ pc' = "app" /\ resume' = "nothing"
     /\ UNCHANGED <<state, under, rest>>
  \/ /\ Ends(b) # {} /\ Successful(b)
     /\ state' = "OPEN" /\ inbound' = bytes
     /\ AnswerOpen(log, "OK") /\ CallUser("indicate the rest")
     /\ \E i \in DOMAIN b : FirstEnd(b, i) /\ rest' = Behind(b, i)
     /\ UNCHANGED under
  \/ Ends(b) # {} /\ ~Successful(b) /\ IndicateOpenError(log, "nothing") /\ UNCHANGED rest

Indicates == state = "OPEN"

(* on_underlying_io_bytes_received with the next bytes of the peer.  Only   *)
(* while waiting are they gathered; when that fails for want of memory, the *)
(* error is indicated and the old buffer is looked at all the same.         *)
OnUnderlyingBytesReceived ==
  /\ Pumped /\ under \in {"open", "closing"}
  /\ \E n \in 1 .. Len(inbound) :
       LET bytes == SubSeq(inbound, 1, n)
           later == SubSeq(inbound, n + 1, Len(inbound)) IN
       \/ /\ state = "WAITING_FOR_CONNECT_RESPONSE"
          /\ receive_buffer' = receive_buffer \o bytes
          /\ Parse(receive_buffer', answers, later)
          /\ UNCHANGED received
       \/ /\ state = "WAITING_FOR_CONNECT_RESPONSE" /\ Malloc
          /\ IndicateOpenError(answers, "parse")
          /\ UNCHANGED <<receive_buffer, rest, received>>
       \/ /\ Indicates
          /\ received' = received \o bytes /\ inbound' = later
          /\ CallUser("nothing")
          /\ UNCHANGED <<state, receive_buffer, under, rest, answers>>
       \/ /\ state \in {"CLOSING", "ERROR"} /\ ~Indicates
          /\ inbound' = later
          /\ UNCHANGED <<state, receive_buffer, under, callVars, answers, received>>
  /\ UNCHANGED <<opens, reply, leftover>>

(* on_underlying_io_close_complete, when xio_close left it for later.       *)
OnUnderlyingCloseComplete ==
  /\ Pumped /\ under = "closing" /\ state = "CLOSING"
  /\ state' = "CLOSED" /\ under' = "closed" /\ inbound' = <<>>
  /\ CallUser("nothing")
  /\ UNCHANGED <<receive_buffer, rest, history>>

(* The user's callback returns and the handler that called it goes on,      *)
(* whatever the user did meanwhile.                                         *)
CallbackReturns ==
  /\ pc = "callback"
  /\ \/ /\ resume = "nothing"
        /\ pc' = "app"
        /\ UNCHANGED <<ioVars, resume, rest, answers, received>>
     \/ /\ resume = "fail the open"
        /\ state' = "CLOSED" /\ pc' = "app" /\ resume' = "nothing"
        /\ UNCHANGED <<receive_buffer, under, inbound, rest, answers, received>>
     \/ /\ resume = "parse"
        /\ Parse(receive_buffer, answers, inbound)
        /\ UNCHANGED <<receive_buffer, received>>
     \/ /\ resume = "indicate the rest"
        /\ received' = received \o rest /\ rest' = <<>>
        /\ pc' = (IF rest = <<>> THEN "app" ELSE "callback") /\ resume' = "nothing"
        /\ UNCHANGED <<ioVars, answers>>
  /\ UNCHANGED <<opens, reply, leftover>>

-------------------------------------------------------------------------------
(* http_proxy_io_close, from the user's thread or from one of its callbacks:*)
(* an open in progress is cancelled.                                        *)
Close ==
  /\ pc \in {"app", "callback"}
  /\ \/ /\ state \in {"OPENING_UNDERLYING_IO", "WAITING_FOR_CONNECT_RESPONSE"}
        /\ state' = "CLOSED" /\ under' = "closed" /\ inbound' = <<>>
        /\ AnswerOpen(answers, "CANCELLED")
     \/ /\ state \in {"OPEN", "ERROR"}
        /\ \/ state' = "CLOSED" /\ under' = "closed" /\ inbound' = <<>>
           \/ state' = "CLOSING" /\ under' = "closing" /\ UNCHANGED inbound
        /\ UNCHANGED answers
  /\ UNCHANGED <<receive_buffer, callVars, opens, reply, received, leftover>>

(* http_proxy_io_destroy, which no callback may call.                       *)
Destroy ==
  /\ pc = "app"
  /\ pc' = "destroyed" /\ under' = "closed"
  /\ UNCHANGED <<state, receive_buffer, inbound, resume, rest, history>>

Next ==
  \/ Open \/ Close \/ Destroy
  \/ OnUnderlyingOpenComplete \/ OnUnderlyingError
  \/ OnUnderlyingBytesReceived \/ OnUnderlyingCloseComplete
  \/ CallbackReturns

Spec == Init /\ [][Next]_vars

(* The user calls dowork and its callbacks return; the underlying io        *)
(* completes what it began, and the peer sends its reply.                   *)
FairSpec ==
  /\ Spec
  /\ WF_vars(OnUnderlyingOpenComplete) /\ WF_vars(OnUnderlyingBytesReceived)
  /\ WF_vars(CallbackReturns)

-------------------------------------------------------------------------------
(* An open is answered once, and an io that is OPEN stands on an open       *)
(* underlying io, a CLOSED one on a closed one - unless the buffer of an    *)
(* earlier connection still held a whole response (receive_buffer is never  *)
(* emptied) and memory ran out.                                             *)
StaleResponse == Malloc /\ Ends(leftover) # {}

StandsOnUnderlying ==
  /\ Len(answers) <= 1 \/ StaleResponse
  /\ pc = "app" /\ ~StaleResponse =>
       /\ state = "CLOSED" => under = "closed"
       /\ state = "OPENING_UNDERLYING_IO" => under = "opening"
       /\ state \in {"WAITING_FOR_CONNECT_RESPONSE", "OPEN", "ERROR"} => under = "open"
       /\ state = "CLOSING" => under = "closing"

(* With nothing left over from before, the io opens only when the proxy     *)
(* answered this CONNECT with a 2xx, and then indicates exactly what the    *)
(* peer sent behind the response, in order, however the bytes were cut.     *)
PayloadIntact ==
  leftover = <<>> =>
    /\ "OK" \in ToSet(answers) => Head(reply).kind = "2xx"
    /\ state = "OPEN" =>
         \A i \in DOMAIN reply : FirstEnd(reply, i) =>
           received \o rest \o inbound = Behind(reply, i)

(* SRS_HTTP_PROXY_IO_01_071: a status code that is not successful makes the *)
(* open fail with IO_OPEN_ERROR.  The code breaks it: receive_buffer        *)
(* outlives its connection, so the status that is parsed is the one an      *)
(* earlier connection left, and the refusal of this CONNECT opens the io.   *)
RefusalFailsTheOpen ==
  reply # <<>> /\ Head(reply).kind = "other" => "OK" \notin ToSet(answers)

(* SRS_HTTP_PROXY_IO_01_067: when the received bytes cannot be buffered the *)
(* open fails; so an open that was answered with IO_OPEN_ERROR is not       *)
(* answered with IO_OPEN_OK as well.  The code breaks it: it goes on to     *)
(* parse the buffer it has, which may hold an earlier success.              *)
NoMemoryNoOpen == ~({"ERROR", "OK"} \subseteq ToSet(answers))

(* An open that was begun is answered.                                      *)
OpenIsAnswered ==
  (state \in {"OPENING_UNDERLYING_IO", "WAITING_FOR_CONNECT_RESPONSE"} /\ pc = "app")
    ~> (answers # <<>> \/ pc = "destroyed")
================================================================================
