-------------------------------- MODULE UwsClient ------------------------------
(***************************************************************************)
(* The websocket client (uws_client.c): upgrade handshake, frame decoder,  *)
(* close handshake and pending sends over an underlying io.                *)
(*                                                                         *)
(* The client calls its io and its user, and both may call it back inside  *)
(* the call.  stack is the C stack, cut at those points: each frame is     *)
(* what runs next, and a "user" frame is a callback of the user, who may   *)
(* call the client from it.  With an empty stack the user's thread is its  *)
(* own, and uws_client_dowork lets the io report.                          *)
(*                                                                         *)
(* The server sends an upgrade response and then frames.  Each is two      *)
(* pieces that may arrive together or apart.                               *)
(***************************************************************************)
EXTENDS Naturals, SequencesExt

CONSTANTS
  Ios,       (* the kinds of underlying io: "socket", "tls", "proxy"         *)
  Kinds,     (* the kinds of frames the server sends                         *)
  MaxFrames, (* how many it sends on a connection                            *)
  Sends,     (* how many frames the user sends                               *)
  MaxOpens,  (* bound on the opens                                           *)
  OpensFrom, (* the callbacks from which the user may open again             *)
  MaxDepth,  (* bound on the callbacks inside one another                    *)
  UserOps,   (* the frames of those who call the client                      *)
  Malloc     (* TRUE when an allocation may fail                             *)

AllKinds == {"data", "ping", "pong", "close", "badReason", "bad", "masked"}
Events == {"open", "frame", "peerClosed", "error", "closed", "sent"}

(* "badReason" is a CLOSE whose reason is not UTF-8, "bad" a frame whose    *)
(* length is encoded in too many bytes, "masked" a masked data frame.       *)
ASSUME UwsAssumption ==
  /\ Ios \subseteq {"socket", "tls", "proxy"} /\ OpensFrom \subseteq Events
  /\ Kinds \subseteq AllKinds /\ Malloc \in BOOLEAN
  /\ {MaxFrames, Sends, MaxOpens, MaxDepth} \subseteq Nat

(* The frames of the client and of its io, and those of their callers: only *)
(* "user", unless a module calls the client that has frames of its own.     *)
ClientOps ==
  {"opened", "openError", "openFails", "tlsCloses", "closed", "toClosed", "cancel", "decode",
   "consume", "masked", "respond", "sent", "closeSent", "sendFails", "destroyed"}
ASSUME UserOpsAssumption == "user" \in UserOps /\ UserOps \cap ClientOps = {}

(* What the server may send on a connection: nothing, a refusal, or a 101   *)
(* and frames, those behind the first of which are data.  Nothing is behind *)
(* a CLOSE.                                                                 *)
Replies ==
  LET behind(kind) == IF kind \in {"close", "badReason"} THEN 0 ELSE MaxFrames - 1 IN
  {<<>>, <<"other">>} \cup
  {<<"101", kind>> \o [i \in 1 .. behind(kind) |-> "data"] : kind \in Kinds}

VARIABLES
  uws_state,
  received,      (* received_bytes, up to received_bytes_count               *)
  pending_sends, (* the frames whose completion is due                       *)
  on_ws_close_complete, (* TRUE unless the callback is NULL                  *)
  stack,
  fault,         (* memory the client no longer owns was used                *)
  (* The underlying io:                                                      *)
  io,            (* its kind                                                 *)
  under,         (* its state                                                *)
  unsent,        (* what it has accepted and not sent; a close keeps it      *)
  lost,          (* it will never complete the CLOSE it has accepted         *)
  inbound,       (* what the server has yet to send on this connection       *)
  (* History, read by the properties only:                                   *)
  nonceFailed,   (* an open ended because its nonce could not be encoded     *)
  reopened,      (* it was opened again inside one of its callbacks          *)
  opens,         (* the opens so far                                         *)
  answers,       (* what on_ws_open_complete was called with for this one    *)
  reply,         (* what the server sends on this connection                 *)
  delivered,     (* the frames given to on_ws_frame_received                 *)
  sends,         (* the frames handed to uws_client_send_frame_async         *)
  accepted,      (* those for which it returned 0                            *)
  done,          (* how often the completion of each has run                 *)
  asked,         (* the close the user began on this connection              *)
  noticed        (* how often on_ws_close_complete ran on this connection    *)

clientVars == <<uws_state, received, pending_sends, on_ws_close_complete>>
ioQueue == <<io, unsent, lost>>
ioVars == <<ioQueue, under, inbound>>
opening == <<nonceFailed, reopened, opens, reply>>
sendHistory == <<sends, accepted, done>>
history == <<opening, sendHistory, answers, delivered, asked, noticed>>
vars == <<clientVars, stack, fault, ioVars, history>>

(* A piece: which frame of the reply it belongs to, 0 for the response.     *)
Piece == [n : Nat, kind : AllKinds \cup {"101", "other"}, part : {1, 2}]
Pieces(r) ==
  [k \in 1 .. 2 * Len(r) |->
     [n |-> (k - 1) \div 2, kind |-> r[(k + 1) \div 2], part |-> 2 - (k % 2)]]

(* List q when item s is removed, if it is there.                           *)
Without(q, s) ==
  IF s \in ToSet(q) THEN RemoveAt(q, CHOOSE i \in DOMAIN q : q[i] = s) ELSE q

Frame(op, ev, n) == <<[op |-> op, ev |-> ev, n |-> n]>>
Call(op) == Frame(op, "none", 0)
User(ev) == Frame("user", ev, 0)
Opened(result) == Frame("opened", result, 0)
Sent(s) == Frame("sent", "none", s)
Consume(n) == Frame("consume", "none", n)
CloseFrame == 0          \* the reply to the peer's CLOSE, in unsent

TypeOK ==
  /\ uws_state \in {"CLOSED", "OPENING_UNDERLYING_IO", "WAITING_FOR_UPGRADE_RESPONSE", "OPEN",
                    "CLOSING_WAITING_FOR_CLOSE", "CLOSING_SENDING_CLOSE",
                    "CLOSING_UNDERLYING_IO", "ERROR"}
  /\ received \in Seq(Piece) /\ inbound \in Seq(Piece)
  /\ pending_sends \in Seq(1 .. Sends) /\ unsent \in Seq(0 .. Sends)
  /\ \A i \in DOMAIN stack : stack[i].op \in ClientOps \cup UserOps
  /\ fault \in {"none", "underflow", "dangling", "recursion"}
  /\ io \in Ios /\ under \in {"closed", "opening", "open", "failed"} /\ lost \in BOOLEAN
  /\ on_ws_close_complete \in BOOLEAN /\ asked \in {"no", "close", "handshake"}
  /\ {nonceFailed, reopened} \subseteq BOOLEAN
  /\ opens \in 0 .. MaxOpens /\ sends \in 0 .. Sends /\ noticed \in Nat
  /\ answers \in Seq({"OK", "ERROR"}) /\ reply \in Seq(AllKinds \cup {"101", "other"})
  /\ delivered \in Seq(Nat) /\ accepted \subseteq 1 .. Sends /\ done \in [1 .. Sends -> Nat]

(* uws_client_create.                                                       *)
Init ==
  /\ uws_state = "CLOSED" /\ received = <<>> /\ pending_sends = <<>>
  /\ on_ws_close_complete = FALSE /\ stack = <<>> /\ fault = "none"
  /\ io \in Ios /\ under = "closed" /\ unsent = <<>> /\ lost = FALSE /\ inbound = <<>>
  /\ opens = 0 /\ answers = <<>> /\ reply = <<>> /\ delivered = <<>>
  /\ sends = 0 /\ accepted = {} /\ done = [s \in 1 .. Sends |-> 0]
  /\ asked = "no" /\ noticed = 0 /\ nonceFailed = FALSE /\ reopened = FALSE

-------------------------------------------------------------------------------
(* The underlying io.  Each outcome of a call: whether it returned 0, what  *)
(* state the io is in, and what it calls before it returns.  Every io of    *)
(* this library that can be under the client completes a close in the call. *)
Outcome(ok, u, calls) == [ok |-> ok, under |-> u, calls |-> calls]

(* xio_open: a socket connects inside the call and also reports a failure,  *)
(* the others go on later.                                                  *)
XioOpen ==
  IF under # "closed"
    THEN {Outcome(FALSE, under, IF io = "socket" THEN Opened("ERROR") ELSE <<>>)}
    ELSE {Outcome(FALSE, "closed", IF io = "socket" THEN Opened("ERROR") ELSE <<>>),
          IF io = "socket" THEN Outcome(TRUE, "open", Opened("OK"))
                           ELSE Outcome(TRUE, "opening", <<>>)}

(* xio_close, with a callback or without.  A socket always calls it; TLS    *)
(* says nothing unless it was open, and cancels an open before it leaves    *)
(* that state; a proxy that is closed refuses.                              *)
XioClose(callback) ==
  LET closed == IF callback THEN Call("closed") ELSE <<>>
      cancelled == Opened("CANCELLED") IN
  CASE io = "socket" -> Outcome(TRUE, "closed", closed)
    [] io = "tls" /\ under = "opening" -> Outcome(TRUE, under, cancelled \o Call("tlsCloses"))
    [] io = "tls" /\ under # "opening" ->
         Outcome(TRUE, "closed", IF under = "open" THEN closed ELSE <<>>)
    [] io = "proxy" /\ under = "opening" -> Outcome(TRUE, "closed", cancelled)
    [] io = "proxy" /\ under = "closed" -> Outcome(FALSE, under, <<>>)
    [] OTHER -> Outcome(TRUE, "closed", closed)

(* xio_send of item s, with the frame its completion is: it is sent in the  *)
(* call, kept for later, lost, or refused, before or after its completion.  *)
XioSend(s, completion) ==
  LET result(ok, queue, calls, isLost) ==
        [ok |-> ok, unsent |-> queue, calls |-> calls,
         lost |-> lost \/ (isLost /\ s = CloseFrame)] IN
  {result(FALSE, unsent, <<>>, FALSE)} \cup
  (IF under # "open" THEN {}
   ELSE {result(FALSE, unsent, completion, FALSE),
         result(TRUE, Append(unsent, s), <<>>, FALSE)} \cup
        (IF unsent # <<>> THEN {}
         ELSE {result(TRUE, unsent, completion, FALSE), result(TRUE, unsent, <<>>, TRUE)}))

(* The bytes of a connection end with it.                                   *)
Goes(u) == /\ under' = u
           /\ inbound' = IF u \in {"open", "opening"} THEN inbound ELSE <<>>

-------------------------------------------------------------------------------
Alive == fault = "none" /\ stack # Call("destroyed")

(* The user's thread is its own, or inside one of its callbacks.            *)
InUser ==
  /\ Alive
  /\ \/ stack = <<>>
     \/ /\ stack # <<>> /\ stack[1].op = "user"
        /\ Len(SelectSeq(stack, LAMBDA f : f.op = "user")) <= MaxDepth

(* uws_client_dowork, which lets the io report unless the client is CLOSED. *)
DoWork == stack = <<>> /\ uws_state # "CLOSED" /\ Alive

(* The frame on top runs; Rest is what it returns to.                       *)
Running == stack # <<>> /\ Alive
Top(op) == stack[1].op = op
Rest == Tail(stack)

(* indicate_ws_open_complete_error.                                         *)
IndicateOpenError(below) ==
  /\ uws_state' = "CLOSED"
  /\ answers' = Append(answers, "ERROR")
  /\ stack' = User("open") \o below

(* indicate_ws_open_complete_error_and_close, up to what the close calls.   *)
IndicateOpenErrorAndClose(below) ==
  LET o == XioClose(FALSE) IN
  /\ Goes(o.under)
  /\ stack' = o.calls \o Call("openError") \o below
  /\ UNCHANGED <<uws_state, answers>>

(* indicate_ws_error.                                                       *)
IndicateError(below) == uws_state' = "ERROR" /\ stack' = User("error") \o below

(* indicate_ws_close_complete.                                              *)
IndicateClosed(below) ==
  /\ uws_state' = "CLOSED"
  /\ noticed' = noticed + (IF on_ws_close_complete THEN 1 ELSE 0)
  /\ stack' = (IF on_ws_close_complete THEN User("closed") ELSE <<>>) \o below

(* The client closes its io, to be told; a close that fails is an error.    *)
CloseUnderlying(below) ==
  LET o == XioClose(TRUE) IN
  /\ Goes(o.under)
  /\ IF o.ok THEN uws_state' = "CLOSING_UNDERLYING_IO" /\ stack' = o.calls \o below
             ELSE IndicateError(Call("toClosed") \o below)

(* The same, when a close that fails is taken for complete.                 *)
CloseUnderlyingOrIndicate(below, failed) ==
  LET o == XioClose(TRUE) IN
  /\ Goes(o.under)
  /\ IF o.ok
       THEN /\ uws_state' = "CLOSING_UNDERLYING_IO" /\ stack' = o.calls \o below
            /\ UNCHANGED noticed
       ELSE IndicateClosed(failed \o below)

-------------------------------------------------------------------------------
(* uws_client_open_async on a CLOSED client; where it returns to when it    *)
(* has succeeded and when it has failed.                                    *)
OpenWith(opened, failed) ==
  /\ uws_state = "CLOSED" /\ opens < MaxOpens
  /\ opens' = opens + 1 /\ reopened' = (reopened \/ stack # <<>>)
  /\ answers' = <<>> /\ delivered' = <<>>
  /\ asked' = "no" /\ noticed' = 0
  /\ received' = <<>> /\ lost' = FALSE
  /\ uws_state' = "OPENING_UNDERLYING_IO"
  /\ \E o \in XioOpen :
       /\ under' = o.under
       /\ reply' \in IF o.ok THEN Replies ELSE {<<>>}
       /\ inbound' = Pieces(reply')
       /\ stack' = o.calls \o (IF o.ok THEN opened ELSE Call("openFails") \o failed)
  /\ UNCHANGED <<pending_sends, on_ws_close_complete, fault, io, unsent, sendHistory,
                 nonceFailed>>
OpenAsync ==
  /\ InUser
  /\ stack # <<>> => stack[1].ev \in OpensFrom
  /\ OpenWith(stack, stack)

(* uws_client_close_async, with a callback or without, on a client that is  *)
(* not closed or closing.                                                   *)
CloseWith(callback, then, failed) ==
  LET o == XioClose(callback) IN
  /\ uws_state \in {"OPEN", "ERROR", "OPENING_UNDERLYING_IO", "WAITING_FOR_UPGRADE_RESPONSE"}
  /\ on_ws_close_complete' = callback
  /\ uws_state' = "CLOSING_UNDERLYING_IO"
  /\ Goes(o.under)
  /\ stack' = o.calls \o (IF o.ok THEN Call("cancel") \o then ELSE failed)
  /\ asked' = IF asked = "handshake" THEN asked ELSE "close"
  /\ UNCHANGED <<received, pending_sends, fault, ioQueue, opening, answers, delivered,
                 sendHistory, noticed>>
CloseAsync == InUser /\ \E callback \in BOOLEAN : CloseWith(callback, stack, stack)

(* uws_client_close_handshake_async, always with a callback here.           *)
CloseHandshakeAsync ==
  /\ InUser
  /\ uws_state \in {"OPEN", "ERROR", "OPENING_UNDERLYING_IO", "WAITING_FOR_UPGRADE_RESPONSE"}
  /\ on_ws_close_complete' = TRUE
  /\ uws_state' = "CLOSING_WAITING_FOR_CLOSE"
  /\ asked' = "handshake"
  /\ \/ under = "open" /\ stack' = Call("cancel") \o stack
     \/ UNCHANGED stack                       \* the CLOSE cannot be sent
  /\ UNCHANGED <<received, pending_sends, fault, ioVars, opening, answers, delivered,
                 sendHistory, noticed>>

(* uws_client_send_frame_async on a client that is OPEN.                    *)
SendFrameWith(sent, failed) ==
  LET s == sends + 1 IN
  /\ uws_state = "OPEN" /\ sends < Sends
  /\ sends' = s
  /\ pending_sends' = Append(pending_sends, s)
  /\ \E o \in XioSend(s, Sent(s)) :
       /\ unsent' = o.unsent /\ lost' = o.lost
       /\ accepted' = IF o.ok THEN accepted \cup {s} ELSE accepted
       /\ stack' = o.calls \o (IF o.ok THEN sent ELSE Frame("sendFails", "none", s) \o failed)
  /\ UNCHANGED <<uws_state, received, on_ws_close_complete, fault, io, under, inbound, opening,
                 answers, delivered, done, asked, noticed>>
SendFrameAsync == InUser /\ SendFrameWith(stack, stack)

(* uws_client_destroy.                                                      *)
DestroyClient ==
  /\ \/ uws_state \in {"OPEN", "ERROR"} /\ CloseWith(FALSE, Call("destroyed"), Call("destroyed"))
     \/ /\ uws_state \notin {"OPEN", "ERROR"} /\ stack' = Call("destroyed")
        /\ UNCHANGED <<clientVars, fault, ioVars, history>>

Destroy == Alive /\ stack = <<>> /\ DestroyClient

UserReturns ==
  /\ Top("user")
  /\ stack' = Rest
  /\ UNCHANGED <<clientVars, fault, ioVars, history>>

-------------------------------------------------------------------------------
(* What is left of the calls above.                                         *)

(* xio_open has failed.                                                     *)
OpenFails ==
  /\ Top("openFails")
  /\ uws_state' = "CLOSED"
  /\ stack' = Rest
  /\ UNCHANGED <<received, pending_sends, on_ws_close_complete, fault, ioVars, history>>

OpenError_Forgets ==
  Top("openError") /\ stack' = Rest /\ UNCHANGED <<clientVars, fault, ioVars, history>>
(* The io is closed; the open is answered.                                  *)
OpenError ==
  /\ Top("openError")
  /\ IndicateOpenError(Rest)
  /\ UNCHANGED <<received, pending_sends, on_ws_close_complete, fault, ioVars, opening,
                 delivered, sendHistory, asked, noticed>>

TlsCloses ==
  /\ Top("tlsCloses")
  /\ stack' = Rest /\ Goes("closed")
  /\ UNCHANGED <<clientVars, fault, ioQueue, history>>

ToClosed ==
  /\ Top("toClosed")
  /\ uws_state' = "CLOSED" /\ stack' = Rest
  /\ UNCHANGED <<received, pending_sends, on_ws_close_complete, fault, ioVars, history>>

(* A close cancels every pending send.                                      *)
Cancel ==
  /\ Top("cancel")
  /\ \/ /\ pending_sends = <<>> /\ stack' = Rest
        /\ UNCHANGED <<pending_sends, done>>
     \/ /\ pending_sends # <<>>
        /\ pending_sends' = Tail(pending_sends)
        /\ done' = [done EXCEPT ![Head(pending_sends)] = @ + 1]
        /\ stack' = Frame("user", "sent", Head(pending_sends)) \o stack
  /\ UNCHANGED <<uws_state, received, on_ws_close_complete, fault, ioVars, opening, answers,
                 delivered, sends, accepted, asked, noticed>>

SendFails_Keeps ==
  Top("sendFails") /\ stack' = Rest /\ UNCHANGED <<clientVars, fault, ioVars, history>>
(* xio_send has failed: the send leaves the list if it is still there.      *)
SendFails ==
  /\ Top("sendFails")
  /\ pending_sends' = Without(pending_sends, stack[1].n)
  /\ stack' = Rest
  /\ UNCHANGED <<uws_state, received, on_ws_close_complete, fault, ioVars, history>>

(* on_underlying_io_send_complete: its context is the send's list item.     *)
OnUnderlyingSendComplete ==
  LET s == stack[1].n IN
  /\ Top("sent")
  /\ \/ /\ s \in ToSet(pending_sends)
        /\ pending_sends' = Without(pending_sends, s)
        /\ done' = [done EXCEPT ![s] = @ + 1]
        /\ stack' = Frame("user", "sent", s) \o Rest
        /\ UNCHANGED fault
     \/ /\ s \notin ToSet(pending_sends)
        /\ fault' = "dangling"
        /\ UNCHANGED <<pending_sends, done, stack>>
  /\ UNCHANGED <<uws_state, received, on_ws_close_complete, ioVars, opening, answers, delivered,
                 sends, accepted, asked, noticed>>

OnUnderlyingCloseSent_DoesNothing ==
  Top("closeSent") /\ stack' = Rest /\ UNCHANGED <<clientVars, fault, ioVars, history>>
(* on_underlying_io_close_sent.                                             *)
OnUnderlyingCloseSent ==
  /\ Top("closeSent")
  /\ \/ /\ uws_state = "CLOSING_SENDING_CLOSE"
        /\ CloseUnderlyingOrIndicate(Rest, <<>>)
     \/ /\ uws_state # "CLOSING_SENDING_CLOSE" /\ stack' = Rest
        /\ UNCHANGED <<uws_state, under, inbound, noticed>>
  /\ UNCHANGED <<received, pending_sends, on_ws_close_complete, fault, ioQueue, opening, answers,
                 delivered, sendHistory, asked>>

(* on_underlying_io_close_complete.                                         *)
OnUnderlyingCloseComplete ==
  /\ Top("closed")
  /\ IF uws_state = "CLOSING_UNDERLYING_IO"
       THEN IndicateClosed(Call("toClosed") \o Rest)
       ELSE stack' = Rest /\ UNCHANGED <<uws_state, noticed>>
  /\ UNCHANGED <<received, pending_sends, on_ws_close_complete, fault, ioVars, opening, answers,
                 delivered, sendHistory, asked>>

(* on_underlying_io_open_complete.  A client that is not opening closes its *)
(* io, and a TLS io that is being closed answers by calling this again.     *)
OnUnderlyingOpenComplete ==
  /\ Top("opened")
  /\ \/ /\ uws_state # "OPENING_UNDERLYING_IO" /\ ~(io = "tls" /\ under = "opening")
        /\ IndicateOpenErrorAndClose(Rest)
        /\ UNCHANGED <<fault, nonceFailed>>
     \/ /\ uws_state # "OPENING_UNDERLYING_IO" /\ io = "tls" /\ under = "opening"
        /\ fault' = "recursion"
        /\ UNCHANGED <<uws_state, stack, under, inbound, answers, nonceFailed>>
     \/ /\ uws_state = "OPENING_UNDERLYING_IO" /\ stack[1].ev # "OK"
        /\ IndicateOpenError(Rest)
        /\ UNCHANGED <<under, inbound, fault, nonceFailed>>
     \/ /\ uws_state = "OPENING_UNDERLYING_IO" /\ stack[1].ev = "OK"
        /\ \/ /\ Malloc                 \* the nonce cannot be encoded
              /\ IndicateOpenError(Rest)
              /\ nonceFailed' = TRUE
              /\ UNCHANGED <<under, inbound>>
           \/ IndicateOpenErrorAndClose(Rest) /\ UNCHANGED nonceFailed
           \/ /\ under = "open"
              /\ uws_state' = "WAITING_FOR_UPGRADE_RESPONSE"
              /\ stack' = Rest
              /\ UNCHANGED <<under, inbound, answers, nonceFailed>>
        /\ UNCHANGED fault
  /\ UNCHANGED <<received, pending_sends, on_ws_close_complete, ioQueue, reopened, opens, reply,
                 delivered, sendHistory, asked, noticed>>

(* consume_received_bytes, of n pieces.                                     *)
Consumed_Half(n) == Tail(received)
Consumed(n) == SubSeq(received, n + 1, Len(received))

-------------------------------------------------------------------------------
(* The decoder of on_underlying_io_bytes_received, one turn of its loop.    *)
DecodesNothing ==
  /\ uws_state \notin {"OPENING_UNDERLYING_IO", "WAITING_FOR_UPGRADE_RESPONSE", "OPEN",
                       "CLOSING_WAITING_FOR_CLOSE"}
  /\ stack' = Rest
  /\ UNCHANGED <<clientVars, fault, ioVars, history>>

(* The response to the upgrade request, once it is complete.                *)
DecodeResponse ==
  /\ uws_state = "WAITING_FOR_UPGRADE_RESPONSE"
  /\ \/ /\ Len(received) < 2 /\ stack' = Rest
        /\ UNCHANGED <<uws_state, received, under, inbound, answers>>
     \/ /\ Len(received) >= 2 /\ received[1].kind # "101"
        /\ IndicateOpenErrorAndClose(Rest)
        /\ UNCHANGED received
     \/ /\ Len(received) >= 2 /\ received[1].kind = "101"
        /\ received' = Consumed(2)
        /\ uws_state' = "OPEN"
        /\ answers' = Append(answers, "OK")
        /\ stack' = User("open") \o Call("decode") \o Rest
        /\ UNCHANGED <<under, inbound>>
  /\ UNCHANGED <<pending_sends, on_ws_close_complete, fault, ioQueue, opening, delivered,
                 sendHistory, asked, noticed>>

(* Bytes before the io is open: the client was opened again in a callback.  *)
DecodeTooEarly ==
  /\ uws_state = "OPENING_UNDERLYING_IO"
  /\ IndicateOpenErrorAndClose(Rest)
  /\ UNCHANGED <<received, pending_sends, on_ws_close_complete, fault, ioQueue, opening,
                 delivered, sendHistory, asked, noticed>>

(* What the decoder takes the next bytes for.  After a close handshake it   *)
(* may read the response as a frame, or start in the middle of one: the     *)
(* letters of HTTP are a CLOSE.                                             *)
Reads ==
  CASE received[1].part = 2 -> Kinds
    [] received[1].part = 1 /\ received[1].kind \in {"101", "other"} -> {"close"}
    [] OTHER -> {received[1].kind}
InFrames == uws_state \in {"OPEN", "CLOSING_WAITING_FOR_CLOSE"}
Complete(kind) == InFrames /\ Len(received) >= 2 /\ kind \in Reads

DecodePart ==
  /\ InFrames /\ Len(received) < 2
  /\ received # <<>> => Reads \notin {{"bad"}, {"masked"}}
  /\ stack' = Rest
  /\ UNCHANGED <<clientVars, fault, ioVars, history>>

(* The header of a bad frame is refused before the rest of it is there.     *)
DecodeBad ==
  /\ InFrames /\ received # <<>> /\ "bad" \in Reads
  /\ IndicateError(Rest)
  /\ UNCHANGED <<received, pending_sends, on_ws_close_complete, fault, ioVars, history>>

(* A masked frame is refused too, but the decoder goes on with it.  It takes *)
(* the mask bit for 128 more bytes of payload: with some of the next frame  *)
(* there, the frame callback gets both.                                     *)
DecodeMasked ==
  /\ InFrames /\ received # <<>> /\ "masked" \in Reads
  /\ IndicateError(Call("masked") \o Rest)
  /\ UNCHANGED <<received, pending_sends, on_ws_close_complete, fault, ioVars, history>>
Masked ==
  /\ Top("masked")
  /\ \/ /\ Len(received) < 3 /\ stack' = Rest
        /\ UNCHANGED delivered
     \/ /\ Len(received) >= 3
        /\ delivered' = Append(delivered, received[1].n)
        /\ stack' = User("frame") \o Consume(3) \o Call("decode") \o Rest
  /\ UNCHANGED <<clientVars, fault, ioVars, opening, answers, sendHistory, asked, noticed>>

DecodeData ==
  /\ Complete("data")
  /\ delivered' = Append(delivered, received[1].n)
  /\ stack' = User("frame") \o Consume(2) \o Call("decode") \o Rest
  /\ UNCHANGED <<clientVars, fault, ioVars, opening, answers, sendHistory, asked, noticed>>

(* A PING leaves the client in ERROR, whether the PONG can be sent or not;  *)
(* after a PONG the loop ends.                                              *)
DecodePing ==
  /\ Complete("ping")
  /\ uws_state' = "ERROR"
  /\ stack' = Consume(2) \o Rest
  /\ UNCHANGED <<received, pending_sends, on_ws_close_complete, fault, ioVars, history>>
DecodePong ==
  /\ Complete("pong")
  /\ stack' = Consume(2) \o Rest
  /\ UNCHANGED <<clientVars, fault, ioVars, history>>

(* A CLOSE: the client answers it or, when it has asked for it, closes its  *)
(* io and answers all the same; then the user is told.                      *)
DecodeClose ==
  LET toUser == User("peerClosed") \o Consume(2) \o Rest IN
  /\ \/ /\ Complete("badReason")
        /\ CloseUnderlying(toUser)
        /\ UNCHANGED noticed
     \/ /\ Complete("close") /\ uws_state = "CLOSING_WAITING_FOR_CLOSE"
        /\ CloseUnderlyingOrIndicate(Call("respond") \o toUser, Call("toClosed"))
     \/ /\ Complete("close") /\ uws_state = "OPEN"
        /\ uws_state' = "CLOSING_SENDING_CLOSE"
        /\ stack' = Call("respond") \o toUser
        /\ UNCHANGED <<under, inbound, noticed>>
  /\ UNCHANGED <<received, pending_sends, on_ws_close_complete, fault, ioQueue, opening, answers,
                 delivered, sendHistory, asked>>

(* The CLOSE that answers the peer's.  When it cannot be sent the client    *)
(* closes its io; a completion that says so does nothing.                   *)
Respond ==
  /\ Top("respond")
  /\ \/ \E o \in XioSend(CloseFrame, Call("closeSent")) :
          /\ o.ok
          /\ unsent' = o.unsent /\ lost' = o.lost
          /\ stack' = o.calls \o Rest
          /\ UNCHANGED <<uws_state, under, inbound>>
     \/ /\ CloseUnderlying(Rest)
        /\ UNCHANGED <<unsent, lost>>
  /\ UNCHANGED <<received, pending_sends, on_ws_close_complete, fault, io, history>>

(* The frame is consumed after its callback.                                *)
ConsumeReceivedBytes ==
  /\ Top("consume")
  /\ \/ /\ Len(received) >= stack[1].n
        /\ received' = Consumed(stack[1].n)
        /\ stack' = Rest
        /\ UNCHANGED fault
     \/ /\ Len(received) < stack[1].n
        /\ fault' = "underflow"
        /\ UNCHANGED <<received, stack>>
  /\ UNCHANGED <<uws_state, pending_sends, on_ws_close_complete, ioVars, history>>

Decoder ==
  /\ Top("decode")
  /\ \/ DecodesNothing \/ DecodeResponse \/ DecodeTooEarly \/ DecodePart \/ DecodeBad
     \/ DecodeMasked \/ DecodeData \/ DecodePing \/ DecodePong \/ DecodeClose
ClientFrames ==
  \/ Decoder \/ Masked \/ Respond \/ ConsumeReceivedBytes \/ OpenFails \/ OpenError
  \/ TlsCloses \/ ToClosed \/ Cancel \/ SendFails \/ OnUnderlyingSendComplete
  \/ OnUnderlyingCloseSent \/ OnUnderlyingCloseComplete \/ OnUnderlyingOpenComplete
Frames == Running /\ (ClientFrames \/ UserReturns)

-------------------------------------------------------------------------------
(* What the io reports from uws_client_dowork.                              *)
UnderlyingOpens ==
  /\ DoWork /\ under = "opening"
  /\ \/ Goes("open") /\ stack' = Opened("OK")
     \/ Goes("closed") /\ stack' = Opened("ERROR")
  /\ UNCHANGED <<clientVars, fault, ioQueue, history>>

UnderlyingSends ==
  /\ DoWork /\ under \in {"open", "opening"} /\ unsent # <<>>
  /\ unsent' = Tail(unsent)
  /\ stack' = IF Head(unsent) = CloseFrame THEN Call("closeSent") ELSE Sent(Head(unsent))
  /\ UNCHANGED <<clientVars, fault, io, under, lost, inbound, history>>

(* on_underlying_io_bytes_received: n pieces of what is under way arrive.   *)
OnUnderlyingBytesReceived(n) ==
  /\ DoWork /\ under = "open" /\ n \in 1 .. Len(inbound)
  /\ \/ /\ uws_state \in {"WAITING_FOR_UPGRADE_RESPONSE", "OPEN", "CLOSING_WAITING_FOR_CLOSE"}
        /\ received' = received \o SubSeq(inbound, 1, n)
        /\ inbound' = SubSeq(inbound, n + 1, Len(inbound))
        /\ stack' = Call("decode")
        /\ UNCHANGED <<uws_state, under, answers>>
     \/ /\ uws_state = "WAITING_FOR_UPGRADE_RESPONSE" /\ Malloc
        /\ IndicateOpenErrorAndClose(<<>>)
        /\ UNCHANGED received
     \/ /\ uws_state \in {"OPEN", "CLOSING_WAITING_FOR_CLOSE"} /\ Malloc
        /\ IndicateError(<<>>)
        /\ inbound' = SubSeq(inbound, n + 1, Len(inbound))
        /\ UNCHANGED <<received, under, answers>>
     \/ /\ uws_state \notin {"WAITING_FOR_UPGRADE_RESPONSE", "OPEN", "CLOSING_WAITING_FOR_CLOSE",
                             "OPENING_UNDERLYING_IO"}
        /\ inbound' = SubSeq(inbound, n + 1, Len(inbound))
        /\ UNCHANGED <<uws_state, received, stack, under, answers>>
  /\ UNCHANGED <<pending_sends, on_ws_close_complete, fault, ioQueue, opening, delivered,
                 sendHistory, asked, noticed>>

(* on_underlying_io_error.  A socket stays open when a receive fails and    *)
(* not when a send does, whose completion is lost; TLS stays open unless it *)
(* fails itself.                                                            *)
OnUnderlyingError ==
  /\ DoWork /\ under = "open"
  /\ inbound' = <<>>
  /\ \E u \in {"open", "failed"}, n \in {0, 1} :
       /\ n <= Len(unsent)
       /\ CASE io = "socket" -> (u = "failed") = (n = 1)
            [] io = "tls" -> u = "failed" => n = 0
            [] io = "proxy" -> u = "failed"
       /\ unsent' = SubSeq(unsent, n + 1, Len(unsent))
       /\ lost' = (lost \/ (n = 1 /\ Head(unsent) = CloseFrame))
       /\ \/ /\ uws_state \in {"CLOSING_WAITING_FOR_CLOSE", "CLOSING_SENDING_CLOSE",
                               "CLOSING_UNDERLYING_IO"}
             /\ under' = "closed"
             /\ IndicateClosed(<<>>)
             /\ UNCHANGED answers
          \/ /\ uws_state \in {"OPENING_UNDERLYING_IO", "WAITING_FOR_UPGRADE_RESPONSE"}
             /\ under' = "closed"
             /\ IndicateOpenError(<<>>)
             /\ UNCHANGED noticed
          \/ /\ uws_state = "OPEN"
             /\ under' = u
             /\ IndicateError(<<>>)
             /\ UNCHANGED <<answers, noticed>>
          \/ /\ uws_state = "ERROR"
             /\ under' = u
             /\ UNCHANGED <<uws_state, stack, answers, noticed>>
  /\ UNCHANGED <<received, pending_sends, on_ws_close_complete, fault, io, opening, delivered,
                 sendHistory, asked>>

Reports == UnderlyingOpens \/ UnderlyingSends
           \/ \E n \in 1 .. 2 * (MaxFrames + 1) : OnUnderlyingBytesReceived(n)

Next == OpenAsync \/ CloseAsync \/ CloseHandshakeAsync \/ SendFrameAsync \/ Destroy \/ Frames
        \/ Reports \/ OnUnderlyingError

Spec == Init /\ [][Next]_vars

(* Callbacks return; uws_client_dowork is called for ever, and an io that   *)
(* holds something to report in the end reports something.                  *)
FairSpec == Spec /\ WF_vars(Frames \/ Reports)

-------------------------------------------------------------------------------
(* An open is answered at most once, whatever calls back meanwhile, unless  *)
(* it was made in the callback of the one before.                           *)
OpenAnsweredOnce == ~reopened => Len(answers) <= 1

(* The frames due to the user: data, up to the first frame that ends the    *)
(* session.                                                                 *)
Due == {n \in 1 .. Len(reply) - 1 :
          reply[n + 1] = "data" /\ \A m \in 1 .. n - 1 : reply[m + 1] \in {"data", "pong"}}

(* The user gets the frames due to him in the order of the server, none     *)
(* twice and none left out; a masked one may still reach him after its      *)
(* error.  A client that began the close handshake in ERROR may start in    *)
(* mid-frame.                                                               *)
FramesInOrder ==
  asked = "handshake" \/
    \A j \in DOMAIN delivered :
      /\ delivered[j] \in Due \/ reply[delivered[j] + 1] = "masked"
      /\ \A i \in 1 .. j - 1 : delivered[i] < delivered[j]
      /\ \A n \in Due : n < delivered[j] => n \in ToSet(delivered)

(* While the client is OPEN, a frame that is there is not left undecoded,   *)
(* unless a PONG ended the loop.                                            *)
NoFrameWaits ==
  stack = <<>> /\ uws_state = "OPEN" /\ "pong" \notin ToSet(reply) => Len(received) < 2

(* A send is completed at most once; between calls the list holds exactly   *)
(* the accepted sends that are not completed.                               *)
SendsAccounted ==
  /\ \A s \in 1 .. Sends : done[s] <= 1
  /\ stack = <<>> => ToSet(pending_sends) = {s \in accepted : done[s] = 0}

(* The fields keep their types, and every callback the client was given     *)
(* runs once: that of an open with one result, that of a send with the send *)
(* or its failure.                                                          *)
CallbacksRunOnce == TypeOK /\ OpenAnsweredOnce /\ SendsAccounted

(* The decoder consumes what it has read, whatever its callbacks do, unless *)
(* they open again.                                                         *)
DecoderOwnsItsBytes == ~reopened => fault # "underflow"

(* Frames come out of the buffer whole, in order and as soon as they are    *)
(* there, however they were cut and whatever their callbacks do.            *)
FramesComeThrough == FramesInOrder /\ NoFrameWaits /\ DecoderOwnsItsBytes

(* Between calls a CLOSED client has closed its io, unless the nonce of the *)
(* upgrade request could not be encoded or a callback opened again.         *)
ClosedIsClosed ==
  stack = <<>> /\ uws_state = "CLOSED" /\ ~nonceFailed /\ ~reopened => under = "closed"

(* When uws_client_close_async returns, the client is CLOSED and its sends  *)
(* are cancelled, unless a TLS io that had failed keeps the close to        *)
(* itself; and on_ws_close_complete runs once, unless the client was opened *)
(* again in a callback, and only if it was ever passed to a close.  A       *)
(* client that has still to answer the CLOSE of the peer has its answer in  *)
(* its io, which will send it or fail, unless the io has lost it.           *)
CloseCompletes ==
  /\ stack = <<>> /\ uws_state = "CLOSING_SENDING_CLOSE" =>
       under = "open" /\ (CloseFrame \in ToSet(unsent) \/ lost)
  /\ stack = <<>> /\ asked = "close" /\ on_ws_close_complete =>
       /\ pending_sends = <<>>
       /\ uws_state = "CLOSED" \/ (uws_state = "CLOSING_UNDERLYING_IO" /\ io = "tls")
  /\ asked # "handshake" /\ ~reopened => noticed <= 1
  /\ asked = "no" /\ opens = 1 => noticed = 0

(* A close ends in CLOSED, and CLOSED is closed all the way down.           *)
ClosesComplete == ClosedIsClosed /\ CloseCompletes

(* SRS_UWS_CLIENT_01_468: on_ws_close_complete is called when the close is   *)
(* complete; so a connection that ends is told of once, also when it was the *)
(* user who began the handshake.  The code breaks it: the peer's CLOSE that *)
(* answers his is answered on the io just closed, and the io closed again.  *)
CloseToldOnce == ~reopened => noticed <= 1

(* An open whose server answers does not stay pending.                      *)
OpenIsAnswered ==
  (uws_state \in {"OPENING_UNDERLYING_IO", "WAITING_FOR_UPGRADE_RESPONSE"} /\ reply # <<>>)
    ~> (uws_state \notin {"OPENING_UNDERLYING_IO", "WAITING_FOR_UPGRADE_RESPONSE"} \/ ~Alive)
================================================================================
