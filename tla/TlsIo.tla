---------------------------------- MODULE TlsIo --------------------------------
(***************************************************************************)
(* The TLS io (tlsio_openssl.c) over a socket or an http proxy.            *)
(*                                                                         *)
(* OpenSSL keeps a connection in the SSL object with its two memory BIOs:  *)
(* what comes from the io below is written to one, what is to go there is  *)
(* read from the other.  They hold tokens: the flights of the handshake,    *)
(* two on each side, and records of the application's data.                *)
(*                                                                         *)
(* Every callback of the user, and every call of xio that calls back, ends *)
(* a step; the stack says what is still to run when it returns.            *)
(***************************************************************************)
EXTENDS Integers, Sequences, SequencesExt, FiniteSets

CONSTANTS
  Ios,        (* the ios below that are tried: "socket", "proxy"             *)
  MaxOpens,   (* bound on the opens                                          *)
  Sends,      (* bound on the sends of a connection                          *)
  Records,    (* the records a server sends                                  *)
  MaxFailures (* bound on the allocations that fail                          *)

ASSUME TlsAssumption ==
  /\ Ios \subseteq {"socket", "proxy"}
  /\ MaxOpens \in Nat /\ Sends \in Nat /\ Records \in Nat /\ MaxFailures \in Nat

VARIABLES
  tlsio_state,
  ssl,      (* ssl # NULL                                                    *)
  flight,   (* how far its handshake is: the flight of the server it awaits, *)
            (* 0 before the first call, 3 once it is complete                *)
  in_bio, out_bio,
  on_io_close_complete, (* TRUE unless the callback is NULL                  *)
  stack,
  (* The io below, and the peer:                                             *)
  io,       (* which one                                                     *)
  under,    (* its state                                                     *)
  inbound,  (* what the server has sent and the io not yet reported          *)
  failures,
  (* History, read by the properties only:                                   *)
  opens,
  returned, (* what the last tlsio_openssl_open returned, "none" before that *)
  answers,  (* what its on_io_open_complete was told                         *)
  written,  (* how many records were encrypted for this connection           *)
  wire,     (* what the io below took                                        *)
  lost,     (* of this, something never arrived or is never answered         *)
  delivered,(* the records the user was given                                *)
  early,    (* a record came together with the end of the handshake and      *)
            (* nothing since                                                 *)
  oddity    (* what the properties leave out, by name                        *)

sslVars == <<ssl, flight, in_bio, out_bio>>
tlsVars == <<tlsio_state, sslVars, on_io_close_complete>>
ioVars == <<io, under, inbound>>
openHistory == <<opens, returned, answers>>
dataHistory == <<written, wire, lost, delivered, early>>
history == <<openHistory, dataHistory, oddity>>
vars == <<tlsVars, stack, ioVars, failures, history>>

Token == [t : {"hs", "rec", "bad"}, n : Nat]
Flight(n) == [t |-> "hs", n |-> n]
Rec(n) == [t |-> "rec", n |-> n]
Bad == [t |-> "bad", n |-> 0]

Opening == {"OPENING_UNDERLYING_IO", "IN_HANDSHAKE"}

(* CLOSING lasts for no longer than the close of the io below.             *)
TypeOK ==
  /\ tlsio_state \in Opening \cup {"NOT_OPEN", "HANDSHAKE_FAILED", "OPEN", "ERROR"}
  /\ ssl \in BOOLEAN /\ flight \in 0 .. 3
  /\ in_bio \in Seq(Token) /\ out_bio \in Seq(Token)
  /\ on_io_close_complete \in BOOLEAN
  /\ io \in Ios /\ under \in {"closed", "opening", "open", "failed"}
  /\ inbound \in Seq(Token) /\ failures \in 0 .. MaxFailures
  /\ opens \in 0 .. MaxOpens /\ returned \in {"none", "ok", "failed"}
  /\ answers \in Seq({"OK", "ERROR", "CANCELLED"})
  /\ written \in 0 .. Sends /\ wire \in Seq(Token) /\ lost \in BOOLEAN
  /\ delivered \in Seq(1 .. Records) /\ early \in BOOLEAN
  /\ oddity \subseteq {"reopened", "answeredTwice", "notAnswered", "closedInDecode",
                       "freedBio", "failedOpening"}

(* tlsio_openssl_create.                                                    *)
Init ==
  /\ tlsio_state = "NOT_OPEN" /\ ssl = FALSE /\ flight = 0
  /\ in_bio = <<>> /\ out_bio = <<>> /\ on_io_close_complete = FALSE
  /\ stack = <<>>
  /\ io \in Ios /\ under = "closed" /\ inbound = <<>> /\ failures = 0
  /\ opens = 0 /\ returned = "none" /\ answers = <<>>
  /\ written = 0 /\ wire = <<>> /\ lost = FALSE /\ delivered = <<>> /\ early = FALSE
  /\ oddity = {}


-------------------------------------------------------------------------------
Frame(op, ev) == <<[op |-> op, ev |-> ev]>>
Call(op) == Frame(op, "none")
User(ev) == Frame("user", ev)
Top(op) == stack[1].op = op
Rest == Tail(stack)

Alive == "freedBio" \notin oddity /\ stack # Call("destroyed")
Running == Alive /\ stack # <<>>

(* The user's thread is its own, or inside one of its callbacks; what it    *)
(* calls there may call it back, but it calls nothing from that callback.   *)
InUser ==
  /\ Alive
  /\ \/ stack = <<>>
     \/ /\ stack # <<>> /\ Top("user")
        /\ \A i \in 2 .. Len(stack) : stack[i].op # "user"

Odd(what) == oddity' = oddity \cup {what}

(* indicate_open_complete, indicate_error.                                  *)
IndicateOpenComplete(result, below) ==
  answers' = Append(answers, result) /\ stack' = User("open") \o below
IndicateError(below) == stack' = User("error") \o below

(* close_openssl_instance.                                                  *)
CloseOpensslInstance ==
  ssl' = FALSE /\ flight' = 0 /\ in_bio' = <<>> /\ out_bio' = <<>>

(* What is freed is used: the behaviour ends.                               *)
UsesFreed ==
  /\ Odd("freedBio")
  /\ UNCHANGED <<tlsVars, stack, ioVars, failures, openHistory, dataHistory>>

(* What the server sends for what has arrived, the records it will ever     *)
(* send with its second flight; the network delivers them at any time.  An  *)
(* empty answer to a flight stands for a server that is silent.             *)
Answers(bytes) ==
  IF Flight(1) \in ToSet(bytes) THEN {<<Flight(1)>>, <<Bad>>, <<>>}
  ELSE IF Flight(2) \in ToSet(bytes)
    THEN {<<>>, <<Bad>>} \cup
         {<<Flight(2)>> \o [i \in 1 .. Records |-> Rec(i)] \o end : end \in {<<>>, <<Bad>>}}
    ELSE {<<>>}

Handshakes(bytes) == \E i \in DOMAIN bytes : bytes[i].t = "hs"

(* xio_send to an io in state u: taken, taken and forgotten, or refused.    *)
XioSend(u, bytes) ==
  {[ok |-> FALSE, out |-> <<>>, wire |-> wire, answer |-> <<>>, lost |-> TRUE,
    failures |-> failures]}
  \cup (IF u # "open" THEN {} ELSE
   {[ok |-> TRUE, out |-> <<>>, wire |-> wire, answer |-> <<>>, lost |-> TRUE,
     failures |-> failures]}
   \cup {[ok |-> TRUE, out |-> <<>>, wire |-> wire \o bytes, answer |-> IF lost THEN <<>> ELSE a,
          lost |-> lost \/ (Handshakes(bytes) /\ a = <<>>), failures |-> failures] :
            a \in Answers(bytes)})

(* The outcomes of write_outgoing_bytes with bytes in the outgoing BIO.     *)
WriteOutgoingBytes(u, bytes) ==
  IF bytes = <<>>
    THEN {[ok |-> TRUE, out |-> <<>>, wire |-> wire, answer |-> <<>>, lost |-> lost,
           failures |-> failures]}
    ELSE XioSend(u, bytes) \cup
         (IF failures = MaxFailures THEN {} ELSE
          {[ok |-> FALSE, out |-> bytes, wire |-> wire, answer |-> <<>>, lost |-> lost,
            failures |-> failures + 1]})

(* The outcome w, with later still on its way to the io.                    *)
Sent(w, later) ==
  /\ out_bio' = w.out /\ wire' = w.wire /\ lost' = w.lost
  /\ failures' = w.failures /\ inbound' = later \o w.answer

(* The handshake wants to read, with n flights seen and bytes to go out.    *)
HandshakeGoesOn(u, n, bytes, later, below) ==
  \E w \in WriteOutgoingBytes(u, bytes) :
    /\ tlsio_state' = IF w.ok THEN "IN_HANDSHAKE" ELSE "HANDSHAKE_FAILED"
    /\ flight' = n
    /\ Sent(w, later)
    /\ stack' = below
    /\ UNCHANGED <<answers, early>>

(* send_handshake_bytes with in the incoming BIO, later what comes after    *)
(* that: SSL_do_handshake takes the flight it waits for, if it is there.    *)
SendHandshakeBytes(u, in, later, below) ==
  \/ /\ flight = 0 /\ in_bio' = in
     /\ HandshakeGoesOn(u, 1, Append(out_bio, Flight(1)), later, below)
  \/ /\ flight # 0 /\ in = <<>> /\ in_bio' = in
     /\ HandshakeGoesOn(u, flight, out_bio, later, below)
  \/ /\ flight = 1 /\ in # <<>> /\ in[1] = Flight(1) /\ in_bio' = Tail(in)
     /\ HandshakeGoesOn(u, 2, Append(out_bio, Flight(2)), later, below)
  \/ /\ flight = 2 /\ in # <<>> /\ in[1] = Flight(2) /\ in_bio' = Tail(in)
     /\ tlsio_state' = "OPEN" /\ flight' = 3
     /\ IndicateOpenComplete("OK", below)
     /\ early' = (in_bio' # <<>>) /\ inbound' = later
     /\ UNCHANGED <<out_bio, wire, lost, failures>>
  \/ /\ in # <<>> /\ in[1] = Bad /\ in_bio' = in
     /\ tlsio_state' = "HANDSHAKE_FAILED"
     /\ stack' = below /\ inbound' = later
     /\ UNCHANGED <<flight, out_bio, answers, early, wire, lost, failures>>

-------------------------------------------------------------------------------
(* The user's calls.                                                        *)

ForgetConnection ==
  /\ written' = 0 /\ wire' = <<>> /\ lost' = FALSE
  /\ delivered' = <<>> /\ early' = FALSE

(* create_openssl_instance: a connection that is there already is leaked.   *)
CreateOpensslInstance == ssl' = TRUE /\ flight' = 0 /\ in_bio' = <<>> /\ out_bio' = <<>>

(* tlsio_openssl_open.  A socket that cannot be opened, or is open already,  *)
(* reports so before it fails; a proxy may just fail.                       *)
Open ==
  /\ InUser /\ tlsio_state = "NOT_OPEN" /\ opens < MaxOpens
  /\ opens' = opens + 1
  /\ \/ (* create_openssl_instance fails *)
        /\ failures < MaxFailures /\ failures' = failures + 1
        /\ returned' = "failed"
        /\ UNCHANGED <<tlsVars, stack, under, inbound, dataHistory>>
     \/ /\ ForgetConnection /\ CreateOpensslInstance
        /\ \/ /\ under = "closed" /\ returned' = "ok" /\ inbound' = <<>>
              /\ tlsio_state' = "OPENING_UNDERLYING_IO"
              /\ \/ io = "socket" /\ under' = "open" /\ stack' = Call("openedBelow") \o stack
                 \/ io = "proxy" /\ under' = "opening" /\ UNCHANGED stack
           \/ /\ returned' = "failed"
              /\ tlsio_state' = "OPENING_UNDERLYING_IO"
              /\ \/ stack' = Call("notOpenedBelow") \o Call("openFails") \o stack
                 \/ io = "proxy" /\ stack' = Call("openFails") \o stack
              /\ UNCHANGED <<under, inbound>>
        /\ UNCHANGED <<on_io_close_complete, failures>>
  /\ oddity' = (IF returned' = "ok" THEN {} ELSE oddity \cap {"failedOpening", "reopened"})
                \cup (IF stack = <<>> THEN {} ELSE {"reopened"})
  /\ answers' = <<>>
  /\ UNCHANGED io

(* The force of tlsio_openssl_close: the io below is told nothing to call.   *)
(* A proxy that is opening reports that as cancelled first.                 *)
CloseForced(below) ==
  /\ under' = "closed" /\ inbound' = <<>>
  /\ \/ /\ under = "opening"
        /\ stack' = Call("notOpenedBelow") \o Call("forced") \o below
        /\ UNCHANGED <<tlsio_state, sslVars>>
     \/ /\ under # "opening"
        /\ tlsio_state' = "NOT_OPEN" /\ CloseOpensslInstance
        /\ stack' = below

(* Mutant: the connection is kept when the io is closed.                    *)
CloseNow_KeepsSsl(callback, below) ==
  \/ /\ tlsio_state = "OPEN"
     /\ tlsio_state' = "NOT_OPEN" /\ on_io_close_complete' = callback
     /\ under' = "closed" /\ inbound' = <<>>
     /\ stack' = (IF callback THEN User("closed") ELSE <<>>) \o below
     /\ UNCHANGED sslVars
  \/ /\ tlsio_state # "OPEN"
     /\ CloseForced(below) /\ UNCHANGED on_io_close_complete
(* tlsio_openssl_close once the open, if any, is cancelled.  Every io below *)
(* that is open closes inside the call, and calls                           *)
(* on_underlying_io_close_complete, which frees the SSL after the callback.  *)
CloseNow(callback, below) ==
  \/ /\ tlsio_state = "OPEN"
     /\ tlsio_state' = "NOT_OPEN" /\ on_io_close_complete' = callback
     /\ under' = "closed" /\ inbound' = <<>>
     /\ stack' = (IF callback THEN User("closed") ELSE <<>>) \o Call("freeSsl") \o below
     /\ UNCHANGED sslVars
  \/ /\ tlsio_state # "OPEN"
     /\ CloseForced(below) /\ UNCHANGED on_io_close_complete

(* tlsio_openssl_close.  An open is cancelled before the state changes.     *)
Close ==
  /\ InUser
  /\ \E callback \in BOOLEAN :
       \/ /\ tlsio_state \in Opening
          /\ answers' = Append(answers, "CANCELLED")
          /\ stack' = User("open") \o Frame("closes", IF callback THEN "callback" ELSE "none") \o stack
          /\ oddity' = oddity \cup (IF answers = <<>> THEN {} ELSE {"answeredTwice"})
          /\ UNCHANGED <<tlsVars, under, inbound>>
       \/ /\ tlsio_state \notin Opening
          /\ CloseNow(callback, stack)
          /\ oddity' = (oddity \ {"failedOpening"}) \cup
               (IF tlsio_state = "HANDSHAKE_FAILED" THEN {"notAnswered"} ELSE {})
          /\ UNCHANGED answers
  /\ UNCHANGED <<io, failures, opens, returned, dataHistory>>

(* tlsio_openssl_send.  The completion is the io's, which calls the user    *)
(* itself; a user that is called within this call is one called after it.   *)
Send ==
  /\ InUser /\ tlsio_state = "OPEN" /\ ssl /\ written < Sends
  /\ written' = written + 1
  /\ \E w \in WriteOutgoingBytes(under, Append(out_bio, Rec(written'))) : Sent(w, inbound)
  /\ UNCHANGED <<tlsio_state, ssl, flight, in_bio, on_io_close_complete, stack, io, under,
                 openHistory, delivered, early, oddity>>

(* Mutant: dowork does not flush.                                           *)
DoWork_NoFlush ==
  /\ Alive /\ stack = <<>> /\ tlsio_state # "NOT_OPEN"
  /\ stack' = Call("pump")
  /\ UNCHANGED <<tlsVars, ioVars, failures, history>>
(* tlsio_openssl_dowork, up to what the io below reports.                   *)
DoWork ==
  /\ Alive /\ stack = <<>> /\ tlsio_state # "NOT_OPEN"
  /\ \/ /\ tlsio_state \in Opening \cup {"OPEN"}
        /\ \/ /\ ssl
              /\ \E w \in WriteOutgoingBytes(under, out_bio) : Sent(w, inbound)
              /\ stack' = Call("pump")
              /\ UNCHANGED oddity
           \/ /\ ~ssl
              /\ Odd("freedBio")
              /\ UNCHANGED <<stack, out_bio, wire, lost, failures, inbound>>
     \/ /\ tlsio_state \notin Opening \cup {"OPEN"}
        /\ stack' = Call("pump")
        /\ UNCHANGED <<out_bio, wire, lost, failures, inbound, oddity>>
  /\ UNCHANGED <<tlsio_state, ssl, flight, in_bio, on_io_close_complete, io, under,
                 openHistory, written, delivered, early>>

(* tlsio_openssl_destroy, which no callback may call.                       *)
Destroy ==
  /\ Alive /\ stack = <<>>
  /\ CloseOpensslInstance /\ under' = "closed" /\ inbound' = <<>>
  /\ stack' = Call("destroyed")
  /\ UNCHANGED <<tlsio_state, on_io_close_complete, io, failures, history>>

-------------------------------------------------------------------------------
(* What runs when a callback returns, or the io below calls back.           *)

(* on_underlying_io_open_complete of an io that opened.                     *)
OpenedBelow ==
  /\ Running /\ Top("openedBelow")
  /\ IF tlsio_state # "OPENING_UNDERLYING_IO"
       THEN /\ stack' = Rest
            /\ UNCHANGED <<tlsVars, ioVars, failures, history>>
     ELSE IF ~ssl THEN UsesFreed
     ELSE /\ SendHandshakeBytes(under, in_bio, inbound, Rest)
          /\ UNCHANGED <<ssl, on_io_close_complete, io, under, opens, returned, written,
                         delivered, oddity>>

(* Mutant: nobody is told.                                                  *)
NotOpenedBelow_Quiet ==
  /\ Running /\ Top("notOpenedBelow")
  /\ tlsio_state' = IF tlsio_state = "OPENING_UNDERLYING_IO" THEN "NOT_OPEN" ELSE tlsio_state
  /\ stack' = Rest
  /\ UNCHANGED <<sslVars, on_io_close_complete, ioVars, failures, history>>
(* The same of an io that did not.                                          *)
NotOpenedBelow ==
  /\ Running /\ Top("notOpenedBelow")
  /\ \/ /\ tlsio_state = "OPENING_UNDERLYING_IO"
        /\ tlsio_state' = "NOT_OPEN"
        /\ IndicateOpenComplete("ERROR", Rest)
        /\ oddity' = oddity \cup (IF answers = <<>> THEN {} ELSE {"answeredTwice"})
     \/ /\ tlsio_state # "OPENING_UNDERLYING_IO"
        /\ stack' = Rest
        /\ UNCHANGED <<tlsio_state, answers, oddity>>
  /\ UNCHANGED <<sslVars, on_io_close_complete, ioVars, failures, opens, returned, dataHistory>>

(* The end of tlsio_openssl_open when xio_open failed, of a forced close,   *)
(* and of on_underlying_io_close_complete, which leaves the state alone.    *)
FreesSsl ==
  /\ Running /\ stack[1].op \in {"openFails", "forced", "freeSsl"}
  /\ CloseOpensslInstance
  /\ tlsio_state' = IF Top("freeSsl") THEN tlsio_state ELSE "NOT_OPEN"
  /\ stack' = Rest
  /\ UNCHANGED <<on_io_close_complete, ioVars, failures, history>>

(* tlsio_openssl_close once the user knows that its open is cancelled.      *)
Closes ==
  /\ Running /\ Top("closes")
  /\ CloseNow(stack[1].ev = "callback", Rest)
  /\ UNCHANGED <<io, failures, history>>

RecordReady == in_bio # <<>> /\ in_bio[1].t = "rec"

(* Mutant: one read for all that was received.                              *)
Decode_Once ==
  /\ Running /\ Top("decode") /\ ssl
  /\ \/ /\ RecordReady
        /\ delivered' = Append(delivered, in_bio[1].n)
        /\ in_bio' = Tail(in_bio)
        /\ stack' = User("bytes") \o Rest
     \/ /\ ~RecordReady
        /\ stack' = Rest
        /\ UNCHANGED <<in_bio, delivered>>
  /\ UNCHANGED <<tlsio_state, ssl, flight, out_bio, on_io_close_complete, ioVars, failures,
                 openHistory, written, wire, lost, early, oddity>>
(* One turn of decode_ssl_received_bytes: a read, of a connection that may  *)
(* be gone since the user was called; a record that does not authenticate   *)
(* ends it, as one that is not there.  To read from a connection that is    *)
(* not begun, OpenSSL begins it.                                            *)
Decode ==
  /\ Running /\ Top("decode")
  /\ \/ /\ ~ssl
        /\ tlsio_state' = "ERROR" /\ IndicateError(Rest)
        /\ Odd("closedInDecode")
        /\ UNCHANGED <<flight, in_bio, out_bio, delivered>>
     \/ /\ ssl /\ RecordReady
        /\ delivered' = Append(delivered, in_bio[1].n)
        /\ in_bio' = Tail(in_bio)
        /\ stack' = User("bytes") \o stack
        /\ UNCHANGED <<tlsio_state, flight, out_bio, oddity>>
     \/ /\ ssl /\ ~RecordReady
        /\ flight' = IF flight = 0 THEN 1 ELSE flight
        /\ out_bio' = IF flight = 0 THEN <<Flight(1)>> ELSE out_bio
        /\ stack' = Rest
        /\ UNCHANGED <<tlsio_state, in_bio, delivered, oddity>>
  /\ UNCHANGED <<ssl, on_io_close_complete, ioVars, failures, openHistory, written, wire,
                 lost, early>>

UserReturns ==
  /\ Running /\ Top("user")
  /\ stack' = Rest
  /\ UNCHANGED <<tlsVars, ioVars, failures, history>>

-------------------------------------------------------------------------------
(* What xio_dowork reports, any number of times, and the end of dowork.     *)

OpenReported ==
  /\ Running /\ Top("pump") /\ under = "opening"
  /\ \/ /\ under' = "open" /\ stack' = Call("openedBelow") \o stack
        /\ UNCHANGED oddity
     \/ /\ under' = "closed" /\ stack' = Call("notOpenedBelow") \o stack
        /\ Odd("failedOpening")
  /\ UNCHANGED <<tlsVars, io, inbound, failures, openHistory, dataHistory>>

(* on_underlying_io_bytes_received.                                         *)
BytesReceived ==
  /\ Running /\ Top("pump") /\ under = "open" /\ inbound # <<>>
  /\ \/ ~ssl /\ UsesFreed
     \/ /\ ssl
        /\ \E n \in 1 .. Len(inbound) :
             LET in == in_bio \o SubSeq(inbound, 1, n)
                 later == SubSeq(inbound, n + 1, Len(inbound))
             IN \/ (* BIO_write fails *)
                   /\ failures < MaxFailures /\ failures' = failures + 1
                   /\ tlsio_state' = "ERROR" /\ IndicateError(stack)
                   /\ inbound' = later /\ lost' = TRUE
                   /\ oddity' = oddity \cup (IF answers = <<>> THEN {"notAnswered"} ELSE {})
                   /\ UNCHANGED <<flight, in_bio, out_bio, answers, wire, early>>
                \/ /\ tlsio_state = "IN_HANDSHAKE"
                   /\ SendHandshakeBytes(under, in, later, stack)
                   /\ UNCHANGED oddity
                \/ /\ tlsio_state # "IN_HANDSHAKE"
                   /\ in_bio' = in /\ inbound' = later /\ early' = FALSE
                   /\ stack' = (IF tlsio_state = "OPEN" THEN Call("decode") ELSE <<>>) \o stack
                   /\ UNCHANGED <<tlsio_state, flight, out_bio, failures, answers, wire, lost,
                                  oddity>>
        /\ UNCHANGED <<ssl, on_io_close_complete, io, under, opens, returned, written, delivered>>

(* on_underlying_io_error.  A socket whose peer has closed reports it and   *)
(* stays open.                                                              *)
ErrorReported ==
  /\ Running /\ Top("pump") /\ under = "open"
  /\ under' \in {"failed"} \cup (IF io = "socket" THEN {"open"} ELSE {})
  /\ inbound' = <<>> /\ lost' = TRUE
  /\ \/ /\ tlsio_state \in Opening
        /\ tlsio_state' = "NOT_OPEN"
        /\ IndicateOpenComplete("ERROR", stack)
        /\ Odd("failedOpening")
     \/ /\ tlsio_state = "OPEN"
        /\ IndicateError(stack)
        /\ UNCHANGED <<tlsio_state, answers, oddity>>
     \/ /\ tlsio_state \notin Opening \cup {"OPEN"}
        /\ UNCHANGED <<tlsio_state, stack, answers, oddity>>
  /\ UNCHANGED <<sslVars, on_io_close_complete, io, failures, opens, returned, written, wire,
                 delivered, early>>

(* A handshake that failed is closed here, with nobody to call back.        *)
PumpReturns ==
  /\ Running /\ Top("pump")
  /\ \/ /\ tlsio_state = "HANDSHAKE_FAILED"
        /\ tlsio_state' = "NOT_OPEN" /\ CloseOpensslInstance
        /\ under' = "closed" /\ inbound' = <<>>
        /\ IndicateOpenComplete("ERROR", Rest)
     \/ /\ tlsio_state # "HANDSHAKE_FAILED"
        /\ stack' = Rest
        /\ UNCHANGED <<tlsio_state, sslVars, under, inbound, answers>>
  /\ UNCHANGED <<on_io_close_complete, io, failures, opens, returned, dataHistory, oddity>>

Reports == OpenReported \/ BytesReceived \/ ErrorReported
Frames == OpenedBelow \/ NotOpenedBelow \/ FreesSsl \/ Closes \/ Decode \/ UserReturns \/ PumpReturns

Next == Open \/ Close \/ Send \/ DoWork \/ Destroy \/ Frames \/ Reports

(* dowork is called again and again, callbacks and the dowork of the io     *)
(* below return, and it reports some day what it has.                       *)
Spec ==
  /\ Init /\ [][Next]_vars
  /\ WF_vars(DoWork \/ Frames)
  /\ SF_vars(PumpReturns) /\ SF_vars(OpenReported) /\ SF_vars(BytesReceived)

-------------------------------------------------------------------------------
Between == Alive /\ stack = <<>>

(* OpenAnswered: between calls, an open that was accepted is answered once  *)
(* when it is over, and not before.  Left out by name: the second answer of *)
(* a proxy that is cancelled and of a callback that closes, and the one a   *)
(* handshake closed once it failed, or ended by BIO_write, never gives.     *)
OpenAnswered ==
  Between /\ returned = "ok" /\ "reopened" \notin oddity =>
    IF tlsio_state \in Opening \cup {"HANDSHAKE_FAILED"} THEN answers = <<>>
    ELSE IF tlsio_state = "OPEN" THEN answers = <<"OK">>
    ELSE "answeredTwice" \in oddity
         \/ Len(answers) = IF "notAnswered" \in oddity THEN 0 ELSE 1

(* HandshakeFailedIsBrief, tlsio_openssl.c:27: the state HANDSHAKE_FAILED   *)
(* is ephemeral, "the tlsio will never be in this state at the start of any  *)
(* of the API calls".  The code breaks it: only dowork looks for the state, *)
(* and a handshake begun in the call that opens the io may fail there.      *)
HandshakeFailedIsBrief == Between => tlsio_state # "HANDSHAKE_FAILED"

(* SslFollowsState: between calls the SSL and the io below are there while  *)
(* the io is open or opening and gone when it is not.                       *)
SslFollowsState ==
  /\ TypeOK
  /\ Between /\ "reopened" \notin oddity =>
       /\ tlsio_state \in Opening \cup {"HANDSHAKE_FAILED", "OPEN"} => ssl /\ under # "closed"
       /\ tlsio_state = "NOT_OPEN" /\ "failedOpening" \notin oddity => ~ssl /\ under = "closed"
       /\ tlsio_state = "ERROR" /\ "closedInDecode" \notin oddity => ssl

(* RecordsIntact: the records of the server reach the user complete and in  *)
(* order, and none waits in the BIO for something that is not to come; what *)
(* the user sent is on the wire, or waits, once and in order.               *)
IsRecord(token) == token.t = "rec"
NumbersOf(tokens) == {tokens[i].n : i \in {j \in DOMAIN tokens : IsRecord(tokens[j])}}
Ascending(tokens) ==
  \A i, j \in DOMAIN tokens :
    i < j /\ IsRecord(tokens[i]) /\ IsRecord(tokens[j]) => tokens[i].n < tokens[j].n
RecordsIntact ==
  /\ delivered = [i \in DOMAIN delivered |-> i]
  /\ Between /\ tlsio_state = "OPEN" /\ ssl =>
       \/ in_bio = <<>> \/ early \/ in_bio[1] = Bad
  /\ Alive /\ ssl /\ ~lost =>
       LET sent == wire \o out_bio
       IN NumbersOf(sent) = 1 .. written /\ Ascending(sent)

(* Progresses: an open that was accepted is answered, unless the peer falls *)
(* silent; what waits in the outgoing BIO leaves it.                        *)
Progresses ==
  /\ (returned = "ok" /\ answers = <<>>) ~>
       (answers # <<>> \/ lost \/ ~Alive \/ oddity \cap {"notAnswered", "reopened"} # {})
  /\ (tlsio_state = "OPEN" /\ out_bio # <<>>) ~> (out_bio = <<>> \/ ~Alive)
================================================================================
