----------------------------------- MODULE WsIo --------------------------------
(***************************************************************************)
(* The io over a websocket (wsio.c), composed with the websocket client    *)
(* and the io under that.                                                  *)
(*                                                                         *)
(* The user of the client is now wsio: its frame "user" is a callback into *)
(* wsio.c, which answers with a frame "app", a callback of the             *)
(* application, who may call wsio from it.  The other frames added to the  *)
(* stack are what is left of a call of wsio when what it called returns.   *)
(***************************************************************************)
EXTENDS UwsClient

VARIABLES
  io_state,
  pending_io_list,      (* the sends it has to complete                      *)
  on_io_close_complete, (* TRUE unless the callback is NULL                  *)
  freed,                (* the send whose PENDING_IO was used once freed, or 0*)
  (* History, read by the properties only:                                   *)
  opened,     (* how often on_io_open_complete ran for the last open         *)
  told,       (* how often on_send_complete ran for each send                *)
  closes,     (* how often on_io_close_complete ran since the last open      *)
  ioAccepted, (* the sends for which wsio_send returned 0                    *)
  abandoned   (* an open was cancelled, or run over, by a close              *)

wsState == <<io_state, pending_io_list, on_io_close_complete, freed>>
wsHistory == <<opened, told, closes, ioAccepted, abandoned>>
wsVars == <<wsState, wsHistory>>
allVars == <<vars, wsVars>>

(* The frames of wsio and of the application.                               *)
WsOps ==
  {"app", "wsOpenFails", "wsCloseFails", "wsCancel", "wsSendFails", "wsSent", "wsDestroy",
   "wsNotOpen"}
ASSUME WsAssumption == WsOps \subseteq UserOps

(* All of the client's variables but its stack.                             *)
clientRest == <<clientVars, fault, ioVars, history>>

(* The types; and an open is answered once at most, whoever calls whom      *)
(* meanwhile, one that is still OPENING not yet.                            *)
WsTypeOK ==
  /\ io_state \in {"NOT_OPEN", "OPENING", "OPEN", "CLOSING", "ERROR"}
  /\ pending_io_list \in Seq(1 .. Sends) /\ on_io_close_complete \in BOOLEAN
  /\ freed \in 0 .. Sends /\ abandoned \in BOOLEAN
  /\ opened \in 0 .. 1 /\ closes \in Nat
  /\ stack = <<>> /\ io_state = "OPENING" => opened = 0
  /\ told \in [1 .. Sends -> Nat] /\ ioAccepted \subseteq 1 .. Sends

(* wsio_create.                                                             *)
WsInit ==
  /\ Init
  /\ io_state = "NOT_OPEN" /\ pending_io_list = <<>>
  /\ on_io_close_complete = FALSE /\ freed = 0
  /\ opened = 0 /\ told = [s \in 1 .. Sends |-> 0] /\ closes = 0
  /\ ioAccepted = {} /\ abandoned = FALSE

App(ev) == Frame("app", ev, 0)

Going == Alive /\ freed = 0

(* The application's thread is its own, or inside one of its callbacks.     *)
InApp ==
  /\ Going
  /\ \/ stack = <<>>
     \/ /\ stack # <<>> /\ Top("app")
        /\ Len(SelectSeq(stack, LAMBDA f : f.op = "app")) <= MaxDepth

(* Mutant: an error is taken for a close.                                   *)
WsIndicateError_Closes(below) == io_state' = "NOT_OPEN" /\ stack' = App("error") \o below
(* indicate_error.                                                          *)
WsIndicateError(below) == io_state' = "ERROR" /\ stack' = App("error") \o below

(* Mutant: the callback runs before the state leaves OPENING.               *)
IndicateOpenComplete_Early(state, below) ==
  /\ UNCHANGED io_state
  /\ opened' = opened + 1
  /\ stack' = App("open") \o below
(* indicate_open_complete, which the state leaves OPENING for.              *)
IndicateOpenComplete(state, below) ==
  /\ io_state' = state
  /\ opened' = opened + 1
  /\ stack' = App("open") \o below

(* The application's calls.                                                 *)

(* wsio_open.  On a client that is not CLOSED it fails and changes nothing. *)
WsioOpen ==
  /\ InApp
  /\ stack # <<>> => stack[1].ev \in OpensFrom
  /\ io_state = "NOT_OPEN"
  /\ io_state' = "OPENING"
  /\ OpenWith(stack, Call("wsOpenFails") \o stack)
  /\ opened' = 0 /\ closes' = 0 /\ abandoned' = FALSE
  /\ UNCHANGED <<pending_io_list, on_io_close_complete, freed, told, ioAccepted>>

(* internal_close on an io that is not closed or closing; then is where it  *)
(* returns to.                                                              *)
InternalClose(callback, then) ==
  \/ /\ io_state = "OPENING"
     /\ IndicateOpenComplete("NOT_OPEN", then)
     /\ abandoned' = TRUE
     /\ UNCHANGED <<clientRest, pending_io_list, on_io_close_complete, freed, told,
                    closes, ioAccepted>>
  \/ /\ io_state \in {"OPEN", "ERROR"}
     /\ io_state' = "CLOSING"
     /\ on_io_close_complete' = callback
     /\ LET rest == Call("wsCancel") \o then
            fails == Call("wsCloseFails") \o rest IN
        \/ CloseWith(TRUE, rest, fails)
        \/ /\ uws_state \in {"CLOSED", "CLOSING_SENDING_CLOSE", "CLOSING_UNDERLYING_IO"}
           /\ stack' = fails
           /\ UNCHANGED clientRest
     /\ UNCHANGED <<pending_io_list, freed, wsHistory>>

WsioClose == InApp /\ \E callback \in BOOLEAN : InternalClose(callback, stack)

(* wsio_send.                                                               *)
WsioSend ==
  LET s == sends + 1 IN
  /\ InApp
  /\ io_state = "OPEN"
  /\ pending_io_list' = Append(pending_io_list, s)
  /\ SendFrameWith(Frame("wsSent", "none", s) \o stack,
                   Frame("wsSendFails", "none", s) \o stack)
  /\ UNCHANGED <<io_state, on_io_close_complete, freed, wsHistory>>

(* wsio_destroy, up to the client's part.                                   *)
WsioDestroy ==
  /\ Going /\ stack = <<>>
  /\ \/ /\ io_state = "NOT_OPEN"
        /\ DestroyClient /\ UNCHANGED wsVars
     \/ InternalClose(FALSE, Call("wsDestroy"))

AppReturns ==
  /\ Top("app")
  /\ stack' = Rest
  /\ UNCHANGED <<clientRest, wsVars>>

(* What is left of the calls above.                                         *)

WsOpenFails ==
  /\ Top("wsOpenFails")
  /\ io_state' = "NOT_OPEN" /\ stack' = Rest
  /\ UNCHANGED <<clientRest, pending_io_list, on_io_close_complete, freed, wsHistory>>

(* uws_client_close_async has failed, which counts as closed.               *)
WsCloseFails ==
  /\ Top("wsCloseFails")
  /\ IF on_io_close_complete
       THEN stack' = App("closed") \o Rest /\ closes' = closes + 1
       ELSE stack' = Rest /\ UNCHANGED closes
  /\ UNCHANGED <<clientRest, wsState, opened, told, ioAccepted, abandoned>>

(* complete_send_item of what s points to.                                  *)
CompleteSendItem(s, below) ==
  /\ pending_io_list' = Without(pending_io_list, s)
  /\ told' = [told EXCEPT ![s] = @ + 1]
  /\ stack' = Frame("app", "sent", s) \o below
  /\ UNCHANGED freed

(* What is still to complete is cancelled; then the io is closed, also when *)
(* the application has opened it again from a completion.                   *)
WsCancel ==
  /\ Top("wsCancel")
  /\ \/ /\ pending_io_list # <<>>
        /\ CompleteSendItem(Head(pending_io_list), stack)
        /\ UNCHANGED <<io_state, abandoned>>
     \/ /\ pending_io_list = <<>>
        /\ io_state' = "NOT_OPEN" /\ stack' = Rest
        /\ abandoned' = (abandoned \/ io_state \notin {"CLOSING", "NOT_OPEN"})
        /\ UNCHANGED <<pending_io_list, told, freed>>
  /\ UNCHANGED <<clientRest, on_io_close_complete, opened, closes, ioAccepted>>

(* Mutant: the item is freed and stays in the list.                         *)
WsSendFails_Keeps ==
  /\ Top("wsSendFails")
  /\ stack' = Rest
  /\ UNCHANGED <<clientRest, wsState, wsHistory>>
(* uws_client_send_frame_async has failed: the item leaves the list and is  *)
(* freed.                                                                   *)
WsSendFails ==
  LET s == stack[1].n IN
  /\ Top("wsSendFails")
  /\ freed' = IF s \in ToSet(pending_io_list) THEN 0 ELSE s
  /\ pending_io_list' = Without(pending_io_list, s)
  /\ stack' = Rest
  /\ UNCHANGED <<clientRest, io_state, on_io_close_complete, wsHistory>>

WsSent ==
  /\ Top("wsSent")
  /\ ioAccepted' = ioAccepted \cup {stack[1].n}
  /\ stack' = Rest
  /\ UNCHANGED <<clientRest, wsState, opened, told, closes, abandoned>>

WsDestroy ==
  /\ Top("wsDestroy")
  /\ DestroyClient
  /\ UNCHANGED wsVars

(* After the callback for an error or an end while OPENING, or after the    *)
(* peer closed a client that nobody uses.                                   *)
WsNotOpen ==
  /\ Top("wsNotOpen")
  /\ io_state' = "NOT_OPEN" /\ stack' = Rest
  /\ UNCHANGED <<clientRest, pending_io_list, on_io_close_complete, freed, wsHistory>>

(* The callbacks of the client.                                             *)

Calls(ev) == Top("user") /\ stack[1].ev = ev

OnUnderlyingWsOpenComplete ==
  /\ Calls("open")
  /\ \/ /\ io_state = "OPENING"
        /\ IndicateOpenComplete(IF Last(answers) = "OK" THEN "OPEN" ELSE "NOT_OPEN", Rest)
     \/ /\ io_state # "OPENING"
        /\ WsIndicateError(Rest) /\ UNCHANGED opened
  /\ UNCHANGED <<clientRest, pending_io_list, on_io_close_complete, freed, told, closes,
                 ioAccepted, abandoned>>

(* A binary frame, with a payload or without, or another frame.             *)
OnUnderlyingWsFrameReceived ==
  /\ Calls("frame")
  /\ \/ io_state = "OPEN" /\ stack' = App("frame") \o Rest /\ UNCHANGED io_state
     \/ io_state = "OPEN" /\ WsIndicateError(Rest)
     \/ stack' = Rest /\ UNCHANGED io_state
  /\ UNCHANGED <<clientRest, pending_io_list, on_io_close_complete, freed, wsHistory>>

OnUnderlyingWsPeerClosed ==
  /\ Calls("peerClosed")
  /\ \/ /\ io_state = "OPENING"
        /\ IndicateOpenComplete("NOT_OPEN", Rest)
     \/ /\ io_state # "OPENING"
        /\ WsIndicateError(IF io_state = "NOT_OPEN" THEN Call("wsNotOpen") \o Rest ELSE Rest)
        /\ UNCHANGED opened
  /\ UNCHANGED <<clientRest, pending_io_list, on_io_close_complete, freed, told, closes,
                 ioAccepted, abandoned>>

(* While OPENING, the state changes only after the callback.                *)
OnUnderlyingWsError ==
  /\ Calls("error")
  /\ \/ /\ io_state = "OPENING"
        /\ IndicateOpenComplete("OPENING", Call("wsNotOpen") \o Rest)
     \/ /\ io_state # "OPENING"
        /\ stack' = App("error") \o Rest
        /\ UNCHANGED <<io_state, opened>>
  /\ UNCHANGED <<clientRest, pending_io_list, on_io_close_complete, freed, told, closes,
                 ioAccepted, abandoned>>

OnUnderlyingWsCloseComplete ==
  /\ Calls("closed")
  /\ io_state' = "NOT_OPEN"
  /\ IF on_io_close_complete
       THEN stack' = App("closed") \o Rest /\ closes' = closes + 1
       ELSE stack' = Rest /\ UNCHANGED closes
  /\ UNCHANGED <<clientRest, pending_io_list, on_io_close_complete, freed, opened, told,
                 ioAccepted, abandoned>>

(* The context is the list item, freed if the send is no longer in the list.*)
OnUnderlyingWsSendFrameComplete ==
  LET s == stack[1].n IN
  /\ Calls("sent")
  /\ \/ /\ s \in ToSet(pending_io_list)
        /\ CompleteSendItem(s, Rest)
     \/ /\ s \notin ToSet(pending_io_list)
        /\ freed' = s /\ stack' = Rest
        /\ UNCHANGED <<pending_io_list, told>>
  /\ UNCHANGED <<clientRest, io_state, on_io_close_complete, opened, closes, ioAccepted,
                 abandoned>>

WsFrames ==
  /\ Running /\ freed = 0
  /\ \/ ClientFrames /\ UNCHANGED wsVars
     \/ AppReturns \/ WsOpenFails \/ WsCloseFails \/ WsCancel \/ WsSendFails \/ WsSent
     \/ WsDestroy \/ WsNotOpen
     \/ OnUnderlyingWsOpenComplete \/ OnUnderlyingWsFrameReceived
     \/ OnUnderlyingWsPeerClosed \/ OnUnderlyingWsError \/ OnUnderlyingWsCloseComplete
     \/ OnUnderlyingWsSendFrameComplete

(* Mutant: only an open io is driven.                                       *)
Pumps_WhenOpen == io_state = "OPEN"
(* wsio_dowork, which runs the client unless wsio is NOT_OPEN.              *)
Pumps == io_state # "NOT_OPEN"
WsReports == freed = 0 /\ Pumps /\ Reports /\ UNCHANGED wsVars
WsUnderlyingError == freed = 0 /\ Pumps /\ OnUnderlyingError /\ UNCHANGED wsVars

WsNext ==
  WsioOpen \/ WsioClose \/ WsioSend \/ WsioDestroy \/ WsFrames \/ WsReports
  \/ WsUnderlyingError

(* What a call has started runs to its end, and dowork is called until the  *)
(* io has reported what it holds.  No call of wsio and no error is owed.    *)
WsFairness == WF_allVars(WsFrames \/ WsReports)

WsSpec == WsInit /\ [][WsNext]_allVars
WsFairSpec == WsSpec /\ WsFairness

(* A send is completed at most once, and between calls the list holds       *)
(* exactly the accepted sends that are not completed.  On the first         *)
(* connection no completion reaches a PENDING_IO that was freed, unless the *)
(* io completes a send and then fails it.  A later connection may complete  *)
(* what a socket kept of an earlier one, when the client failed after the   *)
(* CLOSE of the peer: wsio_close then frees its items and not the client's. *)
WsSendsAccounted ==
  /\ \A s \in 1 .. Sends : told[s] <= 1
  /\ opens = 1 => freed \notin accepted
  /\ stack = <<>> => ToSet(pending_io_list) = {s \in ioAccepted : told[s] = 0}

(* Behind a wsio that is NOT_OPEN its client is CLOSED, so that it can be   *)
(* opened again, unless an open was cancelled, or made in a completion that *)
(* wsio_close runs, wsio was closed while the client was to answer the      *)
(* CLOSE of the peer, which nothing drives any more, or a TLS io that had   *)
(* failed keeps the close to itself.                                        *)
ClosedBelow ==
  stack = <<>> /\ io_state = "NOT_OPEN" /\ ~abandoned =>
    \/ uws_state \in {"CLOSED", "CLOSING_SENDING_CLOSE"}
    \/ uws_state = "CLOSING_UNDERLYING_IO" /\ io = "tls"

(* SRS_WSIO_01_085: wsio_close shall close the websockets IO if an open is  *)
(* pending or has succeeded; so the client behind a wsio that is NOT_OPEN   *)
(* is neither open nor opening.  The code breaks it: a close while OPENING  *)
(* answers the open and leaves the client to go on opening.                 *)
PendingOpenIsClosed ==
  stack = <<>> /\ io_state = "NOT_OPEN" =>
    uws_state \notin {"OPENING_UNDERLYING_IO", "WAITING_FOR_UPGRADE_RESPONSE", "OPEN"}

(* An open whose server answers does not stay pending.                      *)
WsOpenEnds == (io_state = "OPENING" /\ reply # <<>>) ~> (io_state # "OPENING" \/ ~Going)
================================================================================
