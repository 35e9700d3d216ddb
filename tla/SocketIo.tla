-------------------------------- MODULE SocketIo -------------------------------
(***************************************************************************)
(* The socket IO (socketio_berkeley.c): the bottom of every transport.     *)
(* socketio_send writes to the socket at once, or queues what the kernel   *)
(* does not take behind what is queued already; socketio_dowork flushes    *)
(* the queue and then receives.  The user's callbacks run in the middle of *)
(* dowork and may call open, send and close.                               *)
(*                                                                         *)
(* A message is Size bytes that all carry its number.  The kernel takes    *)
(* any part of what it is offered, says EAGAIN, or fails.                  *)
(***************************************************************************)
EXTENDS Naturals, SequencesExt

CONSTANTS
  Messages, (* how many messages the user sends                              *)
  Size,     (* bytes in each                                                 *)
  MaxOpens, (* bound on the connections                                      *)
  Malloc    (* TRUE when an allocation may fail                              *)

ASSUME SocketAssumption ==
  /\ Messages \in Nat
  /\ Size \in Nat \ {0} /\ MaxOpens \in Nat \ {0}
  /\ Malloc \in BOOLEAN

VARIABLES
  io_state, (* IO_STATE_CLOSED, OPEN or ERROR; the others are never assigned *)
  socket,   (* the number of the connection, 0 for INVALID_SOCKET            *)
  pending,  (* pending_io_list: the messages, with the bytes still to send   *)
  pc,       (* where the user's thread is                                    *)
  (* The environment and the history, read by the properties only:           *)
  opens,    (* the connections so far                                        *)
  sends,    (* the messages so far                                           *)
  wire,     (* the bytes the kernel took on this connection                  *)
  stream,   (* what they should be: the messages written or queued, in order *)
  done,     (* how often on_send_complete has run for each message           *)
  fate      (* what became of each message: see Fates                        *)

vars == <<io_state, socket, pending, pc, opens, sends, wire, stream, done, fate>>

Callbacks == {"sent", "sendError", "received", "receiveError"}

(* socketio_send answers 0 when it writes or queues the message (accepted)   *)
(* and when the kernel blocks (blocked), an error otherwise (refused); what  *)
(* it accepted may be freed unsent later, by an error or by the end of the   *)
(* io (discarded).                                                           *)
Fates == {"none", "accepted", "blocked", "refused", "discarded"}

Item == [msg : 1 .. Messages, left : 1 .. Size]

TypeOK ==
  /\ io_state \in {"CLOSED", "OPEN", "ERROR"}
  /\ socket \in 0 .. MaxOpens /\ opens \in 0 .. MaxOpens
  /\ pending \in Seq(Item)
  /\ pc \in {"app", "flush", "receive", "destroyed"} \cup Callbacks
  /\ sends \in 0 .. Messages
  /\ wire \in Seq(1 .. Messages) /\ stream \in Seq(Item)
  /\ done \in [1 .. Messages -> Nat] /\ fate \in [1 .. Messages -> Fates]

(* socketio_create, for a host name or around an accepted socket.           *)
Init ==
  /\ io_state = "CLOSED" /\ pending = <<>> /\ pc = "app"
  /\ socket \in {0, 1} /\ opens = socket
  /\ sends = 0 /\ wire = <<>> /\ stream = <<>>
  /\ done = [m \in 1 .. Messages |-> 0] /\ fate = [m \in 1 .. Messages |-> "none"]

-------------------------------------------------------------------------------
(* The user's thread is its own, or inside a callback.                      *)
InUser == pc \in {"app"} \cup Callbacks

(* What is still to be sent: the message whose callback runs is sent.       *)
Queued == IF pc = "sent" THEN Tail(pending) ELSE pending

(* socketio_open of a closed io: a socket it was created with is used as it *)
(* is, otherwise a new one is connected (a failure changes nothing).  The    *)
(* queue is left as it is.                                                  *)
Open ==
  /\ InUser /\ io_state = "CLOSED"
  /\ \/ socket # 0 /\ UNCHANGED <<socket, opens>>
     \/ socket = 0 /\ opens < MaxOpens /\ opens' = opens + 1 /\ socket' = opens'
  /\ io_state' = "OPEN"
  /\ wire' = <<>> /\ stream' = Queued
  /\ UNCHANGED <<pending, pc, sends, done, fate>>

(* The messages of ms are freed without their callback.                     *)
Discarded(ms) ==
  fate' = [m \in 1 .. Messages |-> IF m \in ms THEN "discarded" ELSE fate[m]]

(* socketio_destroy, which no callback may call: it frees the queue.        *)
Destroy ==
  /\ pc = "app"
  /\ pc' = "destroyed" /\ pending' = <<>>
  /\ Discarded({pending[i].msg : i \in DOMAIN pending})
  /\ socket' = 0 /\ io_state' = "CLOSED"
  /\ UNCHANGED <<opens, sends, wire, stream, done>>

(* socketio_close; nothing is taken out of the queue.                       *)
Close ==
  /\ InUser /\ io_state # "CLOSED"
  /\ socket' = 0 /\ io_state' = "CLOSED"
  /\ UNCHANGED <<pending, pc, opens, sends, wire, stream, done, fate>>

Bytes(m, n) == [i \in 1 .. n |-> m]
Completed(m) == [done EXCEPT ![m] = @ + 1]
Whole(m) == [msg |-> m, left |-> Size]

(* add_pending_io; without memory the message is not queued.                *)
AddPendingIo(m, n) == pending' = Append(pending, [msg |-> m, left |-> n])

(* Mutant: the kernel is offered the message although others are queued.    *)
SendNow_Overtakes(m) == TRUE
SendNow(m) == pending = <<>>

Answers(m, f) == fate' = [fate EXCEPT ![m] = f]

(* socketio_send on an open io: queued behind what is queued, or written.   *)
(* On EAGAIN, with nothing queued, it answers 0 like for a message it took, *)
(* and the message goes nowhere.                                            *)
Send ==
  /\ InUser /\ io_state = "OPEN" /\ sends < Messages
  /\ sends' = sends + 1
  /\ LET m == sends' IN
     \/ /\ ~SendNow(m)
        /\ \/ /\ AddPendingIo(m, Size) /\ Answers(m, "accepted")
              /\ stream' = Append(stream, Whole(m))
           \/ Malloc /\ Answers(m, "refused") /\ UNCHANGED <<pending, stream>>
        /\ UNCHANGED <<wire, done>>
     \/ /\ SendNow(m)
        /\ \/ /\ wire' = wire \o Bytes(m, Size)
              /\ stream' = Append(stream, Whole(m))
              /\ done' = Completed(m) /\ Answers(m, "accepted")
              /\ UNCHANGED pending
           \/ \E n \in 1 .. Size - 1 :
                /\ wire' = wire \o Bytes(m, n)
                /\ \/ /\ AddPendingIo(m, Size - n) /\ Answers(m, "accepted")
                      /\ stream' = Append(stream, Whole(m))
                   \/ /\ Malloc /\ Answers(m, "refused")
                      /\ stream' = Append(stream, [msg |-> m, left |-> n])
                      /\ UNCHANGED pending
                /\ UNCHANGED done
           \/ Answers(m, "blocked") /\ UNCHANGED <<wire, stream, pending, done>>
           \/ Answers(m, "refused") /\ UNCHANGED <<wire, stream, pending, done>>
  /\ UNCHANGED <<io_state, socket, pc, opens>>

-------------------------------------------------------------------------------
(* Mutant: the queue is not looked at.                                      *)
DoWork_ReceivesOnly ==
  /\ pc = "app" /\ io_state = "OPEN"
  /\ pc' = "receive"
  /\ UNCHANGED <<io_state, socket, pending, opens, sends, wire, stream, done, fate>>

(* socketio_dowork begins.                                                  *)
DoWork ==
  /\ pc = "app"
  /\ pc' = "flush"
  /\ UNCHANGED <<io_state, socket, pending, opens, sends, wire, stream, done, fate>>

(* The loop over the queue is over.                                         *)
EndFlush == pc' = IF io_state = "OPEN" THEN "receive" ELSE "app"

Flushing == pc = "flush" /\ pending # <<>>

Shortened(q, n) == [q EXCEPT ![1].left = @ - n]

(* The kernel takes some of the bytes of the first message: the loop stops  *)
(* there.                                                                   *)
FlushPart ==
  /\ Flushing /\ socket # 0
  /\ \E n \in 1 .. Head(pending).left - 1 :
       /\ wire' = wire \o Bytes(Head(pending).msg, n)
       /\ pending' = Shortened(pending, n)
  /\ EndFlush
  /\ UNCHANGED <<io_state, socket, opens, sends, stream, done, fate>>

(* It takes all of them: on_send_complete runs, then the message goes.      *)
FlushWhole ==
  /\ Flushing /\ socket # 0
  /\ wire' = wire \o Bytes(Head(pending).msg, Head(pending).left)
  /\ done' = Completed(Head(pending).msg)
  /\ pc' = "sent"
  /\ UNCHANGED <<io_state, socket, pending, opens, sends, stream, fate>>

(* EAGAIN: the loop stops.                                                  *)
FlushBlocked ==
  /\ Flushing /\ socket # 0
  /\ EndFlush
  /\ UNCHANGED <<io_state, socket, pending, opens, sends, wire, stream, done, fate>>

(* The send fails, as it must on a closed socket: the message is thrown     *)
(* away without its callback, and on_io_error runs.                         *)
FlushFails ==
  /\ Flushing
  /\ pending' = Tail(pending)
  /\ io_state' = "ERROR"
  /\ Discarded({Head(pending).msg})
  /\ pc' = "sendError"
  /\ UNCHANGED <<socket, opens, sends, wire, stream, done>>

FlushEnds ==
  /\ pc = "flush" /\ pending = <<>>
  /\ EndFlush
  /\ UNCHANGED <<io_state, socket, pending, opens, sends, wire, stream, done, fate>>

AfterSent == Tail(pending)

(* A callback of the flush loop returns.                                    *)
FlushReturns ==
  /\ pc \in {"sent", "sendError"}
  /\ pending' = IF pc = "sent" THEN AfterSent ELSE pending
  /\ pc' = "flush"
  /\ UNCHANGED <<io_state, socket, opens, sends, wire, stream, done, fate>>

(* recv: bytes and errors are handed up; the state of the io stays.         *)
Receive ==
  /\ pc = "receive"
  /\ pc' \in {"received", "receiveError", "app"}
  /\ UNCHANGED <<io_state, socket, pending, opens, sends, wire, stream, done, fate>>

ReceivesOn == io_state = "OPEN"

ReceiveReturns ==
  /\ pc \in {"received", "receiveError"}
  /\ pc' = IF pc = "received" /\ ReceivesOn THEN "receive" ELSE "app"
  /\ UNCHANGED <<io_state, socket, pending, opens, sends, wire, stream, done, fate>>

Next ==
  \/ Open \/ Close \/ Destroy \/ Send \/ DoWork
  \/ FlushPart \/ FlushWhole \/ FlushBlocked \/ FlushFails \/ FlushEnds
  \/ FlushReturns \/ Receive \/ ReceiveReturns

Spec == Init /\ [][Next]_vars

(* The user calls dowork forever and its callbacks return; recv runs dry;   *)
(* a kernel that is offered bytes again and again takes some.               *)
FairSpec ==
  /\ Spec
  /\ WF_vars(DoWork) /\ WF_vars(FlushEnds) /\ WF_vars(FlushReturns)
  /\ WF_vars(ReceiveReturns) /\ SF_vars(Receive /\ pc' = "app")
  /\ WF_vars(FlushBlocked) /\ SF_vars(FlushPart \/ FlushWhole)

-------------------------------------------------------------------------------
Content(q) == FlattenSeq([i \in DOMAIN q |-> Bytes(q[i].msg, q[i].left)])

(* While the io is open, the bytes on the wire followed by the bytes queued *)
(* are the messages that were written or queued, in order and whole: none   *)
(* doubled or overtaken.  What a close left queued comes first on the next  *)
(* connection, and a message that could not be queued stays cut where the   *)
(* kernel cut it (socketio_send, socketio_dowork, add_pending_io).  The      *)
(* messages the kernel blocked are not among them: see NothingIsLost.        *)
StreamIntact == io_state = "OPEN" => wire \o Content(Queued) = Content(stream)

(* on_send_complete runs once at most, and never for a message that is      *)
(* still queued, on this connection or a later one.                         *)
CompletedOnce ==
  \A m \in 1 .. Messages :
    /\ done[m] <= 1
    /\ done[m] = 1 => \A i \in DOMAIN Queued : Queued[i].msg # m

Handled(m) == done[m] = 1 \/ \E i \in DOMAIN Queued : Queued[i].msg = m

(* The messages that are completed or queued are exactly those accepted and *)
(* not discarded since: over closes, reconnections and callbacks that send  *)
(* no message leaves the queue unless it is sent, failed or destroyed, and   *)
(* none that was refused is completed.                                      *)
Accounted == \A m \in 1 .. Messages : fate[m] = "accepted" <=> Handled(m)

(* The bytes, the queue, the callbacks and what socketio_send answered      *)
(* agree: for every message but those blocked.                              *)
MessagesAccounted == TypeOK /\ StreamIntact /\ CompletedOnce /\ Accounted

(* What the comments of socketio_send and socketio_dowork say of EAGAIN,    *)
(* that the message is to wait ("come back later") and nothing is to be     *)
(* done until the next dowork: a message for which socketio_send answered 0 *)
(* is completed or queued until an error or the end of the io discards it.  *)
(* The code drops it: with nothing queued, EAGAIN queues nothing.           *)
NothingIsLost ==
  \A m \in 1 .. Messages : fate[m] \in {"accepted", "blocked"} => Handled(m)

(* The queue of an open io drains, or the io does not stay open.            *)
QueueDrains == (io_state = "OPEN" /\ pending # <<>>) ~> (io_state # "OPEN" \/ pending = <<>>)
================================================================================
