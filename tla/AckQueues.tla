------------------------------- MODULE AckQueues ------------------------------
(***************************************************************************)
(* The waiting queues of the IoTCore client (iotcore_mqtt_client.c):       *)
(* publish_mqtt_message, subscribe_mqtt_topic, unsubscribe_mqtt_topics,    *)
(* the PUBACK and SUBACK handlers, and the flush of both queues when the   *)
(* connection fails.  Queue entries are allocations, so the model keeps    *)
(* which are allocated, and walks the lists one entry at a time with the   *)
(* callback of the application in the middle: the callback may call the    *)
(* client again.                                                           *)
(*                                                                         *)
(* A call is named by its number: call n is the n-th to take a packet id.  *)
(* The entry a call queues, and the message in it, carry its name.         *)
(***************************************************************************)
EXTENDS Naturals, SequencesExt

CONSTANTS
  UshrtMax,    (* USHRT_MAX, 65535 in the code                               *)
  MaxCalls,    (* bound on the calls that take a packet id                   *)
  Nested,      (* TRUE when callbacks may call the client                    *)
  FreedLinks   (* what the links of a freed entry may read: "kept", "lost"   *)

ASSUME QueueAssumption ==
  /\ UshrtMax \in Nat /\ UshrtMax > 1
  /\ MaxCalls \in Nat
  /\ Nested \in BOOLEAN
  /\ FreedLinks \subseteq {"kept", "lost"} /\ FreedLinks # {}

Calls == 1 .. MaxCalls
Head0 == 0              \* the list head, as a position
Kinds == {"sub", "pub"}

VARIABLES
  packet_id, (* the last packet id handed out                                *)
  calls,     (* how many calls took one                                      *)
  id,        (* the packet id of each call                                   *)
  queue,     (* pub_ack_waiting_queue and sub_ack_waiting_queue              *)
  alive,     (* the entries allocated and not freed                          *)
  walk,      (* the list walk in progress                                    *)
  broken,    (* a link of a freed entry was followed and was lost            *)
  destroyed, (* iotcore_mqtt_destroy has run                                 *)
  wire,      (* what the server still acknowledges, as <<kind, call>>        *)
  (* History, read by the properties only:                                   *)
  answers,   (* how often the callback of each call has run                  *)
  refused,   (* the calls that returned an error                             *)
  due,       (* the calls that were waiting when the connection failed       *)
  acked      (* the last acknowledgement: whose it was, whom it answered     *)

lists == <<queue, alive>>
queuesHistory == <<answers, refused, due, acked>>
queuesVars == <<packet_id, calls, id, lists, walk, broken, destroyed, wire, queuesHistory>>

NoWalk == [kind |-> "none", ack |-> FALSE, cur |-> Head0, next |-> Head0, inCallback |-> FALSE]

QueuesTypeOK ==
  /\ packet_id \in 0 .. (UshrtMax - 1)
  /\ calls \in 0 .. MaxCalls
  /\ id \in [Calls -> 0 .. (UshrtMax - 1)] /\ \A c \in 1 .. calls : id[c] # 0
  /\ DOMAIN queue = Kinds /\ \A k \in Kinds : queue[k] \in Seq(Calls)
  /\ alive \subseteq Calls
  /\ walk \in [kind : Kinds \cup {"none"}, ack : BOOLEAN, cur : Calls \cup {Head0},
               next : Calls \cup {Head0}, inCallback : BOOLEAN]
  /\ broken \in BOOLEAN /\ destroyed \in BOOLEAN
  /\ wire \subseteq (Kinds \X Calls)
  /\ answers \in [Calls -> Nat]
  /\ refused \subseteq Calls /\ due \subseteq Calls
  /\ acked \in (Calls \cup {Head0}) \X (Calls \cup {Head0})

QueuesInit ==
  /\ packet_id = 0 /\ calls = 0 /\ id = [c \in Calls |-> 0]
  /\ queue = [k \in Kinds |-> <<>>] /\ alive = {}
  /\ walk = NoWalk /\ broken = FALSE /\ destroyed = FALSE /\ wire = {}
  /\ answers = [c \in Calls |-> 0] /\ refused = {} /\ due = {}
  /\ acked = <<Head0, Head0>>

-------------------------------------------------------------------------------
(* get_next_packet_id.                                                      *)
NextPacketId == IF packet_id + 1 >= UshrtMax THEN 1 ELSE packet_id + 1

(* The application's thread is its own, or inside one of its callbacks.     *)
InApplication ==
  /\ ~broken /\ ~destroyed
  /\ walk = NoWalk \/ (walk.inCallback /\ Nested)

TakePacketId(c) ==
  /\ InApplication
  /\ calls < MaxCalls
  /\ c = calls + 1
  /\ calls' = c
  /\ packet_id' = NextPacketId
  /\ id' = [id EXCEPT ![c] = NextPacketId]
  /\ UNCHANGED <<walk, broken, destroyed, due, acked>>

Refuse(c) ==
  /\ refused' = refused \cup {c}
  /\ UNCHANGED <<lists, wire, answers>>

Queued(k, c) == [queue EXCEPT ![k] = Append(@, c)]
Answered(c) == [answers EXCEPT ![c] = @ + 1]

(* publish_mqtt_message, QoS 1 with a callback: the message or the entry    *)
(* cannot be allocated, the packet is sent, or it cannot be sent and the    *)
(* entry is taken out and freed again before the callback runs.             *)
PublishTracked ==
  \E c \in Calls :
    /\ TakePacketId(c)
    /\ \/ Refuse(c)
       \/ /\ queue' = Queued("pub", c) /\ alive' = alive \cup {c}
          /\ wire' = wire \cup {<<"pub", c>>}
          /\ UNCHANGED <<answers, refused>>
       \/ /\ answers' = Answered(c)
          /\ refused' = refused \cup {c}
          /\ UNCHANGED <<lists, wire>>

(* publish_mqtt_message without an entry: QoS 0, whose callback runs with   *)
(* the result of the send, or QoS 1 without a callback, which the server    *)
(* acknowledges all the same.                                               *)
PublishUntracked ==
  \E c \in Calls :
    /\ TakePacketId(c)
    /\ \/ Refuse(c)
       \/ /\ answers' = Answered(c)
          /\ refused' \in {refused, refused \cup {c}}
          /\ UNCHANGED <<lists, wire>>
       \/ /\ wire' = wire \cup {<<"pub", c>>}
          /\ UNCHANGED <<lists, answers, refused>>

(* subscribe_mqtt_topic with a callback: when the SUBSCRIBE cannot be sent  *)
(* the error is returned and the entry stays where it is.                   *)
Subscribe ==
  \E c \in Calls :
    /\ TakePacketId(c)
    /\ \/ Refuse(c)
       \/ /\ queue' = Queued("sub", c) /\ alive' = alive \cup {c}
          /\ \/ wire' = wire \cup {<<"sub", c>>} /\ UNCHANGED refused
             \/ refused' = refused \cup {c} /\ UNCHANGED wire
          /\ UNCHANGED answers

(* unsubscribe_mqtt_topics: only a packet id; its UNSUBACK is ignored.      *)
Unsubscribe ==
  \E c \in Calls :
    /\ TakePacketId(c)
    /\ refused' \in {refused, refused \cup {c}}
    /\ UNCHANGED <<lists, wire, answers>>

-------------------------------------------------------------------------------
Waiting(k) == ToSet(queue[k])

Position(k, c) == CHOOSE i \in DOMAIN queue[k] : queue[k][i] = c

Removed(k, c) == [queue EXCEPT ![k] = RemoveAt(@, Position(k, c))]

(* Flink: the entry after position i of list k, or the head.                *)
Flink(k, i) == IF i < Len(queue[k]) THEN queue[k][i + 1] ELSE Head0

(* Mutant: any waiting entry matches.                                       *)
Matches_Any(k, c) == DOMAIN queue[k]

(* The entries of queue k whose packet id is that of call c.                *)
Matches(k, c) == {i \in DOMAIN queue[k] : id[queue[k][i]] = id[c]}

(* MQTT_CLIENT_ON_PUBLISH_ACK and MQTT_CLIENT_ON_SUBSCRIBE_ACK: the first   *)
(* entry with the acknowledged packet id is taken out and called back.      *)
Acknowledged ==
  /\ walk = NoWalk /\ ~broken /\ ~destroyed
  /\ \E w \in wire :
       LET k == w[1] c == w[2] IN
       /\ wire' = wire \ {w}
       /\ \/ /\ Matches(k, c) = {}
             /\ UNCHANGED <<queue, walk, answers, acked>>
          \/ \E i \in Matches(k, c) :
               /\ \A j \in Matches(k, c) : i <= j
               /\ queue' = [queue EXCEPT ![k] = RemoveAt(@, i)]
               /\ walk' = [NoWalk EXCEPT !.kind = k, !.ack = TRUE,
                                         !.cur = queue[k][i], !.inCallback = TRUE]
               /\ answers' = Answered(queue[k][i])
               /\ acked' = <<c, queue[k][i]>>
  /\ UNCHANGED <<packet_id, calls, id, alive, broken, destroyed, refused, due>>

(* Mutant: only the publications are notified.                              *)
Fail_PublishesOnly ==
  /\ walk = NoWalk /\ ~broken /\ ~destroyed
  /\ walk' = [NoWalk EXCEPT !.kind = "pub", !.cur = Flink("pub", 0)]
  /\ due' = Waiting("pub") \cup Waiting("sub")
  /\ wire' = {}
  /\ UNCHANGED <<packet_id, calls, id, lists, broken, destroyed, answers, refused, acked>>

(* on_mqtt_error_complete: both queues are walked, subscriptions first.     *)
Fail ==
  /\ walk = NoWalk /\ ~broken /\ ~destroyed
  /\ walk' = [NoWalk EXCEPT !.kind = "sub", !.cur = Flink("sub", 0)]
  /\ due' = Waiting("pub") \cup Waiting("sub")
  /\ wire' = {}
  /\ UNCHANGED <<packet_id, calls, id, lists, broken, destroyed, answers, refused, acked>>

(* A step of the walk up to the callback.  notify_publish_ack_failure takes *)
(* the entry out first, notify_subscribe_ack_failure leaves it in.          *)
Visit ==
  /\ walk.kind # "none" /\ ~walk.inCallback /\ walk.cur # Head0 /\ ~broken
  /\ walk' = [walk EXCEPT !.next = Flink(walk.kind, Position(walk.kind, walk.cur)),
                          !.inCallback = TRUE]
  /\ queue' = IF walk.kind = "pub" THEN Removed("pub", walk.cur) ELSE queue
  /\ answers' = Answered(walk.cur)
  /\ UNCHANGED <<packet_id, calls, id, alive, broken, destroyed, wire, refused, due, acked>>

(* Mutants: the entry is not freed; the walk does not advance.              *)
CallbackReturns_Leaks ==
  /\ walk.inCallback /\ ~broken
  /\ queue' = IF walk.kind = "sub" /\ ~walk.ack THEN Removed("sub", walk.cur) ELSE queue
  /\ walk' = IF walk.ack THEN NoWalk
                         ELSE [walk EXCEPT !.cur = walk.next, !.next = Head0,
                                           !.inCallback = FALSE]
  /\ UNCHANGED <<packet_id, calls, id, alive, broken, destroyed, wire, queuesHistory>>
CallbackReturns_NoAdvance ==
  /\ walk.inCallback /\ ~broken
  /\ alive' = alive \ {walk.cur}
  /\ queue' = IF walk.kind = "sub" /\ ~walk.ack THEN Removed("sub", walk.cur) ELSE queue
  /\ walk' = IF walk.ack THEN NoWalk
                         ELSE [walk EXCEPT !.next = Head0, !.inCallback = FALSE]
  /\ UNCHANGED <<packet_id, calls, id, broken, destroyed, wire, queuesHistory>>

(* The callback returns: the entry is freed; a subscription's entry is      *)
(* taken out of the list only now, through its links.                       *)
CallbackReturns ==
  /\ walk.inCallback /\ ~broken
  /\ alive' = alive \ {walk.cur}
  /\ IF walk.kind = "sub" /\ ~walk.ack
       THEN \E links \in FreedLinks :
              /\ broken' = (links = "lost")
              /\ queue' = IF links = "kept" THEN Removed("sub", walk.cur) ELSE queue
       ELSE UNCHANGED <<queue, broken>>
  /\ walk' = IF walk.ack THEN NoWalk
                         ELSE [walk EXCEPT !.cur = walk.next, !.next = Head0,
                                           !.inCallback = FALSE]
  /\ UNCHANGED <<packet_id, calls, id, destroyed, wire, queuesHistory>>

(* The walk is back at the head.                                            *)
WalkEnds ==
  /\ walk.kind # "none" /\ ~walk.inCallback /\ walk.cur = Head0 /\ ~broken
  /\ walk' = IF walk.kind = "sub"
               THEN [NoWalk EXCEPT !.kind = "pub", !.cur = Flink("pub", 0)]
               ELSE NoWalk
  /\ UNCHANGED <<packet_id, calls, id, lists, broken, destroyed, wire, queuesHistory>>

(* disconnect_from_client, when the CONNACK does not come, and MQTT's      *)
(* own disconnect: the session ends, and nobody walks the queues.           *)
Disconnected ==
  /\ walk = NoWalk /\ ~broken /\ ~destroyed
  /\ wire' = {}
  /\ UNCHANGED <<packet_id, calls, id, lists, walk, broken, destroyed, queuesHistory>>

(* iotcore_mqtt_destroy frees the client, not what is in its queues.        *)
DestroyClient ==
  /\ walk = NoWalk /\ ~broken /\ ~destroyed
  /\ destroyed' = TRUE
  /\ wire' = {}
  /\ UNCHANGED <<packet_id, calls, id, lists, walk, broken, queuesHistory>>

QueuesNext ==
  \/ PublishTracked \/ PublishUntracked \/ Subscribe \/ Unsubscribe
  \/ Acknowledged \/ Fail \/ Visit \/ CallbackReturns \/ WalkEnds
  \/ Disconnected \/ DestroyClient

QueuesSpec == QueuesInit /\ [][QueuesNext]_queuesVars

(* The walk is straight-line code, and the application's callbacks return.  *)
FairQueuesSpec == QueuesSpec /\ WF_queuesVars(Visit) /\ WF_queuesVars(CallbackReturns) /\ WF_queuesVars(WalkEnds)

-------------------------------------------------------------------------------
(* The entry whose callback is running, or has just run.                    *)
Running == IF walk.inCallback THEN {walk.cur} ELSE {}

(* An allocated entry is in exactly one queue, once, or is the one whose    *)
(* callback is running; nothing else is in a queue (no leak, no entry       *)
(* freed while it is linked), and no publish that was refused.  The entry a *)
(* walk resumes at after a callback is still linked, whatever the callback  *)
(* did to the queues.                                                       *)
QueuesOwnEntries ==
  ~broken =>
    /\ alive = Waiting("pub") \cup Waiting("sub") \cup Running
    /\ Waiting("pub") \cap Waiting("sub") = {}
    /\ \A k \in Kinds : IsInjective(queue[k])
    /\ Waiting("pub") \cap refused = {}
    /\ ~walk.inCallback /\ walk.cur # Head0 => walk.cur \in Waiting(walk.kind)
    /\ walk.next # Head0 => walk.next \in Waiting(walk.kind) /\ walk.next # walk.cur

(* No callback runs twice, and none has run for a call that still waits.    *)
AnsweredOnce ==
  /\ \A c \in Calls : answers[c] <= 1
  /\ \A k \in Kinds : \A c \in Waiting(k) \ Running : answers[c] = 0 \/ broken

(* Whatever acknowledgements, failures and callbacks do to the two lists,   *)
(* each call keeps its entry until it is answered, and is answered once.    *)
CallsAccounted == QueuesTypeOK /\ QueuesOwnEntries /\ AnsweredOnce

(* An acknowledgement answers the call it is for, or the oldest waiting     *)
(* call that was given the same packet id a whole number of cycles away.    *)
AcksAnswerTheirCall ==
  [][acked' # acked =>
       LET meant == acked'[1] got == acked'[2] IN
       meant # got =>
         /\ meant \notin Waiting("pub") \cup Waiting("sub") \/ got < meant
         /\ (IF got < meant THEN meant - got ELSE got - meant) >= UshrtMax - 1]_queuesVars

(* When the walk over both queues ends, every call that was waiting when    *)
(* the connection failed has been answered and freed.                       *)
FlushAnswersAll ==
  [][walk # NoWalk /\ ~walk.ack /\ walk' = NoWalk =>
       \A c \in due : answers[c] = 1 /\ c \notin alive]_queuesVars

(* The walk ends, provided the callbacks make finitely many calls (MaxCalls *)
(* here): a callback that subscribes again always adds to the list walked.  *)
FlushEnds == (walk # NoWalk) ~> (walk = NoWalk \/ broken)

(* A failure of the connection answers everybody, in the end.               *)
FlushAnswers == FlushAnswersAll /\ FlushEnds

(* The queues implement the contract of the calls.                          *)
Contract == INSTANCE AckContract WITH
  waiting <- alive \ Running,
  answered <- {c \in Calls : answers[c] > 0}
ImplementsContract == Contract!Spec

================================================================================
