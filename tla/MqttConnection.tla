---------------------------- MODULE MqttConnection ----------------------------
(***************************************************************************)
(* The connection of the IoTCore client (iotcore_mqtt_client.c): the       *)
(* status flags, the transport it owns, and the calls that change them     *)
(* (initialize_mqtt_connection and the pump of iotcore_mqtt_dowork, the    *)
(* doconnect loop, disconnect and destroy, and the umqtt callbacks).       *)
(*                                                                         *)
(* The umqtt client is external: it is bound to the transport it was last  *)
(* connected on and has a session that is idle, opening, up or closing.    *)
(* The application is one thread; the umqtt callbacks run inside its calls.*)
(***************************************************************************)
EXTENDS RetryTimer

CONSTANTS
  Transports,     (* the xio handles the client may create                   *)
  None,           (* a NULL handle                                           *)
  KeepAlive,      (* options->keepAliveInterval, in seconds                  *)
  ConnectTimeout, (* the timeout argument of iotcore_mqtt_doconnect          *)
  TickFaults      (* TRUE when a read of the tick counter may fail           *)

ASSUME ConnectionAssumption ==
  /\ None \notin Transports
  /\ KeepAlive \in Nat /\ ConnectTimeout \in Nat
  /\ TickFaults \in BOOLEAN
  /\ 0 \notin Ticks

VARIABLES
  status,       (* mqtt_client_status                                        *)
  connect_time, (* mqtt_connect_time                                         *)
  xio,          (* xio_transport                                             *)
  live,         (* the transports created and not yet destroyed              *)
  mqtt,         (* the umqtt client                                          *)
  pc,           (* where the application's thread is                         *)
  waiting,      (* inside iotcore_mqtt_doconnect                             *)
  lastSendTime, (* the loop's start time, 0 outside doconnect                *)
  outcome,      (* what the last iotcore_mqtt_doconnect returned             *)
  (* History, read by the properties only:                                   *)
  attemptedAt,  (* when the session now opening was asked for                *)
  misread       (* a read of the tick counter has failed                     *)

connVars == <<status, connect_time, xio, live, mqtt>>
callVars == <<pc, waiting, lastSendTime, outcome>>
history == <<attemptedAt, misread>>
vars == <<retry, now, connVars, callVars, history>>

StatusType ==
  [connect_status : {"NOT_CONNECTED", "CONNECTING", "CONNECTED"},
   is_disconnect_called : BOOLEAN, is_connection_lost : BOOLEAN,
   is_destroy_called : BOOLEAN, is_recoverable_error : BOOLEAN]

MqttType ==
  [present : BOOLEAN, bound : Transports \cup {None},
   session : {"idle", "opening", "up", "closing"}]

(* The umqtt client after mqtt_client_init, and when init failed.           *)
NewMqtt == [present |-> TRUE, bound |-> None, session |-> "idle"]
NoMqtt == [present |-> FALSE, bound |-> None, session |-> "idle"]

Unbound(m) == [m EXCEPT !.bound = None, !.session = "idle"]

(* mqtt_client_disconnect: an established session is asked to close, or the *)
(* DISCONNECT packet cannot be sent; any other session is closed at once.   *)
DisconnectOutcomes(m) ==
  IF m.session \in {"up", "closing"} THEN {m, [m EXCEPT !.session = "closing"]} ELSE {Unbound(m)}

(* tickcounter_get_current_ms: whether the call may fail.                   *)
TickReads == {TRUE} \cup (IF TickFaults THEN {FALSE} ELSE {})

(* The time a call reads into an uninitialised local: the current one, or   *)
(* anything when the read fails.                                            *)
LocalTimes(read) == IF read THEN {now} ELSE 0 .. MaxTime

TypeOK ==
  /\ retry \in RetryType
  /\ now \in 0 .. MaxTime /\ connect_time \in 0 .. MaxTime
  /\ lastSendTime \in 0 .. MaxTime /\ attemptedAt \in 0 .. MaxTime
  /\ status \in StatusType
  /\ xio \in Transports \cup {None} /\ live \subseteq Transports
  /\ mqtt \in MqttType
  /\ pc \in {"app", "dowork", "pump", "check", "destroyed"}
  /\ waiting \in BOOLEAN
  /\ outcome \in {"none", "ok", "error", "not_connected"}
  /\ misread \in BOOLEAN

(* initialize_mqtt_client_handle.                                           *)
Init ==
  /\ NewTimer
  /\ now = 0 /\ connect_time = 0 /\ lastSendTime = 0
  /\ status = [connect_status |-> "NOT_CONNECTED", is_disconnect_called |-> FALSE,
               is_connection_lost |-> FALSE, is_destroy_called |-> FALSE,
               is_recoverable_error |-> TRUE]
  /\ xio = None /\ live = {} /\ mqtt = NewMqtt
  /\ pc = "app" /\ waiting = FALSE /\ outcome = "none"
  /\ attemptedAt = 0 /\ misread = FALSE

-------------------------------------------------------------------------------
(* Mutant: the handle of the destroyed transport is kept.                   *)
DisconnectFromClient_KeepsHandle ==
  /\ mqtt' \in DisconnectOutcomes(mqtt)
  /\ live' = live \ {xio}
  /\ UNCHANGED xio

(* disconnect_from_client.                                                  *)
DisconnectFromClient ==
  /\ mqtt' \in DisconnectOutcomes(mqtt)
  /\ live' = live \ {xio}
  /\ xio' = None

(* mqtt_client_connect on transport x.  Opening the transport may fail at   *)
(* once: the call then reports the error through on_mqtt_error_complete and *)
(* still returns 0, or returns an error itself.                             *)
ConnectMqtt(x, m, ok, lost) ==
  \/ /\ ok = FALSE /\ lost = FALSE
     /\ mqtt' = Unbound(m)
  \/ /\ m.present
     /\ ok = TRUE /\ lost = FALSE
     /\ mqtt' = [m EXCEPT !.bound = x, !.session = "opening"]
  \/ /\ m.present
     /\ ok = TRUE /\ lost = TRUE
     /\ mqtt' = [m EXCEPT !.bound = x, !.session = "idle"]

(* send_mqtt_connect_message from transport x0 and umqtt client m.          *)
SendMqttConnectMessage(x0, l0, m, ok, lost) ==
  \E x \in IF x0 # None THEN {x0} ELSE {None} \cup (Transports \ (live \cup {xio})) :
    /\ xio' = x
    /\ live' = l0 \cup ({x} \ {None})
    /\ IF x = None
         THEN ok = FALSE /\ lost = FALSE /\ mqtt' = m
         ELSE ConnectMqtt(x, m, ok, lost)
    /\ \E read \in TickReads :
         /\ connect_time' = IF ok /\ read THEN now ELSE connect_time
         /\ misread' = (misread \/ (ok /\ ~read))

(* Mutant: the condition on is_recoverable_error inverted.                  *)
Recreates_Swapped == status.is_connection_lost /\ ~status.is_recoverable_error
Recreates == status.is_connection_lost /\ status.is_recoverable_error

(* The connection attempt of initialize_mqtt_connection (lines 871-891).    *)
TryConnect(ok) ==
  \E lost \in BOOLEAN :
    /\ IF Recreates
         THEN \E m \in {NewMqtt, NoMqtt} :
                SendMqttConnectMessage(None, live \ {xio}, m, ok, lost)
         ELSE SendMqttConnectMessage(xio, live, mqtt, ok, lost)
    /\ status' =
         [status EXCEPT !.connect_status = IF ok THEN "CONNECTING" ELSE @,
                        !.is_connection_lost = @ \/ lost]
    /\ attemptedAt' = IF ok THEN now ELSE attemptedAt

(* Mutant: a disconnected client connects again.                            *)
MayConnect_AfterDisconnect == status.connect_status = "NOT_CONNECTED"
MayConnect ==
  ~status.is_disconnect_called /\ status.connect_status = "NOT_CONNECTED"

(* Mutant: the seconds divided by 1000 again.                               *)
TimedOut_WrongUnit == (now - connect_time) \div 1000 > KeepAlive
TimedOut == now - connect_time > KeepAlive

(* initialize_mqtt_connection; ok is FALSE when it returns an error.        *)
InitializeMqttConnection(ok) ==
  \E read \in TickReads :
    \/ /\ MayConnect
       /\ \E t, s \in ClockReads, allowed \in BOOLEAN :
            /\ CanRetry(t, s, allowed)
            /\ \/ ~allowed /\ ok = TRUE /\ UNCHANGED <<connVars, history>>
               \/ /\ allowed /\ ~read
                  /\ ok = FALSE /\ misread' = TRUE
                  /\ UNCHANGED <<connVars, attemptedAt>>
               \/ allowed /\ read /\ TryConnect(ok)
    \/ /\ ~MayConnect /\ status.connect_status = "NOT_CONNECTED"
       /\ ok = TRUE
       /\ UNCHANGED <<retry, connVars, history>>
    \/ /\ status.connect_status = "CONNECTING" /\ read /\ TimedOut
       /\ ok = FALSE
       /\ DisconnectFromClient
       /\ status' = [status EXCEPT !.connect_status = "NOT_CONNECTED"]
       /\ UNCHANGED <<retry, connect_time, history>>
    \/ /\ status.connect_status # "NOT_CONNECTED"
       /\ ~(status.connect_status = "CONNECTING" /\ read /\ TimedOut)
       /\ ok = read
       /\ misread' = (misread \/ ~read)
       /\ UNCHANGED <<retry, connVars, attemptedAt>>

(* Where the thread goes when iotcore_mqtt_dowork returns.                  *)
Returned == IF waiting THEN "check" ELSE "app"

(* iotcore_mqtt_dowork up to mqtt_client_dowork.                            *)
DoWork ==
  /\ pc \in {"app", "dowork"}
  /\ \E ok \in BOOLEAN :
       /\ InitializeMqttConnection(ok)
       /\ pc' = IF ok THEN "pump" ELSE Returned
  /\ UNCHANGED <<now, waiting, lastSendTime, outcome>>

(* mqtt_client_dowork returns.                                              *)
PumpDone ==
  /\ pc = "pump"
  /\ pc' = Returned
  /\ UNCHANGED <<retry, now, connVars, waiting, lastSendTime, outcome, history>>

-------------------------------------------------------------------------------
(* Mutant: the retry timer is not stopped.                                  *)
ConnAckAccepted_NoStop ==
  /\ pc = "pump" /\ mqtt.session = "opening"
  /\ mqtt' = [mqtt EXCEPT !.session = "up"]
  /\ status' = [status EXCEPT !.is_recoverable_error = TRUE,
                              !.is_connection_lost = FALSE,
                              !.connect_status = "CONNECTED"]
  /\ UNCHANGED <<retry, now, connect_time, xio, live, callVars, history>>

(* on_mqtt_operation_complete, MQTT_CLIENT_ON_CONNACK with "accepted".      *)
ConnAckAccepted ==
  /\ pc = "pump" /\ mqtt.session = "opening"
  /\ mqtt' = [mqtt EXCEPT !.session = "up"]
  /\ status' = [status EXCEPT !.is_recoverable_error = TRUE,
                              !.is_connection_lost = FALSE,
                              !.connect_status = "CONNECTED"]
  /\ StopRetryTimer
  /\ UNCHANGED <<now, connect_time, xio, live, callVars, history>>

(* The same with a refusal; permanent ones are not worth retrying.          *)
ConnAckRefused ==
  /\ pc = "pump" /\ mqtt.session = "opening"
  /\ \E permanent \in BOOLEAN :
       /\ status' = [status EXCEPT !.is_connection_lost = TRUE,
                                   !.is_recoverable_error = @ /\ ~permanent,
                                   !.connect_status = "NOT_CONNECTED"]
  /\ mqtt' \in DisconnectOutcomes(mqtt)
  /\ UNCHANGED <<retry, now, connect_time, xio, live, callVars, attemptedAt, misread>>

(* MQTT_CLIENT_ON_DISCONNECT: the DISCONNECT packet is out.                 *)
OnDisconnect ==
  /\ pc = "pump" /\ mqtt.session = "closing"
  /\ mqtt' = Unbound(mqtt)
  /\ status' = [status EXCEPT !.connect_status = "NOT_CONNECTED",
                              !.is_disconnect_called = TRUE]
  /\ UNCHANGED <<retry, now, connect_time, xio, live, callVars, history>>

(* on_mqtt_error_complete, from the pump or from a call of the application  *)
(* that sends.  The umqtt client may close its session, and may let go of   *)
(* the transport.                                                           *)
OnError ==
  /\ pc \in {"app", "pump"} /\ mqtt.bound # None
  /\ mqtt' \in {mqtt, [mqtt EXCEPT !.session = "idle"], Unbound(mqtt)}
  /\ status' = [status EXCEPT !.connect_status = "NOT_CONNECTED",
                              !.is_connection_lost = TRUE]
  /\ UNCHANGED <<retry, now, connect_time, xio, live, callVars, history>>

-------------------------------------------------------------------------------
(* The application calls iotcore_mqtt_doconnect.                            *)
DoConnect ==
  /\ pc = "app"
  /\ waiting' = TRUE
  /\ \E read \in TickReads :
       lastSendTime' \in LocalTimes(read) /\ misread' = (misread \/ ~read)
  /\ pc' = "dowork" /\ outcome' = "none"
  /\ UNCHANGED <<retry, now, connVars, attemptedAt>>

(* The difference is unsigned: a start after the current time is "long ago".*)
Elapsed(t) == t < lastSendTime \/ t - lastSendTime > ConnectTimeout

KeepsConnecting(t) ==
  /\ status.connect_status # "CONNECTED"
  /\ status.is_recoverable_error
  /\ ~Elapsed(t)

(* The loop's test, and what iotcore_mqtt_doconnect returns.                *)
CheckConnected ==
  /\ pc = "check"
  /\ \E read \in TickReads : \E t \in LocalTimes(read) :
       /\ misread' = (misread \/ ~read)
       /\ IF KeepsConnecting(t)
            THEN pc' = "dowork" /\ UNCHANGED <<waiting, lastSendTime, outcome>>
            ELSE /\ pc' = "app" /\ waiting' = FALSE
                 /\ lastSendTime' = 0
                 /\ outcome' = IF Elapsed(t) THEN "error"
                                ELSE IF status.connect_status = "CONNECTED" THEN "ok"
                                ELSE "not_connected"
  /\ UNCHANGED <<retry, now, connVars, attemptedAt>>

(* iotcore_mqtt_disconnect, from the application or from one of its         *)
(* callbacks inside the pump.                                               *)
Disconnect ==
  /\ pc \in {"app", "pump"}
  /\ mqtt' \in DisconnectOutcomes(mqtt)
  /\ status' = [status EXCEPT !.is_disconnect_called = TRUE]
  /\ UNCHANGED <<retry, now, connect_time, xio, live, callVars, history>>

(* iotcore_mqtt_destroy: disconnect_from_client, then everything is freed.  *)
Destroy ==
  /\ pc = "app"
  /\ status' = [status EXCEPT !.is_destroy_called = TRUE,
                              !.is_connection_lost = TRUE,
                              !.connect_status = "NOT_CONNECTED"]
  /\ live' = live \ {xio} /\ xio' = None
  /\ mqtt' = NoMqtt
  /\ pc' = "destroyed"
  /\ UNCHANGED <<retry, now, connect_time, waiting, lastSendTime, outcome, history>>

Tick ==
  /\ pc # "destroyed"
  /\ \E d \in Ticks : now + d <= MaxTime /\ now' = now + d
  /\ UNCHANGED <<retry, connVars, callVars, history>>

Next ==
  \/ DoWork \/ PumpDone
  \/ ConnAckAccepted \/ ConnAckRefused \/ OnDisconnect \/ OnError
  \/ DoConnect \/ CheckConnected \/ Disconnect \/ Destroy
  \/ Tick

Spec == Init /\ [][Next]_vars

(* The application keeps calling dowork, its thread moves on, time passes.  *)
FairSpec ==
  /\ Spec
  /\ WF_vars(DoWork) /\ WF_vars(PumpDone) /\ WF_vars(CheckConnected)
  /\ WF_vars(Tick)

-------------------------------------------------------------------------------
(* The client owns exactly one transport: it never loses the handle of a    *)
(* live one, and the umqtt client is never bound to a destroyed one         *)
(* (disconnect_from_client, initialize_mqtt_connection, destroy).           *)
TransportOwned ==
  /\ live = {xio} \ {None}
  /\ mqtt.bound \in {None, xio}
  /\ mqtt.session # "idle" => mqtt.bound # None

(* A client that reports CONNECTED has an established session on its        *)
(* transport, no recorded loss, and a retry timer that was reset.  An       *)
(* established session is never one the server condemned, and a client with *)
(* one that is not reported CONNECTED has lost it.                          *)
ConnectedIsTrue ==
  /\ status.connect_status = "CONNECTED" =>
       /\ mqtt.session \in {"up", "closing"} /\ mqtt.bound = xio
       /\ mqtt.session = "closing" => status.is_disconnect_called
       /\ ~status.is_connection_lost /\ status.is_recoverable_error
       /\ ~(retry.created /\ retry.retry_started)
  /\ mqtt.session \in {"up", "closing"} =>
       /\ status.is_recoverable_error
       /\ status.connect_status = "CONNECTED" \/ status.is_connection_lost

(* After a disconnect or a destroy no session is opened any more.           *)
DisconnectIsFinal ==
  [][status.is_disconnect_called \/ status.is_destroy_called =>
       (mqtt'.session = "opening" => mqtt.session = "opening")]_vars

(* An attempt after a loss that may be retried runs on a transport of its   *)
(* own, never on the one the loss happened on.                              *)
FreshAfterLoss ==
  [][mqtt'.session = "opening" /\ mqtt # mqtt'
     /\ status.is_connection_lost /\ status.is_recoverable_error
       => xio' # xio /\ xio \notin live']_vars

(* With a readable tick counter the client waits KeepAlive seconds for the  *)
(* CONNACK before it closes a session that is opening on its own account.   *)
WaitsForConnAck ==
  [][mqtt.session = "opening" /\ mqtt'.session = "idle" /\ DoWork =>
       now - attemptedAt > KeepAlive \/ status.is_connection_lost \/ misread]_vars

(* doconnect reports success only for an established session, and           *)
(* NOT_CONNECT only to a client without one that the server has condemned   *)
(* since it was last connected.                                             *)
DoConnectIsTruthful ==
  [][pc = "check" /\ pc' = "app" =>
       /\ outcome' = "ok" => mqtt.session \in {"up", "closing"}
       /\ outcome' = "not_connected" =>
            /\ mqtt.session \in {"idle", "opening"}
            /\ status.is_connection_lost /\ ~status.is_recoverable_error]_vars

(* The session now opening is answered or closed: CONNECTING does not last  *)
(* (SRS 09_001 at line 894).  The model's clock ends at MaxTime.            *)
ConnectingEnds ==
  (status.connect_status = "CONNECTING" /\ connect_time + KeepAlive < MaxTime)
    ~> (status.connect_status # "CONNECTING" \/ misread)

(* doconnect returns within its window.                                     *)
DoConnectReturns ==
  (waiting /\ lastSendTime + ConnectTimeout < MaxTime) ~> (~waiting \/ misread)

(* An attempt to connect ends, for the state machine and for the caller of  *)
(* iotcore_mqtt_doconnect: not early, not never, and with a true answer.    *)
AttemptsEnd == WaitsForConnAck /\ DoConnectIsTruthful /\ ConnectingEnds /\ DoConnectReturns
================================================================================
