------------------------------ MODULE MCIotcore ------------------------------
(* The two halves of iotcore_mqtt_client.c for TLC: its connection, or its *)
(* waiting queues.  They share no variable; a behaviour is one of one half, *)
(* chosen at the start, with the other as it was created.                   *)
EXTENDS MqttConnection, AckQueues

VARIABLE half

clientVars == <<vars, queuesVars, half>>

ClientInit ==
  /\ Init /\ QueuesInit
  /\ \/ half = "connection"
     \/ half = "queues" /\ retry.created

Connection == half = "connection" /\ UNCHANGED <<half, queuesVars>>
Queues == half = "queues" /\ UNCHANGED <<half, vars>>

ClientNext ==
  \/ Connection /\ DoWork
  \/ Connection /\ PumpDone
  \/ Connection /\ ConnAckAccepted
  \/ Connection /\ ConnAckRefused
  \/ Connection /\ OnDisconnect
  \/ Connection /\ OnError
  \/ Connection /\ DoConnect
  \/ Connection /\ CheckConnected
  \/ Connection /\ Disconnect
  \/ Connection /\ Destroy
  \/ Connection /\ Tick
  \/ Queues /\ PublishTracked
  \/ Queues /\ PublishUntracked
  \/ Queues /\ Subscribe
  \/ Queues /\ Unsubscribe
  \/ Queues /\ Acknowledged
  \/ Queues /\ Fail
  \/ Queues /\ Visit
  \/ Queues /\ CallbackReturns
  \/ Queues /\ WalkEnds
  \/ Queues /\ Disconnected
  \/ Queues /\ DestroyClient

(* The fairness of FairSpec, and that of FairQueuesSpec: of the three steps  *)
(* of a walk one at most can be taken, and the application can do no more   *)
(* than MaxCalls calls in a callback.                                       *)
FairClientSpec ==
  /\ ClientInit /\ [][ClientNext]_clientVars
  /\ WF_vars(Connection /\ DoWork)
  /\ WF_vars(Connection /\ PumpDone)
  /\ WF_vars(Connection /\ CheckConnected)
  /\ WF_vars(Connection /\ Tick)
  /\ WF_queuesVars(Queues /\ (Visit \/ CallbackReturns \/ WalkEnds))
==============================================================================
