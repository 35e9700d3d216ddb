----------------------------- MODULE AckContract ------------------------------
(***************************************************************************)
(* What publish_mqtt_message and subscribe_mqtt_topic promise about a      *)
(* callback, whatever queues are behind them: a call takes effect at once  *)
(* (it is refused, or answered before it returns) or it waits, and a call  *)
(* that waits is answered at most once, by an acknowledgement or by the    *)
(* failure of the connection.  A call that was answered, or refused        *)
(* without being made to wait, is never answered later.                    *)
(***************************************************************************)
CONSTANT Calls \* the calls the application makes

VARIABLES
  waiting,  \* the calls whose callback is still due
  answered  \* the calls whose callback has run

Init == waiting = {} /\ answered = {}

Fresh == Calls \ (waiting \cup answered)

(* A call is made: it is refused, waits, or is answered before it returns.  *)
Wait == \E c \in Fresh : waiting' = waiting \cup {c} /\ UNCHANGED answered
AnswerAtOnce == \E c \in Fresh : answered' = answered \cup {c} /\ UNCHANGED waiting

(* The callback of a waiting call runs.                                     *)
Answer ==
  \E c \in waiting : waiting' = waiting \ {c} /\ answered' = answered \cup {c}

Next == Wait \/ AnswerAtOnce \/ Answer

Spec == Init /\ [][Next]_<<waiting, answered>>
================================================================================
