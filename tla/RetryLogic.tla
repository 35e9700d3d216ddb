------------------------------ MODULE RetryLogic ------------------------------
(***************************************************************************)
(* The retry timer driven by an abstract connection, the way               *)
(* iotcore_mqtt_client.c drives it: can_retry on every dowork while the    *)
(* connection is broken, stop_retry_timer when the CONNACK accepts.        *)
(***************************************************************************)
EXTENDS RetryTimer

CONSTANT StartTimes (* the possible first readings of the wall clock       *)

ASSUME StartAssumption == StartTimes \subseteq Nat

VARIABLES
  phase,       (* "broken", "connecting" or "connected"                     *)
  (* History, read by the properties only:                                  *)
  lastAttempt, (* when the last connection attempt was allowed              *)
  sameOutage,  (* no CONNACK has accepted since that attempt                *)
  outageStart, (* when this outage was first noticed by can_retry           *)
  blind        (* a clock read has failed                                   *)

retryVars == <<retry, now, phase, lastAttempt, sameOutage, outageStart, blind>>

RetryTypeOK ==
  /\ retry \in RetryType
  /\ now \in Nat
  /\ phase \in {"broken", "connecting", "connected"}
  /\ lastAttempt \in Nat
  /\ outageStart \in Nat
  /\ sameOutage \in BOOLEAN
  /\ blind \in BOOLEAN

RetryInit ==
  /\ NewTimer
  /\ now \in StartTimes
  /\ phase = "broken"
  /\ lastAttempt = now /\ outageStart = now
  /\ sameOutage = FALSE /\ blind = FALSE

(* One iotcore_mqtt_dowork while the connection is broken.  An allowed      *)
(* attempt either fails on the spot or leaves the client connecting.        *)
RetryDoWork ==
  /\ phase = "broken"
  /\ \E t, s \in ClockReads, allowed \in BOOLEAN :
       /\ CanRetry(t, s, allowed)
       /\ blind' = (blind \/ t < 0 \/ retry'.start < 0)
       /\ IF allowed
            THEN /\ phase' \in {"broken", "connecting"}
                 /\ lastAttempt' = now
                 /\ sameOutage' = TRUE
            ELSE UNCHANGED <<phase, lastAttempt, sameOutage>>
       /\ outageStart' =
            IF retry'.retry_started /\ ~retry.retry_started THEN now ELSE outageStart
  /\ UNCHANGED now

(* The CONNACK accepts.                                                     *)
Accepted ==
  /\ phase = "connecting"
  /\ phase' = "connected"
  /\ sameOutage' = FALSE
  /\ StopRetryTimer
  /\ UNCHANGED <<now, lastAttempt, outageStart, blind>>

(* The attempt is refused or times out, or the connection is lost.          *)
Broken ==
  /\ phase \in {"connecting", "connected"}
  /\ phase' = "broken"
  /\ UNCHANGED <<retry, now, lastAttempt, sameOutage, outageStart, blind>>

RetryTick ==
  /\ \E d \in Ticks : now + d <= MaxTime /\ now' = now + d
  /\ UNCHANGED <<retry, phase, lastAttempt, sameOutage, outageStart, blind>>

RetryNext == RetryDoWork \/ Accepted \/ Broken \/ RetryTick

RetrySpec == RetryInit /\ [][RetryNext]_retryVars

(* The application calls dowork in a loop and time passes.  A failing clock *)
(* is not what keeps dowork going: the calls that read it well are fair.    *)
FairRetrySpec == RetrySpec /\ WF_retryVars(RetryDoWork /\ UNCHANGED blind) /\ WF_retryVars(RetryTick)

-------------------------------------------------------------------------------
(* Until the clock has once failed to be read, start holds a real time.     *)
StartReadable == ~blind => retry.start >= 0

(* Before the first attempt the timer is as create_retry_logic left it.     *)
Untouched ==
  /\ retry.first_attempt =>
       ~retry.retry_started /\ ~retry.retry_expired /\ (blind \/ ~sameOutage \/ ~retry.created)
  /\ ~retry.created => retry = CreateRetryLogic(FALSE, retry.limit)

(* The timer's own record of the outage agrees with what happened: while    *)
(* it runs, start is when the outage was noticed, and after an attempt it   *)
(* keeps running, from that attempt, until the CONNACK accepts              *)
(* (start_retry_timer, stop_retry_timer, can_retry).                        *)
TimerTracksOutage ==
  /\ retry.retry_started /\ retry.start >= 0 => retry.start = outageStart
  /\ retry.retry_started => ~retry.retry_expired
  /\ retry.created /\ ~blind /\ sameOutage /\ ~retry.retry_expired =>
       retry.retry_started /\ retry.last_connect = lastAttempt

-------------------------------------------------------------------------------
(* The timer works from a good clock.                                       *)
Sighted == retry.created /\ ~blind

(* This step is a connection attempt that can_retry allowed.                *)
Attempt == RetryDoWork /\ retry'.retry_count > retry.retry_count

LongestDelay(n) == LET h == (2^(n % 32) - 1) \div 4 IN IF h > 0 THEN 2 * h - 1 ELSE 0

(* Within one outage two attempts are more than ErrorTimeForRetrySecs apart *)
(* and at least the policy's half delta for the attempts made so far        *)
(* (can_retry, iotcore_retry_logic.c:217-261).                              *)
AttemptsBackOff ==
  [][Attempt /\ Sighted /\ sameOutage =>
       /\ now - lastAttempt > ErrorTimeForRetrySecs
       /\ \E h \in HalfDeltas(retry.retry_count) : now - lastAttempt >= h]_retryVars

(* No attempt is made later than the limit after the outage began: the      *)
(* limit check counts the delay of the attempt it allows (line 245).        *)
AttemptsWithinLimit ==
  [][Attempt /\ Sighted /\ retry.limit # 0 =>
       now - outageStart' <= retry.limit]_retryVars

(* The timer gives up only when the limit is set and the time already spent *)
(* plus a delay the policy could choose exceeds it (lines 245-275).         *)
GivesUpOnlyAtLimit ==
  [][retry'.retry_expired /\ ~retry.retry_expired =>
       /\ retry.limit # 0
       /\ \E d \in Delays(retry.retry_count) :
            now - outageStart + d > retry.limit]_retryVars

(* Giving up is final: nothing resets retry_expired, and with a readable    *)
(* clock no attempt follows (lines 196-200).                                *)
GaveUpForGood ==
  [][retry.retry_expired =>
       /\ retry'.retry_expired
       /\ phase' = "connecting" => (phase = "connecting" \/ blind')]_retryVars

(* A broken connection is retried: unless the timer gives up, an attempt is *)
(* made before the longest delay has passed.  The clock of the model ends   *)
(* at MaxTime, so only outages that leave room for that delay count.        *)
RoomToRetry ==
  /\ phase = "broken"
  /\ now + ErrorTimeForRetrySecs + LongestDelay(retry.retry_count) < MaxTime
RetriesEventually ==
  \A n \in 0 .. (MaxTime \div (ErrorTimeForRetrySecs + 1)) :
    (RoomToRetry /\ retry.retry_count = n)
      ~> (retry.retry_count # n \/ retry.retry_expired \/ ~Sighted)

(* One lost clock read is enough to switch the back-off off for good: once  *)
(* start is unknown nothing sets it again, not even a successful            *)
(* connection, and every can_retry answers yes (lines 191-195, 142-147).    *)
LostClockIsForever ==
  [][retry.start < 0 => retry'.start < 0 /\ retry'.retry_count <= retry.retry_count]_retryVars
================================================================================
