------------------------------ MODULE ClientProofs -----------------------------
(***************************************************************************)
(* Proofs about the IoTCore client, for every value of its constants: what  *)
(* one call of the retry timer does, the timer driven by an abstract        *)
(* connection (RetryLogic), the connection itself (MqttConnection), and     *)
(* the waiting queues (AckQueues), for any number of calls, any width of    *)
(* the packet id, with and without calls from the callbacks.                *)
(***************************************************************************)
EXTENDS RetryLogic, MqttConnection, AckQueues, DataLemmas

(* The half deltas and the delays the policy can return are integers.       *)
LEMMA PolicyRange ==
  ASSUME NEW n \in Nat
  PROVE  /\ HalfDeltas(n) \subseteq Int
         /\ Delays(n) \subseteq Int
<1>1. HalfDeltas(n) \subseteq Int
  BY DEF HalfDeltas
<1>2. QED
  BY <1>1 DEF Delays

(* A delay is never below one of the half deltas it can be drawn from.      *)
LEMMA DelayFloor ==
  ASSUME NEW n \in Nat, NEW d \in Delays(n)
  PROVE  \E h \in HalfDeltas(n) : h <= d
<1>1. PICK h \in HalfDeltas(n) : d \in IF h > 0 THEN h .. (2 * h - 1) ELSE {h}
  BY DEF Delays
<1>2. h \in Int
  BY PolicyRange
<1>3. QED
  BY <1>1, <1>2

(* 2^k is a positive integer for every shift the code can perform.          *)
LEMMA ShiftPositive == \A n \in Nat : 2^(n % 32) \in Int /\ 2^(n % 32) >= 1
<1>1. ASSUME NEW k \in 0 .. 31 PROVE 2^k >= 1
  <2>1. /\ 2^0 >= 1 /\ 2^1 >= 1 /\ 2^2 >= 1 /\ 2^3 >= 1 /\ 2^4 >= 1 /\ 2^5 >= 1 /\ 2^6 >= 1 /\ 2^7 >= 1
          /\ 2^8 >= 1 /\ 2^9 >= 1 /\ 2^10 >= 1 /\ 2^11 >= 1 /\ 2^12 >= 1 /\ 2^13 >= 1 /\ 2^14 >= 1 /\ 2^15 >= 1
          /\ 2^16 >= 1 /\ 2^17 >= 1 /\ 2^18 >= 1 /\ 2^19 >= 1 /\ 2^20 >= 1 /\ 2^21 >= 1 /\ 2^22 >= 1 /\ 2^23 >= 1
          /\ 2^24 >= 1 /\ 2^25 >= 1 /\ 2^26 >= 1 /\ 2^27 >= 1 /\ 2^28 >= 1 /\ 2^29 >= 1 /\ 2^30 >= 1 /\ 2^31 >= 1
    OBVIOUS
  <2>2. \/ k = 0 \/ k = 1 \/ k = 2 \/ k = 3 \/ k = 4 \/ k = 5 \/ k = 6 \/ k = 7
          \/ k = 8 \/ k = 9 \/ k = 10 \/ k = 11 \/ k = 12 \/ k = 13 \/ k = 14 \/ k = 15
          \/ k = 16 \/ k = 17 \/ k = 18 \/ k = 19 \/ k = 20 \/ k = 21 \/ k = 22 \/ k = 23
          \/ k = 24 \/ k = 25 \/ k = 26 \/ k = 27 \/ k = 28 \/ k = 29 \/ k = 30 \/ k = 31
    OBVIOUS
  <2>3. QED
    BY <2>1, <2>2, Zenon
<1>2. ASSUME NEW n \in Nat PROVE n % 32 \in 0 .. 31
  OBVIOUS
<1>3. ASSUME NEW n \in Nat PROVE 2^(n % 32) \in Int
  OBVIOUS
<1>4. QED
  BY <1>1, <1>2, <1>3, Zenon

(* No delay is negative.                                                    *)
LEMMA DelayNat ==
  ASSUME NEW n \in Nat, NEW d \in Delays(n)
  PROVE  d \in Nat
<1>1. PICK h \in HalfDeltas(n) : h <= d
  BY DelayFloor
<1>2. h = 0 \/ h = (2^(n % 32) - 1) \div 4
  BY DEF HalfDeltas
<1> DEFINE p == 2^(n % 32)
<1>3. p \in Int /\ p >= 1
  BY ShiftPositive
<1> HIDE DEF p
<1>4. (p - 1) \div 4 >= 0
  BY <1>3
<1>5. h >= 0 /\ h \in Int /\ d \in Int
  BY <1>2, <1>4, PolicyRange DEF p
<1>6. QED
  BY <1>1, <1>5

(* Writing one field of the timer keeps its type.                           *)
LEMMA FieldUpdates ==
  ASSUME NEW r \in RetryType
  PROVE  /\ \A v \in BOOLEAN : [r EXCEPT !.retry_started = v] \in RetryType
         /\ \A v \in BOOLEAN : [r EXCEPT !.retry_expired = v] \in RetryType
         /\ \A v \in BOOLEAN : [r EXCEPT !.first_attempt = v] \in RetryType
         /\ \A v \in Nat \cup {UnknownTime} : [r EXCEPT !.start = v] \in RetryType
         /\ \A v \in Nat : [r EXCEPT !.last_connect = v] \in RetryType
         /\ \A v \in Nat : [r EXCEPT !.retry_count = v] \in RetryType
         /\ \A v \in Int : [r EXCEPT !.delay = v] \in RetryType
BY DEF RetryType

LEMMA CreatedType ==
  ASSUME NEW c \in BOOLEAN, NEW l \in Nat
  PROVE  CreateRetryLogic(c, l) \in RetryType
BY DEF RetryType, CreateRetryLogic, Epoch, UnknownTime

(* start_retry_timer on a timer that does not run, field by field.          *)
LEMMA StartedFields ==
  ASSUME NEW r \in RetryType, ~r.retry_started, NEW s \in Nat \cup {UnknownTime}
  PROVE  /\ StartedTimer(r, s) \in RetryType
         /\ StartedTimer(r, s).created = r.created
         /\ StartedTimer(r, s).start = s
         /\ StartedTimer(r, s).last_connect = r.last_connect
         /\ StartedTimer(r, s).retry_started
         /\ StartedTimer(r, s).retry_expired = r.retry_expired
         /\ ~StartedTimer(r, s).first_attempt
         /\ StartedTimer(r, s).retry_count = r.retry_count
<1> DEFINE a == [r EXCEPT !.start = s]
           b == [a EXCEPT !.delay = 0]
           c == [b EXCEPT !.retry_started = TRUE]
           q == [c EXCEPT !.first_attempt = FALSE]
<1>0. StartedTimer(r, s) = q
  BY DEF StartedTimer
<1>1. q.created = r.created /\ q.start = s /\ q.last_connect = r.last_connect
      /\ q.retry_started /\ q.retry_expired = r.retry_expired
      /\ ~q.first_attempt /\ q.retry_count = r.retry_count
  BY DEF RetryType
<1> HIDE DEF a, b, c, q
<1>2. a \in RetryType
  BY FieldUpdates DEF a
<1>3. b \in RetryType
  BY <1>2, FieldUpdates DEF b
<1>4. c \in RetryType
  BY <1>3, FieldUpdates DEF c
<1>5. q \in RetryType
  BY <1>4, FieldUpdates DEF q
<1>6. QED
  BY <1>0, <1>1, <1>5

(* stop_retry_timer on a running timer, field by field.                     *)
LEMMA StoppedFields ==
  ASSUME NEW r \in RetryType, r.created, r.retry_started
  PROVE  /\ StoppedTimer(r) \in RetryType
         /\ StoppedTimer(r).created
         /\ StoppedTimer(r).start = r.start
         /\ ~StoppedTimer(r).retry_started
         /\ StoppedTimer(r).retry_expired = r.retry_expired
         /\ StoppedTimer(r).first_attempt = r.first_attempt
         /\ StoppedTimer(r).retry_count = 0
<1> DEFINE a == [r EXCEPT !.retry_started = FALSE]
           b == [a EXCEPT !.delay = 0]
           c == [b EXCEPT !.last_connect = Epoch]
           q == [c EXCEPT !.retry_count = 0]
<1>0. StoppedTimer(r) = q
  BY DEF StoppedTimer
<1>1. q.created /\ q.start = r.start /\ ~q.retry_started
      /\ q.retry_expired = r.retry_expired
      /\ q.first_attempt = r.first_attempt /\ q.retry_count = 0
  BY DEF RetryType
<1> HIDE DEF a, b, c, q
<1>2. a \in RetryType
  BY FieldUpdates DEF a
<1>3. b \in RetryType
  BY <1>2, FieldUpdates DEF b
<1>4. c \in RetryType
  BY <1>3, FieldUpdates DEF c, Epoch
<1>5. q \in RetryType
  BY <1>4, FieldUpdates DEF q
<1>6. QED
  BY <1>0, <1>1, <1>5

-------------------------------------------------------------------------------
(* What a call of can_retry may do: nothing, count the first attempt, start *)
(* the timer of a later outage, note the policy's next delay (and perhaps   *)
(* count an attempt), or give up.                                           *)
Idles(t, allowed) ==
  /\ retry' = retry
  /\ allowed => ~retry.created \/ t < 0 \/ retry.start < 0

Works(t) == retry.created /\ t >= 0 /\ retry.start >= 0 /\ ~retry.retry_expired

TriesFirst(t, s, allowed) ==
  /\ Works(t) /\ retry.first_attempt /\ allowed
  /\ retry'.created /\ retry'.retry_started /\ ~retry'.retry_expired
  /\ ~retry'.first_attempt
  /\ retry'.start = s /\ retry'.last_connect = t
  /\ retry'.retry_count = retry.retry_count + 1

Restarts(t, s, allowed) ==
  /\ Works(t) /\ ~retry.first_attempt /\ ~retry.retry_started /\ ~allowed
  /\ retry'.created /\ retry'.retry_started /\ ~retry'.retry_expired
  /\ ~retry'.first_attempt
  /\ retry'.start = s /\ retry'.last_connect = retry.last_connect
  /\ retry'.retry_count = retry.retry_count

Evaluates(t, allowed) ==
  /\ Works(t) /\ ~retry.first_attempt /\ retry.retry_started
  /\ t - retry.last_connect > ErrorTimeForRetrySecs
  /\ retry'.created /\ retry'.retry_started /\ ~retry'.retry_expired
  /\ ~retry'.first_attempt
  /\ retry'.start = retry.start
  /\ retry'.last_connect = IF allowed THEN t ELSE retry.last_connect
  /\ retry'.retry_count = IF allowed THEN retry.retry_count + 1 ELSE retry.retry_count
  /\ \E d \in Delays(retry.retry_count) :
       /\ WithinLimit(t, d)
       /\ allowed = (d <= ErrorTimeForRetrySecs \/ t - retry.last_connect >= d)

GivesUp(t, allowed) ==
  /\ Works(t) /\ ~retry.first_attempt /\ retry.retry_started /\ ~allowed
  /\ retry'.created /\ ~retry'.retry_started /\ retry'.retry_expired
  /\ ~retry'.first_attempt
  /\ retry'.start = retry.start /\ retry'.retry_count = 0
  /\ \E d \in Delays(retry.retry_count) : ~WithinLimit(t, d)

(* Before the first attempt the timer does not run.                         *)
FreshTimerIdle == retry.first_attempt => ~retry.retry_started

LEMMA CanRetryCases ==
  ASSUME retry \in RetryType, now \in Nat, FreshTimerIdle,
         NEW t \in ClockReads, NEW s \in ClockReads,
         NEW allowed \in BOOLEAN, CanRetry(t, s, allowed)
  PROVE  /\ retry' \in RetryType
         /\ \/ Idles(t, allowed) \/ TriesFirst(t, s, allowed)
            \/ Restarts(t, s, allowed) \/ Evaluates(t, allowed)
            \/ GivesUp(t, allowed)
<1> USE DEF Works
<1>0. /\ retry \in RetryType
      /\ t \in Nat \cup {UnknownTime} /\ s \in Nat \cup {UnknownTime}
  BY DEF ClockReads
<1>1. CASE /\ ~retry.created \/ t < 0 \/ retry.start < 0
           /\ UNCHANGED retry
  BY <1>0, <1>1 DEF Idles
<1>2. CASE allowed = FALSE /\ UNCHANGED retry
  BY <1>0, <1>2 DEF Idles
<1>3. CASE /\ Works(t) /\ retry.first_attempt /\ allowed = TRUE
           /\ retry' = [StartedTimer(retry, s) EXCEPT !.last_connect = t,
                                                      !.retry_count = @ + 1]
  <2>1. ~retry.retry_started
    BY <1>3 DEF FreshTimerIdle
  <2> DEFINE p == StartedTimer(retry, s)
             q == [p EXCEPT !.last_connect = t]
  <2>2. /\ p \in RetryType /\ p.created /\ p.start = s
        /\ p.retry_started /\ ~p.retry_expired /\ ~p.first_attempt
        /\ p.retry_count = retry.retry_count
    BY <1>0, <1>3, <2>1, StartedFields
  <2>3. t \in Nat
    BY <1>0, <1>3 DEF UnknownTime
  <2> HIDE DEF p
  <2>4. q \in RetryType /\ q.retry_count \in Nat
    BY <2>2, <2>3, FieldUpdates DEF RetryType
  <2>5. retry' = [q EXCEPT !.retry_count = q.retry_count + 1]
    BY <1>3 DEF p
  <2>6. TriesFirst(t, s, allowed)
    BY <1>3, <2>2, <2>5 DEF TriesFirst, RetryType
  <2> HIDE DEF q
  <2>7. retry' \in RetryType
    BY <2>4, <2>5, FieldUpdates
  <2>8. QED
    BY <2>6, <2>7
<1>4. CASE /\ Works(t) /\ ~retry.first_attempt /\ ~retry.retry_started
           /\ allowed = FALSE /\ retry' = StartedTimer(retry, s)
  BY <1>0, <1>4, StartedFields DEF Restarts
<1>5. CASE /\ Works(t) /\ ~retry.first_attempt /\ retry.retry_started
           /\ t - retry.last_connect > ErrorTimeForRetrySecs
           /\ EvaluatePolicy(t, allowed)
  <2>1. PICK d \in Delays(retry.retry_count) :
          \/ /\ WithinLimit(t, d)
             /\ allowed = (d <= ErrorTimeForRetrySecs \/ t - retry.last_connect >= d)
             /\ retry' = IF allowed
                           THEN [retry EXCEPT !.delay = d, !.last_connect = t,
                                              !.retry_count = @ + 1]
                           ELSE [retry EXCEPT !.delay = d]
          \/ /\ ~WithinLimit(t, d)
             /\ allowed = FALSE
             /\ retry' = StoppedTimer([retry EXCEPT !.retry_expired = TRUE])
    BY <1>5 DEF EvaluatePolicy
  <2>2. d \in Int /\ t \in Nat /\ retry.retry_count \in Nat
    BY <1>0, <1>5, PolicyRange DEF RetryType, UnknownTime
  <2> DEFINE p == [retry EXCEPT !.delay = d]
             q == [p EXCEPT !.last_connect = t]
             e == [retry EXCEPT !.retry_expired = TRUE]
  <2>3. CASE WithinLimit(t, d) /\ allowed
    <3>1. retry' = [q EXCEPT !.retry_count = retry.retry_count + 1]
      BY <2>1, <2>3
    <3>2. Evaluates(t, allowed)
      BY <1>0, <1>5, <2>1, <2>3, <3>1 DEF Evaluates, RetryType
    <3> HIDE DEF p, q
    <3>3. p \in RetryType
      BY <1>0, <2>2, FieldUpdates DEF p
    <3>4. q \in RetryType
      BY <2>2, <3>3, FieldUpdates DEF q
    <3>5. retry' \in RetryType
      BY <2>2, <3>1, <3>4, FieldUpdates
    <3>6. QED
      BY <3>2, <3>5
  <2>4. CASE WithinLimit(t, d) /\ ~allowed
    <3>1. retry' = p
      BY <2>1, <2>4
    <3>2. retry' \in RetryType
      BY <1>0, <2>2, <3>1, FieldUpdates
    <3>3. Evaluates(t, allowed)
      BY <1>0, <1>5, <2>1, <2>4, <3>1 DEF Evaluates, RetryType
    <3>4. QED
      BY <3>2, <3>3
  <2>5. CASE ~WithinLimit(t, d)
    <3>1. /\ e \in RetryType /\ e.created /\ e.retry_started /\ e.retry_expired
          /\ ~e.first_attempt /\ e.start = retry.start
      BY <1>0, <1>5 DEF RetryType
    <3>2. retry' = StoppedTimer(e) /\ allowed = FALSE
      BY <2>1, <2>5
    <3> HIDE DEF e
    <3>3. QED
      BY <1>5, <2>5, <3>1, <3>2, StoppedFields DEF GivesUp
  <2>6. QED
    BY <2>3, <2>4, <2>5
<1>6. QED
  BY <1>1, <1>2, <1>3, <1>4, <1>5 DEF CanRetry, EvaluateRetry

-------------------------------------------------------------------------------
(***************************************************************************)
(* The retry timer under an abstract connection.                           *)
(***************************************************************************)

RetryIInv == RetryTypeOK /\ StartReadable /\ Untouched /\ TimerTracksOutage

-------------------------------------------------------------------------------
LEMMA RetryInitIInv == RetryInit => RetryIInv
<1> SUFFICES ASSUME RetryInit PROVE RetryIInv
  OBVIOUS
<1>1. PICK c \in BOOLEAN, l \in Nat : retry = CreateRetryLogic(c, l)
  BY TimerAssumption DEF RetryInit, NewTimer, TimerAssumption
<1>2. now \in Nat
  BY StartAssumption DEF RetryInit, StartAssumption
<1>3. RetryTypeOK
  BY <1>1, <1>2, CreatedType DEF RetryInit, RetryTypeOK
<1>4. StartReadable /\ TimerTracksOutage
  BY <1>1 DEF RetryInit, StartReadable, TimerTracksOutage, CreateRetryLogic, Epoch
<1>5. Untouched
  <2>1. (~retry.created => c = FALSE) /\ retry.limit = l
    BY <1>1 DEF CreateRetryLogic
  <2>2. ~retry.retry_started /\ ~retry.retry_expired /\ ~sameOutage
    BY <1>1 DEF RetryInit, CreateRetryLogic
  <2>3. QED
    BY <1>1, <2>1, <2>2 DEF Untouched
<1>6. QED
  BY <1>3, <1>4, <1>5 DEF RetryIInv

(* A read of the clock that did not fail returns the current second.        *)
LEMMA GoodRead ==
  ASSUME RetryTypeOK, NEW t \in ClockReads, t >= 0
  PROVE  t = now
BY DEF ClockReads, UnknownTime, RetryTypeOK

LEMMA RetryNextIInv == RetryIInv /\ [RetryNext]_retryVars => RetryIInv'
<1> SUFFICES ASSUME RetryIInv, [RetryNext]_retryVars PROVE RetryIInv'
  OBVIOUS
<1> USE DEF RetryIInv
<1>1. CASE RetryDoWork
  <2>1. PICK t \in ClockReads, s \in ClockReads, allowed \in BOOLEAN :
          /\ CanRetry(t, s, allowed)
          /\ blind' = (blind \/ t < 0 \/ retry'.start < 0)
          /\ IF allowed
               THEN /\ phase' \in {"broken", "connecting"}
                    /\ lastAttempt' = now
                    /\ sameOutage' = TRUE
               ELSE UNCHANGED <<phase, lastAttempt, sameOutage>>
          /\ outageStart' =
               IF retry'.retry_started /\ ~retry.retry_started THEN now ELSE outageStart
    BY <1>1 DEF RetryDoWork
  <2>2. now' = now
    BY <1>1 DEF RetryDoWork
  <2>3. /\ retry' \in RetryType
        /\ \/ Idles(t, allowed) \/ TriesFirst(t, s, allowed)
           \/ Restarts(t, s, allowed) \/ Evaluates(t, allowed)
           \/ GivesUp(t, allowed)
    BY <2>1, CanRetryCases DEF RetryTypeOK, Untouched, FreshTimerIdle
  <2>4. RetryTypeOK'
    BY <2>1, <2>2, <2>3 DEF RetryTypeOK
  <2>5. StartReadable'
    <3>1. retry'.start \in Int
      BY <2>3 DEF RetryType, UnknownTime
    <3>2. ~blind' => ~(retry'.start < 0)
      BY <2>1
    <3>3. QED
      BY <3>1, <3>2 DEF StartReadable
  <2>6. Untouched'
    BY <2>1, <2>3 DEF Untouched, RetryTypeOK, RetryType, UnknownTime,
       Idles, TriesFirst, Restarts, Evaluates, GivesUp, Works
  <2>7. TimerTracksOutage'
    <3>a. retry'.retry_started /\ retry'.start >= 0 => retry'.start = outageStart'
      BY <2>1, <2>3, GoodRead DEF TimerTracksOutage, Untouched, Idles, TriesFirst,
         Restarts, Evaluates, GivesUp, Works
    <3>b. retry'.retry_started => ~retry'.retry_expired
      BY <2>3 DEF TimerTracksOutage, Idles, TriesFirst, Restarts, Evaluates, GivesUp
    <3> SUFFICES ASSUME retry'.created, ~blind', sameOutage', ~retry'.retry_expired
                 PROVE  retry'.retry_started /\ retry'.last_connect = lastAttempt'
      BY <3>a, <3>b DEF TimerTracksOutage
    <3>1. ~blind /\ ~(t < 0) /\ ~(retry'.start < 0)
      BY <2>1
    <3>2. t = now /\ retry'.start >= 0 /\ retry.start >= 0
      BY <2>3, <3>1, GoodRead DEF RetryType, UnknownTime, ClockReads, RetryTypeOK, StartReadable
    <3>3. CASE Idles(t, allowed)
      BY <2>1, <3>1, <3>2, <3>3 DEF Idles, TimerTracksOutage
    <3>4. CASE TriesFirst(t, s, allowed)
      <4>1. s = now
        BY <3>2, <3>4, GoodRead DEF TriesFirst
      <4>2. QED
        BY <2>1, <3>1, <3>2, <3>4, <4>1 DEF TriesFirst, Untouched
    <3>5. CASE Restarts(t, s, allowed)
      <4>1. s = now
        BY <3>2, <3>5, GoodRead DEF Restarts
      <4>2. QED
        BY <2>1, <3>1, <3>2, <3>5, <4>1 DEF Restarts, Works, TimerTracksOutage
    <3>6. CASE Evaluates(t, allowed)
      BY <2>1, <3>1, <3>2, <3>6 DEF Evaluates, Works, TimerTracksOutage
    <3>7. CASE GivesUp(t, allowed)
      BY <3>7 DEF GivesUp
    <3>8. QED
      BY <2>3, <3>3, <3>4, <3>5, <3>6, <3>7
  <2>8. QED
    BY <2>4, <2>5, <2>6, <2>7
<1>2. CASE Accepted
  <2>1. /\ retry' = StoppedTimer(retry) /\ phase' = "connected" /\ ~sameOutage'
        /\ sameOutage' = FALSE
        /\ UNCHANGED <<now, lastAttempt, outageStart, blind>>
    BY <1>2 DEF Accepted, StopRetryTimer
  <2>2. CASE retry.created /\ retry.retry_started
    BY <2>1, <2>2, StoppedFields DEF RetryTypeOK, StartReadable, Untouched, TimerTracksOutage
  <2>3. CASE ~(retry.created /\ retry.retry_started)
    <3>1. retry' = retry
      BY <2>1, <2>3 DEF StoppedTimer
    <3>2. QED
      BY <2>1, <3>1 DEF RetryTypeOK, StartReadable, Untouched, TimerTracksOutage
  <2>4. QED
    BY <2>2, <2>3
<1>3. CASE Broken
  BY <1>3 DEF Broken, RetryTypeOK, StartReadable, Untouched, TimerTracksOutage
<1>4. CASE RetryTick
  <2>1. now' \in Nat
    BY <1>4, ClockAssumption DEF RetryTick, RetryTypeOK, ClockAssumption
  <2>2. QED
    BY <1>4, <2>1 DEF RetryTick, RetryTypeOK, StartReadable, Untouched, TimerTracksOutage
<1>5. CASE UNCHANGED retryVars
  BY <1>5 DEF retryVars, RetryTypeOK, StartReadable, Untouched, TimerTracksOutage
<1>6. QED
  BY <1>1, <1>2, <1>3, <1>4, <1>5 DEF RetryNext

(* The timer keeps its type: start is a second or the error value, the      *)
(* counters never go below zero.                                            *)
THEOREM TimerTypeCorrect == RetrySpec => []RetryTypeOK
<1>1. RetryIInv => RetryTypeOK
  BY DEF RetryIInv
<1>2. QED
  BY <1>1, RetryInitIInv, RetryNextIInv, PTL DEF RetrySpec

(* The timer's own record of the outage agrees with what happened, for      *)
(* every limit, clock and set of faults.                                    *)
THEOREM TimerIsFaithful == RetrySpec => []TimerTracksOutage
<1>1. RetryIInv => TimerTracksOutage
  BY DEF RetryIInv
<1>2. QED
  BY <1>1, RetryInitIInv, RetryNextIInv, PTL DEF RetrySpec

-------------------------------------------------------------------------------
(* A counted attempt is the first one, or one the policy allowed; both read *)
(* the clock.                                                               *)
LEMMA AttemptCases ==
  ASSUME RetryIInv, Attempt
  PROVE  \E s \in ClockReads :
           /\ \/ TriesFirst(now, s, TRUE)
              \/ Evaluates(now, TRUE)
           /\ outageStart' = IF retry'.retry_started /\ ~retry.retry_started
                               THEN now ELSE outageStart
<1>1. PICK t \in ClockReads, s \in ClockReads, allowed \in BOOLEAN :
        /\ CanRetry(t, s, allowed)
        /\ outageStart' =
             IF retry'.retry_started /\ ~retry.retry_started THEN now ELSE outageStart
  BY DEF Attempt, RetryDoWork
<1>2. \/ Idles(t, allowed) \/ TriesFirst(t, s, allowed)
      \/ Restarts(t, s, allowed) \/ Evaluates(t, allowed)
      \/ GivesUp(t, allowed)
  BY <1>1, CanRetryCases DEF RetryIInv, RetryTypeOK, Untouched, FreshTimerIdle
<1>3. retry'.retry_count > retry.retry_count /\ retry.retry_count \in Nat
  BY DEF Attempt, RetryIInv, RetryTypeOK, RetryType
<1>4. CASE TriesFirst(t, s, allowed)
  <2>1. t = now /\ allowed = TRUE
    BY <1>4, GoodRead DEF TriesFirst, Works, RetryIInv
  <2>2. QED
    BY <1>1, <1>4, <2>1
<1>5. CASE Evaluates(t, allowed)
  <2>1. allowed = TRUE
    BY <1>3, <1>5 DEF Evaluates
  <2>2. t = now
    BY <1>5, GoodRead DEF Evaluates, Works, RetryIInv
  <2>3. QED
    BY <1>1, <1>5, <2>1, <2>2
<1>6. ~Idles(t, allowed) /\ ~Restarts(t, s, allowed) /\ ~GivesUp(t, allowed)
  BY <1>3 DEF Idles, Restarts, GivesUp
<1>7. QED
  BY <1>2, <1>4, <1>5, <1>6

(* The back-off holds for every retry count, shift overflow included.       *)
THEOREM BackOff == RetrySpec => AttemptsBackOff
<1>1. ASSUME RetryIInv, Attempt, Sighted, sameOutage
      PROVE  /\ now - lastAttempt > ErrorTimeForRetrySecs
             /\ \E h \in HalfDeltas(retry.retry_count) : now - lastAttempt >= h
  <2>1. Evaluates(now, TRUE)
    BY <1>1, AttemptCases DEF TriesFirst, Untouched, RetryIInv, Sighted
  <2>2. retry.last_connect = lastAttempt
    BY <1>1, <2>1 DEF RetryIInv, TimerTracksOutage, Evaluates, Works, Sighted
  <2>3. now - lastAttempt > ErrorTimeForRetrySecs
    BY <2>1, <2>2 DEF Evaluates
  <2>4. PICK d \in Delays(retry.retry_count) :
          d <= ErrorTimeForRetrySecs \/ now - lastAttempt >= d
    BY <2>1, <2>2 DEF Evaluates
  <2>5. retry.retry_count \in Nat /\ now - lastAttempt \in Int
        /\ ErrorTimeForRetrySecs \in Nat
    BY <1>1, TimerAssumption DEF RetryIInv, RetryTypeOK, RetryType, TimerAssumption
  <2>6. PICK h \in HalfDeltas(retry.retry_count) : h <= d
    BY <2>5, DelayFloor
  <2>7. h \in Int /\ d \in Int
    BY <2>5, PolicyRange
  <2>8. now - lastAttempt >= h
    BY <2>3, <2>4, <2>5, <2>6, <2>7
  <2>9. QED
    BY <2>3, <2>8
<1>2. RetryIInv => [Attempt /\ Sighted /\ sameOutage =>
                 /\ now - lastAttempt > ErrorTimeForRetrySecs
                 /\ \E h \in HalfDeltas(retry.retry_count) : now - lastAttempt >= h]_retryVars
  BY <1>1
<1>3. QED
  BY <1>2, RetryInitIInv, RetryNextIInv, PTL DEF RetrySpec, AttemptsBackOff

(* Every attempt is inside the limit, counted from the start of the outage. *)
THEOREM WithinTheLimit == RetrySpec => AttemptsWithinLimit
<1>1. ASSUME RetryIInv, Attempt, Sighted, retry.limit # 0
      PROVE  now - outageStart' <= retry.limit
  <2>1. retry.limit \in Nat /\ now \in Nat /\ retry.retry_count \in Nat
        /\ outageStart \in Nat
    BY <1>1, TimerAssumption DEF RetryIInv, RetryTypeOK, RetryType, TimerAssumption
  <2>2. PICK s \in ClockReads :
          /\ TriesFirst(now, s, TRUE) \/ Evaluates(now, TRUE)
          /\ outageStart' = IF retry'.retry_started /\ ~retry.retry_started
                              THEN now ELSE outageStart
    BY <1>1, AttemptCases
  <2>3. CASE TriesFirst(now, s, TRUE)
    <3>1. outageStart' = now
      BY <1>1, <2>2, <2>3 DEF TriesFirst, Untouched, RetryIInv
    <3>2. QED
      BY <2>1, <3>1
  <2>4. CASE Evaluates(now, TRUE)
    <3>1. outageStart' = outageStart /\ retry.start = outageStart
      BY <1>1, <2>2, <2>4 DEF Evaluates, Works, RetryIInv, TimerTracksOutage
    <3>2. PICK d \in Delays(retry.retry_count) : WithinLimit(now, d)
      BY <2>4 DEF Evaluates
    <3>3. d \in Nat
      BY <2>1, DelayNat
    <3>4. retry.limit >= d + (now - outageStart)
      BY <1>1, <3>1, <3>2 DEF WithinLimit
    <3>5. QED
      BY <2>1, <3>1, <3>3, <3>4
  <2>5. QED
    BY <2>2, <2>3, <2>4
<1>2. RetryIInv => [Attempt /\ Sighted /\ retry.limit # 0 =>
                 now - outageStart' <= retry.limit]_retryVars
  BY <1>1
<1>3. QED
  BY <1>2, RetryInitIInv, RetryNextIInv, PTL DEF RetrySpec, AttemptsWithinLimit

(* The timer never gives up early by more than the delay it just drew.      *)
THEOREM NoEarlyGivingUp == RetrySpec => GivesUpOnlyAtLimit
<1> DEFINE Late == /\ retry.limit # 0
                   /\ \E d \in Delays(retry.retry_count) :
                        now - outageStart + d > retry.limit
<1>1. ASSUME RetryIInv, RetryDoWork, retry'.retry_expired, ~retry.retry_expired
      PROVE  Late
  <2>1. PICK t \in ClockReads, s \in ClockReads, allowed \in BOOLEAN :
          CanRetry(t, s, allowed)
    BY <1>1 DEF RetryDoWork
  <2>2. GivesUp(t, allowed)
    BY <1>1, <2>1, CanRetryCases
       DEF RetryIInv, RetryTypeOK, Untouched, FreshTimerIdle, Idles, TriesFirst, Restarts, Evaluates
  <2>3. t = now /\ retry.start = outageStart
    BY <1>1, <2>2, GoodRead DEF GivesUp, Works, RetryIInv, TimerTracksOutage
  <2>4. PICK d \in Delays(retry.retry_count) : ~WithinLimit(now, d)
    BY <2>2, <2>3 DEF GivesUp
  <2>5. retry.limit \in Nat /\ now \in Nat /\ outageStart \in Nat
        /\ retry.retry_count \in Nat
    BY <1>1, TimerAssumption DEF RetryIInv, RetryTypeOK, RetryType, TimerAssumption
  <2>6. d \in Nat
    BY <2>5, DelayNat
  <2>7. QED
    BY <2>3, <2>4, <2>5, <2>6 DEF WithinLimit
<1>2. ASSUME RetryIInv, [RetryNext]_retryVars, ~RetryDoWork, ~retry.retry_expired
      PROVE  ~retry'.retry_expired
  <2>1. CASE Accepted
    <3>1. CASE retry.created /\ retry.retry_started
      BY <1>2, <2>1, <3>1, StoppedFields DEF Accepted, StopRetryTimer, RetryIInv, RetryTypeOK
    <3>2. CASE ~(retry.created /\ retry.retry_started)
      BY <1>2, <2>1, <3>2 DEF Accepted, StopRetryTimer, StoppedTimer
    <3>3. QED
      BY <3>1, <3>2
  <2>2. QED
    BY <1>2, <2>1 DEF RetryNext, Broken, RetryTick, retryVars
<1>3. RetryIInv /\ [RetryNext]_retryVars => [retry'.retry_expired /\ ~retry.retry_expired => Late]_retryVars
  BY <1>1, <1>2
<1>4. QED
  BY <1>3, RetryInitIInv, RetryNextIInv, PTL DEF RetrySpec, GivesUpOnlyAtLimit

-------------------------------------------------------------------------------
(* Giving up is final: a timer that has expired stays expired, whatever is  *)
(* called later, and with a readable clock no attempt follows.              *)
THEOREM GivingUpIsFinal == RetrySpec => GaveUpForGood
<1> DEFINE Final == /\ retry'.retry_expired
                    /\ phase' = "connecting" => (phase = "connecting" \/ blind')
<1>1. ASSUME RetryIInv, RetryDoWork, retry.retry_expired
      PROVE  Final
  <2>1. PICK t \in ClockReads, s \in ClockReads, allowed \in BOOLEAN :
          /\ CanRetry(t, s, allowed)
          /\ blind' = (blind \/ t < 0 \/ retry'.start < 0)
          /\ allowed \/ phase' = phase
    BY <1>1 DEF RetryDoWork
  <2>2. Idles(t, allowed)
    BY <1>1, <2>1, CanRetryCases
       DEF RetryIInv, RetryTypeOK, Untouched, FreshTimerIdle, TriesFirst, Restarts, Evaluates, GivesUp, Works
  <2>3. retry.created
    BY <1>1 DEF RetryIInv, Untouched, CreateRetryLogic
  <2>4. QED
    BY <1>1, <2>1, <2>2, <2>3 DEF Idles, RetryDoWork
<1>2. ASSUME RetryIInv, [RetryNext]_retryVars, ~RetryDoWork, retry.retry_expired
      PROVE  Final
  <2>1. ~retry.retry_started
    BY <1>2 DEF RetryIInv, TimerTracksOutage
  <2>2. QED
    BY <1>2, <2>1 DEF RetryNext, Accepted, StopRetryTimer, StoppedTimer, Broken, RetryTick, retryVars
<1>3. RetryIInv /\ [RetryNext]_retryVars => [retry.retry_expired => Final]_retryVars
  BY <1>1, <1>2
<1>4. QED
  BY <1>3, RetryInitIInv, RetryNextIInv, PTL DEF RetrySpec, GaveUpForGood

(* One lost clock read switches the back-off off for good: an unknown start *)
(* is never set again and no attempt is counted any more.                   *)
THEOREM LostClockStays == RetrySpec => LostClockIsForever
<1> DEFINE Stays == retry'.start < 0 /\ retry'.retry_count <= retry.retry_count
<1>1. ASSUME RetryIInv, RetryDoWork, retry.start < 0
      PROVE  Stays
  <2>1. PICK t \in ClockReads, s \in ClockReads, allowed \in BOOLEAN :
          CanRetry(t, s, allowed)
    BY <1>1 DEF RetryDoWork
  <2>2. retry' = retry
    BY <1>1, <2>1 DEF CanRetry, RetryIInv, RetryTypeOK, RetryType, UnknownTime
  <2>3. retry.retry_count \in Nat
    BY <1>1 DEF RetryIInv, RetryTypeOK, RetryType
  <2>4. QED
    BY <1>1, <2>2, <2>3
<1>2. ASSUME RetryIInv, [RetryNext]_retryVars, ~RetryDoWork, retry.start < 0
      PROVE  Stays
  <2>1. retry \in RetryType /\ retry.retry_count \in Nat
    BY <1>2 DEF RetryIInv, RetryTypeOK, RetryType
  <2>2. CASE Accepted /\ retry.created /\ retry.retry_started
    BY <1>2, <2>1, <2>2, StoppedFields DEF Accepted, StopRetryTimer
  <2>3. CASE ~(Accepted /\ retry.created /\ retry.retry_started)
    BY <1>2, <2>1, <2>3 DEF RetryNext, Accepted, StopRetryTimer, StoppedTimer, Broken, RetryTick, retryVars
  <2>4. QED
    BY <2>2, <2>3
<1>3. RetryIInv /\ [RetryNext]_retryVars => [retry.start < 0 => Stays]_retryVars
  BY <1>1, <1>2
<1>4. QED
  BY <1>3, RetryInitIInv, RetryNextIInv, PTL DEF RetrySpec, LostClockIsForever

-------------------------------------------------------------------------------
(***************************************************************************)
(* The connection.                                                         *)
(***************************************************************************)

(* A session that is opening is what the client is waiting for, or one it   *)
(* knows it has lost.                                                       *)
SessionAccounted ==
  /\ status.connect_status = "CONNECTING" => mqtt.session \in {"idle", "opening"}
  /\ mqtt.session = "opening" =>
       status.connect_status = "CONNECTING" \/ status.is_connection_lost

(* Only a permanent refusal condemns the client, and it is a loss.          *)
CondemnedIsLost == ~status.is_recoverable_error => status.is_connection_lost

DestroyedStops == status.is_destroy_called => pc = "destroyed"

(* The time-out is counted from the attempt, if that read the time.         *)
AttemptTimed ==
  status.connect_status = "CONNECTING" /\ ~misread => connect_time = attemptedAt

IInv ==
  /\ TypeOK /\ TransportOwned /\ ConnectedIsTrue
  /\ FreshTimerIdle /\ SessionAccounted /\ CondemnedIsLost /\ DestroyedStops /\ AttemptTimed

-------------------------------------------------------------------------------
(* What the calls of the umqtt client leave of it.                          *)
LEMMA MqttUpdates ==
  ASSUME NEW m \in MqttType
  PROVE  /\ Unbound(m) \in MqttType
         /\ Unbound(m).bound = None /\ Unbound(m).session = "idle"
         /\ NewMqtt \in MqttType /\ NewMqtt.bound = None /\ NewMqtt.session = "idle"
         /\ NoMqtt \in MqttType /\ NoMqtt.bound = None /\ NoMqtt.session = "idle"
BY DEF MqttType, Unbound, NewMqtt, NoMqtt

(* A disconnect keeps an established session or asks it to close; any other *)
(* is gone.                                                                 *)
LEMMA DisconnectCases ==
  ASSUME NEW m \in MqttType, NEW n \in DisconnectOutcomes(m)
  PROVE  /\ n \in MqttType
         /\ \/ /\ m.session \in {"up", "closing"} /\ n.bound = m.bound
               /\ n.session \in {m.session, "closing"}
            \/ /\ m.session \in {"idle", "opening"}
               /\ n.bound = None /\ n.session = "idle"
<1>1. CASE m.session \in {"up", "closing"}
  <2>1. n \in {m, [m EXCEPT !.session = "closing"]}
    BY <1>1 DEF DisconnectOutcomes
  <2>2. QED
    BY <1>1, <2>1 DEF MqttType
<1>2. CASE m.session \notin {"up", "closing"}
  <2>1. n \in {Unbound(m)}
    BY <1>2, Zenon DEF DisconnectOutcomes
  <2>2. m.session \in {"idle", "opening"}
    BY <1>2 DEF MqttType
  <2>3. QED
    BY <2>1, <2>2 DEF MqttType, Unbound
<1>3. QED
  BY <1>1, <1>2

(* send_mqtt_connect_message leaves at most one transport and a umqtt client *)
(* that is idle or opening on it.                                           *)
LEMMA ConnectCases ==
  ASSUME NEW x0 \in Transports \cup {None}, NEW l0, NEW m \in MqttType,
         NEW ok \in BOOLEAN, NEW lost \in BOOLEAN,
         l0 = {x0} \ {None}, m.session # "idle" => m.bound # None, m.bound \in {None, x0},
         now \in 0 .. MaxTime, connect_time \in 0 .. MaxTime, misread \in BOOLEAN,
         SendMqttConnectMessage(x0, l0, m, ok, lost)
  PROVE  /\ xio' \in Transports \cup {None} /\ live' = {xio'} \ {None}
         /\ x0 = None /\ xio' # None => xio' # xio
         /\ mqtt' \in MqttType /\ mqtt'.bound \in {None, xio'}
         /\ mqtt'.session \in {"idle", "opening"}
         /\ mqtt'.session = "opening" => ok = TRUE /\ lost = FALSE /\ mqtt'.bound # None
         /\ connect_time' \in 0 .. MaxTime /\ misread' \in BOOLEAN
         /\ misread => misread'
         /\ ok /\ ~misread' => connect_time' = now
<1>1. PICK x \in IF x0 # None THEN {x0} ELSE {None} \cup (Transports \ (live \cup {xio})) :
        /\ xio' = x
        /\ live' = l0 \cup ({x} \ {None})
        /\ IF x = None
             THEN ok = FALSE /\ lost = FALSE /\ mqtt' = m
             ELSE ConnectMqtt(x, m, ok, lost)
        /\ \E read \in TickReads :
             /\ connect_time' = IF ok /\ read THEN now ELSE connect_time
             /\ misread' = (misread \/ (ok /\ ~read))
  BY DEF SendMqttConnectMessage
<1>2. /\ connect_time' \in 0 .. MaxTime /\ misread' \in BOOLEAN
      /\ misread => misread'
      /\ ok /\ ~misread' => connect_time' = now
  BY <1>1 DEF TickReads
<1>3. /\ x \in Transports \cup {None} /\ live' = {x} \ {None}
      /\ x0 = None /\ x # None => x # xio
      /\ x0 # None => x = x0
  BY <1>1
<1>4. CASE x = None
  BY <1>1, <1>2, <1>3, <1>4 DEF MqttType
<1>5. CASE x # None
  <2>1. ConnectMqtt(x, m, ok, lost) /\ x \in Transports
    BY <1>1, <1>3, <1>5
  <2>2. CASE /\ ok = FALSE /\ lost = FALSE
             /\ mqtt' = Unbound(m)
    BY <1>1, <1>2, <1>3, <1>5, <2>2, MqttUpdates
  <2>3. CASE /\ ok = TRUE /\ lost = FALSE
             /\ mqtt' = [m EXCEPT !.bound = x, !.session = "opening"]
    <3>1. mqtt' \in MqttType /\ mqtt'.bound = x /\ mqtt'.session = "opening"
      BY <2>1, <2>3 DEF MqttType
    <3>2. QED
      BY <1>1, <1>2, <1>3, <1>5, <2>3, <3>1
  <2>4. CASE /\ ok = TRUE /\ lost = TRUE
             /\ mqtt' = [m EXCEPT !.bound = x, !.session = "idle"]
    <3>1. mqtt' \in MqttType /\ mqtt'.bound = x /\ mqtt'.session = "idle"
      BY <2>1, <2>4 DEF MqttType
    <3>2. QED
      BY <1>1, <1>2, <1>3, <1>5, <2>4, <3>1
  <2>5. QED
    BY <2>1, <2>2, <2>3, <2>4 DEF ConnectMqtt
<1>6. QED
  BY <1>4, <1>5

(* Whatever can_retry answers, the timer keeps its type, and it does not    *)
(* run before the first attempt.                                            *)
LEMMA RetryKept ==
  ASSUME retry \in RetryType, now \in Nat, FreshTimerIdle,
         NEW t \in ClockReads, NEW s \in ClockReads,
         NEW allowed \in BOOLEAN, CanRetry(t, s, allowed)
  PROVE  retry' \in RetryType /\ FreshTimerIdle'
BY CanRetryCases
   DEF FreshTimerIdle, Idles, TriesFirst, Restarts, Evaluates, GivesUp

-------------------------------------------------------------------------------
(* The attempt of initialize_mqtt_connection keeps the invariant.           *)
LEMMA TryConnectKeeps ==
  ASSUME IInv, MayConnect, NEW ok \in BOOLEAN, TryConnect(ok),
         retry' \in RetryType, FreshTimerIdle', now' = now,
         pc \in {"app", "dowork"}, pc' \in {"app", "dowork", "pump", "check"},
         UNCHANGED <<waiting, lastSendTime, outcome>>
  PROVE  IInv'
<1> USE DEF IInv
<1>1. PICK lost \in BOOLEAN :
        /\ IF Recreates
             THEN \E m \in {NewMqtt, NoMqtt} :
                    SendMqttConnectMessage(None, live \ {xio}, m, ok, lost)
             ELSE SendMqttConnectMessage(xio, live, mqtt, ok, lost)
        /\ status' =
             [status EXCEPT !.connect_status = IF ok THEN "CONNECTING" ELSE @,
                            !.is_connection_lost = @ \/ lost]
        /\ attemptedAt' = IF ok THEN now ELSE attemptedAt
      BY DEF TryConnect
<1>2. /\ xio' \in Transports \cup {None} /\ live' = {xio'} \ {None}
      /\ mqtt' \in MqttType /\ mqtt'.bound \in {None, xio'}
      /\ mqtt'.session \in {"idle", "opening"}
      /\ mqtt'.session = "opening" => ok = TRUE /\ lost = FALSE /\ mqtt'.bound # None
      /\ connect_time' \in 0 .. MaxTime /\ misread' \in BOOLEAN
      /\ misread => misread'
      /\ ok /\ ~misread' => connect_time' = now
  <2>0. /\ now \in 0 .. MaxTime /\ connect_time \in 0 .. MaxTime /\ misread \in BOOLEAN
        /\ xio \in Transports \cup {None} /\ mqtt \in MqttType
    BY DEF TypeOK
  <2>1. CASE Recreates
    <3>1. PICK m \in {NewMqtt, NoMqtt} :
            SendMqttConnectMessage(None, live \ {xio}, m, ok, lost)
      BY <1>1, <2>1
    <3>2. m \in MqttType /\ m.bound = None /\ m.session = "idle"
      BY <2>0, <3>1, MqttUpdates
    <3> DEFINE l0 == live \ {xio}
    <3>3. l0 = {None} \ {None} /\ SendMqttConnectMessage(None, l0, m, ok, lost)
      BY <3>1 DEF TransportOwned
    <3> HIDE DEF l0
    <3>4. /\ None \in Transports \cup {None} /\ m \in MqttType
          /\ m.session # "idle" => m.bound # None
          /\ m.bound \in {None, None}
      BY <3>2
    <3>5. QED
      BY <2>0, <3>3, <3>4, ConnectCases
  <2>2. CASE ~Recreates
    <3>1. SendMqttConnectMessage(xio, live, mqtt, ok, lost)
      BY <1>1, <2>2
    <3>2. QED
      BY <2>0, <3>1, ConnectCases DEF TransportOwned
  <2>3. QED
    BY <2>1, <2>2
<1>3. status \in StatusType /\ status.connect_status = "NOT_CONNECTED"
      /\ ~status.is_disconnect_called
  BY DEF TypeOK, MayConnect
<1>4. /\ status' \in StatusType
      /\ status'.connect_status = IF ok THEN "CONNECTING" ELSE "NOT_CONNECTED"
      /\ status'.is_connection_lost = (status.is_connection_lost \/ lost)
      /\ status'.is_disconnect_called = status.is_disconnect_called
      /\ status'.is_destroy_called = status.is_destroy_called
      /\ status'.is_recoverable_error = status.is_recoverable_error
  BY <1>1, <1>3 DEF StatusType
<1>5. TypeOK'
  BY <1>1, <1>2, <1>4 DEF TypeOK
<1>6. TransportOwned'
  BY <1>2 DEF TransportOwned
<1>7. ConnectedIsTrue'
  BY <1>2, <1>4 DEF ConnectedIsTrue
<1>8. SessionAccounted' /\ CondemnedIsLost'
  BY <1>2, <1>4 DEF SessionAccounted, CondemnedIsLost
<1>9. DestroyedStops' /\ AttemptTimed'
  BY <1>1, <1>2, <1>4 DEF DestroyedStops, AttemptTimed
<1>10. QED
  BY <1>5, <1>6, <1>7, <1>8, <1>9

LEMMA InitIInv == Init => IInv
<1> SUFFICES ASSUME Init PROVE IInv
  OBVIOUS
<1>1. PICK c \in BOOLEAN, l \in Nat : retry = CreateRetryLogic(c, l)
  BY TimerAssumption DEF Init, NewTimer, TimerAssumption
<1>2. retry \in RetryType /\ ~retry.retry_started
  BY <1>1, CreatedType DEF CreateRetryLogic
<1>3. TypeOK
  <2>1. status \in StatusType
    BY DEF Init, StatusType
  <2>2. mqtt \in MqttType
    BY DEF Init, NewMqtt, MqttType
  <2>3. waiting \in BOOLEAN /\ misread \in BOOLEAN
    BY DEF Init
  <2>4. 0 \in 0 .. MaxTime
    BY ClockAssumption, ConnectionAssumption DEF ClockAssumption, ConnectionAssumption
  <2>5. QED
    BY <1>2, <2>1, <2>2, <2>3, <2>4 DEF Init, TypeOK
<1>4. QED
  BY <1>2, <1>3
     DEF Init, IInv, TransportOwned, ConnectedIsTrue, FreshTimerIdle, SessionAccounted,
         CondemnedIsLost, DestroyedStops, AttemptTimed, NewMqtt

(* initialize_mqtt_connection keeps the invariant, wherever dowork goes on. *)
LEMMA InitializeKeeps ==
  ASSUME IInv, NEW ok \in BOOLEAN, InitializeMqttConnection(ok), now' = now,
         pc \in {"app", "dowork"}, pc' \in {"app", "dowork", "pump", "check"},
         UNCHANGED <<waiting, lastSendTime, outcome>>
  PROVE  IInv'
<1> USE DEF IInv
<1>0. PICK read \in TickReads :
        \/ /\ MayConnect
           /\ \E t, s \in ClockReads, allowed \in BOOLEAN :
                /\ CanRetry(t, s, allowed)
                /\ \/ ~allowed /\ ok = TRUE /\ UNCHANGED <<connVars, history>>
                   \/ /\ allowed /\ ~read
                      /\ ok = FALSE /\ misread' = TRUE
                      /\ UNCHANGED <<connVars, attemptedAt>>
                   \/ allowed /\ read /\ TryConnect(ok)
        \/ /\ ~MayConnect /\ status.connect_status = "NOT_CONNECTED"
           /\ ok = TRUE
           /\ UNCHANGED <<retry, connVars, history>>
        \/ /\ status.connect_status = "CONNECTING" /\ read /\ TimedOut
           /\ ok = FALSE
           /\ DisconnectFromClient
           /\ status' = [status EXCEPT !.connect_status = "NOT_CONNECTED"]
           /\ UNCHANGED <<retry, connect_time, history>>
        \/ /\ status.connect_status # "NOT_CONNECTED"
           /\ ~(status.connect_status = "CONNECTING" /\ read /\ TimedOut)
           /\ ok = read
           /\ misread' = (misread \/ ~read)
           /\ UNCHANGED <<retry, connVars, attemptedAt>>
  BY DEF InitializeMqttConnection
<1>1. CASE /\ retry' \in RetryType /\ FreshTimerIdle'
           /\ status.connect_status = "NOT_CONNECTED" \/ retry' = retry
           /\ UNCHANGED <<connVars, attemptedAt>>
           /\ misread' \in BOOLEAN /\ (misread => misread')
  <2>1. TypeOK'
    BY <1>1 DEF connVars, TypeOK
  <2>2. TransportOwned' /\ ConnectedIsTrue' /\ SessionAccounted' /\ CondemnedIsLost'
    BY <1>1 DEF connVars, TransportOwned, ConnectedIsTrue, SessionAccounted, CondemnedIsLost
  <2>3. DestroyedStops' /\ AttemptTimed'
    BY <1>1 DEF connVars, DestroyedStops, AttemptTimed
  <2>4. QED
    BY <1>1, <2>1, <2>2, <2>3
<1>2. CASE /\ MayConnect
           /\ \E t, s \in ClockReads, allowed \in BOOLEAN :
                /\ CanRetry(t, s, allowed)
                /\ \/ ~allowed /\ ok = TRUE /\ UNCHANGED <<connVars, history>>
                   \/ /\ allowed /\ ~read
                      /\ ok = FALSE /\ misread' = TRUE
                      /\ UNCHANGED <<connVars, attemptedAt>>
                   \/ allowed /\ read /\ TryConnect(ok)
  <2>1. PICK t \in ClockReads, s \in ClockReads, allowed \in BOOLEAN :
          /\ CanRetry(t, s, allowed)
          /\ \/ ~allowed /\ ok = TRUE /\ UNCHANGED <<connVars, history>>
             \/ /\ allowed /\ ~read
                /\ ok = FALSE /\ misread' = TRUE
                /\ UNCHANGED <<connVars, attemptedAt>>
             \/ allowed /\ read /\ TryConnect(ok)
    BY <1>2
  <2>2. retry \in RetryType /\ now \in Nat
    BY ClockAssumption, ConnectionAssumption DEF ClockAssumption, TypeOK, ConnectionAssumption
  <2>3. retry' \in RetryType /\ FreshTimerIdle'
    BY <2>1, <2>2, RetryKept
  <2>4. CASE TryConnect(ok)
    BY <1>2, <2>3, <2>4, TryConnectKeeps
  <2>5. CASE UNCHANGED <<connVars, history>>
    BY <1>1, <1>2, <2>3, <2>5 DEF history, MayConnect, TypeOK
  <2>6. CASE misread' = TRUE /\ UNCHANGED <<connVars, attemptedAt>>
    BY <1>1, <1>2, <2>3, <2>6 DEF MayConnect
  <2>7. QED
    BY <2>1, <2>4, <2>5, <2>6
<1>3. CASE UNCHANGED <<retry, connVars, history>>
  BY <1>1, <1>3 DEF history, TypeOK, FreshTimerIdle
<1>4. CASE /\ status.connect_status = "CONNECTING"
           /\ DisconnectFromClient
           /\ status' = [status EXCEPT !.connect_status = "NOT_CONNECTED"]
           /\ UNCHANGED <<retry, connect_time, history>>
  <2>1. /\ mqtt' \in MqttType /\ mqtt'.bound = None /\ mqtt'.session = "idle"
        /\ live' = {} /\ xio' = None
    BY <1>4, DisconnectCases
       DEF DisconnectFromClient, TypeOK, TransportOwned, SessionAccounted
  <2>2. /\ status' \in StatusType /\ status'.connect_status = "NOT_CONNECTED"
        /\ status'.is_connection_lost = status.is_connection_lost
        /\ status'.is_recoverable_error = status.is_recoverable_error
        /\ status'.is_destroy_called = status.is_destroy_called
    BY <1>4 DEF TypeOK, StatusType
  <2>3. TypeOK'
    BY <1>4, <2>1, <2>2 DEF TypeOK, history
  <2>4. TransportOwned' /\ ConnectedIsTrue' /\ SessionAccounted' /\ CondemnedIsLost'
    BY <2>1, <2>2 DEF TransportOwned, ConnectedIsTrue, SessionAccounted, CondemnedIsLost
  <2>5. DestroyedStops' /\ AttemptTimed' /\ FreshTimerIdle'
    BY <1>4, <2>2 DEF DestroyedStops, AttemptTimed, FreshTimerIdle
  <2>6. QED
    BY <2>3, <2>4, <2>5
<1>5. CASE /\ misread' = (misread \/ ~read)
           /\ UNCHANGED <<retry, connVars, attemptedAt>>
  BY <1>1, <1>5 DEF TypeOK, TickReads, FreshTimerIdle
<1>6. QED
  BY <1>0, <1>2, <1>3, <1>4, <1>5

LEMMA NextIInv == IInv /\ [Next]_vars => IInv'
<1> SUFFICES ASSUME IInv, [Next]_vars PROVE IInv'
  OBVIOUS
<1> USE DEF IInv
<1>a. status \in StatusType /\ mqtt \in MqttType
  BY DEF TypeOK
<1>1. CASE DoWork
  <2>1. PICK ok \in BOOLEAN :
          InitializeMqttConnection(ok) /\ pc' = IF ok THEN "pump" ELSE Returned
    BY <1>1 DEF DoWork
  <2>2. /\ pc \in {"app", "dowork"} /\ pc' \in {"app", "dowork", "pump", "check"}
        /\ now' = now /\ UNCHANGED <<waiting, lastSendTime, outcome>>
    BY <1>1, <2>1 DEF DoWork, Returned
  <2>3. QED
    BY <2>1, <2>2, InitializeKeeps
<1>2. CASE PumpDone
  <2>1. pc' \in {"app", "check"} /\ pc = "pump"
    BY <1>2 DEF PumpDone, Returned
  <2>2. QED
    BY <1>2, <2>1 DEF PumpDone, connVars, history, TypeOK, TransportOwned, ConnectedIsTrue,
       FreshTimerIdle, SessionAccounted, CondemnedIsLost, DestroyedStops, AttemptTimed
<1>3. CASE ConnAckAccepted
  <2>1. /\ mqtt' \in MqttType /\ mqtt'.session = "up" /\ mqtt'.bound = mqtt.bound
        /\ mqtt.session = "opening"
    BY <1>a, <1>3 DEF ConnAckAccepted, MqttType
  <2>2. /\ status' \in StatusType /\ status'.connect_status = "CONNECTED"
        /\ ~status'.is_connection_lost /\ status'.is_recoverable_error
        /\ status'.is_destroy_called = status.is_destroy_called
    BY <1>a, <1>3 DEF ConnAckAccepted, StatusType
  <2>3. retry' \in RetryType /\ FreshTimerIdle' /\ ~(retry'.created /\ retry'.retry_started)
    <3>1. retry' = StoppedTimer(retry) /\ retry \in RetryType
      BY <1>3 DEF ConnAckAccepted, StopRetryTimer, TypeOK
    <3>2. CASE retry.created /\ retry.retry_started
      BY <3>1, <3>2, StoppedFields DEF FreshTimerIdle
    <3>3. CASE ~(retry.created /\ retry.retry_started)
      <4>1. retry' = retry
        BY <3>1, <3>3 DEF StoppedTimer
      <4>2. QED
        BY <3>1, <3>3, <4>1 DEF FreshTimerIdle
    <3>4. QED
      BY <3>2, <3>3
  <2>4. TypeOK'
    BY <1>3, <2>1, <2>2, <2>3 DEF ConnAckAccepted, callVars, history, TypeOK
  <2>5. TransportOwned' /\ ConnectedIsTrue'
    BY <1>3, <2>1, <2>2, <2>3 DEF ConnAckAccepted, TransportOwned, ConnectedIsTrue
  <2>6. SessionAccounted' /\ CondemnedIsLost' /\ DestroyedStops' /\ AttemptTimed'
    BY <1>3, <2>1, <2>2
       DEF ConnAckAccepted, callVars, SessionAccounted, CondemnedIsLost, DestroyedStops, AttemptTimed
  <2>7. QED
    BY <2>3, <2>4, <2>5, <2>6
<1>4. CASE ConnAckRefused
  <2>1. /\ mqtt' \in MqttType /\ mqtt'.session = "idle" /\ mqtt'.bound = None
    BY <1>a, <1>4, DisconnectCases DEF ConnAckRefused
  <2>2. PICK permanent \in BOOLEAN :
          /\ status' = [status EXCEPT !.is_connection_lost = TRUE,
                                      !.is_recoverable_error = @ /\ ~permanent,
                                      !.connect_status = "NOT_CONNECTED"]
    BY <1>4 DEF ConnAckRefused
  <2>3. /\ status' \in StatusType /\ status'.connect_status = "NOT_CONNECTED"
        /\ status'.is_connection_lost
        /\ status'.is_destroy_called = status.is_destroy_called
    BY <1>a, <2>2 DEF StatusType
  <2>4. TypeOK'
    BY <1>4, <2>1, <2>2, <2>3 DEF ConnAckRefused, callVars, TypeOK
  <2>5. TransportOwned' /\ ConnectedIsTrue' /\ FreshTimerIdle'
    BY <1>4, <2>1, <2>3
       DEF ConnAckRefused, TransportOwned, ConnectedIsTrue, FreshTimerIdle
  <2>6. SessionAccounted' /\ CondemnedIsLost' /\ DestroyedStops' /\ AttemptTimed'
    BY <1>4, <2>1, <2>3
       DEF ConnAckRefused, callVars, SessionAccounted, CondemnedIsLost, DestroyedStops, AttemptTimed
  <2>7. QED
    BY <2>4, <2>5, <2>6
<1>5. CASE OnDisconnect
  <2>1. mqtt' \in MqttType /\ mqtt'.session = "idle" /\ mqtt'.bound = None
    BY <1>a, <1>5, MqttUpdates DEF OnDisconnect
  <2>2. /\ status' \in StatusType /\ status'.connect_status = "NOT_CONNECTED"
        /\ status'.is_connection_lost = status.is_connection_lost
        /\ status'.is_recoverable_error = status.is_recoverable_error
        /\ status'.is_destroy_called = status.is_destroy_called
    BY <1>a, <1>5 DEF OnDisconnect, StatusType
  <2>3. TypeOK'
    BY <1>5, <2>1, <2>2 DEF OnDisconnect, callVars, history, TypeOK
  <2>4. TransportOwned' /\ ConnectedIsTrue' /\ FreshTimerIdle'
    BY <1>5, <2>1, <2>2 DEF OnDisconnect, TransportOwned, ConnectedIsTrue, FreshTimerIdle
  <2>5. SessionAccounted' /\ CondemnedIsLost' /\ DestroyedStops' /\ AttemptTimed'
    BY <1>5, <2>1, <2>2
       DEF OnDisconnect, callVars, SessionAccounted, CondemnedIsLost, DestroyedStops, AttemptTimed
  <2>6. QED
    BY <2>3, <2>4, <2>5
<1>6. CASE OnError
  <2>1. /\ mqtt' \in MqttType
        /\ \/ mqtt' = mqtt
           \/ mqtt'.session = "idle" /\ mqtt'.bound \in {None, mqtt.bound}
    <3>1. CASE mqtt' = mqtt
      BY <1>a, <3>1
    <3>2. CASE mqtt' = [mqtt EXCEPT !.session = "idle"]
      BY <1>a, <3>2 DEF MqttType
    <3>3. CASE mqtt' = Unbound(mqtt)
      BY <1>a, <3>3, MqttUpdates
    <3>4. QED
      BY <1>6, <3>1, <3>2, <3>3 DEF OnError
  <2>2. /\ status' \in StatusType /\ status'.connect_status = "NOT_CONNECTED"
        /\ status'.is_connection_lost
        /\ status'.is_recoverable_error = status.is_recoverable_error
        /\ status'.is_destroy_called = status.is_destroy_called
    BY <1>a, <1>6 DEF OnError, StatusType
  <2>3. TypeOK'
    BY <1>6, <2>1, <2>2 DEF OnError, callVars, history, TypeOK
  <2>4. TransportOwned' /\ ConnectedIsTrue' /\ FreshTimerIdle'
    BY <1>6, <2>1, <2>2 DEF OnError, TransportOwned, ConnectedIsTrue, FreshTimerIdle
  <2>5. SessionAccounted' /\ CondemnedIsLost' /\ DestroyedStops' /\ AttemptTimed'
    BY <1>6, <2>1, <2>2
       DEF OnError, callVars, SessionAccounted, CondemnedIsLost, DestroyedStops, AttemptTimed
  <2>6. QED
    BY <2>3, <2>4, <2>5
<1>7. CASE DoConnect
  <2>1. PICK read \in TickReads :
          lastSendTime' \in LocalTimes(read) /\ misread' = (misread \/ ~read)
    BY <1>7 DEF DoConnect
  <2>2. lastSendTime' \in 0 .. MaxTime /\ misread' \in BOOLEAN /\ (misread => misread')
    BY <2>1 DEF LocalTimes, TickReads, TypeOK
  <2>3. QED
    BY <1>7, <2>2 DEF DoConnect, connVars, TypeOK, TransportOwned, ConnectedIsTrue,
       FreshTimerIdle, SessionAccounted, CondemnedIsLost, DestroyedStops, AttemptTimed
<1>8. CASE CheckConnected
  <2>1. PICK read \in TickReads : \E t \in LocalTimes(read) :
          /\ misread' = (misread \/ ~read)
          /\ IF KeepsConnecting(t)
               THEN pc' = "dowork" /\ UNCHANGED <<waiting, lastSendTime, outcome>>
               ELSE /\ pc' = "app" /\ waiting' = FALSE
                    /\ lastSendTime' = 0
                    /\ outcome' = IF Elapsed(t) THEN "error"
                                  ELSE IF status.connect_status = "CONNECTED" THEN "ok"
                                  ELSE "not_connected"
    BY <1>8 DEF CheckConnected
  <2>2. misread' \in BOOLEAN /\ (misread => misread')
    BY <2>1 DEF TickReads, TypeOK
  <2>3. /\ pc' \in {"dowork", "app"} /\ lastSendTime' \in 0 .. MaxTime 
        /\ waiting' \in BOOLEAN /\ outcome' \in {"none", "ok", "error", "not_connected"}
    <3>1. 0 \in 0 .. MaxTime
      BY ClockAssumption, ConnectionAssumption DEF ClockAssumption, ConnectionAssumption
    <3>2. PICK t \in LocalTimes(TRUE) \cup LocalTimes(FALSE) :
            IF KeepsConnecting(t)
              THEN pc' = "dowork" /\ UNCHANGED <<waiting, lastSendTime, outcome>>
              ELSE /\ pc' = "app" /\ waiting' = FALSE
                   /\ lastSendTime' = 0
                   /\ outcome' = IF Elapsed(t) THEN "error"
                                 ELSE IF status.connect_status = "CONNECTED" THEN "ok"
                                 ELSE "not_connected"
      BY <2>1 DEF TickReads
    <3>3. CASE KeepsConnecting(t)
      BY <3>2, <3>3 DEF TypeOK
    <3>4. CASE ~KeepsConnecting(t)
      <4>1. /\ pc' = "app" /\ waiting' = FALSE
            /\ lastSendTime' = 0
            /\ outcome' = IF Elapsed(t) THEN "error"
                          ELSE IF status.connect_status = "CONNECTED" THEN "ok"
                          ELSE "not_connected"
        BY <3>2, <3>4
      <4>2. outcome' \in {"none", "ok", "error", "not_connected"}
        BY <4>1
      <4>3. QED
        BY <3>1, <4>1, <4>2
    <3>5. QED
      BY <3>3, <3>4
  <2>4. QED
    BY <1>8, <2>2, <2>3 DEF CheckConnected, connVars, TypeOK, TransportOwned, ConnectedIsTrue,
       FreshTimerIdle, SessionAccounted, CondemnedIsLost, DestroyedStops, AttemptTimed
<1>9. CASE Disconnect
  <2>1. /\ mqtt' \in MqttType
        /\ \/ /\ mqtt.session \in {"up", "closing"} /\ mqtt'.bound = mqtt.bound
              /\ mqtt'.session \in {mqtt.session, "closing"}
           \/ /\ mqtt.session \in {"idle", "opening"}
              /\ mqtt'.bound = None /\ mqtt'.session = "idle"
    BY <1>a, <1>9, DisconnectCases DEF Disconnect
  <2>2. /\ status' \in StatusType /\ status'.connect_status = status.connect_status
        /\ status'.is_disconnect_called
        /\ status'.is_connection_lost = status.is_connection_lost
        /\ status'.is_recoverable_error = status.is_recoverable_error
        /\ status'.is_destroy_called = status.is_destroy_called
    BY <1>a, <1>9 DEF Disconnect, StatusType
  <2>3. TypeOK'
    BY <1>9, <2>1, <2>2 DEF Disconnect, callVars, history, TypeOK
  <2>4. TransportOwned' /\ ConnectedIsTrue' /\ FreshTimerIdle'
    BY <1>9, <2>1, <2>2 DEF Disconnect, TransportOwned, ConnectedIsTrue, FreshTimerIdle
  <2>5. SessionAccounted' /\ CondemnedIsLost' /\ DestroyedStops' /\ AttemptTimed'
    BY <1>9, <2>1, <2>2 DEF Disconnect, callVars, history, SessionAccounted, CondemnedIsLost,
       DestroyedStops, AttemptTimed
  <2>6. QED
    BY <2>3, <2>4, <2>5
<1>10. CASE Destroy
  <2>1. /\ status' \in StatusType /\ status'.connect_status = "NOT_CONNECTED"
        /\ status'.is_connection_lost
    BY <1>a, <1>10 DEF Destroy, StatusType
  <2>2. /\ mqtt' \in MqttType /\ mqtt'.bound = None /\ mqtt'.session = "idle"
        /\ live' = {} /\ xio' = None
    <3>1. mqtt' = NoMqtt /\ live' = live \ {xio} /\ xio' = None
      BY <1>10 DEF Destroy
    <3>2. live' = {}
      BY <3>1 DEF TransportOwned
    <3>3. QED
      BY <1>a, <3>1, <3>2, MqttUpdates
  <2>3. TypeOK'
    BY <1>10, <2>1, <2>2 DEF Destroy, history, TypeOK
  <2>4. QED
    BY <1>10, <2>1, <2>2, <2>3 DEF Destroy, TransportOwned, ConnectedIsTrue,
       FreshTimerIdle, SessionAccounted, CondemnedIsLost, DestroyedStops, AttemptTimed
<1>11. CASE Tick
  <2>1. now' \in 0 .. MaxTime
    BY <1>11, ClockAssumption, ConnectionAssumption DEF ClockAssumption, Tick, TypeOK, ConnectionAssumption
  <2>2. QED
    BY <1>11, <2>1 DEF Tick, connVars, callVars, history, TypeOK, TransportOwned,
       ConnectedIsTrue, FreshTimerIdle, SessionAccounted, CondemnedIsLost, DestroyedStops,
       AttemptTimed
<1>12. CASE UNCHANGED vars
  BY <1>12 DEF vars, connVars, callVars, history, TypeOK, TransportOwned, ConnectedIsTrue,
     FreshTimerIdle, SessionAccounted, CondemnedIsLost, DestroyedStops, AttemptTimed
<1>13. QED
  BY <1>1, <1>2, <1>3, <1>4, <1>5, <1>6, <1>7, <1>8, <1>9, <1>10, <1>11, <1>12 DEF Next

(* The connection keeps its type.                                           *)
THEOREM TypeCorrect == Spec => []TypeOK
<1>1. IInv => TypeOK
  BY DEF IInv
<1>2. QED
  BY <1>1, InitIInv, NextIInv, PTL DEF Spec

(* The client never loses the handle of a live transport, and the umqtt     *)
(* client is never bound to a destroyed one, for any number of transports.  *)
THEOREM OwnsItsTransport == Spec => []TransportOwned
<1>1. IInv => TransportOwned
  BY DEF IInv
<1>2. QED
  BY <1>1, InitIInv, NextIInv, PTL DEF Spec

(* CONNECTED is reported for an established session on the transport owned, *)
(* and only then; the retry timer is then stopped.                          *)
THEOREM ReportsTheTruth == Spec => []ConnectedIsTrue
<1>1. IInv => ConnectedIsTrue
  BY DEF IInv
<1>2. QED
  BY <1>1, InitIInv, NextIInv, PTL DEF Spec

-------------------------------------------------------------------------------
(* A session begins only in initialize_mqtt_connection, on the transport    *)
(* owned or, after a loss that may be retried, on a new one.                *)
LEMMA OpeningStep ==
  ASSUME IInv, Next, mqtt'.session = "opening", mqtt' # mqtt
  PROVE  /\ MayConnect /\ ~status.is_destroy_called
         /\ Recreates => xio' # xio /\ xio \notin live'
<1> USE DEF IInv
<1>a. status \in StatusType /\ mqtt \in MqttType
  BY DEF TypeOK
<1>1. CASE DoWork
  <2>1. PICK ok \in BOOLEAN : InitializeMqttConnection(ok)
    BY <1>1 DEF DoWork
  <2>2. mqtt' # mqtt /\ mqtt'.session # "idle"
    OBVIOUS
  <2>3. ~DisconnectFromClient \/ status.connect_status # "CONNECTING"
    <3>1. SUFFICES ASSUME DisconnectFromClient, status.connect_status = "CONNECTING"
                   PROVE  FALSE
      OBVIOUS
    <3>2. mqtt' \in DisconnectOutcomes(mqtt) /\ mqtt.session \in {"idle", "opening"}
      BY <3>1 DEF DisconnectFromClient, SessionAccounted
    <3>3. QED
      BY <1>a, <2>2, <3>2, DisconnectCases
  <2>4. MayConnect /\ TryConnect(ok)
    BY <2>1, <2>2, <2>3 DEF InitializeMqttConnection, connVars
  <2>5. ~status.is_destroy_called
    BY <1>1 DEF DoWork, DestroyedStops
  <2>6. ASSUME Recreates PROVE xio' # xio /\ xio \notin live'
    <3>1. PICK lost \in BOOLEAN, m \in {NewMqtt, NoMqtt} :
            SendMqttConnectMessage(None, live \ {xio}, m, ok, lost)
      BY <2>4, <2>6 DEF TryConnect
    <3>2. m.session = "idle"
      BY <3>1 DEF NewMqtt, NoMqtt
    <3>3. xio' # None
      BY <2>2, <3>1, <3>2 DEF SendMqttConnectMessage
    <3>4. xio' \notin live \cup {xio} /\ live' = (live \ {xio}) \cup {xio'}
      BY <3>1, <3>3 DEF SendMqttConnectMessage
    <3>5. QED
      BY <3>4
  <2>7. QED
    BY <2>4, <2>5, <2>6
<1>2. CASE PumpDone \/ DoConnect \/ CheckConnected \/ Tick
  BY <1>2 DEF PumpDone, DoConnect, CheckConnected, Tick, connVars
<1>3. CASE ConnAckAccepted
  BY <1>a, <1>3 DEF ConnAckAccepted, MqttType
<1>4. CASE ConnAckRefused \/ Disconnect
  <2>1. mqtt' \in DisconnectOutcomes(mqtt)
    BY <1>4 DEF ConnAckRefused, Disconnect
  <2>2. QED
    BY <1>a, <2>1, DisconnectCases
<1>5. CASE OnDisconnect \/ OnError
  <2>1. mqtt' \in {mqtt, [mqtt EXCEPT !.session = "idle"], Unbound(mqtt)}
    BY <1>5 DEF OnDisconnect, OnError
  <2>2. QED
    BY <1>a, <2>1 DEF MqttType, Unbound
<1>6. CASE Destroy
  BY <1>6 DEF Destroy, NoMqtt
<1>7. QED
  BY <1>1, <1>2, <1>3, <1>4, <1>5, <1>6 DEF Next

(* After a disconnect or a destroy no session is opened, whatever the       *)
(* callbacks and the application do.                                        *)
THEOREM DisconnectStays == Spec => DisconnectIsFinal
<1> DEFINE Final == status.is_disconnect_called \/ status.is_destroy_called =>
                      (mqtt'.session = "opening" => mqtt.session = "opening")
<1>1. IInv /\ [Next]_vars => [Final]_vars
  BY OpeningStep DEF MayConnect
<1>2. QED
  BY <1>1, InitIInv, NextIInv, PTL DEF Spec, DisconnectIsFinal

(* An attempt after a loss that may be retried runs on a transport of its   *)
(* own, and the old one is destroyed.                                       *)
THEOREM NewTransportAfterLoss == Spec => FreshAfterLoss
<1> DEFINE Fresh == mqtt'.session = "opening" /\ mqtt # mqtt'
                    /\ status.is_connection_lost /\ status.is_recoverable_error
                      => xio' # xio /\ xio \notin live'
<1>1. IInv /\ [Next]_vars => [Fresh]_vars
  BY OpeningStep DEF Recreates
<1>2. QED
  BY <1>1, InitIInv, NextIInv, PTL DEF Spec, FreshAfterLoss

(* doconnect reports success only for an established session and            *)
(* NOT_CONNECT only to a client that the server has condemned, for every    *)
(* length of its window.                                                    *)
THEOREM DoConnectTellsTheTruth == Spec => DoConnectIsTruthful
<1> DEFINE Truthful == pc = "check" /\ pc' = "app" =>
             /\ outcome' = "ok" => mqtt.session \in {"up", "closing"}
             /\ outcome' = "not_connected" =>
                  /\ mqtt.session \in {"idle", "opening"}
                  /\ status.is_connection_lost /\ ~status.is_recoverable_error
<1>1. ASSUME IInv, Next, pc = "check", pc' = "app" PROVE Truthful
  <2>1. CheckConnected
    BY <1>1 DEF Next, DoWork, PumpDone, ConnAckAccepted, ConnAckRefused, OnDisconnect, OnError,
       DoConnect, Disconnect, Destroy, Tick, callVars
  <2>2. PICK t \in LocalTimes(TRUE) \cup LocalTimes(FALSE) :
          /\ ~KeepsConnecting(t)
          /\ outcome' = IF Elapsed(t) THEN "error"
                        ELSE IF status.connect_status = "CONNECTED" THEN "ok"
                        ELSE "not_connected"
    BY <1>1, <2>1 DEF CheckConnected, TickReads
  <2>3. outcome' = "ok" => status.connect_status = "CONNECTED"
    BY <2>2
  <2>4. outcome' = "not_connected" =>
          status.connect_status # "CONNECTED" /\ ~status.is_recoverable_error
    BY <2>2 DEF KeepsConnecting
  <2>5. mqtt \in MqttType
    BY <1>1 DEF IInv, TypeOK
  <2>6. QED
    BY <1>1, <2>3, <2>4, <2>5 DEF IInv, ConnectedIsTrue, CondemnedIsLost, MqttType
<1>2. IInv /\ [Next]_vars => [Truthful]_vars
  BY <1>1
<1>3. QED
  BY <1>2, InitIInv, NextIInv, PTL DEF Spec, DoConnectIsTruthful

(* With a readable tick counter a session that is opening is given          *)
(* KeepAlive seconds before the client closes it, for every KeepAlive.      *)
THEOREM ConnAckIsAwaited == Spec => WaitsForConnAck
<1> DEFINE Awaited == mqtt.session = "opening" /\ mqtt'.session = "idle" /\ DoWork =>
                        now - attemptedAt > KeepAlive \/ status.is_connection_lost \/ misread
<1>1. ASSUME IInv, mqtt.session = "opening", mqtt'.session = "idle", DoWork,
             ~status.is_connection_lost, ~misread
      PROVE  now - attemptedAt > KeepAlive
  <2>1. status.connect_status = "CONNECTING"
    BY <1>1 DEF IInv, SessionAccounted
  <2>2. PICK ok \in BOOLEAN : InitializeMqttConnection(ok)
    BY <1>1 DEF DoWork
  <2>3. mqtt' # mqtt
    BY <1>1
  <2>4. TimedOut
    BY <2>1, <2>2, <2>3 DEF InitializeMqttConnection, MayConnect, connVars
  <2>5. QED
    BY <1>1, <2>1, <2>4 DEF IInv, AttemptTimed, TimedOut
<1>2. IInv /\ [Next]_vars => [Awaited]_vars
  BY <1>1
<1>3. QED
  BY <1>2, InitIInv, NextIInv, PTL DEF Spec, WaitsForConnAck

-------------------------------------------------------------------------------
(* The invariant.                                                           *)
Increasing(q) == \A i, j \in DOMAIN q : i < j => q[i] < q[j]

(* A walk runs a callback, is between two, or there is none.                *)
WalkSound ==
  /\ walk.kind = "none" => walk = NoWalk
  /\ walk.ack => walk.inCallback /\ walk.next = Head0
  /\ walk.inCallback => walk.cur \in Calls /\ walk.kind # "none"
  /\ ~walk.inCallback => walk.next = Head0

(* Only a subscription is in its queue while its failure callback runs.     *)
RunningUnlinked ==
  walk.inCallback /\ ~broken =>
    /\ walk.cur \notin Waiting("pub")
    /\ walk.cur \in Waiting("sub") <=> (walk.kind = "sub" /\ ~walk.ack)

(* The queues are in the order of the calls, and nothing is known of calls  *)
(* that were not made yet.                                                  *)
InOrder ==
  /\ \A k \in Kinds : Increasing(queue[k]) /\ Waiting(k) \subseteq 1 .. calls
  /\ alive \subseteq 1 .. calls
  /\ \A c \in Calls : c > calls => answers[c] = 0 /\ c \notin refused
  /\ \A w \in wire : w[2] <= calls /\ (w[1] = "pub" => w[2] \notin Waiting("sub"))
                                   /\ (w[1] = "sub" => w[2] \notin Waiting("pub"))

(* The ids of the last UshrtMax - 1 calls count down from the last one, so  *)
(* calls that share one are a whole number of cycles apart.                 *)
IdsCycle ==
  /\ packet_id = 0 => calls = 0
  /\ \A c \in 1 .. calls : calls - c < UshrtMax - 1 =>
       id[c] = IF calls - c < packet_id THEN packet_id - (calls - c)
               ELSE packet_id - (calls - c) + (UshrtMax - 1)
  /\ \A c, d \in 1 .. calls : c < d /\ id[c] = id[d] => d - c >= UshrtMax - 1

QueuesIInv ==
  /\ QueuesTypeOK /\ QueuesOwnEntries /\ AnsweredOnce
  /\ WalkSound /\ RunningUnlinked /\ InOrder /\ IdsCycle

-------------------------------------------------------------------------------
(* Queues.                                                                  *)
LEMMA IncreasingInjective ==
  ASSUME NEW q \in Seq(Calls), Increasing(q) PROVE IsInjective(q)
<1> SUFFICES ASSUME NEW i \in DOMAIN q, NEW j \in DOMAIN q, q[i] = q[j] PROVE i = j
  BY DEF IsInjective
<1>1. i \in 1 .. Len(q) /\ j \in 1 .. Len(q)
  OBVIOUS
<1>2. q[i] \in Calls /\ q[j] \in Calls
  BY <1>1
<1>3. q[i] \in Int
  BY <1>2, QueueAssumption DEF Calls, QueueAssumption
<1>4. QED
  BY <1>1, <1>3 DEF Increasing

LEMMA AppendKeeps ==
  ASSUME NEW q \in Seq(Calls), NEW c \in Calls
  PROVE  /\ Append(q, c) \in Seq(Calls)
         /\ ToSet(Append(q, c)) = ToSet(q) \cup {c}
         /\ Increasing(q) /\ (\A e \in ToSet(q) : e < c) => Increasing(Append(q, c))
<1> DEFINE p == Append(q, c)
<1>1. /\ p \in Seq(Calls) /\ Len(p) = Len(q) + 1 /\ Len(q) \in Nat
      /\ \A i \in 1 .. Len(q) : p[i] = q[i]
      /\ p[Len(q) + 1] = c
  OBVIOUS
<1>2. DOMAIN q = 1 .. Len(q) /\ DOMAIN p = 1 .. Len(q) + 1
  BY <1>1
<1> HIDE DEF p
<1>3. ToSet(p) = ToSet(q) \cup {c}
  BY <1>1, <1>2 DEF ToSet
<1>4. ASSUME Increasing(q), \A e \in ToSet(q) : e < c PROVE Increasing(p)
  <2> SUFFICES ASSUME NEW i \in DOMAIN p, NEW j \in DOMAIN p, i < j PROVE p[i] < p[j]
    BY DEF Increasing
  <2>1. i \in 1 .. Len(q)
    BY <1>1, <1>2
  <2>2. q[i] \in ToSet(q)
    BY <1>2, <2>1 DEF ToSet
  <2>3. CASE j = Len(q) + 1
    BY <1>1, <1>4, <2>1, <2>2, <2>3
  <2>4. CASE j # Len(q) + 1
    BY <1>1, <1>2, <1>4, <2>1, <2>4 DEF Increasing
  <2>5. QED
    BY <2>3, <2>4
<1>5. QED
  BY <1>1, <1>3, <1>4 DEF p

LEMMA RemoveKeeps ==
  ASSUME NEW q \in Seq(Calls), NEW n \in DOMAIN q, Increasing(q)
  PROVE  /\ RemoveAt(q, n) \in Seq(Calls)
         /\ ToSet(RemoveAt(q, n)) = ToSet(q) \ {q[n]}
         /\ Increasing(RemoveAt(q, n))
<1> DEFINE p == RemoveAt(q, n)
<1>1. Len(q) \in Nat /\ DOMAIN q = 1 .. Len(q) /\ n \in 1 .. Len(q)
  OBVIOUS
<1>2. p \in Seq(Calls) /\ Len(p) = Len(q) - 1
  BY RemoveAtElements
<1>3. DOMAIN p = 1 .. Len(q) - 1
  BY RemoveAtElements
<1>4. \A i \in DOMAIN p : p[i] = IF i < n THEN q[i] ELSE q[i + 1]
  BY <1>3, RemoveAtElements
<1> HIDE DEF p
<1>5. Increasing(p)
  BY <1>1, <1>3, <1>4 DEF Increasing
<1>6. ASSUME NEW e PROVE e \in ToSet(p) <=> e \in ToSet(q) /\ e # q[n]
  <2>1. ASSUME e \in ToSet(p) PROVE e \in ToSet(q) /\ e # q[n]
    <3>1. PICK i \in DOMAIN p : e = p[i]
      BY <2>1 DEF ToSet
    <3>2. PICK j \in DOMAIN q : e = q[j] /\ j # n
      BY <1>1, <1>3, <1>4, <3>1
    <3>3. QED
      BY <3>2, IncreasingInjective DEF IsInjective, ToSet
  <2>2. ASSUME e \in ToSet(q), e # q[n] PROVE e \in ToSet(p)
    <3>1. PICK j \in DOMAIN q : e = q[j]
      BY <2>2 DEF ToSet
    <3>2. CASE j < n
      <4>1. j \in DOMAIN p /\ p[j] = e
        BY <1>1, <1>3, <1>4, <3>1, <3>2
      <4>2. QED
        BY <4>1 DEF ToSet
    <3>3. CASE j > n
      <4>1. j - 1 \in DOMAIN p /\ (j - 1) + 1 = j /\ ~(j - 1 < n)
        BY <1>1, <1>3, <3>1, <3>3
      <4>2. p[j - 1] = e
        BY <1>4, <3>1, <4>1
      <4>3. QED
        BY <4>1, <4>2 DEF ToSet
    <3>4. QED
      BY <1>1, <2>2, <3>1, <3>2, <3>3
  <2>3. QED
    BY <2>1, <2>2
<1>7. QED
  BY <1>2, <1>5, <1>6 DEF p

LEMMA PositionFound ==
  ASSUME NEW k \in Kinds, NEW c, c \in Waiting(k)
  PROVE  Position(k, c) \in DOMAIN queue[k] /\ queue[k][Position(k, c)] = c
<1>1. \E i \in DOMAIN queue[k] : queue[k][i] = c
  BY DEF Waiting, ToSet
<1>2. QED
  BY <1>1 DEF Position

LEMMA FlinkFound ==
  ASSUME QueuesTypeOK, NEW k \in Kinds, Increasing(queue[k]), NEW i \in {0} \cup DOMAIN queue[k]
  PROVE  /\ Flink(k, i) \in Waiting(k) \cup {Head0}
         /\ i # 0 => Flink(k, i) # queue[k][i]
<1>1. queue[k] \in Seq(Calls) /\ Len(queue[k]) \in Nat /\ DOMAIN queue[k] = 1 .. Len(queue[k])
  BY DEF QueuesTypeOK
<1>2. CASE i < Len(queue[k])
  <2>1. i + 1 \in DOMAIN queue[k] /\ Flink(k, i) = queue[k][i + 1] /\ i + 1 # i
    BY <1>1, <1>2 DEF Flink
  <2>2. Flink(k, i) \in Waiting(k)
    BY <2>1 DEF Waiting, ToSet
  <2>3. i # 0 => queue[k][i + 1] # queue[k][i]
    BY <1>1, <2>1, IncreasingInjective DEF IsInjective
  <2>4. QED
    BY <2>1, <2>2, <2>3
<1>3. CASE ~(i < Len(queue[k]))
  <2>1. Flink(k, i) = Head0
    BY <1>3 DEF Flink
  <2>2. i # 0 => queue[k][i] \in Calls
    BY <1>1
  <2>3. QED
    BY <2>1, <2>2, QueueAssumption DEF Head0, Calls, QueueAssumption
<1>4. QED
  BY <1>2, <1>3

-------------------------------------------------------------------------------
LEMMA InitQueuesIInv == QueuesInit => QueuesIInv
<1> SUFFICES ASSUME QueuesInit PROVE QueuesIInv
  OBVIOUS
<1> USE QueueAssumption DEF QueueAssumption, QueuesInit
<1>1. QueuesTypeOK
  <2>1. walk \in [kind : Kinds \cup {"none"}, ack : BOOLEAN, cur : Calls \cup {Head0},
                  next : Calls \cup {Head0}, inCallback : BOOLEAN]
    BY DEF NoWalk
  <2>2. DOMAIN queue = Kinds /\ \A k \in Kinds : queue[k] \in Seq(Calls)
    OBVIOUS
  <2>3. id \in [Calls -> 0 .. (UshrtMax - 1)] /\ \A c \in 1 .. calls : id[c] # 0
    OBVIOUS
  <2>4. answers \in [Calls -> Nat] /\ acked \in (Calls \cup {Head0}) \X (Calls \cup {Head0})
    OBVIOUS
  <2>5. calls \in 0 .. MaxCalls /\ packet_id \in 0 .. (UshrtMax - 1)
    OBVIOUS
  <2>6. QED
    BY <2>1, <2>2, <2>3, <2>4, <2>5 DEF QueuesTypeOK
<1>2. \A k \in Kinds : Waiting(k) = {} /\ Increasing(queue[k]) /\ IsInjective(queue[k])
  BY DEF Kinds, Waiting, ToSet, Increasing, IsInjective
<1>3. Running = {} /\ "pub" \in Kinds /\ "sub" \in Kinds
  BY DEF Running, NoWalk, Kinds
<1>4. QueuesOwnEntries
  BY <1>2, <1>3 DEF QueuesOwnEntries, NoWalk
<1>5. AnsweredOnce
  BY <1>2, <1>3 DEF AnsweredOnce, Calls
<1>6. WalkSound /\ RunningUnlinked
  BY DEF WalkSound, RunningUnlinked, NoWalk
<1>7. InOrder
  BY <1>2 DEF InOrder
<1>8. IdsCycle
  BY DEF IdsCycle
<1>9. QED
  BY <1>1, <1>4, <1>5, <1>6, <1>7, <1>8 DEF QueuesIInv

(* get_next_packet_id: the next id is none of the last UshrtMax - 1.        *)
LEMMA IdsStep ==
  ASSUME QueuesTypeOK, IdsCycle, NEW c \in Calls, TakePacketId(c)
  PROVE  /\ IdsCycle' /\ c = calls + 1 /\ calls' = c
         /\ packet_id' \in 1 .. (UshrtMax - 1)
         /\ id' \in [Calls -> 0 .. (UshrtMax - 1)] /\ \A d \in 1 .. calls' : id'[d] # 0
<1> USE QueueAssumption DEF QueueAssumption
<1>1. /\ calls \in 0 .. MaxCalls /\ packet_id \in 0 .. (UshrtMax - 1)
      /\ id \in [Calls -> 0 .. (UshrtMax - 1)] /\ \A d \in 1 .. calls : id[d] # 0
  BY DEF QueuesTypeOK
<1>2. /\ c = calls + 1 /\ calls' = c /\ packet_id' = NextPacketId
      /\ id' = [id EXCEPT ![c] = NextPacketId]
  BY DEF TakePacketId
<1>3. NextPacketId \in 1 .. (UshrtMax - 1)
  BY <1>1 DEF NextPacketId
<1>4. \A d \in 1 .. calls : d \in Calls /\ d # c /\ id'[d] = id[d]
  BY <1>1, <1>2 DEF Calls
<1>5. id'[c] = NextPacketId
  BY <1>1, <1>2
<1>6. id' \in [Calls -> 0 .. (UshrtMax - 1)] /\ \A d \in 1 .. calls' : id'[d] # 0
  BY <1>1, <1>2, <1>3, <1>4, <1>5
<1>7. ASSUME NEW d \in 1 .. calls', calls' - d < UshrtMax - 1
      PROVE  id'[d] = IF calls' - d < packet_id' THEN packet_id' - (calls' - d)
                      ELSE packet_id' - (calls' - d) + (UshrtMax - 1)
  <2>1. CASE d = c
    BY <1>2, <1>3, <1>5, <2>1 DEF Calls
  <2>2. CASE d # c
    <3>1. d \in 1 .. calls /\ calls - d < UshrtMax - 1 /\ id'[d] = id[d]
      BY <1>1, <1>2, <1>4, <1>7, <2>2
    <3>2. id[d] = IF calls - d < packet_id THEN packet_id - (calls - d)
                  ELSE packet_id - (calls - d) + (UshrtMax - 1)
      BY <3>1 DEF IdsCycle
    <3>3. packet_id # 0
      BY <3>1 DEF IdsCycle
    <3>4. QED
      BY <1>1, <1>2, <1>7, <3>1, <3>2, <3>3 DEF NextPacketId
  <2>3. QED
    BY <2>1, <2>2
<1>8. ASSUME NEW d \in 1 .. calls, id[d] = NextPacketId PROVE c - d >= UshrtMax - 1
  <2> SUFFICES ASSUME calls - d < UshrtMax - 2 PROVE FALSE
    BY <1>1, <1>2
  <2>1. id[d] = IF calls - d < packet_id THEN packet_id - (calls - d)
                ELSE packet_id - (calls - d) + (UshrtMax - 1)
    BY <1>1 DEF IdsCycle
  <2>2. QED
    BY <1>1, <1>8, <2>1 DEF NextPacketId
<1>9. ASSUME NEW d \in 1 .. calls', NEW e \in 1 .. calls', d < e, id'[d] = id'[e]
      PROVE  e - d >= UshrtMax - 1
  <2>1. d \in 1 .. calls /\ id'[d] = id[d]
    BY <1>1, <1>2, <1>4, <1>9
  <2>2. CASE e = c
    BY <1>5, <1>8, <1>9, <2>1, <2>2
  <2>3. CASE e # c
    <3>1. e \in 1 .. calls /\ id'[e] = id[e]
      BY <1>1, <1>2, <1>4, <2>3
    <3>2. QED
      BY <1>9, <2>1, <3>1 DEF IdsCycle
  <2>4. QED
    BY <2>2, <2>3
<1>10. IdsCycle'
  <2>1. packet_id' # 0
    BY <1>2, <1>3
  <2>2. QED
    BY <1>7, <1>9, <2>1 DEF IdsCycle
<1>11. QED
  BY <1>2, <1>3, <1>6, <1>10

-------------------------------------------------------------------------------
(* The two lists after an entry was linked, or taken out.                   *)
LEMMA Enqueue ==
  ASSUME QueuesTypeOK, InOrder, NEW k \in Kinds, NEW c \in Calls, c = calls + 1,
         queue' = Queued(k, c)
  PROVE  /\ DOMAIN queue' = Kinds
         /\ \A j \in Kinds : /\ queue'[j] \in Seq(Calls)
                             /\ Increasing(queue'[j]) /\ IsInjective(queue'[j])
                             /\ Waiting(j)' = IF j = k THEN Waiting(j) \cup {c} ELSE Waiting(j)
<1> SUFFICES ASSUME NEW j \in Kinds
             PROVE  /\ queue'[j] \in Seq(Calls) /\ Increasing(queue'[j])
                    /\ Waiting(j)' = IF j = k THEN Waiting(j) \cup {c} ELSE Waiting(j)
  BY IncreasingInjective DEF QueuesTypeOK, Queued
<1>1. queue[j] \in Seq(Calls) /\ Increasing(queue[j]) /\ DOMAIN queue = Kinds
  BY DEF QueuesTypeOK, InOrder
<1>2. CASE j # k
  BY <1>1, <1>2 DEF Queued, Waiting
<1>3. CASE j = k
  <2>1. queue'[j] = Append(queue[j], c)
    BY <1>1, <1>3 DEF Queued
  <2>2. \A e \in ToSet(queue[j]) : e < c
    BY QueueAssumption DEF InOrder, Waiting, QueuesTypeOK, QueueAssumption
  <2>3. QED
    BY <1>1, <1>3, <2>1, <2>2, AppendKeeps DEF Waiting
<1>4. QED
  BY <1>2, <1>3

LEMMA Dequeue ==
  ASSUME QueuesTypeOK, InOrder, NEW k \in Kinds, NEW n \in DOMAIN queue[k],
         queue' = [queue EXCEPT ![k] = RemoveAt(@, n)]
  PROVE  /\ DOMAIN queue' = Kinds
         /\ \A j \in Kinds : /\ queue'[j] \in Seq(Calls)
                             /\ Increasing(queue'[j]) /\ IsInjective(queue'[j])
                             /\ Waiting(j)' = IF j = k THEN Waiting(j) \ {queue[k][n]}
                                                       ELSE Waiting(j)
<1> SUFFICES ASSUME NEW j \in Kinds
             PROVE  /\ queue'[j] \in Seq(Calls) /\ Increasing(queue'[j])
                    /\ Waiting(j)' = IF j = k THEN Waiting(j) \ {queue[k][n]} ELSE Waiting(j)
  BY IncreasingInjective DEF QueuesTypeOK
<1>1. queue[j] \in Seq(Calls) /\ Increasing(queue[j]) /\ DOMAIN queue = Kinds
  BY DEF QueuesTypeOK, InOrder
<1>2. CASE j # k
  BY <1>1, <1>2 DEF Waiting
<1>3. CASE j = k
  <2>1. queue'[j] = RemoveAt(queue[j], n)
    BY <1>1, <1>3
  <2>2. QED
    BY <1>1, <1>3, <2>1, RemoveKeeps DEF Waiting
<1>4. QED
  BY <1>2, <1>3

(* Removed is the same, by the call.                                        *)
LEMMA DequeueCall ==
  ASSUME QueuesTypeOK, InOrder, NEW k \in Kinds, NEW c, c \in Waiting(k), queue' = Removed(k, c)
  PROVE  /\ DOMAIN queue' = Kinds
         /\ \A j \in Kinds : /\ queue'[j] \in Seq(Calls)
                             /\ Increasing(queue'[j]) /\ IsInjective(queue'[j])
                             /\ Waiting(j)' = IF j = k THEN Waiting(j) \ {c} ELSE Waiting(j)
<1>1. Position(k, c) \in DOMAIN queue[k] /\ queue[k][Position(k, c)] = c
  BY PositionFound
<1>2. queue' = [queue EXCEPT ![k] = RemoveAt(@, Position(k, c))]
  BY DEF Removed
<1> DEFINE n == Position(k, c)
<1>3. n \in DOMAIN queue[k] /\ queue[k][n] = c /\ queue' = [queue EXCEPT ![k] = RemoveAt(@, n)]
  BY <1>1, <1>2
<1> HIDE DEF n
<1>4. QED
  BY <1>3, Dequeue

-------------------------------------------------------------------------------
(* A call of the application, whatever becomes of it.                       *)
LEMMA CallKeeps ==
  ASSUME QueuesIInv, NEW c \in Calls, TakePacketId(c), NEW k \in Kinds,
         refused' = refused \/ refused' = refused \cup {c},
         wire' = wire \/ wire' = wire \cup {<<k, c>>},
         \/ /\ queue' = queue /\ alive' = alive
            /\ answers' = answers \/ answers' = Answered(c)
         \/ /\ queue' = Queued(k, c) /\ alive' = alive \cup {c} /\ answers' = answers
            /\ k = "pub" => refused' = refused
  PROVE  QueuesIInv'
<1> USE QueueAssumption DEF QueueAssumption
<1>1. /\ IdsCycle' /\ c = calls + 1 /\ calls' = c
      /\ packet_id' \in 1 .. (UshrtMax - 1)
      /\ id' \in [Calls -> 0 .. (UshrtMax - 1)] /\ \A d \in 1 .. calls' : id'[d] # 0
  BY IdsStep DEF QueuesIInv
<1>2. ~broken /\ calls \in Nat /\ c \in Nat /\ calls' \in 0 .. MaxCalls
  BY <1>1 DEF TakePacketId, InApplication, QueuesIInv, QueuesTypeOK, Calls
<1>3. UNCHANGED <<walk, broken, destroyed, due, acked>>
  BY DEF TakePacketId
<1>4. /\ \A j \in Kinds : c \notin Waiting(j)
      /\ c \notin alive /\ answers[c] = 0 /\ c \notin refused
      /\ \A w \in wire : w[2] # c
  BY <1>1, <1>2 DEF QueuesIInv, InOrder, QueuesTypeOK
<1>5. /\ DOMAIN queue' = Kinds
      /\ \A j \in Kinds : /\ queue'[j] \in Seq(Calls)
                          /\ Increasing(queue'[j]) /\ IsInjective(queue'[j])
  <2>1. CASE queue' = queue
    BY <2>1, IncreasingInjective DEF QueuesIInv, QueuesTypeOK, InOrder
  <2>2. CASE queue' = Queued(k, c)
    BY <1>1, <2>2, Enqueue DEF QueuesIInv
  <2>3. QED
    BY <2>1, <2>2
<1>6. \/ /\ \A j \in Kinds : Waiting(j)' = Waiting(j)
         /\ alive' = alive
         /\ answers' = answers \/ answers' = Answered(c)
      \/ /\ \A j \in Kinds : Waiting(j)' = IF j = k THEN Waiting(j) \cup {c} ELSE Waiting(j)
         /\ alive' = alive \cup {c} /\ answers' = answers
         /\ k = "pub" => refused' = refused
  <2>1. CASE /\ queue' = queue /\ alive' = alive
             /\ answers' = answers \/ answers' = Answered(c)
    BY <2>1 DEF Waiting
  <2>2. CASE /\ queue' = Queued(k, c) /\ alive' = alive \cup {c} /\ answers' = answers
             /\ k = "pub" => refused' = refused
    <3>1. \A j \in Kinds : Waiting(j)' = IF j = k THEN Waiting(j) \cup {c} ELSE Waiting(j)
      BY <1>1, <2>2, Enqueue DEF QueuesIInv
    <3>2. QED
      BY <2>2, <3>1
  <2>3. QED
    BY <2>1, <2>2
<1>7. /\ answers' \in [Calls -> Nat] /\ answers'[c] <= 1
      /\ \A d \in Calls : d # c => answers'[d] = answers[d]
  <2>1. answers \in [Calls -> Nat]
    BY DEF QueuesIInv, QueuesTypeOK
  <2>2. CASE answers' = answers
    BY <1>4, <2>1, <2>2
  <2>3. CASE answers' = Answered(c)
    BY <1>4, <2>1, <2>3 DEF Answered
  <2>4. QED
    BY <1>6, <2>2, <2>3
<1>8. Running' = Running /\ Running \subseteq alive
  BY <1>2, <1>3 DEF Running, QueuesIInv, QueuesOwnEntries
<1>9. QueuesTypeOK'
  <2>1. wire' \subseteq (Kinds \X Calls) /\ refused' \subseteq Calls /\ alive' \subseteq Calls
    <3>1. wire \subseteq (Kinds \X Calls) /\ refused \subseteq Calls /\ alive \subseteq Calls
      BY DEF QueuesIInv, QueuesTypeOK
    <3>2. alive' \subseteq alive \cup {c}
      BY <1>6
    <3>3. QED
      BY <3>1, <3>2
  <2>2. /\ packet_id' \in 0 .. (UshrtMax - 1) /\ calls' \in 0 .. MaxCalls
        /\ id' \in [Calls -> 0 .. (UshrtMax - 1)] /\ \A d \in 1 .. calls' : id'[d] # 0
    BY <1>1, <1>2
  <2>3. /\ walk' \in [kind : Kinds \cup {"none"}, ack : BOOLEAN, cur : Calls \cup {Head0},
                      next : Calls \cup {Head0}, inCallback : BOOLEAN]
        /\ broken' \in BOOLEAN /\ destroyed' \in BOOLEAN /\ due' \subseteq Calls
        /\ acked' \in (Calls \cup {Head0}) \X (Calls \cup {Head0})
    BY <1>3 DEF QueuesIInv, QueuesTypeOK
  <2>4. QED
    BY <1>5, <1>7, <2>1, <2>2, <2>3 DEF QueuesTypeOK
<1>10. QueuesOwnEntries'
  <2> USE DEF QueuesIInv
  <2>1. "pub" \in Kinds /\ "sub" \in Kinds /\ k \in {"sub", "pub"}
    BY DEF Kinds
  <2>2. alive' = Waiting("pub")' \cup Waiting("sub")' \cup Running'
    BY <1>2, <1>6, <1>8, <2>1 DEF QueuesOwnEntries
  <2>3. Waiting("pub")' \cap Waiting("sub")' = {}
    BY <1>2, <1>4, <1>6, <2>1 DEF QueuesOwnEntries
  <2>4. Waiting("pub")' \cap refused' = {}
    BY <1>2, <1>4, <1>6, <2>1 DEF QueuesOwnEntries
  <2>5. walk.kind \in Kinds \/ walk = NoWalk
    BY DEF WalkSound, QueuesTypeOK
  <2>6. /\ ~walk.inCallback /\ walk.cur # Head0 => walk.cur \in Waiting(walk.kind)'
        /\ walk.next # Head0 => walk.next \in Waiting(walk.kind)' /\ walk.next # walk.cur
    BY <1>2, <1>3, <1>6, <2>5 DEF QueuesOwnEntries, NoWalk
  <2>7. QED
    BY <1>3, <1>5, <2>2, <2>3, <2>4, <2>6 DEF QueuesOwnEntries
<1>11. AnsweredOnce'
  <2>1. ASSUME NEW j \in Kinds, NEW d \in Waiting(j)' \ Running' PROVE answers'[d] = 0
    <3>1. Waiting(j) \subseteq Calls /\ Waiting(j)' \subseteq Calls
      <4>1. queue[j] \in Seq(Calls) /\ queue'[j] \in Seq(Calls)
        BY <1>5 DEF QueuesIInv, QueuesTypeOK
      <4>2. QED
        BY <4>1 DEF Waiting, ToSet
    <3>2. CASE d = c
      BY <1>4, <1>6, <2>1, <3>2
    <3>3. CASE d # c
      <4>1. d \in Waiting(j) \ Running
        BY <1>6, <1>8, <2>1, <3>3
      <4>2. QED
        BY <1>2, <1>7, <3>1, <3>3, <4>1 DEF QueuesIInv, AnsweredOnce
    <3>4. QED
      BY <3>2, <3>3
  <2>2. QED
    BY <1>7, <2>1 DEF QueuesIInv, AnsweredOnce
<1>12. WalkSound'
  BY <1>3 DEF QueuesIInv, WalkSound, NoWalk
<1>13. RunningUnlinked'
  <2>1. walk.inCallback => walk.cur \in alive
    BY <1>8 DEF Running
  <2>2. QED
    BY <1>2, <1>3, <1>4, <1>6, <2>1 DEF QueuesIInv, RunningUnlinked, Kinds
<1>14. InOrder'
  <2> USE DEF QueuesIInv
  <2>1. \A j \in Kinds : Waiting(j)' \subseteq 1 .. calls'
    BY <1>1, <1>2, <1>6 DEF InOrder
  <2>2. alive' \subseteq 1 .. calls'
    <3>1. alive' \subseteq alive \cup {c} /\ alive \subseteq 1 .. calls
      BY <1>6 DEF InOrder
    <3>2. QED
      BY <1>1, <1>2, <3>1
  <2>3. \A d \in Calls : d > calls' => answers'[d] = 0 /\ d \notin refused'
    <3> SUFFICES ASSUME NEW d \in Calls, d > calls'
                 PROVE  answers'[d] = 0 /\ d \notin refused'
      OBVIOUS
    <3>1. d # c /\ d > calls
      BY <1>1, <1>2 DEF Calls
    <3>2. answers[d] = 0 /\ d \notin refused
      BY <3>1 DEF InOrder
    <3>3. QED
      BY <1>7, <3>1, <3>2
  <2>4. ASSUME NEW w \in wire'
        PROVE  /\ w[2] <= calls' /\ (w[1] = "pub" => w[2] \notin Waiting("sub")')
               /\ (w[1] = "sub" => w[2] \notin Waiting("pub")')
    <3>1. CASE w \in wire
      <4>1. w[2] \in Nat
        BY <3>1 DEF QueuesTypeOK, Calls
      <4>2. QED
        BY <1>1, <1>2, <1>4, <1>6, <3>1, <4>1 DEF InOrder, Kinds
    <3>2. CASE w = <<k, c>>
      BY <1>1, <1>2, <1>4, <1>6, <3>2 DEF Kinds
    <3>3. QED
      BY <2>4, <3>1, <3>2
  <2>5. QED
    BY <1>5, <2>1, <2>2, <2>3, <2>4 DEF InOrder
<1>15. QED
  BY <1>1, <1>9, <1>10, <1>11, <1>12, <1>13, <1>14 DEF QueuesIInv

LEMMA CallsKeep ==
  ASSUME QueuesIInv, PublishTracked \/ PublishUntracked \/ Subscribe \/ Unsubscribe
  PROVE  QueuesIInv'
<1>1. "pub" \in Kinds /\ "sub" \in Kinds
  BY DEF Kinds
<1>2. CASE PublishTracked
  <2>1. PICK c \in Calls : TakePacketId(c) /\ PublishTracked!(c)!2
    BY <1>2 DEF PublishTracked
  <2>2. QED
    BY <1>1, <2>1, CallKeeps DEF Refuse, lists
<1>3. CASE PublishUntracked
  <2>1. PICK c \in Calls : TakePacketId(c) /\ PublishUntracked!(c)!2
    BY <1>3 DEF PublishUntracked
  <2>2. QED
    BY <1>1, <2>1, CallKeeps DEF Refuse, lists
<1>4. CASE Subscribe
  <2>1. PICK c \in Calls : TakePacketId(c) /\ Subscribe!(c)!2
    BY <1>4 DEF Subscribe
  <2>2. QED
    BY <1>1, <2>1, CallKeeps DEF Refuse, lists
<1>5. CASE Unsubscribe
  <2>1. PICK c \in Calls : /\ TakePacketId(c)
                          /\ refused' \in {refused, refused \cup {c}}
                          /\ UNCHANGED <<lists, wire, answers>>
    BY <1>5 DEF Unsubscribe
  <2>2. QED
    BY <1>1, <2>1, CallKeeps DEF lists
<1>6. QED
  BY <1>2, <1>3, <1>4, <1>5

-------------------------------------------------------------------------------
(* What stays of the invariant when no call is made: the ids do not change, *)
(* and queues that only lose entries stay in order.                         *)
LEMMA NoCallKeeps ==
  ASSUME QueuesIInv, UNCHANGED <<packet_id, calls, id, refused>>,
         DOMAIN queue' = Kinds,
         \A j \in Kinds : /\ queue'[j] \in Seq(Calls) /\ Increasing(queue'[j])
                          /\ Waiting(j)' \subseteq Waiting(j),
         alive' \subseteq alive, wire' \subseteq wire,
         answers' = answers \/ \E c \in 1 .. calls : answers' = Answered(c)
  PROVE  InOrder' /\ IdsCycle' /\ answers' \in [Calls -> Nat]
<1> USE DEF QueuesIInv
<1>1. calls \in 0 .. MaxCalls /\ answers \in [Calls -> Nat] /\ MaxCalls \in Nat
  BY QueueAssumption DEF QueuesTypeOK, QueueAssumption
<1>2. /\ answers' \in [Calls -> Nat]
      /\ \A c \in Calls : c > calls => answers'[c] = answers[c]
  <2>1. CASE answers' = answers
    BY <1>1, <2>1
  <2>2. ASSUME NEW c \in 1 .. calls, answers' = Answered(c) PROVE <1>2
    <3>1. c \in Calls
      BY <1>1 DEF Calls
    <3>2. QED
      BY <1>1, <2>2, <3>1 DEF Answered, Calls
  <2>3. QED
    BY <2>1, <2>2
<1>3. IdsCycle'
  BY DEF IdsCycle
<1>4. InOrder'
  <2>1. \A c \in Calls : c > calls' => answers'[c] = 0 /\ c \notin refused'
    BY <1>2 DEF InOrder
  <2>2. \A w \in wire' : w[2] <= calls' /\ (w[1] = "pub" => w[2] \notin Waiting("sub")')
                                       /\ (w[1] = "sub" => w[2] \notin Waiting("pub")')
    BY DEF InOrder, Kinds
  <2>3. QED
    BY <2>1, <2>2 DEF InOrder
<1>5. QED
  BY <1>2, <1>3, <1>4

(* Steps that leave the queues and the entries alone.                       *)
LEMMA SameLists ==
  ASSUME QueuesIInv, UNCHANGED lists
  PROVE  /\ DOMAIN queue' = Kinds
         /\ \A j \in Kinds : /\ queue'[j] \in Seq(Calls)
                             /\ Increasing(queue'[j]) /\ IsInjective(queue'[j])
                             /\ Waiting(j)' = Waiting(j)
         /\ alive' = alive
BY IncreasingInjective DEF QueuesIInv, QueuesTypeOK, InOrder, lists, Waiting

(* Where an entry is, when no callback runs.                                *)
LEMMA WaitingIdle ==
  ASSUME QueuesIInv, ~broken, ~walk.inCallback
  PROVE  /\ alive = Waiting("pub") \cup Waiting("sub")
         /\ \A k \in Kinds : \A c \in Waiting(k) :
              c \in Calls /\ c \in 1 .. calls /\ answers[c] = 0
<1>1. Running = {}
  BY DEF Running
<1>2. \A k \in Kinds : Waiting(k) \subseteq 1 .. calls /\ calls <= MaxCalls
  BY DEF QueuesIInv, InOrder, QueuesTypeOK
<1>3. \A k \in Kinds : Waiting(k) \subseteq Calls
  BY <1>2, QueueAssumption DEF Calls, QueuesIInv, QueuesTypeOK, QueueAssumption
<1>4. QED
  BY <1>1, <1>2, <1>3 DEF QueuesIInv, QueuesOwnEntries, AnsweredOnce

LEMMA AcknowledgedKeeps ==
  ASSUME QueuesIInv, Acknowledged PROVE QueuesIInv'
<1> USE DEF QueuesIInv
<1>1. /\ walk = NoWalk /\ ~broken /\ ~walk.inCallback
      /\ UNCHANGED <<packet_id, calls, id, alive, broken, destroyed, refused, due>>
  BY DEF Acknowledged, NoWalk
<1>2. PICK w \in wire :
        /\ wire' = wire \ {w}
        /\ \/ UNCHANGED <<queue, walk, answers, acked>>
           \/ \E i \in Matches(w[1], w[2]) :
                /\ queue' = [queue EXCEPT ![w[1]] = RemoveAt(@, i)]
                /\ walk' = [NoWalk EXCEPT !.kind = w[1], !.ack = TRUE,
                                          !.cur = queue[w[1]][i], !.inCallback = TRUE]
                /\ answers' = Answered(queue[w[1]][i])
                /\ acked' = <<w[2], queue[w[1]][i]>>
  BY DEF Acknowledged
<1>3. w[1] \in Kinds /\ w[2] \in Calls
  BY DEF QueuesTypeOK
<1>4. CASE UNCHANGED <<queue, walk, answers, acked>>
  <2>1. UNCHANGED lists
    BY <1>1, <1>4 DEF lists
  <2>2. /\ DOMAIN queue' = Kinds
        /\ \A j \in Kinds : /\ queue'[j] \in Seq(Calls)
                            /\ Increasing(queue'[j]) /\ IsInjective(queue'[j])
                            /\ Waiting(j)' = Waiting(j)
    BY <2>1, SameLists
  <2>3. InOrder' /\ IdsCycle'
    BY <1>1, <1>2, <1>4, <2>2, NoCallKeeps
  <2>4. Waiting("pub")' = Waiting("pub") /\ Waiting("sub")' = Waiting("sub")
        /\ Running' = Running
    BY <1>4, <2>2 DEF Kinds, Running
  <2>5. QueuesTypeOK'
    BY <1>1, <1>2, <1>4, <2>2 DEF QueuesTypeOK
  <2>6. QueuesOwnEntries'
    BY <1>1, <1>4, <2>2, <2>4 DEF QueuesOwnEntries, NoWalk
  <2>7. AnsweredOnce' /\ WalkSound' /\ RunningUnlinked'
    BY <1>1, <1>4, <2>2, <2>4 DEF AnsweredOnce, WalkSound, RunningUnlinked
  <2>8. QED
    BY <2>3, <2>5, <2>6, <2>7
<1>5. ASSUME NEW i \in Matches(w[1], w[2]),
             queue' = [queue EXCEPT ![w[1]] = RemoveAt(@, i)],
             walk' = [NoWalk EXCEPT !.kind = w[1], !.ack = TRUE,
                                    !.cur = queue[w[1]][i], !.inCallback = TRUE],
             answers' = Answered(queue[w[1]][i]),
             acked' = <<w[2], queue[w[1]][i]>>
      PROVE  QueuesIInv'
  <2> DEFINE k == w[1]
             c == queue[k][i]
  <2>1. i \in DOMAIN queue[k] /\ c \in Waiting(k)
    BY <1>5 DEF Matches, Waiting, ToSet
  <2>2. /\ DOMAIN queue' = Kinds
        /\ \A j \in Kinds : /\ queue'[j] \in Seq(Calls)
                            /\ Increasing(queue'[j]) /\ IsInjective(queue'[j])
                            /\ Waiting(j)' = IF j = k THEN Waiting(j) \ {c} ELSE Waiting(j)
    BY <1>3, <1>5, <2>1, Dequeue
  <2>3. /\ walk'.kind = k /\ walk'.ack = TRUE /\ walk'.cur = c
        /\ walk'.next = Head0 /\ walk'.inCallback = TRUE
        /\ answers' = Answered(c) /\ acked' = <<w[2], c>>
    BY <1>5 DEF NoWalk
  <2>4. walk' \in [kind : Kinds \cup {"none"}, ack : BOOLEAN, cur : Calls \cup {Head0},
                   next : Calls \cup {Head0}, inCallback : BOOLEAN]
    BY <1>1, <1>3, <1>5, <2>1, WaitingIdle DEF NoWalk
  <2>5. /\ k \in {"sub", "pub"} /\ "sub" \in Kinds /\ "pub" \in Kinds
        /\ c \in Calls /\ c \in 1 .. calls /\ answers[c] = 0
    BY <1>1, <1>3, <2>1, WaitingIdle DEF Kinds
  <2> HIDE DEF k, c
  <2>6. Running' = {c}
    BY <2>3 DEF Running
  <2>7. InOrder' /\ IdsCycle' /\ answers' \in [Calls -> Nat]
    <3>1. \A j \in Kinds : Waiting(j)' \subseteq Waiting(j)
      BY <2>2
    <3>2. alive' \subseteq alive /\ wire' \subseteq wire
      BY <1>1, <1>2
    <3>3. \E d \in 1 .. calls : answers' = Answered(d)
      BY <2>3, <2>5
    <3>4. QED
      BY <1>1, <2>2, <3>1, <3>2, <3>3, NoCallKeeps
  <2>8. QueuesTypeOK'
    <3>1. wire' \subseteq (Kinds \X Calls)
      BY <1>2 DEF QueuesTypeOK
    <3>2. acked' \in (Calls \cup {Head0}) \X (Calls \cup {Head0})
      BY <1>3, <2>3, <2>5
    <3>3. QED
      BY <1>1, <2>2, <2>4, <2>7, <3>1, <3>2 DEF QueuesTypeOK
  <2>9. QueuesOwnEntries'
    <3>1. alive = Waiting("pub") \cup Waiting("sub")
      BY <1>1, WaitingIdle
    <3>2. alive' = Waiting("pub")' \cup Waiting("sub")' \cup Running'
      BY <1>1, <2>1, <2>2, <2>5, <2>6, <3>1
    <3>3. Waiting("pub")' \cap Waiting("sub")' = {} /\ Waiting("pub")' \cap refused' = {}
      BY <1>1, <2>2, <2>5 DEF QueuesOwnEntries
    <3>4. QED
      BY <2>2, <2>3, <3>2, <3>3 DEF QueuesOwnEntries
  <2>10. AnsweredOnce'
    <3>1. answers'[c] = 1 /\ \A d \in Calls : d # c => answers'[d] = answers[d]
      BY <2>3, <2>5 DEF Answered, QueuesTypeOK
    <3>2. ASSUME NEW j \in Kinds, NEW d \in Waiting(j)' \ Running' PROVE answers'[d] = 0
      BY <1>1, <2>2, <2>6, <3>1, <3>2, WaitingIdle
    <3>3. QED
      BY <3>1, <3>2 DEF AnsweredOnce
  <2>11. WalkSound'
    BY <2>3, <2>5 DEF WalkSound
  <2>12. RunningUnlinked'
    BY <1>1, <2>1, <2>2, <2>3, <2>5 DEF RunningUnlinked, QueuesOwnEntries
  <2>13. QED
    BY <2>7, <2>8, <2>9, <2>10, <2>11, <2>12
<1>6. QED
  BY <1>2, <1>4, <1>5

LEMMA VisitKeeps ==
  ASSUME QueuesIInv, Visit PROVE QueuesIInv'
<1> USE DEF QueuesIInv
<1> DEFINE k == walk.kind
           c == walk.cur
<1>1. /\ k # "none" /\ ~walk.inCallback /\ c # Head0 /\ ~broken
      /\ walk' = [walk EXCEPT !.next = Flink(k, Position(k, c)), !.inCallback = TRUE]
      /\ queue' = IF k = "pub" THEN Removed("pub", c) ELSE queue
      /\ answers' = Answered(c)
      /\ UNCHANGED <<packet_id, calls, id, alive, broken, destroyed, wire, refused, due, acked>>
  BY DEF Visit
<1>2. k \in Kinds /\ k \in {"sub", "pub"} /\ "sub" \in Kinds /\ "pub" \in Kinds
  BY <1>1 DEF QueuesTypeOK, Kinds
<1>3. c \in Waiting(k) /\ ~walk.ack
  BY <1>1 DEF QueuesOwnEntries, WalkSound
<1>4. c \in Calls /\ c \in 1 .. calls /\ answers[c] = 0
  BY <1>1, <1>2, <1>3, WaitingIdle
<1>5. Flink(k, Position(k, c)) \in Waiting(k) \cup {Head0} /\ Flink(k, Position(k, c)) # c
  <2>1. Position(k, c) \in DOMAIN queue[k] /\ queue[k][Position(k, c)] = c
    BY <1>2, <1>3, PositionFound
  <2>2. Position(k, c) # 0
    BY <1>2, <2>1 DEF QueuesTypeOK
  <2>3. QED
    BY <1>2, <2>1, <2>2, FlinkFound DEF InOrder
<1>6. /\ walk'.kind = k /\ walk'.cur = c /\ walk'.ack = FALSE /\ walk'.inCallback = TRUE
      /\ walk'.next \in Waiting(k) \cup {Head0} /\ walk'.next # c
      /\ walk' \in [kind : Kinds \cup {"none"}, ack : BOOLEAN, cur : Calls \cup {Head0},
                    next : Calls \cup {Head0}, inCallback : BOOLEAN]
  <2>1. \A d \in Waiting(k) : d \in Calls
    BY <1>1, <1>2, WaitingIdle
  <2>2. Flink(k, Position(k, c)) \in Calls \cup {Head0}
    BY <1>5, <2>1
  <2>3. QED
    BY <1>1, <1>3, <1>5, <2>2 DEF QueuesTypeOK
<1> HIDE DEF k, c
<1>7. /\ DOMAIN queue' = Kinds
      /\ \A j \in Kinds : /\ queue'[j] \in Seq(Calls)
                          /\ Increasing(queue'[j]) /\ IsInjective(queue'[j])
                          /\ Waiting(j)' = IF j = "pub" /\ k = "pub" THEN Waiting(j) \ {c}
                                                                      ELSE Waiting(j)
  <2>1. CASE k = "pub"
    <3>1. queue' = Removed("pub", c) /\ c \in Waiting("pub")
      BY <1>1, <1>3, <2>1
    <3>2. QED
      BY <1>2, <2>1, <3>1, DequeueCall
  <2>2. CASE k # "pub"
    <3>1. UNCHANGED lists
      BY <1>1, <2>2 DEF lists
    <3>2. QED
      BY <2>2, <3>1, SameLists
  <2>3. QED
    BY <2>1, <2>2
<1>8. Running' = {c}
  BY <1>6 DEF Running
<1>9. InOrder' /\ IdsCycle' /\ answers' \in [Calls -> Nat]
  BY <1>1, <1>4, <1>7, NoCallKeeps
<1>10. QueuesTypeOK'
  BY <1>1, <1>6, <1>7, <1>9 DEF QueuesTypeOK
<1>11. QueuesOwnEntries'
  <2>1. alive = Waiting("pub") \cup Waiting("sub")
    BY <1>1, WaitingIdle
  <2>2. alive' = Waiting("pub")' \cup Waiting("sub")' \cup Running'
    BY <1>1, <1>2, <1>3, <1>7, <1>8, <2>1
  <2>3. Waiting("pub")' \cap Waiting("sub")' = {} /\ Waiting("pub")' \cap refused' = {}
    BY <1>1, <1>2, <1>7 DEF QueuesOwnEntries
  <2>4. walk'.next # Head0 => walk'.next \in Waiting(walk.kind)' /\ walk'.next # walk'.cur
    BY <1>2, <1>6, <1>7
  <2>5. QED
    BY <1>6, <1>7, <2>2, <2>3, <2>4 DEF QueuesOwnEntries
<1>12. AnsweredOnce'
  <2>1. answers'[c] = 1 /\ \A d \in Calls : d # c => answers'[d] = answers[d]
    BY <1>1, <1>4 DEF Answered, QueuesTypeOK
  <2>2. ASSUME NEW j \in Kinds, NEW d \in Waiting(j)' \ Running' PROVE answers'[d] = 0
    BY <1>1, <1>7, <1>8, <2>1, <2>2, WaitingIdle
  <2>3. QED
    BY <2>1, <2>2 DEF AnsweredOnce
<1>13. WalkSound'
  BY <1>1, <1>4, <1>6 DEF WalkSound
<1>14. RunningUnlinked'
  BY <1>1, <1>2, <1>3, <1>6, <1>7 DEF RunningUnlinked, QueuesOwnEntries
<1>15. QED
  BY <1>9, <1>10, <1>11, <1>12, <1>13, <1>14

LEMMA FailKeeps ==
  ASSUME QueuesIInv, Fail PROVE QueuesIInv'
<1> USE DEF QueuesIInv
<1>1. /\ walk = NoWalk /\ ~broken /\ ~walk.inCallback
      /\ walk' = [NoWalk EXCEPT !.kind = "sub", !.cur = Flink("sub", 0)]
      /\ due' = Waiting("pub") \cup Waiting("sub") /\ wire' = {}
      /\ UNCHANGED <<packet_id, calls, id, lists, broken, destroyed, answers, refused, acked>>
  BY DEF Fail, NoWalk
<1>2. "sub" \in Kinds /\ "pub" \in Kinds
  BY DEF Kinds
<1>3. Flink("sub", 0) \in Waiting("sub") \cup {Head0}
  BY <1>2, FlinkFound DEF InOrder
<1>4. /\ DOMAIN queue' = Kinds
      /\ \A j \in Kinds : /\ queue'[j] \in Seq(Calls)
                          /\ Increasing(queue'[j]) /\ IsInjective(queue'[j])
                          /\ Waiting(j)' = Waiting(j)
      /\ alive' = alive
  BY <1>1, SameLists
<1>5. /\ walk'.kind = "sub" /\ walk'.ack = FALSE /\ walk'.inCallback = FALSE
      /\ walk'.next = Head0 /\ walk'.cur = Flink("sub", 0)
  BY <1>1 DEF NoWalk
<1>6. \A k \in Kinds : \A c \in Waiting(k) : c \in Calls
  BY <1>1, WaitingIdle
<1>7. walk' \in [kind : Kinds \cup {"none"}, ack : BOOLEAN, cur : Calls \cup {Head0},
                next : Calls \cup {Head0}, inCallback : BOOLEAN]
  <2>1. Flink("sub", 0) \in Calls \cup {Head0}
    BY <1>2, <1>3, <1>6
  <2>2. QED
    BY <1>1, <1>2, <2>1 DEF NoWalk
<1>8. Running = {} /\ Running' = {}
  BY <1>1, <1>5 DEF Running
<1>9. InOrder' /\ IdsCycle' /\ answers' \in [Calls -> Nat]
  BY <1>1, <1>4, NoCallKeeps
<1>10. QueuesTypeOK'
  <2>1. due' \subseteq Calls /\ wire' \subseteq (Kinds \X Calls)
    BY <1>1, <1>2, <1>6
  <2>2. QED
    BY <1>1, <1>4, <1>7, <2>1 DEF QueuesTypeOK, lists
<1>11. QueuesOwnEntries'
  BY <1>1, <1>2, <1>3, <1>4, <1>5, <1>8 DEF QueuesOwnEntries
<1>12. AnsweredOnce'
  BY <1>1, <1>4, <1>8 DEF AnsweredOnce
<1>13. WalkSound' /\ RunningUnlinked'
  BY <1>5 DEF WalkSound, RunningUnlinked
<1>14. QED
  BY <1>9, <1>10, <1>11, <1>12, <1>13

LEMMA WalkEndsKeeps ==
  ASSUME QueuesIInv, WalkEnds PROVE QueuesIInv'
<1> USE DEF QueuesIInv
<1>1. /\ walk.kind # "none" /\ ~walk.inCallback /\ walk.cur = Head0 /\ ~broken
      /\ walk' = IF walk.kind = "sub"
                   THEN [NoWalk EXCEPT !.kind = "pub", !.cur = Flink("pub", 0)]
                   ELSE NoWalk
      /\ UNCHANGED <<packet_id, calls, id, lists, broken, destroyed, wire, queuesHistory>>
      /\ UNCHANGED <<answers, refused, due, acked>>
  BY DEF WalkEnds, queuesHistory
<1>2. "sub" \in Kinds /\ "pub" \in Kinds
  BY DEF Kinds
<1>3. Flink("pub", 0) \in Waiting("pub") \cup {Head0}
  BY <1>2, FlinkFound DEF InOrder
<1>4. /\ DOMAIN queue' = Kinds
      /\ \A j \in Kinds : /\ queue'[j] \in Seq(Calls)
                          /\ Increasing(queue'[j]) /\ IsInjective(queue'[j])
                          /\ Waiting(j)' = Waiting(j)
      /\ alive' = alive
  BY <1>1, SameLists
<1>5. /\ walk'.ack = FALSE /\ walk'.inCallback = FALSE /\ walk'.next = Head0
      /\ \/ walk' = NoWalk /\ walk'.cur = Head0
         \/ walk'.kind = "pub" /\ walk'.cur = Flink("pub", 0)
  BY <1>1 DEF NoWalk
<1>6. \A k \in Kinds : \A c \in Waiting(k) : c \in Calls
  BY <1>1, WaitingIdle
<1>7. walk' \in [kind : Kinds \cup {"none"}, ack : BOOLEAN, cur : Calls \cup {Head0},
                next : Calls \cup {Head0}, inCallback : BOOLEAN]
  <2>1. Flink("pub", 0) \in Calls \cup {Head0}
    BY <1>2, <1>3, <1>6
  <2>2. QED
    BY <1>1, <1>2, <2>1 DEF NoWalk
<1>8. Running = {} /\ Running' = {}
  BY <1>1, <1>5 DEF Running
<1>9. InOrder' /\ IdsCycle' /\ answers' \in [Calls -> Nat]
  BY <1>1, <1>4, NoCallKeeps
<1>10. QueuesTypeOK'
  BY <1>1, <1>4, <1>7 DEF QueuesTypeOK
<1>11. QueuesOwnEntries'
  BY <1>1, <1>2, <1>3, <1>4, <1>5, <1>8 DEF QueuesOwnEntries
<1>12. AnsweredOnce'
  BY <1>1, <1>4, <1>8 DEF AnsweredOnce
<1>13. WalkSound' /\ RunningUnlinked'
  BY <1>5 DEF WalkSound, RunningUnlinked
<1>14. QED
  BY <1>9, <1>10, <1>11, <1>12, <1>13

LEMMA DestroyKeeps ==
  ASSUME QueuesIInv, Disconnected \/ DestroyClient \/ UNCHANGED queuesVars PROVE QueuesIInv'
<1> USE DEF QueuesIInv
<1>1. /\ UNCHANGED <<packet_id, calls, id, lists, walk, broken, answers, refused, due, acked>>
      /\ wire' \in {wire, {}} /\ destroyed' \in BOOLEAN
  BY DEF Disconnected, DestroyClient, queuesVars, queuesHistory, QueuesTypeOK
<1>2. /\ DOMAIN queue' = Kinds
      /\ \A j \in Kinds : /\ queue'[j] \in Seq(Calls)
                          /\ Increasing(queue'[j]) /\ IsInjective(queue'[j])
                          /\ Waiting(j)' = Waiting(j)
      /\ alive' = alive
  BY <1>1, SameLists
<1>3. "sub" \in Kinds /\ "pub" \in Kinds /\ Running' = Running
  BY <1>1 DEF Kinds, Running
<1>4. wire' \subseteq wire
  BY <1>1
<1>5. InOrder' /\ IdsCycle'
  BY <1>1, <1>2, <1>4, NoCallKeeps
<1>6. QueuesTypeOK'
  BY <1>1, <1>2, <1>4 DEF QueuesTypeOK
<1>7. QueuesOwnEntries'
  <2>1. walk.kind \in Kinds \/ walk = NoWalk
    BY DEF WalkSound, QueuesTypeOK
  <2>2. QED
    BY <1>1, <1>2, <1>3, <2>1 DEF QueuesOwnEntries, NoWalk
<1>8. AnsweredOnce' /\ WalkSound' /\ RunningUnlinked'
  BY <1>1, <1>2, <1>3 DEF AnsweredOnce, WalkSound, RunningUnlinked, NoWalk
<1>9. QED
  BY <1>5, <1>6, <1>7, <1>8

LEMMA CallbackReturnsKeeps ==
  ASSUME QueuesIInv, CallbackReturns PROVE QueuesIInv'
<1> USE DEF QueuesIInv
<1> DEFINE c == walk.cur
           failing == walk.kind = "sub" /\ ~walk.ack
<1>1. /\ walk.inCallback /\ ~broken /\ alive' = alive \ {c}
      /\ walk' = IF walk.ack THEN NoWalk
                 ELSE [walk EXCEPT !.cur = walk.next, !.next = Head0, !.inCallback = FALSE]
      /\ UNCHANGED <<packet_id, calls, id, destroyed, wire, answers, refused, due, acked>>
  BY DEF CallbackReturns, queuesHistory
<1>2. \/ failing /\ broken' = FALSE /\ queue' = Removed("sub", c)
      \/ failing /\ broken' = TRUE /\ queue' = queue
      \/ ~failing /\ broken' = FALSE /\ queue' = queue
  <2>1. CASE failing
    <3>1. PICK links \in FreedLinks :
            /\ broken' = (links = "lost")
            /\ queue' = IF links = "kept" THEN Removed("sub", c) ELSE queue
      BY <2>1 DEF CallbackReturns
    <3>2. links = "kept" \/ links = "lost"
      BY QueueAssumption DEF QueueAssumption
    <3>3. QED
      BY <2>1, <3>1, <3>2
  <2>2. CASE ~failing
    BY <1>1, <2>2 DEF CallbackReturns, QueuesTypeOK
  <2>3. QED
    BY <2>1, <2>2
<1>3. /\ walk.kind \in Kinds /\ walk.kind \in {"sub", "pub"}
      /\ "sub" \in Kinds /\ "pub" \in Kinds /\ c \in Calls
  BY <1>1 DEF WalkSound, QueuesTypeOK, Kinds
<1>4. c \notin Waiting("pub") /\ (c \in Waiting("sub") <=> failing) /\ Running = {c}
  BY <1>1 DEF RunningUnlinked, Running
<1>5. /\ walk'.inCallback = FALSE /\ walk'.ack = FALSE /\ walk'.next = Head0
      /\ \/ walk.ack /\ walk' = NoWalk /\ walk'.cur = Head0
         \/ ~walk.ack /\ walk'.kind = walk.kind /\ walk'.cur = walk.next
      /\ walk' \in [kind : Kinds \cup {"none"}, ack : BOOLEAN, cur : Calls \cup {Head0},
                    next : Calls \cup {Head0}, inCallback : BOOLEAN]
  BY <1>1, <1>3 DEF QueuesTypeOK, NoWalk
<1> HIDE DEF c, failing
<1>6. /\ DOMAIN queue' = Kinds
      /\ \A j \in Kinds : /\ queue'[j] \in Seq(Calls)
                          /\ Increasing(queue'[j]) /\ IsInjective(queue'[j])
                          /\ Waiting(j)' = IF broken' THEN Waiting(j) ELSE Waiting(j) \ {c}
  <2>1. CASE failing /\ broken' = FALSE /\ queue' = Removed("sub", c)
    <3>1. /\ DOMAIN queue' = Kinds
          /\ \A j \in Kinds : /\ queue'[j] \in Seq(Calls)
                              /\ Increasing(queue'[j]) /\ IsInjective(queue'[j])
                              /\ Waiting(j)' = IF j = "sub" THEN Waiting(j) \ {c}
                                                            ELSE Waiting(j)
      BY <1>3, <1>4, <2>1, DequeueCall
    <3>2. \A j \in Kinds : j = "sub" \/ c \notin Waiting(j)
      BY <1>4 DEF Kinds
    <3>3. QED
      BY <2>1, <3>1, <3>2
  <2>2. CASE queue' = queue
    <3>1. /\ DOMAIN queue' = Kinds
          /\ \A j \in Kinds : /\ queue'[j] \in Seq(Calls)
                              /\ Increasing(queue'[j]) /\ IsInjective(queue'[j])
                              /\ Waiting(j)' = Waiting(j)
      BY <2>2, IncreasingInjective DEF QueuesTypeOK, InOrder, Waiting
    <3>2. CASE broken' = TRUE
      BY <3>1, <3>2
    <3>3. CASE ~failing /\ broken' = FALSE
      <4>1. \A j \in Kinds : c \notin Waiting(j)
        BY <1>4, <3>3 DEF Kinds
      <4>2. QED
        BY <3>1, <3>3, <4>1
    <3>4. CASE failing /\ broken' = FALSE /\ queue' = Removed("sub", c)
      BY <2>1, <3>4
    <3>5. QED
      BY <1>2, <3>2, <3>3, <3>4
  <2>3. QED
    BY <1>2, <2>1, <2>2
<1>7. Running' = {}
  BY <1>5 DEF Running
<1>8. InOrder' /\ IdsCycle' /\ answers' \in [Calls -> Nat]
  <2>1. /\ \A j \in Kinds : Waiting(j)' \subseteq Waiting(j)
        /\ alive' \subseteq alive /\ wire' \subseteq wire
    BY <1>1, <1>6
  <2>2. QED
    BY <1>1, <1>6, <2>1, NoCallKeeps
<1>9. QueuesTypeOK'
  <2>1. alive' \subseteq Calls /\ broken' \in BOOLEAN
    BY <1>1, <1>2 DEF QueuesTypeOK
  <2>2. QED
    BY <1>1, <1>5, <1>6, <2>1 DEF QueuesTypeOK
<1>10. QueuesOwnEntries'
  <2> SUFFICES ASSUME ~broken' PROVE QueuesOwnEntries'
    BY DEF QueuesOwnEntries
  <2>1. Waiting("pub")' = Waiting("pub") \ {c} /\ Waiting("sub")' = Waiting("sub") \ {c}
    BY <1>3, <1>6
  <2>2. alive' = Waiting("pub")' \cup Waiting("sub")' \cup Running'
    BY <1>1, <1>4, <1>7, <2>1 DEF QueuesOwnEntries
  <2>3. Waiting("pub")' \cap Waiting("sub")' = {} /\ Waiting("pub")' \cap refused' = {}
    BY <1>1, <2>1 DEF QueuesOwnEntries
  <2>4. walk.next # Head0 => walk.next \in Waiting(walk.kind) \ {c}
    BY <1>1 DEF QueuesOwnEntries, c
  <2>5. walk'.cur # Head0 => walk'.cur \in Waiting(walk.kind)'
    <3>1. ASSUME walk'.cur # Head0
          PROVE  walk'.kind \in Kinds /\ walk'.cur \in Waiting(walk'.kind) \ {c}
      BY <1>3, <1>5, <2>4, <3>1
    <3>2. \A j \in Kinds : Waiting(j)' = Waiting(j) \ {c}
      BY <1>6
    <3>3. QED
      BY <3>1, <3>2
  <2>6. QED
    BY <1>5, <1>6, <2>2, <2>3, <2>5 DEF QueuesOwnEntries
<1>11. AnsweredOnce'
  <2>1. ASSUME NEW j \in Kinds, NEW d \in Waiting(j)' \ Running', ~broken'
        PROVE  answers'[d] = 0
    BY <1>1, <1>4, <1>6, <2>1 DEF AnsweredOnce
  <2>2. QED
    BY <1>1, <2>1 DEF AnsweredOnce
<1>12. WalkSound' /\ RunningUnlinked'
  <2>1. walk'.kind = "none" => walk' = NoWalk
    BY <1>3, <1>5 DEF Kinds
  <2>2. QED
    BY <1>5, <2>1 DEF WalkSound, RunningUnlinked
<1>13. QED
  BY <1>8, <1>9, <1>10, <1>11, <1>12

LEMMA NextQueuesIInv == QueuesIInv /\ [QueuesNext]_queuesVars => QueuesIInv'
BY CallsKeep, AcknowledgedKeeps, FailKeeps, VisitKeeps, CallbackReturnsKeeps,
   WalkEndsKeeps, DestroyKeeps DEF QueuesNext

-------------------------------------------------------------------------------
(* Each call keeps its entry until it is answered, and is answered once,    *)
(* for any number of calls and whatever the callbacks do.                   *)
THEOREM CallsAreAccounted == QueuesSpec => []CallsAccounted
<1>1. QueuesIInv => CallsAccounted
  BY DEF QueuesIInv, CallsAccounted
<1>2. QED
  BY InitQueuesIInv, NextQueuesIInv, <1>1, PTL DEF QueuesSpec

(* An acknowledgement answers the call it is for, or the oldest one whose   *)
(* packet id has come round to it: get_next_packet_id for any USHRT_MAX.    *)
THEOREM AcksFindTheirCall == QueuesSpec => AcksAnswerTheirCall
<1> DEFINE AckOf(meant, got) ==
      meant # got =>
         /\ meant \notin Waiting("pub") \cup Waiting("sub") \/ got < meant
         /\ (IF got < meant THEN meant - got ELSE got - meant) >= UshrtMax - 1
<1>1. ASSUME QueuesIInv, Acknowledged, acked' # acked PROVE AckOf(acked'[1], acked'[2])
  <2>0. PICK w \in wire :
          \E i \in Matches(w[1], w[2]) :
            /\ \A j \in Matches(w[1], w[2]) : i <= j
            /\ acked' = <<w[2], queue[w[1]][i]>>
    BY <1>1 DEF Acknowledged
  <2>1. PICK i \in Matches(w[1], w[2]) :
          /\ \A j \in Matches(w[1], w[2]) : i <= j
          /\ acked' = <<w[2], queue[w[1]][i]>>
    BY <2>0
  <2> DEFINE k == w[1]
             meant == w[2]
             got == queue[k][i]
  <2>2. /\ k \in Kinds /\ k \in {"sub", "pub"} /\ meant \in Calls
        /\ calls \in Nat /\ UshrtMax \in Nat
    BY <1>1, QueueAssumption DEF QueuesIInv, QueuesTypeOK, Kinds, QueueAssumption
  <2>3. i \in DOMAIN queue[k] /\ id[got] = id[meant] /\ got \in Waiting(k)
    BY DEF Matches, Waiting, ToSet
  <2>4. meant \in 1 .. calls /\ got \in 1 .. calls
    BY <1>1, <2>2, <2>3 DEF QueuesIInv, InOrder, Calls
  <2>5. ASSUME meant # got, meant \in Waiting("pub") \cup Waiting("sub") PROVE got < meant
    <3>1. meant \in Waiting(k)
      BY <1>1, <2>2, <2>5 DEF QueuesIInv, InOrder
    <3>2. PICK j \in DOMAIN queue[k] : queue[k][j] = meant
      BY <3>1 DEF Waiting, ToSet
    <3>3. j \in Matches(k, meant)
      BY <3>2 DEF Matches
    <3>4. i <= j /\ i # j /\ i \in Nat /\ j \in Nat
      <4>1. queue[k] \in Seq(Calls)
        BY <1>1, <2>2 DEF QueuesIInv, QueuesTypeOK
      <4>2. i \in Nat /\ j \in Nat
        BY <2>3, <3>2, <4>1
      <4>3. QED
        BY <2>1, <2>5, <3>2, <3>3, <4>2
    <3>5. QED
      BY <1>1, <2>2, <2>3, <3>2, <3>4 DEF QueuesIInv, InOrder, Increasing
  <2> HIDE DEF k, meant, got
  <2>6. ASSUME meant # got
        PROVE  (IF got < meant THEN meant - got ELSE got - meant) >= UshrtMax - 1
    BY <1>1, <2>2, <2>3, <2>4, <2>6 DEF QueuesIInv, IdsCycle
  <2>7. acked'[1] = meant /\ acked'[2] = got
    BY <2>1 DEF k, meant, got
  <2>8. QED
    BY <2>5, <2>6, <2>7
<1>2. ASSUME QueuesIInv, [QueuesNext]_queuesVars, acked' # acked PROVE AckOf(acked'[1], acked'[2])
  <2>1. Acknowledged
    BY <1>2 DEF QueuesNext, queuesVars, queuesHistory, PublishTracked, PublishUntracked, Subscribe, Unsubscribe,
         TakePacketId, Fail, Visit, CallbackReturns, WalkEnds, Disconnected, DestroyClient
  <2>2. QED
    BY <1>1, <1>2, <2>1
<1>3. QueuesIInv /\ [QueuesNext]_queuesVars =>
        [acked' # acked =>
           LET meant == acked'[1] got == acked'[2] IN
           meant # got =>
             /\ meant \notin Waiting("pub") \cup Waiting("sub") \/ got < meant
             /\ (IF got < meant THEN meant - got ELSE got - meant) >= UshrtMax - 1]_queuesVars
  BY <1>2
<1>4. QED
  BY InitQueuesIInv, NextQueuesIInv, <1>3, PTL DEF QueuesSpec, AcksAnswerTheirCall

-------------------------------------------------------------------------------
(* The contract: what is due an answer, and what has had one.               *)
Due == alive \ Running
Had == {c \in Calls : answers[c] > 0}
Kept == Contract!Next \/ UNCHANGED <<Due, Had>>

LEMMA CallContract ==
  ASSUME QueuesIInv, NEW c \in Calls, TakePacketId(c),
         \/ UNCHANGED <<alive, answers>>
         \/ alive' = alive /\ answers' = Answered(c)
         \/ alive' = alive \cup {c} /\ answers' = answers
  PROVE  Kept
<1>1. c = calls + 1 /\ calls \in Nat /\ answers \in [Calls -> Nat]
  BY DEF TakePacketId, QueuesIInv, QueuesTypeOK
<1>2. c \notin alive /\ answers[c] = 0
  BY <1>1 DEF QueuesIInv, InOrder
<1>3. Running' = Running /\ Running \subseteq alive
  BY DEF TakePacketId, InApplication, Running, QueuesIInv, QueuesOwnEntries
<1>4. c \in Calls \ (Due \cup Had)
  BY <1>2 DEF Due, Had
<1>5. CASE UNCHANGED <<alive, answers>>
  BY <1>3, <1>5 DEF Kept, Due, Had
<1>6. CASE alive' = alive /\ answers' = Answered(c)
  <2>1. Due' = Due
    BY <1>3, <1>6 DEF Due
  <2>2. Had' = Had \cup {c}
    BY <1>1, <1>2, <1>6 DEF Had, Answered
  <2>3. Contract!AnswerAtOnce
    BY <1>4, <2>1, <2>2 DEF Contract!AnswerAtOnce, Contract!Fresh, Due, Had
  <2>4. QED
    BY <2>3 DEF Kept, Contract!Next
<1>7. CASE alive' = alive \cup {c} /\ answers' = answers
  <2>1. Due' = Due \cup {c}
    BY <1>2, <1>3, <1>7 DEF Due
  <2>2. Had' = Had
    BY <1>7 DEF Had
  <2>3. Contract!Wait
    BY <1>4, <2>1, <2>2 DEF Contract!Wait, Contract!Fresh, Due, Had
  <2>4. QED
    BY <2>3 DEF Kept, Contract!Next
<1>8. QED
  BY <1>5, <1>6, <1>7

LEMMA AnswerContract ==
  ASSUME QueuesIInv, ~broken, ~walk.inCallback, NEW k \in Kinds, NEW c, c \in Waiting(k),
         alive' = alive, answers' = Answered(c), Running' = {c}
  PROVE  Kept
<1>1. Running = {} /\ c \in alive /\ c \in Calls /\ answers[c] = 0
  BY WaitingIdle DEF Running, Kinds
<1>2. answers \in [Calls -> Nat]
  BY DEF QueuesIInv, QueuesTypeOK
<1>3. Due' = Due \ {c} /\ c \in Due
  BY <1>1 DEF Due
<1>4. Had' = Had \cup {c}
  BY <1>1, <1>2 DEF Had, Answered
<1>5. Contract!Answer
  BY <1>3, <1>4 DEF Contract!Answer, Due, Had
<1>6. QED
  BY <1>5 DEF Kept, Contract!Next

LEMMA NextContract ==
  ASSUME QueuesIInv, [QueuesNext]_queuesVars PROVE Kept
<1> USE DEF QueuesIInv
<1>1. CASE PublishTracked
  <2>1. PICK c \in Calls : TakePacketId(c) /\ PublishTracked!(c)!2
    BY <1>1 DEF PublishTracked
  <2>2. QED
    BY <2>1, CallContract DEF Refuse, lists
<1>2. CASE PublishUntracked
  <2>1. PICK c \in Calls : TakePacketId(c) /\ PublishUntracked!(c)!2
    BY <1>2 DEF PublishUntracked
  <2>2. QED
    BY <2>1, CallContract DEF Refuse, lists
<1>3. CASE Subscribe
  <2>1. PICK c \in Calls : TakePacketId(c) /\ Subscribe!(c)!2
    BY <1>3 DEF Subscribe
  <2>2. QED
    BY <2>1, CallContract DEF Refuse, lists
<1>4. CASE Unsubscribe
  <2>1. PICK c \in Calls : TakePacketId(c) /\ UNCHANGED <<lists, wire, answers>>
    BY <1>4 DEF Unsubscribe
  <2>2. QED
    BY <2>1, CallContract DEF lists
<1>5. CASE Acknowledged
  <2>1. ~broken /\ ~walk.inCallback /\ alive' = alive
    BY <1>5 DEF Acknowledged, NoWalk
  <2>2. PICK w \in wire :
          \/ UNCHANGED <<queue, walk, answers, acked>>
          \/ \E i \in Matches(w[1], w[2]) :
               /\ walk' = [NoWalk EXCEPT !.kind = w[1], !.ack = TRUE,
                                         !.cur = queue[w[1]][i], !.inCallback = TRUE]
               /\ answers' = Answered(queue[w[1]][i])
    BY <1>5 DEF Acknowledged
  <2>3. CASE UNCHANGED <<queue, walk, answers, acked>>
    BY <2>1, <2>3 DEF Kept, Due, Had, Running
  <2>4. ASSUME NEW i \in Matches(w[1], w[2]),
               walk' = [NoWalk EXCEPT !.kind = w[1], !.ack = TRUE,
                                      !.cur = queue[w[1]][i], !.inCallback = TRUE],
               answers' = Answered(queue[w[1]][i])
        PROVE  Kept
    <3>1. w[1] \in Kinds
      BY DEF QueuesTypeOK
    <3>2. queue[w[1]][i] \in Waiting(w[1])
      BY DEF Matches, Waiting, ToSet
    <3>3. Running' = {queue[w[1]][i]}
      BY <2>4 DEF Running, NoWalk
    <3>4. QED
      BY <2>1, <2>4, <3>1, <3>2, <3>3, AnswerContract
  <2>5. QED
    BY <2>2, <2>3, <2>4
<1>6. CASE Visit
  <2>1. /\ walk.kind # "none" /\ ~walk.inCallback /\ walk.cur # Head0 /\ ~broken
        /\ alive' = alive /\ answers' = Answered(walk.cur)
    BY <1>6 DEF Visit
  <2>2. walk'.inCallback = TRUE /\ walk'.cur = walk.cur
    BY <1>6 DEF Visit, QueuesTypeOK
  <2>3. walk.kind \in Kinds /\ walk.cur \in Waiting(walk.kind) /\ Running' = {walk.cur}
    BY <2>1, <2>2 DEF QueuesTypeOK, QueuesOwnEntries, Running
  <2>4. QED
    BY <2>1, <2>3, AnswerContract
<1>7. CASE CallbackReturns
  <2>1. /\ walk.inCallback /\ alive' = alive \ {walk.cur} /\ answers' = answers
        /\ walk'.inCallback = FALSE
    BY <1>7 DEF CallbackReturns, queuesHistory, NoWalk, QueuesTypeOK
  <2>2. Due' = Due /\ Had' = Had
    BY <2>1 DEF Due, Had, Running
  <2>3. QED
    BY <2>2 DEF Kept
<1>8. CASE Fail \/ WalkEnds \/ Disconnected \/ DestroyClient \/ UNCHANGED queuesVars
  <2>1. alive' = alive /\ answers' = answers
    BY <1>8 DEF Fail, WalkEnds, Disconnected, DestroyClient, queuesVars, lists, queuesHistory
  <2>2. Running' = Running
    <3>1. CASE Fail \/ WalkEnds
      <4>1. ~walk.inCallback /\ ~walk'.inCallback
        <5>1. CASE Fail
          BY <5>1 DEF Fail, NoWalk
        <5>2. CASE WalkEnds
          <6>1. /\ ~walk.inCallback
                /\ \/ walk' = [NoWalk EXCEPT !.kind = "pub", !.cur = Flink("pub", 0)]
                   \/ walk' = NoWalk
            BY <5>2 DEF WalkEnds
          <6>2. walk'.inCallback = FALSE
            <7>1. CASE walk' = NoWalk
              BY <7>1 DEF NoWalk
            <7>2. CASE walk' = [NoWalk EXCEPT !.kind = "pub", !.cur = Flink("pub", 0)]
              BY <7>2 DEF NoWalk
            <7>3. QED
              BY <6>1, <7>1, <7>2
          <6>3. QED
            BY <6>1, <6>2
        <5>3. QED
          BY <3>1, <5>1, <5>2
      <4>2. QED
        BY <4>1 DEF Running
    <3>2. CASE Disconnected \/ DestroyClient \/ UNCHANGED queuesVars
      BY <3>2 DEF Disconnected, DestroyClient, queuesVars, Running
    <3>3. QED
      BY <1>8, <3>1, <3>2
  <2>3. QED
    BY <2>1, <2>2 DEF Kept, Due, Had
<1>9. QED
  BY <1>1, <1>2, <1>3, <1>4, <1>5, <1>6, <1>7, <1>8 DEF QueuesNext

(* Every step of the queues is one the contract allows: a call is refused,  *)
(* answered at once or made to wait, and is then answered at most once.     *)
THEOREM ContractIsKept == QueuesSpec => ImplementsContract
<1>1. QueuesInit => Contract!Init
  BY DEF QueuesInit, Contract!Init
<1>2. QueuesIInv /\ [QueuesNext]_queuesVars => [Contract!Next]_<<Due, Had>>
  BY NextContract DEF Kept
<1>3. QED
  BY InitQueuesIInv, NextQueuesIInv, <1>1, <1>2, PTL
     DEF QueuesSpec, ImplementsContract, Contract!Spec, Due, Had
================================================================================
