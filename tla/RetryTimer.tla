------------------------------ MODULE RetryTimer ------------------------------
(***************************************************************************)
(* The retry timer of the IoTCore client (iotcore_retry_logic.c): the      *)
(* RETRY_LOGIC record and the two operations the connection calls on it,   *)
(* can_retry and stop_retry_timer.  The module has no behaviour of its     *)
(* own: RetryLogic drives it with an abstract connection, MqttConnection   *)
(* with the real one.                                                      *)
(***************************************************************************)
EXTENDS Integers

CONSTANTS
  ErrorTimeForRetrySecs, (* ERROR_TIME_FOR_RETRY_SECS, 5 in the code          *)
  Limits,                (* the values retry_timeout_limit_in_sec may have,   *)
                         (* 0 for "no limit"                                  *)
  Faults,                (* the environment faults allowed: "clock" lets a    *)
                         (* read of the wall clock fail, "malloc" lets the    *)
                         (* allocation of the RETRY_LOGIC fail                *)
  Ticks,                 (* how many seconds may pass in one step             *)
  MaxTime                (* bound on the clock                                *)

ASSUME TimerAssumption ==
  /\ ErrorTimeForRetrySecs \in Nat
  /\ Limits \subseteq Nat
  /\ Faults \subseteq {"clock", "malloc"}

ASSUME ClockAssumption == Ticks \subseteq Nat /\ MaxTime \in Nat

VARIABLES
  retry, (* the RETRY_LOGIC; created is FALSE when the pointer is NULL     *)
  now    (* the wall clock, in whole seconds                              *)

Epoch == 0          \* EPOCH_TIME_T_VALUE
UnknownTime == -1   \* what get_time returns when the time cannot be read

RetryType ==
  [created: BOOLEAN, limit: Nat, start: Nat \cup {UnknownTime},
   last_connect: Nat, retry_started: BOOLEAN, retry_expired: BOOLEAN,
   first_attempt: BOOLEAN, retry_count: Nat, delay: Int]

(* create_retry_logic: whatever policy is asked for, the policy function is *)
(* the exponential one, so the policy is not part of the state.             *)
CreateRetryLogic(created, limit) ==
  [created |-> created, limit |-> limit, start |-> Epoch, last_connect |-> Epoch,
   retry_started |-> FALSE, retry_expired |-> FALSE, first_attempt |-> TRUE,
   retry_count |-> 0, delay |-> 0]

(* The timer a client starts with; without memory it has none.              *)
NewTimer ==
  \E created \in {TRUE} \cup (IF "malloc" \in Faults THEN {FALSE} ELSE {}), limit \in Limits :
    retry = CreateRetryLogic(created, limit)

(* get_time(NULL): the current second, or a failure.                        *)
ClockReads == {now} \cup (IF "clock" \in Faults THEN {UnknownTime} ELSE {})

(* ((1 << n) - 1) / 4 in C int arithmetic.  The shift is undefined from 31  *)
(* on: at 31 the wrapped subtraction gives 2^31 - 1, beyond it the builds   *)
(* either mask the shift count or shift everything out.                     *)
HalfDeltas(n) ==
  {(2^(n % 32) - 1) \div 4} \cup (IF n < 32 THEN {} ELSE {0})

(* retry_policy_exponential_backoff_with_jitter: half + rand() % half.      *)
Delays(n) ==
  UNION {IF h > 0 THEN h .. (2 * h - 1) ELSE {h} : h \in HalfDeltas(n)}

(* Mutant: the timer is never marked as running.                            *)
StartedTimer_NotStarted(r, s) ==
  [r EXCEPT !.start = s, !.delay = 0, !.first_attempt = FALSE]

(* start_retry_timer, with s the value its own clock read returned.         *)
StartedTimer(r, s) ==
  IF r.retry_started
    THEN [r EXCEPT !.first_attempt = FALSE]
    ELSE [r EXCEPT !.start = s, !.delay = 0, !.retry_started = TRUE,
                   !.first_attempt = FALSE]

(* stop_retry_timer; it leaves retry_expired and start alone.               *)
StoppedTimer(r) ==
  IF r.created /\ r.retry_started
    THEN [r EXCEPT !.retry_started = FALSE, !.delay = 0,
                   !.last_connect = Epoch, !.retry_count = 0]
    ELSE r

(* Mutant: the limit short by a second.                                     *)
WithinLimit_Short(t, d) ==
  retry.limit = 0 \/ retry.limit > d + (t - retry.start)

WithinLimit(t, d) ==
  retry.limit = 0 \/ retry.limit >= d + (t - retry.start)

(* Mutant: expiry does not stop the timer.                                  *)
EvaluatePolicy_KeepsRunning(t, result) ==
  \E d \in Delays(retry.retry_count) :
    \/ /\ WithinLimit(t, d)
       /\ result = (d <= ErrorTimeForRetrySecs \/ t - retry.last_connect >= d)
       /\ retry' = IF result
                     THEN [retry EXCEPT !.delay = d, !.last_connect = t,
                                        !.retry_count = @ + 1]
                     ELSE [retry EXCEPT !.delay = d]
    \/ /\ ~WithinLimit(t, d)
       /\ result = FALSE
       /\ retry' = [retry EXCEPT !.retry_expired = TRUE]

(* The part of can_retry that consults the policy, at time t.               *)
EvaluatePolicy(t, result) ==
  \E d \in Delays(retry.retry_count) :
    \/ /\ WithinLimit(t, d)
       /\ result = (d <= ErrorTimeForRetrySecs \/ t - retry.last_connect >= d)
       /\ retry' = IF result
                     THEN [retry EXCEPT !.delay = d, !.last_connect = t,
                                        !.retry_count = @ + 1]
                     ELSE [retry EXCEPT !.delay = d]
    \/ /\ ~WithinLimit(t, d)
       /\ result = FALSE
       /\ retry' = StoppedTimer([retry EXCEPT !.retry_expired = TRUE])

(* Mutant: no pause of ErrorTimeForRetrySecs between two attempts.          *)
EvaluateRetry_NoPause(t, s, result) ==
  \/ /\ retry.first_attempt
     /\ result = TRUE
     /\ retry' = [StartedTimer(retry, s) EXCEPT !.last_connect = t,
                                                !.retry_count = @ + 1]
  \/ /\ ~retry.first_attempt /\ ~retry.retry_started
     /\ result = FALSE
     /\ retry' = StartedTimer(retry, s)
  \/ /\ ~retry.first_attempt /\ retry.retry_started
     /\ t - retry.last_connect >= retry.delay
     /\ EvaluatePolicy(t, result)

(* can_retry once the time is known and the retries have not expired.       *)
EvaluateRetry(t, s, result) ==
  \/ /\ retry.first_attempt
     /\ result = TRUE
     /\ retry' = [StartedTimer(retry, s) EXCEPT !.last_connect = t,
                                                !.retry_count = @ + 1]
  \/ /\ ~retry.first_attempt /\ ~retry.retry_started
     /\ result = FALSE
     /\ retry' = StartedTimer(retry, s)
  \/ /\ ~retry.first_attempt /\ retry.retry_started
     /\ \/ t - retry.last_connect <= ErrorTimeForRetrySecs
        \/ t - retry.last_connect < retry.delay
     /\ result = FALSE
     /\ UNCHANGED retry
  \/ /\ ~retry.first_attempt /\ retry.retry_started
     /\ t - retry.last_connect > ErrorTimeForRetrySecs
     /\ t - retry.last_connect >= retry.delay
     /\ EvaluatePolicy(t, result)

(* can_retry: t is its clock read, s the one of start_retry_timer.          *)
CanRetry(t, s, result) ==
  \/ /\ ~retry.created \/ t < 0 \/ retry.start < 0
     /\ result = TRUE
     /\ UNCHANGED retry
  \/ /\ retry.created /\ t >= 0 /\ retry.start >= 0
     /\ retry.retry_expired
     /\ result = FALSE
     /\ UNCHANGED retry
  \/ /\ retry.created /\ t >= 0 /\ retry.start >= 0
     /\ ~retry.retry_expired
     /\ EvaluateRetry(t, s, result)

StopRetryTimer == retry' = StoppedTimer(retry)
================================================================================
