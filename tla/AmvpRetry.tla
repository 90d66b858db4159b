------------------------------- MODULE AmvpRetry -------------------------------
(***************************************************************************)
(* The arithmetic of amvp_retry_handler() (src/src/amvp.c), the one place   *)
(* where libamvp decides how long to wait for the server: how the period    *)
(* asked for is normalised before the sleep, and what the sleep is counted  *)
(* as afterwards.  The constants are the #defines of amvp_lcl.h; the        *)
(* module has no state, the loops that call the handler are in AmvpPolling  *)
(* and AmvpResults.                                                         *)
(***************************************************************************)
EXTENDS Integers

CONSTANTS
    AMVP_RETRY_TIME_MIN,      \* a period of at most this is replaced
    AMVP_RETRY_TIME_MAX,      \* ... by this one, and so is a longer one
    AMVP_MAX_WAIT_TIME,       \* the handler refuses once this much is counted
    AMVP_RETRY_MODIFIER_MAX,  \* largest backoff factor accepted
    UINT_MOD                  \* 2^w of `unsigned int`: waited_so_far is one, and
                              \* adding the signed retry_period converts the sum

ASSUME RetryConstants ==
    /\ AMVP_RETRY_TIME_MIN \in Nat
    /\ AMVP_RETRY_TIME_MAX \in Nat
    /\ AMVP_MAX_WAIT_TIME \in Nat
    /\ AMVP_RETRY_MODIFIER_MAX \in Nat
    /\ UINT_MOD \in Nat
    /\ AMVP_RETRY_TIME_MIN < AMVP_RETRY_TIME_MAX
    /\ AMVP_RETRY_TIME_MAX <= AMVP_MAX_WAIT_TIME
    /\ AMVP_MAX_WAIT_TIME + AMVP_RETRY_TIME_MAX < UINT_MOD

(* Two defective tests for the end of the wait: one sleep too many, one too *)
(* few.                                                                     *)
WaitExhaustedLate(waited) == waited > AMVP_MAX_WAIT_TIME
WaitExhaustedEarly(waited) == waited + AMVP_RETRY_TIME_MAX >= AMVP_MAX_WAIT_TIME

(* The first test of the handler: nothing is slept once the counted time    *)
(* has reached the maximum.                                                 *)
WaitExhausted(waited) == waited >= AMVP_MAX_WAIT_TIME

(* The period cut to what is left of the maximum.  The comparison is made   *)
(* on the unsigned sum, so a negative period wraps when it exceeds waited.  *)
ClampedPeriod(waited, period) ==
    IF (waited + period) % UINT_MOD > AMVP_MAX_WAIT_TIME
    THEN AMVP_MAX_WAIT_TIME - waited
    ELSE period

(* Defective: short periods are slept as they are.                          *)
SleepPeriodNoMinimum(waited, period) ==
    LET p == ClampedPeriod(waited, period)
    IN  IF p > AMVP_RETRY_TIME_MAX THEN AMVP_RETRY_TIME_MAX ELSE p

(* The period actually slept: a cut period outside (MIN, MAX] is replaced   *)
(* by MAX, which is how the last sleep can go past the maximum.             *)
SleepPeriod(waited, period) ==
    LET p == ClampedPeriod(waited, period)
    IN  IF p <= AMVP_RETRY_TIME_MIN \/ p > AMVP_RETRY_TIME_MAX
        THEN AMVP_RETRY_TIME_MAX
        ELSE p

(* The period after the sleep: multiplied by the caller's modifier (1 when  *)
(* the modifier is not valid) and capped.  This, not the time slept, is     *)
(* what is added to waited_so_far.                                          *)
Backoff(period, modifier) ==
    LET m == IF modifier < 1 \/ modifier > AMVP_RETRY_MODIFIER_MAX
             THEN 1 ELSE modifier
    IN  IF period * m > AMVP_RETRY_TIME_MAX
        THEN AMVP_RETRY_TIME_MAX
        ELSE period * m
================================================================================
