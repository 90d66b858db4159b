------------------------------ MODULE AmvpPolling ------------------------------
(***************************************************************************)
(* The two loops of src/src/amvp.c that poll the server through             *)
(* amvp_retry_handler():                                                    *)
(*                                                                          *)
(*  - amvp_process_vsid() and amvp_process_teid() download one vector (or   *)
(*    evidence) set; while the answer holds a "retry" number the server has *)
(*    not generated the set yet, and that number is the period to wait;     *)
(*  - amvp_get_result_test_session() asks for the results of the session    *)
(*    until no set is incomplete; the period starts at AMVP_RETRY_TIME and  *)
(*    is the variable the handler itself leaves behind.                     *)
(*                                                                          *)
(* One loop is run per behaviour, chosen by `situation`.                    *)
(***************************************************************************)
EXTENDS AmvpRetry

CONSTANTS
    AMVP_RETRY_TIME,   \* first period of the results loop
    Periods,           \* "retry" values a server may send
    Modifiers          \* backoff factors callers pass; in this code, always 1

ASSUME PollingConstants ==
    /\ AMVP_RETRY_TIME \in Int
    /\ Periods \subseteq (Int \ {0})   \* 0 means "no retry member"
    /\ Modifiers \subseteq Int

Situations == {"AMVP_WAITING_FOR_TESTS", "AMVP_WAITING_FOR_RESULTS"}

VARIABLES
    situation,    \* which of the loops this is
    modifier,     \* the factor this caller passes to the handler
    pc,           \* "get": about to poll; "handler": in the handler; "done"
    period,       \* retry_period / retry_interval
    waited,       \* time_waited_so_far
    rv,           \* the loop's result
    slept,        \* history: seconds really slept
    sleeps        \* history: number of sleeps

vars == <<situation, modifier, pc, period, waited, rv, slept, sleeps>>

Init ==
    /\ situation \in Situations
    /\ modifier \in Modifiers
    /\ pc = "get"
    /\ period = IF situation = "AMVP_WAITING_FOR_TESTS" THEN 0 ELSE AMVP_RETRY_TIME
    /\ waited = 0
    /\ rv = "AMVP_SUCCESS"
    /\ slept = 0
    /\ sleeps = 0

(* The answer says "not yet": the download loops take the period from it,   *)
(* the results loop keeps its own.                                          *)
NotReady ==
    /\ pc = "get"
    /\ \/ /\ situation = "AMVP_WAITING_FOR_TESTS"
          /\ \E p \in Periods : period' = p
       \/ /\ situation = "AMVP_WAITING_FOR_RESULTS"
          /\ UNCHANGED period
    /\ pc' = "handler"
    /\ UNCHANGED <<situation, modifier, waited, rv, slept, sleeps>>

(* The answer is the set, or complete results: the loop is left.            *)
Ready ==
    /\ pc = "get"
    /\ pc' = "done"
    /\ UNCHANGED <<situation, modifier, period, waited, rv, slept, sleeps>>

(* The request fails, or its body does not parse: goto end.                 *)
PollFails ==
    /\ pc = "get"
    /\ pc' = "done"
    /\ rv' \in {"AMVP_TRANSPORT_FAIL", "AMVP_JSON_ERR"}
    /\ UNCHANGED <<situation, modifier, period, waited, slept, sleeps>>

(* Defective: the caller ignores the refusal and polls again.               *)
HandlerRefusalIgnored ==
    /\ pc = "handler"
    /\ WaitExhausted(waited)
    /\ pc' = "get"
    /\ UNCHANGED <<situation, modifier, period, waited, rv, slept, sleeps>>

(* amvp_retry_handler() refuses; every caller turns that into               *)
(* AMVP_TRANSPORT_FAIL.                                                     *)
HandlerRefuses ==
    /\ pc = "handler"
    /\ WaitExhausted(waited)
    /\ rv' = "AMVP_TRANSPORT_FAIL"
    /\ pc' = "done"
    /\ UNCHANGED <<situation, modifier, period, waited, slept, sleeps>>

(* Defective: counts the period asked for, not the one slept.               *)
HandlerCountsRequest ==
    /\ pc = "handler"
    /\ ~WaitExhausted(waited)
    /\ slept' = slept + SleepPeriod(waited, period)
    /\ period' = ClampedPeriod(waited, period)
    /\ waited' = waited + period'
    /\ sleeps' = sleeps + 1
    /\ pc' = "get"
    /\ UNCHANGED <<situation, modifier, rv>>

(* amvp_retry_handler() sleeps, counts the sleep and asks for another poll. *)
HandlerSleeps ==
    /\ pc = "handler"
    /\ ~WaitExhausted(waited)
    /\ slept' = slept + SleepPeriod(waited, period)
    /\ period' = Backoff(SleepPeriod(waited, period), modifier)
    /\ waited' = waited + period'
    /\ sleeps' = sleeps + 1
    /\ pc' = "get"
    /\ UNCHANGED <<situation, modifier, rv>>

(* The loop has returned to its caller.                                     *)
Returned == pc = "done" /\ UNCHANGED vars

Next == NotReady \/ Ready \/ PollFails \/ HandlerRefuses \/ HandlerSleeps \/ Returned

Spec == Init /\ [][Next]_vars

(* The client is one thread that runs until it returns, and sleep() and the *)
(* HTTP requests return; nothing obliges the server to become ready.        *)
FairSpec == Spec /\ WF_vars(NotReady \/ Ready \/ PollFails)
                 /\ WF_vars(HandlerRefuses \/ HandlerSleeps)
--------------------------------------------------------------------------------
(* Every variable stays in its type; the counted time never reaches the     *)
(* value where the unsigned sum of the handler would wrap.                  *)
TypeOK ==
    /\ situation \in Situations
    /\ modifier \in Modifiers
    /\ pc \in {"get", "handler", "done"}
    /\ period \in Int
    /\ waited \in 0 .. AMVP_MAX_WAIT_TIME + AMVP_RETRY_TIME_MAX - 1
    /\ rv \in {"AMVP_SUCCESS", "AMVP_TRANSPORT_FAIL", "AMVP_JSON_ERR"}
    /\ slept \in Nat
    /\ sleeps \in Nat

(* The comment on amvp_retry_handler(): "this function will ensure that     *)
(* retry periods will sum to no longer than AMVP_MAX_WAIT_TIME".  It does   *)
(* not: a period cut to what is left, if that is at most                    *)
(* AMVP_RETRY_TIME_MIN, is replaced by AMVP_RETRY_TIME_MAX.                 *)
SleepsSumToMaximum == slept <= AMVP_MAX_WAIT_TIME

(* What amvp_retry_handler() does guarantee about the wait: it counts at    *)
(* least what it slept, and the sleeps overrun AMVP_MAX_WAIT_TIME by less   *)
(* than one AMVP_RETRY_TIME_MAX, whatever periods the server asks for.      *)
WaitOverrunBounded ==
    /\ slept <= waited
    /\ slept < AMVP_MAX_WAIT_TIME + AMVP_RETRY_TIME_MAX

(* The polls of one loop are limited: every sleep is longer than            *)
(* AMVP_RETRY_TIME_MIN however short the period the server sends, so a      *)
(* server that never becomes ready is asked only so often.                  *)
SleepsBounded ==
    sleeps * (AMVP_RETRY_TIME_MIN + 1) <= waited

(* However the server chooses its periods, amvp_retry_handler() keeps a     *)
(* loop within the maximum wait and within a number of polls.               *)
WaitIsBounded == WaitOverrunBounded /\ SleepsBounded

(* The loop never gives up early on a server that answers: when the         *)
(* handler refuses, the client has really slept AMVP_MAX_WAIT_TIME (a       *)
(* caller with a backoff factor would be counted more than it slept), and   *)
(* the caller sees AMVP_TRANSPORT_FAIL.                                     *)
GivesUpOnlyAfterFullWait ==
    [][pc = "handler" /\ pc' = "done" =>
          /\ rv' = "AMVP_TRANSPORT_FAIL"
          /\ modifier = 1 => slept >= AMVP_MAX_WAIT_TIME]_vars

(* Every polling loop returns, even when the server answers "retry" for     *)
(* ever.                                                                    *)
PollingTerminates == <>(pc = "done")

================================================================================
