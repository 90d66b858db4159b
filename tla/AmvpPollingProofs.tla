--------------------------- MODULE AmvpPollingProofs ---------------------------
(***************************************************************************)
(* Proofs about AmvpPolling for every value of the constants: any minimum,  *)
(* maximum and total wait that satisfy RetryConstants, any set of periods   *)
(* a server may send and any backoff factors.                               *)
(***************************************************************************)
EXTENDS AmvpPolling, TLAPS

(* Whatever period amvp_retry_handler() is given, it sleeps more than       *)
(* AMVP_RETRY_TIME_MIN and at most AMVP_RETRY_TIME_MAX.                      *)
LEMMA SleepPeriodRange ==
    ASSUME NEW w \in Nat, NEW p \in Int
    PROVE  /\ SleepPeriod(w, p) \in Int
           /\ AMVP_RETRY_TIME_MIN < SleepPeriod(w, p)
           /\ SleepPeriod(w, p) <= AMVP_RETRY_TIME_MAX
<1>1. ClampedPeriod(w, p) \in Int
  BY RetryConstants DEF ClampedPeriod
<1> QED
  BY <1>1, RetryConstants DEF SleepPeriod

(* The period amvp_retry_handler() counts and leaves behind is at least the *)
(* one slept, at most AMVP_RETRY_TIME_MAX, and the one slept without        *)
(* backoff.                                                                 *)
LEMMA BackoffRange ==
    ASSUME NEW p \in Nat, p <= AMVP_RETRY_TIME_MAX, NEW m \in Int
    PROVE  /\ Backoff(p, m) \in Nat
           /\ p <= Backoff(p, m)
           /\ Backoff(p, m) <= AMVP_RETRY_TIME_MAX
           /\ m = 1 => Backoff(p, m) = p
<1> DEFINE k == IF m < 1 \/ m > AMVP_RETRY_MODIFIER_MAX THEN 1 ELSE m
<1>1. k \in Nat /\ k >= 1
  BY RetryConstants
<1>2. p * k \in Nat /\ p * k >= p
  <2> HIDE DEF k
  <2>1. PICK j \in Nat : k = j + 1
    BY <1>1
  <2>2. p * k = p * j + p /\ p * j \in Nat
    BY <2>1
  <2> QED BY <2>2
<1>3. m = 1 => k = 1 /\ p * k = p
  BY RetryConstants
<1>4. Backoff(p, m) = IF p * k > AMVP_RETRY_TIME_MAX THEN AMVP_RETRY_TIME_MAX ELSE p * k
  BY DEF Backoff
<1> HIDE DEF k
<1> QED
  BY <1>2, <1>3, <1>4, RetryConstants

(* The inductive invariant: the counters are tied to each other, and        *)
(* without backoff the time counted is the time slept.                      *)
IInv ==
    /\ TypeOK
    /\ WaitOverrunBounded
    /\ SleepsBounded
    /\ modifier = 1 => slept = waited

(* The loops start with nothing slept or counted.                           *)
LEMMA InitIInv == Init => IInv
  BY RetryConstants, PollingConstants
     DEF Init, IInv, TypeOK, WaitOverrunBounded, SleepsBounded, Situations

(* Every step of a polling loop keeps the counters tied.                    *)
LEMMA NextIInv == IInv /\ [Next]_vars => IInv'
<1> SUFFICES ASSUME IInv, [Next]_vars PROVE IInv'
  OBVIOUS
<1> USE RetryConstants, PollingConstants
<1>1. CASE NotReady
  BY <1>1 DEF NotReady, IInv, TypeOK, WaitOverrunBounded, SleepsBounded
<1>2. CASE Ready
  BY <1>2 DEF Ready, IInv, TypeOK, WaitOverrunBounded, SleepsBounded
<1>3. CASE PollFails
  BY <1>3 DEF PollFails, IInv, TypeOK, WaitOverrunBounded, SleepsBounded
<1>4. CASE HandlerRefuses
  BY <1>4 DEF HandlerRefuses, IInv, TypeOK, WaitOverrunBounded, SleepsBounded
<1>5. CASE HandlerSleeps
  <2> DEFINE p == SleepPeriod(waited, period)
             b == Backoff(p, modifier)
  <2>1. /\ waited \in Nat /\ slept \in Nat /\ sleeps \in Nat
        /\ period \in Int /\ modifier \in Int
        /\ waited < AMVP_MAX_WAIT_TIME
        /\ slept <= waited
        /\ sleeps * (AMVP_RETRY_TIME_MIN + 1) <= waited
        /\ modifier = 1 => slept = waited
    BY <1>5 DEF HandlerSleeps, WaitExhausted, IInv, TypeOK, WaitOverrunBounded, SleepsBounded
  <2>2. p \in Nat /\ AMVP_RETRY_TIME_MIN + 1 <= p /\ p <= AMVP_RETRY_TIME_MAX
    <3>1. p \in Int /\ AMVP_RETRY_TIME_MIN < p /\ p <= AMVP_RETRY_TIME_MAX
      BY <2>1, SleepPeriodRange, Zenon
    <3> HIDE DEF p
    <3> QED BY <3>1
  <2>3. /\ b \in Nat /\ p <= b /\ b <= AMVP_RETRY_TIME_MAX
        /\ modifier = 1 => b = p
    <3> HIDE DEF p
    <3> QED BY <2>1, <2>2, BackoffRange
  <2>4. /\ slept' = slept + p /\ period' = b /\ waited' = waited + b
        /\ sleeps' = sleeps + 1 /\ pc' = "get"
        /\ UNCHANGED <<situation, modifier, rv>>
    BY <1>5 DEF HandlerSleeps
  <2> HIDE DEF p, b
  <2>5. sleeps' * (AMVP_RETRY_TIME_MIN + 1)
          = sleeps * (AMVP_RETRY_TIME_MIN + 1) + (AMVP_RETRY_TIME_MIN + 1)
    <3>1. sleeps' = sleeps + 1 /\ sleeps \in Nat /\ AMVP_RETRY_TIME_MIN \in Nat
      BY <2>1, <2>4
    <3> QED BY <3>1
  <2>6. SleepsBounded'
    <3>1. sleeps * (AMVP_RETRY_TIME_MIN + 1) \in Int
      BY <2>1
    <3> QED BY <3>1, <2>1, <2>2, <2>3, <2>4, <2>5 DEF SleepsBounded
  <2>7. WaitOverrunBounded'
    BY <2>1, <2>2, <2>3, <2>4 DEF WaitOverrunBounded
  <2>8. TypeOK'
    BY <2>1, <2>2, <2>3, <2>4 DEF TypeOK, IInv
  <2>9. modifier' = 1 => slept' = waited'
    BY <2>1, <2>3, <2>4
  <2> QED BY <2>6, <2>7, <2>8, <2>9 DEF IInv
<1>6. CASE Returned
  BY <1>6 DEF Returned, vars, IInv, TypeOK, WaitOverrunBounded, SleepsBounded
<1>7. CASE UNCHANGED vars
  BY <1>7 DEF vars, IInv, TypeOK, WaitOverrunBounded, SleepsBounded
<1> QED
  BY <1>1, <1>2, <1>3, <1>4, <1>5, <1>6, <1>7 DEF Next

(* The inductive invariant holds of every behaviour of the loops.           *)
LEMMA Invariance == Spec => []IInv
  BY InitIInv, NextIInv, PTL DEF Spec

(* The types, in particular that waited_so_far stays below the value where  *)
(* the unsigned sum in amvp_retry_handler() would wrap.                     *)
THEOREM TypeCorrect == Spec => []TypeOK
<1>1. IInv => TypeOK
  BY DEF IInv
<1> QED BY <1>1, Invariance, PTL

(* The time slept overruns AMVP_MAX_WAIT_TIME by less than one              *)
(* AMVP_RETRY_TIME_MAX, for any periods sent by the server.                 *)
LEMMA OverrunBounded == Spec => []WaitOverrunBounded
<1>1. IInv => WaitOverrunBounded
  BY DEF IInv
<1> QED BY <1>1, Invariance, PTL

(* The number of sleeps, hence of polls, of one loop is bounded.            *)
LEMMA PollsBounded == Spec => []SleepsBounded
<1>1. IInv => SleepsBounded
  BY DEF IInv
<1> QED BY <1>1, Invariance, PTL

(* A loop is bounded in the time it sleeps and in the polls it makes, for   *)
(* all constants and all periods.                                           *)
THEOREM BoundedWait == Spec => []WaitIsBounded
  BY OverrunBounded, PollsBounded, PTL DEF WaitIsBounded

(* amvp_retry_handler() refuses only after the full wait.                   *)
THEOREM FullWaitBeforeGivingUp == Spec => GivesUpOnlyAfterFullWait
<1> DEFINE A == pc = "handler" /\ pc' = "done" =>
                  /\ rv' = "AMVP_TRANSPORT_FAIL"
                  /\ modifier = 1 => slept >= AMVP_MAX_WAIT_TIME
<1>1. IInv /\ [Next]_vars => [A]_vars
  <2> SUFFICES ASSUME IInv, Next, pc = "handler", pc' = "done"
               PROVE  /\ rv' = "AMVP_TRANSPORT_FAIL"
                      /\ modifier = 1 => slept >= AMVP_MAX_WAIT_TIME
    OBVIOUS
  <2>1. HandlerRefuses
    BY DEF Next, NotReady, Ready, PollFails, HandlerSleeps, Returned
  <2> QED
    BY <2>1 DEF HandlerRefuses, WaitExhausted, IInv
<1> QED
  BY <1>1, Invariance, PTL DEF Spec, GivesUpOnlyAfterFullWait

(* What a polling loop still has before it: the seconds that may be counted *)
(* and the steps to the end of this poll.                                   *)
Left(w)   == IF WaitExhausted(w) THEN 0 ELSE AMVP_MAX_WAIT_TIME - w
PollLeft(where) == IF where = "get" THEN 2 ELSE IF where = "handler" THEN 1 ELSE 0
StepsLeft == 3 * Left(waited) + PollLeft(pc)
Nearer == StepsLeft \in Nat /\ StepsLeft' \in Nat /\ StepsLeft' < StepsLeft

(* Time that is counted is lost.                                            *)
LEMMA LeftFalls ==
    ASSUME NEW w \in Nat
    PROVE  /\ Left(w) \in Nat
           /\ \A b \in Nat : ~WaitExhausted(w) /\ b >= 1 => Left(w + b) \in Nat /\ Left(w + b) < Left(w)
  BY RetryConstants DEF Left, WaitExhausted

(* The safety half of PollingTerminates, for all constants: whatever        *)
(* periods the server sends, every step brings the loop nearer to its end,  *)
(* since amvp_retry_handler() never counts a sleep as nothing.  It follows  *)
(* that a loop has at most 3 * AMVP_MAX_WAIT_TIME + 2 steps.                *)
THEOREM PollingAdvances == Spec => [][Nearer]_vars
<1>1. IInv /\ [Next]_vars => [Nearer]_vars
  <2> SUFFICES ASSUME IInv, Next, ~UNCHANGED vars
               PROVE  StepsLeft \in Nat /\ StepsLeft' \in Nat /\ StepsLeft' < StepsLeft
    BY DEF Nearer
  <2> DEFINE t == Left(waited)
             u == Left(waited')
             p == PollLeft(pc)
             q == PollLeft(pc')
  <2>1. waited \in Nat /\ period \in Int /\ modifier \in Int
    BY PollingConstants DEF IInv, TypeOK
  <2>2. t \in Nat /\ p \in Nat /\ StepsLeft = 3 * t + p /\ StepsLeft' = 3 * u + q
    BY <2>1, LeftFalls DEF StepsLeft, PollLeft
  <2>3. CASE NotReady \/ Ready \/ PollFails \/ HandlerRefuses
    <3>1. u = t /\ q \in Nat /\ q < p
      BY <2>3 DEF NotReady, Ready, PollFails, HandlerRefuses, PollLeft
    <3> HIDE DEF t, u, p, q
    <3>2. 3 * t + p \in Nat /\ 3 * u + q \in Nat /\ 3 * u + q < 3 * t + p
      BY <2>2, <3>1
    <3> QED BY <2>2, <3>2, Zenon
  <2>4. CASE HandlerSleeps
    <3> DEFINE s == SleepPeriod(waited, period)
               b == Backoff(s, modifier)
    <3>1. s \in Nat /\ 1 <= s /\ s <= AMVP_RETRY_TIME_MAX
      <4>1. s \in Int /\ AMVP_RETRY_TIME_MIN < s /\ s <= AMVP_RETRY_TIME_MAX
        BY <2>1, SleepPeriodRange, Zenon
      <4> HIDE DEF s
      <4> QED BY <4>1, RetryConstants
    <3>2. b \in Nat /\ 1 <= b
      <4> HIDE DEF s
      <4>1. b \in Nat /\ s <= b
        BY <2>1, <3>1, BackoffRange
      <4> QED BY <3>1, <4>1
    <3>3. waited' = waited + b /\ ~WaitExhausted(waited) /\ p = 1 /\ q = 2
      BY <2>4 DEF HandlerSleeps, PollLeft
    <3> HIDE DEF s, b
    <3>4. u \in Nat /\ u < t
      BY <2>1, <3>2, <3>3, LeftFalls
    <3> HIDE DEF t, u, p, q
    <3>5. 3 * t + p \in Nat /\ 3 * u + q \in Nat /\ 3 * u + q < 3 * t + p
      BY <2>2, <3>3, <3>4
    <3> QED BY <2>2, <3>5, Zenon
  <2> QED BY <2>3, <2>4 DEF Next, Returned
<1> QED BY <1>1, Invariance, PTL DEF Spec
================================================================================
