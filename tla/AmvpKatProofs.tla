---------------------------- MODULE AmvpKatProofs ----------------------------
(***************************************************************************)
(* Proofs about AmvpKat, for the tables of any handlers.                   *)
(***************************************************************************)
EXTENDS AmvpKatChecks, WellFoundedInduction, TLAPS

(* A set of natural numbers that is not empty has a least element.         *)
LEMMA Least ==
    ASSUME NEW S \in SUBSET Nat, S # {}
    PROVE  \E x \in S : \A y \in S : x <= y
<1>1. \E x \in S : \A y \in S : ~(<<y, x>> \in OpToRel(<, Nat))
  BY WFMin, NatLessThanWellFounded
<1>2. \A x, y \in S : <<y, x>> \in OpToRel(<, Nat) <=> y < x
  BY DEF OpToRel
<1>3. \E x \in S : \A y \in S : ~(y < x)
  BY <1>1, <1>2, Zenon
<1> HIDE <1>1, <1>2
<1> QED BY <1>3

(* The first n statements of init_tc() have outcomes.                      *)
Outcomes(init, e, fail, n, g) ==
    g = [i \in 0..n |-> IF i = 0 THEN [rv |-> "AMVP_SUCCESS", live |-> {}]
                        ELSE InitStep(g[i - 1], init[i], e, i = fail)]

LEMMA OutcomesNext ==
    ASSUME NEW init, NEW e, NEW fail, NEW n \in Nat, NEW g, Outcomes(init, e, fail, n, g)
    PROVE  \E h : Outcomes(init, e, fail, n + 1, h)
<1> DEFINE last == InitStep(g[n], init[n + 1], e, n + 1 = fail)
           h == [i \in 0..(n + 1) |-> IF i = n + 1 THEN last ELSE g[i]]
<1> HIDE DEF last
<1>1. ASSUME NEW i \in 0..(n + 1)
      PROVE  h[i] = IF i = 0 THEN [rv |-> "AMVP_SUCCESS", live |-> {}]
                    ELSE InitStep(h[i - 1], init[i], e, i = fail)
  <2>1. CASE i = n + 1
    BY <2>1 DEF last
  <2>2. CASE i # n + 1
    <3>1. i \in 0..n /\ h[i] = g[i] /\ (i # 0 => h[i - 1] = g[i - 1])
      BY <2>2
    <3>2. g[i] = IF i = 0 THEN [rv |-> "AMVP_SUCCESS", live |-> {}]
                 ELSE InitStep(g[i - 1], init[i], e, i = fail)
      BY <3>1 DEF Outcomes
    <3> HIDE DEF h
    <3> QED BY <3>1, <3>2
  <2> QED BY <2>1, <2>2
<1>2. h = [i \in 0..(n + 1) |-> h[i]]
  OBVIOUS
<1> HIDE DEF h
<1>3. Outcomes(init, e, fail, n + 1, h)
  BY <1>1, <1>2 DEF Outcomes
<1> QED BY <1>3

LEMMA OutcomesExist ==
    ASSUME NEW init, NEW e, NEW fail, NEW n \in Nat
    PROVE  \E g : Outcomes(init, e, fail, n, g)
<1> DEFINE T == {m \in Nat : ~ \E g : Outcomes(init, e, fail, m, g)}
<1>1. SUFFICES ASSUME T # {} PROVE FALSE
  OBVIOUS
<1>2. PICK m \in T : \A y \in T : m <= y
  BY <1>1, Least
<1>3. CASE m = 0
  <2>1. Outcomes(init, e, fail, 0, [i \in 0..0 |-> [rv |-> "AMVP_SUCCESS", live |-> {}]])
    BY DEF Outcomes
  <2> QED BY <1>2, <1>3, <2>1
<1>4. CASE m # 0
  <2>1. m - 1 \in Nat /\ m - 1 \notin T /\ (m - 1) + 1 = m
    BY <1>2, <1>4
  <2>2. PICK g : Outcomes(init, e, fail, m - 1, g)
    BY <2>1
  <2>3. \E h : Outcomes(init, e, fail, m, h)
    BY <2>1, <2>2, OutcomesNext
  <2> QED BY <1>2, <2>3
<1> QED BY <1>3, <1>4

(* One statement of init_tc() adds at most its own buffer.                 *)
LEMMA InitStepLive ==
    ASSUME NEW acc, NEW step, NEW e, NEW fails
    PROVE  \A b \in InitStep(acc, step, e, fails).live :
             b \in acc.live \/ (step.op \in {"alloc", "held"} /\ b = step.buf)
  BY DEF InitStep

(* init_tc() leaves only buffers that one of its statements allocates.     *)
LEMMA InitRunLive ==
    ASSUME NEW init, NEW e, NEW fail, Len(init) \in Nat, DOMAIN init = 1..Len(init)
    PROVE  InitRun(init, e, fail).live \subseteq Allocated(init)
<1>1. InitRun(init, e, fail) = (CHOOSE g : Outcomes(init, e, fail, Len(init), g))[Len(init)]
  BY Zenon DEF InitRun, Outcomes
<1>2. PICK g : Outcomes(init, e, fail, Len(init), g) /\ InitRun(init, e, fail) = g[Len(init)]
  BY <1>1, OutcomesExist, Zenon
<1> DEFINE T == {m \in 0..Len(init) : ~(g[m].live \subseteq Allocated(init))}
<1>3. SUFFICES ASSUME T # {} PROVE FALSE
  BY <1>2
<1>4. PICK m \in T : \A y \in T : m <= y
  <2>1. T \in SUBSET Nat
    OBVIOUS
  <2> QED BY <1>3, <2>1, Least
<1>5. CASE m = 0
  BY <1>2, <1>4, <1>5 DEF Outcomes
<1>6. CASE m # 0
  <2>1. m \in 1..Len(init) /\ m - 1 \in 0..Len(init) /\ m - 1 \notin T
    BY <1>4, <1>6
  <2>2. g[m] = InitStep(g[m - 1], init[m], e, m = fail)
    <3>1. m \in 0..Len(init)
      BY <2>1
    <3>2. g[m] = IF m = 0 THEN [rv |-> "AMVP_SUCCESS", live |-> {}]
                 ELSE InitStep(g[m - 1], init[m], e, m = fail)
      BY <1>2, <3>1 DEF Outcomes
    <3> QED BY <1>6, <3>2, Zenon
  <2>3. g[m - 1].live \subseteq Allocated(init)
    BY <2>1
  <2>4. init[m].op \in {"alloc", "held"} => init[m].buf \in Allocated(init)
    BY <2>1 DEF Allocated
  <2>5. g[m].live \subseteq Allocated(init)
    BY <2>2, <2>3, <2>4, InitStepLive
  <2> QED BY <1>4, <2>5
<1> QED BY <1>5, <1>6

(***************************************************************************)
(* SuccessMeansAnswered.  The number of tests and of groups that were      *)
(* appended follows the loops; the result is that of a success until the   *)
(* function returns.                                                       *)
(***************************************************************************)
InTest == pc \in {"init", "crypto", "output"}
CountInv ==
    /\ handler \in DOMAIN Handlers
    /\ pc \in {"start", "group", "test", "done", "crashed"} \/ InTest
    /\ group \in Nat /\ test \in Nat /\ tests \in Nat /\ groups \in Seq(Nat)
    /\ pc = "start" => group = 0 /\ groups = <<>> /\ test = 0 /\ tests = 0
    /\ pc \in {"group", "test"} => tests = test
    /\ InTest => test = tests + 1
    /\ pc = "group" \/ katResp = "whole" => Len(groups) = group
    /\ pc = "test" \/ InTest => group = Len(groups) + 1
    /\ katResp = "whole" => pc = "done" /\ rv = "AMVP_SUCCESS"
    /\ pc = "done" /\ rv = "AMVP_SUCCESS" => katResp = "whole"

(* The codes of the errors.                                                *)
LEMMA ErrorCodes ==
    ASSUME handler \in DOMAIN Handlers
    PROVE  /\ \A code \in H.refused \cup H.late \cup {H.noTgId, H.noTests} \cup {H.mctCode} : code # "AMVP_SUCCESS"
           /\ MALLOC_FAIL # "AMVP_SUCCESS" /\ INVALID_ARG # "AMVP_SUCCESS"
  BY HandlersAssumption DEF H, MALLOC_FAIL, INVALID_ARG

LEMMA CountInit == Init => CountInv
  BY DEF Init, CountInv, InTest

LEMMA CountStep == CountInv /\ [Next]_vars => CountInv'
<1> SUFFICES ASSUME CountInv, [Next]_vars PROVE CountInv'
  OBVIOUS
<1> USE DEF CountInv, InTest
<1>0. /\ handler \in DOMAIN Handlers
      /\ \A code \in H.refused \cup H.late \cup {H.noTgId, H.noTests} \cup {H.mctCode} : code # "AMVP_SUCCESS"
      /\ MALLOC_FAIL # "AMVP_SUCCESS" /\ INVALID_ARG # "AMVP_SUCCESS"
  BY ErrorCodes
<1>1. CASE Refuse
  BY <1>0, <1>1 DEF Refuse, Return, answer
<1>2. CASE Setup
  BY <1>0, <1>2 DEF Setup, Err, Return, locals
<1>3. CASE BeginGroup
  BY <1>0, <1>3 DEF BeginGroup, Err, Return
<1>4. CASE BeginTest
  BY <1>0, <1>4 DEF BeginTest, Err, Return, answer
<1>5. CASE InitTc
  BY <1>0, <1>5 DEF InitTc, locals, answer
<1>6. CASE InitTcFails
  BY <1>0, <1>6 DEF InitTcFails, Cleanup, Err, Return, answer
<1>7. CASE InitTcIgnored
  BY <1>0, <1>7 DEF InitTcIgnored, locals, answer
<1>8. CASE InitTcRefuses
  BY <1>0, <1>8 DEF InitTcRefuses, Cleanup, Err, Return, answer
<1>9. CASE InitTcCrashes
  BY <1>0, <1>9 DEF InitTcCrashes, locals, answer
<1>10. CASE Crypto
  BY <1>0, <1>10 DEF Crypto, locals, answer
<1>11. CASE CryptoFails
  BY <1>0, <1>11 DEF CryptoFails, Cleanup, Err, Return, answer
<1>12. CASE OutputTc
  BY <1>0, <1>12 DEF OutputTc
<1>13. CASE OutputTcFails
  BY <1>0, <1>13 DEF OutputTcFails, Cleanup, Err, Return, answer
<1>14. CASE EndGroup
  BY <1>0, <1>14 DEF EndGroup
<1>15. CASE Finish
  BY <1>0, <1>15 DEF Finish, Return
<1>16. CASE Stopped
  BY <1>0, <1>16 DEF Stopped, vars
<1>17. CASE UNCHANGED vars
  BY <1>17 DEF vars
<1>18. CASE EmptyTest
  BY <1>0, <1>18 DEF EmptyTest, locals
<1>19. CASE NextPart
  <2>1. \A i \in DOMAIN H.test : "AMVP_SUCCESS" \notin {H.test[i].absent, H.test[i].bad}
    BY <1>0, TablesAssumption DEF WellFormed, H
  <2> QED BY <1>0, <1>19, <2>1 DEF NextPart, Err, Return, answer
<1> QED BY <1>1, <1>2, <1>3, <1>4, <1>5, <1>6, <1>7, <1>8, <1>9, <1>10, <1>11, <1>12, <1>13, <1>14,
       <1>15, <1>16, <1>17, <1>18, <1>19 DEF Next

(* SuccessMeansAnswered: a handler returns AMVP_SUCCESS exactly when it    *)
(* has put an answer to every group it read into ctx->kat_resp, and a      *)
(* group only with an answer to every test, whatever the vector set holds  *)
(* and whatever fails.                                                     *)
THEOREM AnswersComplete == Spec => []SuccessMeansAnswered
<1>1. CountInv => SuccessMeansAnswered
  BY DEF CountInv, SuccessMeansAnswered
<1> QED BY <1>1, CountInit, CountStep, PTL DEF Spec

(***************************************************************************)
(* NothingLeaked.  Which response objects the handler owns follows from    *)
(* where it is; between two tests the structure holds no buffer but those  *)
(* that are known to be lost.                                              *)
(***************************************************************************)
LeakInv ==
    /\ handler \in DOMAIN Handlers
    /\ pc \in {"start", "group", "test", "init", "crypto", "output", "done", "crashed"}
    /\ pc = "start" => live = {} /\ json = {}
    /\ pc = "group" => json = {"r_vs_val"}
    /\ pc = "test" => json = {"r_vs_val", "r_gval"}
    /\ pc \in {"init", "crypto", "output"} => json = {"r_vs_val", "r_gval", "r_tval"}
    /\ pc \in {"group", "test", "init"} => live \subseteq H.leaks
    /\ pc \in {"crypto", "output"} => live \subseteq Allocated(H.init)
    /\ pc = "done" => live \cup json \subseteq H.leaks

(* What the tables say about the buffers.                                  *)
LEMMA TableLeaks ==
    ASSUME handler \in DOMAIN Handlers
    PROVE  /\ Allocated(H.init) \subseteq H.frees \cup H.leaks
           /\ \A p \in {H.onInit, H.onCrypto, H.onOutput} :
                /\ "release" \in p \/ Allocated(H.init) \subseteq H.leaks
                /\ "free" \in p \/ "r_tval" \in H.leaks
           /\ H.lost = {} \/ "r_tval" \in H.leaks
           /\ H.mctLost \subseteq H.leaks
  BY HandlersAssumption DEF H

(* What init_tc() allocates, also when it fails.                           *)
LEMMA InitRunsLive ==
    ASSUME handler \in DOMAIN Handlers
    PROVE  /\ InitRun(H.init, env, 0).live \subseteq Allocated(H.init)
           /\ \A run \in InitRuns : run.live \subseteq Allocated(H.init)
<1>1. Len(H.init) \in Nat /\ DOMAIN H.init = 1..Len(H.init)
  BY HandlersAssumption DEF H
<1> QED BY <1>1, InitRunLive DEF InitRuns

(* A failure in the middle of a test loses nothing else.                   *)
LEMMA CleanupLeaves ==
    ASSUME handler \in DOMAIN Handlers, NEW policy \in {H.onInit, H.onCrypto, H.onOutput}, NEW code,
           NEW allocated, NEW state, allocated \subseteq H.leaks \cup Allocated(H.init),
           json = {"r_vs_val", "r_gval", "r_tval"}, Cleanup(policy, code, allocated, state)
    PROVE  pc' = "done" /\ live' \cup json' \subseteq H.leaks
<1>1. pc' = "done" /\ json' \subseteq H.leaks
  BY TableLeaks DEF Cleanup, Err, Return
<1>2. live' \subseteq H.leaks
  BY TableLeaks DEF Cleanup
<1> QED BY <1>1, <1>2

LEMMA LeakInit == Init => LeakInv
  BY DEF Init, LeakInv

LEMMA LeakStep == LeakInv /\ [Next]_vars => LeakInv'
<1> SUFFICES ASSUME LeakInv, [Next]_vars PROVE LeakInv'
  OBVIOUS
<1> USE DEF LeakInv
<1>0. handler \in DOMAIN Handlers /\ handler' = handler /\ H' = H
  BY DEF H, Next, vars, Refuse, Setup, BeginGroup, BeginTest, EmptyTest, InitTc, InitTcFails, InitTcIgnored,
         InitTcRefuses, InitTcCrashes, Crypto, CryptoFails, OutputTc, NextPart, OutputTcFails, EndGroup, Finish, Stopped
<1>1. CASE Refuse
  BY <1>0, <1>1 DEF Refuse, Return
<1>2. CASE Setup
  BY <1>0, <1>2 DEF Setup, Err, Return
<1>3. CASE BeginGroup
  BY <1>0, <1>3 DEF BeginGroup, Err, Return
<1>4. CASE BeginTest
  BY <1>0, <1>4, TableLeaks DEF BeginTest, Err, Return
<1>5. CASE InitTc
  BY <1>0, <1>5, InitRunsLive DEF InitTc
<1>6. CASE InitTcFails
  <2>1. pc' = "done" /\ live' \cup json' \subseteq H.leaks
    BY <1>0, <1>6, CleanupLeaves, InitRunsLive DEF InitTcFails
  <2> QED BY <1>0, <2>1
<1>7. CASE InitTcIgnored
  BY <1>0, <1>7, InitRunsLive DEF InitTcIgnored
<1>8. CASE InitTcRefuses
  <2>1. pc' = "done" /\ live' \cup json' \subseteq H.leaks
    BY <1>0, <1>8, CleanupLeaves DEF InitTcRefuses
  <2> QED BY <1>0, <2>1
<1>9. CASE InitTcCrashes
  BY <1>0, <1>9 DEF InitTcCrashes
<1>10. CASE Crypto
  BY <1>0, <1>10 DEF Crypto
<1>11. CASE CryptoFails
  <2>1. pc' = "done" /\ live' \cup json' \subseteq H.leaks
    BY <1>0, <1>11, CleanupLeaves DEF CryptoFails
  <2> QED BY <1>0, <2>1
<1>12. CASE OutputTc
  BY <1>0, <1>12, TableLeaks DEF OutputTc
<1>13. CASE OutputTcFails
  <2>1. ASSUME NEW lost, lost \subseteq H.leaks
        PROVE  live \cup lost \subseteq H.leaks \cup Allocated(H.init)
    BY <1>0, <1>13, <2>1 DEF OutputTcFails
  <2>2. {} \subseteq H.leaks /\ H.mctLost \subseteq H.leaks /\ live \cup {} = live
    BY <1>0, TableLeaks
  <2>3. pc' = "done" /\ live' \cup json' \subseteq H.leaks
    BY <1>0, <1>13, <2>1, <2>2, CleanupLeaves DEF OutputTcFails
  <2> QED BY <1>0, <2>3
<1>14. CASE EndGroup
  BY <1>0, <1>14 DEF EndGroup
<1>15. CASE Finish
  BY <1>0, <1>15 DEF Finish, Return
<1>16. CASE Stopped
  BY <1>0, <1>16 DEF Stopped, vars
<1>17. CASE UNCHANGED vars
  BY <1>0, <1>17 DEF vars
<1>18. CASE EmptyTest
  BY <1>0, <1>18 DEF EmptyTest
<1>19. CASE NextPart
  <2>1. /\ pc = "output" /\ live' = live \ H.frees
        /\ (pc' = "init" /\ json' = json) \/ (pc' = "done" /\ json' = {})
    BY <1>0, <1>19 DEF NextPart, Err, Return
  <2> QED BY <1>0, <2>1, TableLeaks
<1> QED BY <1>1, <1>2, <1>3, <1>4, <1>5, <1>6, <1>7, <1>8, <1>9, <1>10, <1>11, <1>12, <1>13, <1>14,
       <1>15, <1>16, <1>17, <1>18, <1>19 DEF Next

(* NothingLeaked: release_tc() frees what init_tc() has allocated and no   *)
(* response object is lost, on every path and for every point at which an  *)
(* allocation, a conversion or the crypto module fails, apart from what    *)
(* the table lists.                                                        *)
THEOREM LeaksListed == Spec => []NothingLeaked
<1>1. LeakInv => NothingLeaked
  BY DEF LeakInv, NothingLeaked
<1> QED BY <1>1, LeakInit, LeakStep, PTL DEF Spec

(***************************************************************************)
(* AnswersAreComputed.  First what reading the fields does: a variable     *)
(* that no statement assigns keeps its value, and a required field that    *)
(* was not refused has one of its legal values.                            *)
(***************************************************************************)
Reading(steps, e, old, in, n, g) ==
    g = [i \in 0..n |-> IF i = 0 THEN [rv |-> "AMVP_SUCCESS", env |-> e, stale |-> old, used |-> {}]
                        ELSE ReadStep(g[i - 1], steps[i], in)]

LEMMA ReadingNext ==
    ASSUME NEW steps, NEW e, NEW old, NEW in, NEW n \in Nat, NEW g, Reading(steps, e, old, in, n, g)
    PROVE  \E h : Reading(steps, e, old, in, n + 1, h)
<1> DEFINE last == ReadStep(g[n], steps[n + 1], in)
           h == [i \in 0..(n + 1) |-> IF i = n + 1 THEN last ELSE g[i]]
<1> HIDE DEF last
<1>1. ASSUME NEW i \in 0..(n + 1)
      PROVE  h[i] = IF i = 0 THEN [rv |-> "AMVP_SUCCESS", env |-> e, stale |-> old, used |-> {}]
                    ELSE ReadStep(h[i - 1], steps[i], in)
  <2>1. CASE i = n + 1
    BY <2>1 DEF last
  <2>2. CASE i # n + 1
    <3>1. i \in 0..n /\ h[i] = g[i] /\ (i # 0 => h[i - 1] = g[i - 1])
      BY <2>2
    <3>2. g[i] = IF i = 0 THEN [rv |-> "AMVP_SUCCESS", env |-> e, stale |-> old, used |-> {}]
                 ELSE ReadStep(g[i - 1], steps[i], in)
      BY <3>1 DEF Reading
    <3> HIDE DEF h
    <3> QED BY <3>1, <3>2
  <2> QED BY <2>1, <2>2
<1>2. h = [i \in 0..(n + 1) |-> h[i]]
  OBVIOUS
<1> HIDE DEF h
<1>3. Reading(steps, e, old, in, n + 1, h)
  BY <1>1, <1>2 DEF Reading
<1> QED BY <1>3

LEMMA ReadingExists ==
    ASSUME NEW steps, NEW e, NEW old, NEW in, NEW n \in Nat
    PROVE  \E g : Reading(steps, e, old, in, n, g)
<1> DEFINE T == {m \in Nat : ~ \E g : Reading(steps, e, old, in, m, g)}
<1>1. SUFFICES ASSUME T # {} PROVE FALSE
  OBVIOUS
<1>2. PICK m \in T : \A y \in T : m <= y
  BY <1>1, Least
<1>3. CASE m = 0
  <2>1. Reading(steps, e, old, in, 0,
                [i \in 0..0 |-> [rv |-> "AMVP_SUCCESS", env |-> e, stale |-> old, used |-> {}]])
    BY DEF Reading
  <2> QED BY <1>2, <1>3, <2>1
<1>4. CASE m # 0
  <2>1. m - 1 \in Nat /\ m - 1 \notin T /\ (m - 1) + 1 = m
    BY <1>2, <1>4
  <2>2. PICK g : Reading(steps, e, old, in, m - 1, g)
    BY <2>1
  <2>3. \E h : Reading(steps, e, old, in, m, h)
    BY <2>1, <2>2, ReadingNext
  <2> QED BY <1>2, <2>3
<1> QED BY <1>3, <1>4

IsReading(acc) == DOMAIN acc = {"rv", "env", "stale", "used"}

(* What one statement does.                                                *)
ReadOne(acc, step, next) ==
    /\ IsReading(next) /\ next.env = [x \in DOMAIN acc.env |-> next.env[x]]
    /\ \A v \in DOMAIN acc.env : v # step.v => next.env[v] = acc.env[v]
    /\ next.rv = "AMVP_SUCCESS" => acc.rv = "AMVP_SUCCESS"
    /\ (/\ next.rv = "AMVP_SUCCESS" /\ step.v \in DOMAIN acc.env
        /\ step.input /\ step.when = {} /\ ~step.keep
        /\ {step.absent, step.bad} \cap {TAKEN, "AMVP_SUCCESS"} = {})
       => next.env[step.v] \in step.legal

LEMMA ReadStepFacts ==
    ASSUME NEW acc, NEW step, NEW in, IsReading(acc), acc.env = [x \in DOMAIN acc.env |-> acc.env[x]]
    PROVE  ReadOne(acc, step, ReadStep(acc, step, in))
<1> DEFINE v == IF ~step.input THEN step.value ELSE IF in[step.f] = "none" THEN "absent" ELSE in[step.f]
           code == IF v = "absent" THEN step.absent ELSE IF v \in step.legal THEN TAKEN ELSE step.bad
           seen == [acc EXCEPT !.used = @ \cup (Reads(step.when) \cap acc.stale)]
           next == ReadStep(acc, step, in)
<1>1. next = IF acc.rv # "AMVP_SUCCESS" THEN acc
             ELSE IF ~Holds(step.when, acc.env) THEN seen
             ELSE IF code # TAKEN THEN [seen EXCEPT !.rv = code]
             ELSE IF step.keep /\ v \notin step.legal THEN seen
             ELSE [seen EXCEPT !.env[step.v] = v, !.stale = @ \ {step.v}]
  BY Zenon DEF ReadStep
<1>2. step.when = {} => Holds(step.when, acc.env)
  BY DEF Holds
<1>3. (step.input /\ {step.absent, step.bad} \cap {TAKEN, "AMVP_SUCCESS"} = {})
      => code # "AMVP_SUCCESS" /\ (code = TAKEN => v \in step.legal)
  BY DEF TAKEN
<1>4. IsReading(seen) /\ seen.env = acc.env /\ seen.rv = acc.rv
  BY DEF IsReading
<1> HIDE DEF v, code, seen
<1> SUFFICES ReadOne(acc, step, next)
  BY Zenon
<1> HIDE DEF next
<1>5. CASE acc.rv # "AMVP_SUCCESS"
  BY <1>1, <1>5 DEF ReadOne
<1>6. CASE acc.rv = "AMVP_SUCCESS" /\ ~Holds(step.when, acc.env)
  BY <1>1, <1>2, <1>4, <1>6 DEF ReadOne
<1>7. CASE acc.rv = "AMVP_SUCCESS" /\ Holds(step.when, acc.env) /\ code # TAKEN
  <2>1. next = [seen EXCEPT !.rv = code]
    BY <1>1, <1>7
  <2>2. IsReading(next) /\ next.rv = code /\ next.env = seen.env
    BY <1>4, <2>1 DEF IsReading
  <2> QED BY <1>3, <1>4, <1>7, <2>2 DEF ReadOne
<1>8. CASE acc.rv = "AMVP_SUCCESS" /\ Holds(step.when, acc.env) /\ code = TAKEN /\ step.keep /\ v \notin step.legal
  BY <1>1, <1>4, <1>8 DEF ReadOne
<1>9. CASE acc.rv = "AMVP_SUCCESS" /\ Holds(step.when, acc.env) /\ code = TAKEN /\ ~(step.keep /\ v \notin step.legal)
  <2>1. next = [seen EXCEPT !.env[step.v] = v, !.stale = @ \ {step.v}]
    BY <1>1, <1>9
  <2>2. IsReading(next) /\ next.rv = seen.rv /\ next.env = [seen.env EXCEPT ![step.v] = v]
    BY <1>4, <2>1 DEF IsReading
  <2> QED BY <1>3, <1>4, <1>9, <2>2 DEF ReadOne
<1> QED BY <1>5, <1>6, <1>7, <1>8, <1>9
(* What the first n statements do.                                         *)
ReadSome(steps, e, n, r) ==
    /\ IsReading(r) /\ r.env = [x \in DOMAIN e |-> r.env[x]]
    /\ \A v \in DOMAIN e : v \notin Names(steps) => r.env[v] = e[v]
    /\ r.rv = "AMVP_SUCCESS" =>
         \A i \in 1..n : Required(steps, i) /\ steps[i].v \in DOMAIN e => r.env[steps[i].v] \in steps[i].legal

LEMMA ReadSomeNext ==
    ASSUME NEW steps, NEW e, NEW in, Len(steps) \in Nat, DOMAIN steps = 1..Len(steps), NEW n \in 0..(Len(steps) - 1),
           NEW acc, ReadSome(steps, e, n, acc)
    PROVE  ReadSome(steps, e, n + 1, ReadStep(acc, steps[n + 1], in))
<1> DEFINE next == ReadStep(acc, steps[n + 1], in)
<1>1. DOMAIN acc.env = DOMAIN e /\ acc.env = [x \in DOMAIN acc.env |-> acc.env[x]] /\ IsReading(acc)
  BY DEF ReadSome
<1>2. ReadOne(acc, steps[n + 1], next)
  BY <1>1, ReadStepFacts
<1> SUFFICES ReadSome(steps, e, n + 1, next)
  BY Zenon
<1> HIDE DEF next
<1>3. IsReading(next) /\ next.env = [x \in DOMAIN e |-> next.env[x]]
  BY <1>1, <1>2 DEF ReadOne
<1>4. steps[n + 1].v \in Names(steps)
  BY DEF Names
<1>5. ASSUME NEW v \in DOMAIN e, v \notin Names(steps) PROVE next.env[v] = e[v]
  BY <1>1, <1>2, <1>4, <1>5 DEF ReadOne, ReadSome
<1>6. ASSUME next.rv = "AMVP_SUCCESS", NEW i \in 1..(n + 1), Required(steps, i), steps[i].v \in DOMAIN e
      PROVE  next.env[steps[i].v] \in steps[i].legal
  <2>1. CASE i = n + 1
    BY <1>1, <1>2, <1>6, <2>1 DEF ReadOne, Required
  <2>2. CASE i # n + 1
    <3>1. steps[n + 1].v # steps[i].v
      BY <1>6, <2>2 DEF Required
    <3>2. acc.rv = "AMVP_SUCCESS" /\ next.env[steps[i].v] = acc.env[steps[i].v]
      BY <1>1, <1>2, <1>6, <3>1 DEF ReadOne
    <3> QED BY <1>6, <2>2, <3>2 DEF ReadSome
  <2> QED BY <2>1, <2>2
<1> QED BY <1>3, <1>5, <1>6 DEF ReadSome

LEMMA ReadFieldsFacts ==
    ASSUME NEW steps, NEW e, NEW old, NEW in, Len(steps) \in Nat, DOMAIN steps = 1..Len(steps),
           e = [x \in DOMAIN e |-> e[x]]
    PROVE  ReadSome(steps, e, Len(steps), ReadFields(steps, e, old, in))
<1>1. ReadFields(steps, e, old, in) = (CHOOSE g : Reading(steps, e, old, in, Len(steps), g))[Len(steps)]
  BY Zenon DEF ReadFields, Reading
<1>2. PICK g : Reading(steps, e, old, in, Len(steps), g) /\ ReadFields(steps, e, old, in) = g[Len(steps)]
  BY <1>1, ReadingExists, Zenon
<1>3. \A m \in 0..Len(steps) :
        g[m] = IF m = 0 THEN [rv |-> "AMVP_SUCCESS", env |-> e, stale |-> old, used |-> {}]
               ELSE ReadStep(g[m - 1], steps[m], in)
  BY <1>2 DEF Reading
<1> DEFINE T == {m \in 0..Len(steps) : ~ReadSome(steps, e, m, g[m])}
<1>4. SUFFICES ASSUME T # {} PROVE FALSE
  BY <1>2
<1>5. PICK m \in T : \A y \in T : m <= y
  <2>1. T \in SUBSET Nat
    OBVIOUS
  <2> QED BY <1>4, <2>1, Least
<1>6. CASE m = 0
  <2>1. g[0] = [rv |-> "AMVP_SUCCESS", env |-> e, stale |-> old, used |-> {}]
    <3>1. 0 \in 0..Len(steps)
      OBVIOUS
    <3> QED BY <1>3, <3>1, Zenon
  <2>2. ReadSome(steps, e, 0, g[0])
    BY <2>1 DEF ReadSome, IsReading
  <2> QED BY <1>5, <1>6, <2>2
<1>7. CASE m # 0
  <2>1. m - 1 \in 0..(Len(steps) - 1) /\ m - 1 \notin T /\ (m - 1) + 1 = m
    BY <1>5, <1>7
  <2>2. ReadSome(steps, e, m - 1, g[m - 1])
    BY <2>1
  <2>3. ReadSome(steps, e, (m - 1) + 1, ReadStep(g[m - 1], steps[(m - 1) + 1], in))
    BY <2>1, <2>2, ReadSomeNext
  <2>4. g[m] = ReadStep(g[m - 1], steps[m], in)
    BY <1>3, <1>7
  <2> QED BY <1>5, <2>1, <2>3, <2>4
<1> QED BY <1>6, <1>7

(***************************************************************************)
(* The variables that decide on a failure have legal values from the head  *)
(* of the group to its end.                                                *)
(***************************************************************************)
DecidingInv ==
    /\ handler \in DOMAIN Handlers
    /\ pc \in {"start", "group", "test", "init", "crypto", "output", "done", "crashed"}
    /\ rounds \in Nat
    /\ env = [v \in F.variables |-> env[v]]
    /\ pc \notin {"done", "crashed"} => env["alg"] \in H.algs
    /\ pc \in {"test", "init", "crypto", "output"} => \A v \in Deciding(H) : env[v] \in ValuesOf(H, v)

AnswerInv == DecidingInv /\ AnswersAreComputed

(* What the tables say about these variables.                              *)
LEMMA TableDeciding ==
    ASSUME handler \in DOMAIN Handlers
    PROVE  /\ \A steps \in {H.group, H.test} : Len(steps) \in Nat /\ DOMAIN steps = 1..Len(steps)
           /\ F.variables = {"alg"} \cup Names(H.group) \cup Names(H.test)
           /\ "alg" \notin Names(H.group) \cup Names(H.test) \cup F.afterTest \cup F.afterGroup
           /\ Deciding(H) \cap (Names(H.test) \cup F.afterTest) = {}
           /\ \A v \in Deciding(H) \ {"alg"} : \E i \in DOMAIN H.group : H.group[i].v = v /\ Required(H.group, i)
<1>1. /\ F.variables = {"alg"} \cup Names(H.group) \cup Names(H.test)
      /\ F.afterTest \subseteq H.testLocals \cup Names(H.test)
      /\ F.afterGroup \subseteq H.groupLocals \cup Names(H.test) \cup Names(H.group)
  BY DEF F, Facts, H, Assigned
<1> QED BY <1>1, DecidingAssumption DEF H

(* A guard looks at its variables only.                                    *)
LEMMA HoldsOn ==
    ASSUME NEW g, NEW e, NEW V, Reads(g) \subseteq V
    PROVE  Holds(g, [v \in V |-> e[v]]) <=> Holds(g, e)
<1>1. \A c \in g : [v \in V |-> e[v]][c[1]] = e[c[1]]
  BY DEF Reads
<1> QED BY <1>1 DEF Holds

(* A failure that is tolerated is reported or listed as silent.            *)
LEMMA ToleratedIsListed ==
    ASSUME handler \in DOMAIN Handlers, \A v \in Deciding(H) : env[v] \in ValuesOf(H, v), Tolerated
    PROVE  \E g \in H.reports \cup H.silent : Holds(g, env)
<1> DEFINE e == [v \in Deciding(H) |-> env[v]]
<1>1. PICK g \in H.tolerates : Holds(g, env)
  BY DEF Tolerated
<1>2. \A f \in H.tolerates \cup H.reports \cup H.silent : Holds(f, e) <=> Holds(f, env)
  <2>1. \A f \in H.tolerates \cup H.reports \cup H.silent : Reads(f) \subseteq Deciding(H)
    BY DEF Deciding
  <2> QED BY <2>1, HoldsOn
<1>3. e \in [Deciding(H) -> UNION {ValuesOf(H, v) : v \in Deciding(H)}]
      /\ \A v \in Deciding(H) : e[v] \in ValuesOf(H, v)
  OBVIOUS
<1>4. \E f \in H.tolerates : Holds(f, e)
  BY <1>1, <1>2
<1> HIDE DEF e
<1>5. \E f \in H.reports \cup H.silent : Holds(f, e)
  BY <1>3, <1>4, DecidingAssumption DEF H
<1> QED BY <1>2, <1>5

LEMMA AnswerInit == Init => AnswerInv
<1> SUFFICES ASSUME Init PROVE AnswerInv
  OBVIOUS
<1>1. handler \in DOMAIN Handlers /\ "alg" \in F.variables
  BY TableDeciding DEF Init
<1> QED BY <1>1 DEF Init, AnswerInv, DecidingInv, AnswersAreComputed

LEMMA AnswerStep == AnswerInv /\ [Next]_vars => AnswerInv'
<1> SUFFICES ASSUME AnswerInv, [Next]_vars PROVE AnswerInv'
  OBVIOUS
<1> USE DEF AnswerInv, DecidingInv
<1>0. handler \in DOMAIN Handlers /\ handler' = handler /\ H' = H /\ F' = F
  BY DEF H, F, Next, vars, Refuse, Setup, BeginGroup, BeginTest, EmptyTest, InitTc, InitTcFails, InitTcIgnored,
         InitTcRefuses, InitTcCrashes, Crypto, CryptoFails, OutputTc, NextPart, OutputTcFails, EndGroup, Finish, Stopped
<1>a. \A v \in Deciding(H) : v \in DOMAIN env
  BY <1>0, TableDeciding DEF Names
<1>1. CASE Refuse
  <2>1. pc' = "done" /\ env' = [v \in F.variables |-> "unset"] /\ rounds' \in Nat
    BY <1>1 DEF Refuse, Return
  <2> QED BY <1>0, <2>1 DEF AnswersAreComputed
<1>2. CASE Setup
  <2>1. CASE pc' = "group" /\ UNCHANGED locals
    BY <1>0, <1>2, <2>1 DEF Setup, locals, AnswersAreComputed
  <2>2. CASE \E code \in H.late : Err(code, {"r_vs_val"})
    BY <1>0, <1>2, <2>2 DEF Setup, Err, Return, AnswersAreComputed
  <2> QED BY <1>2, <2>1, <2>2 DEF Setup
<1>3. CASE BeginGroup
  <2>1. CASE pc' = "done" /\ env' = [v \in F.variables |-> "unset"]
    BY <1>0, <1>3, <2>1 DEF BeginGroup, AnswersAreComputed
  <2>2. ASSUME NEW in, ReadFields(H.group, env, Kept(Names(H.group) \cup Names(H.test)), in).rv = "AMVP_SUCCESS",
             pc' = "test",
               env' = ReadFields(H.group, env, Kept(Names(H.group) \cup Names(H.test)), in).env
        PROVE  AnswerInv'
    <3> DEFINE read == ReadFields(H.group, env, Kept(Names(H.group) \cup Names(H.test)), in)
    <3>1. ReadSome(H.group, env, Len(H.group), read)
      BY <1>0, TableDeciding, ReadFieldsFacts
    <3>2. env' = [v \in F.variables |-> env'[v]] /\ env'["alg"] = env["alg"]
      BY <1>0, <2>2, <3>1, TableDeciding DEF ReadSome
    <3>3. ASSUME NEW v \in Deciding(H) PROVE env'[v] \in ValuesOf(H, v)
      <4>1. CASE v = "alg"
        BY <1>0, <1>3, <3>2, <4>1 DEF BeginGroup, ValuesOf
      <4>2. CASE v # "alg"
        <5>1. PICK j \in DOMAIN H.group : H.group[j].v = v /\ Required(H.group, j)
          BY <1>0, <4>2, TableDeciding
        <5>2. j \in 1..Len(H.group)
          BY <1>0, TableDeciding
        <5>3. env'[v] \in H.group[j].legal
          BY <1>a, <2>2, <3>1, <5>1, <5>2 DEF ReadSome
        <5> QED BY <4>2, <5>1, <5>3 DEF ValuesOf
      <4> QED BY <4>1, <4>2
    <3>4. rounds' \in Nat
      BY <1>3 DEF BeginGroup
    <3> QED BY <1>0, <1>3, <2>2, <3>2, <3>3, <3>4 DEF BeginGroup, AnswersAreComputed
  <2> QED BY <1>0, <1>3, <2>1, <2>2 DEF BeginGroup, Err, Return
<1>4. CASE BeginTest
  <2>1. CASE pc' = "done" /\ env' = [v \in F.variables |-> "unset"]
    BY <1>0, <1>4, <2>1 DEF BeginTest, AnswersAreComputed
  <2>2. ASSUME NEW in, ReadFields(H.test, env, stale \cup Kept(F.perTest), in).rv = "AMVP_SUCCESS", pc' = "init",
               env' = ReadFields(H.test, env, stale \cup Kept(F.perTest), in).env
        PROVE  AnswerInv'
    <3> DEFINE read == ReadFields(H.test, env, stale \cup Kept(F.perTest), in)
    <3>1. ReadSome(H.test, env, Len(H.test), read)
      BY <1>0, TableDeciding, ReadFieldsFacts
    <3>2. env' = [v \in F.variables |-> env'[v]] /\ env'["alg"] = env["alg"]
      BY <1>0, <2>2, <3>1, TableDeciding DEF ReadSome
    <3>3. ASSUME NEW v \in Deciding(H) PROVE env'[v] \in ValuesOf(H, v)
      BY <1>0, <1>a, <1>4, <2>2, <3>1, TableDeciding DEF BeginTest, ReadSome
    <3>4. rounds' \in Nat
      BY <1>4 DEF BeginTest
    <3> QED BY <1>0, <1>4, <2>2, <3>2, <3>3, <3>4 DEF BeginTest, AnswersAreComputed
  <2> QED BY <1>0, <1>4, <2>1, <2>2 DEF BeginTest, Err, Return
<1>5. CASE InitTc
  BY <1>0, <1>5 DEF InitTc, locals, AnswersAreComputed, Reported
<1>6. CASE InitTcFails
  <2>1. pc' = "done" /\ env' = [v \in F.variables |-> "unset"] /\ rounds' \in Nat
    BY <1>6 DEF InitTcFails, Cleanup, Err, Return
  <2> QED BY <1>0, <2>1 DEF AnswersAreComputed
<1>7. CASE InitTcIgnored
  BY <1>0, <1>7 DEF InitTcIgnored, locals, AnswersAreComputed, Reported
<1>8. CASE InitTcRefuses
  <2>1. pc' = "done" /\ env' = [v \in F.variables |-> "unset"] /\ rounds' \in Nat
    BY <1>8 DEF InitTcRefuses, Cleanup, Err, Return
  <2> QED BY <1>0, <2>1 DEF AnswersAreComputed
<1>9. CASE InitTcCrashes
  BY <1>0, <1>9 DEF InitTcCrashes, locals, AnswersAreComputed, Reported
<1>10. CASE Crypto
  <2>1. failed' => Tolerated
    BY <1>10 DEF Crypto
  <2>2. failed' => \E g \in H.reports \cup H.silent : Holds(g, env)
    BY <1>0, <1>10, <2>1, ToleratedIsListed DEF Crypto
  <2>3. DecidingInv'
    BY <1>0, <1>10 DEF Crypto, NextRound, locals
  <2>4. AnswersAreComputed'
    BY <1>0, <1>10, <2>2 DEF Crypto, NextRound, locals, AnswersAreComputed, Reported
  <2> QED BY <2>3, <2>4
<1>11. CASE CryptoFails
  <2>1. pc' = "done" /\ env' = [v \in F.variables |-> "unset"] /\ rounds' \in Nat
    BY <1>11 DEF CryptoFails, NextRound, Cleanup, Err, Return
  <2> QED BY <1>0, <2>1 DEF AnswersAreComputed
<1>12. CASE OutputTc
  <2>1. \A v \in F.variables \ F.afterTest : env'[v] = env[v]
    BY <1>12 DEF OutputTc, Renewed
  <2>2. env' = [v \in F.variables |-> env'[v]]
    BY <1>12 DEF OutputTc, Renewed
  <2>3. pc' = "test" /\ rounds' \in Nat /\ env'["alg"] \in H.algs
    BY <1>0, <1>12, <2>1, TableDeciding DEF OutputTc
  <2>4. \A v \in Deciding(H) : env'[v] = env[v]
    BY <1>0, <1>a, <2>1, TableDeciding
  <2> QED BY <1>0, <1>12, <2>2, <2>3, <2>4 DEF OutputTc, AnswersAreComputed
<1>13. CASE OutputTcFails
  <2>1. pc' = "done" /\ env' = [v \in F.variables |-> "unset"] /\ rounds' \in Nat
    BY <1>13 DEF OutputTcFails, Cleanup, Err, Return
  <2> QED BY <1>0, <2>1 DEF AnswersAreComputed
<1>14. CASE EndGroup
  <2>1. \A v \in F.variables \ F.afterGroup : env'[v] = env[v]
    BY <1>14 DEF EndGroup, Renewed
  <2>2. env' = [v \in F.variables |-> env'[v]]
    BY <1>14 DEF EndGroup, Renewed
  <2>3. pc' = "group" /\ rounds' \in Nat /\ env'["alg"] \in H.algs
    BY <1>0, <1>14, <2>1, TableDeciding DEF EndGroup
  <2> QED BY <1>0, <2>2, <2>3 DEF AnswersAreComputed
<1>15. CASE Finish
  <2>1. pc' = "done" /\ env' = [v \in F.variables |-> "unset"] /\ rounds' \in Nat
    BY <1>15 DEF Finish, Return
  <2> QED BY <1>0, <2>1 DEF AnswersAreComputed
<1>16. CASE Stopped
  BY <1>0, <1>16 DEF Stopped, vars, AnswersAreComputed, Reported
<1>17. CASE UNCHANGED vars
  BY <1>0, <1>17 DEF vars, AnswersAreComputed, Reported
<1>18. CASE EmptyTest
  BY <1>0, <1>18 DEF EmptyTest, locals, AnswersAreComputed
<1>19. CASE NextPart
  <2>1. CASE pc' = "done" /\ env' = [v \in F.variables |-> "unset"]
    BY <1>0, <1>19, <2>1 DEF NextPart, AnswersAreComputed
  <2>2. ASSUME NEW i \in DOMAIN H.test, NEW w, env' = [env EXCEPT ![H.test[i].v] = w], pc' = "init"
        PROVE  AnswerInv'
    <3>1. env' = [v \in F.variables |-> env'[v]] /\ rounds' = 0 /\ pc = "output"
      BY <1>19, <2>2 DEF NextPart
    <3>2. H.test[i].v \in Names(H.test)
      BY DEF Names
    <3>3. env'["alg"] = env["alg"] /\ \A v \in Deciding(H) : env'[v] = env[v]
      BY <1>0, <1>a, <2>2, <3>2, TableDeciding
    <3> QED BY <1>0, <2>2, <3>1, <3>3 DEF AnswersAreComputed
  <2> QED BY <1>0, <1>19, <2>1, <2>2 DEF NextPart, Err, Return
<1> QED BY <1>1, <1>2, <1>3, <1>4, <1>5, <1>6, <1>7, <1>8, <1>9, <1>10, <1>11, <1>12, <1>13, <1>14,
       <1>15, <1>16, <1>17, <1>18, <1>19 DEF Next

(* AnswersAreComputed: a test that is answered was given to the crypto     *)
(* handler, which succeeded or whose failure is reported or listed as      *)
(* silent, because the fields that decide on it were read for the group    *)
(* and outlive its tests.                                                  *)
THEOREM AnswersComputed == Spec => []AnswersAreComputed
<1>1. AnswerInv => AnswersAreComputed
  BY DEF AnswerInv
<1> QED BY <1>1, AnswerInit, AnswerStep, PTL DEF Spec

(***************************************************************************)
(* The statements of a loop, and what they make of the variables: those    *)
(* that a statement has assigned are not stale any more, and hold a value  *)
(* that the statement goes on with.                                        *)
(***************************************************************************)
(* What one statement does to the variables, and to what is stale.         *)
Executed(acc, step, next) ==
    /\ IsReading(next)
    /\ acc.rv # "AMVP_SUCCESS" => next = acc
    /\ acc.rv = "AMVP_SUCCESS" =>
         /\ next.used = acc.used \cup (Reads(step.when) \cap acc.stale)
         /\ \/ /\ next.env = acc.env /\ next.stale = acc.stale
               /\ next.rv = "AMVP_SUCCESS" => ~Holds(step.when, acc.env) \/ step.keep
            \/ /\ Holds(step.when, acc.env)
               /\ \E w : Accepts(step, w) /\ next.env = [acc.env EXCEPT ![step.v] = w]
               /\ next.stale = acc.stale \ {step.v}

LEMMA ReadStepExecutes ==
    ASSUME NEW acc, NEW step, NEW in, IsReading(acc),
           "AMVP_SUCCESS" \notin {step.absent, step.bad}, step.value # "unset",
           step.input /\ Holds(step.when, acc.env) => in[step.f] # "unset"
    PROVE  Executed(acc, step, ReadStep(acc, step, in))
<1> DEFINE v == IF ~step.input THEN step.value ELSE IF in[step.f] = "none" THEN "absent" ELSE in[step.f]
           code == IF v = "absent" THEN step.absent ELSE IF v \in step.legal THEN TAKEN ELSE step.bad
           seen == [acc EXCEPT !.used = @ \cup (Reads(step.when) \cap acc.stale)]
           next == ReadStep(acc, step, in)
<1>1. next = IF acc.rv # "AMVP_SUCCESS" THEN acc
             ELSE IF ~Holds(step.when, acc.env) THEN seen
             ELSE IF code # TAKEN THEN [seen EXCEPT !.rv = code]
             ELSE IF step.keep /\ v \notin step.legal THEN seen
             ELSE [seen EXCEPT !.env[step.v] = v, !.stale = @ \ {step.v}]
  BY Zenon DEF ReadStep
<1>2. code # "AMVP_SUCCESS" /\ (Holds(step.when, acc.env) /\ code = TAKEN => Accepts(step, v))
  BY DEF TAKEN, Accepts
<1>3. /\ IsReading(seen) /\ seen.env = acc.env /\ seen.rv = acc.rv /\ seen.stale = acc.stale
      /\ seen.used = acc.used \cup (Reads(step.when) \cap acc.stale)
  BY DEF IsReading
<1> HIDE DEF v, code, seen
<1> SUFFICES Executed(acc, step, next)
  BY Zenon
<1> HIDE DEF next
<1>4. CASE acc.rv # "AMVP_SUCCESS"
  BY <1>1, <1>4 DEF Executed
<1>5. CASE acc.rv = "AMVP_SUCCESS" /\ ~Holds(step.when, acc.env)
  BY <1>1, <1>3, <1>5 DEF Executed
<1>6. CASE acc.rv = "AMVP_SUCCESS" /\ Holds(step.when, acc.env) /\ code # TAKEN
  <2>1. next = [seen EXCEPT !.rv = code]
    BY <1>1, <1>6
  <2>2. IsReading(next) /\ next.rv = code /\ next.env = seen.env /\ next.stale = seen.stale /\ next.used = seen.used
    BY <1>3, <2>1 DEF IsReading
  <2> QED BY <1>2, <1>3, <1>6, <2>2 DEF Executed
<1>7. CASE acc.rv = "AMVP_SUCCESS" /\ Holds(step.when, acc.env) /\ code = TAKEN /\ step.keep /\ v \notin step.legal
  BY <1>1, <1>3, <1>7 DEF Executed
<1>8. CASE acc.rv = "AMVP_SUCCESS" /\ Holds(step.when, acc.env) /\ code = TAKEN /\ ~(step.keep /\ v \notin step.legal)
  <2>1. next = [seen EXCEPT !.env[step.v] = v, !.stale = @ \ {step.v}]
    BY <1>1, <1>8
  <2>2. /\ IsReading(next) /\ next.rv = seen.rv /\ next.env = [seen.env EXCEPT ![step.v] = v]
        /\ next.stale = seen.stale \ {step.v} /\ next.used = seen.used
    BY <1>3, <2>1 DEF IsReading
  <2> QED BY <1>2, <1>3, <1>8, <2>2 DEF Executed
<1> QED BY <1>4, <1>5, <1>6, <1>7, <1>8

(* A condition looks at its variables only.                                *)
LEMMA HoldsAlike ==
    ASSUME NEW g, NEW e, NEW f, \A x \in Reads(g) : e[x] = f[x]
    PROVE  Holds(g, e) <=> Holds(g, f)
<1>1. \A c \in g : e[c[1]] = f[c[1]]
  BY DEF Reads
<1> QED BY <1>1 DEF Holds

(* The statements of a loop, and an object they may be given.              *)
Proper(steps, e, in) ==
    /\ Len(steps) \in Nat /\ DOMAIN steps = 1..Len(steps)
    /\ e = [x \in DOMAIN e |-> e[x]]
    /\ "alg" \in DOMAIN e \ Names(steps)
    /\ \A i \in DOMAIN steps :
         /\ "AMVP_SUCCESS" \notin {steps[i].absent, steps[i].bad} /\ steps[i].value # "unset"
         /\ steps[i].v \in DOMAIN e /\ Reads(steps[i].when) \subseteq DOMAIN e
         /\ steps[i].input /\ Reachable(steps[i].when, e["alg"]) => in[steps[i].f] # "unset"

(* What the first n statements have done.                                  *)
StillStale(steps, e, old, n, r) ==
    /\ IsReading(r) /\ r.env = [x \in DOMAIN e |-> r.env[x]] /\ r.stale \subseteq old
    /\ \A x \in DOMAIN e : Skipped(steps, x, DOMAIN e \ Names(steps), e) => r.env[x] = e[x]
    /\ \A x \in DOMAIN e : x \notin Names(steps) => r.env[x] = e[x]
    /\ \A x \in r.used : \E j \in 1..n : x \in Reads(steps[j].when) /\ x \in old \ Before(steps, j)
    /\ r.rv = "AMVP_SUCCESS" =>
         \A i \in 1..n : Firm(steps, i, {}) /\ Holds(steps[i].when, r.env) => steps[i].v \notin r.stale
LetThrough(steps, n, r) ==
    r.rv = "AMVP_SUCCESS" =>
      \A i \in 1..n :
        (/\ Firm(steps, i, {}) /\ Holds(steps[i].when, r.env)
         /\ \A j \in (i + 1)..n : steps[j].v = steps[i].v => Settled(steps, j, {}) /\ ~Holds(steps[j].when, r.env))
        => Accepts(steps[i], r.env[steps[i].v])

LEMMA StillStaleNext ==
    ASSUME NEW steps, NEW e, NEW old, NEW in, Proper(steps, e, in), NEW n \in 0..(Len(steps) - 1),
           NEW acc, StillStale(steps, e, old, n, acc), LetThrough(steps, n, acc)
    PROVE  LET next == ReadStep(acc, steps[n + 1], in)
           IN  StillStale(steps, e, old, n + 1, next) /\ LetThrough(steps, n + 1, next)
<1> DEFINE m == n + 1
           next == ReadStep(acc, steps[m], in)
<1>1. m \in DOMAIN steps /\ m \in 1..Len(steps) /\ m \in Nat
  BY DEF Proper
<1> HIDE DEF m
<1>2. IsReading(acc) /\ acc.env = [x \in DOMAIN e |-> acc.env[x]] /\ DOMAIN acc.env = DOMAIN e
  BY DEF StillStale
<1>3. steps[m].v \in DOMAIN e /\ Reads(steps[m].when) \subseteq DOMAIN e /\ steps[m].v \in Names(steps)
  BY <1>1 DEF Proper, Names
<1>4. steps[m].input /\ Holds(steps[m].when, acc.env) => in[steps[m].f] # "unset"
  <2>1. acc.env["alg"] = e["alg"]
    BY DEF StillStale, Proper
  <2>2. Holds(steps[m].when, acc.env) => Reachable(steps[m].when, e["alg"])
    BY <2>1 DEF Holds, Reachable
  <2> QED BY <1>1, <2>2 DEF Proper
<1>5. Executed(acc, steps[m], next)
  <2>1. "AMVP_SUCCESS" \notin {steps[m].absent, steps[m].bad} /\ steps[m].value # "unset"
    BY <1>1 DEF Proper
  <2> QED BY <1>2, <1>4, <2>1, ReadStepExecutes
<1> SUFFICES StillStale(steps, e, old, m, next) /\ LetThrough(steps, m, next)
  BY Zenon DEF m
<1> HIDE DEF next
<1>6. CASE acc.rv # "AMVP_SUCCESS"
  <2>1. next = acc
    BY <1>5, <1>6 DEF Executed
  <2>2. \A j \in 1..n : j \in 1..m
    BY DEF m
  <2> QED BY <1>6, <2>1, <2>2 DEF StillStale, LetThrough
<1>7. CASE acc.rv = "AMVP_SUCCESS"
  <2>1. /\ IsReading(next) /\ next.env = [x \in DOMAIN e |-> next.env[x]] /\ next.stale \subseteq acc.stale
        /\ \A x \in DOMAIN e : x # steps[m].v => next.env[x] = acc.env[x]
        /\ ~Holds(steps[m].when, acc.env) => next.env = acc.env
    BY <1>2, <1>5, <1>7 DEF Executed
  <2>2. next.stale \subseteq old
    BY <2>1 DEF StillStale
  <2>3. ASSUME NEW x \in DOMAIN e, Skipped(steps, x, DOMAIN e \ Names(steps), e)
        PROVE  next.env[x] = e[x]
    <3>1. acc.env[x] = e[x]
      BY <2>3 DEF StillStale
    <3>2. CASE x # steps[m].v
      BY <2>1, <3>1, <3>2
    <3>3. CASE x = steps[m].v
      <4>1. PICK c \in steps[m].when : c[1] \in DOMAIN e \ Names(steps) /\ (e[c[1]] \in c[3]) # c[2]
        BY <1>1, <2>3, <3>3 DEF Skipped
      <4>2. acc.env[c[1]] = e[c[1]]
        BY <4>1 DEF StillStale
      <4>3. ~Holds(steps[m].when, acc.env)
        BY <4>1, <4>2 DEF Holds
      <4> QED BY <2>1, <3>1, <4>3
    <3> QED BY <3>2, <3>3
  <2>4. ASSUME NEW x \in DOMAIN e, x \notin Names(steps)
        PROVE  next.env[x] = e[x]
    BY <1>3, <2>1, <2>4 DEF StillStale
  <2>5. ASSUME NEW x \in next.used
        PROVE  \E j \in 1..m : x \in Reads(steps[j].when) /\ x \in old \ Before(steps, j)
    <3>1. CASE x \in acc.used
      BY <3>1 DEF StillStale, m
    <3>2. CASE x \notin acc.used
      <4>1. x \in Reads(steps[m].when) /\ x \in acc.stale
        BY <1>5, <1>7, <3>2 DEF Executed
      <4>2. ASSUME NEW k \in 1..(m - 1), steps[k].when = {}, ~steps[k].keep PROVE steps[k].v \notin acc.stale
        <5>1. k \in 1..n /\ Firm(steps, k, {}) /\ Holds(steps[k].when, acc.env)
          BY <4>2 DEF m, Firm, Settled, Reads, Holds
        <5> QED BY <1>7, <5>1 DEF StillStale
      <4>3. x \notin Before(steps, m)
        BY <4>1, <4>2 DEF Before
      <4>4. m \in 1..m /\ x \in old
        BY <4>1 DEF m, StillStale
      <4> QED BY <4>1, <4>3, <4>4
    <3> QED BY <3>1, <3>2
  <2>6. ASSUME NEW i \in 1..m, Settled(steps, i, {})
        PROVE  Holds(steps[i].when, next.env) <=> Holds(steps[i].when, acc.env)
    <3>1. m \in i..Len(steps)
      BY <1>1
    <3>2. steps[m].v \notin Reads(steps[i].when)
      BY <2>6, <3>1 DEF Settled
    <3>3. Reads(steps[i].when) \subseteq DOMAIN e
      BY <1>1 DEF Proper
    <3> QED BY <2>1, <3>2, <3>3, HoldsAlike
  <2>7. ASSUME next.rv = "AMVP_SUCCESS", NEW i \in 1..m, Firm(steps, i, {}), Holds(steps[i].when, next.env)
        PROVE  steps[i].v \notin next.stale
    <3>1. Holds(steps[i].when, acc.env) /\ ~steps[i].keep
      BY <2>6, <2>7 DEF Firm
    <3>2. CASE i = m
      BY <1>5, <1>7, <2>7, <3>1, <3>2 DEF Executed
    <3>3. CASE i # m
      <4>1. i \in 1..n
        BY <3>3 DEF m
      <4> QED BY <1>7, <2>1, <2>7, <3>1, <4>1 DEF StillStale
    <3> QED BY <3>2, <3>3
  <2>8. ASSUME next.rv = "AMVP_SUCCESS", NEW i \in 1..m, Firm(steps, i, {}), Holds(steps[i].when, next.env),
               \A j \in (i + 1)..m : steps[j].v = steps[i].v => Settled(steps, j, {}) /\ ~Holds(steps[j].when, next.env)
        PROVE  Accepts(steps[i], next.env[steps[i].v])
    <3>1. Holds(steps[i].when, acc.env) /\ ~steps[i].keep
      BY <2>6, <2>8 DEF Firm
    <3>2. CASE i = m
      <4>1. PICK w : Accepts(steps[m], w) /\ next.env = [acc.env EXCEPT ![steps[m].v] = w]
        BY <1>5, <1>7, <2>8, <3>1, <3>2 DEF Executed
      <4> QED BY <1>2, <1>3, <3>2, <4>1
    <3>3. CASE i # m
      <4>1. i \in 1..n /\ m \in (i + 1)..m /\ \A j \in (i + 1)..n : j \in (i + 1)..m /\ j \in 1..m
        BY <3>3 DEF m
      <4>2. \A j \in (i + 1)..n : steps[j].v = steps[i].v => Settled(steps, j, {}) /\ ~Holds(steps[j].when, acc.env)
        BY <2>6, <2>8, <4>1
      <4>3. Accepts(steps[i], acc.env[steps[i].v])
        BY <1>7, <2>8, <3>1, <4>1, <4>2 DEF LetThrough
      <4>4. steps[i].v \in DOMAIN e
        BY <1>1, <4>1 DEF Proper
      <4>5. next.env[steps[i].v] = acc.env[steps[i].v]
        <5>1. CASE steps[m].v # steps[i].v
          BY <2>1, <4>4, <5>1
        <5>2. CASE steps[m].v = steps[i].v
          <6>1. m \in 1..m
            BY <1>1
          <6>2. ~Holds(steps[m].when, acc.env)
            BY <2>6, <2>8, <4>1, <5>2, <6>1
          <6> QED BY <2>1, <6>2
        <5> QED BY <5>1, <5>2
      <4> QED BY <4>3, <4>5
    <3> QED BY <3>2, <3>3
  <2>9. StillStale(steps, e, old, m, next)
    BY <2>1, <2>2, <2>3, <2>4, <2>5, <2>7 DEF StillStale
  <2>10. LetThrough(steps, m, next)
    BY <2>8 DEF LetThrough
  <2> QED BY <2>9, <2>10
<1> QED BY <1>6, <1>7

LEMMA ReadFieldsStale ==
    ASSUME NEW steps, NEW e, NEW old, NEW in, Proper(steps, e, in)
    PROVE  /\ StillStale(steps, e, old, Len(steps), ReadFields(steps, e, old, in))
           /\ LetThrough(steps, Len(steps), ReadFields(steps, e, old, in))
<1>0. Len(steps) \in Nat /\ e = [x \in DOMAIN e |-> e[x]]
  BY DEF Proper
<1>1. ReadFields(steps, e, old, in) = (CHOOSE g : Reading(steps, e, old, in, Len(steps), g))[Len(steps)]
  BY Zenon DEF ReadFields, Reading
<1>2. PICK g : Reading(steps, e, old, in, Len(steps), g) /\ ReadFields(steps, e, old, in) = g[Len(steps)]
  BY <1>0, <1>1, ReadingExists, Zenon
<1>3. \A m \in 0..Len(steps) :
        g[m] = IF m = 0 THEN [rv |-> "AMVP_SUCCESS", env |-> e, stale |-> old, used |-> {}]
               ELSE ReadStep(g[m - 1], steps[m], in)
  BY <1>2 DEF Reading
<1> DEFINE Fine(m) == StillStale(steps, e, old, m, g[m]) /\ LetThrough(steps, m, g[m])
           T == {m \in 0..Len(steps) : ~Fine(m)}
<1>4. SUFFICES ASSUME T # {} PROVE FALSE
  BY <1>0, <1>2
<1>5. PICK m \in T : \A y \in T : m <= y
  <2>1. T \in SUBSET Nat
    BY <1>0
  <2> QED BY <1>4, <2>1, Least
<1>6. CASE m = 0
  <2>1. g[0] = [rv |-> "AMVP_SUCCESS", env |-> e, stale |-> old, used |-> {}]
    <3>1. 0 \in 0..Len(steps)
      BY <1>0
    <3> QED BY <1>3, <3>1, Zenon
  <2>2. Fine(0)
    BY <1>0, <2>1 DEF StillStale, LetThrough, IsReading
  <2> QED BY <1>5, <1>6, <2>2
<1>7. CASE m # 0
  <2>1. m - 1 \in 0..(Len(steps) - 1) /\ m - 1 \notin T /\ (m - 1) + 1 = m /\ m - 1 \in 0..Len(steps)
    BY <1>0, <1>5, <1>7
  <2>2. Fine(m - 1)
    BY <2>1
  <2> DEFINE next == ReadStep(g[m - 1], steps[(m - 1) + 1], in)
  <2>3. StillStale(steps, e, old, (m - 1) + 1, next) /\ LetThrough(steps, (m - 1) + 1, next)
    BY <2>1, <2>2, StillStaleNext
  <2>4. g[m] = ReadStep(g[m - 1], steps[m], in)
    BY <1>3, <1>5, <1>7
  <2> QED BY <1>5, <2>1, <2>3, <2>4
<1> QED BY <1>6, <1>7

(***************************************************************************)
(* The values of some of the variables, as far as the table tells them     *)
(* apart.                                                                  *)
(***************************************************************************)
Rough(h, e, R) == [x \in R |-> IF e[x] \in Values(h, x) THEN e[x] ELSE Otherwise]
Typed(h, e) == e = [x \in Facts[h].variables |-> e[x]] /\ e["alg"] \in Handlers[h].algs

LEMMA RoughIsValuation ==
    ASSUME NEW h \in DOMAIN Handlers, NEW e, Typed(h, e), NEW R
    PROVE  Rough(h, e, R) \in Valuations(h, R)
<1> DEFINE D == [x \in R |-> Values(h, x)]
<1>1. ASSUME NEW x \in R PROVE Rough(h, e, R)[x] \in D[x]
  BY DEF Rough, Values, Typed
<1>2. Rough(h, e, R) \in [R -> UNION {D[x] : x \in R}]
  BY <1>1 DEF Rough
<1> HIDE DEF D
<1>3. Rough(h, e, R) \in {r \in [R -> UNION {D[x] : x \in R}] : \A x \in R : r[x] \in D[x]}
  BY <1>1, <1>2
<1> QED BY <1>3, Zenon DEF D, Valuations

LEMMA TableWords ==
    ASSUME NEW h \in DOMAIN Handlers
    PROVE  /\ \A c \in Conditions(h) : c[1] \in Facts[h].variables /\ c[3] \subseteq Words(h, c[1])
           /\ \A x \in Facts[h].variables : Otherwise \notin Words(h, x) /\ Null \subseteq Words(h, x)
           /\ \A steps \in {Handlers[h].group, Handlers[h].test} : \A i \in DOMAIN steps :
                steps[i].legal \cup {steps[i].value} \subseteq Words(h, steps[i].v) /\ steps[i].when \subseteq Conditions(h)
<1>1. WellFormed(h)
  BY TablesAssumption
<1>2. \A c \in Conditions(h) : c[3] \subseteq Words(h, c[1])
  <2>1. ASSUME NEW c \in Conditions(h), NEW w \in c[3] PROVE w \in Words(h, c[1])
    BY DEF Words
  <2> QED BY <2>1
<1>3. ASSUME NEW steps \in {Handlers[h].group, Handlers[h].test}, NEW i \in DOMAIN steps
      PROVE  steps[i].legal \cup {steps[i].value} \subseteq Words(h, steps[i].v) /\ steps[i].when \subseteq Conditions(h)
  <2>1. ASSUME NEW w \in steps[i].legal \cup {steps[i].value} PROVE w \in Words(h, steps[i].v)
    <3>1. i \in Assigning(steps, steps[i].v)
      BY DEF Assigning
    <3>2. w \in Written(steps, steps[i].v)
      BY <3>1 DEF Written
    <3>3. w \in Written(Handlers[h].group, steps[i].v) \/ w \in Written(Handlers[h].test, steps[i].v)
      BY <3>2, Zenon
    <3> QED BY <3>3, Zenon DEF Words
  <2>2. steps[i].when \subseteq Conditions(h)
    BY DEF Conditions
  <2> QED BY <2>1, <2>2
<1>4. \A x \in Facts[h].variables : Null \subseteq Words(h, x)
  BY DEF Words
<1>5. \A c \in Conditions(h) : c[1] \in Facts[h].variables
  BY <1>1 DEF WellFormed
<1>6. \A x \in Facts[h].variables : Otherwise \notin Words(h, x)
  BY <1>1 DEF WellFormed
<1> QED BY <1>2, <1>3, <1>4, <1>5, <1>6

(* A condition, or a set of values of the table, is met by the rough value *)
(* exactly when it is met by the value.                                    *)
LEMMA RoughValue ==
    ASSUME NEW h \in DOMAIN Handlers, NEW e, Typed(h, e), NEW R, NEW x \in R \cap Facts[h].variables,
           NEW S \in SUBSET Words(h, x)
    PROVE  Rough(h, e, R)[x] \in S <=> e[x] \in S
<1>1. Otherwise \notin S
  BY TableWords
<1>2. CASE x = "alg"
  BY <1>2 DEF Rough, Values, Typed
<1>3. CASE x # "alg"
  BY <1>1, <1>3 DEF Rough, Values
<1> QED BY <1>2, <1>3

LEMMA RoughHolds ==
    ASSUME NEW h \in DOMAIN Handlers, NEW e, Typed(h, e), NEW R, NEW g \in SUBSET Conditions(h), Reads(g) \subseteq R
    PROVE  Holds(g, Rough(h, e, R)) <=> Holds(g, e)
<1>1. ASSUME NEW c \in g PROVE Rough(h, e, R)[c[1]] \in c[3] <=> e[c[1]] \in c[3]
  <2>1. c[1] \in R \cap Facts[h].variables /\ c[3] \in SUBSET Words(h, c[1])
    BY TableWords DEF Reads
  <2> QED BY <2>1, RoughValue
<1> QED BY <1>1 DEF Holds

LEMMA RoughSkipped ==
    ASSUME NEW h \in DOMAIN Handlers, NEW e, Typed(h, e), NEW R, R \subseteq Facts[h].variables,
           NEW steps \in {Handlers[h].group, Handlers[h].test}, NEW x, NEW fixed, Skipped(steps, x, fixed, Rough(h, e, R))
    PROVE  Skipped(steps, x, fixed, e)
<1> SUFFICES ASSUME NEW i \in DOMAIN steps, steps[i].v = x
             PROVE  \E c \in steps[i].when : c[1] \in DOMAIN e \cap fixed /\ (e[c[1]] \in c[3]) # c[2]
  BY DEF Skipped
<1>1. PICK c \in steps[i].when : c[1] \in R \cap fixed /\ (Rough(h, e, R)[c[1]] \in c[3]) # c[2]
  BY DEF Skipped, Rough
<1>2. c[1] \in R \cap Facts[h].variables /\ c[3] \in SUBSET Words(h, c[1])
  BY <1>1, TableWords
<1>3. Rough(h, e, R)[c[1]] \in c[3] <=> e[c[1]] \in c[3]
  BY <1>2, RoughValue
<1>4. c[1] \in DOMAIN e
  BY <1>2 DEF Typed
<1> QED BY <1>1, <1>3, <1>4

LEMMA RoughTold ==
    ASSUME NEW h \in DOMAIN Handlers, NEW e, Typed(h, e), NEW R, R \subseteq Facts[h].variables,
           NEW steps \in {Handlers[h].group, Handlers[h].test}, NEW i \in DOMAIN steps, NEW later,
           Told(steps, i, later, e)
    PROVE  Told(steps, i, later, Rough(h, e, R))
<1> DEFINE r == Rough(h, e, R)
           x == steps[i].v
<1>1. SUFFICES ASSUME Firm(steps, i, later), {x} \cup Looks(steps, x) \subseteq R, Holds(steps[i].when, r),
                      \A j \in Assigning(steps, x) : j > i => Settled(steps, j, later) /\ ~Holds(steps[j].when, r)
               PROVE  Accepts(steps[i], r[x])
  <2>1. DOMAIN r = R
    BY DEF Rough
  <2>2. SUFFICES Told(steps, i, later, r)
    OBVIOUS
  <2> HIDE DEF r
  <2> QED BY <1>1, <2>1 DEF Told
<1>2. i \in Assigning(steps, x)
  BY DEF Assigning
<1>3. \A j \in Assigning(steps, x) : Holds(steps[j].when, r) <=> Holds(steps[j].when, e)
  <2>1. ASSUME NEW j \in Assigning(steps, x) PROVE steps[j].when \subseteq Conditions(h) /\ Reads(steps[j].when) \subseteq R
    <3>1. j \in DOMAIN steps
      BY DEF Assigning
    <3>2. Reads(steps[j].when) \subseteq R
      BY <1>1 DEF Looks
    <3> QED BY <3>1, <3>2, TableWords
  <2> QED BY <2>1, RoughHolds
<1>4. {x} \cup Looks(steps, x) \subseteq DOMAIN e /\ x \in R \cap Facts[h].variables
  BY <1>1 DEF Typed
<1>5. Accepts(steps[i], e[x])
  BY <1>1, <1>2, <1>3, <1>4 DEF Told
<1>6. \A S \in SUBSET Words(h, x) : r[x] \in S <=> e[x] \in S
  BY <1>4, RoughValue
<1>7. /\ steps[i].legal \subseteq Words(h, x) /\ {"absent"} \subseteq Words(h, x) /\ {"unset"} \subseteq Words(h, x)
      /\ {steps[i].value} \subseteq Words(h, x)
  BY <1>4, TableWords DEF Null
<1>8. /\ r[x] \in steps[i].legal <=> e[x] \in steps[i].legal
      /\ r[x] = "absent" <=> e[x] = "absent"
      /\ r[x] = "unset" <=> e[x] = "unset"
      /\ r[x] = steps[i].value <=> e[x] = steps[i].value
  <2> HIDE DEF r, x
  <2> QED BY <1>6, <1>7
<1> HIDE DEF r
<1> QED BY <1>5, <1>8 DEF Accepts

LEMMA RoughPlausible ==
    ASSUME NEW h \in DOMAIN Handlers, NEW e, Typed(h, e), NEW R, R \subseteq Facts[h].variables, Plausible(h, e)
    PROVE  Plausible(h, Rough(h, e, R))
<1>1. ASSUME NEW i \in DOMAIN Handlers[h].test PROVE Told(Handlers[h].test, i, {}, Rough(h, e, R))
  BY RoughTold DEF Plausible, TestTold
<1>2. ASSUME NEW i \in DOMAIN Handlers[h].group, Untouched(h, i, Rough(h, e, R))
      PROVE  Told(Handlers[h].group, i, Fleeting(h), Rough(h, e, R))
  <2>1. Untouched(h, i, e)
    BY <1>2, RoughSkipped DEF Untouched
  <2>2. Told(Handlers[h].group, i, Fleeting(h), e)
    BY <2>1 DEF Plausible, GroupTold
  <2> QED BY <2>2, RoughTold
<1> QED BY <1>1, <1>2 DEF Plausible, TestTold, GroupTold

LEMMA RoughAssigns ==
    ASSUME NEW h \in DOMAIN Handlers, NEW e, Typed(h, e), NEW R, R \subseteq Facts[h].variables,
           NEW steps \in {Handlers[h].group, Handlers[h].test}, NEW x, NEW later,
           Assigns(steps, x, later, Rough(h, e, R))
    PROVE  Assigns(steps, x, later, e)
<1>1. PICK i \in DOMAIN steps :
        /\ steps[i].v = x /\ Firm(steps, i, later)
        /\ Reads(steps[i].when) \subseteq R /\ Holds(steps[i].when, Rough(h, e, R))
  BY DEF Assigns, Rough
<1>2. Holds(steps[i].when, e)
  BY <1>1, TableWords, RoughHolds
<1>3. Reads(steps[i].when) \subseteq DOMAIN e
  BY <1>1 DEF Typed
<1> QED BY <1>1, <1>2, <1>3 DEF Assigns

LEMMA RoughForeign ==
    ASSUME NEW h \in DOMAIN Handlers, NEW e, Typed(h, e), NEW R, R \subseteq Facts[h].variables, NEW x,
           Foreign(h, x, Rough(h, e, R))
    PROVE  Foreign(h, x, e)
  BY RoughSkipped DEF Foreign

(***************************************************************************)
(* init_tc(): if it succeeds, it has executed every statement before the   *)
(* first early return.                                                     *)
(***************************************************************************)
Made(init, e, n, r) ==
    r.rv \in {"AMVP_SUCCESS", "cut"} =>
      /\ r.rv = "cut" => \E j \in 1..n : init[j].op = "cut" /\ Holds(init[j].when, e)
      /\ \A i \in 1..n :
           (/\ init[i].op \in {"alloc", "held"} /\ Holds(init[i].when, e)
            /\ \A j \in 1..(i - 1) : init[j].op = "cut" => ~Holds(init[j].when, e))
           => init[i].buf \in r.live

LEMMA MadeNext ==
    ASSUME NEW init, NEW e, NEW n \in Nat, NEW acc, Made(init, e, n, acc)
    PROVE  Made(init, e, n + 1, InitStep(acc, init[n + 1], e, FALSE))
<1> DEFINE m == n + 1
           step == init[m]
           next == InitStep(acc, step, e, FALSE)
           code == IF FALSE THEN MALLOC_FAIL
                   ELSE IF step.op \in {"alloc", "held"} THEN "AMVP_SUCCESS"
                   ELSE IF step.op = "cut" THEN "cut"
                   ELSE IF step.op = "copy" THEN CopyText(e[step.v])
                   ELSE IF step.op = "tight" /\ e[step.v] = "odd" THEN "AMVP_DATA_TOO_LARGE"
                   ELSE HexstrToBin(e[step.v])
<1>1. next = IF acc.rv # "AMVP_SUCCESS" \/ ~Holds(step.when, e) THEN acc
             ELSE [rv   |-> code,
                   live |-> IF step.op \in {"alloc", "held"} /\ ~FALSE THEN acc.live \cup {step.buf} ELSE acc.live]
  BY Zenon DEF InitStep
<1>2. /\ step.op \in {"alloc", "held"} => code = "AMVP_SUCCESS"
      /\ code = "cut" => step.op = "cut"
  BY DEF CopyText, HexstrToBin, INVALID_ARG, UNSUPPORTED_OP
<1>3. /\ m \in 1..m /\ m \in Nat /\ n \in Nat /\ m = n + 1
      /\ \A i \in 1..m : i = m \/ i \in 1..n
      /\ \A i \in 1..n : i \in 1..m /\ \A j \in 1..(i - 1) : j \in 1..m
  OBVIOUS
<1> SUFFICES Made(init, e, m, next)
  BY Zenon
<1> HIDE DEF code, next, m
<1>4. CASE acc.rv # "AMVP_SUCCESS"
  <2>1. next = acc
    BY <1>1, <1>4
  <2>2. ASSUME acc.rv = "cut" PROVE \E j \in 1..n : init[j].op = "cut" /\ Holds(init[j].when, e)
    BY <2>2 DEF Made
  <2>3. ASSUME acc.rv = "cut", NEW i \in 1..m, init[i].op \in {"alloc", "held"}, Holds(init[i].when, e),
               \A j \in 1..(i - 1) : init[j].op = "cut" => ~Holds(init[j].when, e)
        PROVE  init[i].buf \in acc.live
    <3>1. PICK j \in 1..n : init[j].op = "cut" /\ Holds(init[j].when, e)
      BY <2>2, <2>3
    <3>2. i # m
      BY <1>3, <2>3, <3>1
    <3> QED BY <1>3, <2>3, <3>2 DEF Made
  <2> QED BY <1>3, <1>4, <2>1, <2>2, <2>3 DEF Made
<1>5. CASE acc.rv = "AMVP_SUCCESS" /\ ~Holds(step.when, e)
  <2>1. next = acc
    BY <1>1, <1>5
  <2> QED BY <1>3, <1>5, <2>1 DEF Made
<1>6. CASE acc.rv = "AMVP_SUCCESS" /\ Holds(step.when, e)
  <2>1. /\ next.rv = code /\ acc.live \subseteq next.live
        /\ step.op \in {"alloc", "held"} => step.buf \in next.live
    BY <1>1, <1>6
  <2>2. next.rv = "cut" => \E j \in 1..m : init[j].op = "cut" /\ Holds(init[j].when, e)
    BY <1>2, <1>3, <1>6, <2>1
  <2>3. ASSUME NEW i \in 1..m, init[i].op \in {"alloc", "held"}, Holds(init[i].when, e),
               \A j \in 1..(i - 1) : init[j].op = "cut" => ~Holds(init[j].when, e)
        PROVE  init[i].buf \in next.live
    <3>1. CASE i = m
      BY <2>1, <2>3, <3>1
    <3>2. CASE i # m
      BY <1>3, <1>6, <2>1, <2>3, <3>2 DEF Made
    <3> QED BY <3>1, <3>2
  <2> QED BY <2>2, <2>3 DEF Made
<1> QED BY <1>4, <1>5, <1>6

LEMMA InitRunMakes ==
    ASSUME NEW init, NEW e, Len(init) \in Nat, DOMAIN init = 1..Len(init)
    PROVE  Made(init, e, Len(init), InitRun(init, e, 0))
<1>1. InitRun(init, e, 0) = (CHOOSE g : Outcomes(init, e, 0, Len(init), g))[Len(init)]
  BY Zenon DEF InitRun, Outcomes
<1>2. PICK g : Outcomes(init, e, 0, Len(init), g) /\ InitRun(init, e, 0) = g[Len(init)]
  BY <1>1, OutcomesExist, Zenon
<1>3. \A m \in 0..Len(init) : g[m] = IF m = 0 THEN [rv |-> "AMVP_SUCCESS", live |-> {}]
                                      ELSE InitStep(g[m - 1], init[m], e, m = 0)
  BY <1>2 DEF Outcomes
<1> DEFINE T == {m \in 0..Len(init) : ~Made(init, e, m, g[m])}
<1>4. SUFFICES ASSUME T # {} PROVE FALSE
  BY <1>2
<1>5. PICK m \in T : \A y \in T : m <= y
  <2>1. T \in SUBSET Nat
    OBVIOUS
  <2> QED BY <1>4, <2>1, Least
<1>6. CASE m = 0
  <2>1. g[0] = [rv |-> "AMVP_SUCCESS", live |-> {}]
    <3>1. 0 \in 0..Len(init)
      OBVIOUS
    <3> QED BY <1>3, <3>1, Zenon
  <2>2. Made(init, e, 0, g[0])
    BY <2>1 DEF Made
  <2> QED BY <1>5, <1>6, <2>2
<1>7. CASE m # 0
  <2>1. m - 1 \in Nat /\ m - 1 \in 0..Len(init) /\ m - 1 \notin T /\ (m - 1) + 1 = m
    BY <1>5, <1>7
  <2>2. Made(init, e, m - 1, g[m - 1])
    BY <2>1
  <2>3. Made(init, e, (m - 1) + 1, InitStep(g[m - 1], init[(m - 1) + 1], e, FALSE))
    BY <2>1, <2>2, MadeNext
  <2>4. g[m] = InitStep(g[m - 1], init[m], e, m = 0)
    BY <1>3, <1>5, <1>7
  <2>5. g[m] = InitStep(g[m - 1], init[m], e, FALSE)
    <3>1. (m = 0) = FALSE
      BY <1>7
    <3> QED BY <2>4, <3>1
  <2> QED BY <1>5, <2>1, <2>3, <2>5
<1> QED BY <1>6, <1>7

(***************************************************************************)
(* NothingStale and ConversionsHaveBuffers.  What is stale is a variable   *)
(* that outlives its loop body and that this group and this test have not  *)
(* assigned; the values of the others were let through by the statements   *)
(* that assigned them.                                                     *)
(***************************************************************************)
InGroup == pc \in {"test", "init", "crypto", "output"}
Unset(S) == \A x \in S \cap F.variables : env[x] = "unset"

\* Of the variables e: s are not the ones that end with the loop, nor those of another cipher.
MayBeStale(e, s) ==
    /\ s \subseteq (Names(H.group) \cup Names(H.test)) \ Fresh(handler)
    /\ \A x \in F.variables : Foreign(handler, x, e) => e[x] = "unset" /\ x \notin s
\* What the group has assigned is not among s; u are the stale ones its conditions looked at.
GroupSound(e, s, u) ==
    /\ u \subseteq H.carried
    /\ s \cap Renewing[handler] = {}
    /\ \A x : Assigns(H.group, x, Fleeting(handler), e) => x \notin s
    /\ GroupTold(handler, e)
\* The same for the current test.
TestSound(e, s) ==
    /\ \A x : Assigns(H.test, x, {}, e) => x \notin s
    /\ TestTold(handler, e)

StaleInv ==
    /\ MayBeStale(env, stale)
    /\ pc \in {"start", "group"} => stale = {} /\ used = {} /\ Unset(F.afterGroup \ F.perTest)
    /\ pc \in {"start", "group", "test"} => Unset(F.afterTest \cap F.perTest)
    /\ InGroup => GroupSound(env, stale, used)
    /\ pc \in {"init", "crypto", "output"} => TestSound(env, stale)
    /\ pc = "crypto" => /\ live = InitRun(H.init, env, 0).live
                        /\ InitRun(H.init, env, 0).rv \in {"AMVP_SUCCESS", "cut"}

(* What the tables say about the variables.                                *)
LEMMA TableNames ==
    ASSUME handler \in DOMAIN Handlers
    PROVE  /\ F = Facts[handler] /\ H = Handlers[handler]
           /\ F.variables = {"alg"} \cup Names(H.group) \cup Names(H.test)
           /\ F.perTest = Names(H.test) \ Names(H.group)
           /\ "alg" \notin Names(H.group) \cup Names(H.test) \cup F.afterTest \cup F.afterGroup
           /\ Renewing[handler] \subseteq Names(H.group)
           /\ \A steps \in {H.group, H.test} :
                /\ Len(steps) \in Nat /\ DOMAIN steps = 1..Len(steps)
                /\ \A i \in DOMAIN steps :
                     /\ "AMVP_SUCCESS" \notin {steps[i].absent, steps[i].bad} /\ steps[i].value # "unset"
                     /\ steps[i].v \in Names(steps) /\ Reads(steps[i].when) \subseteq F.variables
<1>1. F = Facts[handler] /\ H = Handlers[handler] /\ F.perTest = Names(H.test) \ Names(H.group)
  BY DEF F, H, Facts, PerTest
<1>2. Renewing[handler] \subseteq Names(H.group)
  BY DEF Renewing, H
<1>3. ASSUME NEW steps \in {H.group, H.test}, NEW i \in DOMAIN steps
      PROVE  /\ "AMVP_SUCCESS" \notin {steps[i].absent, steps[i].bad} /\ steps[i].value # "unset"
             /\ steps[i].v \in Names(steps) /\ Reads(steps[i].when) \subseteq F.variables
  <2>1. WellFormed(handler)
    BY TablesAssumption
  <2>2. "AMVP_SUCCESS" \notin {steps[i].absent, steps[i].bad} /\ steps[i].value # "unset"
    BY <1>1, <2>1 DEF WellFormed
  <2>3. \A c \in steps[i].when : c[1] \in F.variables
    BY <1>1, TableWords
  <2> QED BY <2>2, <2>3 DEF Names, Reads
<1> QED BY <1>1, <1>2, <1>3, TableDeciding

(* The statements meet the objects of the vector set as they are meant to. *)
LEMMA ObjectsProper ==
    ASSUME handler \in DOMAIN Handlers, Typed(handler, env), NEW in
    PROVE  /\ in \in GroupObjects[<<handler, env["alg"]>>] => Proper(H.group, env, in)
           /\ in \in TestObjects[<<handler, env["alg"]>>] => Proper(H.test, env, in)
<1>1. /\ ObjectsChecked(H.group, env["alg"], GroupObjects[<<handler, env["alg"]>>])
      /\ ObjectsChecked(H.test, env["alg"], TestObjects[<<handler, env["alg"]>>])
  BY TablesAssumption, TableNames DEF Typed
<1>2. env = [x \in F.variables |-> env[x]] /\ "alg" \in F.variables
  BY TableNames DEF Typed
<1>3. ASSUME NEW steps \in {H.group, H.test}, NEW objects, ObjectsChecked(steps, env["alg"], objects), in \in objects
      PROVE  Proper(steps, env, in)
  <2>1. DOMAIN env = F.variables
    BY <1>2
  <2>2. \A i \in DOMAIN steps : steps[i].v \in F.variables
    BY TableNames
  <2> QED BY <1>2, <1>3, <2>1, <2>2, TableNames DEF Proper, ObjectsChecked
<1> QED BY <1>1, <1>3

(* A statement that is settled for good is settled now.                    *)
LEMMA SettledNow ==
    ASSUME NEW steps, NEW i, NEW later
    PROVE  /\ Settled(steps, i, later) => Settled(steps, i, {})
           /\ Firm(steps, i, later) => Firm(steps, i, {})
  BY DEF Settled, Firm

(* After a run through the statements that was not refused.                *)
LEMMA AfterReading ==
    ASSUME NEW steps, NEW e, NEW old, NEW in, NEW later, Proper(steps, e, in),
           ReadFields(steps, e, old, in).rv = "AMVP_SUCCESS"
    PROVE  LET read == ReadFields(steps, e, old, in)
           IN  /\ \A x : Assigns(steps, x, later, read.env) => x \notin read.stale
               /\ \A i \in DOMAIN steps : Told(steps, i, later, read.env)
<1> DEFINE read == ReadFields(steps, e, old, in)
<1>1. StillStale(steps, e, old, Len(steps), read) /\ LetThrough(steps, Len(steps), read)
  BY ReadFieldsStale
<1>2. Len(steps) \in Nat /\ DOMAIN steps = 1..Len(steps)
  BY DEF Proper
<1> SUFFICES /\ \A x : Assigns(steps, x, later, read.env) => x \notin read.stale
             /\ \A i \in DOMAIN steps : Told(steps, i, later, read.env)
  BY Zenon
<1>r. read.rv = "AMVP_SUCCESS"
  OBVIOUS
<1> HIDE DEF read
<1>3. ASSUME NEW x, Assigns(steps, x, later, read.env) PROVE x \notin read.stale
  <2>1. PICK i \in DOMAIN steps : steps[i].v = x /\ Firm(steps, i, later) /\ Holds(steps[i].when, read.env)
    BY <1>3 DEF Assigns
  <2> QED BY <1>1, <1>2, <1>r, <2>1, SettledNow DEF StillStale
<1>4. ASSUME NEW i \in DOMAIN steps, Firm(steps, i, later), Holds(steps[i].when, read.env),
             \A j \in Assigning(steps, steps[i].v) : j > i => Settled(steps, j, later) /\ ~Holds(steps[j].when, read.env)
      PROVE  Accepts(steps[i], read.env[steps[i].v])
  <2>1. ASSUME NEW j \in (i + 1)..Len(steps), steps[j].v = steps[i].v
        PROVE  Settled(steps, j, {}) /\ ~Holds(steps[j].when, read.env)
    <3>1. j \in Assigning(steps, steps[i].v) /\ j > i
      BY <1>2, <2>1 DEF Assigning
    <3> QED BY <1>4, <3>1, SettledNow
  <2>2. i \in 1..Len(steps) /\ Firm(steps, i, {})
    BY <1>2, <1>4, SettledNow
  <2> QED BY <1>1, <1>4, <1>r, <2>1, <2>2 DEF LetThrough
<1> QED BY <1>3, <1>4 DEF Told

(* What a group has let through stays as it is while its tests change only *)
(* their own variables.                                                    *)
LEMMA GroupPersists ==
    ASSUME handler \in DOMAIN Handlers, NEW e, NEW f, DOMAIN e = F.variables, DOMAIN f = F.variables,
           \A x \in F.variables \ Fleeting(handler) : e[x] = f[x],
           \A i \in DOMAIN H.group : Untouched(handler, i, e) => e[H.group[i].v] = f[H.group[i].v]
    PROVE  /\ GroupTold(handler, e) => GroupTold(handler, f)
           /\ \A x : Assigns(H.group, x, Fleeting(handler), f) => Assigns(H.group, x, Fleeting(handler), e)
<1> DEFINE later == Fleeting(handler)
<1>1. ASSUME NEW i \in DOMAIN H.group, Settled(H.group, i, later)
      PROVE  Holds(H.group[i].when, e) <=> Holds(H.group[i].when, f)
  <2>1. Reads(H.group[i].when) \subseteq F.variables \ later
    BY <1>1, TableNames DEF Settled
  <2> QED BY <2>1, HoldsAlike
<1>2. ASSUME NEW i \in DOMAIN H.group, Untouched(handler, i, f) PROVE Untouched(handler, i, e)
  BY <1>2, TableNames DEF Untouched, Skipped
<1>3. ASSUME GroupTold(handler, e), NEW i \in DOMAIN H.group, Untouched(handler, i, f)
      PROVE  Told(H.group, i, later, f)
  <2> DEFINE x == H.group[i].v
  <2>1. SUFFICES ASSUME Firm(H.group, i, later), {x} \cup Looks(H.group, x) \subseteq F.variables,
                        Holds(H.group[i].when, f),
                        \A j \in Assigning(H.group, x) : j > i => Settled(H.group, j, later) /\ ~Holds(H.group[j].when, f)
                 PROVE  Accepts(H.group[i], f[x])
    BY DEF Told
  <2>2. Told(H.group, i, later, e) /\ e[x] = f[x]
    BY <1>2, <1>3, TableNames DEF GroupTold
  <2>3. Holds(H.group[i].when, e)
    BY <1>1, <2>1 DEF Firm
  <2>4. \A j \in Assigning(H.group, x) : j > i => Settled(H.group, j, later) /\ ~Holds(H.group[j].when, e)
    BY <1>1, <2>1 DEF Assigning
  <2>5. Accepts(H.group[i], e[x])
    BY <2>1, <2>2, <2>3, <2>4 DEF Told
  <2> QED BY <2>2, <2>5
<1>4. ASSUME NEW x, Assigns(H.group, x, later, f) PROVE Assigns(H.group, x, later, e)
  BY <1>1, <1>4 DEF Assigns, Firm
<1> QED BY <1>3, <1>4, TableNames DEF GroupTold

(* Whether a cipher has a field depends on the cipher.                     *)
LEMMA ForeignAlike ==
    ASSUME NEW h, NEW x, NEW e, NEW f, "alg" \in DOMAIN e, "alg" \in DOMAIN f, e["alg"] = f["alg"]
    PROVE  Foreign(h, x, e) <=> Foreign(h, x, f)
<1>1. ASSUME NEW steps PROVE Skipped(steps, x, {"alg"}, e) <=> Skipped(steps, x, {"alg"}, f)
  BY DEF Skipped
<1> QED BY <1>1 DEF Foreign

(* A variable of the groups that each of them assigns is not stale.        *)
LEMMA RenewingAssigned ==
    ASSUME handler \in DOMAIN Handlers, NEW e, Typed(handler, e), NEW x \in Renewing[handler]
    PROVE  Assigns(H.group, x, {}, e) \/ Foreign(handler, x, e)
<1> DEFINE R == Sources(handler, x)
           r == Rough(handler, e, R)
<1>1. R \subseteq F.variables
  <2>1. ASSUME NEW steps \in {H.group, H.test} PROVE Looks(steps, x) \subseteq F.variables
    BY TableNames DEF Looks, Assigning
  <2> QED BY <2>1, TableNames DEF Sources
<1>2. r \in Valuations(handler, R)
  BY RoughIsValuation
<1>3. Assigns(H.group, x, {}, r) \/ Foreign(handler, x, r)
  BY <1>2, TableNames DEF Renewing
<1> HIDE DEF R
<1> QED BY <1>1, <1>3, RoughAssigns, RoughForeign, TableNames

(* A group that was not refused.                                           *)
LEMMA GroupRead ==
    ASSUME handler \in DOMAIN Handlers, Typed(handler, env), StaleInv, pc = "group",
           NEW in \in GroupObjects[<<handler, env["alg"]>>],
           NEW old, old = Kept(Names(H.group) \cup Names(H.test)),
           NEW read, read = ReadFields(H.group, env, old, in), read.rv = "AMVP_SUCCESS"
    PROVE  /\ MayBeStale(read.env, read.stale) /\ GroupSound(read.env, read.stale, read.used)
           /\ \A x \in F.afterTest \cap F.perTest \cap F.variables : read.env[x] = "unset"
<1>1. Proper(H.group, env, in)
  BY ObjectsProper
<1>2. StillStale(H.group, env, old, Len(H.group), read)
  BY <1>1, ReadFieldsStale
<1>3. DOMAIN env = F.variables /\ DOMAIN read.env = F.variables /\ "alg" \in F.variables
  <2>1. DOMAIN env = F.variables
    BY TableNames DEF Typed
  <2>2. DOMAIN read.env = DOMAIN env
    BY <1>2 DEF StillStale
  <2> QED BY <2>1, <2>2, TableNames
<1>4. read.env["alg"] = env["alg"] /\ Typed(handler, read.env)
  <2>1. read.env["alg"] = env["alg"]
    BY <1>2, <1>3, TableNames DEF StillStale
  <2>2. read.env = [x \in F.variables |-> read.env[x]]
    BY <1>2, <1>3 DEF StillStale
  <2> QED BY <2>1, <2>2, TableNames DEF Typed
<1>5. /\ read.stale \subseteq old /\ old \subseteq Names(H.group) \cup Names(H.test)
      /\ old \cap Fresh(handler) = {}
  <2>1. read.stale \subseteq old /\ \A x \in old : x \in Names(H.group) \cup Names(H.test) /\ env[x] # "unset"
    BY <1>2 DEF StillStale, Kept
  <2>2. \A x \in Fresh(handler) \cap F.variables : env[x] = "unset"
    BY TableNames DEF Fresh, StaleInv, Unset
  <2>3. old \cap Fresh(handler) = {}
    BY <2>1, <2>2, TableNames
  <2> QED BY <2>1, <2>3
<1>6. ASSUME NEW x \in F.variables, Foreign(handler, x, read.env)
      PROVE  read.env[x] = "unset" /\ x \notin read.stale
  <2>1. Foreign(handler, x, env)
    BY <1>3, <1>4, <1>6, ForeignAlike
  <2>2. env[x] = "unset"
    BY <2>1 DEF StaleInv, MayBeStale
  <2>3. Skipped(H.group, x, F.variables \ Names(H.group), env)
    BY <2>1, TableNames DEF Foreign, Skipped
  <2>4. read.env[x] = env[x]
    BY <1>2, <1>3, <2>3 DEF StillStale
  <2> QED BY <1>5, <2>2, <2>4 DEF Kept
<1>7. MayBeStale(read.env, read.stale)
  BY <1>5, <1>6 DEF MayBeStale
<1>8. ASSUME NEW x \in F.afterTest \cap F.perTest \cap F.variables
      PROVE  read.env[x] = "unset"
  <2>1. env[x] = "unset"
    BY DEF StaleInv, Unset
  <2>2. read.env[x] = env[x]
    BY <1>2, <1>3, TableNames DEF StillStale
  <2> QED BY <2>1, <2>2
<1>9. read.used \subseteq H.carried
  <2>1. ASSUME NEW x \in read.used PROVE x \in H.carried
    <3>1. PICK j \in 1..Len(H.group) : x \in Reads(H.group[j].when) /\ x \in old \ Before(H.group, j)
      BY <1>2 DEF StillStale
    <3>2. x \in H.carried \cup Fresh(handler) \cup {"alg"} \cup Before(H.group, j)
      <4>1. ConditionsChecked(handler)
        BY TablesAssumption
      <4>2. j \in DOMAIN H.group
        BY TableNames
      <4> QED BY <3>1, <4>1, <4>2, TableNames DEF ConditionsChecked
    <3> QED BY <1>5, <3>1, <3>2, TableNames
  <2> QED BY <2>1
<1>10. /\ \A x : Assigns(H.group, x, {}, read.env) => x \notin read.stale
       /\ \A x : Assigns(H.group, x, Fleeting(handler), read.env) => x \notin read.stale
       /\ \A i \in DOMAIN H.group : Told(H.group, i, Fleeting(handler), read.env)
  BY <1>1, AfterReading
<1>11. read.stale \cap Renewing[handler] = {}
  <2>1. ASSUME NEW x \in Renewing[handler] PROVE x \notin read.stale
    <3>1. Assigns(H.group, x, {}, read.env) \/ Foreign(handler, x, read.env)
      BY <1>4, RenewingAssigned
    <3>2. x \in F.variables
      BY TableNames
    <3> QED BY <1>6, <1>10, <3>1, <3>2
  <2> QED BY <2>1
<1>12. GroupTold(handler, read.env)
  BY <1>10, TableNames DEF GroupTold
<1> QED BY <1>7, <1>8, <1>9, <1>10, <1>11, <1>12 DEF GroupSound

(* A test that was not refused.                                            *)
LEMMA TestRead ==
    ASSUME handler \in DOMAIN Handlers, Typed(handler, env), StaleInv, pc = "test",
           NEW in \in TestObjects[<<handler, env["alg"]>>],
           NEW old, old = stale \cup Kept(F.perTest),
           NEW read, read = ReadFields(H.test, env, old, in), read.rv = "AMVP_SUCCESS"
    PROVE  /\ MayBeStale(read.env, read.stale) /\ GroupSound(read.env, read.stale, used \cup read.used)
           /\ TestSound(read.env, read.stale)
<1>1. Proper(H.test, env, in)
  BY ObjectsProper
<1>2. StillStale(H.test, env, old, Len(H.test), read)
  BY <1>1, ReadFieldsStale
<1>3. DOMAIN env = F.variables /\ DOMAIN read.env = F.variables /\ "alg" \in F.variables
  <2>1. DOMAIN env = F.variables
    BY TableNames DEF Typed
  <2>2. DOMAIN read.env = DOMAIN env
    BY <1>2 DEF StillStale
  <2> QED BY <2>1, <2>2, TableNames
<1>4. read.env["alg"] = env["alg"]
  BY <1>2, <1>3, TableNames DEF StillStale
<1>s. MayBeStale(env, stale) /\ GroupSound(env, stale, used) /\ Unset(F.afterTest \cap F.perTest)
  BY DEF StaleInv, InGroup
<1>5. /\ read.stale \subseteq old /\ old \subseteq Names(H.group) \cup Names(H.test)
      /\ old \cap Fresh(handler) = {} /\ old \subseteq stale \cup F.perTest
      /\ \A x \in old \ stale : env[x] # "unset"
  <2>1. read.stale \subseteq old /\ \A x \in old : x \in stale \/ (x \in F.perTest /\ env[x] # "unset")
    BY <1>2 DEF StillStale, Kept
  <2>2. \A x \in Fresh(handler) \cap F.perTest \cap F.variables : env[x] = "unset"
    BY <1>s, TableNames DEF Fresh, Unset
  <2>3. stale \subseteq (Names(H.group) \cup Names(H.test)) \ Fresh(handler)
    BY <1>s DEF MayBeStale
  <2> QED BY <2>1, <2>2, <2>3, TableNames
<1>6. ASSUME NEW x \in F.variables, Foreign(handler, x, read.env)
      PROVE  read.env[x] = "unset" /\ x \notin read.stale
  <2>1. Foreign(handler, x, env)
    BY <1>3, <1>4, <1>6, ForeignAlike
  <2>2. env[x] = "unset" /\ x \notin stale
    BY <1>s, <2>1 DEF MayBeStale
  <2>3. Skipped(H.test, x, F.variables \ Names(H.test), env)
    BY <2>1, TableNames DEF Foreign, Skipped
  <2>4. read.env[x] = env[x]
    BY <1>2, <1>3, <2>3 DEF StillStale
  <2> QED BY <1>5, <2>2, <2>4
<1>7. MayBeStale(read.env, read.stale)
  BY <1>5, <1>6 DEF MayBeStale
<1>8. old \cap Renewing[handler] = {}
  BY <1>s, <1>5, TableNames DEF GroupSound
<1>9. used \cup read.used \subseteq H.carried
  <2>1. ASSUME NEW x \in read.used PROVE x \in H.carried
    <3>1. PICK j \in 1..Len(H.test) : x \in Reads(H.test[j].when) /\ x \in old \ Before(H.test, j)
      BY <1>2 DEF StillStale
    <3>2. x \in H.carried \cup Fresh(handler) \cup {"alg"} \cup Renewing[handler] \cup Before(H.test, j)
      <4>1. ConditionsChecked(handler)
        BY TablesAssumption
      <4>2. j \in DOMAIN H.test
        BY TableNames
      <4> QED BY <3>1, <4>1, <4>2, TableNames DEF ConditionsChecked
    <3> QED BY <1>5, <1>8, <3>1, <3>2, TableNames
  <2> QED BY <1>s, <2>1 DEF GroupSound
<1>10. /\ GroupTold(handler, env) => GroupTold(handler, read.env)
       /\ \A x : Assigns(H.group, x, Fleeting(handler), read.env) => Assigns(H.group, x, Fleeting(handler), env)
  <2>1. \A x \in F.variables \ Fleeting(handler) : env[x] = read.env[x]
    BY <1>2, <1>3, TableNames DEF StillStale, Fleeting
  <2>2. ASSUME NEW i \in DOMAIN H.group, Untouched(handler, i, env)
        PROVE  env[H.group[i].v] = read.env[H.group[i].v]
    <3>1. Skipped(H.test, H.group[i].v, F.variables \ Names(H.test), env)
      BY <2>2, TableNames DEF Untouched, Skipped, Fleeting
    <3>2. H.group[i].v \in F.variables
      BY TableNames
    <3> QED BY <1>2, <1>3, <3>1, <3>2 DEF StillStale
  <2> QED BY <1>3, <2>1, <2>2, GroupPersists
<1>11. ASSUME NEW x, Assigns(H.group, x, Fleeting(handler), read.env) PROVE x \notin read.stale
  <2>1. x \notin stale
    BY <1>s, <1>10, <1>11 DEF GroupSound
  <2>2. x \in Names(H.group)
    BY <1>11, TableNames DEF Assigns
  <2> QED BY <1>5, <2>1, <2>2, TableNames
<1>12. GroupSound(read.env, read.stale, used \cup read.used)
  BY <1>s, <1>5, <1>8, <1>9, <1>10, <1>11 DEF GroupSound
<1>13. TestSound(read.env, read.stale)
  <2>1. /\ \A x : Assigns(H.test, x, {}, read.env) => x \notin read.stale
        /\ \A i \in DOMAIN H.test : Told(H.test, i, {}, read.env)
    BY <1>1, AfterReading
  <2> QED BY <2>1, TableNames DEF TestSound, TestTold
<1> QED BY <1>7, <1>12, <1>13

(* The end of a test, and of a group: the variables `gone' are gone.       *)
LEMMA RenewedFacts ==
    ASSUME handler \in DOMAIN Handlers, Typed(handler, env), NEW gone, "alg" \notin gone
    PROVE  /\ DOMAIN Renewed(gone) = F.variables /\ Renewed(gone)["alg"] = env["alg"] /\ "alg" \in F.variables
           /\ \A x \in F.variables \cap gone : Renewed(gone)[x] = "unset"
           /\ \A x \in F.variables \ gone : Renewed(gone)[x] = env[x]
<1>1. DOMAIN env = F.variables /\ "alg" \in F.variables
  BY TableNames DEF Typed
<1> QED BY <1>1 DEF Renewed

LEMMA RenewedMayBeStale ==
    ASSUME handler \in DOMAIN Handlers, Typed(handler, env), NEW gone, "alg" \notin gone, NEW s \in SUBSET stale,
           MayBeStale(env, stale)
    PROVE  MayBeStale(Renewed(gone), s)
<1>1. DOMAIN env = F.variables
  BY TableNames DEF Typed
<1>2. ASSUME NEW x \in F.variables, Foreign(handler, x, Renewed(gone))
      PROVE  Renewed(gone)[x] = "unset" /\ x \notin s
  <2>1. Foreign(handler, x, env)
    BY <1>1, <1>2, ForeignAlike, RenewedFacts
  <2>2. env[x] = "unset" /\ x \notin stale
    BY <2>1 DEF MayBeStale
  <2> QED BY <2>2, RenewedFacts
<1> QED BY <1>2 DEF MayBeStale

LEMMA TestEnds ==
    ASSUME handler \in DOMAIN Handlers, Typed(handler, env), GroupSound(env, stale, used)
    PROVE  GroupSound(Renewed(F.afterTest), stale \ F.afterTest, used)
<1> DEFINE e == Renewed(F.afterTest)
<1>1. /\ DOMAIN env = F.variables /\ DOMAIN e = F.variables
      /\ \A x \in F.variables \ F.afterTest : e[x] = env[x]
  BY RenewedFacts, TableNames DEF Typed
<1> HIDE DEF e
<1>2. \A x \in F.variables \ Fleeting(handler) : env[x] = e[x]
  BY <1>1, TableNames DEF Fleeting
<1>3. ASSUME NEW i \in DOMAIN H.group, Untouched(handler, i, env) PROVE env[H.group[i].v] = e[H.group[i].v]
  <2>1. H.group[i].v \in F.variables \ F.afterTest
    BY <1>3, TableNames DEF Untouched
  <2> QED BY <1>1, <2>1
<1>4. /\ GroupTold(handler, env) => GroupTold(handler, e)
      /\ \A x : Assigns(H.group, x, Fleeting(handler), e) => Assigns(H.group, x, Fleeting(handler), env)
  BY <1>1, <1>2, <1>3, GroupPersists
<1>5. GroupSound(e, stale \ F.afterTest, used)
  BY <1>4 DEF GroupSound
<1> QED BY <1>5 DEF e

(* The next element of a field of which the test has an array.             *)
LEMMA PartRead ==
    ASSUME handler \in DOMAIN Handlers, Typed(handler, env), MayBeStale(env, stale), GroupSound(env, stale, used),
           TestSound(env, stale), NEW n \in DOMAIN H.test, H.test[n].v \in H.divided, NEW w \in H.test[n].legal,
           NEW e, e = [env EXCEPT ![H.test[n].v] = w]
    PROVE  MayBeStale(e, stale) /\ GroupSound(e, stale, used) /\ TestSound(e, stale)
<1> DEFINE x == H.test[n].v
<1>1. DividedChecked(handler) /\ H = Handlers[handler] /\ F = Facts[handler]
  BY TablesAssumption, TableNames
<1>2. /\ DOMAIN env = F.variables /\ DOMAIN e = F.variables /\ x \in F.variables \ {"alg"}
      /\ e[x] = w /\ \A y \in F.variables \ {x} : e[y] = env[y]
  BY TableNames DEF Typed
<1>3. /\ x \notin Names(H.group)
      /\ \A steps \in {H.group, H.test} : \A i \in DOMAIN steps : x \notin Reads(steps[i].when)
  <2>1. x \notin Names(H.group) /\ x \notin {c[1] : c \in Conditions(handler)}
    BY <1>1 DEF DividedChecked
  <2>2. \A steps \in {H.group, H.test} : \A i \in DOMAIN steps : steps[i].when \subseteq Conditions(handler)
    BY <1>1 DEF Conditions
  <2> QED BY <2>1, <2>2 DEF Reads
<1>4. /\ \A i \in DOMAIN H.test : H.test[i].v = x =>
            i = n /\ H.test[i].when = {} /\ H.test[i].input /\ H.test[i].legal \cap Null = {}
      /\ \A i \in DOMAIN H.group : H.group[i].v # x
  BY <1>1, <1>3 DEF DividedChecked, Names
<1> HIDE DEF x
<1>5. ASSUME NEW steps \in {H.group, H.test}, NEW i \in DOMAIN steps
      PROVE  Holds(steps[i].when, e) = Holds(steps[i].when, env)
  <2>1. Reads(steps[i].when) \subseteq F.variables \ {x}
    BY <1>3, TableNames
  <2>2. \A c \in steps[i].when : e[c[1]] = env[c[1]]
    BY <1>2, <2>1 DEF Reads
  <2> QED BY <2>2 DEF Holds
<1>6. ASSUME NEW y \in F.variables, Foreign(handler, y, e) PROVE e[y] = "unset" /\ y \notin stale
  <2>1. Foreign(handler, y, env)
    BY <1>2, <1>6, ForeignAlike, TableNames
  <2>2. y # x
    BY <1>1, <1>4, <2>1 DEF Foreign, Skipped, x
  <2> QED BY <1>2, <2>1, <2>2 DEF MayBeStale
<1>7. /\ GroupTold(handler, env) => GroupTold(handler, e)
      /\ \A y : Assigns(H.group, y, Fleeting(handler), e) => Assigns(H.group, y, Fleeting(handler), env)
  <2>1. x \in Fleeting(handler)
    BY <1>1, TableNames DEF Fleeting, x
  <2>2. \A i \in DOMAIN H.group : env[H.group[i].v] = e[H.group[i].v]
    BY <1>2, <1>4, TableNames
  <2>3. \A y \in F.variables \ Fleeting(handler) : env[y] = e[y]
    BY <1>2, <2>1
  <2>4. DOMAIN env = F.variables /\ DOMAIN e = F.variables
    BY <1>2
  <2> QED BY <2>2, <2>3, <2>4, GroupPersists
<1>8. ASSUME NEW y, Assigns(H.test, y, {}, e) PROVE y \notin stale
  <2>1. Assigns(H.test, y, {}, env)
    BY <1>2, <1>5, <1>8 DEF Assigns
  <2> QED BY <2>1 DEF TestSound
<1>9. ASSUME NEW i \in DOMAIN H.test PROVE Told(H.test, i, {}, e)
  <2>1. CASE H.test[i].v = x
    <3>1. i = n /\ e[H.test[i].v] = w /\ H.test[i].input /\ w \notin Null
      BY <1>2, <1>4, <2>1
    <3>2. Accepts(H.test[i], e[H.test[i].v])
      BY <3>1 DEF Accepts, Null
    <3> QED BY <3>2 DEF Told
  <2>2. CASE H.test[i].v # x
    <3>1. Told(H.test, i, {}, env) /\ e[H.test[i].v] = env[H.test[i].v]
      BY <1>1, <1>2, <2>2, TableNames DEF TestSound, TestTold
    <3>2. \A j \in Assigning(H.test, H.test[i].v) : Holds(H.test[j].when, e) = Holds(H.test[j].when, env)
      BY <1>5 DEF Assigning
    <3>3. Holds(H.test[i].when, e) = Holds(H.test[i].when, env)
      BY <1>5
    <3> QED BY <1>2, <3>1, <3>2, <3>3 DEF Told
  <2> QED BY <2>1, <2>2
<1>10. MayBeStale(e, stale)
  BY <1>6 DEF MayBeStale
<1>11. GroupSound(e, stale, used)
  BY <1>7 DEF GroupSound
<1>12. TestSound(e, stale)
  BY <1>1, <1>8, <1>9 DEF TestSound, TestTold
<1> QED BY <1>10, <1>11, <1>12

LEMMA StaleInit == Init => StaleInv
<1> SUFFICES ASSUME Init PROVE StaleInv
  OBVIOUS
<1>1. handler \in DOMAIN Handlers /\ pc = "start" /\ stale = {} /\ used = {}
  BY DEF Init
<1>2. \A x \in F.variables : x # "alg" => env[x] = "unset"
  BY DEF Init
<1>3. "alg" \notin F.afterTest \cup F.afterGroup
  BY <1>1, TableNames
<1>4. MayBeStale(env, stale)
  BY <1>1, <1>2 DEF MayBeStale, Foreign
<1> QED BY <1>1, <1>2, <1>3, <1>4 DEF StaleInv, Unset, InGroup

(* A step that returns.                                                    *)
LEMMA ReturnStale ==
    ASSUME handler' = handler, H' = H, F' = F, DOMAIN env = F.variables, pc' = "done",
           env' = [v \in DOMAIN env |-> "unset"], stale' = {}
    PROVE  StaleInv'
<1>1. \A x \in F'.variables : env'[x] = "unset"
  OBVIOUS
<1>2. MayBeStale(env, stale)'
  BY <1>1 DEF MayBeStale
<1> QED BY <1>2 DEF StaleInv, InGroup

(* A step within a test, which leaves the variables alone.                 *)
LEMMA LocalsStale ==
    ASSUME handler' = handler, H' = H, F' = F, UNCHANGED locals, StaleInv, InGroup => pc \in {"init", "crypto"},
           pc' \in {"output", "crashed"} \/ (pc' = "crypto" /\ pc \in {"init", "crypto"}),
           pc' # "crashed" => InGroup,
           pc' = "crypto" => live' = InitRun(H.init, env, 0).live /\ InitRun(H.init, env, 0).rv \in {"AMVP_SUCCESS", "cut"}
    PROVE  StaleInv'
<1>1. env' = env /\ stale' = stale /\ used' = used
  BY DEF locals
<1>2. MayBeStale(env, stale)' /\ (GroupSound(env, stale, used) => GroupSound(env, stale, used)')
      /\ (TestSound(env, stale) => TestSound(env, stale)')
  BY <1>1 DEF MayBeStale, GroupSound, TestSound, StaleInv
<1> QED BY <1>1, <1>2 DEF StaleInv, InGroup

LEMMA StaleStep == DecidingInv /\ StaleInv /\ [Next]_vars => StaleInv'
<1> SUFFICES ASSUME DecidingInv, StaleInv, [Next]_vars PROVE StaleInv'
  OBVIOUS
<1>0. handler \in DOMAIN Handlers /\ handler' = handler /\ H' = H /\ F' = F
  BY DEF DecidingInv, H, F, Next, vars, Refuse, Setup, BeginGroup, BeginTest, EmptyTest, InitTc, InitTcFails, InitTcIgnored,
         InitTcRefuses, InitTcCrashes, Crypto, CryptoFails, OutputTc, NextPart, OutputTcFails, EndGroup, Finish, Stopped
<1>t. DOMAIN env = F.variables /\ (pc \notin {"done", "crashed"} => Typed(handler, env))
  BY <1>0, TableNames DEF DecidingInv, Typed
<1>s. ASSUME UNCHANGED <<env, stale, used, live>>, pc' = pc PROVE StaleInv'
  BY <1>0, <1>s DEF StaleInv, MayBeStale, GroupSound, TestSound, Unset, InGroup
<1>1. CASE Refuse
  BY <1>0, <1>t, <1>1, ReturnStale DEF Refuse, Return
<1>2. CASE Setup
  <2>1. CASE pc' = "group" /\ UNCHANGED locals /\ pc = "start"
    BY <1>0, <2>1 DEF locals, StaleInv, MayBeStale, Unset, InGroup
  <2>2. CASE \E code \in H.late : Err(code, {"r_vs_val"})
    BY <1>0, <1>t, <2>2, ReturnStale DEF Err, Return
  <2> QED BY <1>2, <2>1, <2>2 DEF Setup
<1>3. CASE BeginGroup
  <2> DEFINE old == Kept(Names(H.group) \cup Names(H.test))
  <2>1. CASE pc' = "done" /\ env' = [v \in DOMAIN env |-> "unset"] /\ stale' = {}
    BY <1>0, <1>t, <2>1, ReturnStale
  <2>2. ASSUME NEW in \in GroupObjects[<<handler, env["alg"]>>], ReadFields(H.group, env, old, in).rv = "AMVP_SUCCESS",
               pc' = "test", env' = ReadFields(H.group, env, old, in).env,
               stale' = ReadFields(H.group, env, old, in).stale, used' = ReadFields(H.group, env, old, in).used
        PROVE  StaleInv'
    <3>1. pc = "group"
      BY <1>3 DEF BeginGroup
    <3>2. /\ MayBeStale(env', stale') /\ GroupSound(env', stale', used')
          /\ \A x \in F.afterTest \cap F.perTest \cap F.variables : env'[x] = "unset"
      BY <1>0, <1>t, <2>2, <3>1, GroupRead
    <3>3. MayBeStale(env, stale)' /\ GroupSound(env, stale, used)'
      BY <1>0, <3>2 DEF MayBeStale, GroupSound
    <3> QED BY <1>0, <2>2, <3>2, <3>3 DEF StaleInv, InGroup, Unset
  <2> QED BY <1>3, <2>1, <2>2 DEF BeginGroup, Err, Return
<1>4. CASE BeginTest
  <2> DEFINE old == stale \cup Kept(F.perTest)
  <2>1. CASE pc' = "done" /\ env' = [v \in DOMAIN env |-> "unset"] /\ stale' = {}
    BY <1>0, <1>t, <2>1, ReturnStale
  <2>2. ASSUME NEW in \in TestObjects[<<handler, env["alg"]>>], ReadFields(H.test, env, old, in).rv = "AMVP_SUCCESS",
               pc' = "init", env' = ReadFields(H.test, env, old, in).env,
               stale' = ReadFields(H.test, env, old, in).stale,
               used' = used \cup ReadFields(H.test, env, old, in).used
        PROVE  StaleInv'
    <3>1. pc = "test"
      BY <1>4 DEF BeginTest
    <3>2. MayBeStale(env', stale') /\ GroupSound(env', stale', used') /\ TestSound(env', stale')
      BY <1>0, <1>t, <2>2, <3>1, TestRead
    <3>3. MayBeStale(env, stale)' /\ GroupSound(env, stale, used)' /\ TestSound(env, stale)'
      BY <1>0, <3>2 DEF MayBeStale, GroupSound, TestSound
    <3> QED BY <1>0, <2>2, <3>3 DEF StaleInv, InGroup
  <2> QED BY <1>4, <2>1, <2>2 DEF BeginTest, Err, Return
<1>5. CASE InitTc
  BY <1>0, <1>5, LocalsStale DEF InitTc, InGroup
<1>6. CASE InitTcFails
  BY <1>0, <1>t, <1>6, ReturnStale DEF InitTcFails, Cleanup, Err, Return
<1>7. CASE InitTcIgnored
  BY <1>0, <1>7, LocalsStale DEF InitTcIgnored, InGroup
<1>8. CASE InitTcRefuses
  BY <1>0, <1>t, <1>8, ReturnStale DEF InitTcRefuses, Cleanup, Err, Return
<1>9. CASE InitTcCrashes
  BY <1>0, <1>9, LocalsStale DEF InitTcCrashes, InGroup
<1>10. CASE Crypto
  <2>1. pc = "crypto" /\ pc' \in {"output", "crypto"} /\ UNCHANGED locals /\ live' = live
    BY <1>10 DEF Crypto
  <2>2. live = InitRun(H.init, env, 0).live /\ InitRun(H.init, env, 0).rv \in {"AMVP_SUCCESS", "cut"}
    BY <2>1 DEF StaleInv
  <2> QED BY <1>0, <2>1, <2>2, LocalsStale DEF InGroup
<1>11. CASE CryptoFails
  BY <1>0, <1>t, <1>11, ReturnStale DEF CryptoFails, Cleanup, Err, Return
<1>12. CASE OutputTc
  <2>1. pc = "output" /\ pc' = "test" /\ env' = Renewed(F.afterTest) /\ stale' = stale \ F.afterTest /\ used' = used
    BY <1>12 DEF OutputTc
  <2>2. MayBeStale(env, stale) /\ GroupSound(env, stale, used) /\ Typed(handler, env) /\ "alg" \notin F.afterTest
    BY <1>0, <1>t, <2>1, TableNames DEF StaleInv, InGroup
  <2>3. MayBeStale(env', stale') /\ GroupSound(env', stale', used')
    BY <1>0, <2>1, <2>2, RenewedMayBeStale, TestEnds
  <2>4. MayBeStale(env, stale)' /\ GroupSound(env, stale, used)'
    BY <1>0, <2>3 DEF MayBeStale, GroupSound
  <2>5. Unset(F.afterTest \cap F.perTest)'
    BY <1>0, <2>1, <2>2, RenewedFacts DEF Unset
  <2> QED BY <1>0, <2>1, <2>4, <2>5 DEF StaleInv, InGroup
<1>13. CASE OutputTcFails
  BY <1>0, <1>t, <1>13, ReturnStale DEF OutputTcFails, Cleanup, Err, Return
<1>14. CASE EndGroup
  <2>1. pc = "test" /\ pc' = "group" /\ env' = Renewed(F.afterGroup) /\ stale' = {} /\ used' = {}
    BY <1>14 DEF EndGroup
  <2>2. MayBeStale(env, stale) /\ Unset(F.afterTest \cap F.perTest) /\ Typed(handler, env) /\ "alg" \notin F.afterGroup
    BY <1>0, <1>t, <2>1, TableNames DEF StaleInv
  <2>3. MayBeStale(env', stale')
    BY <1>0, <2>1, <2>2, RenewedMayBeStale
  <2>4. MayBeStale(env, stale)'
    BY <1>0, <2>3 DEF MayBeStale
  <2>5. Unset(F.afterTest \cap F.perTest)' /\ Unset(F.afterGroup \ F.perTest)'
    BY <1>0, <2>1, <2>2, RenewedFacts DEF Unset
  <2> QED BY <1>0, <2>1, <2>4, <2>5 DEF StaleInv, InGroup
<1>15. CASE Finish
  BY <1>0, <1>t, <1>15, ReturnStale DEF Finish, Return
<1>16. CASE Stopped
  BY <1>16, <1>s DEF Stopped, vars
<1>17. CASE UNCHANGED vars
  BY <1>17, <1>s DEF vars
<1>18. CASE EmptyTest
  BY <1>18, <1>s DEF EmptyTest, locals
<1>19. CASE NextPart
  <2>1. CASE pc' = "done" /\ env' = [v \in DOMAIN env |-> "unset"] /\ stale' = {}
    BY <1>0, <1>t, <2>1, ReturnStale
  <2>2. ASSUME NEW i \in DOMAIN H.test, H.test[i].v \in H.divided, NEW w \in H.test[i].legal,
               env' = [env EXCEPT ![H.test[i].v] = w], pc' = "init", UNCHANGED <<stale, used>>
        PROVE  StaleInv'
    <3>1. pc = "output"
      BY <1>19 DEF NextPart
    <3>2. MayBeStale(env, stale) /\ GroupSound(env, stale, used) /\ TestSound(env, stale)
      BY <3>1 DEF StaleInv, InGroup
    <3>3. MayBeStale(env', stale) /\ GroupSound(env', stale, used) /\ TestSound(env', stale)
      BY <1>0, <1>t, <2>2, <3>1, <3>2, PartRead
    <3>4. MayBeStale(env, stale)' /\ GroupSound(env, stale, used)' /\ TestSound(env, stale)'
      BY <1>0, <2>2, <3>3 DEF MayBeStale, GroupSound, TestSound
    <3> QED BY <1>0, <2>2, <3>4 DEF StaleInv, InGroup
  <2> QED BY <1>19, <2>1, <2>2 DEF NextPart, Err, Return
<1> QED BY <1>1, <1>2, <1>3, <1>4, <1>5, <1>6, <1>7, <1>8, <1>9, <1>10, <1>11, <1>12, <1>13, <1>14,
       <1>15, <1>16, <1>17, <1>18, <1>19 DEF Next

(* The conditions of the tables look at variables of the handler.          *)
LEMMA GuardReads ==
    ASSUME handler \in DOMAIN Handlers
    PROVE  /\ \A g \in SUBSET Conditions(handler) : Reads(g) \subseteq F.variables
           /\ \A x : Sources(handler, x) \subseteq F.variables
           /\ \A i \in DOMAIN H.init : H.init[i].when \subseteq Conditions(handler)
           /\ \A o \in H.outputs \cup H.early : o.when \subseteq Conditions(handler)
           /\ \A g \in H.unmet : g \subseteq Conditions(handler)
<1>1. \A g \in SUBSET Conditions(handler) : Reads(g) \subseteq F.variables
  BY TableWords, TableNames DEF Reads
<1>2. ASSUME NEW x PROVE Sources(handler, x) \subseteq F.variables
  <2>1. ASSUME NEW steps \in {H.group, H.test} PROVE Looks(steps, x) \subseteq F.variables
    BY TableNames DEF Looks, Assigning
  <2> QED BY <2>1, TableNames DEF Sources
<1>3. \A i \in DOMAIN H.init : H.init[i].when \subseteq Conditions(handler)
  BY DEF Conditions, H
<1>4. \A o \in H.outputs \cup H.early : o.when \subseteq Conditions(handler)
  BY DEF Conditions, H
<1>5. \A g \in H.unmet : g \subseteq Conditions(handler)
  BY DEF Conditions, H
<1> QED BY <1>1, <1>2, <1>3, <1>4, <1>5

(* What the invariant says about the rough values of the variables.        *)
LEMMA RoughNow ==
    ASSUME DecidingInv, StaleInv, pc \in {"init", "crypto"}, NEW R, R \subseteq F.variables
    PROVE  /\ Typed(handler, env) /\ Plausible(handler, env)
           /\ Rough(handler, env, R) \in Valuations(handler, R)
           /\ Plausible(handler, Rough(handler, env, R))
<1>1. handler \in DOMAIN Handlers /\ Typed(handler, env)
  BY TableNames DEF DecidingInv, Typed
<1>2. Plausible(handler, env)
  BY DEF StaleInv, InGroup, GroupSound, TestSound, Plausible
<1> QED BY <1>1, <1>2, RoughIsValuation, RoughPlausible, TableNames

(* A variable that the checks find current is not stale.                   *)
LEMMA CurrentNotStale ==
    ASSUME DecidingInv, StaleInv, pc = "init", NEW g \in SUBSET Conditions(handler), Holds(g, env),
           NEW x \in stale, CurrentUnder(handler, x, g)
    PROVE  x \in H.carried
<1> DEFINE R == Reads(g) \cup Sources(handler, x)
           r == Rough(handler, env, R)
<1>1. handler \in DOMAIN Handlers /\ H = Handlers[handler] /\ F = Facts[handler]
  BY TableNames DEF DecidingInv
<1>2. MayBeStale(env, stale) /\ GroupSound(env, stale, used) /\ TestSound(env, stale)
  BY DEF StaleInv, InGroup
<1>3. x \in F.variables /\ x # "alg" /\ x \notin Fresh(handler) /\ x \notin Renewing[handler]
  BY <1>1, <1>2, TableNames DEF MayBeStale, GroupSound
<1>4. SUFFICES ASSUME \A e \in Valuations(handler, R) : Plausible(handler, e) /\ Holds(g, e) => Current(handler, x, e)
               PROVE  FALSE
  BY <1>1, <1>3 DEF CurrentUnder
<1>5. R \subseteq F.variables
  BY <1>1, GuardReads
<1>6. /\ Typed(handler, env) /\ r \in Valuations(handler, R) /\ Plausible(handler, r)
  BY <1>5, RoughNow
<1>7. Holds(g, r)
  BY <1>1, <1>6, RoughHolds
<1>8. Current(handler, x, r)
  BY <1>4, <1>6, <1>7
<1> HIDE DEF R
<1>9. CASE Assigns(H.test, x, {}, r)
  BY <1>1, <1>2, <1>5, <1>6, <1>9, RoughAssigns DEF TestSound
<1>10. CASE Assigns(H.group, x, Fleeting(handler), r)
  BY <1>1, <1>2, <1>5, <1>6, <1>10, RoughAssigns DEF GroupSound
<1>11. CASE Foreign(handler, x, r)
  BY <1>1, <1>2, <1>3, <1>5, <1>6, <1>11, RoughForeign DEF MayBeStale
<1> QED BY <1>1, <1>8, <1>9, <1>10, <1>11 DEF Current

(* The invariant implies what the two theorems say.                        *)
LEMMA StaleSafe == DecidingInv /\ StaleInv => NothingStale
<1> SUFFICES ASSUME DecidingInv, StaleInv, pc = "init"
             PROVE  ((stale \cup WrittenBack) \cap Consulted) \cup used \subseteq H.carried
  BY DEF NothingStale
<1>1. handler \in DOMAIN Handlers /\ H = Handlers[handler] /\ ArgumentsChecked(handler)
  BY TablesAssumption, TableNames DEF DecidingInv
<1>2. used \subseteq H.carried
  BY DEF StaleInv, InGroup, GroupSound
<1>3. ASSUME NEW x \in stale, CurrentUnder(handler, x, {}) PROVE x \in H.carried
  BY <1>3, CurrentNotStale DEF Holds
<1>4. ASSUME NEW i \in DOMAIN H.init, H.init[i].op \notin {"alloc", "held"}, Holds(H.init[i].when, env), H.init[i].v \in stale
      PROVE  H.init[i].v \in H.carried
  <2>1. CurrentUnder(handler, H.init[i].v, H.init[i].when)
    BY <1>1, <1>4 DEF ArgumentsChecked
  <2> QED BY <1>1, <1>4, <2>1, GuardReads, CurrentNotStale
<1>5. ASSUME NEW x \in stale \cap Consulted PROVE x \in H.carried
  <2> DEFINE decoded == {i \in DOMAIN H.init : H.init[i].op \notin {"alloc", "held"} /\ Holds(H.init[i].when, env)}
             scalars == H.args \cup (UNION {Reads(H.init[i].when) : i \in DOMAIN H.init})
                        \cup (UNION {Reads(o.when) : o \in H.outputs}) \cup Reads(H.mct)
  <2>1. x \in {H.init[i].v : i \in decoded} \/ x \in scalars
    BY DEF Consulted
  <2>2. CASE x \in scalars
    <3>1. \A y \in scalars : CurrentUnder(handler, y, {})
      BY <1>1, Zenon DEF ArgumentsChecked
    <3> HIDE DEF scalars
    <3> QED BY <1>3, <2>2, <3>1
  <2>3. CASE x \in {H.init[i].v : i \in decoded}
    BY <1>4, <2>3
  <2> QED BY <2>1, <2>2, <2>3
<1>6. WrittenBack \subseteq H.carried
  BY <1>1, TablesAssumption DEF DividedChecked, WrittenBack
<1> QED BY <1>2, <1>5, <1>6

LEMMA DecodesSafe == DecidingInv /\ StaleInv => NoNullDecoded
<1> SUFFICES ASSUME DecidingInv, StaleInv, pc = "init", NEW i \in DOMAIN H.init,
                    H.init[i].op \in {"decode", "tight", "copy"}, Holds(H.init[i].when, env), env[H.init[i].v] \in Null
             PROVE  RefusedEarly
  BY DEF NoNullDecoded
<1> DEFINE x == H.init[i].v
           R == {x} \cup Reads(H.init[i].when) \cup Sources(handler, x)
           r == Rough(handler, env, R)
<1>1. handler \in DOMAIN Handlers /\ H = Handlers[handler] /\ F = Facts[handler] /\ DecodesChecked(handler) /\ x \in F.variables
  BY TablesAssumption, TableNames DEF DecidingInv, WellFormed
<1>2. ~(Given(x) \subseteq H.init[i].when)
  <2>1. Holds(Given(x), env) => env[x] \notin Null
    BY DEF Given, IsNot, Holds
  <2> QED BY <2>1 DEF Holds
<1>3. \A e \in Valuations(handler, R) :
        Plausible(handler, e) /\ Holds(H.init[i].when, e) => e[x] \notin Null \/ Refused(handler, x, e)
  BY <1>1, <1>2 DEF DecodesChecked
<1>4. R \subseteq F.variables /\ H.init[i].when \in SUBSET Conditions(handler)
  BY <1>1, GuardReads
<1>5. Typed(handler, env) /\ r \in Valuations(handler, R) /\ Plausible(handler, r)
  BY <1>4, RoughNow
<1>6. Holds(H.init[i].when, r)
  BY <1>1, <1>4, <1>5, RoughHolds
<1>7. r[x] \in Null
  <2>1. Null \in SUBSET Words(handler, x) /\ x \in R \cap Facts[handler].variables
    BY <1>1, <1>4, TableWords
  <2> HIDE DEF x, R
  <2>2. r[x] \in Null <=> env[x] \in Null
    BY <1>1, <1>5, <2>1, RoughValue
  <2> QED BY <2>2 DEF x
<1>8. Refused(handler, x, r)
  BY <1>3, <1>5, <1>6, <1>7
<1>9. PICK y \in H.early : y.v = x /\ Reads(y.when) \subseteq R /\ Holds(y.when, r)
  BY <1>1, <1>8 DEF Refused, Rough
<1>10. Holds(y.when, env)
  BY <1>1, <1>5, <1>9, GuardReads, RoughHolds
<1> QED BY <1>9, <1>10 DEF RefusedEarly

LEMMA OutputsSafe == DecidingInv /\ StaleInv => OutputsAllocated
<1> SUFFICES ASSUME DecidingInv, StaleInv, pc = "crypto", NEW o \in H.outputs, Holds(o.when, env), o.buf \notin live
             PROVE  \E g \in H.unmet : Holds(g, env)
  BY DEF OutputsAllocated, MissingOutput, Active
<1> DEFINE makers == Makers(H.init, o.buf)
           guards == {H.init[i].when : i \in makers \cup Cuts(H.init)} \cup H.unmet
           R == Reads(o.when) \cup UNION {Reads(g) : g \in guards}
           r == Rough(handler, env, R)
<1>1. handler \in DOMAIN Handlers /\ H = Handlers[handler] /\ F = Facts[handler] /\ OutputsChecked(handler)
  BY TablesAssumption, TableNames DEF DecidingInv
<1>2. Len(H.init) \in Nat /\ DOMAIN H.init = 1..Len(H.init)
  BY <1>1, HandlersAssumption
<1>3. ASSUME NEW i \in makers, Holds(H.init[i].when, env), \A j \in Cuts(H.init) : j < i => ~Holds(H.init[j].when, env)
      PROVE  FALSE
  <2>1. Made(H.init, env, Len(H.init), InitRun(H.init, env, 0))
    BY <1>2, InitRunMakes
  <2>2. i \in 1..Len(H.init) /\ H.init[i].op \in {"alloc", "held"} /\ H.init[i].buf = o.buf
    BY <1>2 DEF Makers
  <2>3. \A j \in 1..(i - 1) : H.init[j].op = "cut" => ~Holds(H.init[j].when, env)
    BY <1>2, <1>3, <2>2 DEF Cuts
  <2>4. H.init[i].buf \in InitRun(H.init, env, 0).live
    BY <1>3, <2>1, <2>2, <2>3 DEF Made, StaleInv
  <2> QED BY <2>2, <2>4 DEF StaleInv
<1>4. ~(\E i \in makers : H.init[i].when = {} /\ \A j \in Cuts(H.init) : j > i)
  <2>1. SUFFICES ASSUME NEW i \in makers, H.init[i].when = {}, \A j \in Cuts(H.init) : j > i PROVE FALSE
    OBVIOUS
  <2>2. i \in Nat /\ \A j \in Cuts(H.init) : j \in Nat
    BY <1>2 DEF Makers, Cuts
  <2>3. \A j \in Cuts(H.init) : ~(j < i)
    BY <2>1, <2>2
  <2>4. Holds(H.init[i].when, env)
    BY <2>1 DEF Holds
  <2> QED BY <1>3, <2>3, <2>4
<1>5. \A e \in Valuations(handler, R) :
        Plausible(handler, e) /\ Holds(o.when, e) =>
           \/ \E g \in H.unmet : Holds(g, e)
           \/ \E i \in makers : Holds(H.init[i].when, e) /\ \A j \in Cuts(H.init) : j < i => ~Holds(H.init[j].when, e)
  <2>1. \/ \E i \in makers : H.init[i].when = {} /\ \A j \in Cuts(H.init) : j > i
        \/ \A e \in Valuations(handler, R) :
             Plausible(handler, e) /\ Holds(o.when, e) =>
                \/ \E g \in H.unmet : Holds(g, e)
                \/ \E i \in makers :
                     Holds(H.init[i].when, e) /\ \A j \in Cuts(H.init) : j < i => ~Holds(H.init[j].when, e)
    BY <1>1, Zenon DEF OutputsChecked, H
  <2> QED BY <1>4, <2>1
<1>6. \A g \in guards \cup {o.when} : g \in SUBSET Conditions(handler) /\ Reads(g) \subseteq F.variables
  <2>1. \A i \in makers \cup Cuts(H.init) : i \in DOMAIN H.init
    BY DEF Makers, Cuts
  <2> QED BY <1>1, <2>1, GuardReads
<1>7. R \subseteq F.variables /\ \A g \in guards \cup {o.when} : Reads(g) \subseteq R
  <2> HIDE DEF guards
  <2> QED BY <1>6
<1>8. \A i \in makers \cup Cuts(H.init) : H.init[i].when \in guards
  OBVIOUS
<1>9. H.unmet \subseteq guards
  OBVIOUS
<1> HIDE DEF R, guards, makers
<1>10. Typed(handler, env) /\ r \in Valuations(handler, R) /\ Plausible(handler, r)
  BY <1>7, RoughNow
<1>11. \A g \in guards \cup {o.when} : Holds(g, r) <=> Holds(g, env)
  BY <1>1, <1>6, <1>7, <1>10, RoughHolds
<1> HIDE DEF r
<1>12. \/ \E g \in H.unmet : Holds(g, r)
       \/ \E i \in makers : Holds(H.init[i].when, r) /\ \A j \in Cuts(H.init) : j < i => ~Holds(H.init[j].when, r)
  BY <1>5, <1>10, <1>11
<1>13. ASSUME NEW i \in makers, Holds(H.init[i].when, r), \A j \in Cuts(H.init) : j < i => ~Holds(H.init[j].when, r) PROVE FALSE
  BY <1>3, <1>8, <1>11, <1>13
<1> QED BY <1>9, <1>11, <1>12, <1>13

(* NothingStale: what an earlier group or test has left in a local         *)
(* variable of the handler reaches neither a condition, nor init_tc(), nor *)
(* output_tc(), in any handler whose table passes the checks, for vector   *)
(* sets of any number of groups and tests.                                 *)
THEOREM NoTestIsStale == Spec => []NothingStale
<1>1. AnswerInv => DecidingInv
  BY DEF AnswerInv
<1> QED BY <1>1, AnswerInit, AnswerStep, StaleInit, StaleStep, StaleSafe, PTL DEF Spec

(* ConversionsHaveBuffers: no missing string gets as far as the conversion *)
(* in init_tc(), and output_tc() finds the buffers that it converts        *)
(* allocated, whatever fields decided on the one and on the other.         *)
THEOREM NoConversionOfNull == Spec => []ConversionsHaveBuffers
<1>1. AnswerInv => DecidingInv
  BY DEF AnswerInv
<1>2. DecidingInv /\ StaleInv => ConversionsHaveBuffers
  BY DecodesSafe, OutputsSafe DEF ConversionsHaveBuffers
<1> QED BY <1>1, <1>2, AnswerInit, AnswerStep, StaleInit, StaleStep, PTL DEF Spec

(***************************************************************************)
(* The safety half of Terminates.  What is left of the current test or     *)
(* group before its loop goes round; a Monte Carlo loop counts its rounds. *)
(***************************************************************************)
TestLeft ==
    CASE pc = "init"              -> MctRounds + 5
      [] pc = "crypto"            -> MctRounds + 4 - rounds
      [] pc = "output"            -> 3
      [] pc \in {"start", "test"} -> 2
      [] pc = "group"             -> 1
      [] OTHER                    -> 0
\* The crypto handler of a loop that only the application can end is called once more.
CalledAgain == H.until /\ pc = "crypto" /\ pc' = "crypto" /\ UNCHANGED <<handler, group, test, part>>
Nearer ==
    \/ group' = group + 1 /\ group' <= MaxGroups
    \/ group' = group /\ test' = test + 1
    \/ UNCHANGED <<group, test>> /\ part' = part + 1 /\ part' <= MaxTests
    \/ UNCHANGED <<group, test, part>> /\ TestLeft \in Nat /\ TestLeft' \in Nat /\ TestLeft' < TestLeft
    \/ CalledAgain

RoundsInv ==
    /\ handler \in DOMAIN Handlers
    /\ group \in Nat /\ rounds \in Nat /\ part \in Nat
    /\ pc = "init" => rounds = 0
    /\ pc = "crypto" => rounds <= MctRounds /\ (H.until \/ rounds < MctRounds)

LEMMA RoundsInit == Init => RoundsInv
  BY DEF Init, RoundsInv

LEMMA RoundsStep == RoundsInv /\ [Next]_vars => RoundsInv' /\ [Nearer]_vars
<1> SUFFICES ASSUME RoundsInv, [Next]_vars PROVE RoundsInv' /\ (Nearer \/ UNCHANGED vars)
  OBVIOUS
<1>b. MctRounds \in Nat \ {0} /\ MaxGroups \in Nat /\ MaxTests \in Nat
  BY BoundsAssumption
<1> USE DEF RoundsInv
<1>1. CASE Refuse
  BY <1>1 DEF Refuse, Return, TestLeft, Nearer
<1>2. CASE Setup
  BY <1>2 DEF Setup, Err, Return, TestLeft, Nearer
<1>3. CASE BeginGroup
  <2>1. /\ group' = group + 1 /\ group' <= MaxGroups /\ UNCHANGED <<handler, part, rounds>>
        /\ pc' \in {"test", "done"}
    BY <1>3, <1>b DEF BeginGroup, Err, Return
  <2> QED BY <2>1 DEF Nearer
<1>4. CASE BeginTest
  <2>1. /\ group' = group /\ test' = test + 1 /\ part' = 1 /\ rounds' = 0 /\ handler' = handler
        /\ pc' \in {"init", "done"}
    BY <1>4 DEF BeginTest, Err, Return
  <2> QED BY <2>1 DEF Nearer
<1>5. CASE InitTc
  BY <1>5, <1>b DEF InitTc, TestLeft, Nearer
<1>6. CASE InitTcFails \/ InitTcRefuses \/ InitTcCrashes
  <2>1. pc = "init" /\ pc' \in {"done", "crashed"} /\ UNCHANGED <<handler, group, test, part, rounds>>
    BY <1>6 DEF InitTcFails, InitTcRefuses, InitTcCrashes, Cleanup, Err, Return
  <2> QED BY <2>1, <1>b DEF TestLeft, Nearer
<1>7. CASE InitTcIgnored
  BY <1>7, <1>b DEF InitTcIgnored, TestLeft, Nearer
<1>8. CASE Crypto
  <2>1. /\ pc = "crypto" /\ UNCHANGED <<handler, group, test, part>> /\ H' = H
        /\ rounds' = IF H.until /\ rounds = MctRounds THEN 1 ELSE rounds + 1
    BY <1>8 DEF Crypto, NextRound, H
  <2>2. \/ pc' = "output"
        \/ pc' = "crypto" /\ H.until
        \/ pc' = "crypto" /\ ~H.until /\ rounds' # MctRounds
    BY <1>8, <1>b DEF Crypto
  <2>3. CASE pc' = "crypto" /\ H.until
    BY <2>1, <2>3, <1>b DEF Nearer, CalledAgain
  <2>4. CASE pc' = "output" \/ (pc' = "crypto" /\ ~H.until /\ rounds' # MctRounds)
    BY <2>1, <2>4, <1>b DEF TestLeft, Nearer
  <2> QED BY <2>2, <2>3, <2>4
<1>9. CASE CryptoFails
  <2>1. pc = "crypto" /\ pc' = "done" /\ rounds' \in Nat /\ UNCHANGED <<handler, group, test, part>>
    BY <1>9 DEF CryptoFails, NextRound, Cleanup, Err, Return
  <2> QED BY <2>1, <1>b DEF TestLeft, Nearer
<1>10. CASE OutputTc
  BY <1>10 DEF OutputTc, TestLeft, Nearer
<1>11. CASE OutputTcFails
  <2>1. pc = "output" /\ pc' = "done" /\ UNCHANGED <<handler, group, test, part, rounds>>
    BY <1>11 DEF OutputTcFails, Cleanup, Err, Return
  <2> QED BY <2>1 DEF TestLeft, Nearer
<1>12. CASE EndGroup
  BY <1>12 DEF EndGroup, TestLeft, Nearer
<1>13. CASE Finish
  BY <1>13 DEF Finish, Return, TestLeft, Nearer
<1>14. CASE Stopped \/ UNCHANGED vars
  BY <1>14 DEF Stopped, vars, H
<1>15. CASE EmptyTest
  BY <1>15 DEF EmptyTest, Nearer
<1>16. CASE NextPart
  <2>1. /\ pc' \in {"init", "done"} /\ rounds' = 0 /\ UNCHANGED <<handler, group, test>>
        /\ part' = part + 1 /\ part' <= MaxTests
    BY <1>16, <1>b DEF NextPart, Err, Return
  <2> QED BY <2>1 DEF Nearer
<1> QED BY <1>1, <1>2, <1>3, <1>4, <1>5, <1>6, <1>7, <1>8, <1>9, <1>10, <1>11, <1>12, <1>13, <1>14,
       <1>15, <1>16 DEF Next

(* Every step of a handler begins a group, a test or a ciphertext of the   *)
(* vector set or lowers what is left of the one it is in: a Monte Carlo    *)
(* loop ends after MctRounds rounds, and no failure goes back to an        *)
(* earlier point.  The one step that brings the end no nearer is another   *)
(* call of the crypto handler for an RSA decryption primitive, of which    *)
(* nothing bounds the number.                                              *)
THEOREM HandlerAdvances == Spec => [][Nearer]_vars
  BY RoundsInit, RoundsStep, PTL DEF Spec
=============================================================================
