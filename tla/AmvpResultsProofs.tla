--------------------------- MODULE AmvpResultsProofs ---------------------------
(***************************************************************************)
(* Proofs about AmvpResults for any number of sets with any names, any      *)
(* times and any number of faults.                                          *)
(***************************************************************************)
EXTENDS AmvpResults, TLAPS

Urls  == {Url[k] : k \in Index}
Algs  == {Alg[k] : k \in Index}
AnyMode == {Mode[k] : k \in Index} \cup {NoMode}

(* The lists are sequences of names.                                        *)
ListsOK ==
    /\ failedVsList \in Seq(Urls)
    /\ failedAlgList \in Seq(Algs)
    /\ failedModeList \in Seq(AnyMode)
    /\ mode \in AnyMode

(* What is counted was scanned, and if everything scanned was counted it is *)
(* complete.                                                                *)
ScanInv ==
    /\ pc \in {"scan", "judge"} =>
          /\ i \in 1 .. count + 1
          /\ testsCompleted <= i - 1
          /\ testsCompleted = i - 1 => \A k \in Index : k < i => results[k] \in Complete
    /\ pc = "judge" => i \in 1 .. count

(* A snapshot is overtaken only by sets that were not complete in it.       *)
SnapshotInv ==
    pc \in {"scan", "judge"} =>
        /\ \A k \in Index : /\ results[k] \in Complete => status[k] = results[k]
                            /\ results[k] \in Missing => status[k] \in Missing
        /\ (\A k \in Index : results[k] \in Complete) =>
              (passed <=> \A k \in Index : results[k] = "pass")

(* The verdict, and what a check that ends without one has seen.            *)
Undone == \E k \in Index : status[k] \in Missing \cup {"fail", "error"}

VerdictInv ==
    /\ session_passed => pc = "done" /\ (count = N => \A k \in Index : status[k] = "pass")
    /\ pc = "details" => Damaged \/ Undone
    /\ pc = "done" /\ rv = "AMVP_SUCCESS" => session_passed \/ Damaged \/ Undone

(* What was downloaded is on the list that prevents another download.       *)
DownloadInv ==
    /\ downloads \in [Index -> Nat]
    /\ \A k \in Index : /\ downloads[k] <= 1
                        /\ downloads[k] = 1 => Lookup(failedVsList, Url[k])
    /\ \A n \in 1 .. Len(failedVsList) : \E k \in Index : Url[k] = failedVsList[n] /\ downloads[k] > 0

(* The names that are listed are those of sets that failed.                 *)
OnlyFailed ==
    \A n \in 1 .. Len(failedAlgList) :
        \E k \in Index : status[k] = "fail" /\ Alg[k] = failedAlgList[n]

(* Without faults, the name of every set that was downloaded is listed.     *)
NamedInv == faults = 0 => \A k \in Index : downloads[k] > 0 => Lookup(failedAlgList, Alg[k])

(* Failed sets are looked up as they are scanned; a poll that was repeated   *)
(* has not counted everything.                                              *)
LookedUp(k) == results[k] = "fail" /\ Url[k] # NoUrl => Lookup(failedVsList, Url[k])

LookedInv ==
    /\ pc \in {"scan", "judge"} => \A k \in Index : k < i => LookedUp(k)
    /\ pc \in {"details", "done"} /\ testsCompleted = N => \A k \in Index : LookedUp(k)
    /\ pc = "retrieve" => testsCompleted < N \/ N = 0

IInv ==
    /\ TypeOK /\ ListsOK /\ ScanInv /\ SnapshotInv /\ VerdictInv /\ DownloadInv
    /\ OnlyFailed /\ NamedInv /\ LookedInv

(* The result that is scanned is one of a set.                              *)
LEMMA ScannedIndex ==
    ASSUME TypeOK
    PROVE  count \in Nat /\ count <= N /\ (i \in 1 .. count => i \in Index)
  BY ResultsConstants DEF TypeOK, Index

(* Everything is counted only when everything is complete.                  *)
LEMMA CountedIsComplete ==
    ASSUME IInv, Scanned, AllCompleted, count = N
    PROVE  \A k \in Index : results[k] \in Complete /\ status[k] = results[k]
<1>1. pc \in {"scan", "judge"} /\ testsCompleted >= N
  BY DEF Scanned, AllCompleted
<1>2. i = N + 1 /\ testsCompleted = i - 1
  BY <1>1, ResultsConstants DEF IInv, TypeOK, ScanInv, Scanned, Index
<1> QED
  BY <1>1, <1>2, ResultsConstants DEF IInv, ScanInv, SnapshotInv, Index

(* A list that grows still contains what it contained, and the new string.  *)
LEMMA LookupAppend ==
    ASSUME NEW S, NEW l \in Seq(S), NEW x \in S
    PROVE  /\ Lookup(Append(l, x), x)
           /\ \A s : Lookup(l, s) => Lookup(Append(l, x), s)
<1>1. /\ Len(Append(l, x)) = Len(l) + 1 /\ Len(l) \in Nat
      /\ Append(l, x)[Len(l) + 1] = x
      /\ \A k \in 1 .. Len(l) : Append(l, x)[k] = l[k]
  OBVIOUS
<1>2. Lookup(Append(l, x), x)
  BY <1>1 DEF Lookup
<1>3. ASSUME NEW s, Lookup(l, s) PROVE Lookup(Append(l, x), s)
  <2>1. PICK k \in 1 .. Len(l) :
            l[k] = s \/ <<l[k], s>> \in Prefixes \/ <<s, l[k]>> \in Prefixes
    BY <1>3 DEF Lookup
  <2>2. k \in 1 .. Len(Append(l, x)) /\ Append(l, x)[k] = l[k]
    BY <1>1, <2>1
  <2> QED BY <2>1, <2>2 DEF Lookup
<1> QED BY <1>2, <1>3

(* The periods the handler leaves behind are natural numbers.               *)
LEMMA BackoffNat ==
    ASSUME NEW w \in Nat, NEW p \in Int
    PROVE  Backoff(SleepPeriod(w, p), 1) \in Nat
<1>1. SleepPeriod(w, p) \in Nat
  <2>1. ClampedPeriod(w, p) \in Int
    BY RetryConstants DEF ClampedPeriod
  <2> QED BY <2>1, RetryConstants DEF SleepPeriod
<1> DEFINE sp == SleepPeriod(w, p)
<1>2. sp \in Nat
  BY <1>1
<1> HIDE DEF sp
<1>3. Backoff(sp, 1) \in Nat
  BY <1>2, RetryConstants DEF Backoff
<1> QED BY <1>3 DEF sp

(* Every step keeps the types.                                               *)
LEMMA TypeOKStep == IInv /\ [Next]_vars => TypeOK'
<1> SUFFICES ASSUME IInv, [Next]_vars PROVE TypeOK'
  OBVIOUS
<1> USE ResultsConstants DEF IInv
<1>1. CASE RetrieveResults \/ RetrieveDamaged
  BY <1>1
     DEF RetrieveResults, RetrieveDamaged, Answer, Fault, NoStatus, lists, answer, timing, TypeOK, ListsOK, ScanInv, Errors, Statuses,
         Missing, Complete, Index
<1>2. CASE RetrieveFails
  BY <1>2
     DEF RetrieveFails, Fault, lists, answer, timing, TypeOK, ListsOK, ScanInv, Errors,
         Statuses, Missing, Complete, Index
<1>3. CASE ScanMissing
  BY <1>3
     DEF ScanMissing, Scanning, lists, answer, timing, TypeOK, ListsOK, ScanInv, Errors,
         Statuses, Missing, Complete, Index
<1>4. CASE ScanIncomplete
  BY <1>4
     DEF ScanIncomplete, Scanning, NextResult, lists, answer, timing, TypeOK, ListsOK,
         ScanInv, Errors, Statuses, Missing, Complete, Index
<1>5. CASE ScanKnown
  BY <1>5
     DEF ScanKnown, Scanning, NextResult, lists, answer, timing, TypeOK, ListsOK, ScanInv,
         Errors, Statuses, Missing, Complete, Index
<1>6. CASE ScanNoUrl
  BY <1>6
     DEF ScanNoUrl, Scanning, lists, answer, timing, TypeOK, ListsOK, ScanInv, Errors,
         Statuses, Missing, Complete, Index
<1>7. CASE LookUpFailure
  BY <1>7
     DEF LookUpFailure, NewFailure, Scanning, NextResult, ListFailure, lists, answer, timing,
         TypeOK, ListsOK, ScanInv, Errors, Statuses, Missing, Complete, Index
<1>8. CASE LookUpFails
  BY <1>8
     DEF LookUpFails, NewFailure, Scanning, NextResult, Fault, lists, answer, timing, TypeOK,
         ListsOK, ScanInv, Errors, Statuses, Missing, Complete, Index
<1>9. CASE JudgePassed
  BY <1>9
     DEF JudgePassed, Scanned, lists, answer, timing, TypeOK, ListsOK, ScanInv, Errors,
         Statuses, Missing, Complete, Index
<1>10. CASE JudgeFailed
  BY <1>10
     DEF JudgeFailed, Scanned, lists, answer, timing, TypeOK, ListsOK, ScanInv, Errors,
         Statuses, Missing, Complete, Index
<1>11. CASE FetchDetails
  BY <1>11
     DEF FetchDetails, Fault, lists, answer, timing, TypeOK, ListsOK, ScanInv, Errors,
         Statuses, Missing, Complete, Index
<1>12. CASE WaitForResults
  <2>0. time_waited_so_far \in Nat /\ retry_interval \in Int
    BY DEF TypeOK
  <2>1. retry_interval' \in Nat
    BY <1>12, <2>0, BackoffNat DEF WaitForResults
  <2>2. time_waited_so_far' \in Nat
    BY <1>12, <2>1 DEF WaitForResults, TypeOK
  <2>3. pc' = "retrieve" /\ UNCHANGED <<status, rv, answer, i, testsCompleted, lists, session_passed, faults>>
    BY <1>12 DEF WaitForResults
  <2> QED
    BY <2>1, <2>2, <2>3 DEF TypeOK, answer, lists
<1>13. CASE GiveUp
  BY <1>13
     DEF GiveUp, Scanned, lists, answer, timing, TypeOK, ListsOK, ScanInv, Errors, Statuses,
         Missing, Complete, Index
<1>14. ASSUME NEW k \in Index, Evaluate(k) PROVE TypeOK'
  BY <1>14
     DEF Evaluate, ServerMoves, lists, answer, timing, TypeOK, ListsOK, ScanInv, Errors,
         Statuses, Missing, Complete, Index
<1>15. ASSUME NEW k \in Index, Expire(k) PROVE TypeOK'
  BY <1>15
     DEF Expire, ServerMoves, lists, answer, timing, TypeOK, ListsOK, ScanInv, Errors,
         Statuses, Missing, Complete, Index
<1>16. CASE UNCHANGED vars
  BY <1>16
     DEF vars, lists, answer, timing, TypeOK, ListsOK, ScanInv, Errors, Statuses, Missing,
         Complete, Index
<1> QED
  BY <1>1, <1>2, <1>3, <1>4, <1>5, <1>6, <1>7, <1>8, <1>9, <1>10, <1>11, <1>12, <1>13, <1>14,
     <1>15, <1>16
     DEF Next, ClientStep, Returned

(* Every step keeps the lists sequences.                                     *)
LEMMA ListsOKStep == IInv /\ [Next]_vars => ListsOK'
<1> SUFFICES ASSUME IInv, [Next]_vars PROVE ListsOK'
  OBVIOUS
<1> USE ResultsConstants DEF IInv
<1>1. CASE RetrieveResults \/ RetrieveDamaged
  BY <1>1
     DEF RetrieveResults, RetrieveDamaged, Answer, Fault, NoStatus, lists, answer, timing, ListsOK, TypeOK, Index, Urls, Algs, AnyMode,
         Modes
<1>2. CASE RetrieveFails
  BY <1>2
     DEF RetrieveFails, Fault, lists, answer, timing, ListsOK, TypeOK, Index, Urls, Algs,
         AnyMode, Modes
<1>3. CASE ScanMissing
  BY <1>3
     DEF ScanMissing, Scanning, lists, answer, timing, ListsOK, TypeOK, Index, Urls, Algs,
         AnyMode, Modes
<1>4. CASE ScanIncomplete
  BY <1>4
     DEF ScanIncomplete, Scanning, NextResult, lists, answer, timing, ListsOK, TypeOK, Index,
         Urls, Algs, AnyMode, Modes
<1>5. CASE ScanKnown
  BY <1>5
     DEF ScanKnown, Scanning, NextResult, lists, answer, timing, ListsOK, TypeOK, Index, Urls,
         Algs, AnyMode, Modes
<1>6. CASE ScanNoUrl
  BY <1>6
     DEF ScanNoUrl, Scanning, lists, answer, timing, ListsOK, TypeOK, Index, Urls, Algs,
         AnyMode, Modes
<1>7. CASE LookUpFailure
  <2>1. Url[i] \in Urls /\ Alg[i] \in Algs /\ Mode[i] \in AnyMode
    BY <1>7, ScannedIndex DEF LookUpFailure, NewFailure, Scanning, Urls, Algs, AnyMode
  <2>2. mode' \in AnyMode
    BY <1>7, <2>1 DEF LookUpFailure, ListsOK, AnyMode, Modes
  <2>3. failedVsList' \in Seq(Urls)
    BY <1>7, <2>1 DEF LookUpFailure, ListsOK
  <2>4. /\ failedAlgList' \in {failedAlgList, Append(failedAlgList, Alg[i])}
        /\ failedModeList' \in {failedModeList, Append(failedModeList, mode')}
    BY <1>7, Zenon DEF LookUpFailure, ListFailure
  <2>5. failedAlgList \in Seq(Algs) /\ failedModeList \in Seq(AnyMode)
    BY DEF ListsOK
  <2>6. Append(failedAlgList, Alg[i]) \in Seq(Algs)
    BY <2>1, <2>5
  <2>7. Append(failedModeList, mode') \in Seq(AnyMode)
    BY <2>2, <2>5
  <2>8. failedAlgList' \in Seq(Algs) /\ failedModeList' \in Seq(AnyMode)
    BY <2>4, <2>5, <2>6, <2>7, Zenon
  <2> QED
    BY <2>2, <2>3, <2>8 DEF ListsOK
<1>8. CASE LookUpFails
  <2>1. Url[i] \in Urls
    BY <1>8, ScannedIndex DEF LookUpFails, NewFailure, Scanning, Urls
  <2> QED
    BY <1>8, <2>1 DEF LookUpFails, ListsOK
<1>9. CASE JudgePassed
  BY <1>9
     DEF JudgePassed, Scanned, lists, answer, timing, ListsOK, TypeOK, Index, Urls, Algs,
         AnyMode, Modes
<1>10. CASE JudgeFailed
  BY <1>10
     DEF JudgeFailed, Scanned, lists, answer, timing, ListsOK, TypeOK, Index, Urls, Algs,
         AnyMode, Modes
<1>11. CASE FetchDetails
  BY <1>11
     DEF FetchDetails, Fault, lists, answer, timing, ListsOK, TypeOK, Index, Urls, Algs,
         AnyMode, Modes
<1>12. CASE WaitForResults
  BY <1>12
     DEF WaitForResults, Scanned, lists, answer, timing, ListsOK, TypeOK, Index, Urls, Algs,
         AnyMode, Modes
<1>13. CASE GiveUp
  BY <1>13
     DEF GiveUp, Scanned, lists, answer, timing, ListsOK, TypeOK, Index, Urls, Algs, AnyMode,
         Modes
<1>14. ASSUME NEW k \in Index, Evaluate(k) PROVE ListsOK'
  BY <1>14
     DEF Evaluate, ServerMoves, lists, answer, timing, ListsOK, TypeOK, Index, Urls, Algs,
         AnyMode, Modes
<1>15. ASSUME NEW k \in Index, Expire(k) PROVE ListsOK'
  BY <1>15
     DEF Expire, ServerMoves, lists, answer, timing, ListsOK, TypeOK, Index, Urls, Algs,
         AnyMode, Modes
<1>16. CASE UNCHANGED vars
  BY <1>16 DEF vars, lists, answer, timing, ListsOK, TypeOK, Index, Urls, Algs, AnyMode, Modes
<1> QED
  BY <1>1, <1>2, <1>3, <1>4, <1>5, <1>6, <1>7, <1>8, <1>9, <1>10, <1>11, <1>12, <1>13, <1>14,
     <1>15, <1>16
     DEF Next, ClientStep, Returned

(* Every step keeps the count right.                                         *)
LEMMA ScanInvStep == IInv /\ [Next]_vars => ScanInv'
<1> SUFFICES ASSUME IInv, [Next]_vars PROVE ScanInv'
  OBVIOUS
<1> USE ResultsConstants DEF IInv
<1>1. CASE RetrieveResults \/ RetrieveDamaged
  BY <1>1 DEF RetrieveResults, RetrieveDamaged, Answer, Fault, NoStatus, lists, answer, timing, ScanInv, TypeOK, Index, Complete, Missing
<1>2. CASE RetrieveFails
  BY <1>2
     DEF RetrieveFails, Fault, lists, answer, timing, ScanInv, TypeOK, Index, Complete,
         Missing
<1>3. CASE ScanMissing
  BY <1>3
     DEF ScanMissing, Scanning, lists, answer, timing, ScanInv, TypeOK, Index, Complete,
         Missing
<1>4. CASE ScanIncomplete
  BY <1>4
     DEF ScanIncomplete, Scanning, NextResult, lists, answer, timing, ScanInv, TypeOK, Index,
         Complete, Missing
<1>5. CASE ScanKnown
  BY <1>5
     DEF ScanKnown, Scanning, NextResult, lists, answer, timing, ScanInv, TypeOK, Index,
         Complete, Missing
<1>6. CASE ScanNoUrl
  BY <1>6
     DEF ScanNoUrl, Scanning, lists, answer, timing, ScanInv, TypeOK, Index, Complete, Missing
<1>7. CASE LookUpFailure
  <2>1. /\ pc = "scan" /\ i \in Index /\ results[i] \in Complete
        /\ i' = i + 1 /\ testsCompleted' = testsCompleted + 1 /\ UNCHANGED <<pc, results, count>>
        /\ i \in 1 .. count
    BY <1>7, ScannedIndex DEF LookUpFailure, NewFailure, Scanning, NextResult, answer, Complete
  <2> QED
    BY <2>1 DEF ScanInv, TypeOK, Index
<1>8. CASE LookUpFails
  BY <1>8
     DEF LookUpFails, NewFailure, Scanning, NextResult, Fault, lists, answer, timing, ScanInv,
         TypeOK, Index, Complete, Missing
<1>9. CASE JudgePassed
  BY <1>9
     DEF JudgePassed, Scanned, lists, answer, timing, ScanInv, TypeOK, Index, Complete,
         Missing
<1>10. CASE JudgeFailed
  BY <1>10
     DEF JudgeFailed, Scanned, lists, answer, timing, ScanInv, TypeOK, Index, Complete,
         Missing
<1>11. CASE FetchDetails
  BY <1>11
     DEF FetchDetails, Fault, lists, answer, timing, ScanInv, TypeOK, Index, Complete, Missing
<1>12. CASE WaitForResults
  BY <1>12
     DEF WaitForResults, Scanned, lists, answer, timing, ScanInv, TypeOK, Index, Complete,
         Missing
<1>13. CASE GiveUp
  BY <1>13 DEF GiveUp, Scanned, lists, answer, timing, ScanInv, TypeOK, Index, Complete, Missing
<1>14. ASSUME NEW k \in Index, Evaluate(k) PROVE ScanInv'
  BY <1>14
     DEF Evaluate, ServerMoves, lists, answer, timing, ScanInv, TypeOK, Index, Complete,
         Missing
<1>15. ASSUME NEW k \in Index, Expire(k) PROVE ScanInv'
  BY <1>15
     DEF Expire, ServerMoves, lists, answer, timing, ScanInv, TypeOK, Index, Complete, Missing
<1>16. CASE UNCHANGED vars
  BY <1>16 DEF vars, lists, answer, timing, ScanInv, TypeOK, Index, Complete, Missing
<1> QED
  BY <1>1, <1>2, <1>3, <1>4, <1>5, <1>6, <1>7, <1>8, <1>9, <1>10, <1>11, <1>12, <1>13, <1>14,
     <1>15, <1>16
     DEF Next, ClientStep, Returned

(* Every step keeps the snapshot true.                                       *)
LEMMA SnapshotInvStep == IInv /\ [Next]_vars => SnapshotInv'
<1> SUFFICES ASSUME IInv, [Next]_vars PROVE SnapshotInv'
  OBVIOUS
<1> USE ResultsConstants DEF IInv
<1>1. CASE RetrieveResults \/ RetrieveDamaged
  BY <1>1
     DEF RetrieveResults, RetrieveDamaged, Answer, Fault, NoStatus, lists, answer, timing, SnapshotInv, TypeOK, Complete, Missing,
         Statuses
<1>2. CASE RetrieveFails
  BY <1>2
     DEF RetrieveFails, Fault, lists, answer, timing, SnapshotInv, TypeOK, Complete, Missing,
         Statuses
<1>3. CASE ScanMissing
  BY <1>3
     DEF ScanMissing, Scanning, lists, answer, timing, SnapshotInv, TypeOK, Complete, Missing,
         Statuses
<1>4. CASE ScanIncomplete
  BY <1>4
     DEF ScanIncomplete, Scanning, NextResult, lists, answer, timing, SnapshotInv, TypeOK,
         Complete, Missing, Statuses
<1>5. CASE ScanKnown
  BY <1>5
     DEF ScanKnown, Scanning, NextResult, lists, answer, timing, SnapshotInv, TypeOK,
         Complete, Missing, Statuses
<1>6. CASE ScanNoUrl
  BY <1>6
     DEF ScanNoUrl, Scanning, lists, answer, timing, SnapshotInv, TypeOK, Complete, Missing,
         Statuses
<1>7. CASE LookUpFailure
  BY <1>7
     DEF LookUpFailure, NewFailure, Scanning, NextResult, ListFailure, lists, answer, timing,
         SnapshotInv, TypeOK, Complete, Missing, Statuses
<1>8. CASE LookUpFails
  BY <1>8
     DEF LookUpFails, NewFailure, Scanning, NextResult, Fault, lists, answer, timing,
         SnapshotInv, TypeOK, Complete, Missing, Statuses
<1>9. CASE JudgePassed
  BY <1>9
     DEF JudgePassed, Scanned, lists, answer, timing, SnapshotInv, TypeOK, Complete, Missing,
         Statuses
<1>10. CASE JudgeFailed
  BY <1>10
     DEF JudgeFailed, Scanned, lists, answer, timing, SnapshotInv, TypeOK, Complete, Missing,
         Statuses
<1>11. CASE FetchDetails
  BY <1>11
     DEF FetchDetails, Fault, lists, answer, timing, SnapshotInv, TypeOK, Complete, Missing,
         Statuses
<1>12. CASE WaitForResults
  BY <1>12
     DEF WaitForResults, Scanned, lists, answer, timing, SnapshotInv, TypeOK, Complete,
         Missing, Statuses
<1>13. CASE GiveUp
  BY <1>13
     DEF GiveUp, Scanned, lists, answer, timing, SnapshotInv, TypeOK, Complete, Missing,
         Statuses
<1>14. ASSUME NEW k \in Index, Evaluate(k) PROVE SnapshotInv'
  BY <1>14
     DEF Evaluate, ServerMoves, lists, answer, timing, SnapshotInv, TypeOK, Complete, Missing,
         Statuses
<1>15. ASSUME NEW k \in Index, Expire(k) PROVE SnapshotInv'
  BY <1>15
     DEF Expire, ServerMoves, lists, answer, timing, SnapshotInv, TypeOK, Complete, Missing,
         Statuses
<1>16. CASE UNCHANGED vars
  BY <1>16 DEF vars, lists, answer, timing, SnapshotInv, TypeOK, Complete, Missing, Statuses
<1> QED
  BY <1>1, <1>2, <1>3, <1>4, <1>5, <1>6, <1>7, <1>8, <1>9, <1>10, <1>11, <1>12, <1>13, <1>14,
     <1>15, <1>16
     DEF Next, ClientStep, Returned

(* Every step keeps the verdict right.                                       *)
LEMMA VerdictInvStep == IInv /\ [Next]_vars => VerdictInv'
<1> SUFFICES ASSUME IInv, [Next]_vars PROVE VerdictInv'
  OBVIOUS
<1> USE ResultsConstants DEF IInv
<1>1. CASE RetrieveResults \/ RetrieveDamaged
  BY <1>1
     DEF RetrieveResults, RetrieveDamaged, Answer, Fault, lists, answer, timing, VerdictInv, TypeOK, SnapshotInv, Undone, Damaged, NoStatus,
         Complete, Missing, Statuses, Errors
<1>2. CASE RetrieveFails
  BY <1>2
     DEF RetrieveFails, Fault, lists, answer, timing, VerdictInv, TypeOK, SnapshotInv, Undone, Damaged, NoStatus,
         Complete, Missing, Statuses, Errors
<1>3. CASE ScanMissing
  <2>1. i \in Index /\ results[i] \in Missing \cup {NoStatus} /\ pc = "scan" /\ pc' = "done"
    BY <1>3, ScannedIndex DEF ScanMissing, Scanning
  <2>2. UNCHANGED <<status, results, passed, count, session_passed, rv>>
    BY <1>3 DEF ScanMissing, answer
  <2>3. Undone \/ Damaged
    BY <2>1 DEF Undone, Damaged, SnapshotInv, TypeOK, Missing, Complete, Statuses, NoStatus
  <2>4. Undone' \/ Damaged'
    BY <2>2, <2>3 DEF Undone, Damaged
  <2> QED BY <2>1, <2>2, <2>4 DEF VerdictInv
<1>4. CASE ScanIncomplete
  BY <1>4
     DEF ScanIncomplete, Scanning, NextResult, lists, answer, timing, VerdictInv, TypeOK,
         SnapshotInv, Undone, Damaged, NoStatus, Complete, Missing, Statuses, Errors
<1>5. CASE ScanKnown
  BY <1>5
     DEF ScanKnown, Scanning, NextResult, lists, answer, timing, VerdictInv, TypeOK,
         SnapshotInv, Undone, Damaged, NoStatus, Complete, Missing, Statuses, Errors
<1>6. CASE ScanNoUrl
  BY <1>6
     DEF ScanNoUrl, Scanning, lists, answer, timing, VerdictInv, TypeOK, SnapshotInv, Undone, Damaged, NoStatus,
         Complete, Missing, Statuses, Errors
<1>7. CASE LookUpFailure
  BY <1>7
     DEF LookUpFailure, NewFailure, Scanning, NextResult, ListFailure, lists, answer, timing,
         VerdictInv, TypeOK, SnapshotInv, Undone, Damaged, NoStatus, Complete, Missing, Statuses, Errors
<1>8. CASE LookUpFails
  BY <1>8
     DEF LookUpFails, NewFailure, Scanning, NextResult, Fault, lists, answer, timing,
         VerdictInv, TypeOK, SnapshotInv, Undone, Damaged, NoStatus, Complete, Missing, Statuses, Errors
<1>9. CASE JudgePassed
  <2>1. ASSUME count = N PROVE \A k \in Index : status[k] = "pass"
    <3>1. \A k \in Index : results[k] \in Complete /\ status[k] = results[k]
      BY <1>9, <2>1, CountedIsComplete DEF JudgePassed
    <3>2. pc \in {"scan", "judge"} /\ passed
      BY <1>9 DEF JudgePassed, Scanned
    <3> QED BY <3>1, <3>2 DEF SnapshotInv
  <2> QED
    BY <1>9, <2>1 DEF JudgePassed, VerdictInv, answer
<1>10. CASE JudgeFailed
  <2>1. ASSUME count = N PROVE Undone
    <3>1. \A k \in Index : results[k] \in Complete /\ status[k] = results[k]
      BY <1>10, <2>1, CountedIsComplete DEF JudgeFailed
    <3>2. pc \in {"scan", "judge"} /\ ~passed
      BY <1>10 DEF JudgeFailed, Scanned
    <3> QED BY <3>1, <3>2 DEF SnapshotInv, Undone, Complete
  <2>2. (Damaged \/ Undone)'
    BY <1>10, <2>1 DEF JudgeFailed, Undone, Damaged, answer
  <2>3. ~session_passed
    BY <1>10 DEF JudgeFailed, Scanned, VerdictInv
  <2> QED
    BY <1>10, <2>2, <2>3 DEF JudgeFailed, VerdictInv
<1>11. CASE FetchDetails
  BY <1>11
     DEF FetchDetails, Fault, lists, answer, timing, VerdictInv, TypeOK, SnapshotInv, Undone, Damaged, NoStatus,
         Complete, Missing, Statuses, Errors
<1>12. CASE WaitForResults
  BY <1>12
     DEF WaitForResults, Scanned, lists, answer, timing, VerdictInv, TypeOK, SnapshotInv,
         Undone, Damaged, NoStatus, Complete, Missing, Statuses, Errors
<1>13. CASE GiveUp
  BY <1>13
     DEF GiveUp, Scanned, lists, answer, timing, VerdictInv, TypeOK, SnapshotInv, Undone, Damaged, NoStatus,
         Complete, Missing, Statuses, Errors
<1>14. ASSUME NEW k \in Index, Evaluate(k) PROVE VerdictInv'
  BY <1>14
     DEF Evaluate, ServerMoves, lists, answer, timing, VerdictInv, TypeOK, SnapshotInv,
         Undone, Damaged, NoStatus, Complete, Missing, Statuses, Errors
<1>15. ASSUME NEW k \in Index, Expire(k) PROVE VerdictInv'
  BY <1>15
     DEF Expire, ServerMoves, lists, answer, timing, VerdictInv, TypeOK, SnapshotInv, Undone, Damaged, NoStatus,
         Complete, Missing, Statuses, Errors
<1>16. CASE UNCHANGED vars
  BY <1>16
     DEF vars, lists, answer, timing, VerdictInv, TypeOK, SnapshotInv, Undone, Damaged, NoStatus, Complete,
         Missing, Statuses, Errors
<1> QED
  BY <1>1, <1>2, <1>3, <1>4, <1>5, <1>6, <1>7, <1>8, <1>9, <1>10, <1>11, <1>12, <1>13, <1>14,
     <1>15, <1>16
     DEF Next, ClientStep, Returned

(* Every step keeps the downloads listed.                                    *)
LEMMA DownloadInvStep == IInv /\ [Next]_vars => DownloadInv'
<1> SUFFICES ASSUME IInv, [Next]_vars PROVE DownloadInv'
  OBVIOUS
<1> USE ResultsConstants DEF IInv
<1>1. CASE RetrieveResults \/ RetrieveDamaged
  BY <1>1 DEF RetrieveResults, RetrieveDamaged, Answer, Fault, NoStatus, lists, answer, timing, DownloadInv, TypeOK, ListsOK
<1>2. CASE RetrieveFails
  BY <1>2 DEF RetrieveFails, Fault, lists, answer, timing, DownloadInv, TypeOK, ListsOK
<1>3. CASE ScanMissing
  BY <1>3 DEF ScanMissing, Scanning, lists, answer, timing, DownloadInv, TypeOK, ListsOK
<1>4. CASE ScanIncomplete
  BY <1>4
     DEF ScanIncomplete, Scanning, NextResult, lists, answer, timing, DownloadInv, TypeOK,
         ListsOK
<1>5. CASE ScanKnown
  BY <1>5
     DEF ScanKnown, Scanning, NextResult, lists, answer, timing, DownloadInv, TypeOK, ListsOK
<1>6. CASE ScanNoUrl
  BY <1>6 DEF ScanNoUrl, Scanning, lists, answer, timing, DownloadInv, TypeOK, ListsOK
<1>7. CASE LookUpFailure
  <2>1. /\ i \in Index /\ Url[i] \in Urls /\ ~Lookup(failedVsList, Url[i])
        /\ failedVsList' = Append(failedVsList, Url[i])
        /\ downloads' = [downloads EXCEPT ![i] = @ + 1]
    BY <1>7, ScannedIndex DEF LookUpFailure, NewFailure, Scanning, Urls
  <2>2. failedVsList \in Seq(Urls)
    BY DEF ListsOK
  <2>3. downloads[i] = 0
    BY <2>1 DEF DownloadInv
  <2>4. downloads' \in [Index -> Nat]
    BY <2>1 DEF DownloadInv
  <2>5. ASSUME NEW k \in Index
        PROVE  downloads'[k] <= 1 /\ (downloads'[k] = 1 => Lookup(failedVsList', Url[k]))
    <3>1. CASE k = i
      BY <2>1, <2>2, <2>3, <3>1, LookupAppend DEF DownloadInv
    <3>2. CASE k # i
      BY <2>1, <2>2, <3>2, LookupAppend DEF DownloadInv
    <3> QED BY <3>1, <3>2
  <2>6. \A k \in Index : Lookup(failedVsList', Url[k]) => Lookup(failedVsList, Url[k])'
    BY DEF Lookup
  <2>7. ASSUME NEW n \in 1 .. Len(failedVsList')
        PROVE  \E k \in Index : Url[k] = failedVsList'[n] /\ downloads'[k] > 0
    <3>1. CASE n = Len(failedVsList) + 1
      BY <2>1, <2>2, <2>3, <3>1 DEF DownloadInv
    <3>2. CASE n # Len(failedVsList) + 1
      <4>1. n \in 1 .. Len(failedVsList) /\ failedVsList'[n] = failedVsList[n]
        BY <2>1, <2>2, <3>2
      <4>2. PICK k \in Index : Url[k] = failedVsList[n] /\ downloads[k] > 0
        BY <4>1 DEF DownloadInv
      <4>3. downloads'[k] > 0
        BY <2>1, <4>2 DEF DownloadInv
      <4> QED BY <4>1, <4>2, <4>3
    <3> QED BY <3>1, <3>2
  <2> QED
    BY <2>4, <2>5, <2>6, <2>7 DEF DownloadInv
<1>8. CASE LookUpFails
  <2>1. /\ i \in Index /\ Url[i] \in Urls /\ ~Lookup(failedVsList, Url[i])
        /\ failedVsList' = Append(failedVsList, Url[i])
        /\ downloads' = [downloads EXCEPT ![i] = @ + 1]
    BY <1>8, ScannedIndex DEF LookUpFails, NewFailure, Scanning, Urls
  <2>2. failedVsList \in Seq(Urls)
    BY DEF ListsOK
  <2>3. downloads[i] = 0
    BY <2>1 DEF DownloadInv
  <2>4. downloads' \in [Index -> Nat]
    BY <2>1 DEF DownloadInv
  <2>5. ASSUME NEW k \in Index
        PROVE  downloads'[k] <= 1 /\ (downloads'[k] = 1 => Lookup(failedVsList', Url[k]))
    <3>1. CASE k = i
      BY <2>1, <2>2, <2>3, <3>1, LookupAppend DEF DownloadInv
    <3>2. CASE k # i
      BY <2>1, <2>2, <3>2, LookupAppend DEF DownloadInv
    <3> QED BY <3>1, <3>2
  <2>6. \A k \in Index : Lookup(failedVsList', Url[k]) => Lookup(failedVsList, Url[k])'
    BY DEF Lookup
  <2>7. ASSUME NEW n \in 1 .. Len(failedVsList')
        PROVE  \E k \in Index : Url[k] = failedVsList'[n] /\ downloads'[k] > 0
    <3>1. CASE n = Len(failedVsList) + 1
      BY <2>1, <2>2, <2>3, <3>1 DEF DownloadInv
    <3>2. CASE n # Len(failedVsList) + 1
      <4>1. n \in 1 .. Len(failedVsList) /\ failedVsList'[n] = failedVsList[n]
        BY <2>1, <2>2, <3>2
      <4>2. PICK k \in Index : Url[k] = failedVsList[n] /\ downloads[k] > 0
        BY <4>1 DEF DownloadInv
      <4>3. downloads'[k] > 0
        BY <2>1, <4>2 DEF DownloadInv
      <4> QED BY <4>1, <4>2, <4>3
    <3> QED BY <3>1, <3>2
  <2> QED
    BY <2>4, <2>5, <2>6, <2>7 DEF DownloadInv
<1>9. CASE JudgePassed
  BY <1>9 DEF JudgePassed, Scanned, lists, answer, timing, DownloadInv, TypeOK, ListsOK
<1>10. CASE JudgeFailed
  BY <1>10 DEF JudgeFailed, Scanned, lists, answer, timing, DownloadInv, TypeOK, ListsOK
<1>11. CASE FetchDetails
  BY <1>11 DEF FetchDetails, Fault, lists, answer, timing, DownloadInv, TypeOK, ListsOK
<1>12. CASE WaitForResults
  BY <1>12 DEF WaitForResults, Scanned, lists, answer, timing, DownloadInv, TypeOK, ListsOK
<1>13. CASE GiveUp
  BY <1>13 DEF GiveUp, Scanned, lists, answer, timing, DownloadInv, TypeOK, ListsOK
<1>14. ASSUME NEW k \in Index, Evaluate(k) PROVE DownloadInv'
  BY <1>14 DEF Evaluate, ServerMoves, lists, answer, timing, DownloadInv, TypeOK, ListsOK
<1>15. ASSUME NEW k \in Index, Expire(k) PROVE DownloadInv'
  BY <1>15 DEF Expire, ServerMoves, lists, answer, timing, DownloadInv, TypeOK, ListsOK
<1>16. CASE UNCHANGED vars
  BY <1>16 DEF vars, lists, answer, timing, DownloadInv, TypeOK, ListsOK
<1> QED
  BY <1>1, <1>2, <1>3, <1>4, <1>5, <1>6, <1>7, <1>8, <1>9, <1>10, <1>11, <1>12, <1>13, <1>14,
     <1>15, <1>16
     DEF Next, ClientStep, Returned

(* Every step keeps the listed names those of failed sets.                   *)
LEMMA OnlyFailedStep == IInv /\ [Next]_vars => OnlyFailed'
<1> SUFFICES ASSUME IInv, [Next]_vars PROVE OnlyFailed'
  OBVIOUS
<1>1. CASE UNCHANGED <<status, failedAlgList>>
  BY <1>1 DEF IInv, OnlyFailed
<1>2. ASSUME NEW k \in Index, Evaluate(k) \/ Expire(k) PROVE OnlyFailed'
  <2>1. failedAlgList' = failedAlgList
    BY <1>2 DEF Evaluate, Expire, ServerMoves, lists
  <2>2. \A m \in Index : status[m] = "fail" => status'[m] = "fail"
    BY <1>2 DEF Evaluate, Expire, ServerMoves, IInv, TypeOK
  <2> QED BY <2>1, <2>2 DEF IInv, OnlyFailed
<1>3. CASE LookUpFailure
  <2>1. i \in Index /\ status[i] = "fail" /\ status' = status
    BY <1>3, ScannedIndex DEF LookUpFailure, NewFailure, Scanning, NextResult, IInv, SnapshotInv, Complete
  <2>2. failedAlgList' \in {failedAlgList, Append(failedAlgList, Alg[i])}
    BY <1>3, Zenon DEF LookUpFailure, ListFailure
  <2>3. CASE failedAlgList' = failedAlgList
    BY <1>1, <2>1, <2>3
  <2>4. CASE failedAlgList' = Append(failedAlgList, Alg[i])
    <3>1. failedAlgList \in Seq(Algs) /\ Alg[i] \in Algs
      BY <2>1 DEF IInv, ListsOK, Algs
    <3>2. \A n \in 1 .. Len(failedAlgList') :
             IF n = Len(failedAlgList) + 1 THEN failedAlgList'[n] = Alg[i]
             ELSE n \in 1 .. Len(failedAlgList) /\ failedAlgList'[n] = failedAlgList[n]
      BY <2>4, <3>1
    <3> QED BY <2>1, <3>2 DEF IInv, OnlyFailed
  <2> QED BY <2>2, <2>3, <2>4
<1> QED
  BY <1>1, <1>2, <1>3 DEF Next, ClientStep, Returned, NextResult, RetrieveResults,
     RetrieveDamaged, Answer, RetrieveFails, ScanMissing, ScanIncomplete, ScanKnown, ScanNoUrl, LookUpFails,
     JudgePassed, JudgeFailed, FetchDetails, WaitForResults, GiveUp, lists, vars

(* Every step keeps the downloaded sets named.                               *)
LEMMA NamedInvStep == IInv /\ [Next]_vars => NamedInv'
<1> SUFFICES ASSUME IInv, [Next]_vars PROVE NamedInv'
  OBVIOUS
<1>1. CASE UNCHANGED <<failedAlgList, downloads>> /\ (faults' = 0 => faults = 0)
  BY <1>1 DEF IInv, NamedInv, Lookup
<1>2. CASE LookUpFailure
  <2>1. /\ i \in Index /\ faults' = faults
        /\ downloads' = [downloads EXCEPT ![i] = @ + 1]
    BY <1>2, ScannedIndex DEF LookUpFailure, NewFailure, Scanning, IInv
  <2>2. failedAlgList \in Seq(Algs) /\ Alg[i] \in Algs /\ downloads \in [Index -> Nat]
    BY <2>1 DEF IInv, ListsOK, Algs, DownloadInv
  <2>3. \/ failedAlgList' = failedAlgList /\ Lookup(failedAlgList, Alg[i])
        \/ failedAlgList' = Append(failedAlgList, Alg[i])
    BY <1>2, Zenon DEF LookUpFailure, ListFailure
  <2>4. /\ Lookup(failedAlgList', Alg[i])
        /\ \A k \in Index : Lookup(failedAlgList, Alg[k]) => Lookup(failedAlgList', Alg[k])
    <3>1. CASE failedAlgList' = failedAlgList /\ Lookup(failedAlgList, Alg[i])
      BY <3>1
    <3>2. CASE failedAlgList' = Append(failedAlgList, Alg[i])
      BY <2>2, <3>2, LookupAppend
    <3> QED BY <2>3, <3>1, <3>2
  <2>5. ASSUME faults' = 0, NEW k \in Index, downloads'[k] > 0
        PROVE  Lookup(failedAlgList', Alg[k])
    <3>1. CASE k = i
      BY <2>4, <3>1
    <3>2. CASE k # i
      BY <2>1, <2>2, <2>4, <2>5, <3>2 DEF IInv, NamedInv
    <3> QED BY <3>1, <3>2
  <2>6. \A k \in Index : Lookup(failedAlgList', Alg[k]) => Lookup(failedAlgList, Alg[k])'
    BY DEF Lookup
  <2> QED BY <2>5, <2>6 DEF NamedInv
<1>3. CASE Fault
  BY <1>3 DEF Fault, NamedInv, IInv, TypeOK
<1> QED
  BY <1>1, <1>2, <1>3 DEF Next, ClientStep, Returned, Evaluate, Expire, ServerMoves,
     RetrieveResults, RetrieveDamaged, Answer, RetrieveFails, ScanMissing, ScanIncomplete, ScanKnown, ScanNoUrl,
     LookUpFails, JudgePassed, JudgeFailed, FetchDetails, WaitForResults, GiveUp, lists,
     vars

(* Every step keeps the failed sets looked up as they are scanned.           *)
LEMMA LookedInvStep == IInv /\ [Next]_vars => LookedInv'
<1> SUFFICES ASSUME IInv, [Next]_vars PROVE LookedInv'
  OBVIOUS
<1> USE ResultsConstants DEF IInv
<1>1. ASSUME UNCHANGED <<results, failedVsList>> PROVE \A k \in Index : LookedUp(k)' <=> LookedUp(k)
  BY <1>1 DEF LookedUp, Lookup
<1>2. CASE RetrieveResults \/ RetrieveDamaged
  BY <1>2 DEF RetrieveResults, RetrieveDamaged, Answer, LookedInv, Index
<1>3. CASE RetrieveFails
  BY <1>3 DEF RetrieveFails, LookedInv, Index
<1>4. CASE ScanMissing
  BY <1>4 DEF ScanMissing, Scanning, LookedInv, ScanInv, TypeOK, Index
<1>5. CASE ScanIncomplete \/ ScanKnown
  <2>1. /\ pc = "scan" /\ pc' = "scan" /\ i \in Index /\ i' = i + 1 /\ LookedUp(i)
        /\ UNCHANGED <<results, failedVsList>>
    BY <1>5, ScannedIndex DEF ScanIncomplete, ScanKnown, Scanning, NextResult, answer, lists, LookedUp
  <2>2. \A k \in Index : k < i + 1 => LookedUp(k)
    BY <2>1 DEF LookedInv, Index
  <2> QED BY <1>1, <2>1, <2>2 DEF LookedInv
<1>6. CASE ScanNoUrl
  <2>1. pc = "scan" /\ pc' = "judge" /\ UNCHANGED <<i, results, failedVsList>>
    BY <1>6 DEF ScanNoUrl, Scanning, answer, lists
  <2> QED BY <1>1, <2>1 DEF LookedInv
<1>7. CASE LookUpFailure \/ LookUpFails
  <2>1. /\ pc = "scan" /\ pc' = "scan" /\ i \in Index /\ i' = i + 1 /\ results' = results
        /\ failedVsList' = Append(failedVsList, Url[i])
    BY <1>7, ScannedIndex DEF LookUpFailure, LookUpFails, NewFailure, Scanning, NextResult, answer
  <2>2. failedVsList \in Seq(Urls) /\ Url[i] \in Urls
    BY <2>1 DEF ListsOK, Urls
  <2>3. /\ Lookup(failedVsList', Url[i])
        /\ \A k \in Index : Lookup(failedVsList, Url[k]) => Lookup(failedVsList', Url[k])
    BY <2>1, <2>2, LookupAppend
  <2>4. \A k \in Index : Lookup(failedVsList', Url[k]) => Lookup(failedVsList, Url[k])'
    BY DEF Lookup
  <2>5. \A k \in Index : k < i + 1 => LookedUp(k)'
    BY <2>1, <2>3, <2>4 DEF LookedInv, LookedUp, Index
  <2> QED BY <2>1, <2>5 DEF LookedInv
<1>8. CASE JudgePassed \/ JudgeFailed
  <2>1. /\ Scanned /\ AllCompleted /\ pc' \in {"details", "done"}
        /\ UNCHANGED <<testsCompleted, results, failedVsList>>
    BY <1>8 DEF JudgePassed, JudgeFailed, answer, lists
  <2>2. ASSUME testsCompleted = N, NEW k \in Index PROVE LookedUp(k)
    <3>1. pc \in {"scan", "judge"} /\ testsCompleted <= i - 1 /\ i \in 1 .. count + 1
      BY <2>1 DEF ScanInv, Scanned
    <3>2. k < i
      BY <2>2, <3>1, ScannedIndex DEF Index
    <3> QED BY <3>1, <3>2 DEF LookedInv
  <2> QED BY <1>1, <2>1, <2>2 DEF LookedInv
<1>9. CASE FetchDetails
  <2>1. pc = "details" /\ pc' = "done" /\ UNCHANGED <<testsCompleted, results, failedVsList>>
    BY <1>9 DEF FetchDetails, answer, lists
  <2> QED BY <1>1, <2>1 DEF LookedInv
<1>10. CASE WaitForResults \/ GiveUp
  <2>1. ~AllCompleted /\ pc' \in {"retrieve", "done"} /\ testsCompleted' = testsCompleted
    BY <1>10 DEF WaitForResults, GiveUp
  <2> QED BY <2>1, ScannedIndex DEF LookedInv, AllCompleted, TypeOK
<1>11. CASE UNCHANGED <<pc, i, testsCompleted, results, failedVsList>>
  BY <1>1, <1>11 DEF LookedInv
<1> QED
  BY <1>2, <1>3, <1>4, <1>5, <1>6, <1>7, <1>8, <1>9, <1>10, <1>11
     DEF Next, ClientStep, Returned, Evaluate, Expire, ServerMoves, vars, answer, lists

(* Before the first poll.                                                   *)
LEMMA InitIInv == Init => IInv
<1> SUFFICES ASSUME Init PROVE IInv
  OBVIOUS
<1> USE ResultsConstants DEF Init
<1>1. TypeOK
  <2>1. status \in [Index -> Statuses] /\ results \in [Index -> Statuses]
    BY DEF Statuses, Missing
  <2>2. passed \in BOOLEAN /\ session_passed \in BOOLEAN
    BY Zenon
  <2> QED BY <2>1, <2>2 DEF TypeOK
<1>2. ListsOK
  BY DEF ListsOK, AnyMode
<1>3. ScanInv /\ SnapshotInv
  BY DEF ScanInv, SnapshotInv
<1>4. VerdictInv
  BY DEF VerdictInv
<1>5. DownloadInv
  BY DEF DownloadInv
<1>6. OnlyFailed /\ NamedInv
  BY DEF OnlyFailed, NamedInv
<1>7. LookedInv
  BY DEF LookedInv
<1> QED BY <1>1, <1>2, <1>3, <1>4, <1>5, <1>6, <1>7 DEF IInv

(* The inductive invariant holds of every behaviour.                        *)
LEMMA Invariance == Spec => []IInv
<1>1. IInv /\ [Next]_vars => IInv'
  BY TypeOKStep, ListsOKStep, ScanInvStep, SnapshotInvStep, VerdictInvStep, DownloadInvStep,
     OnlyFailedStep, NamedInvStep, LookedInvStep
     DEF IInv
<1> QED BY InitIInv, <1>1, PTL DEF Spec

(* The types of the check's state.                                          *)
THEOREM TypeCorrect == Spec => []TypeOK
<1>1. IInv => TypeOK
  BY DEF IInv
<1> QED BY <1>1, Invariance, PTL

(* A recorded pass is the pass of every set.                                *)
LEMMA PassIsTrue == Spec => []PassedIsFinal
<1>1. IInv => PassedIsFinal
  BY DEF IInv, VerdictInv, PassedIsFinal
<1> QED BY <1>1, Invariance, PTL

(* AMVP_SUCCESS is not returned for a session that is merely incomplete.    *)
LEMMA SuccessIsVerdict == Spec => []SuccessIsDecided
<1>1. IInv => SuccessIsDecided
  BY DEF IInv, VerdictInv, Undone, SuccessIsDecided
<1> QED BY <1>1, Invariance, PTL

(* What amvp_get_result_test_session() says of a session is final, for any  *)
(* number of sets and any interleaving with the server.                     *)
THEOREM FinalVerdict == Spec => []VerdictIsFinal
  BY PassIsTrue, SuccessIsVerdict, PTL DEF VerdictIsFinal

(* No vector set is downloaded twice.                                       *)
THEOREM NoSecondDownload == Spec => []DownloadedOnce
<1>1. IInv => DownloadedOnce
  BY DEF IInv, DownloadInv, DownloadedOnce
<1> QED BY <1>1, Invariance, PTL

(* A string that is found and that cannot be mistaken is in the list.       *)
LEMMA FoundIsThere ==
    ASSUME NEW name, NEW l, NEW k \in Index, Lookup(l, name[k]), Unmistakable(name, k),
           \A n \in 1 .. Len(l) : \E m \in Index : l[n] = name[m]
    PROVE  \E n \in 1 .. Len(l) : l[n] = name[k]
  BY DEF Lookup, Unmistakable

(* What amvp_get_result_test_session() prints as failed has failed; a       *)
(* failed set was downloaded, and what was downloaded is listed, unless its *)
(* name or its URL is a prefix of another one or extends it.                *)
THEOREM ListedFailures == Spec => []FailedAlgorithmsListed
<1>1. IInv => FailedAlgorithmsListed
  <2> SUFFICES ASSUME IInv PROVE FailedAlgorithmsListed
    OBVIOUS
  <2>1. ASSUME faults = 0, NEW k \in Index, downloads[k] > 0, Unmistakable(Alg, k)
        PROVE  \E n \in 1 .. Len(failedAlgList) : failedAlgList[n] = Alg[k]
    <3>1. Lookup(failedAlgList, Alg[k])
      BY <2>1 DEF IInv, NamedInv
    <3>2. \A n \in 1 .. Len(failedAlgList) : \E m \in Index : failedAlgList[n] = Alg[m]
      BY DEF IInv, OnlyFailed
    <3> QED BY <2>1, <3>1, <3>2 DEF Lookup, Unmistakable
  <2>2. ASSUME pc = "done", testsCompleted = N, NEW k \in Index, results[k] = "fail", Url[k] # NoUrl, Unmistakable(Url, k)
        PROVE  \E n \in Index : Url[n] = Url[k] /\ downloads[n] > 0
    <3>1. Lookup(failedVsList, Url[k])
      BY <2>2 DEF IInv, LookedInv, LookedUp
    <3>2. \A n \in 1 .. Len(failedVsList) : \E m \in Index : failedVsList[n] = Url[m]
      BY DEF IInv, DownloadInv
    <3>3. PICK n \in 1 .. Len(failedVsList) : failedVsList[n] = Url[k]
      BY <2>2, <3>1, <3>2, FoundIsThere
    <3> QED BY <3>3 DEF IInv, DownloadInv
  <2> QED BY <2>1, <2>2 DEF IInv, OnlyFailed, FailedAlgorithmsListed
<1> QED BY <1>1, Invariance, PTL

(* What a check still has before it: the seconds that may be counted, and   *)
(* the steps of the current poll.                                           *)
Left(w)  == IF WaitExhausted(w) THEN 0 ELSE AMVP_MAX_WAIT_TIME - w
WaitLeft == Left(time_waited_so_far)
PollLeft ==
    IF pc = "retrieve" THEN N + 3
    ELSE IF pc = "scan" THEN N + 3 - i
    ELSE IF pc = "judge" THEN 2
    ELSE IF pc = "details" THEN 1 ELSE 0
Nearer ==
    /\ {WaitLeft, PollLeft, WaitLeft', PollLeft'} \subseteq Nat
    /\ WaitLeft' < WaitLeft \/ (WaitLeft' = WaitLeft /\ PollLeft' < PollLeft)

(* Everything but the status of the sets on the server.                     *)
check == <<pc, rv, answer, i, testsCompleted, timing, lists, session_passed, downloads, faults>>

(* A sleep is never counted as nothing.                                     *)
LEMMA BackoffPositive ==
    ASSUME NEW w \in Nat, NEW p \in Int
    PROVE  Backoff(SleepPeriod(w, p), 1) >= 1
<1>1. SleepPeriod(w, p) \in Nat /\ SleepPeriod(w, p) >= 1
  <2>1. ClampedPeriod(w, p) \in Int
    BY RetryConstants DEF ClampedPeriod
  <2> QED BY <2>1, RetryConstants DEF SleepPeriod
<1> DEFINE sp == SleepPeriod(w, p)
<1>2. sp \in Nat /\ sp >= 1
  BY <1>1
<1> HIDE DEF sp
<1>3. Backoff(sp, 1) >= 1
  BY <1>2, RetryConstants DEF Backoff
<1> QED BY <1>3 DEF sp

(* Time that is counted is lost.                                            *)
LEMMA LeftFalls ==
    ASSUME NEW w \in Nat
    PROVE  /\ Left(w) \in Nat
           /\ \A b \in Nat : ~WaitExhausted(w) /\ b >= 1 => Left(w + b) \in Nat /\ Left(w + b) < Left(w)
  BY RetryConstants DEF Left, WaitExhausted

(* The safety half of CheckReturns, for any number of sets, any answers of  *)
(* the server and any faults: every step of the client either goes on in    *)
(* the poll or uses up some of the time that amvp_retry_handler() allows,   *)
(* and nothing the server does gives any of it back.                        *)
THEOREM CheckAdvances == Spec => [][Nearer]_check
<1>1. IInv /\ [Next]_vars => [Nearer]_check
  <2> SUFFICES ASSUME IInv, Next, ~UNCHANGED check PROVE Nearer
    BY DEF vars, check
  <2> USE ResultsConstants, RetryConstants
  <2>1. /\ time_waited_so_far \in Nat /\ retry_interval \in Nat /\ N \in Nat
        /\ pc \in {"retrieve", "scan", "judge", "details", "done"}
        /\ pc = "scan" => i \in 1 .. N + 1
        /\ i \in 1 .. count => i \in 1 .. N
    BY ScannedIndex DEF IInv, TypeOK, ScanInv, Index
  <2>2. WaitLeft \in Nat /\ PollLeft \in Nat
    BY <2>1, LeftFalls DEF WaitLeft, PollLeft
  <2>3. ASSUME time_waited_so_far' = time_waited_so_far, PollLeft' \in Nat, PollLeft' < PollLeft PROVE Nearer
    <3>1. WaitLeft' = WaitLeft
      BY <2>3 DEF WaitLeft
    <3> QED BY <2>2, <2>3, <3>1 DEF Nearer
  <2>4. CASE RetrieveResults \/ RetrieveDamaged \/ RetrieveFails
    BY <2>1, <2>3, <2>4 DEF RetrieveResults, RetrieveDamaged, Answer, RetrieveFails, PollLeft, timing
  <2>5. CASE ScanMissing \/ ScanNoUrl
    BY <2>1, <2>3, <2>5 DEF ScanMissing, ScanNoUrl, Scanning, Index, PollLeft, timing
  <2>6. CASE ScanIncomplete \/ ScanKnown \/ LookUpFailure \/ LookUpFails
    BY <2>1, <2>3, <2>6
       DEF ScanIncomplete, ScanKnown, LookUpFailure, LookUpFails, NewFailure, NextResult, Scanning, Index,
           PollLeft, timing
  <2>7. CASE JudgePassed \/ JudgeFailed \/ GiveUp
    BY <2>1, <2>3, <2>7 DEF JudgePassed, JudgeFailed, GiveUp, Scanned, PollLeft, timing
  <2>8. CASE FetchDetails
    BY <2>1, <2>3, <2>8 DEF FetchDetails, PollLeft, timing
  <2>9. CASE WaitForResults
    <3>1. retry_interval' \in Nat /\ retry_interval' >= 1
      BY <2>1, <2>9, BackoffNat, BackoffPositive DEF WaitForResults
    <3>2. /\ time_waited_so_far' = time_waited_so_far + retry_interval' /\ pc' = "retrieve"
          /\ ~WaitExhausted(time_waited_so_far)
      BY <2>9 DEF WaitForResults
    <3>3. WaitLeft' \in Nat /\ WaitLeft' < WaitLeft
      <4> DEFINE d == retry_interval'
      <4>1. d \in Nat /\ d >= 1 /\ WaitLeft' = Left(time_waited_so_far + d)
        BY <3>1, <3>2 DEF WaitLeft
      <4> HIDE DEF d
      <4>2. Left(time_waited_so_far + d) \in Nat /\ Left(time_waited_so_far + d) < Left(time_waited_so_far)
        BY <2>1, <3>2, <4>1, LeftFalls
      <4> QED BY <4>1, <4>2 DEF WaitLeft
    <3>4. PollLeft' \in Nat
      BY <2>1, <3>2 DEF PollLeft
    <3> QED BY <2>2, <3>3, <3>4 DEF Nearer
  <2>10. ASSUME NEW n \in Index, Evaluate(n) \/ Expire(n) PROVE FALSE
    BY <2>10 DEF Evaluate, Expire, ServerMoves, check
  <2> QED BY <2>4, <2>5, <2>6, <2>7, <2>8, <2>9, <2>10 DEF Next, ClientStep, Returned, vars, check
<1> QED BY <1>1, Invariance, PTL DEF Spec
================================================================================
