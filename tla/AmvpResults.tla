------------------------------ MODULE AmvpResults ------------------------------
(***************************************************************************)
(* amvp_get_result_test_session() of src/src/amvp.c: the results of the     *)
(* session are read again and again, through amvp_retry_handler(), until no *)
(* set is incomplete; on the way the vector sets that failed are downloaded *)
(* once more to name their algorithms.  AmvpSession uses this loop as the   *)
(* one step CheckTestResults; AmvpPolling has its timing for any answers.   *)
(*                                                                          *)
(* Each poll works on a snapshot: the server goes on evaluating while the   *)
(* client scans `results` and makes the requests of the scan.               *)
(***************************************************************************)
EXTENDS AmvpRetry, Sequences

CONSTANTS
    N,                \* number of vector sets in the session
    Url, Alg, Mode,   \* of each set: vectorSetUrl, "algorithm", "mode"
    NoUrl, NoMode,    \* the member is missing
    Prefixes,         \* pairs of these names, the first a prefix of the second
    Verbose,          \* ctx->log_lvl == AMVP_LOG_LVL_VERBOSE
    AMVP_RETRY_TIME,
    MaxFaults         \* bound: requests that fail

Index == 1 .. N
Modes == {Mode[k] : k \in Index} \ {NoMode}

ASSUME ResultsConstants ==
    /\ N \in Nat
    /\ DOMAIN Url = Index /\ DOMAIN Alg = Index /\ DOMAIN Mode = Index
    /\ \A p \in Prefixes : p[1] # p[2]
    /\ Verbose \in BOOLEAN
    /\ AMVP_RETRY_TIME \in Nat
    /\ MaxFaults \in Nat

VARIABLES
    (* the server *)
    status,           \* of each set
    (* the client *)
    pc, rv,
    results, passed,  \* the answer being scanned
    count,            \* number of results in it
    i, testsCompleted,
    retry_interval, time_waited_so_far,
    failedVsList, failedAlgList, failedModeList,
    mode,             \* the local of that name: it keeps the last set's mode
    session_passed,   \* ctx->session_passed
    (* history and bounds *)
    downloads,        \* vector sets downloaded, per set
    faults

lists  == <<failedVsList, failedAlgList, failedModeList, mode>>
answer == <<results, passed, count>>
timing == <<retry_interval, time_waited_so_far>>
vars   == <<status, pc, rv, answer, i, testsCompleted, timing, lists,
            session_passed, downloads, faults>>

Missing  == {"expired", "unreceived"}
Complete == {"pass", "fail", "error"}
Statuses == Missing \cup Complete \cup {"incomplete"}
NoStatus == "none"    \* a result without "status"

Init ==
    /\ status \in [Index -> {"incomplete", "unreceived"}]
    /\ pc = "retrieve" /\ rv = "AMVP_SUCCESS"
    /\ results = status /\ passed = FALSE /\ count = N
    /\ i = 0 /\ testsCompleted = 0
    /\ retry_interval = AMVP_RETRY_TIME /\ time_waited_so_far = 0
    /\ failedVsList = <<>> /\ failedAlgList = <<>> /\ failedModeList = <<>>
    /\ mode = NoMode
    /\ session_passed = FALSE
    /\ downloads = [k \in Index |-> 0]
    /\ faults = 0
--------------------------------------------------------------------------------
Fault == faults < MaxFaults /\ faults' = faults + 1

Errors == {"AMVP_TRANSPORT_FAIL", "AMVP_JSON_ERR"}

(* amvp_lookup_str_list() compares as many characters as the shorter string *)
(* has; NULL is in no list.                                                 *)
Lookup(list, s) ==
    \E k \in 1 .. Len(list) :
        list[k] = s \/ <<list[k], s>> \in Prefixes \/ <<s, list[k]>> \in Prefixes

(* The session's results.  "passed" is the server's verdict once every set  *)
(* is complete, and means nothing before.                                   *)
Answer ==
    /\ pc = "retrieve"
    /\ passed' \in BOOLEAN
    /\ (\A k \in Index : status[k] \in Complete) =>
          (passed' <=> \A k \in Index : status[k] = "pass")
    /\ rv' = "AMVP_SUCCESS"
    /\ i' = 1 /\ testsCompleted' = 0
    /\ pc' = "scan"
    /\ UNCHANGED <<status, timing, lists, session_passed, downloads>>

RetrieveResults == Answer /\ results' = status /\ count' = N /\ UNCHANGED faults

(* An answer that parses but lacks a member: no "results", whose count is   *)
(* then 0, or a result without "status".                                    *)
RetrieveDamaged ==
    /\ Answer /\ Fault
    /\ \/ count' = 0 /\ results' = status
       \/ count' = N /\ \E k \in Index : results' = [status EXCEPT ![k] = NoStatus]

RetrieveFails ==
    /\ pc = "retrieve" /\ Fault
    /\ rv' \in Errors
    /\ pc' = "done"
    /\ UNCHANGED <<status, answer, i, testsCompleted, timing, lists, session_passed, downloads>>

(* The loop over the results.                                               *)
Scanning(S) == pc = "scan" /\ i \in 1 .. count /\ results[i] \in S

NextResult == i' = i + 1 /\ UNCHANGED <<status, answer, timing, session_passed>>

(* An expired or unanswered set, or a result without a status, ends the     *)
(* check with whatever rv is.                                               *)
ScanMissing ==
    /\ Scanning(Missing \cup {NoStatus})
    /\ pc' = "done"
    /\ UNCHANGED <<status, rv, answer, i, testsCompleted, timing, lists, session_passed,
                   downloads, faults>>

ScanIncomplete ==
    /\ Scanning({"incomplete"})
    /\ NextResult
    /\ UNCHANGED <<pc, rv, testsCompleted, lists, downloads, faults>>

(* Nothing to look up: the set did not fail, or was looked up before.       *)
ScanKnown ==
    /\ Scanning(Complete)
    /\ results[i] = "fail" => Url[i] # NoUrl /\ Lookup(failedVsList, Url[i])
    /\ testsCompleted' = testsCompleted + 1
    /\ NextResult
    /\ UNCHANGED <<pc, rv, lists, downloads, faults>>

(* "No vector set URL when generating failed algorithm list": break.        *)
ScanNoUrl ==
    /\ Scanning({"fail"}) /\ Url[i] = NoUrl
    /\ pc' = "judge"
    /\ UNCHANGED <<status, rv, answer, i, testsCompleted, timing, lists, session_passed,
                   downloads, faults>>

NewFailure == Scanning({"fail"}) /\ Url[i] # NoUrl /\ ~Lookup(failedVsList, Url[i])

(* Defective: no empty node for an algorithm without a mode.                *)
ListFailureUnaligned(m) ==
    /\ failedAlgList' = Append(failedAlgList, Alg[i])
    /\ failedModeList' = IF m = NoMode THEN failedModeList ELSE Append(failedModeList, m)

(* Defective: an algorithm without a mode is not listed.                    *)
ListFailureWithMode(m) ==
    IF m = NoMode \/ (Lookup(failedAlgList, Alg[i]) /\ Lookup(failedModeList, m))
    THEN UNCHANGED <<failedAlgList, failedModeList>>
    ELSE /\ failedAlgList' = Append(failedAlgList, Alg[i])
         /\ failedModeList' = Append(failedModeList, m)

(* The algorithm and the mode go into two lists, which are searched one by  *)
(* one; an algorithm without a mode has an empty node.                      *)
ListFailure(m) ==
    IF Lookup(failedAlgList, Alg[i]) /\ m # NoMode /\ Lookup(failedModeList, m)
    THEN UNCHANGED <<failedAlgList, failedModeList>>
    ELSE /\ failedAlgList' = Append(failedAlgList, Alg[i])
         /\ failedModeList' = Append(failedModeList, m)

(* The set is downloaded and its algorithm listed with its mode, unless     *)
(* both are listed already.  `mode` is left alone by a set that has none:   *)
(* it then points into the answer of an earlier set, which may have been    *)
(* freed, so that what is read there is anybody's guess.                    *)
LookUpFailure ==
    /\ NewFailure
    /\ failedVsList' = Append(failedVsList, Url[i])
    /\ downloads' = [downloads EXCEPT ![i] = @ + 1]
    /\ mode' \in IF Mode[i] # NoMode THEN {Mode[i]}
                 ELSE IF mode = NoMode THEN {NoMode} ELSE Modes
    /\ ListFailure(mode')
    /\ rv' = "AMVP_SUCCESS"
    /\ testsCompleted' = testsCompleted + 1
    /\ NextResult
    /\ UNCHANGED <<pc, faults>>

(* Defective: a set whose download failed is tried again at the next poll.  *)
LookUpFailsForgotten ==
    /\ NewFailure /\ Fault
    /\ downloads' = [downloads EXCEPT ![i] = @ + 1]
    /\ rv' \in {"AMVP_TRANSPORT_FAIL", "AMVP_SUCCESS"}
    /\ NextResult
    /\ UNCHANGED <<pc, testsCompleted, lists>>

(* "... while reporting failed algorithms, skipping...": the set is not     *)
(* counted in this poll, and counted without a name in the next.            *)
LookUpFails ==
    /\ NewFailure /\ Fault
    /\ failedVsList' = Append(failedVsList, Url[i])
    /\ downloads' = [downloads EXCEPT ![i] = @ + 1]
    /\ rv' \in {"AMVP_TRANSPORT_FAIL", "AMVP_SUCCESS"}   \* the request, or its JSON
    /\ NextResult
    /\ UNCHANGED <<pc, testsCompleted, failedAlgList, failedModeList, mode>>

Scanned == pc = "judge" \/ (pc = "scan" /\ i = count + 1)

(* Defective: one set too few.                                              *)
AllCompletedButOne == testsCompleted + 1 >= count

AllCompleted == testsCompleted >= count

JudgePassed ==
    /\ Scanned /\ AllCompleted /\ passed
    /\ session_passed' = TRUE
    /\ rv' = "AMVP_SUCCESS"
    /\ pc' = "done"
    /\ UNCHANGED <<status, answer, i, testsCompleted, timing, lists, downloads, faults>>

(* Some vectors failed: their details are fetched when logging is verbose.  *)
JudgeFailed ==
    /\ Scanned /\ AllCompleted /\ ~passed
    /\ pc' = IF Verbose THEN "details" ELSE "done"
    /\ UNCHANGED <<status, rv, answer, i, testsCompleted, timing, lists, session_passed,
                   downloads, faults>>

(* The first request that fails, or that has no URL to go to, ends it.      *)
FetchDetails ==
    /\ pc = "details"
    /\ pc' = "done"
    /\ \/ /\ rv' = IF \E k \in 1 .. count : results[k] \in {"fail", "error"} /\ Url[k] = NoUrl
                   THEN "AMVP_MISSING_ARG" ELSE "AMVP_SUCCESS"
          /\ UNCHANGED faults
       \/ rv' = "AMVP_TRANSPORT_FAIL" /\ Fault
    /\ UNCHANGED <<status, answer, i, testsCompleted, timing, lists, session_passed, downloads>>

(* Defective: the wait is not counted.                                      *)
WaitUncounted ==
    /\ Scanned /\ ~AllCompleted
    /\ pc' = "retrieve"
    /\ UNCHANGED <<status, rv, answer, i, testsCompleted, timing, lists, session_passed,
                   downloads, faults>>

(* "TestSession results incomplete...": amvp_retry_handler()                *)
WaitForResults ==
    /\ Scanned /\ ~AllCompleted
    /\ ~WaitExhausted(time_waited_so_far)
    /\ retry_interval' = Backoff(SleepPeriod(time_waited_so_far, retry_interval), 1)
    /\ time_waited_so_far' = time_waited_so_far + retry_interval'
    /\ pc' = "retrieve"
    /\ UNCHANGED <<status, rv, answer, i, testsCompleted, lists, session_passed, downloads, faults>>

(* Defective: the last poll's rv is returned.                               *)
GiveUpSilently ==
    /\ Scanned /\ ~AllCompleted
    /\ WaitExhausted(time_waited_so_far)
    /\ pc' = "done"
    /\ UNCHANGED <<status, rv, answer, i, testsCompleted, timing, lists, session_passed,
                   downloads, faults>>

GiveUp ==
    /\ Scanned /\ ~AllCompleted
    /\ WaitExhausted(time_waited_so_far)
    /\ rv' = "AMVP_TRANSPORT_FAIL"
    /\ pc' = "done"
    /\ UNCHANGED <<status, answer, i, testsCompleted, timing, lists, session_passed,
                   downloads, faults>>
--------------------------------------------------------------------------------
(* The server (external) evaluates the answers it has, and expires sets it  *)
(* has no answer for.                                                       *)
ServerMoves(k, S) ==
    /\ pc # "done"
    /\ \E s \in S : status' = [status EXCEPT ![k] = s]
    /\ UNCHANGED <<pc, rv, answer, i, testsCompleted, timing, lists, session_passed,
                   downloads, faults>>

Evaluate(k) == status[k] = "incomplete" /\ ServerMoves(k, Complete)

Expire(k) == status[k] = "unreceived" /\ ServerMoves(k, {"expired"})

Returned == pc = "done" /\ UNCHANGED vars

ClientStep ==
    \/ RetrieveResults \/ RetrieveDamaged \/ RetrieveFails
    \/ ScanMissing \/ ScanIncomplete \/ ScanKnown \/ ScanNoUrl
    \/ LookUpFailure \/ LookUpFails
    \/ JudgePassed \/ JudgeFailed \/ FetchDetails
    \/ WaitForResults \/ GiveUp

Next == ClientStep \/ (\E k \in Index : Evaluate(k) \/ Expire(k)) \/ Returned

Spec == Init /\ [][Next]_vars

(* The client runs on; the server need not evaluate anything.               *)
FairSpec == Spec /\ WF_vars(ClientStep)
--------------------------------------------------------------------------------
TypeOK ==
    /\ status \in [Index -> Statuses] /\ results \in [Index -> Statuses \cup {NoStatus}]
    /\ count \in {0, N}
    /\ passed \in BOOLEAN /\ session_passed \in BOOLEAN
    /\ pc \in {"retrieve", "scan", "judge", "details", "done"}
    /\ rv \in {"AMVP_SUCCESS", "AMVP_MISSING_ARG"} \cup Errors
    /\ i \in 0 .. N + 1 /\ testsCompleted \in 0 .. N
    /\ retry_interval \in Nat /\ time_waited_so_far \in Nat
    /\ Len(failedAlgList) = Len(failedModeList)
    /\ faults \in 0 .. MaxFaults

(* The ctx records a pass only when every set of the session has passed,    *)
(* and it still has when the function returns: the "passed" of an answer in *)
(* which a set was incomplete, or a result had no status, is never taken    *)
(* for the verdict.  The code does take that of an answer without           *)
(* "results", in which no result is left to be incomplete.                  *)
PassedIsFinal == session_passed /\ count = N => \A k \in Index : status[k] = "pass"

(* The answer the check has ended with lacks a member.                      *)
Damaged == count # N \/ \E k \in Index : results[k] = NoStatus

(* AMVP_SUCCESS without a pass means that the session cannot pass any more  *)
(* without the user: a set failed, expired or was never answered.  It is    *)
(* never returned for a session that is merely incomplete, unless the       *)
(* answer is damaged: a missing status ends the check with the AMVP_SUCCESS *)
(* of the request that brought it.                                          *)
SuccessIsDecided ==
    pc = "done" /\ rv = "AMVP_SUCCESS" =>
        session_passed \/ Damaged \/ \E k \in Index : status[k] \in Missing \cup {"fail", "error"}

(* What the check says of the session will not change any more, although it *)
(* has only looked at snapshots of a server that goes on evaluating.        *)
VerdictIsFinal == PassedIsFinal /\ SuccessIsDecided

(* "so we don't redownload failed vector sets every time a retry is done":  *)
(* in all the polls of a check a set is downloaded at most once, also when  *)
(* its download failed.                                                     *)
DownloadedOnce == \A k \in Index : downloads[k] <= 1

(* The check returns, even when the server never finishes, lookups fail or  *)
(* a result has no URL.                                                     *)
CheckReturns == <>(pc = "done")

(* No other set has a name that amvp_lookup_str_list() takes for this one.  *)
Unmistakable(name, k) ==
    \A n \in Index : <<name[n], name[k]>> \notin Prefixes /\ <<name[k], name[n]>> \notin Prefixes

(* What is printed as failed: only algorithms of sets that failed, and, as  *)
(* long as no request fails, that of every failed set that was downloaded.  *)
(* A check that completes has downloaded every failed set that has a URL.   *)
(* Both hold for names that no other name is a prefix of or extends: the    *)
(* lists are searched by prefix, so vector set 95 is taken for the listed   *)
(* vector set 9, and never named.  Of the modes, which are searched on      *)
(* their own and may be those of an earlier set, nothing can be said.       *)
FailedAlgorithmsListed ==
    /\ \A n \in 1 .. Len(failedAlgList) :
         \E k \in Index : status[k] = "fail" /\ Alg[k] = failedAlgList[n]
    /\ faults = 0 =>
         \A k \in Index : downloads[k] > 0 /\ Unmistakable(Alg, k) =>
             \E n \in 1 .. Len(failedAlgList) : failedAlgList[n] = Alg[k]
    /\ pc = "done" /\ testsCompleted = N =>
         \A k \in Index : results[k] = "fail" /\ Url[k] # NoUrl /\ Unmistakable(Url, k) =>
             \E n \in Index : Url[n] = Url[k] /\ downloads[n] > 0
================================================================================
