------------------------------ MODULE AmvpSession ------------------------------
(***************************************************************************)
(* One test session of libamvp from registration to validation, across the  *)
(* processes that work on it: amvp_run() (also for a module certification   *)
(* request), and, from the session info file that a run leaves behind,      *)
(* amvp_resume_test_session(), amvp_get_results_from_server() and           *)
(* amvp_cancel_test_session() (src/src/amvp.c).                             *)
(*                                                                          *)
(* A process may crash between any two steps and loses its ctx; what        *)
(* survives is the file and what the server has.  A request has one of the  *)
(* three outcomes AmvpCall allows: done, not done, done but reported as an  *)
(* error because a message was lost.                                        *)
(***************************************************************************)
EXTENDS Naturals

CONSTANTS
    Sets,         \* the vector (or evidence) sets of the session
    Order,        \* the position at which the server lists each of them
    FailingSets,  \* those whose handler may be one that cannot produce an answer
    Commands,     \* what the user may start: a subset of AllCommands
    CanExpire,    \* whether the server may expire a set
    MaxCrashes,   \* bound: crashes
    MaxFaults     \* bound: requests or file operations that fail

AllCommands == {"run", "mod_cert_req", "resume", "get_results", "cancel"}

ASSUME SessionConstants ==
    /\ Sets # {}
    /\ Order \in [Sets -> Nat]
    /\ \A u, v \in Sets : Order[u] = Order[v] => u = v
    /\ FailingSets \subseteq Sets
    /\ Commands \subseteq AllCommands
    /\ CanExpire \in BOOLEAN
    /\ MaxCrashes \in Nat /\ MaxFaults \in Nat

VARIABLES
    (* the server *)
    registered,   \* the session exists
    status,       \* of each set, as "status" in the session's results
    submissions,  \* answers the server has taken for each set
    validated,    \* a validation of the session was requested
    deleted,      \* the session was cancelled
    (* the disk *)
    file,         \* session info file: "none", "torn" (does not parse), "ok"
    (* the process *)
    pc,
    command,      \* what it was started for
    fips,         \* fips_validation; the user gives the same flag every time
    failing,      \* the sets this module cannot answer
    listed,       \* the sets in the answer to the registration up to the first URL that is no string
    session_url,        \* ctx->session_url is set
    vsid_url_list,      \* what is left of ctx->vsid_url_list (kept in Order)
    session_passed,     \* ctx->session_passed
    session_file_path,  \* ctx->session_file_path is set
    rv,                 \* what the last process returned
    (* bounds *)
    crashes, faults

server == <<registered, status, submissions, validated, deleted>>
ctx    == <<session_url, vsid_url_list, session_passed, session_file_path>>
vars   == <<server, file, pc, command, fips, failing, listed, ctx, rv, crashes, faults>>

Statuses == {"unreceived", "incomplete", "pass", "fail", "expired"}

Init ==
    /\ registered = FALSE /\ validated = FALSE /\ deleted = FALSE
    /\ status = [v \in Sets |-> "unreceived"]
    /\ submissions = [v \in Sets |-> 0]
    /\ file = "none"
    /\ pc = "stopped" /\ command = "none" /\ fips \in BOOLEAN
    /\ failing \in SUBSET FailingSets /\ listed = Sets
    /\ session_url = FALSE /\ vsid_url_list = {}
    /\ session_passed = FALSE /\ session_file_path = FALSE
    /\ rv = "none" /\ crashes = 0 /\ faults = 0
--------------------------------------------------------------------------------
Stop(r) == pc' = "stopped" /\ rv' = r

Goto(l) == pc' = l /\ UNCHANGED rv

Fault == faults < MaxFaults /\ faults' = faults + 1

NoFault == UNCHANGED faults

AnyError == {"AMVP_TRANSPORT_FAIL", "AMVP_JSON_ERR"}

(* The session is still there for the requests that name it.                *)
Known == registered /\ ~deleted

(* A command is started with a new ctx; the first step reads the session    *)
(* info file, or logs in.  Only one session is registered per behaviour.    *)
Start(c) ==
    /\ pc = "stopped"
    /\ c \in {"run", "mod_cert_req"} => ~registered /\ command = "none"
    /\ command' = c
    /\ session_url' = FALSE /\ vsid_url_list' = {}
    /\ session_passed' = FALSE /\ session_file_path' = FALSE
    /\ Goto(IF c \in {"run", "mod_cert_req"} THEN "login" ELSE "parse")
    /\ UNCHANGED <<server, file, fips, failing, listed, crashes, faults>>

(* amvp_parse_session_info_file()                                           *)
ParseSessionInfoFile ==
    /\ pc = "parse"
    /\ \/ file = "ok" /\ session_url' = TRUE /\ Goto("login")
       \/ file # "ok" /\ Stop("AMVP_MALFORMED_JSON") /\ UNCHANGED session_url
    /\ UNCHANGED <<server, file, command, fips, failing, listed, vsid_url_list, session_passed,
                   session_file_path, crashes, faults>>

(* amvp_login() or amvp_refresh()                                           *)
Login ==
    /\ pc = "login"
    /\ \/ /\ NoFault
          /\ \/ command = "run" /\ fips /\ Goto("verify")
             \/ command = "run" /\ ~fips /\ Goto("register")
             \/ command = "mod_cert_req" /\ Goto("register")
             \/ command = "resume" /\ Goto("retrieve")
             \/ command = "get_results" /\ Goto("check")
             \/ command = "cancel" /\ Goto("delete")
       \/ Fault /\ Stop("AMVP_TRANSPORT_FAIL")
    /\ UNCHANGED <<server, file, command, fips, failing, listed, ctx, crashes>>

(* amvp_verify_fips_validation_metadata(), before anything is registered.   *)
VerifyMetadata ==
    /\ pc = "verify"
    /\ \/ NoFault /\ Goto("register")
       \/ Fault /\ Stop("AMVP_UNSUPPORTED_OP")
    /\ UNCHANGED <<server, file, command, fips, failing, listed, ctx, crashes>>

(* The sets that the server lists before a set.                            *)
Before(w) == {v \in Sets : Order[v] < Order[w]}

(* amvp_register() with amvp_parse_test_session_register(), or the first    *)
(* half of amvp_mod_cert_req().  A URL that is not a string ends the list,  *)
(* and that is no error.  amvp_run() goes on to check the results even when *)
(* amvp_mod_cert_req() has failed.                                          *)
Register ==
    /\ pc = "register"
    /\ \/ /\ \/ NoFault /\ listed' = Sets
             \/ Fault /\ \E w \in Sets : listed' = Before(w)
          /\ registered' = TRUE
          /\ session_url' = TRUE
          /\ vsid_url_list' = listed'
          /\ Goto(IF command = "run" THEN "write" ELSE "process")
       \/ /\ Fault
          /\ registered' \in BOOLEAN
          /\ session_url' \in {FALSE, registered'}
          /\ IF command = "run" THEN \E r \in AnyError : Stop(r) ELSE Goto("check")
          /\ UNCHANGED <<vsid_url_list, listed>>
    /\ UNCHANGED <<status, submissions, validated, deleted, file, command, fips, failing,
                   session_passed, session_file_path, crashes>>

(* amvp_write_session_info() truncates the file and writes the object, then *)
(* appends the closing bracket; a failure is only logged.                   *)
WriteSessionInfo ==
    /\ pc = "write"
    /\ \/ NoFault /\ file' = "torn" /\ Goto("writeEnd")
       \/ Fault /\ file' \in {file, "torn"} /\ Goto("process")
    /\ UNCHANGED <<server, command, fips, failing, listed, ctx, crashes>>

EndSessionInfo ==
    /\ pc = "writeEnd"
    /\ \/ NoFault /\ file' = "ok" /\ session_file_path' = TRUE
       \/ Fault /\ file' \in {"torn", "ok"} /\ UNCHANGED session_file_path
    /\ Goto("process")
    /\ UNCHANGED <<server, command, fips, failing, listed, session_url, vsid_url_list, session_passed, crashes>>

(* The entry of the list that is processed next.                            *)
IsNext(v) == \A u \in vsid_url_list : Order[v] <= Order[u]

(* Defective: every error is overwritten by the check that follows.         *)
ProcessFailureForgotten(r) == Goto("check")

(* An error inside amvp_process_tests() ends the command; inside            *)
(* amvp_mod_cert_req() it is overwritten by the check that follows.         *)
ProcessFails(r) ==
    IF command = "mod_cert_req" THEN Goto("check") ELSE Stop(r)

(* amvp_process_vsid() / amvp_process_teid(), first half: the set at the    *)
(* head of the list is downloaded and answered into ctx->kat_resp.  An      *)
(* empty list is an error of amvp_process_tests().                          *)
ProcessSet ==
    /\ pc = "process"
    /\ \/ vsid_url_list = {} /\ NoFault /\ ProcessFails("AMVP_MISSING_ARG")
       \/ \E v \in vsid_url_list :
          /\ IsNext(v)
          /\ \/ NoFault /\ Known /\ v \notin failing /\ Goto("submit")
             \/ NoFault /\ Known /\ v \in failing /\ ProcessFails("AMVP_CRYPTO_MODULE_FAIL")
             \/ NoFault /\ ~Known /\ ProcessFails("AMVP_TRANSPORT_FAIL")
             \/ Fault /\ \E r \in AnyError : ProcessFails(r)
    /\ UNCHANGED <<server, file, command, fips, failing, listed, ctx, crashes>>

Accept(v) ==
    /\ status' = [status EXCEPT ![v] = "incomplete"]
    /\ submissions' = [submissions EXCEPT ![v] = @ + 1]

(* vs_entry = vs_entry->next; after the last one the results are checked.    *)
Advance(v) ==
    /\ vsid_url_list' = vsid_url_list \ {v}
    /\ Goto(IF vsid_url_list = {v} THEN "check" ELSE "process")

(* ... second half: amvp_submit_vector_responses(); then the next entry.    *)
SubmitAnswer ==
    /\ pc = "submit"
    /\ \E v \in vsid_url_list :
       /\ IsNext(v)
       /\ \/ /\ NoFault /\ Known /\ status[v] # "expired"
             /\ Accept(v)
             /\ Advance(v)
          \/ /\ NoFault /\ (~Known \/ status[v] = "expired")
             /\ ProcessFails("AMVP_TRANSPORT_FAIL")
             /\ UNCHANGED <<status, submissions, vsid_url_list>>
          \/ /\ Fault                                       \* the answer is lost
             /\ Known /\ status[v] # "expired"
             /\ Accept(v)
             /\ ProcessFails("AMVP_TRANSPORT_FAIL")
             /\ UNCHANGED vsid_url_list
          \/ /\ Fault                                       \* the request is
             /\ ProcessFails("AMVP_TRANSPORT_FAIL")
             /\ UNCHANGED <<status, submissions, vsid_url_list>>
    /\ UNCHANGED <<registered, validated, deleted, file, command, fips, failing, listed,
                   session_url, session_passed, session_file_path, crashes>>
--------------------------------------------------------------------------------
(* Defective: the file is rewritten before the validation is requested.     *)
AfterCheckRewrites ==
    IF command \in {"run", "resume"} /\ fips /\ file = "ok" THEN Goto("rewrite")
                                                         ELSE Stop("AMVP_SUCCESS")

(* What follows a check that returned AMVP_SUCCESS.                         *)
AfterCheck ==
    CASE command = "mod_cert_req"                   -> Goto("cert_req")
      [] command \in {"run", "resume"} /\ fips      -> Goto("validate")
      [] OTHER                                      -> Stop("AMVP_SUCCESS")

SomeSet(S) == \E v \in Sets : status[v] \in S

(* amvp_get_result_test_session(): a set that expired or was never answered *)
(* ends it, and only a session whose sets are all complete is judged.  The  *)
(* wait for incomplete sets is AmvpPolling's: here the client polls again   *)
(* (no step) until the server is ready or it gives up.                      *)
CheckTestResults ==
    /\ pc = "check"
    /\ \/ ~session_url /\ NoFault /\ Stop("AMVP_MISSING_ARG") /\ UNCHANGED session_passed
       \/ session_url /\ Fault /\ (\E r \in AnyError : Stop(r)) /\ UNCHANGED session_passed
       \/ session_url /\ ~Known /\ NoFault /\ Stop("AMVP_TRANSPORT_FAIL") /\ UNCHANGED session_passed
       \/ /\ session_url /\ Known /\ NoFault
          /\ \/ SomeSet({"expired", "unreceived"}) /\ AfterCheck /\ UNCHANGED session_passed
             \/ /\ ~SomeSet({"expired", "unreceived"}) /\ SomeSet({"incomplete"})
                /\ Stop("AMVP_TRANSPORT_FAIL") /\ UNCHANGED session_passed
             \/ /\ ~SomeSet({"expired", "unreceived", "incomplete"}) /\ SomeSet({"fail"})
                /\ AfterCheck /\ UNCHANGED session_passed
             \/ /\ ~SomeSet({"expired", "unreceived", "incomplete", "fail"})
                /\ session_passed' = TRUE /\ AfterCheck
    /\ UNCHANGED <<server, file, command, fips, failing, listed, session_url, vsid_url_list,
                   session_file_path, crashes>>

(* Defective: also what failed or is still evaluated; the session's own URL *)
(* as well.                                                                 *)
UnansweredOrOpen == {v \in Sets : status[v] # "pass"}
UnansweredAndSession == {v \in Sets : status[v] = "unreceived"} \cup {"session"}

(* amvp_resume_test_session(): the statuses decide what is processed again. *)
Unanswered == {v \in Sets : status[v] = "unreceived"}

(* The statuses with which a session cannot be resumed; the defective ones  *)
(* include that of a set which was answered.                                *)
HopelessOrFailed == {"expired", "fail"}

Hopeless == {"expired"}

Retrieve ==
    /\ pc = "retrieve"
    /\ \/ Fault /\ (\E r \in AnyError \cup {"AMVP_UNSUPPORTED_OP"} : Stop(r)) /\ UNCHANGED vsid_url_list
       \/ ~Known /\ NoFault /\ Stop("AMVP_TRANSPORT_FAIL") /\ UNCHANGED vsid_url_list
       \/ /\ Known /\ NoFault
          /\ \/ SomeSet(Hopeless) /\ Stop("AMVP_INVALID_ARG") /\ UNCHANGED vsid_url_list
             \/ /\ ~SomeSet(Hopeless)
                /\ vsid_url_list' = Unanswered
                /\ IF Unanswered = {} THEN Stop("AMVP_SUCCESS") ELSE Goto("process")
    /\ UNCHANGED <<server, file, command, fips, failing, listed, session_url, session_passed,
                   session_file_path, crashes>>

(* PUT of the validation: done, done but the answer lost, or not done.      *)
PutValidation(next) ==
    \/ NoFault /\ Known /\ validated' = TRUE /\ next
    \/ NoFault /\ ~Known /\ Stop("AMVP_TRANSPORT_FAIL") /\ UNCHANGED validated
    \/ Fault /\ Known /\ validated' = TRUE /\ \E r \in AnyError : Stop(r)
    \/ Fault /\ UNCHANGED validated /\ \E r \in AnyError : Stop(r)

(* Defective: the disposition is not looked at.                             *)
ValidateUnchecked ==
    /\ pc = "validate"
    /\ PutValidation(Stop("AMVP_SUCCESS"))
    /\ UNCHANGED <<registered, status, submissions, deleted, file, command, fips, failing, listed, ctx, crashes>>

(* amvp_validate_test_session(): "Required disposition == 'pass'".  The     *)
(* answer is recorded in the session info file the ctx knows of.            *)
ValidateTestSession ==
    /\ pc = "validate"
    /\ \/ ~session_passed /\ NoFault /\ Stop("AMVP_SUCCESS") /\ UNCHANGED validated
       \/ session_passed /\ PutValidation(IF session_file_path THEN Goto("rewrite")
                                                               ELSE Stop("AMVP_SUCCESS"))
    /\ UNCHANGED <<registered, status, submissions, deleted, file, command, fips, failing, listed, ctx, crashes>>

(* amvp_parse_validation(): the file is read back, truncated and written    *)
(* again; a failure to read it, or to close the array, is only logged.      *)
RewriteSessionInfo ==
    /\ pc = "rewrite"
    /\ \/ NoFault /\ file = "ok" /\ file' = "torn" /\ Goto("rewriteEnd")
       \/ Fault /\ UNCHANGED file /\ Stop("AMVP_SUCCESS")
       \/ Fault /\ file' \in {file, "torn"} /\ Stop("AMVP_JSON_ERR")
    /\ UNCHANGED <<server, command, fips, failing, listed, ctx, crashes>>

EndRewrite ==
    /\ pc = "rewriteEnd"
    /\ \/ NoFault /\ file' = "ok"
       \/ Fault /\ UNCHANGED file
    /\ Stop("AMVP_SUCCESS")
    /\ UNCHANGED <<server, command, fips, failing, listed, ctx, crashes>>

(* amvp_cert_req(): the documents are fetched, then the validation is PUT   *)
(* (a module certification request has no session info file).               *)
CertReq ==
    /\ pc = "cert_req"
    /\ \/ Fault /\ (\E r \in AnyError : Stop(r)) /\ UNCHANGED validated
       \/ PutValidation(Stop("AMVP_SUCCESS"))
    /\ UNCHANGED <<registered, status, submissions, deleted, file, command, fips, failing, listed, ctx, crashes>>

(* amvp_transport_delete() of the session, and the file its response may be *)
(* saved to.                                                                *)
CancelTestSession ==
    /\ pc = "delete"
    /\ \/ NoFault /\ Known /\ deleted' = TRUE /\ Stop("AMVP_SUCCESS")
       \/ NoFault /\ ~Known /\ Stop("AMVP_TRANSPORT_FAIL") /\ UNCHANGED deleted
       \/ Fault /\ Known /\ deleted' = TRUE /\ \E r \in AnyError : Stop(r)
       \/ Fault /\ UNCHANGED deleted /\ Stop("AMVP_TRANSPORT_FAIL")
    /\ UNCHANGED <<registered, status, submissions, validated, file, command, fips, failing, listed, ctx, crashes>>
--------------------------------------------------------------------------------
(* The process dies; its ctx is gone.                                       *)
Crash ==
    /\ pc # "stopped" /\ crashes < MaxCrashes
    /\ crashes' = crashes + 1
    /\ Stop("none")
    /\ session_url' = FALSE /\ vsid_url_list' = {}
    /\ session_passed' = FALSE /\ session_file_path' = FALSE
    /\ UNCHANGED <<server, file, command, fips, failing, listed, faults>>

(* The server (external).                                                   *)
Evaluate(v) ==
    /\ status[v] = "incomplete"
    /\ \E s \in {"pass", "fail"} : status' = [status EXCEPT ![v] = s]
    /\ UNCHANGED <<registered, submissions, validated, deleted, file, pc, command, fips, failing, listed,
                   ctx, rv, crashes, faults>>

Expire(v) ==
    /\ CanExpire /\ registered /\ status[v] = "unreceived"
    /\ status' = [status EXCEPT ![v] = "expired"]
    /\ UNCHANGED <<registered, submissions, validated, deleted, file, pc, command, fips, failing, listed,
                   ctx, rv, crashes, faults>>

ClientStep ==
    \/ ParseSessionInfoFile \/ Login \/ VerifyMetadata \/ Register
    \/ WriteSessionInfo \/ EndSessionInfo
    \/ ProcessSet \/ SubmitAnswer
    \/ CheckTestResults \/ Retrieve \/ ValidateTestSession
    \/ RewriteSessionInfo \/ EndRewrite \/ CertReq \/ CancelTestSession

Next == \/ \E c \in Commands : Start(c)
        \/ ClientStep
        \/ Crash
        \/ \E v \in Sets : Evaluate(v) \/ Expire(v)

Spec == Init /\ [][Next]_vars

(* A process that runs takes its next step; the server evaluates what it    *)
(* was given; the user does not give up resuming.  Crashes and faults are   *)
(* finite (MaxCrashes, MaxFaults): nothing can be promised otherwise.       *)
FairSpec ==
    /\ Spec
    /\ WF_vars(ClientStep)
    /\ \A v \in Sets : WF_vars(Evaluate(v))
    /\ "resume" \in Commands => SF_vars(Start("resume"))
--------------------------------------------------------------------------------
TypeOK ==
    /\ registered \in BOOLEAN /\ validated \in BOOLEAN /\ deleted \in BOOLEAN
    /\ status \in [Sets -> Statuses]
    /\ submissions \in [Sets -> Nat]
    /\ file \in {"none", "torn", "ok"}
    /\ pc \in {"stopped", "parse", "login", "verify", "register", "write", "writeEnd",
               "process", "submit", "check", "retrieve", "validate", "rewrite",
               "rewriteEnd", "cert_req", "delete"}
    /\ command \in AllCommands \cup {"none"}
    /\ fips \in BOOLEAN /\ failing \in SUBSET FailingSets /\ listed \in SUBSET Sets
    /\ session_url \in BOOLEAN /\ session_passed \in BOOLEAN /\ session_file_path \in BOOLEAN
    /\ vsid_url_list \in SUBSET Sets
    /\ crashes \in 0 .. MaxCrashes /\ faults \in 0 .. MaxFaults

(* Across crashes, lost answers and resumed processes no set is answered    *)
(* twice: a resume processes only what the server has not received.         *)
AnsweredAtMostOnce == \A v \in Sets : submissions[v] <= 1

(* What a run or a resume has to answer: a run does not know of the sets    *)
(* behind a URL that is no string.                                          *)
Due == IF command = "run" THEN listed ELSE Sets

(* A run or a resume that returns AMVP_SUCCESS leaves no set unanswered,    *)
(* although amvp_process_tests() stops at the first set that fails and      *)
(* amvp_check_test_results() returns AMVP_SUCCESS for missing submissions.  *)
(* (Exception: a run and the sets behind a URL that is no string; a resume  *)
(* of it answers them.)                                                     *)
SuccessMeansAnswered ==
    command \in {"run", "resume"} /\ pc = "stopped" /\ rv = "AMVP_SUCCESS" =>
        \A v \in Due : submissions[v] = 1

(* amvp_validate_test_session() requests a validation only for a session    *)
(* that has passed, and that still does at the server when the request      *)
(* arrives: the verdict kept in the ctx is not stale.                       *)
ValidatesOnlyPassed ==
    [][pc = "validate" /\ validated' # validated =>
          \A v \in Sets : status[v] = "pass"]_vars

(* A session info file that can be resumed from is put at risk (truncated   *)
(* to be written again) only once the validation has been requested.        *)
FileKeptUntilValidated == [][file = "ok" /\ file' # "ok" => validated]_vars

(* The validation comes after the verdict and before the file is given up.  *)
ValidationInOrder == ValidatesOnlyPassed /\ FileKeptUntilValidated

(* With the file in place every set that comes before the first one the     *)
(* module cannot answer ends up answered, however often the work is         *)
(* interrupted, unless the session is cancelled or a set expires.           *)
EventuallyAnswered ==
    file = "ok" ~> \/ deleted
                   \/ SomeSet({"expired"})
                   \/ \A v \in Sets : (\A u \in failing : Order[v] < Order[u])
                                        => submissions[v] > 0

(* "To resume a previous test session that was interupted: ... again (e.x.  *)
(* --aes,  --request and --fips_validation)" (app_cli.c): a passed session  *)
(* resumed with fips_validation is validated in the end.                    *)
EventuallyValidated ==
    file = "ok" /\ fips ~> \/ validated \/ deleted
                           \/ SomeSet({"expired", "fail"})

(* "Request that the AMVP server perform a FIPS validation (if              *)
(* fips_validation == 1 and testSession is passed)" (amvp.h on amvp_run).   *)
ValidatedOnlyIfPassed == validated => \A v \in Sets : status[v] = "pass"
================================================================================
