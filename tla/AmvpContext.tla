----------------------------- MODULE AmvpContext -----------------------------
(***************************************************************************)
(* The life of one AMVP_CTX: amvp_create_test_session(), the amvp_set_*()  *)
(* and amvp_mark_as_*() functions in any order, amvp_run() as often as the *)
(* application likes, amvp_free_test_session().                            *)
(*                                                                         *)
(* Which of its modes amvp_run() takes is decided by the order in which it *)
(* tests the flags; what it works on is whatever the ctx holds from        *)
(* earlier calls.  AmvpSession has the session flow in detail for a new    *)
(* ctx; here a flow is a few requests, and the ctx is used again.          *)
(*                                                                         *)
(* Abstractions: a string of the ctx is NULL, allocated or freed; the sets *)
(* of a session are one item of ctx->vsid_url_list.                        *)
(***************************************************************************)
EXTENDS Naturals

CONSTANTS Settable,     \* the strings the application sets
          MaxCalls,     \* bound: calls of the setters
          MaxRuns,      \* bound: calls of amvp_run()
          MaxFaults     \* bound: allocations, requests and writes that fail

\* The strings with the flag that each of them raises.
Marks == {"vector_req", "get", "put", "mod_cert_req", "post", "post_resources", "delete", "use_json"}
Settings ==
    [vector_req_file         |-> {"vector_req"},
     get_string              |-> {"get"},
     save_filename           |-> {},
     put_filename            |-> {"put"},
     mod_cert_req_file       |-> {"mod_cert_req"},
     post_filename           |-> {"post"},
     post_resources_filename |-> {"post_resources"},
     delete_string           |-> {"delete"},
     json_filename           |-> {"use_json"},
     server_name             |-> {},
     path_segment            |-> {},
     api_context             |-> {},
     cacerts_file            |-> {},
     tls_cert                |-> {}]   \* with tls_key
Strings == DOMAIN Settings

ASSUME ContextConstants ==
    /\ Settable \subseteq Strings
    /\ MaxCalls \in Nat /\ MaxRuns \in Nat /\ MaxFaults \in Nat

VARIABLES
    (* the ctx *)
    alive,      \* it was created and not freed
    strings,    \* each string: "null", "set" or "dangling" (freed, the pointer kept)
    flags,      \* the flags that are raised
    session,    \* ctx->session_url: the number of the session, 0 for NULL
    list,       \* the sessions whose sets are in ctx->vsid_url_list
    passed,     \* ctx->session_passed
    misused,    \* strings that were freed twice or read after they were freed
    (* amvp_run() *)
    pc, rv, mode,
    fips,       \* fips_validation of this run
    done,       \* what the last request of this run came to
    (* the server *)
    sessions, answered, verdict, validated,
    effects,    \* requests of this run that changed something on the server, by mode
    (* bounds *)
    calls, runs, faults

heap   == <<alive, strings, flags, misused>>
work   == <<session, list, passed>>
server == <<sessions, answered, verdict, validated, effects>>
bounds == <<calls, runs>>
vars   == <<heap, work, pc, rv, mode, fips, done, server, bounds, faults>>

OnlyModes == {"get", "post", "post_resources", "delete"}
Modes == OnlyModes \cup {"mod_cert_req", "session"}
Steps == {"login", "labs", "vendors", "modules", "verify", "register", "process", "check", "validate", "put"}
Results == {"none", "AMVP_SUCCESS", "AMVP_INVALID_ARG", "AMVP_MISSING_ARG", "AMVP_UNSUPPORTED_OP", "AMVP_MALLOC_FAIL",
            "AMVP_TRANSPORT_FAIL", "AMVP_JSON_ERR", "AMVP_MALFORMED_JSON"}

\* What the variables may hold.
TypeOK ==
    /\ alive \in BOOLEAN /\ strings \in [Strings -> {"null", "set", "dangling"}]
    /\ flags \subseteq Marks /\ misused \subseteq Strings
    /\ session \in 0..sessions /\ list \subseteq 1..sessions /\ passed \in BOOLEAN
    /\ pc \in {"idle"} \cup OnlyModes \cup {"mod_cert_req"} \cup Steps
    /\ rv \in Results /\ mode \in Modes \cup {"none"} /\ fips \in BOOLEAN
    /\ done \in {"none", "done", "failed"} /\ effects \subseteq Modes \cup {"put"}
    /\ sessions \in 0..MaxRuns /\ answered \subseteq 1..sessions /\ validated \subseteq 1..sessions
    /\ verdict \in [1..MaxRuns -> {"open", "pass", "fail"}]
    /\ calls \in 0..MaxCalls /\ runs \in 0..MaxRuns /\ faults \in 0..MaxFaults

\* amvp_create_test_session(): calloc().
Init ==
    /\ alive = TRUE /\ strings = [f \in Strings |-> "null"] /\ flags = {} /\ misused = {}
    /\ session = 0 /\ list = {} /\ passed = FALSE
    /\ pc = "idle" /\ rv = "none" /\ mode = "none" /\ fips = FALSE /\ done = "none"
    /\ sessions = 0 /\ answered = {} /\ validated = {} /\ effects = {}
    /\ verdict = [s \in 1..MaxRuns |-> "open"]
    /\ calls = 0 /\ runs = 0 /\ faults = 0
-----------------------------------------------------------------------------
Fault   == faults < MaxFaults /\ faults' = faults + 1
NoFault == UNCHANGED faults

\* Defective: amvp_set_json_filename() takes a manual registration for any ctx.
NeedsNoRequestOnly(f) == IF f = "save_filename" THEN {"get"} ELSE {}

\* The flag that must be raised before a string can be set.
Needs(f) ==
    CASE f = "save_filename" -> {"get"}
      [] f = "json_filename" -> {"vector_req"}
      [] OTHER -> {}

\* The setters check the new value first, free the old string and allocate the new one; but
\* amvp_set_json_filename() frees before it checks the length. (amvp_mark_as_delete_only() does not free the
\* old URL: a leak, which the model does not count.)
ChecksLengthLast(f) == f = "json_filename"

Called(r) == calls < MaxCalls /\ calls' = calls + 1 /\ rv' = r
Idle == alive /\ pc = "idle"
SetterFrame == mode' = "none" /\ done' = "none" /\ UNCHANGED <<alive, work, pc, fips, server, runs>>

\* free() of the old string, if there is one.
Freed(f) == misused' = IF strings[f] = "dangling" THEN misused \cup {f} ELSE misused

SetRefused(f) ==
    /\ Idle /\ Needs(f) \ flags # {}
    /\ Called("AMVP_UNSUPPORTED_OP") /\ NoFault
    /\ UNCHANGED <<strings, flags, misused>> /\ SetterFrame

SetTooLong(f) ==
    /\ Idle /\ Needs(f) \subseteq flags
    /\ Called("AMVP_INVALID_ARG") /\ NoFault
    /\ IF ChecksLengthLast(f)
       THEN /\ Freed(f)
            /\ strings' = [strings EXCEPT ![f] = IF @ = "null" THEN "null" ELSE "dangling"]
       ELSE UNCHANGED <<strings, misused>>
    /\ UNCHANGED flags /\ SetterFrame

\* The new string is allocated, or the allocation fails: then the pointer is NULL and the flag stays as it was.
SetString(f) ==
    /\ Idle /\ Needs(f) \subseteq flags
    /\ Freed(f)
    /\ \/ /\ NoFault /\ Called("AMVP_SUCCESS")
          /\ strings' = [strings EXCEPT ![f] = "set"]
          /\ flags' = flags \cup Settings[f]
       \/ /\ Fault /\ Called("AMVP_MALLOC_FAIL")
          /\ strings' = [strings EXCEPT ![f] = "null"]
          /\ UNCHANGED flags
    /\ SetterFrame

\* amvp_free_test_session(): every string, and the ctx.
FreeTestSession ==
    /\ Idle
    /\ alive' = FALSE
    /\ misused' = misused \cup {f \in Strings : strings[f] = "dangling"}
    /\ UNCHANGED <<strings, flags, work, pc, rv, mode, fips, done, server, bounds, faults>>
-----------------------------------------------------------------------------
Goto(l) == pc' = l /\ UNCHANGED rv
Return(r) == pc' = "idle" /\ rv' = r
RunFrame == UNCHANGED <<heap, mode, fips, bounds>>

Run(f) ==
    /\ Idle /\ runs < MaxRuns /\ runs' = runs + 1
    /\ fips' = f /\ mode' = "none" /\ done' = "none" /\ effects' = {}
    /\ Goto("login")
    /\ UNCHANGED <<heap, work, sessions, answered, verdict, validated, calls, faults>>

\* Defective: a ctx that is marked as post is treated as one, also if it is marked as get.
ModeOfPostFirst(marks) == IF "post" \in marks THEN "post" ELSE IF "get" \in marks THEN "get" ELSE "session"

\* The order in which amvp_run() tests the flags.
ModeOf(marks) ==
    CASE "get" \in marks -> "get"
      [] "get" \notin marks /\ "post" \in marks -> "post"
      [] marks \cap {"get", "post"} = {} /\ "post_resources" \in marks -> "post_resources"
      [] marks \cap {"get", "post", "post_resources"} = {} /\ "mod_cert_req" \in marks -> "mod_cert_req"
      [] marks \cap {"get", "post", "post_resources", "mod_cert_req"} = {} /\ "delete" \in marks -> "delete"
      [] OTHER -> "session"

Login ==
    /\ pc = "login"
    /\ \/ /\ NoFault
          /\ mode' = ModeOf(flags)
          /\ Goto(CASE mode' = "post_resources" -> "labs"
                    [] mode' = "session" -> IF fips THEN "verify" ELSE "register"
                    [] OTHER -> mode')
       \/ Fault /\ Return("AMVP_TRANSPORT_FAIL") /\ UNCHANGED mode
    /\ UNCHANGED <<heap, work, fips, done, server, bounds>>

Name(m) == IF m = "get" THEN "get_string" ELSE "delete_string"

\* Defective: the result of the request is never looked at.
GetOrDeleteUnchecked ==
    /\ pc \in {"get", "delete"}
    /\ \E ok \in BOOLEAN :
         /\ done' = IF ok THEN "done" ELSE "failed"
         /\ effects' = IF ok /\ pc = "delete" THEN effects \cup {"delete"} ELSE effects
    /\ NoFault /\ Return("AMVP_SUCCESS")
    /\ UNCHANGED <<work, sessions, answered, verdict, validated>> /\ RunFrame

\* ctx->get and ctx->delete. With a file to save to, an answer that is JSON, also that of a request that was
\* refused, is written to it, and the result of the request is overwritten by that of the write.
GetOrDelete ==
    /\ pc \in {"get", "delete"}
    /\ \E ok, isJson \in BOOLEAN :
         /\ strings[Name(pc)] = "null" => ~ok
         /\ done' = IF ok THEN "done" ELSE "failed"
         /\ effects' = IF ok /\ pc = "delete" THEN effects \cup {"delete"} ELSE effects
         /\ LET answer == IF ok THEN "AMVP_SUCCESS"
                          ELSE IF strings[Name(pc)] = "null" THEN "AMVP_MISSING_ARG" ELSE "AMVP_TRANSPORT_FAIL"
            IN  IF strings["save_filename"] = "set" /\ isJson
                THEN \/ NoFault /\ Return("AMVP_SUCCESS")
                     \/ Fault /\ Return("AMVP_JSON_ERR")
                ELSE NoFault /\ Return(answer)
    /\ UNCHANGED <<work, sessions, answered, verdict, validated>> /\ RunFrame

\* amvp_post_data(): a file without an object or a path is no error.
Post ==
    /\ pc = "post"
    /\ \/ NoFault /\ Return(IF strings["post_filename"] = "null" THEN "AMVP_MISSING_ARG" ELSE "AMVP_MALFORMED_JSON")
          /\ UNCHANGED <<done, effects>>
       \/ strings["post_filename"] = "set" /\ NoFault /\ Return("AMVP_SUCCESS") /\ UNCHANGED <<done, effects>>
       \/ strings["post_filename"] = "set" /\ NoFault /\ Return("AMVP_SUCCESS") /\ done' = "done"
          /\ effects' = effects \cup {"post"}
       \/ strings["post_filename"] = "set" /\ Fault /\ Return("AMVP_TRANSPORT_FAIL") /\ done' = "failed"
          /\ UNCHANGED effects
    /\ UNCHANGED <<work, sessions, answered, verdict, validated>> /\ RunFrame

AfterResource == [labs |-> "vendors", vendors |-> "modules", modules |-> "idle"]

\* amvp_post_resources(): three POSTs, one after the other whether they succeed or not. A missing array ends it.
PostResource ==
    /\ pc \in {"labs", "vendors", "modules"}
    /\ \/ /\ NoFault /\ UNCHANGED <<done, effects>>
          /\ Return(IF strings["post_resources_filename"] = "null" THEN "AMVP_MISSING_ARG" ELSE "AMVP_JSON_ERR")
       \/ /\ \/ NoFault /\ done' = "done" /\ effects' = effects \cup {"post_resources"}
                /\ (rv' = IF pc = "modules" THEN "AMVP_SUCCESS" ELSE rv)
             \/ Fault /\ done' = "failed" /\ UNCHANGED effects
                /\ (rv' = IF pc = "modules" THEN "AMVP_TRANSPORT_FAIL" ELSE rv)
          /\ strings["post_resources_filename"] = "set"
          /\ pc' = AfterResource[pc]
    /\ UNCHANGED <<work, sessions, answered, verdict, validated>> /\ RunFrame

VerifyMetadata ==
    /\ pc = "verify"
    /\ \/ NoFault /\ Goto("register")
       \/ Fault /\ Return("AMVP_UNSUPPORTED_OP")
    /\ UNCHANGED <<work, done, server>> /\ RunFrame

\* amvp_register() reads json_filename if use_json is set. There, and in the POST of amvp_mod_cert_req(), the URLs are
\* appended to the list that is there.
RegisterSession ==
    /\ sessions' = sessions + 1
    /\ session' = sessions'
    /\ list' = list \cup {sessions'}
    /\ effects' = effects \cup {mode}

\* The server refuses, or it takes the registration and the client does not get all of its answer: the session's
\* URL is stored before the rest is parsed.
RegistrationFails ==
    /\ UNCHANGED list
    /\ \/ UNCHANGED <<session, sessions, effects>>
       \/ /\ sessions' = sessions + 1
          /\ session' \in {session, sessions'}
          /\ effects' = effects \cup {mode}

Register ==
    /\ pc = "register"
    /\ misused' = IF "use_json" \in flags /\ strings["json_filename"] = "dangling"
                  THEN misused \cup {"json_filename"} ELSE misused
    /\ \/ NoFault /\ RegisterSession /\ Goto("process")
       \/ Fault /\ RegistrationFails /\ Return("AMVP_TRANSPORT_FAIL")
    /\ UNCHANGED <<alive, strings, flags, passed, done, answered, verdict, validated, mode, fips, bounds>>

\* amvp_mod_cert_req(), whose result amvp_run() does not look at.
ModCertReq ==
    /\ pc = "mod_cert_req"
    /\ \/ NoFault /\ RegisterSession /\ Goto("process")
       \/ /\ Fault /\ RegistrationFails
          /\ IF "vector_req" \in flags THEN Return("AMVP_SUCCESS") ELSE Goto("check")
    /\ UNCHANGED <<passed, done, answered, verdict, validated>> /\ RunFrame

\* Defective: the loop ends without an error at the first set that fails.
ProcessFailureForgotten ==
    /\ pc = "process"
    /\ \/ NoFault /\ answered' = answered \cup list
       \/ Fault /\ UNCHANGED answered
    /\ IF "vector_req" \in flags THEN Return("AMVP_SUCCESS") ELSE Goto("check")
    /\ UNCHANGED <<work, done, sessions, verdict, validated, effects>> /\ RunFrame

\* amvp_process_tests() or amvp_process_amvp_tes() over everything in the list; with ctx->vector_req the sets are
\* saved to a file and the run ends.
ProcessTests ==
    /\ pc = "process"
    /\ \/ /\ NoFault
          /\ IF "vector_req" \in flags
             THEN Return("AMVP_SUCCESS") /\ UNCHANGED answered
             ELSE answered' = answered \cup list /\ Goto("check")
       \/ /\ Fault /\ UNCHANGED answered
          /\ \/ mode = "session" /\ Return("AMVP_TRANSPORT_FAIL")
             \/ mode = "mod_cert_req" /\ "vector_req" \in flags /\ Return("AMVP_SUCCESS")
             \/ mode = "mod_cert_req" /\ "vector_req" \notin flags /\ Goto("check")
    /\ UNCHANGED <<work, done, sessions, verdict, validated, effects>> /\ RunFrame

\* The server evaluates the answers of a session once.
Verdicts(s) == IF s \notin answered THEN {"open"} ELSE IF verdict[s] # "open" THEN {verdict[s]} ELSE {"pass", "fail"}

AfterCheck == IF mode = "mod_cert_req" \/ fips THEN "validate" ELSE IF "put" \in flags THEN "put" ELSE "idle"

\* amvp_check_test_results(): a pass is recorded in the ctx, a failure changes nothing there. A session that is
\* not answered expires, which is no error either.
CheckTestResults ==
    /\ pc = "check"
    /\ \/ session = 0 /\ NoFault /\ Return("AMVP_MISSING_ARG") /\ UNCHANGED <<passed, verdict>>
       \/ session # 0 /\ Fault /\ Return("AMVP_TRANSPORT_FAIL") /\ UNCHANGED <<passed, verdict>>
       \/ /\ session # 0 /\ NoFault
          /\ \E v \in Verdicts(session) :
               /\ verdict' = [verdict EXCEPT ![session] = v]
               /\ passed' = (passed \/ v = "pass")
          /\ pc' = AfterCheck /\ rv' = IF AfterCheck = "idle" THEN "AMVP_SUCCESS" ELSE rv
    /\ UNCHANGED <<session, list, done, sessions, answered, validated, effects>> /\ RunFrame

\* Defective: the validation is requested whatever the verdict.
ValidateUnchecked ==
    /\ pc = "validate"
    /\ NoFault
    /\ validated' = validated \cup {session}
    /\ IF mode = "session" /\ "put" \in flags THEN Goto("put") ELSE Return("AMVP_SUCCESS")
    /\ UNCHANGED <<work, done, sessions, answered, verdict, effects>> /\ RunFrame

\* amvp_validate_test_session(), or the unconditional PUT of amvp_cert_req() that ends a certification request.
Validate ==
    /\ pc = "validate"
    /\ \/ Fault /\ Return("AMVP_TRANSPORT_FAIL") /\ UNCHANGED validated
       \/ /\ NoFault
          /\ validated' = IF mode = "mod_cert_req" \/ passed THEN validated \cup {session} ELSE validated
          /\ IF mode = "session" /\ "put" \in flags THEN Goto("put") ELSE Return("AMVP_SUCCESS")
    /\ UNCHANGED <<work, done, sessions, answered, verdict, effects>> /\ RunFrame

\* amvp_put_data_from_ctx(): the metadata of put_filename, for the session of the ctx.
PutData ==
    /\ pc = "put"
    /\ \/ NoFault /\ strings["put_filename"] = "set" /\ Return("AMVP_SUCCESS") /\ done' = "done"
          /\ effects' = effects \cup {"put"}
       \/ NoFault /\ Return("AMVP_MALFORMED_JSON") /\ UNCHANGED <<done, effects>>
       \/ Fault /\ strings["put_filename"] = "set" /\ Return("AMVP_TRANSPORT_FAIL") /\ done' = "failed"
          /\ UNCHANGED effects
    /\ UNCHANGED <<work, sessions, answered, verdict, validated>> /\ RunFrame

\* amvp_put_data_from_file(), which takes the session from the file and leaves that of the ctx alone.
PutDataFromFile ==
    /\ Idle /\ runs < MaxRuns /\ runs' = runs + 1
    /\ mode' = "none"
    /\ \/ NoFault /\ Return("AMVP_SUCCESS") /\ done' = "done" /\ effects' = {"put"}
       \/ NoFault /\ Return("AMVP_MALFORMED_JSON") /\ done' = "none" /\ effects' = {}
       \/ Fault /\ Return("AMVP_TRANSPORT_FAIL") /\ done' = "failed" /\ effects' = {}
    /\ UNCHANGED <<heap, work, fips, sessions, answered, verdict, validated, calls>>

RunStep ==
    \/ Login \/ GetOrDelete \/ Post \/ PostResource \/ VerifyMetadata \/ Register \/ ModCertReq
    \/ ProcessTests \/ CheckTestResults \/ Validate \/ PutData

Next ==
    \/ \E f \in Settable : SetRefused(f) \/ SetTooLong(f) \/ SetString(f)
    \/ \E f \in BOOLEAN : Run(f)
    \/ RunStep
    \/ PutDataFromFile
    \/ FreeTestSession

Spec == Init /\ [][Next]_vars
-----------------------------------------------------------------------------
\* "Marks the operation as a GET only" (amvp.h): whatever else the ctx was marked as, before or after, and however
\* often it is run, a run of a ctx with ctx->get changes nothing on the server; and one that is marked as post,
\* post_resources or delete only registers no session, unless it is a certification request too.
MarkedModesOnly ==
    [][pc # "idle" =>
         /\ "get" \in flags => UNCHANGED server
         /\ flags \cap OnlyModes # {} /\ "mod_cert_req" \notin flags => UNCHANGED <<sessions, answered, validated>>]_vars

\* "The session must be request only to use a manual registraion" (amvp_set_json_filename()): once a ctx has a
\* file to register from, no later run, in no mode and with no other marks, answers or validates a session, those of
\* earlier runs included. The file name that is read or freed after its free() (a name that is too long is refused
\* behind the free() of the old one) is that of such a ctx too: no answer is ever sent by a ctx that has met it.
ManualRegistrationIsRequestOnly ==
    []["use_json" \in flags \/ misused # {} => UNCHANGED <<answered, validated>>]_vars

\* amvp_run() does not report success for a single request that failed, unless its answer was saved to a file
\* (then the result is that of the write), nor for resources of which the last one was refused.
SuccessIsTruthful ==
    pc = "idle" /\ rv = "AMVP_SUCCESS" /\ mode \in OnlyModes /\ done = "failed" =>
        mode \in {"get", "delete"} /\ strings["save_filename"] = "set"

\* A test session run that returns success has the sets of its own session answered, also on a ctx whose list
\* still has the sets of earlier sessions.
RunAnswersItsSession ==
    pc = "idle" /\ rv = "AMVP_SUCCESS" /\ mode = "session" /\ "vector_req" \notin flags => session \in answered

\* What amvp_run() returns is true of the run that it ends, and not of an earlier run or a later step.
RunIsTruthful == SuccessIsTruthful /\ RunAnswersItsSession

\* On a ctx that had no session before, amvp_run() requests the validation of a test session only if it passed.
FreshCtxValidatesPassed ==
    [][\A s \in validated' \ validated : mode = "session" /\ list = {s} => verdict[s] = "pass"]_vars
=============================================================================
