----------------------------- MODULE AmvpOffline -----------------------------
(***************************************************************************)
(* Testing offline: a process downloads the vector sets of a session (or   *)
(* the evidence sets of a module certification request) to a request file, *)
(* another one, without a network, writes the response file, a third one   *)
(* uploads it.  amvp_get_expected_results() writes a file of the same kind.*)
(*                                                                         *)
(* The files are JSON arrays written piecewise: a header with the session's *)
(* identifiers and set URLs, one element per set, the closing bracket.  A  *)
(* file without the bracket does not parse.  A process may crash between   *)
(* any two steps, every request and every write may fail, and the files of *)
(* earlier processes stay on the disk.                                     *)
(*                                                                         *)
(* Abstractions: a set is the pair of its session and its position, and    *)
(* stands for its URL, its vectors and their answers alike.                *)
(***************************************************************************)
EXTENDS Naturals, Sequences

CONSTANTS NumSets,      \* sets of a session
          Kinds,        \* what the user registers: a subset of {"download", "cert_req"}
          MaxSessions,  \* bound: sessions registered
          MaxCrashes,   \* bound: crashes
          MaxFaults     \* bound: requests, writes and vector sets that fail

ASSUME OfflineConstants ==
    /\ NumSets \in Nat \ {0} /\ MaxSessions \in Nat \ {0}
    /\ MaxCrashes \in Nat /\ MaxFaults \in Nat
    /\ Kinds \subseteq {"download", "cert_req"}

VARIABLES
    (* the server *)
    sessions,   \* number of sessions registered
    readable,   \* how many URLs, from the first on, of the answer to each registration are strings
    submitted,  \* the answer it has for each set
    validated,  \* the sessions whose validation was requested
    (* the disk *)
    infos,      \* the sessions with a usable session info file
    files,      \* the request file, the response file and the saved expected results
    (* the process *)
    cmd, pc, rv,
    session,    \* ctx->session_url
    urls,       \* ctx->vsid_url_list
    input,      \* the elements after the header of the file that was read
    next,       \* position in the list or in the array
    sample, fips,  \* ctx->is_sample and fips_validation, the same for every process
    passed,     \* ctx->session_passed
    (* bounds *)
    crashes, faults

server == <<sessions, readable, submitted, validated>>
disk   == <<infos, files>>
flags  == <<sample, fips>>
vars   == <<server, disk, cmd, pc, rv, session, urls, input, next, flags, passed, crashes, faults>>

FirstSets(s, n) == [i \in 1..n |-> <<s, i>>]
SetsOf(s) == FirstSets(s, NumSets)
AllSets == (1..MaxSessions) \X (1..NumSets)
NoAnswer == <<0, 0>>     \* nothing was submitted
EmptyAnswer == <<0, 1>>  \* an empty array was submitted
Keys == {"vectorSetUrls", "ieSetsId", "none"}

\* What a file holds: "open" is a file without its closing bracket.
File(state, key, list, body) == [state |-> state, key |-> key, urls |-> list, body |-> body]
NoFile == File("none", "none", <<>>, <<>>)

Downloads == {"download", "cert_req", "resume"}
Commands == Downloads \cup {"process", "load_kat", "upload", "expected", "print_expected"}
Errors == {"AMVP_TRANSPORT_FAIL", "AMVP_JSON_ERR"}

\* What the variables may hold.
TypeOK ==
    /\ sessions \in 0..MaxSessions /\ validated \subseteq 1..sessions /\ infos \subseteq 1..sessions
    /\ readable \in [1..MaxSessions -> 0..NumSets]
    /\ submitted \in [AllSets -> AllSets \cup {NoAnswer, EmptyAnswer}]
    /\ DOMAIN files = {"req", "rsp", "saved"}
    /\ \A f \in DOMAIN files :
         /\ files[f].state \in {"none", "open", "closed"} /\ files[f].key \in Keys
         /\ files[f].urls \in Seq(AllSets) /\ files[f].body \in Seq(AllSets)
    /\ cmd \in Commands \cup {"none", "fill_in"}
    /\ pc \in {"stopped", "register", "info", "retrieve", "read", "fetch", "dispatch", "header", "append", "close",
               "submit", "check", "validate"}
    /\ rv \in Errors \cup {"none", "AMVP_SUCCESS", "AMVP_MALFORMED_JSON", "AMVP_UNSUPPORTED_OP", "AMVP_INVALID_ARG",
                           "AMVP_MISSING_ARG", "AMVP_CRYPTO_MODULE_FAIL"}
    /\ session \in 0..sessions /\ urls \in Seq(AllSets) /\ input \in Seq(AllSets) /\ next \in 1..(NumSets + 1)
    /\ sample \in BOOLEAN /\ fips \in BOOLEAN /\ passed \in BOOLEAN
    /\ crashes \in 0..MaxCrashes /\ faults \in 0..MaxFaults

Init ==
    /\ sessions = 0 /\ readable = [s \in 1..MaxSessions |-> NumSets]
    /\ submitted = [u \in AllSets |-> NoAnswer] /\ validated = {}
    /\ infos = {} /\ files = [f \in {"req", "rsp", "saved"} |-> NoFile]
    /\ cmd = "none" /\ pc = "stopped" /\ rv = "none"
    /\ session = 0 /\ urls = <<>> /\ input = <<>> /\ next = 1
    /\ sample \in BOOLEAN /\ fips \in BOOLEAN /\ passed = FALSE
    /\ crashes = 0 /\ faults = 0
-----------------------------------------------------------------------------
Stop(r) == pc' = "stopped" /\ rv' = r
Goto(l) == pc' = l /\ UNCHANGED rv
Fault   == faults < MaxFaults /\ faults' = faults + 1
NoFault == UNCHANGED faults

\* Defective: a download that failed is reported as one that was saved, in the session flow too.
EndDownloadBlindly(r) == Stop("AMVP_SUCCESS")

\* amvp_run() with ctx->vector_req: after amvp_mod_cert_req() it returns success whatever that returned.
EndDownload(r) == Stop(IF cmd = "cert_req" THEN "AMVP_SUCCESS" ELSE r)
\* Every command but an upload ends at the first error.
Fail(r) == IF cmd \in Downloads THEN EndDownload(r) ELSE Stop(r)

\* A command is started with a new ctx.
Start(c) ==
    /\ pc = "stopped"
    /\ c \in {"download", "cert_req"} => c \in Kinds /\ sessions < MaxSessions
    /\ c \in {"resume", "expected", "print_expected"} => infos # {}
    /\ cmd' = c /\ rv' = "none"
    /\ pc' = CASE c \in {"download", "cert_req"} -> "register"
               [] c \in {"resume", "expected", "print_expected"} -> "retrieve"
               [] c \in {"process", "load_kat", "upload"} -> "read"
    /\ session' = 0 /\ urls' = <<>> /\ input' = <<>> /\ next' = 1 /\ passed' = FALSE
    /\ UNCHANGED <<server, disk, flags, crashes, faults>>

\* amvp_process_tests() or amvp_process_amvp_tes() sets out on the list, which may be empty.
WorkOff(list) == IF list = <<>> THEN Fail("AMVP_MISSING_ARG") ELSE Goto("fetch")

\* amvp_login(), then amvp_register() or the first half of amvp_mod_cert_req(). A URL that is not a string ends
\* the list, and that is no error.
Register ==
    /\ pc = "register"
    /\ sessions' = sessions + 1 /\ session' = sessions + 1
    /\ \E n \in 0..NumSets :
         /\ IF n = NumSets THEN NoFault ELSE Fault
         /\ readable' = [readable EXCEPT ![sessions + 1] = n]
         /\ urls' = FirstSets(sessions + 1, n)
    /\ IF cmd = "download" THEN Goto("info") ELSE WorkOff(urls')
    /\ UNCHANGED <<submitted, validated, disk, cmd, input, next, flags, passed, crashes>>

\* The login fails, or the registration: then amvp_run() ends, or goes on as after a download.
RegisterFails ==
    /\ pc = "register"
    /\ Fault
    /\ \/ Stop("AMVP_TRANSPORT_FAIL")
       \/ EndDownload("AMVP_JSON_ERR")
    /\ UNCHANGED <<server, disk, cmd, session, urls, input, next, flags, passed, crashes>>

\* amvp_write_session_info(), whose failure is only logged; a module certification request has no such file.
WriteSessionInfo ==
    /\ pc = "info"
    /\ \/ NoFault /\ infos' = infos \cup {session}
       \/ Fault /\ UNCHANGED infos
    /\ WorkOff(urls)
    /\ UNCHANGED <<server, files, cmd, session, urls, input, next, flags, passed, crashes>>

\* Defective: the resume lists only sets without an answer that the disk does not know, as the online one does.
RetrieveUnreceived ==
    /\ pc = "retrieve"
    /\ \E s \in infos :
         /\ session' = s
         /\ urls' = IF files.req.state = "none" THEN SetsOf(s) ELSE <<>>
         /\ IF urls' = <<>> THEN Stop("AMVP_SUCCESS") ELSE Goto("fetch")
    /\ NoFault
    /\ UNCHANGED <<server, disk, cmd, input, next, flags, passed, crashes>>

\* amvp_parse_session_info_file(), amvp_refresh() and the results of the session, whose sets are listed whatever
\* their status; the expected results exist for a sample session only.
Retrieve ==
    /\ pc = "retrieve"
    /\ \E s \in infos :
         /\ session' = s
         /\ IF cmd # "resume" /\ ~sample
            THEN Stop("AMVP_UNSUPPORTED_OP") /\ NoFault /\ UNCHANGED urls
            ELSE \/ NoFault /\ urls' = SetsOf(s) /\ Goto(IF cmd = "expected" THEN "header" ELSE "fetch")
                 \/ Fault /\ Stop("AMVP_TRANSPORT_FAIL") /\ UNCHANGED urls
    /\ UNCHANGED <<server, disk, cmd, input, next, flags, passed, crashes>>

\* The download of the next set (amvp_process_vsid(), amvp_process_teid()) or of its expected results.
Fetch ==
    /\ pc = "fetch" /\ cmd # "print_expected"
    /\ \/ NoFault /\ Goto(IF cmd \in Downloads /\ next = 1 THEN "header" ELSE "append")
       \/ Fault /\ Fail("AMVP_TRANSPORT_FAIL")
    /\ UNCHANGED <<server, disk, cmd, session, urls, input, next, flags, passed, crashes>>

\* Without a file the expected results are printed; the closing bracket is still "written" to the missing name.
PrintExpected ==
    /\ pc = "fetch" /\ cmd = "print_expected"
    /\ \/ NoFault /\ next' = next + 1
          /\ IF next = Len(urls) THEN Stop("AMVP_INVALID_ARG") ELSE Goto("fetch")
       \/ Fault /\ Stop("AMVP_TRANSPORT_FAIL") /\ UNCHANGED next
    /\ UNCHANGED <<server, disk, cmd, session, urls, input, flags, passed, crashes>>

\* amvp_run_vectors_from_file() reads the request file. A file that does not parse, or has no "vectorSetUrls", is
\* no error.
ReadRequest ==
    /\ pc = "read" /\ cmd = "process"
    /\ LET f == files.req
           usable == f.state = "closed" /\ f.key = "vectorSetUrls" /\ f.urls # <<>> /\ f.body # <<>>
       IN  /\ urls' = IF usable THEN f.urls ELSE <<>>
           /\ input' = IF usable THEN f.body ELSE <<>>
           /\ IF usable THEN Goto("dispatch") ELSE Stop("AMVP_SUCCESS")
    /\ UNCHANGED <<server, disk, cmd, session, next, flags, passed, crashes, faults>>

\* Defective: a vector set that cannot be processed ends the loop without an error.
DispatchFailureForgotten ==
    /\ pc = "dispatch"
    /\ \/ next > Len(urls) /\ Stop("AMVP_SUCCESS") /\ NoFault
       \/ next <= Len(urls) /\ NoFault /\ Goto(IF next = 1 THEN "header" ELSE "append")
       \/ next <= Len(urls) /\ Fault /\ Stop("AMVP_SUCCESS")
    /\ UNCHANGED <<server, disk, cmd, session, urls, input, next, flags, passed, crashes>>

\* amvp_dispatch_vector_set() for the next element, in its turn; the response file is begun after the first answer.
DispatchVectorSet ==
    /\ pc = "dispatch"
    /\ \/ next > Len(urls) /\ Stop("AMVP_SUCCESS") /\ NoFault
       \/ next <= Len(urls) /\ NoFault /\ Goto(IF next = 1 THEN "header" ELSE "append")
       \/ next <= Len(urls) /\ Fault /\ Stop("AMVP_CRYPTO_MODULE_FAIL")
    /\ UNCHANGED <<server, disk, cmd, session, urls, input, next, flags, passed, crashes>>

\* amvp_load_kat_filename(): the first vector set of a file is processed and the answer dropped.
LoadKat ==
    /\ pc = "read" /\ cmd = "load_kat"
    /\ \/ (files.req.state # "closed" \/ files.req.body = <<>>) /\ NoFault /\ Stop("AMVP_INVALID_ARG")
       \/ files.req.state = "closed" /\ files.req.key = "vectorSetUrls" /\ NoFault /\ Stop("AMVP_SUCCESS")
       \/ files.req.state = "closed" /\ files.req.key = "ieSetsId" /\ NoFault /\ Stop("AMVP_JSON_ERR")
       \/ files.req.state = "closed" /\ Fault /\ Stop("AMVP_CRYPTO_MODULE_FAIL")
    /\ UNCHANGED <<server, disk, cmd, session, urls, input, next, flags, passed, crashes>>

OutFile == CASE cmd \in Downloads -> "req" [] cmd = "process" -> "rsp" [] cmd = "expected" -> "saved"
Header == CASE cmd \in {"download", "resume"} -> File("open", "vectorSetUrls", urls, <<>>)
            [] cmd = "cert_req" -> File("open", "ieSetsId", urls, <<>>)
            [] cmd = "process" -> File("open", "vectorSetUrls", urls, <<>>)
            [] cmd = "expected" -> File("open", "none", <<>>, <<>>)
Item == IF cmd = "process" THEN input[next] ELSE urls[next]
Items == IF cmd = "process" THEN Len(input) ELSE Len(urls)

\* amvp_json_serialize_to_file_pretty_w(): the file is truncated, also when the write fails behind the fopen().
WriteHeader ==
    /\ pc = "header"
    /\ \/ /\ NoFault
          /\ files' = [files EXCEPT ![OutFile] = Header]
          /\ Goto(IF cmd = "expected" THEN "fetch" ELSE "append")
       \/ /\ Fault
          /\ files' \in {files, [files EXCEPT ![OutFile] = File("open", "none", <<>>, <<>>)]}
          /\ Fail("AMVP_JSON_ERR")
    /\ UNCHANGED <<server, infos, cmd, session, urls, input, next, flags, passed, crashes>>

\* amvp_json_serialize_to_file_pretty_a() with an element.
AppendItem ==
    /\ pc = "append"
    /\ NoFault
    /\ files' = [files EXCEPT ![OutFile].body = Append(@, Item)]
    /\ next' = next + 1
    /\ Goto(IF next = Items THEN "close" ELSE IF cmd = "process" THEN "dispatch" ELSE "fetch")
    /\ UNCHANGED <<server, infos, cmd, session, urls, input, flags, passed, crashes>>

\* Defective: the loop goes on with the next set after a write that failed.
AppendFailsGoesOn ==
    /\ pc = "append"
    /\ Fault
    /\ next' = next + 1
    /\ Goto(IF next = Items THEN "close" ELSE IF cmd = "process" THEN "dispatch" ELSE "fetch")
    /\ UNCHANGED <<server, disk, cmd, session, urls, input, flags, passed, crashes>>

AppendFails ==
    /\ pc = "append"
    /\ Fault
    /\ Fail("AMVP_JSON_ERR")
    /\ UNCHANGED <<server, disk, cmd, session, urls, input, next, flags, passed, crashes>>

\* amvp_json_serialize_to_file_pretty_a() with NULL: the closing bracket.
CloseFile ==
    /\ pc = "close"
    /\ \/ /\ NoFault
          /\ files' = [files EXCEPT ![OutFile].state = "closed"]
          /\ Stop("AMVP_SUCCESS")
       \/ Fault /\ UNCHANGED files /\ Fail("AMVP_JSON_ERR")
    /\ UNCHANGED <<server, infos, cmd, session, urls, input, next, flags, passed, crashes>>

\* amvp_upload_vectors_from_file() reads the response file: it looks for "ieSetsId". With fips_validation the
\* metadata are verified first.
ReadResponse ==
    /\ pc = "read" /\ cmd = "upload"
    /\ LET f == files.rsp
           usable == f.state = "closed" /\ f.key = "ieSetsId" /\ f.urls # <<>>
       IN  /\ urls' = IF usable THEN f.urls ELSE <<>>
           /\ input' = IF usable THEN f.body ELSE <<>>
           /\ session' = IF usable THEN f.urls[1][1] ELSE 0
           /\ \/ f.state # "closed" /\ Stop("AMVP_MALFORMED_JSON") /\ NoFault
              \/ f.state = "closed" /\ ~usable /\ Stop("AMVP_SUCCESS") /\ NoFault
              \/ usable /\ Goto("submit") /\ NoFault
              \/ usable /\ fips /\ Stop("AMVP_UNSUPPORTED_OP") /\ Fault
    /\ UNCHANGED <<server, disk, cmd, next, flags, passed, crashes>>

\* Defective: the array is read from one element too late.
ElementBehind(n) == IF n < Len(input) THEN input[n + 1] ELSE EmptyAnswer

\* The element at the position of the URL, an empty array where the file has none.
ElementFor(n) == IF n <= Len(input) THEN input[n] ELSE EmptyAnswer

\* amvp_submit_vector_responses(): a submission that fails is skipped. The server may have taken it.
SubmitVectorResponses ==
    /\ pc = "submit"
    /\ \/ NoFault /\ submitted' = [submitted EXCEPT ![urls[next]] = ElementFor(next)]
       \/ Fault /\ submitted' \in {submitted, [submitted EXCEPT ![urls[next]] = ElementFor(next)]}
    /\ next' = next + 1
    /\ Goto(IF next = Len(urls) THEN "check" ELSE "submit")
    /\ UNCHANGED <<sessions, readable, validated, disk, cmd, session, urls, input, flags, passed, crashes>>

\* The server passes a session only if it has the right answer for each of its sets.
MayPass(s) == \A i \in 1..NumSets : submitted[<<s, i>>] = <<s, i>>

\* amvp_check_test_results(), whose result is overwritten, and amvp_cert_req(), which retrieves the documents.
CheckTestResults ==
    /\ pc = "check"
    /\ \/ NoFault /\ passed' \in {FALSE, MayPass(session)} /\ Goto("validate")
       \/ Fault /\ UNCHANGED passed /\ Goto("validate")
       \/ Fault /\ passed' \in {FALSE, MayPass(session)} /\ Stop("AMVP_TRANSPORT_FAIL")
    /\ UNCHANGED <<server, disk, cmd, session, urls, input, next, flags, crashes>>

\* Defective: the verdict is not looked at.
ValidateUnchecked ==
    /\ pc = "validate"
    /\ \/ ~fips /\ UNCHANGED validated
       \/ fips /\ validated' = validated \cup {session}
    /\ Stop("AMVP_SUCCESS") /\ NoFault
    /\ UNCHANGED <<sessions, readable, submitted, disk, cmd, session, urls, input, next, flags, passed, crashes>>

\* amvp_validate_test_session(): not for a session that has not passed, which is no error.
ValidateTestSession ==
    /\ pc = "validate"
    /\ \/ ~(fips /\ passed) /\ Stop("AMVP_SUCCESS") /\ NoFault /\ UNCHANGED validated
       \/ fips /\ passed /\ Stop("AMVP_SUCCESS") /\ NoFault /\ validated' = validated \cup {session}
       \/ fips /\ passed /\ Stop("AMVP_TRANSPORT_FAIL") /\ Fault
          /\ validated' \in {validated, validated \cup {session}}
    /\ UNCHANGED <<sessions, readable, submitted, disk, cmd, session, urls, input, next, flags, passed, crashes>>

\* The user answers the evidence sets of a certification request in a copy of the request file, any of them: kept[i]
\* is the place in the request of the answer that the file has at place i.
FillIn ==
    /\ pc = "stopped"
    /\ files.req.state = "closed" /\ files.req.key = "ieSetsId"
    /\ \E n \in 1..Len(files.req.body) : \E kept \in [1..n -> 1..Len(files.req.body)] :
         /\ \A i, j \in 1..n : i < j => kept[i] < kept[j]
         /\ files' = [files EXCEPT !.rsp = [files.req EXCEPT !.body = [i \in 1..n |-> files.req.body[kept[i]]]]]
    /\ cmd' = "fill_in" /\ rv' = "none"
    /\ UNCHANGED <<server, infos, pc, session, urls, input, next, flags, passed, crashes, faults>>

Crash ==
    /\ pc # "stopped"
    /\ crashes < MaxCrashes /\ crashes' = crashes + 1
    /\ Stop("none")
    /\ UNCHANGED <<server, disk, cmd, session, urls, input, next, flags, passed, faults>>

Step ==
    \/ Register \/ RegisterFails \/ WriteSessionInfo \/ Retrieve \/ Fetch \/ PrintExpected
    \/ ReadRequest \/ DispatchVectorSet \/ LoadKat \/ WriteHeader \/ AppendItem \/ AppendFails \/ CloseFile
    \/ ReadResponse \/ SubmitVectorResponses \/ CheckTestResults \/ ValidateTestSession

Next ==
    \/ \E c \in Commands : Start(c)
    \/ Step
    \/ FillIn
    \/ Crash

\* A process runs to its end, and a user whose download was interrupted resumes it again and again.
Fairness == WF_vars(Step) /\ SF_vars(Start("resume"))

Spec == Init /\ [][Next]_vars /\ Fairness
-----------------------------------------------------------------------------
\* The lists of a session that a process may have: what it could read of the answer to the registration, or, from
\* the session's results, all of it.
ListsOf(s) == {FirstSets(s, readable[s]), SetsOf(s)}

\* A file that parses is whole: whatever failed, crashed or was written before, a closed request file has the
\* vectors of every set of its header, which are the sets of one session, in their order; a response file that
\* amvp_run_vectors_from_file() closed has all the answers, and the saved results are those of one session.
\* The position of an element is all that ties it to its URL. (Exception: the sets behind a URL that is not a
\* string are missing from the header too.)
FilesAreWhole ==
    /\ files.req.state = "closed" =>
         \E s \in 1..sessions : files.req.urls \in ListsOf(s) /\ files.req.body = files.req.urls
    /\ files.rsp.state = "closed" /\ files.rsp.key = "vectorSetUrls" =>
         \E s \in 1..sessions : files.rsp.urls \in ListsOf(s) /\ files.rsp.body = files.rsp.urls
    /\ files.saved.state = "closed" => \E s \in 1..sessions : files.saved.body = SetsOf(s)

\* The user left out the answer to a set and kept one behind it.
HasGap(f) == \E i \in 1..Len(f.body) : f.body[i] # f.urls[i]

\* An upload pairs URLs and elements by position only (the comment "check vsId compared to vs URL" has no code):
\* still no set ever gets the answers of another one, also from files of earlier sessions. (Exception: a file in
\* which the user left out the answer to an earlier set. The sets from there on get each other's answers, and even
\* then none of another session.)
AnswersReachTheirSets ==
    [][\A u \in AllSets : submitted'[u] # submitted[u] =>
          \/ submitted'[u] \in {EmptyAnswer, u}
          \/ HasGap(files.rsp) /\ submitted'[u][1] = u[1]]_vars

\* A download of a test session, or its resume, that returns AMVP_SUCCESS has left a request file with all sets of
\* that session that the process knew of, and not one of an earlier process.
DownloadSuccessMeansSaved ==
    pc = "stopped" /\ cmd \in {"download", "resume"} /\ rv = "AMVP_SUCCESS" =>
        /\ files.req.state = "closed"
        /\ files.req.body = FirstSets(session, IF cmd = "resume" THEN NumSets ELSE readable[session])

\* amvp_run_vectors_from_file() on a usable request file returns AMVP_SUCCESS only with the answers to that very
\* request in the response file, and not those to an earlier one.
ProcessSuccessMeansAnswered ==
    pc = "stopped" /\ cmd = "process" /\ rv = "AMVP_SUCCESS"
        /\ files.req.state = "closed" /\ files.req.key = "vectorSetUrls" =>
            files.rsp.state = "closed" /\ files.rsp.body = files.req.body

\* AMVP_SUCCESS of a step of the workflow that leaves a file means that the file is there, and is this step's.
SuccessMeansSaved == DownloadSuccessMeansSaved /\ ProcessSuccessMeansAnswered

\* An upload asks for a validation only when the server has the answers of every set, though it skips the sets
\* whose submission fails and drops the result of the check.
UploadValidatesOnlyAnswered == [][\A s \in validated' \ validated : MayPass(s)]_vars

\* Once the session info file is there, a download that is interrupted and resumed often enough leaves a request
\* file that can be processed.
EventuallyDownloaded == infos # {} ~> files.req.state = "closed"

\* "Uploads a set of vector set responses that were processed from an offline vector set JSON file" (amvp.h):
\* an upload that returns AMVP_SUCCESS has submitted every element of the response file.
UploadSuccessMeansSubmitted ==
    pc = "stopped" /\ cmd = "upload" /\ rv = "AMVP_SUCCESS" =>
        \A i \in 1..Len(files.rsp.body) : submitted[files.rsp.urls[i]] = files.rsp.body[i]
=============================================================================
