# A TLA+ development of libamvp

libamvp is the client side of the Automated Module Validation Protocol. An
application registers the capabilities of a cryptographic module with a server,
downloads vector sets (or evidence sets, for a module certification request),
has its module compute the answers, uploads them, polls for the verdict, and
asks for a validation. This directory models that client: what it does when the
server is slow, when tokens expire, when messages are lost, when one of many
sets fails, and when the process dies and is resumed from the file it left.

The paths below are relative to the repository's root; line numbers of single
definitions are in `PROJECT.json` under `map`.

## The system

| Component | State | Operations | Interacts with |
| --- | --- | --- | --- |
| Test session workflow (`src/amvp.c`) | `ctx`: session URL, list of set URLs, verdict, path of the session info file; the file itself | `amvp_run`, `amvp_resume_test_session`, `amvp_get_results_from_server`, `amvp_cancel_test_session`, `amvp_mod_cert_req` | calls everything below; shares the file with later processes |
| Results check (`amvp_get_result_test_session`) | lists of failed sets, algorithms and modes, the wait | scan, look up, judge, wait | reads snapshots of what the server evaluates meanwhile |
| Retry handler and polling loops | period and time waited | `amvp_retry_handler` and its three callers | periods come from the server |
| Transport (`src/amvp_transport.c`) | JWT of the `ctx`, answer buffer | one call per request, login and refresh inside a call | libcurl; re-enters itself through `amvp_refresh` |
| Offline workflow | request, response and upload files | save vectors, `amvp_run_vectors_from_file`, `amvp_upload_vectors_from_file` | the same files on several machines |
| Context (`amvp_set_*`, `amvp_mark_as_*`) | the `ctx` | setters, creation, release | decides what `amvp_run` does |
| Operating environment (`src/amvp_operating_env.c`) | vendors, persons, modules, OEs, dependencies | create, ingest, query the server, verify | before a FIPS validation |
| Capabilities and registration (`src/amvp_capabilities.c`, `src/amvp_build_register.c`) | list of enabled ciphers with parameters and prerequisites | enable, set parameters, build the registration | registration |
| Known-answer-test handlers (`src/amvp_aes.c` ...) | one test case at a time | parse a set, call the module, build the answers | called for each set |
| Utilities, error texts, parson, safe C stub, application | | | |

The client is one thread. What makes it hard is around it: the server changes
state between any two requests, every request can fail after it was carried
out, a token can expire at any moment, and a session outlives its process.

What has to hold, per component:

- *Polling*: every loop ends; it neither gives up early nor overruns the maximum
  wait by more than a bounded amount; it does not poll without pause.
- *Transport*: a call makes a bounded number of exchanges, tells the truth about
  what the server did, has it done at most once, and does not go on with a
  superseded token.
- *Session*: no set is answered twice whatever happens; success means that the
  work is done; only a passed session is validated; what a resume needs is not
  destroyed; an interrupted session can be finished.
- *Results*: a recorded pass is the server's final verdict; success is never
  reported for an undecided session; failed sets are named, and downloaded once.
- *Handlers*: no answer is computed from what an earlier test or group left in a
  variable; what is decoded is there and what is put out was allocated; every
  path frees what it holds; success means that every test was answered, with
  what the module computed; every handler returns.
- *Offline*: a file that parses is whole; answers reach the sets they are for;
  success means that the file is there, and is this step's; an interrupted
  download can be finished.
- *Context*: a `ctx` that registers from a file stays request only in any order of
  the setters; the marks keep a run to what they say; a run tells the truth about
  itself, also when the `ctx` was used before.
- *Operating environment*: the URLs that are stored belong together and to what
  they were stored for; what the server has is found; the validation request is
  whole; a verification returns.
- *Capabilities*: see the plan.

## Modules

| Module | Models | Written against |
| --- | --- | --- |
| `AmvpRetry` | arithmetic of `amvp_retry_handler` | |
| `AmvpPolling` | the polling loops | `AmvpRetry` |
| `AmvpCall` | abstract: what a request promises its caller | |
| `AmvpTransport` | requests, login, refresh, retry | implements `AmvpCall` |
| `AmvpSession` | a session across processes | the outcomes `AmvpCall` allows; `AmvpPolling`/`AmvpResults` in one step |
| `AmvpResults` | the results check in detail | `AmvpRetry` |
| `AmvpKatTable` | the language of the handlers' tables: how a field is read, refused, allocated, decoded, put out | |
| `AmvpKat` | the loops every handler runs over groups and tests, with their error paths | `AmvpKatTable` |
| `AmvpKatMac`, `AmvpKatSym`, `AmvpKatKdf`, `AmvpKatKas`, `AmvpKatAsym` | the tables of the handlers: MACs, hashes and DRBGs; AES and DES; key derivation; key agreement; signatures and key generation | `AmvpKatTable` |
| `AmvpKatChecks` | what can be read off a table without running the handler, and the checks all tables pass | `AmvpKat` |
| `AmvpOffline` | request, response and saved files across processes | the outcomes `AmvpCall` allows |
| `AmvpContext` | setters, modes of `amvp_run`, several runs of one `ctx`, release | the outcomes `AmvpCall` allows |
| `AmvpOperatingEnv` | metadata, searches, verification, validation request | the outcomes `AmvpCall` allows |
| `*MC` | instances for TLC | |
| `*Proofs` | theorems and their proofs | |

Definitions whose comment starts with "Defective" are not part of a
specification: each is a plausible mistake in the definition after it, and
`PROJECT.json` (`mutants`) names the property that notices it.

### AmvpRetry, AmvpPolling

`period` is `retry_period` or `retry_interval`, `waited` is
`time_waited_so_far`; `slept` and `sleeps` are history. `NotReady`, `Ready` and
`PollFails` are the answers to one poll, `HandlerSleeps` and `HandlerRefuses` the
two ends of `amvp_retry_handler`. The sum in the handler is unsigned
(`UINT_MOD`), so a negative period from the server wraps. `Periods` are the
`retry` numbers a server may send: any nonzero integer; zero means that the
member is missing. Whether the set is ready is the server's choice.

### AmvpCall, AmvpTransport

A call starts in `Call` (or stops in `RefuseCall`), then alternates between the
client (`Send`, `SendLogin`, `FallBackToPut`, `StartRefresh`, `ReceiveAnswer`,
`LoginSucceeds`, `LoginFails`, `RefreshSucceeds`) and the outside
(`ServerApplies`, `ServerRefuses`, `ServerSaysExpired`, `ServerLogin`,
`TokenExpires`, `LoseMessage`, `DamageBody`), with the message in flight in
`net`. `refreshing` is the recursion through `amvp_refresh`, `retried` the second
switch of `execute_network_action`. Tokens are numbered as issued. An answer's
body is abstracted to what `inspect_http_code` and `amvp_parse_login` tell apart.
The 13 actions of `AMVP_NET_ACTION` are grouped as `amvp_network_action` groups
them. A POST that is too large (`AMVP_DEPRECATED`) is not compiled by default
and left out.

`AmvpCall` says what callers may rely on: applied at most once while pending, and
an honest result unless a message was lost. Its exception for DELETE is owed to
the code: the result of a DELETE that is repeated after a refresh is dropped, so it
is reported as failed although it was carried out (`src/amvp_transport.c:1206`).

### AmvpSession

The server side (`registered`, `status` of each set, `submissions`, `validated`,
`deleted`), the disk (`file`: absent, torn, or complete) and one process at a
time (`pc` and the fields of its `ctx`). `Start` begins a command with a new
`ctx`, as the application does; `Crash` ends it anywhere. Every request has the
three outcomes of `AmvpCall`. A file is written in two steps, as the code does:
the truncating write of `[ {...}` and the appended `]`. `failing`, a
subset of `FailingSets` chosen at the start, are the sets whose handler returns an
error each time. The wait inside `CheckTestResults` is
no step: the client polls until the server is ready or it gives up; the loop
itself is `AmvpResults`. A session's sets are finite and distinct and the server
lists them in one `Order`. `listed` is what a registration could read of the list:
a URL that is no string ends the parser's loop with `rv` still AMVP_SUCCESS, so the
run goes on with the sets before it (`Register`), or, if there are none, ends with
AMVP_MISSING_ARG; a resume reads the whole list from the results.

### AmvpResults

One behaviour is one call of `amvp_get_result_test_session`. `results` and
`passed` are the snapshot being scanned, `status` is the server's present state
and may move at any step. `Lookup` is `amvp_lookup_str_list`, which takes a
string for found when one of the two is a prefix of the other (`Prefixes` lists
such pairs). A set without a mode leaves the pointer `mode` alone; what it points
to may have been freed, so any mode may be read there. `RetrieveDamaged` is an
answer that parses and lacks a member: without "results" `count` is 0 and "passed"
is taken as it is, a result without "status" (`NoStatus`) ends the scan with the
AMVP_SUCCESS of the request.

### AmvpKatTable, AmvpKat and the tables

The 29 handler files share one shape: read a group, read its tests, `init_tc()`,
the application's `crypto_handler`, `output_tc()`, `release_tc()`, append. That
shape, with every early return, is `AmvpKat`; what differs is data. A table says,
in the order of the code, which fields of a group and of a test are read under
which condition, what makes the handler refuse them, whether a variable keeps its
value when a branch does not assign it, which buffers `init_tc()` allocates and
decodes, what `output_tc()` converts, what `release_tc()` frees, and what each
error path cleans up. A field is `"absent"` (missing), `"none"` (missing, where the
handler expects that), `"bad"` (too long, out of range or unknown), `"odd"` (a hex
string with an odd number of digits), `"ok"`, or one of the named values the
handler tells apart. The vector set is chosen while it is read, so TLC covers
every combination of fields.

`stale` holds the variables whose value is from an earlier test or group, `used`
those of them that decided something since. Some handlers do have such a
variable, or a leak, or a failure that is answered: the table names it
(`carried`, `leaks`, `silent`, `unmet`, `ignoresInit`, `selfFrees`), with the
lines in its comment, and the properties hold for everything else. Monte Carlo
loops are `MctRounds` calls; their arithmetic is not modelled. A test of the RSA
decryption primitive is a list of ciphertexts (`divided`, `EmptyTest`, `NextPart`),
for each of which the application is called until it has changed one of two
counters (`until`): nothing bounds these calls, so the model counts them modulo
`MctRounds` (`NextRound`) and lets them go on for ever. The counters are written
back to locals that the next ciphertext's `init_tc()` gets (`writesBack`).

`AmvpKatChecks` looks at the tables alone: for each variable, which statement
assigns it under which condition, whether a later statement can change that
condition, and which values the statement lets through. It goes through the values
the table tells apart, one condition at a time, never through vector sets.
`TablesAssumption` is what comes out for all handlers: whatever `init_tc()` and
`output_tc()` look at was assigned for this test or group, what they convert is
there. `AmvpKatProofs` shows that this is enough.

### AmvpOffline

`files` are the three files on the disk, each without its closing bracket
("open"), whole ("closed") or missing; the session info files are `infos`. A set
stands for its URL, vectors and answers. `Start` begins a command with a new
`ctx`; a write is a truncation with the header, an append per element and the
closing bracket, as in `amvp_json_serialize_to_file_pretty_w/_a`; `Crash` may come
between any two. `readable` is how many URLs of a registration are strings; the
download knows of no others (`FirstSets`). `FillIn` is the user who answers the
evidence sets of a certification request by hand, all of them or any selection in
their order, so that the elements of the file may have moved against its URLs.

### AmvpContext

`strings` are the pointers of the `ctx` (NULL, allocated, dangling), `flags` the
marks, `misused` the strings that were read or freed after their `free()`.
`SetRefused`, `SetTooLong` and `SetString` stand for all the setters:
`Settings` says which flag each raises, `Needs` which one it insists on, and
`ChecksLengthLast` which of them departs from the common order. `Run` picks the mode as
`amvp_run` does (`ModeOf`), its steps are single requests; the session flow in
detail is `AmvpSession`. `AfterResource` is the order labs, vendors, modules of
`amvp_post_resources`.

### AmvpOperatingEnv

`vendors`, `modules`, `deps` and `oes` are the arrays of `ctx->op_env`, references
are positions in them, `glb` are the static counters of the ids, which survive a
`ctx`. `IngestMetadata` reads a file element by element; an element has a `kind`
for what can be wrong with it (no name, a member too long or missing), and an array
may be missing altogether (`absent`). `Verify`
runs the searches: `Query`, `GetPage`, the comparison of each candidate
(`MatchVendor`, `QueryContacts`, `MatchModule`, `MatchDependency`, `MatchOe`),
`NextPage`. An element of a candidate's array that has no string is passed over by
the comparisons and so counts as equal (`Agrees`, `NoString`). The server's
database is a constant table, and a page is any
selection of the entries that satisfy the query (`Offered`, external).
`DependencyNew` and `SetFields` are separate, as in the code: at the capacity the
first makes nothing and reports success, and the second writes to whatever has
the id. `Validation` is the request `amvp_build_validation` makes of the result;
its arrays are given by the positions in the `ctx` they are filled from. Names,
addresses and descriptions are model values.

## Runs

| Run | Shows |
| --- | --- |
| `polling` | bounds, patience and termination of the polling loops |
| `polling_overrun` | *violation*: the sleeps of a loop sum to more than `AMVP_MAX_WAIT_TIME` |
| `transport` | bounded calls, token freshness, `AmvpCall` implemented, every call returns |
| `session` | run, certification request, resume, results and cancel with crashes and faults: safety, and with the file in place the sets before the first failing one are answered in the end |
| `session_lost_validation` | *violation*: an interrupted run that had answered everything is never validated |
| `results` | verdict, decision, single downloads, the list of failures and termination of the check |
| `kat` | every handler on every combination of fields and failures: nothing stale, no NULL converted, nothing leaked, success means answered, answers are computed, every handler returns |
| `offline` | downloads, processing and uploads with a crash and a fault: whole files, right answers, truthful success, a download that can be finished |
| `offline_upload` | *violation*: the upload of a test session's responses submits nothing and succeeds |
| `context` | setters, marks and two runs of a `ctx`: manual registrations stay request only, marks respected, truthful runs, a new `ctx` validates only what passed |
| `operating_env` | files, calls and verifications against a database of look-alikes: URLs belong together, what is there is found, requests are whole, verifications return |
| `operating_env_dependency` | *violation*: a dependency is matched with a field of an earlier candidate |

Each violation contradicts a comment or a doc of the repository, quoted under
`findings` in `PROJECT.json`. Other departures of the code from what one would
expect are written into the properties as named exceptions, so that everything
around them is still checked:

- a DELETE repeated after a refresh reports the first attempt (`Vague` of
  `AmvpCall`);
- `amvp_cert_req` validates whatever the verdict, and so does a later run of a
  `ctx` whose first session passed (`ValidationInOrder`,
  `FreshCtxValidatesPassed`);
- the sleeps of one loop exceed `AMVP_MAX_WAIT_TIME` by less than one
  `AMVP_RETRY_TIME_MAX` (`WaitIsBounded`; that they exceed it at all is the violation
  of `polling_overrun`);
- an expired token reported in the protocol's error format ends the call without
  a refresh (`RefreshIsBounded` speaks of the other format);
- a set whose handler fails keeps every resume from the sets after it
  (`EventuallyAnswered` speaks of the sets before it);
- a URL that is no string ends the list of a registration, and that is no error
  (`src/amvp.c:2987`): a run succeeds without the sets behind it
  (`SuccessMeansAnswered`, `FilesAreWhole`, `SuccessMeansSaved`), a resume finds them;
- an answer to the results check without "results" is judged by its "passed" alone,
  and a result without "status" ends the check, or the printing of the details, with
  AMVP_SUCCESS (`src/amvp.c:3691-3699` and `3835`; `Damaged` in `VerdictIsFinal`);
- a failed set whose URL is a prefix of that of a listed one, or extends it, is taken
  for it and never downloaded, and the same goes for the names of algorithms
  (`Unmistakable` in `FailedAlgorithmsListed`);
- failed algorithms and modes are searched in two lists, and a set without a mode
  is listed with that of an earlier one (`FailedAlgorithmsListed` is silent
  about modes);
- a GET whose answer is saved reports the write (`RunIsTruthful`);
- `amvp_set_json_filename` frees the old name before it refuses one that is too long
  and leaves the pointer dangling (`src/amvp.c:1785`); the model has the state and
  the later uses (`misused`), and `ManualRegistrationIsRequestOnly` says what they
  cannot lead to. `amvp_mark_as_delete_only` does not free an old URL, a leak that
  is not counted;
- an upload of evidence sets pairs by position: when the user has left out an answer
  and kept a later one, sets of the same session get each other's answers
  (`HasGap` in `AnswersReachTheirSets`);
- the handlers' exceptions in the tables (`AmvpKat*`), among them: the RSA signature,
  key generation and primitive handlers go on after a failed `init_tc()` and answer a
  test the crypto module has not seen (`ignoresInit`: `src/amvp_rsa_sig.c:445`,
  `src/amvp_rsa_keygen.c:738`, `src/amvp_rsa_prim.c:472` and `766`); the decryption
  primitive hands the counters of one ciphertext to the next (`carried`,
  `src/amvp_rsa_prim.c:486`); the `r_tval` of a test is lost when the buffer for an RSA
  signature cannot be allocated (`src/amvp_rsa_sig.c:419`) and on the error paths of
  the AES Monte Carlo loop (`src/amvp_aes.c:309-333`); the initialisation vector of
  AES-GCM-SIV is not read at all (`src/amvp_aes.c:1086`); a KAS-IFC answer goes out
  without "z" when memory runs out (`src/amvp_kas_ifc.c:101`);
- the calls for an RSA decryption primitive end only if the application changes a
  counter (`Terminates`);
- elements without a string in the server's arrays of emails, phone numbers and
  dependencies agree with anything (`UrlsBelong`);
- a second email address makes `compare_emails` endless (`VerifyReturns`), a
  module of a vendor with several contacts is hardly ever found because the
  contact index is that of the candidate (`FirstIsFound`), a module without a
  vendor crashes the verification (`CrashOnlyAfterFailure`).

### Bounds

- `polling`: 20 for `AMVP_RETRY_TIME_MAX` and 120 for `AMVP_MAX_WAIT_TIME` keep
  their order and leave room for several sleeps; `Periods` has values on both
  sides of each comparison. `UINT_MOD` is 2^16: TLC's integers do not hold 2^32,
  and all that matters is that it is far above the maximum wait
  (`RetryConstants`).
- `transport`: three tokens are one more than a call can use (its own login or
  one refresh), so a call can meet a token superseded twice. Calls are unbounded
  in number.
- `session`: three sets put one before, at and after the point of interruption,
  the last one failing in half of the behaviours; two crashes and two faults allow
  a fault in a resumed process after a crash. The violation has the smallest
  instance that shows it.
- `results`: four sets: two whose URLs are prefixes of one another, one without a
  mode, one without a URL; two faults, failed requests or damaged answers; a wait of a
  few polls.
- `kat`: two groups and two tests are what a value needs to be carried from one
  to another, within a group and across groups; two Monte Carlo rounds have a
  first and a last one. `MaxTests` also bounds the ciphertexts of a test, two of which
  are enough to hand the counters on.
- `offline`: two sessions let files of an earlier one be mistaken for those of a
  later one, two sets can be mixed up, one crash and one fault can hit the same
  file.
- `context`: four calls reach every pair of marks with its file names and a
  repeated call; two runs are a first and a second use; two faults can hit both.
  The strings that raise no mark and need none (server name, certificates) share
  the code path of `put_filename` and are not set.
- `operating_env`: three calls are a load and two more, for example a failed and a
  repeated verification; capacities of two and three are reached by the files;
  pages of two entries have a candidate before the one that matches, and two pages
  a next one. The entries of the database differ from the metadata in one respect
  each. One fault fails any request of a search.

Deadlock is checked except in `context` and `operating_env`, where the number of
calls is bounded and the application may stop. No symmetry is used: sets are
ordered.

### Fairness

- `AmvpPolling`: sleeping and requests return and the client runs on. Nothing
  obliges the server to become ready.
- `AmvpTransport`: the client runs on, and libcurl returns from each request with
  an answer or without one. Nobody has to make another call.
- `AmvpSession`: a running process takes its next step, the server evaluates what
  it was given, and the user does not give up resuming (strong fairness of
  `Start("resume")`: a result check or a cancellation may come between). Crashes
  and faults are finite in number by their bounds.
- `AmvpResults`: only the client; the server need not evaluate anything.
- `AmvpKat`: the thread runs until the handler has returned (`Running`, weak
  fairness of the whole next-state relation written out, since some step is
  always possible before that). Nothing obliges the application to decide an RSA
  decryption primitive.
- `AmvpOffline`: a process runs to its end, and the user of an interrupted download
  goes on resuming it (strong fairness, since other commands may come between).
- `AmvpOperatingEnv`: a call runs on. That the pages of a search end is the
  server's doing (`MaxPages`); nothing in the client bounds them.

## Proofs

All theorems hold for every value of the constants the named assumptions allow:
`RetryConstants`, `PollingConstants`, `TransportConstants`, `SessionConstants`,
`ResultsConstants`, `ContextConstants`, `OfflineConstants`, the `BoundsAssumption`
of two modules, and, where the constants are data, what the code presupposes of
them: `HandlersAssumption`, `DecidingAssumption` and `TablesAssumption` (the
handlers' tables),
`FilesAssumption` (the shape of a metadata file) and `DatabaseAssumption` (what
the server has under a URL has the required members). TLC evaluates each of them
on the instances. A module's safety theorems follow from one inductive invariant,
or from a few that share parts, preserved action by action. Every invariant and
every action property that a run checks is a theorem too; the liveness properties
are not, but for four of them the step that could go wrong is (`PollingAdvances`,
`CallAdvances`, `CheckAdvances`, `HandlerAdvances`): a measure that each step
lowers, so that a behaviour in which steps go on being taken has to end. The
fairness that steps are taken is all that is left to TLC there.

- `AmvpPollingProofs`. Three lemmas bound what the handler computes: the period
  slept lies in (MIN, MAX], the counted one is at least that and at most MAX, and
  is equal when the modifier is 1. `IInv` adds to the types that the counted time
  is at least the slept time, and equal to it without backoff. The constant
  assumptions used are MIN < MAX <= MAX_WAIT and that the largest count is below
  `UINT_MOD`. `PollingAdvances` weighs the time that may still be counted against
  the place in the loop; it holds because the handler never counts a sleep as
  nothing.
- `AmvpTransportProofs`. `ControlInv` ties `pc` to what is in flight; `AppliedInv`
  says that nothing has been applied whenever a request is about to be sent or
  repeated (the reason for "at most once"); `TokenInv` relates the tokens of the
  `ctx`, the request and the answer; `CountInv` counts exchanges along the path
  POST, PUT, login, POST, PUT. `Implementation` maps each step to a step of
  `AmvpCall` or to a stutter. `CallAdvances` counts down the exchanges along the
  same path (`Leg`) and what can happen to the message of one (`LegLeft`); only a
  token that expires meanwhile is not counted, since time is not.
- `AmvpSessionProofs`. `StatusInv`: a set is unreceived or expired exactly when it
  has no submission. `ListInv`: what is on the list of a process is unanswered,
  which is why no interleaving of crashes and resumes answers twice. `AnswerInv`:
  and nothing else the process could know of is unanswered, which is why success
  means done. `PassInv`: a
  verdict lasts. `FlowInv` and `FileInv`: who writes the file, and when.
  `ValidationIsOfPassed` assumes that no module certification request is made:
  `amvp_cert_req` validates a session whatever its verdict.
- `AmvpResultsProofs`. `ScanInv`: counting everything means that everything scanned
  was complete. `SnapshotInv`: the server overtakes a snapshot only in sets that
  were not complete in it. From these two, the verdict of a fully counted snapshot
  is final; `VerdictInv` adds that a check which ends without a verdict has seen a
  set that is undone or an answer that is damaged. `DownloadInv`: what was downloaded is on the list that prevents a
  second download, although that list is searched by prefix. `OnlyFailed`,
  `NamedInv` and `LookedInv` give `FailedAlgorithmsListed`: the names on the list
  are those of failed sets, the search by prefix finds the name of every set that
  was downloaded, and a check that has counted everything has looked up every failure
  (a poll that is repeated has not). What the search by prefix finds is the very
  string where no other one can be taken for it, which is what the property claims. `CheckAdvances` weighs the waiting time that is left against
  the sets left to scan in the present poll; the server's steps leave both alone.
- `AmvpContextProofs`. `HeapInv`: only `json_filename` ever dangles, and a `ctx` in
  which it is set, dangles or was used after its `free()` has the mark of a manual
  registration, which needs that of request only; no setter takes a mark away.
  `FlowInv`: the mode of a run is that of the flags, which nothing changes until it
  has returned, so that the marks restrict every later step, and a run that is request
  only is never beyond the download. `ManualRegistrationIsRequestOnly` follows from
  the two. `SessionInv` and `CountInv`: a run registers at most
  one session, which is in the list before it is processed and answered behind
  that. `PassInv`: a remembered pass is that of some session in the list; with one
  session in the list it is that session's (`FreshCtxValidatesPassed`), with more
  it need not be. `RunIsTruthful` is then inductive with them.
- `AmvpOfflineProofs`. `ListInv`: a process works on the list of one session as far
  as it could be read, and what it uploads are elements of it;
  `ProgressInv`: the file that is being written is its header and the first
  `next - 1` sets of the list. So the closing bracket makes it whole
  (`FileInv`), and position n of the file is position n of the URLs, which is all
  that `amvp_submit_vector_responses` relies on. `FileInv` treats the file of
  answers that a user filled in apart: it has the header of a request, and each of
  its elements is one of the sets of that header, so that a gap mixes up the sets of
  one session only. `PassInv` ties the verdict of an upload to the answers the server has.
- `AmvpKatProofs`. Four invariants over the loops, for any tables and vector sets
  of any size. `CountInv`: as many groups and tests are answered as were read.
  `LeakInv`: what is live at each place; that `init_tc()` allocates only what its
  table says, wherever it fails, is a fact about the recursive function `InitRun`,
  proved for its specific definition from the least statement that would violate
  it (`Least`). `AnswerInv`: the variables that decide whether a failure is an
  answer hold one of their legal values from the group on; the same argument over
  the fields of a group (`ReadFields`) shows that a required field has one once the
  group is accepted. `StaleInv`, for `NothingStale` and `ConversionsHaveBuffers`:
  at each place, what is stale is a variable that outlives its loop body and that
  neither this group nor this test has assigned, and a variable that was assigned
  has a value the assigning statement goes on with. Whether a statement was
  executed is told afterwards by its condition, provided that nothing has changed
  what the condition looks at (`Settled`, `Firm`), which is why the invariant can
  speak of the present values only. Two steps then lead to the properties: the
  present values are rounded to those the table tells apart (`Rough`), which
  changes no condition of the table (`RoughHolds`) and gives one of the finitely
  many valuations that `AmvpKatChecks` goes through; and the check for that
  valuation says that the variable is current, the field given or the buffer
  made. So what TLC has to evaluate once per table (`TablesAssumption`) is about
  single conditions, and the theorems make of it a statement about every sequence
  of groups and tests. `HandlersAssumption` and `DecidingAssumption` are the
  corresponding checks for the other properties. What a table lists as an
  exception (`leaks`, `silent`, `carried`, `unmet`) is its own claim, so the
  theorems say that the loops add nothing to it, and the run that the exceptions
  are enough. `HandlerAdvances`: each step begins a group, a test or a ciphertext or
  lowers what is left of the current one, another call of the crypto handler for an
  RSA decryption primitive excepted.
- `AmvpOperatingEnvProofs`. The parts, each theorem using some of them: `Types`
  (references point into the arrays); `CrashInv` (only after a failure is there a
  module without a vendor); `VerifyInv` (a search has something to search for, and
  beyond the vendor's search the vendor has its URL); `PageInv` (what has a URL is
  not searched for again, candidates satisfy the query, and while the contacts are
  compared the stored address is that of the current candidate). `VendorInv`,
  `ModuleInv`, `OeInv` and `DepInv` state for each URL what it belongs to. They are
  stable because a URL that is stored is never written again, so a module's vendor
  cannot move away under it. `FirstInv` records what was rejected before the
  current candidate and that `tmp_dep` is clear at the first one. `StatusInv` gives
  the meaning of COMPLETE, PARTIAL and INCOMPLETE along the search for the
  dependencies, which is what the request relies on. `FreshInv`, `UniqueInv` and
  `LoadInv` follow a load: the operating environments read so far are the last
  ones of the `ctx`, with distinct dependencies whose ids are used up. By a
  pigeonhole argument (`Room`) they leave room in the operating environment for
  the one just made, so that the result of `amvp_oe_oe_set_dependency`, which the
  code does not look at, is never an error there.

Three proof attempts changed the model. `IngestSuccessMeansLoaded` failed at
the capacity: there `amvp_oe_dependency_new` reports success without making
anything, the dependency is then looked up by its id, and one that a failed load
left behind is found and written over, field by field; the fields the new element
lacks stay. The model now does that (`SetFields`), and the two properties that
meet it speak of a `ctx` in which nothing has failed. And the arrays of the
validation request are sets of positions, because the order in which they are
filled is that of the operating environment anyway. In `Consulted` (`AmvpKat`) each
`UNION` is in parentheses: the prover and TLC read `UNION A \cup B` differently,
and the first attempt to prove `NothingStale` was about another formula than the
one TLC checks.

Only model-checked:

- the liveness properties (`PollingTerminates`, `CallReturns`,
  `EventuallyAnswered`, `CheckReturns`, `Terminates`, `EventuallyDownloaded`,
  `VerifyReturns`), which are out of this prover's reach. Four of them have their
  safety half as a theorem, see above; `EventuallyAnswered` and
  `EventuallyDownloaded` need the user to resume and have no measure that every
  step lowers, and `VerifyReturns` depends on the number of pages of the server;
- that the tables pass their checks, which is an evaluation of finite data;
- general induction over data: only the recursive functions `InitRun` and
  `ReadFields` are reasoned about, each with its own least-counterexample argument.

## Not modelled

The JSON library and the safe C stub (third party), logging and texts, the HTTP
user agent string, TLS and everything inside libcurl, NULL-pointer arguments of
the public functions, `AMVP_OFFLINE` and `AMVP_DEPRECATED` builds, the error
objects of `amvp_parse_protocol_error` (no caller), the arithmetic of the Monte
Carlo tests, the lengths of fields beyond fits and too long. The capability
registration API and the JSON the registration builder makes of it check single
arguments against tables and append to a list; they are the next module of the
plan. The application's command line chooses which library function is called;
the models leave that choice open.

## Plan

Done: `AmvpRetry`, `AmvpPolling`; `AmvpCall`, `AmvpTransport`; `AmvpSession`;
`AmvpResults`; `AmvpKat` with its tables; `AmvpOffline`; `AmvpContext`;
`AmvpOperatingEnv`, each with its runs and proofs.

Next, in this order:

1. `AmvpCapabilities` and the registration builder: the list of enabled ciphers,
   prerequisites and parameters; what is built for a registration is what was
   enabled.
2. A composition of session and transport on `AmvpCall`, so that the outcomes
   `AmvpSession` assumes are a theorem of the pair.
