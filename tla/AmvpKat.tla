------------------------------- MODULE AmvpKat -------------------------------
(***************************************************************************)
(* A known-answer-test handler amvp_<alg>_kat_handler(ctx, obj), called by *)
(* amvp_process_vsid() for one vector set: it walks the groups of the set  *)
(* and the tests of each group, hands every test to the application's      *)
(* crypto_handler and builds the response in ctx->kat_resp.                *)
(*                                                                         *)
(* The handlers are tables (AmvpKatTable).  The vector set is chosen while *)
(* it is read: each step takes the JSON object it looks at from Inputs.    *)
(* The process is sequential; what varies is the input, which of malloc(), *)
(* the crypto module and the conversions fail, and what the local          *)
(* variables and the test case structure still hold from earlier groups    *)
(* and tests, since most handlers declare them outside of the loops.       *)
(*                                                                         *)
(* Abstractions: the response is the sequence of the numbers of tests its  *)
(* groups answer; the buffers of a test case are names; the Monte Carlo    *)
(* loops are MctRounds calls of the crypto handler.                        *)
(***************************************************************************)
EXTENDS AmvpKatTable

CONSTANTS Handlers,     \* handler name -> its table
          MaxGroups,    \* groups of a vector set
          MaxTests,     \* tests of a vector set, and ciphertexts of a test
          MctRounds     \* calls of the crypto handler in a Monte Carlo test

ASSUME BoundsAssumption ==
    MaxGroups \in Nat \ {0} /\ MaxTests \in Nat \ {0} /\ MctRounds \in Nat \ {0}

\* The buffers that the statements of an init_tc() allocate.
Allocated(init) == {init[i].buf : i \in {j \in DOMAIN init : init[j].op \in {"alloc", "held"}}}

\* A field that is read always and must have one of its legal values, which no later statement changes.
Required(steps, i) ==
    /\ steps[i].input /\ steps[i].when = {} /\ ~steps[i].keep
    /\ {steps[i].absent, steps[i].bad} \cap {TAKEN, "AMVP_SUCCESS"} = {}
    /\ \A j \in DOMAIN steps : j > i => steps[j].v # steps[i].v
\* What decides whether a failure of the crypto module is an answer, and the values it has in a test.
Deciding(t) == UNION {Reads(g) : g \in t.tolerates \cup t.reports \cup t.silent}
ValuesOf(t, v) ==
    IF v = "alg" THEN t.algs
    ELSE UNION {t.group[i].legal : i \in {j \in DOMAIN t.group : t.group[j].v = v /\ Required(t.group, j)}}

\* What the tables have in common: no error has the code of a success, and what release_tc() or the path behind a
\* failure does not free is listed as a leak.
ASSUME HandlersAssumption ==
    \A h \in DOMAIN Handlers :
        LET t == Handlers[h]
            policies == {t.onInit, t.onCrypto, t.onOutput}
        IN  /\ Len(t.init) \in Nat /\ DOMAIN t.init = 1..Len(t.init)
            /\ "AMVP_SUCCESS" \notin t.refused \cup t.late \cup {t.noTgId, t.noTests, t.mctCode}
            /\ Allocated(t.init) \subseteq t.frees \cup t.leaks
            /\ (\A p \in policies : "release" \in p) \/ Allocated(t.init) \subseteq t.leaks
            /\ ((\A p \in policies : "free" \in p) /\ t.lost = {}) \/ "r_tval" \in t.leaks
            /\ t.mctLost \subseteq t.leaks

\* The variables that decide on a failure are the cipher and required fields of the group, which no test changes, and
\* a failure that is tolerated for values they may have is listed as one that is reported or as a silent one.
ASSUME DecidingAssumption ==
    \A h \in DOMAIN Handlers :
        LET t == Handlers[h]
        IN  /\ \A steps \in {t.group, t.test} : Len(steps) \in Nat /\ DOMAIN steps = 1..Len(steps)
            /\ "alg" \notin Names(t.group) \cup Names(t.test) \cup t.groupLocals \cup t.testLocals
            /\ Deciding(t) \cap (Names(t.test) \cup t.testLocals) = {}
            /\ \A v \in Deciding(t) \ {"alg"} : \E i \in DOMAIN t.group : t.group[i].v = v /\ Required(t.group, i)
            /\ \A e \in [Deciding(t) -> UNION {ValuesOf(t, v) : v \in Deciding(t)}] :
                 (\A v \in Deciding(t) : e[v] \in ValuesOf(t, v)) /\ (\E g \in t.tolerates : Holds(g, e))
                 => \E g \in t.reports \cup t.silent : Holds(g, e)

VARIABLES handler,   \* the handler that was called
          pc,        \* where it is
          rv,        \* AMVP_RESULT rv
          group,     \* index of the current group, 0 before the first
          test,      \* index of the current test in its group
          part,      \* ... of the current ciphertext in its test; 1 where a test is not divided
          env,       \* the handler's local variables
          stale,     \* locals whose value stems from an earlier group or test
          used,      \* stale locals that decided something in the current group
          stc,       \* the test case structure: "garbage" (never written) or "zeroed"
          live,      \* buffers of the test case that are allocated
          json,      \* JSON values the handler owns: r_vs_val, r_gval, r_tval
          tests,     \* number of tests appended to the current group
          groups,    \* the groups appended: how many tests each answers
          katResp,   \* ctx->kat_resp: "old", "header" (no vector set in it) or "whole"
          rounds,    \* calls of the crypto handler for the current test
          failed     \* the crypto handler failed for the current test

vars == <<handler, pc, rv, group, test, part, env, stale, used, stc, live, json, tests, groups, katResp, rounds, failed>>
locals == <<env, stale, used>>
answer == <<tests, groups, katResp>>

H == Handlers[handler]
PerTest(h) == Names(h.test) \ Names(h.group)
\* Variables that the statements always assign before they look at them: what they hold before does not matter.
Assigned(steps) ==
    {v \in Names(steps) : \E i \in DOMAIN steps :
        /\ steps[i].v = v /\ steps[i].when = {} /\ ~steps[i].keep
        /\ \A j \in 1..i : v \notin Reads(steps[j].when)}
GuardsOf(steps) == UNION {Reads(steps[i].when) : i \in DOMAIN steps}
\* What follows from the tables: the names, the variables that are dead after a test and after a group, and the
\* objects a handler may find in the arrays it walks.
Facts == [h \in DOMAIN Handlers |->
             LET t == Handlers[h]
                 deadTest == Assigned(t.test) \ GuardsOf(t.group)
             IN  [variables |-> {"alg"} \cup Names(t.group) \cup Names(t.test),
                  buffers   |-> {t.init[i].buf : i \in DOMAIN t.init},
                  perTest   |-> PerTest(t),
                  afterTest |-> t.testLocals \cup (deadTest \ Names(t.group)),
                  afterGroup |-> t.groupLocals \cup deadTest \cup Assigned(t.group)]]
Served == UNION {{h} \X Handlers[h].algs : h \in DOMAIN Handlers}
GroupObjects == [s \in Served |-> Inputs(For(s[2], Handlers[s[1]].group))]
TestObjects  == [s \in Served |-> Inputs(For(s[2], Handlers[s[1]].test))]
F == Facts[handler]

ResultCodes == {"AMVP_SUCCESS", MISSING_ARG, INVALID_ARG, MALFORMED_JSON, UNSUPPORTED_OP, TC_MISSING_DATA,
                TC_INVALID_DATA, NO_CAP, MALLOC_FAIL, "AMVP_DATA_TOO_LARGE", "AMVP_CRYPTO_MODULE_FAIL",
                "AMVP_CONVERT_DATA_ERR"}

\* What the variables may hold.
TypeOK ==
    /\ handler \in DOMAIN Handlers
    /\ pc \in {"start", "group", "test", "init", "crypto", "output", "done", "crashed"}
    /\ rv \in ResultCodes
    /\ group \in 0..MaxGroups /\ test \in 0..MaxTests /\ part \in 0..MaxTests
    /\ DOMAIN env = F.variables
    /\ stale \subseteq F.variables /\ used \subseteq F.variables
    /\ stc \in {"garbage", "zeroed"}
    /\ live \subseteq F.buffers \cup H.mctLost
    /\ json \subseteq {"r_vs_val", "r_gval", "r_tval"}
    /\ tests \in 0..MaxTests
    /\ Len(groups) \in 0..MaxGroups /\ \A i \in DOMAIN groups : groups[i] \in 0..MaxTests
    /\ katResp \in {"old", "header", "whole"}
    /\ rounds \in 0..MctRounds
    /\ failed \in BOOLEAN

Init ==
    /\ handler \in DOMAIN Handlers
    /\ pc = "start" /\ rv = "AMVP_SUCCESS" /\ group = 0 /\ test = 0 /\ part = 0
    /\ \E a \in H.algs : env = [v \in F.variables |-> IF v = "alg" THEN a ELSE "unset"]
    /\ stale = {} /\ used = {} /\ stc = "garbage" /\ live = {} /\ json = {}
    /\ tests = 0 /\ groups = <<>> /\ katResp = "old" /\ rounds = 0 /\ failed = FALSE

(***************************************************************************)
(* return rv: the local variables are gone.  err: amvp_release_json() of   *)
(* r_vs_val and r_gval goes before it.                                     *)
(***************************************************************************)
Return(code) ==
    /\ rv' = code /\ pc' = "done"
    /\ env' = [v \in DOMAIN env |-> "unset"] /\ stale' = {} /\ used' = {}
Err(code, owned) == Return(code) /\ json' = owned \ {"r_vs_val", "r_gval"}

\* The checks before anything is created: obj, "algorithm", the cipher, its capability.
Refuse ==
    /\ pc = "start"
    /\ \E code \in H.refused : Return(code)
    /\ UNCHANGED <<handler, answer, group, test, part, stc, live, json, rounds, failed>>

\* amvp_create_array(), amvp_setup_json_rsp_group(), and the checks some handlers make only then.
Setup ==
    /\ pc = "start"
    /\ katResp' = "header"
    /\ stc' = IF H.zeroed THEN "zeroed" ELSE stc
    /\ \/ pc' = "group" /\ json' = {"r_vs_val"} /\ UNCHANGED <<rv, locals>>
       \/ \E code \in H.late : Err(code, {"r_vs_val"})
    /\ UNCHANGED <<handler, group, test, part, live, tests, groups, rounds, failed>>

\* Defective: the locals are declared outside of the loops.
RenewedOutside(names) == env
\* The locals of a loop body are gone when it ends; the others keep their value as long as it can matter.
Renewed(names) == [v \in DOMAIN env |-> IF v \in names THEN "unset" ELSE env[v]]
Kept(names) == {v \in names : env[v] # "unset"}

Answered == FoldFunction(+, 0, groups)

\* The head of the group loop.  A "tests" array without tests is refused by some handlers only.
BeginGroup ==
    /\ pc = "group" /\ group < MaxGroups /\ Answered < MaxTests
    /\ group' = group + 1 /\ test' = 0 /\ tests' = 0
    /\ \/ \E in \in GroupObjects[<<handler, env["alg"]>>] :
            LET read == ReadFields(H.group, env, Kept(Names(H.group) \cup Names(H.test)), in)
            IN  \/ /\ read.rv = "AMVP_SUCCESS"
                   /\ pc' = "test" /\ rv' = rv /\ json' = json \cup {"r_gval"}
                   /\ env' = read.env /\ stale' = read.stale /\ used' = read.used
                \/ read.rv # "AMVP_SUCCESS" /\ Err(read.rv, json \cup {"r_gval"})
       \/ \E code \in {H.noTgId, H.noTests} \ {TAKEN} : Err(code, json \cup {"r_gval"})
    /\ UNCHANGED <<handler, part, stc, live, groups, katResp, rounds, failed>>

\* The fields of one test, up to the call of init_tc().  An allocation in between may fail and lose r_tval.
BeginTest ==
    /\ pc = "test" /\ Answered + test < MaxTests
    /\ test' = test + 1 /\ part' = 1 /\ rounds' = 0 /\ failed' = FALSE
    /\ \/ \E in \in TestObjects[<<handler, env["alg"]>>] :
            LET read == ReadFields(H.test, env, stale \cup Kept(F.perTest), in)
            IN  \/ /\ read.rv = "AMVP_SUCCESS"
                   /\ pc' = "init" /\ rv' = rv /\ json' = json \cup {"r_tval"}
                   /\ env' = read.env /\ stale' = read.stale /\ used' = used \cup read.used
                \/ read.rv # "AMVP_SUCCESS" /\ Err(read.rv, json)
       \/ (\E g \in H.lost : Holds(g, env)) /\ Err(MALLOC_FAIL, json \cup {"r_tval"})
    /\ UNCHANGED <<handler, group, stc, live, answer>>

\* A test without ciphertexts is answered as it is.
EmptyTest ==
    /\ pc = "test" /\ Answered + test < MaxTests /\ H.divided # {}
    /\ test' = test + 1 /\ part' = 0 /\ tests' = tests + 1
    /\ UNCHANGED <<handler, pc, rv, group, locals, stc, live, json, groups, katResp, rounds, failed>>

\* Defective: release_tc() is left out.
CleanupUnreleased(policy, code, allocated, state) ==
    /\ Err(code, IF "free" \in policy THEN json \ {"r_tval"} ELSE json)
    /\ live' = allocated /\ stc' = state

(***************************************************************************)
(* What a failure in the middle of a test leaves behind.  release_tc() on  *)
(* a structure that was never written, or whose pointers init_tc() freed,  *)
(* is undefined: the process may die.                                      *)
(***************************************************************************)
Cleanup(policy, code, allocated, state) ==
    /\ Err(code, IF "free" \in policy THEN json \ {"r_tval"} ELSE json)
    /\ IF "release" \in policy
       THEN live' = allocated \ H.frees /\ stc' = IF state = "garbage" THEN state ELSE "zeroed"
       ELSE live' = allocated /\ stc' = state

RefusedEarly == {e \in H.early : Holds(e.when, env) /\ env[e.v] \in Null} # {}
\* The outcomes of init_tc(): every allocation may fail, the conversions depend on the fields.
InitRuns == {InitRun(H.init, env, fail) : fail \in AllocSteps(H.init, env) \cup {0}}

\* init_tc(): allocates the buffers of the test case and decodes the fields into them.
InitTc ==
    /\ pc = "init" /\ ~RefusedEarly
    /\ InitRun(H.init, env, 0).rv \in {"AMVP_SUCCESS", "cut"}
    /\ pc' = "crypto" /\ stc' = "zeroed" /\ live' = InitRun(H.init, env, 0).live
    /\ UNCHANGED <<handler, locals, answer, rv, group, test, part, json, rounds, failed>>

InitTcFails ==
    /\ pc = "init" /\ ~RefusedEarly /\ ~H.ignoresInit
    /\ \E run \in InitRuns : run.rv \notin {"AMVP_SUCCESS", "cut"} /\ Cleanup(H.onInit, run.rv, run.live, "zeroed")
    /\ UNCHANGED <<handler, answer, group, test, part, rounds, failed>>

\* The test goes on without the call of the crypto handler.
InitTcIgnored ==
    /\ pc = "init" /\ H.ignoresInit
    /\ \E run \in InitRuns : run.rv \notin {"AMVP_SUCCESS", "cut"} /\ live' = run.live
    /\ pc' = "output" /\ stc' = "zeroed"
    /\ UNCHANGED <<handler, locals, answer, rv, group, test, part, json, rounds, failed>>

\* init_tc() returns before it has touched the structure.
InitTcRefuses ==
    /\ pc = "init" /\ RefusedEarly
    /\ Cleanup(H.onInit, INVALID_ARG, live, stc)
    /\ UNCHANGED <<handler, answer, group, test, part, rounds, failed>>

InitTcCrashes ==
    /\ pc = "init"
    /\ \/ RefusedEarly /\ stc = "garbage" /\ "release" \in H.onInit
       \/ H.selfFrees /\ \E run \in InitRuns : run.rv = MALLOC_FAIL /\ run.live # {}
    /\ pc' = "crashed"
    /\ UNCHANGED <<handler, locals, answer, rv, group, test, part, stc, live, json, rounds, failed>>

Mct == H.mct # {} /\ Holds(H.mct, env)
\* Defective: every failure of the crypto module is an answer.
ToleratedAlways == ~Mct
Tolerated == ~Mct /\ \E g \in H.tolerates : Holds(g, env)

\* Defective: a Monte Carlo loop that does not count.
CryptoUncounted ==
    /\ pc = "crypto"
    /\ rounds' = (rounds + 1) % MctRounds
    /\ failed' \in {FALSE, Tolerated}
    /\ \/ Mct /\ pc' = IF rounds' = MctRounds THEN "output" ELSE "crypto"
       \/ ~Mct /\ pc' = "output"
    /\ UNCHANGED <<handler, locals, answer, rv, group, test, part, stc, live, json>>

\* Another call; where nothing bounds their number they are counted up to MctRounds, and then again from 1.
NextRound == IF H.until /\ rounds = MctRounds THEN 1 ELSE rounds + 1

\* (cap->crypto_handler)(&tc): once, in the Monte Carlo loop, or until it has counted the result.
Crypto ==
    /\ pc = "crypto"
    /\ rounds' = NextRound
    /\ failed' \in {FALSE, Tolerated}
    /\ \/ Mct /\ pc' = IF rounds' = MctRounds THEN "output" ELSE "crypto"
       \/ ~Mct /\ pc' = "output"
       \/ H.until /\ pc' = "crypto"
    /\ UNCHANGED <<handler, locals, answer, rv, group, test, part, stc, live, json>>

CryptoFails ==
    /\ pc = "crypto" /\ ~Tolerated
    /\ failed' = TRUE /\ rounds' = NextRound
    /\ Cleanup(H.onCrypto, "AMVP_CRYPTO_MODULE_FAIL", live, stc)
    /\ UNCHANGED <<handler, answer, group, test, part>>

\* amvp_bin_to_hexstr() refuses a NULL buffer.
Reported == failed /\ \E g \in H.reports : Holds(g, env)
MissingOutput == ~Reported /\ {o.buf : o \in Active(H.outputs, env)} \ live # {}

\* output_tc(), release_tc(), and the test is appended to its group.
OutputTc ==
    /\ pc = "output" /\ ~MissingOutput
    /\ pc' = "test" /\ tests' = tests + 1
    /\ live' = live \ H.frees /\ json' = json \ {"r_tval"}
    /\ env' = Renewed(F.afterTest) /\ stale' = stale \ F.afterTest
    /\ UNCHANGED <<handler, used, rv, group, test, part, stc, groups, katResp, rounds, failed>>

\* output_tc(), release_tc(), and the next ciphertext of the test is read.
NextPart ==
    /\ pc = "output" /\ ~MissingOutput /\ part < MaxTests
    /\ part' = part + 1 /\ rounds' = 0 /\ failed' = FALSE
    /\ live' = live \ H.frees
    /\ \E i \in {j \in DOMAIN H.test : H.test[j].v \in H.divided} :
         \/ /\ \E v \in H.test[i].legal : env' = [env EXCEPT ![H.test[i].v] = v]
            /\ pc' = "init" /\ UNCHANGED <<rv, stale, used, json>>
         \/ \E code \in {H.test[i].absent, H.test[i].bad} : Err(code, json \ {"r_tval"})
    /\ UNCHANGED <<handler, group, test, stc, answer>>

\* A Monte Carlo loop may also lose the response of the current round.
OutputTcFails ==
    /\ pc = "output"
    /\ \/ Mct /\ \E lost \in {{}, H.mctLost} : Cleanup(H.onCrypto, H.mctCode, live \cup lost, stc)
       \/ ~Mct /\ Cleanup(H.onOutput, MALLOC_FAIL, live, stc)
       \/ ~Mct /\ MissingOutput /\ Cleanup(H.onOutput, "AMVP_CONVERT_DATA_ERR", live, stc)
    /\ UNCHANGED <<handler, answer, group, test, part, rounds, failed>>

\* Defective: a group without tests is dropped.
EndGroupDropped ==
    /\ pc = "test"
    /\ test = 0 => H.noTests = TAKEN
    /\ pc' = "group"
    /\ groups' = (IF tests = 0 THEN groups ELSE Append(groups, tests)) /\ json' = json \ {"r_gval"}
    /\ env' = Renewed(F.afterGroup) /\ stale' = {} /\ used' = {}
    /\ UNCHANGED <<handler, rv, group, test, part, stc, live, tests, katResp, rounds, failed>>

EndGroup ==
    /\ pc = "test"
    /\ test = 0 => H.noTests = TAKEN
    /\ pc' = "group"
    /\ groups' = Append(groups, tests) /\ json' = json \ {"r_gval"}
    /\ env' = Renewed(F.afterGroup) /\ stale' = {} /\ used' = {}
    /\ UNCHANGED <<handler, rv, group, test, part, stc, live, tests, katResp, rounds, failed>>

\* The vector set is appended to the array that ctx->kat_resp holds.
Finish ==
    /\ pc = "group"
    /\ Return("AMVP_SUCCESS")
    /\ katResp' = "whole" /\ json' = json \ {"r_vs_val"}
    /\ UNCHANGED <<handler, group, test, part, stc, live, tests, groups, rounds, failed>>

Stopped == pc \in {"done", "crashed"} /\ UNCHANGED vars

Next ==
    \/ Refuse \/ Setup \/ BeginGroup \/ BeginTest \/ EmptyTest
    \/ InitTc \/ InitTcFails \/ InitTcIgnored \/ InitTcRefuses \/ InitTcCrashes
    \/ Crypto \/ CryptoFails \/ OutputTc \/ NextPart \/ OutputTcFails
    \/ EndGroup \/ Finish \/ Stopped

\* The thread that runs the handler is scheduled: it does not stop between two statements.  This is weak fairness
\* of Next, some step of which is always possible before the handler has returned.
Running == (<>[](pc \in {"done", "crashed"})) \/ ([]<><<TRUE>>_vars)

Spec == Init /\ [][Next]_vars /\ Running

(***************************************************************************)
(* Properties.                                                             *)
(***************************************************************************)
\* What init_tc() and the rest of the test look at: its scalar arguments, the fields it decodes,
\* and the variables that decide what is allocated, decoded and put out.
Consulted ==
    LET decoded == {i \in DOMAIN H.init : H.init[i].op \notin {"alloc", "held"} /\ Holds(H.init[i].when, env)}
    IN  H.args \cup {H.init[i].v : i \in decoded} \cup (UNION {Reads(H.init[i].when) : i \in DOMAIN H.init})
        \cup (UNION {Reads(o.when) : o \in H.outputs}) \cup Reads(H.mct)

\* What the application has left in the test case is written back to these locals, for the ciphertexts and tests
\* behind it.
WrittenBack == IF test > 1 \/ part > 1 THEN H.writesBack ELSE {}

\* Every value a test is computed from was read from this test or its group: although most handlers declare
\* their variables outside of the loops, none of them (but the ones listed in `carried') reaches the crypto
\* handler, or decides what is read, with what an earlier group or test left in it.
NothingStale == pc = "init" => ((stale \cup WrittenBack) \cap Consulted) \cup used \subseteq H.carried

\* The conditions under which init_tc() converts a field imply the conditions under which the handler has
\* insisted on it: no missing string gets as far as amvp_hexstr_to_bin().
NoNullDecoded ==
    pc = "init" /\ ~RefusedEarly =>
        \A i \in DOMAIN H.init : H.init[i].op \in {"decode", "tight", "copy"} /\ Holds(H.init[i].when, env) => env[H.init[i].v] \notin Null

\* Every buffer that output_tc() converts was allocated by an init_tc() that succeeded, whatever combination of
\* fields decided on the one and on the other, apart from the combinations listed in the tables.
OutputsAllocated ==
    pc = "crypto" /\ MissingOutput => \E g \in H.unmet : Holds(g, env)

\* Neither conversion, of the fields before the crypto handler or of its results after it, meets a NULL.
ConversionsHaveBuffers == NoNullDecoded /\ OutputsAllocated

\* On every path, the failing ones included, release_tc() frees what init_tc() has allocated and no response
\* object is lost, apart from the leaks listed in the tables.
NothingLeaked ==
    /\ pc \in {"group", "test"} => live \subseteq H.leaks
    /\ pc = "done" => live \cup json \subseteq H.leaks

\* A handler returns AMVP_SUCCESS exactly when ctx->kat_resp holds an answer to every group it has read, and a
\* group is appended only with an answer to every test of it.
SuccessMeansAnswered ==
    /\ pc = "done" => (rv = "AMVP_SUCCESS") = (katResp = "whole")
    /\ pc \in {"group", "test"} => tests = test
    /\ pc = "group" \/ katResp = "whole" => Len(groups) = group

\* A test that is answered was given to the crypto handler, which succeeded or whose failure is the answer (a
\* tag or key wrap that does not verify); outside of the handlers that go on after a failed init_tc().
AnswersAreComputed ==
    pc = "output" => \/ H.ignoresInit
                     \/ rounds > 0 /\ (failed => Reported \/ \E g \in H.silent : Holds(g, env))

\* Whatever the vector set holds and whatever fails, the handler returns (or the process dies).  One loop is left to
\* the application: that of the RSA decryption primitive goes on until the crypto handler has changed one of the two
\* counters of the test case, and for ever if it never does.
Terminates == <>(pc \in {"done", "crashed"}) \/ <>[](H.until /\ pc = "crypto")
=============================================================================
