---------------------------- MODULE AmvpKatTable ----------------------------
(***************************************************************************)
(* How the known-answer-test handlers are written down.  All handlers have *)
(* the same control (AmvpKat); they differ in the fields they read, in the *)
(* order and under the conditions they read them, in the error a missing   *)
(* or unacceptable field gives, in what init_tc() allocates and decodes,   *)
(* in what output_tc() reads and release_tc() frees, and in what they do   *)
(* when one of these fails.  The modules AmvpKat<family> are tables of     *)
(* these differences, one group of definitions per handler.                *)
(*                                                                         *)
(* A field of a vector set is                                              *)
(*    "absent"  not there (a number then reads as 0, a string as NULL),    *)
(*    "none"    not there, where that is what the handler expects,         *)
(*    "bad"     too long, out of range, or not a value the handler knows,  *)
(*    "odd"     a hex string with an odd number of digits,                 *)
(*    "ok"      acceptable, or one of the named values the handler         *)
(*              tells apart (a test type, a direction, ...).               *)
(***************************************************************************)
EXTENDS Naturals, Sequences, SequencesExt, FiniteSets, TLC

MISSING_ARG      == "AMVP_MISSING_ARG"
INVALID_ARG      == "AMVP_INVALID_ARG"
MALFORMED_JSON   == "AMVP_MALFORMED_JSON"
UNSUPPORTED_OP   == "AMVP_UNSUPPORTED_OP"
TC_MISSING_DATA  == "AMVP_TC_MISSING_DATA"
TC_INVALID_DATA  == "AMVP_TC_INVALID_DATA"
NO_CAP           == "AMVP_NO_CAP"
MALLOC_FAIL      == "AMVP_MALLOC_FAIL"
\* The handler goes on with the value, whatever it is.
TAKEN            == "taken"

Hex  == {"ok", "odd"}
Bool == {"true", "false"}
Null == {"absent", "unset"}

(***************************************************************************)
(* One statement of a handler: read the field f into the local variable v  *)
(* (of the same name unless Into says otherwise), or (input = FALSE)       *)
(* assign a value to v.  `when' is a conjunction of conditions             *)
(* <<variable, whether it must be in, values>>.                            *)
(***************************************************************************)
Field(f, legal, absent, bad) ==
    [f |-> f, v |-> f, input |-> TRUE, when |-> {}, legal |-> legal, absent |-> absent, bad |-> bad,
     keep |-> FALSE, value |-> "ok"]
Assign(v, value) == [Field(v, {value}, TAKEN, TAKEN) EXCEPT !.input = FALSE, !.value = value]
Reject(code)     == [Field("reject", {}, TAKEN, code) EXCEPT !.input = FALSE, !.value = "bad"]
Into(v, step)    == [step EXCEPT !.v = v]
Keep(step)       == [step EXCEPT !.keep = TRUE]     \* an unknown value leaves the variable as it was

Num(f, code)   == Field(f, {"ok"}, code, code)             \* a number that must be in its range
Opt(f)         == Field(f, {"ok"}, TAKEN, TAKEN)           \* a number or flag that is not checked
OptHex(f)      == Field(f, Hex, TAKEN, TAKEN)              \* a string that may be missing
Str(f)         == Field(f, Hex, MISSING_ARG, INVALID_ARG)  \* a string of limited length
Present(f)     == Field(f, Hex, MISSING_ARG, TAKEN)        \* a string of unchecked length
Tag(f, values) == Field(f, values, MISSING_ARG, INVALID_ARG)
Each(Kind(_), fs) == [i \in DOMAIN fs |-> Kind(fs[i])]

Is(v, values)      == {<<v, TRUE, values>>}
IsNot(v, values)   == {<<v, FALSE, values>>}
Given(v)           == IsNot(v, Null)
When(guard, steps) == [i \in DOMAIN steps |-> [steps[i] EXCEPT !.when = @ \cup guard]]
Holds(guard, env)  == \A c \in guard : (env[c[1]] \in c[3]) = c[2]

\* The variables a guard looks at, and the names a sequence of statements assigns.
Reads(guard) == {c[1] : c \in guard}
Names(steps) == {steps[i].v : i \in DOMAIN steps}

\* Defective: a field that is not there is taken.
ReadStepMissing(acc, step, in) ==
    LET seen == [acc EXCEPT !.used = @ \cup (Reads(step.when) \cap acc.stale)]
        v    == IF ~step.input THEN step.value ELSE IF in[step.f] = "none" THEN "absent" ELSE in[step.f]
        code == IF v \in step.legal \cup {"absent"} THEN TAKEN ELSE step.bad
    IN  IF acc.rv # "AMVP_SUCCESS" THEN acc
        ELSE IF ~Holds(step.when, acc.env) THEN seen
        ELSE IF code # TAKEN THEN [seen EXCEPT !.rv = code]
        ELSE IF step.keep /\ v \notin step.legal THEN seen
        ELSE [seen EXCEPT !.env[step.v] = v, !.stale = @ \ {step.v}]

(***************************************************************************)
(* A run through `steps' with the fields `in': the first field that is     *)
(* refused ends it.  `stale' are the variables whose value stems from an   *)
(* earlier group or test; `used' collects the stale ones a condition       *)
(* looked at.                                                              *)
(***************************************************************************)
ReadStep(acc, step, in) ==
    LET seen == [acc EXCEPT !.used = @ \cup (Reads(step.when) \cap acc.stale)]
        v    == IF ~step.input THEN step.value ELSE IF in[step.f] = "none" THEN "absent" ELSE in[step.f]
        code == IF v = "absent" THEN step.absent ELSE IF v \in step.legal THEN TAKEN ELSE step.bad
    IN  IF acc.rv # "AMVP_SUCCESS" THEN acc
        ELSE IF ~Holds(step.when, acc.env) THEN seen
        ELSE IF code # TAKEN THEN [seen EXCEPT !.rv = code]
        ELSE IF step.keep /\ v \notin step.legal THEN seen
        ELSE [seen EXCEPT !.env[step.v] = v, !.stale = @ \ {step.v}]

ReadFields(steps, env, stale, in) ==
    LET read[i \in 0..Len(steps)] ==
            IF i = 0 THEN [rv |-> "AMVP_SUCCESS", env |-> env, stale |-> stale, used |-> {}]
            ELSE ReadStep(read[i - 1], steps[i], in)
    IN  read[Len(steps)]

(***************************************************************************)
(* The JSON objects a handler may be given: every combination of the named *)
(* values, and in each of them at most one field that is missing, bad or   *)
(* of odd length.                                                          *)
(***************************************************************************)
\* The statements that can be reached with the cipher alg.
For(alg, steps) == SelectSeq(steps, LAMBDA s : \A c \in s.when : c[1] = "alg" => (alg \in c[3]) = c[2])
LegalOf(steps, f) == UNION {steps[i].legal : i \in {j \in DOMAIN steps : steps[j].input /\ steps[j].f = f}}
Inputs(steps) ==
    LET fields == {steps[i].f : i \in {j \in DOMAIN steps : steps[j].input}}
        tags   == {f \in fields : ~(LegalOf(steps, f) \subseteq Hex)}
        plain  == [f \in fields \ tags |-> "ok"]
        good   == FoldLeft(LAMBDA S, f : {c @@ (f :> v) : c \in S, v \in LegalOf(steps, f)},
                           {plain}, SetToSeq(tags))
    IN  good \cup UNION {{[c EXCEPT ![f] = v] : v \in {"absent", "bad"} \cup LegalOf(steps, f)} :
                            c \in good, f \in fields}

(***************************************************************************)
(* amvp_hexstr_to_bin(): what decoding the value v of a field gives.       *)
(***************************************************************************)
HexstrToBin(v) == IF v \in Null THEN INVALID_ARG
                  ELSE IF v = "bad" THEN "AMVP_DATA_TOO_LARGE"
                  ELSE IF v = "odd" THEN UNSUPPORTED_OP ELSE "AMVP_SUCCESS"
\* strcpy_s() and strncpy_s() of a text, which need not have an even length.
CopyText(v)    == IF v \in Null \cup {"bad"} THEN INVALID_ARG ELSE "AMVP_SUCCESS"

(***************************************************************************)
(* init_tc() is a sequence of allocations and conversions; Cut is an early *)
(* return of AMVP_SUCCESS, taken when v has the value "other".             *)
(***************************************************************************)
Alloc(b)      == [op |-> "alloc", v |-> "", buf |-> b, when |-> {}]
Decode(v, b)  == [op |-> "decode", v |-> v, buf |-> b, when |-> {}]
Copy(v, b)    == [op |-> "copy", v |-> v, buf |-> b, when |-> {}]
\* The buffer is as long as the string says, rounded down.
Tight(v, b)   == [op |-> "tight", v |-> v, buf |-> b, when |-> {}]
\* A buffer that was filled while the fields were read.
Held(b)       == [op |-> "held", v |-> "", buf |-> b, when |-> {}]
Cut(v)        == [op |-> "cut", v |-> v, buf |-> "", when |-> Is(v, {"other"})]
Allocs(bs)    == [i \in DOMAIN bs |-> Alloc(bs[i])]
New(v, b)     == <<Alloc(b), Decode(v, b)>>
News(vs)      == FlattenSeq([i \in DOMAIN vs |-> New(vs[i], vs[i])])
NewIf(v, b)   == When(Given(v), New(v, b))
DecodeIf(v, b) == When(Given(v), <<Decode(v, b)>>)

\* Defective: an allocation that depends on a field is left out.
InitStepUnconditional(acc, e, env, fails) ==
    LET code == IF fails THEN MALLOC_FAIL
                ELSE IF e.op \in {"alloc", "held"} THEN "AMVP_SUCCESS"
                ELSE IF e.op = "cut" THEN "cut"
                ELSE IF e.op = "copy" THEN CopyText(env[e.v])
                ELSE IF e.op = "tight" /\ env[e.v] = "odd" THEN "AMVP_DATA_TOO_LARGE"
                ELSE HexstrToBin(env[e.v])
    IN  IF acc.rv # "AMVP_SUCCESS" \/ ~Holds(e.when, env) \/ (e.op = "alloc" /\ e.when # {}) THEN acc
        ELSE [rv   |-> code,
              live |-> IF e.op \in {"alloc", "held"} /\ ~fails THEN acc.live \cup {e.buf} ELSE acc.live]

\* The run of init_tc() in which the fail-th statement, an allocation, fails (none if it is 0).
InitStep(acc, e, env, fails) ==
    LET code == IF fails THEN MALLOC_FAIL
                ELSE IF e.op \in {"alloc", "held"} THEN "AMVP_SUCCESS"
                ELSE IF e.op = "cut" THEN "cut"
                ELSE IF e.op = "copy" THEN CopyText(env[e.v])
                ELSE IF e.op = "tight" /\ env[e.v] = "odd" THEN "AMVP_DATA_TOO_LARGE"
                ELSE HexstrToBin(env[e.v])
    IN  IF acc.rv # "AMVP_SUCCESS" \/ ~Holds(e.when, env) THEN acc
        ELSE [rv   |-> code,
              live |-> IF e.op \in {"alloc", "held"} /\ ~fails THEN acc.live \cup {e.buf} ELSE acc.live]
InitRun(init, env, fail) ==
    LET run[i \in 0..Len(init)] ==
            IF i = 0 THEN [rv |-> "AMVP_SUCCESS", live |-> {}]
            ELSE InitStep(run[i - 1], init[i], env, i = fail)
    IN  run[Len(init)]
AllocSteps(init, env) == {i \in DOMAIN init : init[i].op = "alloc" /\ Holds(init[i].when, env)}

\* A buffer that output_tc() converts, always or under a condition.
Buf(b) == [buf |-> b, when |-> {}]
Bufs(S) == {Buf(b) : b \in S}
On(guard, entries) == {[e EXCEPT !.when = @ \cup guard] : e \in entries}
Active(entries, env) == {e \in entries : Holds(e.when, env)}

(***************************************************************************)
(* The usual shape of a handler; a table overrides what differs.           *)
(***************************************************************************)
Usual == [algs        |-> {"any"},                       \* ciphers it serves and tells apart
          refused     |-> {MALFORMED_JSON, UNSUPPORTED_OP},  \* returned before anything is created
          late        |-> {},                            \* ... after the response was set up
          noTgId      |-> MALFORMED_JSON,                \* no "tgId"
          noTests     |-> TAKEN,                         \* no "tests", or none in it
          groupLocals |-> {}, testLocals |-> {},         \* variables declared inside the loops
          early       |-> {},                            \* fields init_tc() refuses before it zeroes stc
          zeroed      |-> FALSE,                         \* stc is zeroed by the handler itself
          divided     |-> {},                            \* the field of which a test has an array
          writesBack  |-> {},                            \* locals that take over what the application leaves in stc
          carried     |-> {},                            \* locals known to outlive their group or test
          mct         |-> {},                            \* when the Monte Carlo loop is run instead
          mctCode     |-> MALLOC_FAIL,                   \* the error of a Monte Carlo loop that cannot be put out
          mctLost     |-> {},                            \* JSON values an error in that loop may lose
          until       |-> FALSE,                         \* the crypto handler decides how often it is called
          tolerates   |-> {},                            \* guards under which a crypto failure is an answer,
          reports     |-> {},                            \* ... and under which output_tc() says it failed
          silent      |-> {},                            \* ... and under which it does not
          ignoresInit |-> FALSE,                         \* output_tc() is called even if init_tc() failed
          unmet       |-> {},                            \* guards under which output_tc() lacks a buffer
          selfFrees   |-> FALSE,                         \* init_tc() frees what release_tc() frees again
          lost        |-> {},                            \* guards of an allocation before init_tc() that loses r_tval
          leaks       |-> {},                            \* JSON values and buffers an error path loses
          onInit      |-> {"release", "free"},           \* cleanup when init_tc() fails,
          onCrypto    |-> {"release", "free"},           \* ... when the crypto handler fails,
          onOutput    |-> {"release", "free"}]           \* ... when output_tc() fails
=============================================================================
