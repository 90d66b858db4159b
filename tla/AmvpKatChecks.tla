--------------------------- MODULE AmvpKatChecks ---------------------------
(***************************************************************************)
(* What can be read off the table of a handler without running it.  A      *)
(* statement of the loops is looked at on its own, with the statements     *)
(* behind it; from that follows what the local variables may hold when     *)
(* init_tc() is called, whatever vector set was read before.  The checks   *)
(* at the end compare this with what init_tc() and output_tc() rely on.    *)
(* AmvpKatProofs shows that a table that passes them has the properties    *)
(* NothingStale and ConversionsHaveBuffers.                                *)
(***************************************************************************)
EXTENDS AmvpKat

\* What the tests of a group change: the variables they assign and those that end with a test.
Fleeting(h) == Names(Handlers[h].test) \cup Facts[h].afterTest
\* Variables that end with the test or the group they were read for.
Fresh(h) == (Facts[h].afterTest \cap Facts[h].perTest) \cup (Facts[h].afterGroup \ Facts[h].perTest)

\* The condition of statement i is not changed by itself, by the statements behind it or by what comes later.
Settled(steps, i, later) ==
    Reads(steps[i].when) \cap (later \cup {steps[j].v : j \in i..Len(steps)}) = {}
\* Statement i has assigned its variable if its condition holds afterwards.
Firm(steps, i, later) == ~steps[i].keep /\ Settled(steps, i, later)
Assigns(steps, x, later, e) ==
    \E i \in DOMAIN steps :
        /\ steps[i].v = x /\ Firm(steps, i, later)
        /\ Reads(steps[i].when) \subseteq DOMAIN e /\ Holds(steps[i].when, e)
\* No statement can assign x: each of them has a condition on a variable in `fixed' that does not hold.
Skipped(steps, x, fixed, e) ==
    \A i \in DOMAIN steps : steps[i].v = x =>
        \E c \in steps[i].when : c[1] \in DOMAIN e \cap fixed /\ (e[c[1]] \in c[3]) # c[2]

\* The values the statement goes on with.
Accepts(step, w) ==
    /\ w # "unset" /\ (~step.input => w = step.value)
    /\ IF w = "absent" THEN step.absent = TAKEN ELSE w \in step.legal \/ step.bad = TAKEN
\* The statements that assign x, and what their conditions look at.
Assigning(steps, x) == {i \in DOMAIN steps : steps[i].v = x}
Looks(steps, x)     == UNION {Reads(steps[i].when) : i \in Assigning(steps, x)}
\* If statement i was the last one to assign its variable, that has a value the statement accepts.
Told(steps, i, later, e) ==
    (/\ Firm(steps, i, later) /\ {steps[i].v} \cup Looks(steps, steps[i].v) \subseteq DOMAIN e
     /\ Holds(steps[i].when, e)
     /\ \A j \in Assigning(steps, steps[i].v) : j > i => Settled(steps, j, later) /\ ~Holds(steps[j].when, e))
    => Accepts(steps[i], e[steps[i].v])

\* The variable of a statement of the group loop is left alone by the tests.
Untouched(h, i, e) ==
    LET x == Handlers[h].group[i].v
    IN  x \notin Facts[h].afterTest /\ Skipped(Handlers[h].test, x, Facts[h].variables \ Fleeting(h), e)
\* What is known of the values e of some of the variables when init_tc() is called: what the statements of the
\* test have let through, and those of the group as far as the tests leave their variables alone.
TestTold(h, e)  == \A i \in DOMAIN Handlers[h].test : Told(Handlers[h].test, i, {}, e)
GroupTold(h, e) == \A i \in DOMAIN Handlers[h].group : Untouched(h, i, e) => Told(Handlers[h].group, i, Fleeting(h), e)
Plausible(h, e) == TestTold(h, e) /\ GroupTold(h, e)

(***************************************************************************)
(* The values a variable may have, as far as the table tells them apart.   *)
(***************************************************************************)
Otherwise == "any other value"
Conditions(h) ==
    LET t == Handlers[h]
    IN  UNION ({t.group[i].when : i \in DOMAIN t.group} \cup {t.test[i].when : i \in DOMAIN t.test}
               \cup {t.init[i].when : i \in DOMAIN t.init} \cup {o.when : o \in t.outputs}
               \cup {o.when : o \in t.early} \cup t.unmet)
Written(steps, x) == UNION {steps[i].legal \cup {steps[i].value} : i \in Assigning(steps, x)}
Words(h, x) ==
    Null \cup (UNION {c[3] : c \in {d \in Conditions(h) : d[1] = x}})
    \cup Written(Handlers[h].group, x) \cup Written(Handlers[h].test, x)
Values(h, x) == IF x = "alg" THEN Handlers[h].algs ELSE Words(h, x) \cup {Otherwise}
Valuations(h, R) ==
    LET D == [x \in R |-> Values(h, x)]
    IN  {e \in [R -> UNION {D[x] : x \in R}] : \A x \in R : e[x] \in D[x]}

\* What the conditions of the statements that assign x look at.
Sources(h, x) == Looks(Handlers[h].group, x) \cup Looks(Handlers[h].test, x)

(***************************************************************************)
(* The checks.                                                             *)
(***************************************************************************)
\* This cipher has no such field.
Foreign(h, x, e) ==
    x \in Facts[h].variables \ {"alg"} /\ \A steps \in {Handlers[h].group, Handlers[h].test} : Skipped(steps, x, {"alg"}, e)
\* Variables that each group assigns, whatever it holds.
Renewing == [h \in DOMAIN Handlers |->
    {x \in Names(Handlers[h].group) :
        \A e \in Valuations(h, Sources(h, x)) : Assigns(Handlers[h].group, x, {}, e) \/ Foreign(h, x, e)}]
\* Variables the statements before statement j have always assigned.
Before(steps, j) == {steps[i].v : i \in {k \in 1..(j - 1) : steps[k].when = {} /\ ~steps[k].keep}}

\* The errors of the statements are errors, they look at variables of the handler, and no value of the table stands
\* for the others.
WellFormed(h) ==
    LET t == Handlers[h]
    IN  /\ \A steps \in {t.group, t.test} : \A i \in DOMAIN steps :
             "AMVP_SUCCESS" \notin {steps[i].absent, steps[i].bad} /\ steps[i].value # "unset"
        /\ {c[1] : c \in Conditions(h)} \subseteq Facts[h].variables
        /\ \A i \in DOMAIN t.init : t.init[i].op \in {"decode", "tight", "copy"} => t.init[i].v \in Facts[h].variables
        /\ \A x \in Facts[h].variables : Otherwise \notin Words(h, x)
\* No field that is looked at has the value of a variable that was never assigned.
Reachable(when, alg) == \A c \in when : c[1] = "alg" => (alg \in c[3]) = c[2]
ObjectsChecked(steps, alg, objects) ==
    \A i \in DOMAIN steps : steps[i].input /\ Reachable(steps[i].when, alg) => \A in \in objects : in[steps[i].f] # "unset"
\* A condition looks at what was assigned for this group, or for this test.
ConditionsChecked(h) ==
    LET t == Handlers[h]
        kept == t.carried \cup Fresh(h) \cup {"alg"}
    IN  /\ \A j \in DOMAIN t.group : Reads(t.group[j].when) \subseteq kept \cup Before(t.group, j)
        /\ \A j \in DOMAIN t.test : Reads(t.test[j].when) \subseteq kept \cup Renewing[h] \cup Before(t.test, j)
\* x was read for this test or its group, or this cipher has no such field.
Current(h, x, e) ==
    LET t == Handlers[h]
    IN  \/ Assigns(t.test, x, {}, e)
        \/ Assigns(t.group, x, Fleeting(h), e)
        \/ Foreign(h, x, e)
CurrentUnder(h, x, guard) ==
    \/ x \in Handlers[h].carried \cup Fresh(h) \cup Renewing[h] \cup {"alg"}
    \/ \A e \in Valuations(h, Reads(guard) \cup Sources(h, x)) :
         Plausible(h, e) /\ Holds(guard, e) => Current(h, x, e)
ArgumentsChecked(h) ==
    LET t == Handlers[h]
    IN  /\ \A x \in t.args \cup (UNION {Reads(t.init[i].when) : i \in DOMAIN t.init})
                    \cup (UNION {Reads(o.when) : o \in t.outputs}) \cup Reads(t.mct) : CurrentUnder(h, x, {})
        /\ \A i \in DOMAIN t.init : t.init[i].op \notin {"alloc", "held"} => CurrentUnder(h, t.init[i].v, t.init[i].when)
\* A field that init_tc() converts is there, or init_tc() has refused it.
Refused(h, x, e) ==
    \E r \in Handlers[h].early : r.v = x /\ Reads(r.when) \subseteq DOMAIN e /\ Holds(r.when, e)
DecodesChecked(h) ==
    LET t == Handlers[h]
    IN  \A i \in DOMAIN t.init : t.init[i].op \in {"decode", "tight", "copy"} =>
            LET x == t.init[i].v
            IN  \/ Given(x) \subseteq t.init[i].when
                \/ \A e \in Valuations(h, {x} \cup Reads(t.init[i].when) \cup Sources(h, x)) :
                     Plausible(h, e) /\ Holds(t.init[i].when, e) => e[x] \notin Null \/ Refused(h, x, e)
\* The statements of init_tc() that leave it early, and those that allocate a buffer.
Cuts(init)      == {i \in DOMAIN init : init[i].op = "cut"}
Makers(init, b) == {i \in DOMAIN init : init[i].op \in {"alloc", "held"} /\ init[i].buf = b}
\* A buffer that output_tc() converts was allocated, or it is listed that it is not.
OutputsChecked(h) ==
    LET t == Handlers[h]
        makers(b) == Makers(t.init, b)
        guards(b) == {t.init[i].when : i \in makers(b) \cup Cuts(t.init)} \cup t.unmet
    IN  \A o \in t.outputs :
            \/ \E i \in makers(o.buf) : t.init[i].when = {} /\ \A j \in Cuts(t.init) : j > i
            \/ \A e \in Valuations(h, Reads(o.when) \cup UNION {Reads(g) : g \in guards(o.buf)}) :
                 Plausible(h, e) /\ Holds(o.when, e) =>
                    \/ \E g \in t.unmet : Holds(g, e)
                    \/ \E i \in makers(o.buf) :
                         Holds(t.init[i].when, e) /\ \A j \in Cuts(t.init) : j < i => ~Holds(t.init[j].when, e)

\* A field of which a test has an array is read by one statement, always and only here, and decides on nothing.
DividedChecked(h) ==
    LET t == Handlers[h]
    IN  /\ t.divided \cap (Names(t.group) \cup {c[1] : c \in Conditions(h)}) = {}
        /\ \A i \in DOMAIN t.test : t.test[i].v \in t.divided =>
             /\ t.test[i].when = {} /\ ~t.test[i].keep /\ t.test[i].input /\ t.test[i].legal \cap Null = {}
             /\ \A j \in DOMAIN t.test : t.test[j].v = t.test[i].v => j = i
        /\ t.writesBack \subseteq t.carried

ASSUME TablesAssumption ==
    \A h \in DOMAIN Handlers :
        /\ \A a \in Handlers[h].algs :
             /\ ObjectsChecked(Handlers[h].group, a, GroupObjects[<<h, a>>])
             /\ ObjectsChecked(Handlers[h].test, a, TestObjects[<<h, a>>])
        /\ WellFormed(h) /\ ConditionsChecked(h) /\ ArgumentsChecked(h) /\ DecodesChecked(h) /\ OutputsChecked(h)
        /\ DividedChecked(h)
=============================================================================
