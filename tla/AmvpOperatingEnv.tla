--------------------------- MODULE AmvpOperatingEnv ---------------------------
(***************************************************************************)
(* The operating environment metadata (amvp_operating_env.c): vendors,     *)
(* modules, dependencies and operating environments that are read from a   *)
(* file or made by the application, the search for each of them in the     *)
(* database of the server, and the validation request that is built from   *)
(* what was found (amvp_build_validation() of amvp_build_register.c).      *)
(*                                                                         *)
(* A resource of the server is known by its URL; the tables give its       *)
(* contents.  `series' and `family' of a dependency stand for the fields   *)
(* that match_dependencies_page() does not clear between two candidates    *)
(* (series, family, version, manufacturer), `desc' for the ones it does    *)
(* (type, description).                                                    *)
(***************************************************************************)
EXTENDS Integers, Sequences, SequencesExt, FiniteSets, FiniteSetsExt

CONSTANTS
    Strings,                    \* the values that the fields may have
    UserIds,                    \* the ids that the application gives to what it makes
    Files,                      \* metadata files
    VendorTable, ModuleTable, DepTable, OeTable,      \* the database of the server: URL -> contents
    LIBAMVP_VENDORS_MAX, LIBAMVP_MODULES_MAX, LIBAMVP_DEPENDENCIES_MAX, LIBAMVP_OES_MAX,
    PageSize, MaxPages,         \* bounds of the pages of one search
    MaxCalls, MaxFaults         \* bounds of a run: calls of the application, requests that fail

ASSUME BoundsAssumption ==
    /\ {LIBAMVP_VENDORS_MAX, LIBAMVP_MODULES_MAX, LIBAMVP_DEPENDENCIES_MAX, LIBAMVP_OES_MAX, PageSize, MaxPages}
         \subseteq Nat \ {0}
    /\ {MaxCalls, MaxFaults} \subseteq Nat
    /\ UserIds \subseteq Nat \ {0}

NULL == "NULL"
NoArray == <<NULL>>             \* a JSON array that is not there
NoString == "no string"         \* an element of a JSON array that is not a string, or has none
Present == Strings \ {NULL}

\* What a metadata file may hold; the kind of an element is how its strings are. An array that is absent has no
\* elements.
Kinds == {"ok", "unnamed", "broken", "blank", "tooLong"}
Person == [name : Strings, emails : Seq(Strings), phones : Seq(Strings)]
VendorElement ==
    [kind : Kinds, emails : Seq(Strings), phones : Seq(Strings), address : Strings, persons : Seq(Person)]
DepElement == [kind : Kinds, name : Strings, desc : Strings, series : Strings, family : Strings]
OeElement == [kind : Kinds, deps : Seq(DepElement)]
Metadata == [vendors : Seq(VendorElement), modules : Seq([kind : Kinds, data : Strings]), oes : Seq(OeElement),
             absent : SUBSET {"modules", "oes"}]

ASSUME FilesAssumption ==
    /\ NULL \in Strings /\ Files \subseteq Metadata
    /\ \A f \in Files : \A a \in f.absent : f[a] = <<>>

\* What the server may have.  "Name is the only required field as per the spec" of a dependency.
VendorEntry ==
    [emails : Seq(Strings), phones : Seq(Strings), addresses : Seq([data : Strings, url : Present]),
     contacts : Seq([name : Strings, emails : Seq(Strings), phones : Seq(Strings), url : Present])]
ModuleEntry == [data : Present, vendorUrl : Present, addressUrl : Present, contactUrls : Seq(Present)]
DepEntry == [name : Present, desc : Strings, series : Strings, family : Strings]

ASSUME DatabaseAssumption ==
    /\ \A u \in DOMAIN VendorTable : u \in Present /\ VendorTable[u] \in VendorEntry
    /\ \A u \in DOMAIN ModuleTable : u \in Present /\ ModuleTable[u] \in ModuleEntry
    /\ \A u \in DOMAIN DepTable : u \in Present /\ DepTable[u] \in DepEntry
    /\ \A u \in DOMAIN OeTable : u \in Present /\ OeTable[u] \in Seq(Present)

VARIABLES
    vendors, modules, deps, oes,    \* ctx->op_env: arrays with their counts
    glb,                            \* the next ids, static: they outlive the ctx
    loaded, fips,                   \* ctx->fips.metadata_loaded; the positions of fips.module and fips.oe, or 0
    pc, rv,
    file, pos, sub,                 \* amvp_oe_ingest_metadata(): the element of the file, and the dependency of it
    what, page, i, pages, tmp_dep, k,   \* a search: its page, the candidate, and the dependency searched for
    bad,                            \* a loading or creating call has failed
    calls, faults

env    == <<vendors, modules, deps, oes>>
search == <<what, page, i, pages, tmp_dep, k>>
parse  == <<file, pos, sub>>
bounds == <<calls, faults>>
vars   == <<env, glb, loaded, fips, pc, rv, parse, search, bad, bounds>>

Empty == [vendors |-> <<>>, modules |-> <<>>, oes |-> <<>>, absent |-> {}]
Cleared == [series |-> NULL, family |-> NULL]

Init ==
    /\ vendors = <<>> /\ modules = <<>> /\ deps = <<>> /\ oes = <<>>
    /\ glb = [vendor |-> 1, module |-> 1, dependency |-> 1, oe |-> 1]
    /\ loaded = FALSE /\ fips = [module |-> 0, oe |-> 0]
    /\ pc = "idle" /\ rv = "none"
    /\ file = Empty /\ pos = 0 /\ sub = 0
    /\ what = "vendor" /\ page = <<>> /\ i = 0 /\ pages = 0 /\ tmp_dep = Cleared /\ k = 0
    /\ bad = FALSE
    /\ calls = 0 /\ faults = 0

Return(code) == pc' = "idle" /\ rv' = code

\* find_vendor(), find_module(), find_dependency(), find_oe(): a position, 0 for NULL.
Find(s, id) == LET S == {n \in DOMAIN s : s[n].id = id} IN IF S = {} THEN 0 ELSE Min(S)
-----------------------------------------------------------------------------
\* The arrays after amvp_oe_*_new(), and the result.  A structure is counted before its name is looked at.
Made(s, result) == [s |-> s, rv |-> result]

VendorNew(id, v) ==
    IF Len(vendors) = LIBAMVP_VENDORS_MAX THEN Made(vendors, "AMVP_UNSUPPORTED_OP")
    ELSE Made(Append(vendors, [id |-> id, url |-> NULL, addressUrl |-> NULL,
                               personUrls |-> [n \in DOMAIN v.persons |-> NULL], data |-> v]),
              IF v.kind = "ok" THEN "AMVP_SUCCESS" ELSE "AMVP_INVALID_ARG")

\* Defective: a module whose vendor is not there is no error.
ModuleNewUnlinked(id, m) ==
    IF Len(modules) = LIBAMVP_MODULES_MAX THEN Made(modules, "AMVP_UNSUPPORTED_OP")
    ELSE IF Find(modules, id) # 0 THEN Made(modules, "AMVP_INVALID_ARG")
    ELSE Made(Append(modules, [id |-> id, vendor |-> Find(vendors, id), data |-> m.data, url |-> NULL]),
              IF m.kind = "ok" THEN "AMVP_SUCCESS" ELSE "AMVP_INVALID_ARG")

\* The vendor of a module is the one that has the id of the module; the module stays when there is none.
ModuleNew(id, m) ==
    IF Len(modules) = LIBAMVP_MODULES_MAX THEN Made(modules, "AMVP_UNSUPPORTED_OP")
    ELSE IF Find(modules, id) # 0 THEN Made(modules, "AMVP_INVALID_ARG")
    ELSE Made(Append(modules, [id |-> id, vendor |-> Find(vendors, id), data |-> m.data, url |-> NULL]),
              IF Find(vendors, id) # 0 /\ m.kind = "ok" THEN "AMVP_SUCCESS" ELSE "AMVP_INVALID_ARG")

\* At the capacity the result is 0, which is AMVP_SUCCESS.
DependencyNew(id) ==
    IF Len(deps) = LIBAMVP_DEPENDENCIES_MAX THEN Made(deps, "AMVP_SUCCESS")
    ELSE IF Find(deps, id) # 0 THEN Made(deps, "AMVP_INVALID_ARG")
    ELSE Made(Append(deps, [id |-> id, url |-> NULL, name |-> NULL, desc |-> NULL, series |-> NULL,
                            family |-> NULL]), "AMVP_SUCCESS")

\* amvp_oe_dependency_set_field() for each field that the element has; the others stay as they are.
Given(new, old) == IF new = NULL THEN old ELSE new
SetFields(dep, d) ==
    [dep EXCEPT !.name = Given(d.name, @), !.desc = Given(d.desc, @), !.series = Given(d.series, @),
                !.family = Given(d.family, @)]

OeNew(id, kind) ==
    IF Len(oes) = LIBAMVP_OES_MAX THEN Made(oes, "AMVP_UNSUPPORTED_OP")
    ELSE IF Find(oes, id) # 0 THEN Made(oes, "AMVP_INVALID_ARG")
    ELSE Made(Append(oes, [id |-> id, url |-> NULL, deps |-> <<>>, status |-> NULL]),
              IF kind = "ok" THEN "AMVP_SUCCESS" ELSE "AMVP_INVALID_ARG")

\* amvp_oe_oe_set_dependency(): the positions o and d were found.
SetDependency(s, o, d) ==
    IF o = 0 \/ d = 0 THEN Made(s, "AMVP_INVALID_ARG")
    ELSE IF Len(s[o].deps) = LIBAMVP_DEPENDENCIES_MAX THEN Made(s, "AMVP_UNSUPPORTED_OP")
    ELSE Made([s EXCEPT ![o].deps = Append(@, d)], "AMVP_SUCCESS")
-----------------------------------------------------------------------------
\* The calls of the application.
Api == pc = "idle" /\ calls < MaxCalls /\ calls' = calls + 1
Called(code) ==
    /\ rv' = code /\ bad' = (bad \/ code # "AMVP_SUCCESS")
    /\ UNCHANGED <<glb, loaded, fips, pc, parse, search, faults>>

CallModuleNew(id) ==
    /\ Api
    /\ LET made == ModuleNew(id, [kind |-> "ok", data |-> NULL]) IN modules' = made.s /\ Called(made.rv)
    /\ UNCHANGED <<vendors, deps, oes>>

\* amvp_oe_module_set_type_version_desc(); the URL that was found for the old values stays.
CallModuleSet(id, data) ==
    /\ Api
    /\ LET m == Find(modules, id)
       IN  IF m = 0 THEN Called("AMVP_INVALID_ARG") /\ UNCHANGED modules
           ELSE Called("AMVP_SUCCESS") /\ modules' = [modules EXCEPT ![m].data = data]
    /\ UNCHANGED <<vendors, deps, oes>>

CallDependencyNew(id) ==
    /\ Api
    /\ LET made == DependencyNew(id) IN deps' = made.s /\ Called(made.rv)
    /\ UNCHANGED <<vendors, modules, oes>>

CallOeNew(id) ==
    /\ Api
    /\ LET made == OeNew(id, "ok") IN oes' = made.s /\ Called(made.rv)
    /\ UNCHANGED <<vendors, modules, deps>>

CallSetDependency(o, d) ==
    /\ Api
    /\ LET made == SetDependency(oes, Find(oes, o), Find(deps, d)) IN oes' = made.s /\ Called(made.rv)
    /\ UNCHANGED <<vendors, modules, deps>>

\* amvp_oe_set_fips_validation_metadata(): the module is set before the operating environment is looked for.
Select(m, o) ==
    /\ pc = "idle"
    /\ LET module == Find(modules, m)
           oe == Find(oes, o)
           noModule == m # 0 /\ module = 0
           refused == ~loaded \/ m + o = 0 \/ noModule
       IN  /\ fips' = [module |-> IF refused \/ m = 0 THEN fips.module ELSE module,
                       oe     |-> IF refused \/ o = 0 \/ oe = 0 THEN fips.oe ELSE oe]
           /\ rv' = IF refused \/ (o # 0 /\ oe = 0) THEN "AMVP_INVALID_ARG" ELSE "AMVP_SUCCESS"
    /\ UNCHANGED <<env, glb, loaded, pc, parse, search, bad, bounds>>

\* amvp_oe_free_operating_env() with the ctx, and a new ctx: the ids go on.
FreeOperatingEnv ==
    /\ Api
    /\ vendors' = <<>> /\ modules' = <<>> /\ deps' = <<>> /\ oes' = <<>>
    /\ loaded' = FALSE /\ fips' = [module |-> 0, oe |-> 0] /\ rv' = "none" /\ bad' = FALSE
    /\ UNCHANGED <<glb, pc, parse, search, faults>>
-----------------------------------------------------------------------------
\* amvp_oe_ingest_metadata(), element by element.
IngestMetadata(f) ==
    /\ Api
    /\ file' = f /\ pos' = 1 /\ sub' = 0 /\ pc' = "vendors"
    /\ UNCHANGED <<env, glb, loaded, fips, rv, search, bad, faults>>

IngestFrame == UNCHANGED <<loaded, fips, search, bounds>>
EndIngest(code) == Return(code) /\ file' = Empty /\ pos' = 0 /\ sub' = 0
Fail(code) == EndIngest(code) /\ bad' = TRUE
\* The result of an element: the first failure is the end of the whole file.
Element(code) ==
    IF code = "AMVP_SUCCESS" THEN pos' = pos + 1 /\ UNCHANGED <<pc, rv, file, sub, bad>>
    ELSE Fail(code)

ParseVendor ==
    /\ pc = "vendors" /\ pos <= Len(file.vendors)
    /\ glb' = [glb EXCEPT !.vendor = @ + 1]
    /\ LET v == file.vendors[pos]
           made == IF v.kind = "unnamed" THEN Made(vendors, "AMVP_INVALID_ARG") ELSE VendorNew(glb.vendor, v)
       IN  vendors' = made.s /\ Element(made.rv)
    /\ UNCHANGED <<modules, deps, oes>> /\ IngestFrame

ParseModule ==
    /\ pc = "modules" /\ pos <= Len(file.modules)
    /\ glb' = [glb EXCEPT !.module = @ + 1]
    /\ LET m == file.modules[pos]
           made == IF m.kind = "unnamed" THEN Made(modules, "AMVP_INVALID_ARG") ELSE ModuleNew(glb.module, m)
       IN  modules' = made.s /\ Element(made.rv)
    /\ UNCHANGED <<vendors, deps, oes>> /\ IngestFrame

\* The operating environment is made, then its dependencies, of which there must be one.
ParseOe ==
    /\ pc = "oes" /\ sub = 0 /\ pos <= Len(file.oes)
    /\ glb' = [glb EXCEPT !.oe = @ + 1]
    /\ LET o == file.oes[pos]
           made == IF o.kind = "unnamed" THEN Made(oes, "AMVP_INVALID_ARG") ELSE OeNew(glb.oe, o.kind)
       IN  /\ oes' = made.s
           /\ \/ made.rv # "AMVP_SUCCESS" /\ Fail(made.rv)
              \/ made.rv = "AMVP_SUCCESS" /\ o.deps = <<>> /\ Fail("AMVP_JSON_ERR")
              \/ made.rv = "AMVP_SUCCESS" /\ o.deps # <<>> /\ sub' = 1 /\ UNCHANGED <<pc, rv, file, pos, bad>>
    /\ UNCHANGED <<vendors, modules, deps>> /\ IngestFrame

\* Defective: the result of amvp_oe_dependency_new() is trusted.
ParseDependencyUnchecked ==
    /\ pc = "oes" /\ sub > 0
    /\ LET d == file.oes[pos].deps[sub]
           last == sub = Len(file.oes[pos].deps)
           made == DependencyNew(glb.dependency)
       IN  /\ deps' = made.s
           /\ oes' = SetDependency(oes, Find(oes, glb.oe - 1), Find(made.s, glb.dependency)).s
           /\ glb' = [glb EXCEPT !.dependency = @ + 1]
           /\ sub' = (IF last THEN 0 ELSE sub + 1) /\ pos' = IF last THEN pos + 1 ELSE pos
           /\ UNCHANGED <<pc, rv, file, bad>>
    /\ UNCHANGED <<vendors, modules>> /\ IngestFrame

\* match_dependency() returns the id of the dependency it was given, which is 0: each one is made anew, or, at the
\* capacity, the one that has the id already is taken for it.  The id is used up only when all the fields could be
\* set, and the result of amvp_oe_oe_set_dependency() is not looked at.
ParseDependency ==
    /\ pc = "oes" /\ sub > 0
    /\ LET d == file.oes[pos].deps[sub]
           last == sub = Len(file.oes[pos].deps)
           made == DependencyNew(glb.dependency)
           found == Find(made.s, glb.dependency)
           failed == made.rv # "AMVP_SUCCESS" \/ found = 0
       IN  \/ d.kind = "blank" /\ Fail("AMVP_JSON_ERR") /\ UNCHANGED <<deps, oes, glb>>
           \/ /\ d.kind # "blank"
              /\ deps' = IF failed THEN made.s ELSE [made.s EXCEPT ![found] = SetFields(@, d)]
              /\ \/ /\ failed \/ d.kind = "tooLong"
                    /\ Fail("AMVP_INVALID_ARG") /\ UNCHANGED <<oes, glb>>
                 \/ /\ ~failed /\ d.kind = "ok"
                    /\ oes' = SetDependency(oes, Find(oes, glb.oe - 1), found).s
                    /\ glb' = [glb EXCEPT !.dependency = @ + 1]
                    /\ sub' = (IF last THEN 0 ELSE sub + 1) /\ pos' = IF last THEN pos + 1 ELSE pos
                    /\ UNCHANGED <<pc, rv, file, bad>>
    /\ UNCHANGED <<vendors, modules>> /\ IngestFrame

\* The end of an array: there must be a vendor; the arrays of modules and of operating environments may be empty, but
\* not absent.
EndOfArray ==
    /\ sub = 0
    /\ \/ pc = "vendors" /\ file.vendors = <<>> /\ Fail("AMVP_MALFORMED_JSON") /\ UNCHANGED loaded
       \/ pc = "vendors" /\ pos > Len(file.vendors) /\ file.vendors # <<>> /\ pc' = "modules" /\ pos' = 1
          /\ UNCHANGED <<rv, bad, loaded, file, sub>>
       \/ pc \in {"modules", "oes"} \cap file.absent /\ Fail("AMVP_JSON_ERR") /\ UNCHANGED loaded
       \/ pc = "modules" /\ pc \notin file.absent /\ pos > Len(file.modules) /\ pc' = "oes" /\ pos' = 1
          /\ UNCHANGED <<rv, bad, loaded, file, sub>>
       \/ pc = "oes" /\ pc \notin file.absent /\ pos > Len(file.oes) /\ EndIngest("AMVP_SUCCESS")
          /\ loaded' = TRUE /\ UNCHANGED bad
    /\ UNCHANGED <<env, glb, fips, search, bounds>>
-----------------------------------------------------------------------------
\* amvp_verify_fips_validation_metadata(): a search each for the vendor, the module, the dependencies and the OE.
Mod == modules[fips.module]
Ven == vendors[Mod.vendor]
Oe == oes[fips.oe]
Dep == deps[Oe.deps[k]]
Sought == CASE what = "vendor" -> Ven.url [] what = "module" -> Mod.url
            [] what = "dependency" -> Dep.url [] what = "oe" -> Oe.url

VerifyFrame == UNCHANGED <<glb, loaded, fips, parse, bad, calls>>
Seek(w) == what' = w /\ pc' = "seek"
Stop(code) ==
    Return(code) /\ what' = "vendor" /\ page' = <<>> /\ i' = 0 /\ pages' = 0 /\ tmp_dep' = Cleared /\ k' = 0

\* The vendor of the module is read for the message about its missing argument, also when there is none.
Verify ==
    /\ Api
    /\ \/ 0 \in {fips.module, fips.oe} /\ Return("AMVP_UNSUPPORTED_OP") /\ UNCHANGED what
       \/ 0 \notin {fips.module, fips.oe} /\ Mod.vendor = 0 /\ pc' = "crashed" /\ UNCHANGED <<rv, what>>
       \/ 0 \notin {fips.module, fips.oe} /\ Mod.vendor # 0 /\ Seek("vendor") /\ UNCHANGED rv
    /\ UNCHANGED <<env, glb, loaded, fips, parse, page, i, pages, tmp_dep, k, bad, faults>>

\* query_vendor(), query_module(), query_dependency(), query_oe(): "already been verified as existing".
Query ==
    /\ pc = "seek"
    /\ pc' = IF Sought = NULL THEN "get" ELSE "sought"
    /\ pages' = 0
    /\ UNCHANGED <<env, rv, what, page, i, tmp_dep, k, faults>> /\ VerifyFrame

\* What the server has for the parameters of the query (external).
Offered ==
    CASE what = "vendor" ->
           {u \in DOMAIN VendorTable : Ven.data.emails # <<>> => Ven.data.emails[1] \in ToSet(VendorTable[u].emails)}
      [] what = "module" ->
           {u \in DOMAIN ModuleTable : ModuleTable[u].vendorUrl = Ven.url /\ Mod.data \in {NULL, ModuleTable[u].data}}
      [] what = "dependency" ->
           {u \in DOMAIN DepTable : Dep.name \in {NULL, DepTable[u].name} /\ Dep.desc \in {NULL, DepTable[u].desc}}
      [] what = "oe" -> DOMAIN OeTable

Pages == {s \in UNION {[1..n -> Offered] : n \in 0..PageSize} : Cardinality(ToSet(s)) = Len(s)}

GetPage ==
    /\ pc = "get"
    /\ \/ faults < MaxFaults /\ faults' = faults + 1
          /\ \E code \in {"AMVP_TRANSPORT_FAIL", "AMVP_JSON_ERR"} : Stop(code)
       \/ page' \in Pages /\ i' = 1 /\ pages' = pages + 1 /\ pc' = "match"
          /\ UNCHANGED <<rv, what, tmp_dep, k, faults>>
    /\ UNCHANGED env /\ VerifyFrame

\* Defective: the last candidates of a page are compared along with the next page.
NextPageUncleared ==
    /\ pc = "match" /\ i > Len(page)
    /\ \/ pages < MaxPages /\ pc' = "get"
       \/ pc' = "sought"
    /\ page' = <<>> /\ i' = 0
    /\ UNCHANGED <<env, rv, what, pages, tmp_dep, k, faults>> /\ VerifyFrame

\* No candidate of the page has matched: the next page, if there is a link to one.  tmp_dep is
\* local to match_dependencies_page().
NextPage ==
    /\ pc = "match" /\ i > Len(page)
    /\ \/ pages < MaxPages /\ pc' = "get"
       \/ pc' = "sought"
    /\ page' = <<>> /\ i' = 0 /\ tmp_dep' = Cleared
    /\ UNCHANGED <<env, rv, what, pages, k, faults>> /\ VerifyFrame

Candidate(w) == pc = "match" /\ what = w /\ i <= Len(page)
NextCandidate == i' = i + 1 /\ pc' = "match"
MatchFrame == UNCHANGED <<rv, what, pages, k, faults>> /\ VerifyFrame
Matched == pc' = "sought" /\ page' = <<>> /\ i' = 0 /\ tmp_dep' = Cleared
-----------------------------------------------------------------------------
\* An element of the candidate that has no string is passed over, and so counts as equal.
Agrees(list, candidates) ==
    /\ Len(list) = Len(candidates)
    /\ \A n \in 1..Len(list) : candidates[n] \in {NoString, list[n]}

\* compare_emails() counts the elements by the successor of the first: with a second one it does not end.
CompareEmails(list, candidates) ==
    IF list = <<>> THEN "error" ELSE IF Len(list) > 1 THEN "hangs"
    ELSE IF Agrees(list, candidates) THEN "equal" ELSE "differs"

\* Phone numbers are compared when the server has some.
ComparePhoneNumbers(list, candidates) ==
    IF candidates = NoArray \/ Agrees(list, candidates) THEN "equal" ELSE IF list = <<>> THEN "error" ELSE "differs"

Compare(a, b) ==
    IF CompareEmails(a.emails, b.emails) = "equal" THEN ComparePhoneNumbers(a.phones, b.phones)
    ELSE CompareEmails(a.emails, b.emails)

\* compare_vendor_address() takes the first of the addresses that has all the lines of the vendor's and no others.
AddressMatches(address, candidates) == {n \in DOMAIN candidates : candidates[n].data = address}

\* Defective: a URL of the address that is there is not overwritten.
MatchVendorKeepingAddress ==
    /\ Candidate("vendor")
    /\ LET e == VendorTable[page[i]]
           compared == Compare(Ven.data, e)
           A == AddressMatches(Ven.data.address, e.addresses)
       IN  \/ /\ compared = "differs" \/ (compared = "equal" /\ A = {})
              /\ NextCandidate /\ UNCHANGED <<vendors, rv>>
           \/ /\ compared = "equal" /\ A # {}
              /\ vendors' = IF Ven.addressUrl # NULL THEN vendors
                            ELSE [vendors EXCEPT ![Mod.vendor].addressUrl = e.addresses[Min(A)].url]
              /\ pc' = "contacts" /\ UNCHANGED <<rv, i>>
    /\ UNCHANGED <<modules, deps, oes, page, what, pages, tmp_dep, k, faults>> /\ VerifyFrame

\* match_vendors_page() up to the contacts: the URL of the address is kept, whatever the contacts will say.
MatchVendor ==
    /\ Candidate("vendor")
    /\ LET e == VendorTable[page[i]]
           compared == Compare(Ven.data, e)
           A == AddressMatches(Ven.data.address, e.addresses)
       IN  \/ compared = "hangs" /\ pc' = "hung" /\ UNCHANGED <<vendors, rv, search>>
           \/ compared = "error" /\ Stop("AMVP_INVALID_ARG") /\ UNCHANGED vendors
           \/ /\ compared = "differs" \/ (compared = "equal" /\ A = {})
              /\ NextCandidate /\ UNCHANGED <<vendors, rv, what, page, pages, tmp_dep, k>>
           \/ /\ compared = "equal" /\ A # {}
              /\ vendors' = [vendors EXCEPT ![Mod.vendor].addressUrl = e.addresses[Min(A)].url]
              /\ pc' = "contacts" /\ UNCHANGED <<rv, search>>
    /\ UNCHANGED <<modules, deps, oes, faults>> /\ VerifyFrame

ComparePerson(p, c) == IF p.name = c.name THEN Compare(p, c) ELSE "differs"
\* The first contact that does not differ: a match, an error or a comparison that does not end.
ContactFor(p, contacts) ==
    LET S == {n \in DOMAIN contacts : ComparePerson(p, contacts[n]) # "differs"}
    IN  IF S = {} THEN [outcome |-> "differs", url |-> NULL]
        ELSE [outcome |-> ComparePerson(p, contacts[Min(S)]), url |-> contacts[Min(S)].url]

\* query_vendor_contacts(): the URLs of the persons up to the first one without a match are kept.  Its result is
\* dropped, so that an error makes the vendor one that does not match.
QueryContacts ==
    /\ pc = "contacts"
    /\ LET persons == Ven.data.persons
           Contact(n) == ContactFor(persons[n], VendorTable[page[i]].contacts)
           prefix == {n \in DOMAIN persons : \A j \in 1..n : Contact(j).outcome = "equal"}
           urls == [n \in DOMAIN persons |-> IF n \in prefix THEN Contact(n).url ELSE Ven.personUrls[n]]
           all == prefix = DOMAIN persons
           stop == Cardinality(prefix) + 1
       IN  \/ faults < MaxFaults /\ faults' = faults + 1 /\ NextCandidate
              /\ UNCHANGED <<vendors, page, tmp_dep>>
           \/ /\ ~all /\ Contact(stop).outcome = "hangs" /\ pc' = "hung"
              /\ UNCHANGED <<vendors, page, i, tmp_dep, faults>>
           \/ /\ ~all /\ Contact(stop).outcome # "hangs" /\ NextCandidate
              /\ vendors' = [vendors EXCEPT ![Mod.vendor].personUrls = urls]
              /\ UNCHANGED <<page, tmp_dep, faults>>
           \/ /\ all /\ Matched
              /\ vendors' = [vendors EXCEPT ![Mod.vendor].personUrls = urls, ![Mod.vendor].url = page[i]]
              /\ UNCHANGED faults
    /\ UNCHANGED <<modules, deps, oes, rv, what, pages, k>> /\ VerifyFrame
-----------------------------------------------------------------------------
\* Defective: the address is not compared.
SameModuleAnywhere(e, n) ==
    /\ Mod.data # NULL /\ e.data = Mod.data
    /\ e.vendorUrl = Ven.url
    /\ Len(e.contactUrls) = Len(Ven.personUrls)
    /\ \A p \in DOMAIN Ven.personUrls : n <= Len(e.contactUrls) /\ e.contactUrls[n] = Ven.personUrls[p]

\* match_modules_page(): each person is compared with the contact at the position of the candidate in its page.
SameModule(e, n) ==
    /\ Mod.data # NULL /\ e.data = Mod.data
    /\ e.vendorUrl = Ven.url /\ e.addressUrl = Ven.addressUrl
    /\ Len(e.contactUrls) = Len(Ven.personUrls)
    /\ \A p \in DOMAIN Ven.personUrls : n <= Len(e.contactUrls) /\ e.contactUrls[n] = Ven.personUrls[p]

MatchModule ==
    /\ Candidate("module")
    /\ \/ SameModule(ModuleTable[page[i]], i) /\ Matched /\ modules' = [modules EXCEPT ![fips.module].url = page[i]]
       \/ ~SameModule(ModuleTable[page[i]], i) /\ NextCandidate /\ UNCHANGED <<modules, page, tmp_dep>>
    /\ UNCHANGED <<vendors, deps, oes>> /\ MatchFrame

\* match_dependencies_page(): a field that the candidate does not have, of the ones that are not cleared, is that of
\* an earlier candidate.  compare_dependencies() looks for a name and does not compare it.
Filled(e) == [f \in {"series", "family"} |-> IF e[f] # NULL THEN e[f] ELSE tmp_dep[f]]
SameDependency(e) ==
    /\ NULL \notin {Dep.name, e.name}
    /\ e.desc = Dep.desc
    /\ \A f \in {"series", "family"} : Filled(e)[f] = Dep[f]

MatchDependency ==
    /\ Candidate("dependency")
    /\ LET e == DepTable[page[i]]
       IN  \/ SameDependency(e) /\ Matched /\ deps' = [deps EXCEPT ![Oe.deps[k]].url = page[i]]
           \/ ~SameDependency(e) /\ NextCandidate /\ tmp_dep' = Filled(e) /\ UNCHANGED <<deps, page>>
    /\ UNCHANGED <<vendors, modules, oes>> /\ MatchFrame

DepUrls(oe) == [n \in DOMAIN oe.deps |-> deps[oe.deps[n]].url]
\* match_oes_page(): the URLs of the dependencies, in their order; one that is not a string is passed over.
MatchOe ==
    /\ Candidate("oe")
    /\ \/ Agrees(DepUrls(Oe), OeTable[page[i]]) /\ Matched /\ oes' = [oes EXCEPT ![fips.oe].url = page[i]]
       \/ ~Agrees(DepUrls(Oe), OeTable[page[i]]) /\ NextCandidate /\ UNCHANGED <<oes, page, tmp_dep>>
    /\ UNCHANGED <<vendors, modules, deps>> /\ MatchFrame
-----------------------------------------------------------------------------
\* A vendor that the server does not have is an error; a module or a dependency will be created.
VendorSought ==
    /\ pc = "sought" /\ what = "vendor"
    /\ \/ Ven.url = NULL /\ Stop("AMVP_INVALID_ARG")
       \/ Ven.url # NULL /\ Seek("module") /\ UNCHANGED <<rv, page, i, pages, tmp_dep, k>>
    /\ UNCHANGED <<env, faults>> /\ VerifyFrame

Status(s) == oes' = [oes EXCEPT ![fips.oe].status = s]
ModuleSought ==
    /\ pc = "sought" /\ what = "module"
    /\ Status("COMPLETE") /\ k' = 1 /\ pc' = "dependencies" /\ what' = "dependency"
    /\ UNCHANGED <<vendors, modules, deps, rv, page, i, pages, tmp_dep, faults>> /\ VerifyFrame

\* Defective: the loop does not advance.
DependencySoughtAgain ==
    /\ pc = "sought" /\ what = "dependency"
    /\ IF Dep.url = NULL THEN Status("PARTIAL") ELSE UNCHANGED oes
    /\ pc' = "dependencies"
    /\ UNCHANGED <<vendors, modules, deps, rv, what, page, i, pages, tmp_dep, k, faults>> /\ VerifyFrame

DependencySought ==
    /\ pc = "sought" /\ what = "dependency"
    /\ IF Dep.url = NULL THEN Status("PARTIAL") ELSE UNCHANGED oes
    /\ k' = k + 1 /\ pc' = "dependencies"
    /\ UNCHANGED <<vendors, modules, deps, rv, what, page, i, pages, tmp_dep, faults>> /\ VerifyFrame

\* Defective: a set of dependencies of which none exists is taken for a partial one that has been handled.
DependenciesComplete ==
    /\ pc = "dependencies"
    /\ \/ k <= Len(Oe.deps) /\ Seek("dependency") /\ UNCHANGED <<oes, k>>
       \/ /\ k > Len(Oe.deps)
          /\ Status("COMPLETE") /\ k' = 0
          /\ IF NULL \in ToSet(DepUrls(Oe)) THEN pc' = "verified" /\ UNCHANGED what ELSE Seek("oe")
    /\ UNCHANGED <<vendors, modules, deps, rv, page, i, pages, tmp_dep, faults>> /\ VerifyFrame

\* The loop of verify_fips_oe_dependencies() and its end: the OE is searched for only if it has all its dependencies.
Dependencies ==
    /\ pc = "dependencies"
    /\ \/ k <= Len(Oe.deps) /\ Seek("dependency") /\ UNCHANGED <<oes, k>>
       \/ /\ k > Len(Oe.deps)
          /\ IF ToSet(DepUrls(Oe)) \subseteq {NULL} THEN Status("INCOMPLETE") ELSE UNCHANGED oes
          /\ k' = 0
          /\ IF NULL \in ToSet(DepUrls(Oe)) THEN pc' = "verified" /\ UNCHANGED what ELSE Seek("oe")
    /\ UNCHANGED <<vendors, modules, deps, rv, page, i, pages, tmp_dep, faults>> /\ VerifyFrame

OeSought ==
    /\ pc = "sought" /\ what = "oe" /\ pc' = "verified"
    /\ UNCHANGED <<env, rv, what, page, i, pages, tmp_dep, k, faults>> /\ VerifyFrame

\* amvp_build_validation(): the request of a session that has passed.  The arrays of the request are given as the
\* positions of what is put into them, in order; a URL that is NULL is not appended.
Validation ==
    LET Having(url) == {q \in DOMAIN Oe.deps : (deps[Oe.deps[q]].url # NULL) = url}
    IN  [oeUrl        |-> Oe.url,
         depUrls      |-> IF Oe.url = NULL /\ Oe.status \in {"COMPLETE", "PARTIAL"} THEN Having(TRUE) ELSE {},
         dependencies |-> IF Oe.url = NULL /\ Oe.status \in {"INCOMPLETE", "PARTIAL"} THEN Having(FALSE) ELSE {},
         moduleUrl    |-> Mod.url,
         vendorUrl    |-> IF Mod.url = NULL THEN Ven.url ELSE NULL,
         addressUrl   |-> IF Mod.url = NULL THEN Ven.addressUrl ELSE NULL,
         contactUrls  |-> IF Mod.url = NULL THEN {p \in DOMAIN Ven.personUrls : Ven.personUrls[p] # NULL} ELSE {}]

\* The call goes on with its session, and ends with the request or without it.
Verified ==
    /\ pc = "verified" /\ Stop("AMVP_SUCCESS")
    /\ UNCHANGED <<env, faults>> /\ VerifyFrame
-----------------------------------------------------------------------------
Step ==
    \/ ParseVendor \/ ParseModule \/ ParseOe \/ ParseDependency \/ EndOfArray
    \/ Query \/ GetPage \/ NextPage
    \/ MatchVendor \/ QueryContacts \/ MatchModule \/ MatchDependency \/ MatchOe
    \/ VendorSought \/ ModuleSought \/ DependencySought \/ Dependencies \/ OeSought
    \/ Verified

Next ==
    \/ \E id \in UserIds : CallModuleNew(id) \/ CallDependencyNew(id) \/ CallOeNew(id)
    \/ \E id \in UserIds, data \in {ModuleTable[u].data : u \in DOMAIN ModuleTable} :
         CallModuleSet(id, data)
    \/ \E o, d \in UserIds : CallSetDependency(o, d)
    \/ \E m, o \in UserIds \cup {0} : Select(m, o)
    \/ FreeOperatingEnv
    \/ \E f \in Files : IngestMetadata(f)
    \/ Verify
    \/ Step

\* A call runs to its end; the application need not make another one.
Spec == Init /\ [][Next]_vars /\ WF_vars(Step)
-----------------------------------------------------------------------------
\* The URLs of a vendor, of its address and of its contacts are those of one and the same vendor of the server,
\* although the address and some of the contacts of a vendor that does not match in the end are kept, and the
\* search is repeated after it failed. (An email address of a contact that is not a string says nothing.)
VendorUrlsTogether ==
    \A v \in ToSet(vendors) : v.url # NULL =>
        LET e == VendorTable[v.url]
        IN  /\ \E a \in ToSet(e.addresses) : a = [data |-> v.data.address, url |-> v.addressUrl]
            /\ \A n \in DOMAIN v.personUrls : \E c \in ToSet(e.contacts) :
                 c.url = v.personUrls[n] /\ c.name = v.data.persons[n].name
                 /\ Agrees(v.data.persons[n].emails, c.emails)

\* What a URL was stored for is what the server has under it: the module is one of the verified vendor, address and
\* contacts; the operating environment has the dependencies that the OE of the ctx has (the ones that were added
\* after the search follow them, and a URL of the server's that is not a string says nothing); a dependency has nothing
\* that contradicts the one of the ctx, unless a load has failed: at the capacity the next one may write over a
\* dependency that it left behind and that was searched for.
FoundIsEqual ==
    /\ \A m \in ToSet(modules) : m.url # NULL =>
         LET e == ModuleTable[m.url] v == vendors[m.vendor]
         IN  e.vendorUrl = v.url /\ e.addressUrl = v.addressUrl /\ ToSet(v.personUrls) \subseteq ToSet(e.contactUrls)
    /\ \A o \in ToSet(oes) : o.url # NULL =>
         \E n \in 0..Len(o.deps) : Agrees(SubSeq(DepUrls(o), 1, n), OeTable[o.url])
    /\ ~bad => \A d \in ToSet(deps) : d.url # NULL =>
         LET e == DepTable[d.url]
         IN  e.name = d.name /\ e.desc = d.desc /\ \A f \in {"series", "family"} : e[f] \in {NULL, d[f]}

\* The URLs that a verification has stored belong together and to what they were stored for.
UrlsBelong == VendorUrlsTogether /\ FoundIsEqual

Exact(d, e) == \A f \in {"name", "desc", "series", "family"} : d[f] = e[f]

\* A resource that the server already has is not created again: no page is left behind whose first candidate is the
\* dependency, the module of a vendor with one contact, or, at any place of the page, the operating environment
\* searched for.
FirstIsFound ==
    pc = "match" /\ i > Len(page) /\ page # <<>> =>
        CASE what = "dependency" -> ~Exact(Dep, DepTable[page[1]])
          [] what = "module" -> [data |-> Mod.data, vendorUrl |-> Ven.url, addressUrl |-> Ven.addressUrl,
                                 contactUrls |-> Ven.personUrls] # ModuleTable[page[1]] \/ Len(Ven.personUrls) > 1
          [] what = "oe" -> \A n \in DOMAIN page : OeTable[page[n]] # DepUrls(Oe)
          [] OTHER -> TRUE

\* The validation request is whole: every dependency of an OE that is to be created is in it once, by its URL or by
\* its description, and a module that is to be created has the URLs of its vendor, its address and all contacts.
RequestIsWhole ==
    pc = "verified" =>
        /\ Validation.oeUrl = NULL =>
             /\ Validation.depUrls \cap Validation.dependencies = {}
             /\ Validation.depUrls \cup Validation.dependencies = DOMAIN Oe.deps
        /\ Validation.moduleUrl = NULL =>
             /\ NULL \notin {Validation.vendorUrl, Validation.addressUrl}
             /\ Validation.contactUrls = DOMAIN Ven.data.persons

\* The end of a file that is ingested with success: its operating environments are the last ones of the ctx.
IngestLoads ==
    ~bad /\ pc = "oes" /\ pc' = "idle" /\ rv' = "AMVP_SUCCESS" =>
        \A n \in DOMAIN file.oes :
            LET o == oes[Len(oes) - Len(file.oes) + n]
            IN  Len(o.deps) = Len(file.oes[n].deps)
                /\ \A q \in DOMAIN o.deps : Exact(deps[o.deps[q]], file.oes[n].deps[q])

\* A file is ingested with success only when each of its operating environments has all its dependencies, also at
\* the capacity, where amvp_oe_dependency_new() returns success and makes none.  After a load that failed this may
\* not be so: at the capacity a dependency that it left behind keeps the fields that the new element does not have.
IngestSuccessMeansLoaded == [][IngestLoads]_vars

\* Verification crashes over a module without a vendor only in a ctx in which a load or a call has failed before.
CrashOnlyAfterFailure == pc = "crashed" => bad

\* Every call returns, whatever the server has, as long as its pages end and no vendor and no contact has a second
\* email address.
VerifyReturns ==
    pc # "idle" ~>
        \/ pc \in {"idle", "crashed"}
        \/ pc = "hung" /\ \E v \in ToSet(vendors) : \E p \in ToSet(v.data.persons) \cup {v.data} : Len(p.emails) > 1

\* "if one has a value but the other does not, they are not equal" (amvp_operating_env.c): a dependency that was
\* found on the server is equal to the one of the ctx.
DependencyIsEqual == \A d \in ToSet(deps) : d.url # NULL => Exact(d, DepTable[d.url])
=============================================================================
