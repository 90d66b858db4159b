------------------------ MODULE AmvpOperatingEnvProofs ------------------------
(***************************************************************************)
(* Proofs about AmvpOperatingEnv, for any files, any database of the       *)
(* server, any capacities and any number of calls and faults.              *)
(***************************************************************************)
EXTENDS AmvpOperatingEnv, WellFoundedInduction, FiniteSetTheorems, TLAPS

VendorRec == [id : Nat, url : Strings, addressUrl : Strings, personUrls : Seq(Strings), data : VendorElement]
ModuleRec == [id : Nat, vendor : Nat, data : Strings, url : Strings]
DepRec    == [id : Nat, url : Strings, name : Strings, desc : Strings, series : Strings, family : Strings]
OeRec     == [id : Nat, url : Strings, deps : Seq(Nat), status : {NULL, "COMPLETE", "PARTIAL", "INCOMPLETE"}]

Verifying == {"seek", "get", "match", "contacts", "sought", "dependencies", "verified"}

(* The types, in groups: the arrays, the counters, a load, a search.       *)
VendorTypes ==
    /\ vendors \in Seq(VendorRec)
    /\ \A n \in 1..Len(vendors) : DOMAIN vendors[n].personUrls = DOMAIN vendors[n].data.persons
ModuleTypes ==
    modules \in Seq(ModuleRec) /\ \A n \in 1..Len(modules) : modules[n].vendor <= Len(vendors)
DepTypes == deps \in Seq(DepRec) /\ Len(deps) <= LIBAMVP_DEPENDENCIES_MAX
OeTypes ==
    /\ oes \in Seq(OeRec)
    /\ \A n \in 1..Len(oes) : \A q \in 1..Len(oes[n].deps) : oes[n].deps[q] \in 1..Len(deps)
FipsTypes == fips \in [module : 0..Len(modules), oe : 0..Len(oes)]
GlbTypes == glb \in [vendor : Nat, module : Nat, dependency : Nat, oe : Nat]
ParseTypes ==
    /\ file \in Metadata /\ pos \in Nat /\ sub \in Nat
    /\ pc \in {"vendors", "modules"} => pos >= 1 /\ sub = 0
    /\ pc = "oes" => pos >= 1 /\ (sub > 0 => pos <= Len(file.oes) /\ sub <= Len(file.oes[pos].deps))
SearchTypes ==
    /\ what \in {"vendor", "module", "dependency", "oe"}
    /\ page \in Seq(Present) /\ i \in Nat /\ pages \in Nat /\ k \in Nat
    /\ tmp_dep \in [series : Strings, family : Strings]
FlowTypes == pc \in {"idle", "vendors", "modules", "oes", "hung", "crashed"} \cup Verifying /\ bad \in BOOLEAN

Types == /\ VendorTypes /\ ModuleTypes /\ DepTypes /\ OeTypes /\ FipsTypes /\ GlbTypes /\ ParseTypes
         /\ SearchTypes /\ FlowTypes

(* Only a call that failed leaves a module without a vendor behind.        *)
CrashInv ==
    /\ ~bad => \A n \in 1..Len(modules) : modules[n].vendor # 0
    /\ pc = "crashed" => bad

(* A search has something to search for.                                   *)
VerifyInv ==
    pc \in Verifying =>
        /\ fips.module # 0 /\ fips.oe # 0 /\ Mod.vendor # 0
        /\ pc = "dependencies" => k >= 1 /\ what = "dependency"
        /\ pc = "contacts" => what = "vendor"
        /\ what = "dependency" /\ pc \in {"seek", "get", "match", "sought"} => k \in 1..Len(Oe.deps)
        /\ what # "vendor" \/ pc \in {"dependencies", "verified"} => Ven.url # NULL

(* What has a URL is not searched for again; the candidates are what the   *)
(* server has for the query.                                               *)
PageInv ==
    /\ pc \in {"get", "match", "contacts"} => Sought = NULL
    /\ pc \in {"match", "contacts"} => i >= 1 /\ \A n \in 1..Len(page) : page[n] \in Offered
    /\ pc = "match" => i <= Len(page) + 1
    /\ pc = "contacts" =>
         /\ i <= Len(page)
         /\ \E n \in 1..Len(VendorTable[page[i]].addresses) :
              /\ VendorTable[page[i]].addresses[n].data = Ven.data.address
              /\ VendorTable[page[i]].addresses[n].url = Ven.addressUrl

(* The URLs of a vendor are those of one vendor of the server.             *)
VendorOk(v) ==
    v.url # NULL =>
        /\ v.url \in DOMAIN VendorTable
        /\ \E a \in 1..Len(VendorTable[v.url].addresses) :
              VendorTable[v.url].addresses[a].data = v.data.address /\ VendorTable[v.url].addresses[a].url = v.addressUrl
        /\ \A p \in DOMAIN v.personUrls : \E c \in 1..Len(VendorTable[v.url].contacts) :
              /\ VendorTable[v.url].contacts[c].url = v.personUrls[p]
              /\ VendorTable[v.url].contacts[c].name = v.data.persons[p].name
              /\ Agrees(v.data.persons[p].emails, VendorTable[v.url].contacts[c].emails)
VendorInv == \A n \in 1..Len(vendors) : VendorOk(vendors[n])

(* The URL of a module: its vendor has been found, and stays as it is.     *)
ModuleOk(url, v) ==
    /\ url \in DOMAIN ModuleTable
    /\ ModuleTable[url].vendorUrl = v.url /\ ModuleTable[url].addressUrl = v.addressUrl
    /\ \A p \in DOMAIN v.personUrls :
         \E c \in DOMAIN ModuleTable[url].contactUrls : ModuleTable[url].contactUrls[c] = v.personUrls[p]
ModuleInv ==
    \A n \in 1..Len(modules) :
        modules[n].url # NULL => modules[n].vendor # 0 /\ ModuleOk(modules[n].url, vendors[modules[n].vendor])

(* The URL of an operating environment: its first dependencies have been   *)
(* found.                                                                  *)
OeOk(o, ds) ==
    /\ o.url \in DOMAIN OeTable /\ Len(OeTable[o.url]) <= Len(o.deps)
    /\ \A q \in 1..Len(OeTable[o.url]) : OeTable[o.url][q] \in {NoString, ds[o.deps[q]].url}
OeInv == \A n \in 1..Len(oes) : oes[n].url # NULL => OeOk(oes[n], deps)

(* The URL of a dependency; as long as nothing has failed, a dependency    *)
(* whose id was not used up yet has no fields.                             *)
DepNamed(d) == d.url # NULL => d.url \in DOMAIN DepTable /\ d.name # NULL
DepOk(d) ==
    d.url # NULL =>
        /\ DepTable[d.url].name = d.name /\ DepTable[d.url].desc = d.desc
        /\ DepTable[d.url].series \in {NULL, d.series} /\ DepTable[d.url].family \in {NULL, d.family}
Blank(d) == d.name = NULL /\ d.desc = NULL /\ d.series = NULL /\ d.family = NULL
DepInv ==
    /\ \A n \in 1..Len(deps) : DepNamed(deps[n])
    /\ ~bad => \A n \in 1..Len(deps) : DepOk(deps[n])
FreshInv == ~bad => \A n \in 1..Len(deps) : deps[n].id >= glb.dependency => Blank(deps[n])

(* What was rejected before the current candidate.                         *)
ModuleAsked == [data |-> Mod.data, vendorUrl |-> Ven.url, addressUrl |-> Ven.addressUrl, contactUrls |-> Ven.personUrls]
FirstInv ==
    /\ tmp_dep # Cleared => pc = "match" /\ what = "dependency" /\ i > 1
    /\ pc = "match" /\ i > 1 =>
         /\ what = "dependency" => ~Exact(Dep, DepTable[page[1]])
         /\ what = "module" => ModuleAsked # ModuleTable[page[1]] \/ Len(Ven.personUrls) > 1
         /\ what = "oe" => \A n \in 1..(i - 1) : OeTable[page[n]] # DepUrls(Oe)

(* What the status of the operating environment says.                      *)
StatusInv ==
    /\ pc \in {"seek", "get", "match", "sought", "dependencies"} /\ what = "dependency" =>
         /\ Oe.status \in {"COMPLETE", "PARTIAL"}
         /\ \A q \in 1..Len(Oe.deps) : q < k /\ deps[Oe.deps[q]].url = NULL => Oe.status = "PARTIAL"
    /\ (pc \in {"seek", "get", "match", "sought"} /\ what = "oe") \/ pc = "verified" =>
         /\ Oe.status # NULL
         /\ Oe.status = "COMPLETE" => \A q \in 1..Len(Oe.deps) : deps[Oe.deps[q]].url # NULL
         /\ Oe.status = "INCOMPLETE" => \A q \in 1..Len(Oe.deps) : deps[Oe.deps[q]].url = NULL

(* The operating environments of the file that were read so far are the    *)
(* last ones of the ctx.                                                   *)
UniqueInv == \A m, n \in 1..Len(oes) : m # n => oes[m].id # oes[n].id
Read == IF sub = 0 THEN pos - 1 ELSE pos
ReadOf(n) == IF sub # 0 /\ n = pos THEN sub - 1 ELSE Len(file.oes[n].deps)
Loaded(o, e, m, ds, next) ==
    /\ Len(o.deps) = m
    /\ \A q \in 1..m : ds[o.deps[q]].id < next /\ Exact(ds[o.deps[q]], e.deps[q])
    /\ \A p, q \in 1..m : p # q => o.deps[p] # o.deps[q]
LoadInv ==
    ~bad /\ pc = "oes" =>
        /\ Read <= Len(file.oes) /\ Read <= Len(oes)
        /\ sub # 0 => oes[Len(oes)].id = glb.oe - 1
        /\ \A n \in 1..Read : Loaded(oes[Len(oes) - Read + n], file.oes[n], ReadOf(n), deps, glb.dependency)
-----------------------------------------------------------------------------
(* A set of natural numbers that is not empty has a least element.         *)
LEMMA Least ==
    ASSUME NEW S \in SUBSET Nat, S # {}
    PROVE  Min(S) \in S /\ \A y \in S : Min(S) <= y
<1>1. \E x \in S : \A y \in S : ~(<<y, x>> \in OpToRel(<, Nat))
  BY WFMin, NatLessThanWellFounded
<1>2. \A x, y \in S : <<y, x>> \in OpToRel(<, Nat) <=> y < x
  BY DEF OpToRel
<1>3. \E x \in S : \A y \in S : ~(y < x)
  BY <1>1, <1>2, Zenon
<1> HIDE <1>1, <1>2
<1>4. \E x \in S : \A y \in S : x <= y
  BY <1>3
<1> QED BY <1>4, Zenon DEF Min

(* find_vendor() and the like return a position that has the id, and NULL  *)
(* only if there is none.                                                  *)
LEMMA FindFacts ==
    ASSUME NEW R, NEW s \in Seq(R), NEW id
    PROVE  /\ Find(s, id) \in 0..Len(s)
           /\ Find(s, id) # 0 => s[Find(s, id)].id = id
           /\ Find(s, id) = 0 => \A n \in 1..Len(s) : s[n].id # id
<1> DEFINE S == {n \in DOMAIN s : s[n].id = id}
<1>1. S \in SUBSET Nat /\ S \subseteq 1..Len(s)
  OBVIOUS
<1>2. CASE S = {}
  <2>1. Find(s, id) = 0
    BY <1>2 DEF Find
  <2> QED BY <1>2, <2>1
<1>3. CASE S # {}
  <2>1. Find(s, id) = Min(S)
    BY <1>3 DEF Find
  <2>2. Min(S) \in S
    BY <1>1, <1>3, Least
  <2> QED BY <1>1, <2>1, <2>2
<1> QED BY <1>2, <1>3
-----------------------------------------------------------------------------
(* The arrays grow, or one of their elements gets a URL or a field, or     *)
(* everything is freed.                                                    *)
Reset ==
    /\ vendors' = <<>> /\ modules' = <<>> /\ deps' = <<>> /\ oes' = <<>>
    /\ fips' = [module |-> 0, oe |-> 0] /\ bad' = FALSE /\ pc = "idle" /\ pc' = "idle"

GrowVendors ==
    /\ pc = "vendors"
    /\ \E v \in VendorRec :
         v.url = NULL /\ DOMAIN v.personUrls = DOMAIN v.data.persons /\ vendors' = Append(vendors, v)
TouchVendor ==
    /\ pc \in {"match", "contacts"} /\ what = "vendor"
    /\ vendors' \in Seq(VendorRec) /\ Len(vendors') = Len(vendors)
    /\ \A n \in 1..Len(vendors) :
         /\ vendors'[n].data = vendors[n].data /\ DOMAIN vendors'[n].personUrls = DOMAIN vendors[n].personUrls
         /\ n # Mod.vendor => vendors'[n] = vendors[n]
         /\ vendors'[n].url # vendors[n].url => pc' = "sought"

GrowModules ==
    /\ pc \in {"idle", "modules"} /\ vendors' = vendors
    /\ \E m \in ModuleRec :
         /\ m.url = NULL /\ m.vendor <= Len(vendors) /\ (m.vendor = 0 => bad')
         /\ modules' = Append(modules, m)
TouchModule ==
    /\ pc = "idle" \/ (pc = "match" /\ what = "module")
    /\ modules' \in Seq(ModuleRec) /\ Len(modules') = Len(modules) /\ vendors' = vendors
    /\ \A n \in 1..Len(modules) :
         /\ modules'[n].vendor = modules[n].vendor
         /\ pc = "match" => modules'[n].data = modules[n].data
         /\ modules'[n].url # modules[n].url => pc = "match" /\ pc' = "sought" /\ n = fips.module

GrowDeps ==
    /\ pc \in {"idle", "oes"} /\ Len(deps) < LIBAMVP_DEPENDENCIES_MAX
    /\ \E d \in DepRec : d.url = NULL /\ deps' = Append(deps, d)
TouchDep ==
    /\ pc = "oes" \/ (pc = "match" /\ what = "dependency")
    /\ deps' \in Seq(DepRec) /\ Len(deps') = Len(deps)
    /\ \A n \in 1..Len(deps) :
         /\ deps'[n].id = deps[n].id
         /\ deps[n].name # NULL => deps'[n].name # NULL
         /\ pc = "match" => deps'[n] = [deps[n] EXCEPT !.url = deps'[n].url]
         /\ deps'[n].url # deps[n].url => pc = "match" /\ pc' = "sought" /\ n = Oe.deps[k]

GrowOes ==
    /\ pc \in {"idle", "oes"} /\ deps' = deps
    /\ \E o \in OeRec : o.url = NULL /\ o.deps = <<>> /\ oes' = Append(oes, o)
                        /\ \A n \in 1..Len(oes) : oes[n].id # o.id
TouchOe ==
    /\ oes' \in Seq(OeRec) /\ Len(oes') = Len(oes)
    /\ \A n \in 1..Len(oes) :
         /\ oes'[n].id = oes[n].id
         /\ pc \notin {"idle", "oes"} => oes'[n].deps = oes[n].deps
         /\ Len(oes[n].deps) <= Len(oes'[n].deps)
         /\ \A q \in 1..Len(oes[n].deps) : oes'[n].deps[q] = oes[n].deps[q]
         /\ \A q \in 1..Len(oes'[n].deps) : oes'[n].deps[q] \in 1..Len(deps')
         /\ oes'[n].url # oes[n].url => pc = "match" /\ what = "oe" /\ pc' = "sought" /\ n = fips.oe

(* Which actions change which array.                                       *)
LEMMA VendorsChange ==
    [Next]_vars => vendors' = vendors \/ ParseVendor \/ MatchVendor \/ QueryContacts \/ FreeOperatingEnv
  BY DEF Next, Step, vars, env, CallModuleNew, CallDependencyNew, CallOeNew, CallModuleSet,
         CallSetDependency, Select, IngestMetadata, Verify, ParseModule, ParseOe, ParseDependency,
         EndOfArray, Query, GetPage, NextPage, MatchModule, MatchDependency, MatchOe, VendorSought,
         ModuleSought, DependencySought, Dependencies, OeSought, Verified
LEMMA ModulesChange ==
    [Next]_vars =>
      \/ modules' = modules
      \/ (\E id \in UserIds : CallModuleNew(id))
      \/ (\E id \in UserIds, data \in {ModuleTable[u].data : u \in DOMAIN ModuleTable} : CallModuleSet(id, data))
      \/ ParseModule \/ MatchModule \/ FreeOperatingEnv
  BY DEF Next, Step, vars, env, CallDependencyNew, CallOeNew, CallSetDependency, Select,
         IngestMetadata, Verify, ParseVendor, ParseOe, ParseDependency, EndOfArray, Query, GetPage,
         NextPage, MatchVendor, QueryContacts, MatchDependency, MatchOe, VendorSought, ModuleSought,
         DependencySought, Dependencies, OeSought, Verified
LEMMA DepsChange ==
    [Next]_vars =>
      \/ deps' = deps
      \/ (\E id \in UserIds : CallDependencyNew(id))
      \/ ParseDependency \/ MatchDependency \/ FreeOperatingEnv
  BY DEF Next, Step, vars, env, CallModuleNew, CallOeNew, CallModuleSet, CallSetDependency, Select,
         IngestMetadata, Verify, ParseVendor, ParseModule, ParseOe, EndOfArray, Query, GetPage,
         NextPage, MatchVendor, QueryContacts, MatchModule, MatchOe, VendorSought, ModuleSought,
         DependencySought, Dependencies, OeSought, Verified
LEMMA OesChange ==
    [Next]_vars =>
      \/ oes' = oes
      \/ (\E id \in UserIds : CallOeNew(id)) \/ (\E o, d \in UserIds : CallSetDependency(o, d))
      \/ ParseOe \/ ParseDependency \/ MatchOe
      \/ ModuleSought \/ DependencySought \/ Dependencies \/ FreeOperatingEnv
  BY DEF Next, Step, vars, env, CallModuleNew, CallDependencyNew, CallModuleSet, Select,
         IngestMetadata, Verify, ParseVendor, ParseModule, EndOfArray, Query, GetPage, NextPage,
         MatchVendor, QueryContacts, MatchModule, MatchDependency, VendorSought, OeSought, Verified

(* The elements of a sequence, and a sequence of which one was replaced.   *)
LEMMA ElementType == ASSUME NEW R, NEW s \in Seq(R), NEW n \in 1..Len(s) PROVE s[n] \in R
  OBVIOUS
LEMMA Replaced ==
    ASSUME NEW R, NEW s \in Seq(R), NEW p \in 1..Len(s), NEW r \in R, NEW t, t = [s EXCEPT ![p] = r]
    PROVE  t \in Seq(R) /\ Len(t) = Len(s) /\ \A n \in 1..Len(s) : t[n] = IF n = p THEN r ELSE s[n]
  OBVIOUS

(* A sequence with one more element.                                       *)
LEMMA Longer ==
    ASSUME NEW R, NEW s \in Seq(R), NEW r \in R, NEW t, t = Append(s, r)
    PROVE  t \in Seq(R) /\ Len(t) = Len(s) + 1 /\ t[Len(s) + 1] = r /\ \A n \in 1..Len(s) : t[n] = s[n]
  OBVIOUS

(* What a search refers to is there.                                       *)
LEMMA VerifyFacts ==
    ASSUME Types, VerifyInv, pc \in Verifying
    PROVE  /\ fips.module \in 1..Len(modules) /\ Mod \in ModuleRec
           /\ fips.oe \in 1..Len(oes) /\ Oe \in OeRec
           /\ \A q \in 1..Len(Oe.deps) : Oe.deps[q] \in 1..Len(deps) /\ deps[Oe.deps[q]] \in DepRec
           /\ Mod.vendor \in 1..Len(vendors) /\ Ven \in VendorRec /\ DOMAIN Ven.personUrls = DOMAIN Ven.data.persons
<1> USE DEF Types
<1>1. fips.module \in 1..Len(modules) /\ fips.oe \in 1..Len(oes) /\ Mod.vendor # 0
  BY DEF VerifyInv, FipsTypes
<1>2. Mod \in ModuleRec /\ Mod.vendor <= Len(vendors)
  BY <1>1, ElementType DEF Mod, ModuleTypes
<1>3. Mod.vendor \in 1..Len(vendors)
  BY <1>1, <1>2 DEF ModuleRec, VendorTypes
<1>4. Oe \in OeRec
  BY <1>1, ElementType DEF Oe, OeTypes
<1>5. \A q \in 1..Len(Oe.deps) : Oe.deps[q] \in 1..Len(deps)
  BY <1>1 DEF Oe, OeTypes
<1>6. \A q \in 1..Len(Oe.deps) : deps[Oe.deps[q]] \in DepRec
  BY <1>5, ElementType DEF DepTypes
<1>7. Ven \in VendorRec /\ DOMAIN Ven.personUrls = DOMAIN Ven.data.persons
  BY <1>3, ElementType DEF Ven, VendorTypes
<1> QED BY <1>1, <1>2, <1>3, <1>4, <1>5, <1>6, <1>7

LEMMA FreeResets == FreeOperatingEnv => Reset
  BY DEF FreeOperatingEnv, Api, Reset

(* What the tables hold.                                                   *)
LEMMA VendorTableType ==
    \A u \in DOMAIN VendorTable : u \in Strings /\ u # NULL /\ VendorTable[u] \in VendorEntry
  BY DatabaseAssumption DEF Present

(* A page holds URLs of the server.                                        *)
LEMMA CandidateVendor ==
    ASSUME PageInv, SearchTypes, pc \in {"match", "contacts"}, what = "vendor", i <= Len(page)
    PROVE  page[i] \in DOMAIN VendorTable
  BY DEF PageInv, SearchTypes, Offered

LEMMA ParseVendorEffect == Types /\ ParseVendor => vendors' = vendors \/ GrowVendors
<1> SUFFICES ASSUME Types, ParseVendor, vendors' # vendors PROVE GrowVendors
  OBVIOUS
<1> DEFINE v == file.vendors[pos]
           new == [id |-> glb.vendor, url |-> NULL, addressUrl |-> NULL,
                   personUrls |-> [n \in DOMAIN v.persons |-> NULL], data |-> v]
<1>1. v \in VendorElement
  <2>1. file.vendors \in Seq(VendorElement) /\ pos \in 1..Len(file.vendors)
    BY DEF Types, ParseTypes, Metadata, ParseVendor
  <2> QED BY <2>1
<1>2. [n \in DOMAIN v.persons |-> NULL] \in Seq(Strings)
  <2>1. v.persons \in Seq(Person)
    BY <1>1 DEF VendorElement
  <2> QED BY <2>1, FilesAssumption
<1>3. new \in VendorRec
  BY <1>1, <1>2, FilesAssumption DEF VendorRec, Types, GlbTypes
<1>4. vendors' = Append(vendors, new)
  BY DEF ParseVendor, VendorNew, Made
<1> QED BY <1>3, <1>4 DEF GrowVendors, ParseVendor

LEMMA MatchVendorEffect ==
    Types /\ VerifyInv /\ PageInv /\ MatchVendor => vendors' = vendors \/ TouchVendor
<1> SUFFICES ASSUME Types, VerifyInv, PageInv, MatchVendor, vendors' # vendors PROVE TouchVendor
  OBVIOUS
<1>0. pc = "match" /\ what = "vendor" /\ i <= Len(page)
  BY DEF MatchVendor, Candidate
<1> DEFINE e == VendorTable[page[i]]
           A == AddressMatches(Ven.data.address, e.addresses)
           url == e.addresses[Min(A)].url
<1>1. e \in VendorEntry
  BY <1>0, CandidateVendor, VendorTableType DEF Types
<1>2. A # {} /\ vendors' = [vendors EXCEPT ![Mod.vendor].addressUrl = url]
  BY DEF MatchVendor
<1>3. url \in Strings
  <2>1. e.addresses \in Seq([data : Strings, url : Present])
    BY <1>1 DEF VendorEntry
  <2>2. A \in SUBSET Nat /\ A \subseteq 1..Len(e.addresses)
    BY <2>1 DEF AddressMatches
  <2>3. Min(A) \in 1..Len(e.addresses)
    BY <1>2, <2>2, Least
  <2>4. e.addresses[Min(A)] \in [data : Strings, url : Present]
    BY <2>1, <2>3, ElementType
  <2> QED BY <2>4 DEF Present
<1>4. Mod.vendor \in 1..Len(vendors) /\ Ven \in VendorRec
  BY <1>0, VerifyFacts DEF Verifying
<1> HIDE DEF e, A, url
<1> DEFINE new == [Ven EXCEPT !.addressUrl = url]
<1>5. new \in VendorRec /\ new.data = Ven.data /\ new.personUrls = Ven.personUrls /\ new.url = Ven.url
  BY <1>3, <1>4 DEF VendorRec
<1>6. vendors' = [vendors EXCEPT ![Mod.vendor] = new]
  BY <1>2 DEF Ven
<1> HIDE DEF new
<1>7. vendors \in Seq(VendorRec)
  BY DEF Types, VendorTypes
<1>8. /\ vendors' \in Seq(VendorRec) /\ Len(vendors') = Len(vendors)
      /\ \A n \in 1..Len(vendors) : vendors'[n] = IF n = Mod.vendor THEN new ELSE vendors[n]
  BY <1>4, <1>5, <1>6, <1>7, Replaced
<1> QED BY <1>0, <1>5, <1>8 DEF TouchVendor, Ven

LEMMA QueryContactsEffect ==
    Types /\ VerifyInv /\ PageInv /\ QueryContacts => vendors' = vendors \/ TouchVendor
<1> SUFFICES ASSUME Types, VerifyInv, PageInv, QueryContacts, vendors' # vendors PROVE TouchVendor
  OBVIOUS
<1>0. pc = "contacts" /\ what = "vendor" /\ i <= Len(page)
  BY DEF QueryContacts, VerifyInv, PageInv, Verifying
<1> DEFINE persons == Ven.data.persons
           contacts == VendorTable[page[i]].contacts
           Contact(n) == ContactFor(persons[n], contacts)
           prefix == {n \in DOMAIN persons : \A j \in 1..n : Contact(j).outcome = "equal"}
           urls == [n \in DOMAIN persons |-> IF n \in prefix THEN Contact(n).url ELSE Ven.personUrls[n]]
<1>1. VendorTable[page[i]] \in VendorEntry /\ page[i] \in Strings
  BY <1>0, CandidateVendor, VendorTableType DEF Types
<1>2. Mod.vendor \in 1..Len(vendors) /\ Ven \in VendorRec /\ DOMAIN Ven.personUrls = DOMAIN Ven.data.persons
  BY <1>0, VerifyFacts DEF Verifying
<1>3. \A n \in DOMAIN persons : Contact(n).url \in Strings
  <2>1. contacts \in Seq([name : Strings, emails : Seq(Strings), phones : Seq(Strings), url : Present])
    BY <1>1 DEF VendorEntry
  <2>2. ASSUME NEW p PROVE ContactFor(p, contacts).url \in Strings
    <3> DEFINE S == {n \in DOMAIN contacts : ComparePerson(p, contacts[n]) # "differs"}
    <3>1. CASE S = {}
      BY <3>1, FilesAssumption DEF ContactFor
    <3>2. CASE S # {}
      <4>1. S \in SUBSET Nat /\ S \subseteq 1..Len(contacts)
        BY <2>1
      <4>2. Min(S) \in 1..Len(contacts)
        BY <3>2, <4>1, Least
      <4>3. ContactFor(p, contacts).url = contacts[Min(S)].url
        BY <3>2 DEF ContactFor
      <4>4. contacts[Min(S)].url \in Present
        <5>1. contacts[Min(S)] \in [name : Strings, emails : Seq(Strings), phones : Seq(Strings), url : Present]
          BY <2>1, <4>2, ElementType
        <5> QED BY <5>1
      <4> QED BY <4>3, <4>4 DEF Present
    <3> QED BY <3>1, <3>2
  <2> QED BY <2>2
<1>4. urls \in Seq(Strings) /\ DOMAIN urls = DOMAIN persons
  <2>1. persons \in Seq(Person) /\ Ven.personUrls \in Seq(Strings)
    BY <1>2 DEF VendorRec, VendorElement
  <2> HIDE DEF persons, prefix, Contact
  <2> QED BY <1>2, <1>3, <2>1 DEF persons
<1>5. \/ vendors' = [vendors EXCEPT ![Mod.vendor].personUrls = urls]
      \/ /\ vendors' = [vendors EXCEPT ![Mod.vendor].personUrls = urls, ![Mod.vendor].url = page[i]]
         /\ pc' = "sought"
  BY DEF QueryContacts, Matched
<1> HIDE DEF urls
<1>6. PICK new \in VendorRec :
        /\ vendors' = [vendors EXCEPT ![Mod.vendor] = new]
        /\ new.data = Ven.data /\ new.personUrls = urls /\ (new.url = Ven.url \/ pc' = "sought")
  <2>1. CASE vendors' = [vendors EXCEPT ![Mod.vendor].personUrls = urls]
    <3> DEFINE r == [Ven EXCEPT !.personUrls = urls]
    <3>1. r \in VendorRec /\ r.data = Ven.data /\ r.personUrls = urls /\ r.url = Ven.url
      BY <1>2, <1>4 DEF VendorRec
    <3>2. vendors' = [vendors EXCEPT ![Mod.vendor] = r]
      BY <2>1 DEF Ven
    <3> QED BY <3>1, <3>2, Zenon
  <2>2. CASE /\ vendors' = [vendors EXCEPT ![Mod.vendor].personUrls = urls, ![Mod.vendor].url = page[i]]
             /\ pc' = "sought"
    <3> DEFINE r == [Ven EXCEPT !.personUrls = urls, !.url = page[i]]
    <3>1. r \in VendorRec /\ r.data = Ven.data /\ r.personUrls = urls
      BY <1>1, <1>2, <1>4 DEF VendorRec
    <3>2. vendors' = [vendors EXCEPT ![Mod.vendor] = r]
      BY <1>2, <2>2 DEF Ven, Types, VendorTypes
    <3> QED BY <2>2, <3>1, <3>2, Zenon
  <2> QED BY <1>5, <2>1, <2>2
<1>7. vendors \in Seq(VendorRec)
  BY DEF Types, VendorTypes
<1>8. /\ vendors' \in Seq(VendorRec) /\ Len(vendors') = Len(vendors)
      /\ \A n \in 1..Len(vendors) : vendors'[n] = IF n = Mod.vendor THEN new ELSE vendors[n]
  BY <1>2, <1>6, <1>7, Replaced
<1> QED BY <1>0, <1>2, <1>4, <1>6, <1>8 DEF TouchVendor, Ven

LEMMA VendorsEffect ==
    Types /\ VerifyInv /\ PageInv /\ [Next]_vars => vendors' = vendors \/ GrowVendors \/ TouchVendor \/ Reset
  BY VendorsChange, ParseVendorEffect, MatchVendorEffect, QueryContactsEffect, FreeResets

LEMMA ModulesEffect ==
    Types /\ VerifyInv /\ PageInv /\ [Next]_vars => modules' = modules \/ GrowModules \/ TouchModule \/ Reset
<1> SUFFICES ASSUME Types, VerifyInv, PageInv, [Next]_vars, modules' # modules PROVE GrowModules \/ TouchModule \/ Reset
  OBVIOUS
<1> USE DEF Types
<1>1. ASSUME NEW id \in Nat, NEW m, m.data \in Strings, modules' = ModuleNew(id, m).s, vendors' = vendors,
             ModuleNew(id, m).rv # "AMVP_SUCCESS" => bad', pc \in {"idle", "modules"}
      PROVE  GrowModules
  <2> DEFINE new == [id |-> id, vendor |-> Find(vendors, id), data |-> m.data, url |-> NULL]
  <2>1. Find(vendors, id) \in 0..Len(vendors)
    BY FindFacts DEF VendorTypes
  <2>2. new \in ModuleRec
    BY <1>1, <2>1, FilesAssumption DEF ModuleRec
  <2>3. modules' = Append(modules, new) /\ (new.vendor = 0 => bad')
    BY <1>1 DEF ModuleNew, Made
  <2> QED BY <1>1, <2>1, <2>2, <2>3 DEF GrowModules
<1>2. ASSUME NEW id \in UserIds, CallModuleNew(id) PROVE GrowModules
  <2>1. id \in Nat /\ [kind |-> "ok", data |-> NULL].data \in Strings
    BY BoundsAssumption, FilesAssumption
  <2> QED BY <1>1, <1>2, <2>1, Zenon DEF CallModuleNew, Called, Api
<1>3. ASSUME NEW id \in UserIds, NEW data \in {ModuleTable[u].data : u \in DOMAIN ModuleTable}, CallModuleSet(id, data)
      PROVE  TouchModule
  <2>1. data \in Strings
    BY DatabaseAssumption DEF ModuleEntry, Present
  <2>2. Find(modules, id) \in 1..Len(modules) /\ modules' = [modules EXCEPT ![Find(modules, id)].data = data]
    BY <1>3, FindFacts DEF CallModuleSet, ModuleTypes
  <2> DEFINE p == Find(modules, id)
             new == [modules[p] EXCEPT !.data = data]
  <2>3. modules \in Seq(ModuleRec) /\ modules[p] \in ModuleRec
    BY <2>2, ElementType DEF ModuleTypes
  <2>4. new \in ModuleRec /\ new.vendor = modules[p].vendor /\ new.url = modules[p].url
    BY <2>1, <2>3 DEF ModuleRec
  <2>5. p \in 1..Len(modules) /\ modules' = [modules EXCEPT ![p] = new]
    BY <2>2
  <2> HIDE DEF new, p
  <2>6. /\ modules' \in Seq(ModuleRec) /\ Len(modules') = Len(modules)
        /\ \A n \in 1..Len(modules) : modules'[n] = IF n = p THEN new ELSE modules[n]
    BY <2>3, <2>4, <2>5, Replaced
  <2>7. pc = "idle" /\ vendors' = vendors
    BY <1>3 DEF CallModuleSet, Api
  <2> QED BY <2>4, <2>6, <2>7 DEF TouchModule
<1>4. CASE ParseModule
  <2>1. file.modules[pos].data \in Strings /\ glb.module \in Nat
    <3>1. file.modules \in Seq([kind : Kinds, data : Strings]) /\ pos \in 1..Len(file.modules)
      BY <1>4 DEF ParseTypes, Metadata, ParseModule
    <3>2. file.modules[pos] \in [kind : Kinds, data : Strings]
      BY <3>1, ElementType
    <3> QED BY <3>2 DEF GlbTypes
  <2>2. modules' = ModuleNew(glb.module, file.modules[pos]).s
    BY <1>4 DEF ParseModule, Made
  <2>3. ModuleNew(glb.module, file.modules[pos]).rv # "AMVP_SUCCESS" => bad'
    BY <1>4, <2>2 DEF ParseModule, Made, Element, Fail
  <2> QED BY <1>1, <1>4, <2>1, <2>2, <2>3 DEF ParseModule
<1>5. CASE MatchModule
  <2>1. fips.module \in 1..Len(modules) /\ page[i] \in Strings /\ Mod \in ModuleRec
    <3>1. pc = "match" /\ i \in 1..Len(page) /\ page \in Seq(Present)
      BY <1>5 DEF MatchModule, Candidate, PageInv, SearchTypes
    <3>2. page[i] \in Present
      BY <3>1, ElementType
    <3> QED BY <3>1, <3>2, VerifyFacts DEF Verifying, Present
  <2>2. modules' = [modules EXCEPT ![fips.module].url = page[i]] /\ pc = "match" /\ what = "module"
    BY <1>5 DEF MatchModule, Candidate
  <2>3. pc' = "sought" /\ vendors' = vendors
    BY <1>5 DEF MatchModule, Matched
  <2> DEFINE new == [Mod EXCEPT !.url = page[i]]
  <2>4. new \in ModuleRec /\ new.vendor = Mod.vendor /\ new.data = Mod.data
    BY <2>1 DEF ModuleRec
  <2>5. modules \in Seq(ModuleRec) /\ modules' = [modules EXCEPT ![fips.module] = new]
    BY <2>2 DEF ModuleTypes, Mod
  <2> HIDE DEF new
  <2>6. /\ modules' \in Seq(ModuleRec) /\ Len(modules') = Len(modules)
        /\ \A n \in 1..Len(modules) : modules'[n] = IF n = fips.module THEN new ELSE modules[n]
    BY <2>1, <2>4, <2>5, Replaced
  <2> QED BY <2>2, <2>3, <2>4, <2>6 DEF TouchModule, Mod
<1> QED BY <1>2, <1>3, <1>4, <1>5, ModulesChange, FreeResets

(* What parse_dependencies() finds when it looks for the dependency that   *)
(* it has just made.                                                       *)
EmptyDep(id) == [id |-> id, url |-> NULL, name |-> NULL, desc |-> NULL, series |-> NULL, family |-> NULL]

LEMMA DependencyNewFacts ==
    ASSUME Types, NEW id \in Nat
    PROVE  \/ /\ DependencyNew(id).s = deps
              /\ Len(deps) = LIBAMVP_DEPENDENCIES_MAX \/ DependencyNew(id).rv # "AMVP_SUCCESS"
           \/ /\ Len(deps) < LIBAMVP_DEPENDENCIES_MAX /\ DependencyNew(id).rv = "AMVP_SUCCESS"
              /\ DependencyNew(id).s = Append(deps, EmptyDep(id)) /\ Find(deps, id) = 0
  BY BoundsAssumption DEF DependencyNew, Made, EmptyDep, Types, DepTypes

LEMMA FindNew ==
    ASSUME DepTypes, NEW id \in Nat, Find(deps, id) = 0
    PROVE  Find(Append(deps, EmptyDep(id)), id) = Len(deps) + 1
<1> DEFINE s == Append(deps, EmptyDep(id))
<1>1. EmptyDep(id) \in DepRec
  BY FilesAssumption DEF EmptyDep, DepRec
<1>2. /\ s \in Seq(DepRec) /\ Len(s) = Len(deps) + 1 /\ s[Len(deps) + 1] = EmptyDep(id)
      /\ \A n \in 1..Len(deps) : s[n] = deps[n]
  BY <1>1, Longer DEF DepTypes
<1>3. \A n \in 1..Len(deps) : deps[n].id # id
  BY FindFacts DEF DepTypes
<1>4. s[Len(deps) + 1].id = id
  BY <1>2 DEF EmptyDep
<1> HIDE DEF s
<1>5. Len(deps) \in Nat
  BY DEF DepTypes
<1>6. /\ Find(s, id) \in 0..Len(s) /\ (Find(s, id) # 0 => s[Find(s, id)].id = id)
      /\ (Find(s, id) = 0 => \A n \in 1..Len(s) : s[n].id # id)
  BY <1>2, FindFacts
<1>7. Find(s, id) # 0
  BY <1>2, <1>4, <1>5, <1>6
<1>8. Find(s, id) \notin 1..Len(deps)
  BY <1>2, <1>3, <1>6
<1>9. Find(s, id) = Len(deps) + 1
  BY <1>2, <1>5, <1>6, <1>7, <1>8
<1> QED BY <1>9 DEF s

(* The fields of an element.                                               *)
LEMMA SetFieldsFacts ==
    ASSUME NEW dep \in DepRec, NEW d \in DepElement
    PROVE  /\ SetFields(dep, d) \in DepRec
           /\ SetFields(dep, d).id = dep.id /\ SetFields(dep, d).url = dep.url
           /\ dep.name # NULL => SetFields(dep, d).name # NULL
           /\ Blank(dep) => Exact(SetFields(dep, d), d)
<1>1. /\ SetFields(dep, d).id = dep.id /\ SetFields(dep, d).url = dep.url
      /\ SetFields(dep, d).name = Given(d.name, dep.name) /\ SetFields(dep, d).desc = Given(d.desc, dep.desc)
      /\ SetFields(dep, d).series = Given(d.series, dep.series)
      /\ SetFields(dep, d).family = Given(d.family, dep.family)
  BY DEF SetFields, DepRec
<1>2. SetFields(dep, d) \in DepRec
  BY DEF SetFields, DepRec, DepElement, Given
<1>3. Blank(dep) => Exact(SetFields(dep, d), d)
  BY <1>1 DEF Exact, Given, Blank
<1> QED BY <1>1, <1>2, <1>3 DEF Given

(* The element that is read.                                               *)
LEMMA DepElementRead ==
    ASSUME Types, pc = "oes", sub > 0
    PROVE  /\ file.oes \in Seq(OeElement) /\ pos \in 1..Len(file.oes)
           /\ file.oes[pos].deps \in Seq(DepElement) /\ sub \in 1..Len(file.oes[pos].deps)
           /\ file.oes[pos].deps[sub] \in DepElement
<1>1. file.oes \in Seq(OeElement) /\ pos \in 1..Len(file.oes) /\ sub <= Len(file.oes[pos].deps) /\ sub \in Nat
  BY DEF Types, ParseTypes, Metadata
<1>2. file.oes[pos] \in OeElement
  BY <1>1, ElementType
<1>3. file.oes[pos].deps \in Seq(DepElement) /\ sub \in 1..Len(file.oes[pos].deps)
  BY <1>1, <1>2 DEF OeElement
<1> QED BY <1>1, <1>3, ElementType

(* parse_dependencies() makes a dependency or writes over one that has the *)
(* id, and adds it to the operating environment unless it fails.           *)
WritesDep(p) ==
    /\ p \in 1..Len(deps') /\ deps' \in Seq(DepRec)
    /\ \/ Len(deps') = Len(deps) /\ deps[p].id = glb.dependency /\ deps'[p] = SetFields(deps[p], file.oes[pos].deps[sub])
       \/ /\ Len(deps) < LIBAMVP_DEPENDENCIES_MAX /\ Len(deps') = Len(deps) + 1 /\ p = Len(deps) + 1
          /\ deps'[p] = SetFields(EmptyDep(glb.dependency), file.oes[pos].deps[sub])
    /\ \A n \in 1..Len(deps) : n # p => deps'[n] = deps[n]
AddsDep(p) ==
    /\ oes' = SetDependency(oes, Find(oes, glb.oe - 1), p).s
    /\ glb' = [glb EXCEPT !.dependency = @ + 1]
    /\ LET last == sub = Len(file.oes[pos].deps)
       IN  sub' = (IF last THEN 0 ELSE sub + 1) /\ pos' = IF last THEN pos + 1 ELSE pos
    /\ UNCHANGED <<pc, file, bad>>
FailsParse == pc' = "idle" /\ bad' /\ oes' = oes /\ glb' = glb /\ file' = Empty /\ pos' = 0 /\ sub' = 0

LEMMA ParseDependencyEffect ==
    ASSUME Types, ParseDependency
    PROVE  \/ deps' = deps /\ FailsParse
           \/ \E p : WritesDep(p) /\ (FailsParse \/ AddsDep(p))
<1> DEFINE d == file.oes[pos].deps[sub]
           id == glb.dependency
           made == DependencyNew(id)
           found == Find(made.s, id)
           failed == made.rv # "AMVP_SUCCESS" \/ found = 0
<1>1. d \in DepElement /\ id \in Nat
  BY DepElementRead DEF ParseDependency, Types, GlbTypes
<1>2. \/ deps' = deps /\ FailsParse
      \/ /\ deps' = IF failed THEN made.s ELSE [made.s EXCEPT ![found] = SetFields(@, d)]
         /\ (failed /\ FailsParse) \/ (~failed /\ (FailsParse \/ AddsDep(found)))
  BY DEF ParseDependency, Fail, EndIngest, Return, FailsParse, AddsDep
<1> HIDE DEF d
<1>3. CASE made.s = deps
  <2>1. found \in 0..Len(deps) /\ (found # 0 => deps[found].id = id)
    BY <1>3, FindFacts DEF Types, DepTypes
  <2>2. CASE failed
    BY <1>2, <1>3, <2>2
  <2>3. CASE ~failed /\ deps' = [deps EXCEPT ![found] = SetFields(deps[found], d)]
    <3>1. found \in 1..Len(deps) /\ deps \in Seq(DepRec) /\ deps[found] \in DepRec
      BY <2>1, <2>3, ElementType DEF Types, DepTypes
    <3>2. SetFields(deps[found], d) \in DepRec
      BY <1>1, <3>1, SetFieldsFacts
    <3>3. /\ deps' \in Seq(DepRec) /\ Len(deps') = Len(deps)
          /\ \A n \in 1..Len(deps) : deps'[n] = IF n = found THEN SetFields(deps[found], d) ELSE deps[n]
      BY <2>3, <3>1, <3>2, Replaced
    <3> HIDE DEF found
    <3>4. WritesDep(found)
      BY <2>1, <3>1, <3>3 DEF WritesDep, d
    <3> QED BY <1>2, <2>3, <3>4 DEF found
  <2> QED BY <1>2, <1>3, <2>2, <2>3
<1>4. CASE /\ Len(deps) < LIBAMVP_DEPENDENCIES_MAX /\ made.rv = "AMVP_SUCCESS"
           /\ made.s = Append(deps, EmptyDep(id)) /\ Find(deps, id) = 0
  <2>1. found = Len(deps) + 1 /\ ~failed
    BY <1>1, <1>4, FindNew DEF Types, DepTypes
  <2>2. EmptyDep(id) \in DepRec
    BY <1>1, FilesAssumption DEF EmptyDep, DepRec
  <2>3. /\ made.s \in Seq(DepRec) /\ Len(made.s) = Len(deps) + 1 /\ made.s[Len(deps) + 1] = EmptyDep(id)
        /\ \A n \in 1..Len(deps) : made.s[n] = deps[n]
    BY <1>4, <2>2, Longer DEF Types, DepTypes
  <2>4. SetFields(EmptyDep(id), d) \in DepRec
    BY <1>1, <2>2, SetFieldsFacts
  <2> HIDE DEF failed, found, made
  <2>5. Len(deps) \in Nat
    BY DEF Types, DepTypes
  <2>6. CASE deps' = [made.s EXCEPT ![found] = SetFields(@, d)]
    <3>1. found \in 1..Len(made.s) /\ deps' = [made.s EXCEPT ![found] = SetFields(EmptyDep(id), d)]
      BY <2>1, <2>3, <2>5, <2>6
    <3>2. /\ deps' \in Seq(DepRec) /\ Len(deps') = Len(made.s)
          /\ \A n \in 1..Len(made.s) : deps'[n] = IF n = found THEN SetFields(EmptyDep(id), d) ELSE made.s[n]
      BY <2>3, <2>4, <3>1, Replaced
    <3>3. WritesDep(found)
      BY <1>4, <2>1, <2>3, <2>5, <3>1, <3>2 DEF WritesDep, d
    <3> QED BY <1>2, <2>1, <3>3
  <2> QED BY <1>2, <2>1, <2>6
<1> QED BY <1>1, <1>3, <1>4, DependencyNewFacts

LEMMA DepsEffect ==
    Types /\ VerifyInv /\ PageInv /\ [Next]_vars => deps' = deps \/ GrowDeps \/ TouchDep \/ Reset
<1> SUFFICES ASSUME Types, VerifyInv, PageInv, [Next]_vars, deps' # deps PROVE GrowDeps \/ TouchDep \/ Reset
  OBVIOUS
<1>1. ASSUME NEW id \in UserIds, CallDependencyNew(id) PROVE GrowDeps
  <2>1. id \in Nat /\ EmptyDep(id) \in DepRec /\ EmptyDep(id).url = NULL
    BY BoundsAssumption, FilesAssumption DEF EmptyDep, DepRec
  <2>2. Len(deps) < LIBAMVP_DEPENDENCIES_MAX /\ deps' = Append(deps, EmptyDep(id))
    BY <1>1, <2>1, DependencyNewFacts DEF CallDependencyNew
  <2> QED BY <1>1, <2>1, <2>2 DEF GrowDeps, CallDependencyNew, Api
<1>2. CASE ParseDependency
  <2>1. PICK p : WritesDep(p)
    BY <1>2, ParseDependencyEffect
  <2>2. pc = "oes" /\ file.oes[pos].deps[sub] \in DepElement /\ glb.dependency \in Nat
    BY <1>2, DepElementRead DEF ParseDependency, Types, GlbTypes
  <2>3. deps \in Seq(DepRec)
    BY DEF Types, DepTypes
  <2>4. CASE Len(deps') = Len(deps)
    <3>1. p \in 1..Len(deps) /\ deps[p] \in DepRec
      BY <2>1, <2>3, <2>4, ElementType DEF WritesDep
    <3>2. deps'[p] = SetFields(deps[p], file.oes[pos].deps[sub])
      BY <2>1, <2>3, <2>4 DEF WritesDep
    <3>3. deps'[p].id = deps[p].id /\ deps'[p].url = deps[p].url /\ (deps[p].name # NULL => deps'[p].name # NULL)
      BY <2>2, <3>1, <3>2, SetFieldsFacts
    <3> QED BY <2>1, <2>2, <2>4, <3>1, <3>3 DEF WritesDep, TouchDep
  <2>5. CASE Len(deps') # Len(deps)
    <3> DEFINE new == SetFields(EmptyDep(glb.dependency), file.oes[pos].deps[sub])
    <3>1. /\ Len(deps) < LIBAMVP_DEPENDENCIES_MAX /\ Len(deps') = Len(deps) + 1 /\ deps'[Len(deps) + 1] = new
          /\ deps' \in Seq(DepRec) /\ \A n \in 1..Len(deps) : deps'[n] = deps[n]
      BY <2>1, <2>3, <2>5 DEF WritesDep
    <3>2. EmptyDep(glb.dependency) \in DepRec /\ EmptyDep(glb.dependency).url = NULL
      BY <2>2, FilesAssumption DEF EmptyDep, DepRec
    <3>3. new \in DepRec /\ new.url = NULL
      BY <2>2, <3>2, SetFieldsFacts
    <3> HIDE DEF new
    <3>4. deps' = Append(deps, new)
      BY <2>3, <3>1
    <3> QED BY <2>2, <3>1, <3>3, <3>4 DEF GrowDeps
  <2> QED BY <2>4, <2>5
<1>3. CASE MatchDependency
  <2>1. /\ pc = "match" /\ what = "dependency" /\ i \in 1..Len(page) /\ page \in Seq(Present)
        /\ k \in 1..Len(Oe.deps)
    BY <1>3 DEF MatchDependency, Candidate, PageInv, VerifyInv, Verifying, Types, SearchTypes
  <2>2. page[i] \in Strings
    BY <2>1, ElementType DEF Present
  <2>3. Oe.deps[k] \in 1..Len(deps) /\ Dep \in DepRec
    BY <2>1, VerifyFacts DEF Verifying, Dep
  <2> DEFINE new == [Dep EXCEPT !.url = page[i]]
  <2>4. deps \in Seq(DepRec) /\ deps' = [deps EXCEPT ![Oe.deps[k]] = new] /\ pc' = "sought"
    BY <1>3 DEF MatchDependency, Matched, Types, DepTypes, Dep
  <2>5. /\ new \in DepRec /\ new.id = Dep.id /\ new.name = Dep.name
        /\ new = [Dep EXCEPT !.url = new.url]
    BY <2>2, <2>3 DEF DepRec
  <2> HIDE DEF new
  <2>6. /\ deps' \in Seq(DepRec) /\ Len(deps') = Len(deps)
        /\ \A n \in 1..Len(deps) : deps'[n] = IF n = Oe.deps[k] THEN new ELSE deps[n]
    BY <2>3, <2>4, <2>5, Replaced
  <2>7. ASSUME NEW n \in 1..Len(deps), n # Oe.deps[k] PROVE deps[n] = [deps[n] EXCEPT !.url = deps[n].url]
    <3>1. deps[n] \in DepRec
      BY <2>4, ElementType
    <3> QED BY <3>1 DEF DepRec
  <2>8. ASSUME NEW n \in 1..Len(deps) PROVE deps'[n] = [deps[n] EXCEPT !.url = deps'[n].url]
    BY <2>5, <2>6, <2>7 DEF Dep
  <2> QED BY <2>1, <2>4, <2>5, <2>6, <2>8 DEF TouchDep, Dep
<1> QED BY <1>1, <1>2, <1>3, DepsChange, FreeResets

(* amvp_oe_oe_set_dependency() adds the dependency at the end, or nothing. *)
LEMMA SetDependencyFacts ==
    ASSUME OeTypes, NEW p \in 0..Len(oes), NEW d \in Nat
    PROVE  \/ SetDependency(oes, p, d).s = oes /\ (p = 0 \/ d = 0 \/ Len(oes[p].deps) = LIBAMVP_DEPENDENCIES_MAX)
           \/ /\ p # 0 /\ d # 0
              /\ SetDependency(oes, p, d).s = [oes EXCEPT ![p] = [oes[p] EXCEPT !.deps = Append(oes[p].deps, d)]]
  BY DEF SetDependency, Made

(* The operating environments after a dependency was added.                *)
LEMMA SetDependencyEffect ==
    ASSUME Types, NEW p \in 0..Len(oes), NEW d \in Nat, d # 0 => d \in 1..Len(deps'), Len(deps) <= Len(deps'),
           oes' = SetDependency(oes, p, d).s, oes' # oes, pc \in {"idle", "oes"}
    PROVE  TouchOe
<1>1. p \in 1..Len(oes) /\ oes \in Seq(OeRec) /\ oes[p] \in OeRec /\ Len(deps) \in Nat /\ d \in 1..Len(deps')
  <2>1. p # 0 /\ d # 0
    BY SetDependencyFacts DEF Types
  <2>2. p \in 1..Len(oes) /\ oes \in Seq(OeRec) /\ Len(deps) \in Nat
    BY <2>1 DEF Types, OeTypes, DepTypes
  <2> QED BY <2>1, <2>2, ElementType
<1> DEFINE new == [oes[p] EXCEPT !.deps = Append(oes[p].deps, d)]
<1>2. oes' = [oes EXCEPT ![p] = new]
  BY <1>1, SetDependencyFacts DEF Types
<1>3. /\ new \in OeRec /\ new.id = oes[p].id /\ new.url = oes[p].url
      /\ new.deps = Append(oes[p].deps, d) /\ oes[p].deps \in Seq(Nat)
  <2>1. oes[p].deps \in Seq(Nat)
    BY <1>1 DEF OeRec
  <2>2. Append(oes[p].deps, d) \in Seq(Nat)
    BY <2>1
  <2> QED BY <1>1, <2>1, <2>2 DEF OeRec
<1> HIDE DEF new
<1>4. /\ oes' \in Seq(OeRec) /\ Len(oes') = Len(oes)
      /\ \A n \in 1..Len(oes) : oes'[n] = IF n = p THEN new ELSE oes[n]
  BY <1>1, <1>2, <1>3, Replaced
<1>5. /\ Len(new.deps) = Len(oes[p].deps) + 1 /\ new.deps[Len(oes[p].deps) + 1] = d
      /\ \A q \in 1..Len(oes[p].deps) : new.deps[q] = oes[p].deps[q]
  BY <1>3, Longer
<1>6. \A n \in 1..Len(oes) : \A q \in 1..Len(oes[n].deps) : oes[n].deps[q] \in 1..Len(deps')
  BY <1>1 DEF Types, OeTypes
<1>7. ASSUME NEW n \in 1..Len(oes)
      PROVE  /\ oes'[n].id = oes[n].id /\ oes'[n].url = oes[n].url /\ Len(oes[n].deps) <= Len(oes'[n].deps)
             /\ \A q \in 1..Len(oes[n].deps) : oes'[n].deps[q] = oes[n].deps[q]
             /\ \A q \in 1..Len(oes'[n].deps) : oes'[n].deps[q] \in 1..Len(deps')
  <2>1. oes[n] \in OeRec
    BY <1>1, ElementType
  <2>2. Len(oes[n].deps) \in Nat
    BY <2>1 DEF OeRec
  <2>3. CASE n # p
    <3>1. oes'[n] = oes[n]
      BY <1>4, <2>3
    <3>2. Len(oes[n].deps) <= Len(oes'[n].deps)
      BY <2>2, <3>1
    <3> QED BY <1>6, <3>1, <3>2
  <2>4. CASE n = p
    <3>1. oes'[n] = new
      BY <1>4, <2>4
    <3>2. \A q \in 1..Len(new.deps) : q = Len(oes[p].deps) + 1 \/ q \in 1..Len(oes[p].deps)
      BY <1>5, <2>2, <2>4
    <3>3. \A q \in 1..Len(new.deps) : new.deps[q] \in 1..Len(deps')
      BY <1>1, <1>5, <1>6, <3>2
    <3>4. Len(oes[n].deps) <= Len(oes'[n].deps)
      BY <1>5, <2>2, <2>4, <3>1
    <3>5. oes'[n].id = oes[n].id /\ oes'[n].url = oes[n].url
      BY <1>3, <2>4, <3>1
    <3>6. \A q \in 1..Len(oes[n].deps) : oes'[n].deps[q] = oes[n].deps[q]
      BY <1>5, <2>4, <3>1
    <3> QED BY <3>1, <3>3, <3>4, <3>5, <3>6
  <2> QED BY <2>3, <2>4
<1> QED BY <1>4, <1>7 DEF TouchOe

(* The operating environment that is searched for gets a URL or a status.  *)
LEMMA OeFieldEffect ==
    ASSUME Types, VerifyInv, pc \in Verifying, deps' = deps, NEW r \in OeRec, r.id = Oe.id, r.deps = Oe.deps,
           r.url = Oe.url \/ (pc = "match" /\ what = "oe" /\ pc' = "sought"), oes' = [oes EXCEPT ![fips.oe] = r]
    PROVE  TouchOe
<1>1. fips.oe \in 1..Len(oes) /\ oes \in Seq(OeRec)
  BY VerifyFacts DEF Types, OeTypes
<1>2. /\ oes' \in Seq(OeRec) /\ Len(oes') = Len(oes)
      /\ \A n \in 1..Len(oes) : oes'[n] = IF n = fips.oe THEN r ELSE oes[n]
  BY <1>1, Replaced
<1>3. ASSUME NEW n \in 1..Len(oes) PROVE Len(oes[n].deps) \in Nat
  <2>1. oes[n] \in OeRec
    BY <1>1, ElementType
  <2> QED BY <2>1 DEF OeRec
<1>4. ASSUME NEW n \in 1..Len(oes)
      PROVE  /\ oes'[n].id = oes[n].id /\ oes'[n].deps = oes[n].deps
             /\ \A q \in 1..Len(oes[n].deps) : oes[n].deps[q] \in 1..Len(deps)
             /\ oes'[n].url # oes[n].url => pc = "match" /\ what = "oe" /\ pc' = "sought" /\ n = fips.oe
  BY <1>2 DEF Types, OeTypes, Oe
<1> QED BY <1>2, <1>3, <1>4 DEF TouchOe

(* verify_fips_oe_dependencies() sets the status.                          *)
LEMMA StatusEffect ==
    ASSUME Types, VerifyInv, pc \in Verifying, deps' = deps, NEW s \in {"COMPLETE", "PARTIAL", "INCOMPLETE"}, Status(s)
    PROVE  /\ TouchOe /\ oes' = [oes EXCEPT ![fips.oe] = [Oe EXCEPT !.status = s]]
           /\ [Oe EXCEPT !.status = s].deps = Oe.deps /\ [Oe EXCEPT !.status = s].url = Oe.url
           /\ [Oe EXCEPT !.status = s].status = s
<1> DEFINE r == [Oe EXCEPT !.status = s]
<1>1. Oe \in OeRec
  BY VerifyFacts
<1>2. r \in OeRec /\ r.id = Oe.id /\ r.deps = Oe.deps /\ r.url = Oe.url /\ r.status = s
  BY <1>1 DEF OeRec
<1>3. oes' = [oes EXCEPT ![fips.oe] = r]
  BY DEF Status, Oe
<1> HIDE DEF r
<1>4. TouchOe
  BY <1>2, <1>3, OeFieldEffect
<1> QED BY <1>2, <1>3, <1>4 DEF r

LEMMA OesEffect ==
    Types /\ VerifyInv /\ PageInv /\ [Next]_vars => oes' = oes \/ GrowOes \/ TouchOe \/ Reset
<1> SUFFICES ASSUME Types, VerifyInv, PageInv, [Next]_vars, oes' # oes PROVE GrowOes \/ TouchOe \/ Reset
  OBVIOUS
<1>0. oes \in Seq(OeRec) /\ deps \in Seq(DepRec) /\ Len(deps) \in Nat
  BY DEF Types, OeTypes, DepTypes
<1>1. ASSUME NEW id \in Nat, NEW kind, oes' = OeNew(id, kind).s, deps' = deps, pc \in {"idle", "oes"} PROVE GrowOes
  <2> DEFINE new == [id |-> id, url |-> NULL, deps |-> <<>>, status |-> NULL]
  <2>1. oes' = Append(oes, new) /\ Find(oes, id) = 0
    BY <1>1 DEF OeNew, Made
  <2>2. \A n \in 1..Len(oes) : oes[n].id # id
    BY <1>0, <2>1, FindFacts
  <2>3. new \in OeRec
    BY <1>1, FilesAssumption DEF OeRec
  <2> QED BY <1>1, <2>1, <2>2, <2>3 DEF GrowOes
<1>2. ASSUME NEW id \in UserIds, CallOeNew(id) PROVE GrowOes
  <2>1. id \in Nat
    BY BoundsAssumption
  <2> QED BY <1>1, <1>2, <2>1, Zenon DEF CallOeNew, Api
<1>3. CASE ParseOe
  <2>1. glb.oe \in Nat
    BY DEF Types, GlbTypes
  <2>2. oes' = OeNew(glb.oe, file.oes[pos].kind).s
    BY <1>3 DEF ParseOe, Made
  <2> QED BY <1>1, <1>3, <2>1, <2>2 DEF ParseOe
<1>4. ASSUME NEW o \in UserIds, NEW d \in UserIds, CallSetDependency(o, d) PROVE TouchOe
  <2>1. Find(oes, o) \in 0..Len(oes) /\ Find(deps, d) \in 0..Len(deps)
    BY <1>0, FindFacts
  <2>2. deps' = deps /\ oes' = SetDependency(oes, Find(oes, o), Find(deps, d)).s /\ pc = "idle"
    BY <1>4 DEF CallSetDependency, Api
  <2> QED BY <1>0, <2>1, <2>2, SetDependencyEffect
<1>5. CASE ParseDependency
  <2>1. PICK p : WritesDep(p) /\ AddsDep(p)
    BY <1>5, ParseDependencyEffect DEF FailsParse
  <2>2. Find(oes, glb.oe - 1) \in 0..Len(oes)
    BY <1>0, FindFacts
  <2>3. p \in 1..Len(deps') /\ Len(deps) <= Len(deps') /\ p \in Nat
    BY <1>0, <2>1 DEF WritesDep
  <2> QED BY <1>5, <2>1, <2>2, <2>3, SetDependencyEffect DEF AddsDep, ParseDependency
<1>6. CASE MatchOe
  <2>1. /\ pc = "match" /\ what = "oe" /\ i \in 1..Len(page) /\ page \in Seq(Present) /\ deps' = deps
    BY <1>6 DEF MatchOe, Candidate, PageInv, Types, SearchTypes
  <2>2. page[i] \in Strings
    BY <2>1, ElementType DEF Present
  <2>3. Oe \in OeRec
    BY <2>1, VerifyFacts DEF Verifying
  <2> DEFINE r == [Oe EXCEPT !.url = page[i]]
  <2>4. r \in OeRec /\ r.id = Oe.id /\ r.deps = Oe.deps
    BY <2>2, <2>3 DEF OeRec
  <2>5. oes' = [oes EXCEPT ![fips.oe] = r] /\ pc' = "sought"
    BY <1>6 DEF MatchOe, Matched, Oe
  <2> HIDE DEF r
  <2> QED BY <2>1, <2>4, <2>5, OeFieldEffect DEF Verifying
<1>7. CASE ModuleSought \/ DependencySought \/ Dependencies
  <2>1. pc \in Verifying /\ deps' = deps /\ \E s \in {"COMPLETE", "PARTIAL", "INCOMPLETE"} : Status(s)
    BY <1>7 DEF ModuleSought, DependencySought, Dependencies, Verifying
  <2> QED BY <2>1, StatusEffect
<1> QED BY <1>2, <1>3, <1>4, <1>5, <1>6, <1>7, OesChange, FreeResets
-----------------------------------------------------------------------------
(* The types.                                                              *)
LEMMA LengthsGrow ==
    ASSUME Types, VerifyInv, PageInv, [Next]_vars
    PROVE  \/ Reset
           \/ /\ Len(vendors) <= Len(vendors') /\ Len(modules) <= Len(modules')
              /\ Len(deps) <= Len(deps') /\ Len(oes) <= Len(oes')
<1> USE DEF Types
<1>1. Reset \/ Len(vendors) <= Len(vendors')
  BY VendorsEffect DEF VendorTypes, GrowVendors, TouchVendor
<1>2. Reset \/ Len(modules) <= Len(modules')
  BY ModulesEffect DEF ModuleTypes, GrowModules, TouchModule
<1>3. Reset \/ Len(deps) <= Len(deps')
  BY DepsEffect DEF DepTypes, GrowDeps, TouchDep
<1>4. Reset \/ Len(oes) <= Len(oes')
  BY OesEffect DEF OeTypes, GrowOes, TouchOe
<1> QED BY <1>1, <1>2, <1>3, <1>4

LEMMA VendorTypesStep == Types /\ VerifyInv /\ PageInv /\ [Next]_vars => VendorTypes'
<1> SUFFICES ASSUME Types, VerifyInv, PageInv, [Next]_vars PROVE VendorTypes'
  OBVIOUS
<1>0. VendorTypes
  BY DEF Types
<1>1. CASE vendors' = vendors
  BY <1>0, <1>1 DEF VendorTypes
<1>2. CASE GrowVendors
  <2>1. PICK v \in VendorRec : DOMAIN v.personUrls = DOMAIN v.data.persons /\ vendors' = Append(vendors, v)
    BY <1>2 DEF GrowVendors
  <2>2. /\ vendors' \in Seq(VendorRec) /\ Len(vendors') = Len(vendors) + 1 /\ vendors'[Len(vendors) + 1] = v
        /\ \A n \in 1..Len(vendors) : vendors'[n] = vendors[n]
    BY <1>0, <2>1, Longer DEF VendorTypes
  <2> QED BY <1>0, <2>1, <2>2 DEF VendorTypes
<1>3. CASE TouchVendor
  BY <1>0, <1>3 DEF VendorTypes, TouchVendor
<1>4. CASE Reset
  BY <1>4 DEF VendorTypes, Reset
<1> QED BY <1>1, <1>2, <1>3, <1>4, VendorsEffect

LEMMA ModuleTypesStep == Types /\ VerifyInv /\ PageInv /\ [Next]_vars => ModuleTypes'
<1> SUFFICES ASSUME Types, VerifyInv, PageInv, [Next]_vars PROVE ModuleTypes'
  OBVIOUS
<1>0. ModuleTypes /\ Len(vendors) \in Nat /\ Len(vendors') \in Nat
  BY VendorTypesStep DEF Types, VendorTypes
<1>1. CASE Reset
  BY <1>1 DEF ModuleTypes, Reset
<1>2. CASE ~Reset
  <2>1. Len(vendors) <= Len(vendors')
    BY <1>2, LengthsGrow
  <2>2. \A n \in 1..Len(modules) : modules[n].vendor \in Nat
    <3>1. \A n \in 1..Len(modules) : modules[n] \in ModuleRec
      BY <1>0, ElementType DEF ModuleTypes
    <3> QED BY <3>1 DEF ModuleRec
  <2>3. CASE modules' = modules
    BY <1>0, <2>1, <2>2, <2>3 DEF ModuleTypes
  <2>4. CASE GrowModules
    <3>1. PICK m \in ModuleRec : m.vendor <= Len(vendors) /\ modules' = Append(modules, m) /\ vendors' = vendors
      BY <2>4 DEF GrowModules
    <3>2. /\ modules' \in Seq(ModuleRec) /\ Len(modules') = Len(modules) + 1 /\ modules'[Len(modules) + 1] = m
          /\ \A n \in 1..Len(modules) : modules'[n] = modules[n]
      BY <1>0, <3>1, Longer DEF ModuleTypes
    <3> QED BY <1>0, <3>1, <3>2 DEF ModuleTypes
  <2>5. CASE TouchModule
    BY <1>0, <2>5 DEF ModuleTypes, TouchModule
  <2> QED BY <1>2, <2>3, <2>4, <2>5, ModulesEffect
<1> QED BY <1>1, <1>2

LEMMA DepTypesStep == Types /\ VerifyInv /\ PageInv /\ [Next]_vars => DepTypes'
<1> SUFFICES ASSUME Types, VerifyInv, PageInv, [Next]_vars PROVE DepTypes'
  OBVIOUS
<1>0. DepTypes /\ LIBAMVP_DEPENDENCIES_MAX \in Nat
  BY BoundsAssumption DEF Types
<1>1. CASE deps' = deps
  BY <1>0, <1>1 DEF DepTypes
<1>2. CASE GrowDeps
  <2>1. PICK d \in DepRec : deps' = Append(deps, d) /\ Len(deps) < LIBAMVP_DEPENDENCIES_MAX
    BY <1>2 DEF GrowDeps
  <2>2. deps' \in Seq(DepRec) /\ Len(deps') = Len(deps) + 1
    BY <1>0, <2>1, Longer DEF DepTypes
  <2> QED BY <1>0, <2>1, <2>2 DEF DepTypes
<1>3. CASE TouchDep
  BY <1>0, <1>3 DEF DepTypes, TouchDep
<1>4. CASE Reset
  BY <1>0, <1>4 DEF DepTypes, Reset
<1> QED BY <1>1, <1>2, <1>3, <1>4, DepsEffect

LEMMA OeTypesStep == Types /\ VerifyInv /\ PageInv /\ [Next]_vars => OeTypes'
<1> SUFFICES ASSUME Types, VerifyInv, PageInv, [Next]_vars PROVE OeTypes'
  OBVIOUS
<1>0. OeTypes /\ Len(deps) \in Nat /\ Len(deps') \in Nat
  BY DepTypesStep DEF Types, DepTypes
<1>1. CASE Reset
  BY <1>1 DEF OeTypes, Reset
<1>2. CASE ~Reset
  <2>1. Len(deps) <= Len(deps')
    BY <1>2, LengthsGrow
  <2>2. CASE oes' = oes
    BY <1>0, <2>1, <2>2 DEF OeTypes
  <2>3. CASE GrowOes
    <3>1. PICK o \in OeRec : o.deps = <<>> /\ oes' = Append(oes, o) /\ deps' = deps
      BY <2>3 DEF GrowOes
    <3>2. /\ oes' \in Seq(OeRec) /\ Len(oes') = Len(oes) + 1 /\ oes'[Len(oes) + 1] = o
          /\ \A n \in 1..Len(oes) : oes'[n] = oes[n]
      BY <1>0, <3>1, Longer DEF OeTypes
    <3>3. Len(o.deps) = 0
      BY <3>1
    <3> QED BY <1>0, <3>1, <3>2, <3>3 DEF OeTypes
  <2>4. CASE TouchOe
    BY <1>0, <2>4 DEF OeTypes, TouchOe
  <2> QED BY <1>2, <2>2, <2>3, <2>4, OesEffect
<1> QED BY <1>1, <1>2

(* fips changes only when the application selects something.               *)
LEMMA FipsChange ==
    [Next]_vars => fips' = fips \/ (\E m, o \in UserIds \cup {0} : Select(m, o)) \/ FreeOperatingEnv
  BY DEF Next, Step, vars, env, CallModuleNew, CallDependencyNew, CallOeNew, CallModuleSet,
         CallSetDependency, IngestMetadata, Verify, ParseVendor, ParseModule, ParseOe,
         ParseDependency, EndOfArray, Query, GetPage, NextPage, MatchVendor, QueryContacts,
         MatchModule, MatchDependency, MatchOe, VendorSought, ModuleSought, DependencySought,
         Dependencies, OeSought, Verified, VerifyFrame, MatchFrame, IngestFrame, Called
LEMMA FipsTypesStep == Types /\ VerifyInv /\ PageInv /\ [Next]_vars => FipsTypes'
<1> SUFFICES ASSUME Types, VerifyInv, PageInv, [Next]_vars PROVE FipsTypes'
  OBVIOUS
<1>0. FipsTypes /\ Len(modules) \in Nat /\ Len(oes) \in Nat /\ Len(modules') \in Nat /\ Len(oes') \in Nat
  BY ModuleTypesStep, OeTypesStep DEF Types, ModuleTypes, OeTypes
<1>1. CASE Reset
  BY <1>1 DEF FipsTypes, Reset
<1>2. CASE ~Reset
  <2>1. Len(modules) <= Len(modules') /\ Len(oes) <= Len(oes')
    BY <1>2, LengthsGrow
  <2>2. CASE fips' = fips
    BY <1>0, <2>1, <2>2 DEF FipsTypes
  <2>3. ASSUME NEW m, NEW o, Select(m, o) PROVE FipsTypes'
    <3>1. Find(modules, m) \in 0..Len(modules) /\ Find(oes, o) \in 0..Len(oes)
      BY FindFacts DEF Types, ModuleTypes, OeTypes
    <3>2. fips'.module \in 0..Len(modules) /\ fips'.oe \in 0..Len(oes)
         /\ fips' = [module |-> fips'.module, oe |-> fips'.oe]
      BY <1>0, <2>3, <3>1 DEF Select, FipsTypes
    <3> QED BY <1>0, <2>1, <3>2 DEF FipsTypes
  <2> QED BY <1>2, <2>2, <2>3, FipsChange, FreeResets
<1> QED BY <1>1, <1>2

LEMMA GlbTypesStep == Types /\ [Next]_vars => GlbTypes'
<1> SUFFICES ASSUME GlbTypes, [Next]_vars PROVE GlbTypes'
  BY DEF Types
<1>1. \/ glb' = glb \/ glb' = [glb EXCEPT !.vendor = @ + 1] \/ glb' = [glb EXCEPT !.module = @ + 1]
      \/ glb' = [glb EXCEPT !.oe = @ + 1] \/ glb' = [glb EXCEPT !.dependency = @ + 1]
  BY DEF Next, Step, vars, env, CallModuleNew, CallDependencyNew, CallOeNew, CallModuleSet,
         CallSetDependency, Select, FreeOperatingEnv, IngestMetadata, Verify, ParseVendor,
         ParseModule, ParseOe, ParseDependency, EndOfArray, Query, GetPage, NextPage, MatchVendor,
         QueryContacts, MatchModule, MatchDependency, MatchOe, VendorSought, ModuleSought,
         DependencySought, Dependencies, OeSought, Verified, VerifyFrame, MatchFrame, IngestFrame,
         Called, Api, Stop, Return, Seek, Matched, NextCandidate, Candidate, Status, Element, Fail,
         EndIngest, search, parse, bounds
<1> QED BY <1>1 DEF GlbTypes

(* The cursor of a load moves only in a load.                              *)
LEMMA ParseChange ==
    [Next]_vars =>
      \/ UNCHANGED parse /\ (pc' = pc \/ pc' \in {"idle", "hung", "crashed"} \cup Verifying)
      \/ (\E f \in Files : IngestMetadata(f))
      \/ ParseVendor \/ ParseModule \/ ParseOe \/ ParseDependency \/ EndOfArray
  BY DEF Next, Step, vars, env, CallModuleNew, CallDependencyNew, CallOeNew, CallModuleSet,
         CallSetDependency, Select, FreeOperatingEnv, Verify, Query, GetPage, NextPage, MatchVendor,
         QueryContacts, MatchModule, MatchDependency, MatchOe, VendorSought, ModuleSought,
         DependencySought, Dependencies, OeSought, Verified, VerifyFrame, MatchFrame, IngestFrame,
         Called, Api, Stop, Return, Seek, Matched, NextCandidate, Candidate, Status, Element, Fail,
         EndIngest, search, parse, bounds, Verifying

LEMMA ParseTypesStep == Types /\ [Next]_vars => ParseTypes'
<1> SUFFICES ASSUME Types, [Next]_vars PROVE ParseTypes'
  OBVIOUS
<1>0. ParseTypes /\ file \in Metadata /\ Empty \in Metadata
  BY DEF Types, ParseTypes, Metadata, Empty
<1>1. CASE UNCHANGED parse /\ (pc' = pc \/ pc' \in {"idle", "hung", "crashed"} \cup Verifying)
  BY <1>0, <1>1 DEF ParseTypes, parse, Verifying
<1>2. ASSUME NEW f \in Files, IngestMetadata(f) PROVE ParseTypes'
  BY <1>2, FilesAssumption DEF ParseTypes, IngestMetadata
<1>3. CASE file' = Empty /\ pos' = 0 /\ sub' = 0 /\ pc' = "idle"
  BY <1>0, <1>3 DEF ParseTypes
<1>4. CASE ParseVendor \/ ParseModule
  BY <1>0, <1>3, <1>4 DEF ParseTypes, ParseVendor, ParseModule, Element, Fail, EndIngest, Return
<1>5. CASE ParseOe
  <2>1. CASE file' = Empty /\ pos' = 0 /\ sub' = 0 /\ pc' = "idle"
    BY <1>3, <2>1
  <2>2. CASE file.oes[pos].deps # <<>> /\ sub' = 1 /\ UNCHANGED <<pc, file, pos>>
    <3>1. file.oes \in Seq(OeElement) /\ pos \in 1..Len(file.oes)
      BY <1>0, <1>5 DEF ParseTypes, Metadata, ParseOe
    <3>2. file.oes[pos].deps \in Seq(DepElement)
      <4>1. file.oes[pos] \in OeElement
        BY <3>1, ElementType
      <4> QED BY <4>1 DEF OeElement
    <3>3. Len(file.oes[pos].deps) \in Nat /\ Len(file.oes[pos].deps) # 0
      BY <2>2, <3>2
    <3> QED BY <1>0, <1>5, <2>2, <3>1, <3>3 DEF ParseTypes, ParseOe
  <2> QED BY <1>5, <2>1, <2>2 DEF ParseOe, Fail, EndIngest, Return
<1>6. CASE ParseDependency
  <2>1. FailsParse \/ \E p : AddsDep(p)
    BY <1>6, ParseDependencyEffect
  <2>2. CASE FailsParse
    BY <1>3, <2>2 DEF FailsParse
  <2>3. CASE \E p : AddsDep(p)
    <3>1. pc = "oes" /\ sub > 0
      BY <1>6 DEF ParseDependency
    <3>2. /\ file.oes \in Seq(OeElement) /\ pos \in 1..Len(file.oes)
          /\ file.oes[pos].deps \in Seq(DepElement) /\ sub \in 1..Len(file.oes[pos].deps)
      BY <3>1, DepElementRead
    <3>3. Len(file.oes) \in Nat /\ Len(file.oes[pos].deps) \in Nat
      BY <3>2
    <3> QED BY <1>0, <2>3, <3>1, <3>2, <3>3 DEF AddsDep, ParseTypes
  <2> QED BY <2>1, <2>2, <2>3
<1>7. CASE EndOfArray
  BY <1>0, <1>3, <1>7 DEF ParseTypes, EndOfArray, Fail, EndIngest, Return
<1> QED BY <1>1, <1>2, <1>4, <1>5, <1>6, <1>7, ParseChange

(* The candidates of a page are URLs that the server has.                  *)
LEMMA OfferedPresent == SearchTypes => Offered \subseteq Present
<1> SUFFICES ASSUME SearchTypes, NEW u \in Offered PROVE u \in Present
  OBVIOUS
<1>1. u \in DOMAIN VendorTable \/ u \in DOMAIN ModuleTable \/ u \in DOMAIN DepTable \/ u \in DOMAIN OeTable
  BY DEF Offered, SearchTypes
<1> QED BY <1>1, DatabaseAssumption

LEMMA PageFacts ==
    ASSUME NEW p \in Pages
    PROVE  p \in Seq(Offered) /\ \A n \in 1..Len(p) : p[n] \in Offered
<1>1. PICK n \in 0..PageSize : p \in [1..n -> Offered]
  BY Zenon DEF Pages
<1>2. n \in Nat
  BY <1>1, BoundsAssumption
<1>3. p \in Seq(Offered)
  BY <1>1, <1>2
<1> QED BY <1>3, ElementType

LEMMA SearchTypesStep == Types /\ PageInv /\ [Next]_vars => SearchTypes'
<1> SUFFICES ASSUME Types, PageInv, [Next]_vars PROVE SearchTypes'
  OBVIOUS
<1>0. SearchTypes /\ Cleared \in [series : Strings, family : Strings]
  BY FilesAssumption DEF Types, Cleared
<1>1. what' \in {"vendor", "module", "dependency", "oe"}
  <2>1. what' = what \/ what' \in {"vendor", "module", "dependency", "oe"}
    BY DEF Next, Step, vars, env, CallModuleNew, CallDependencyNew, CallOeNew, CallModuleSet,
           CallSetDependency, Select, FreeOperatingEnv, IngestMetadata, Verify, ParseVendor,
           ParseModule, ParseOe, ParseDependency, EndOfArray, Query, GetPage, NextPage, MatchVendor,
           QueryContacts, MatchModule, MatchDependency, MatchOe, VendorSought, ModuleSought,
           DependencySought, Dependencies, OeSought, Verified, VerifyFrame, MatchFrame, IngestFrame,
           Called, Api, Stop, Return, Seek, Matched, NextCandidate, Candidate, Status, Element,
           Fail, EndIngest, search, parse, bounds
  <2> QED BY <1>0, <2>1 DEF SearchTypes
<1>2. page' \in Seq(Present)
  <2>1. page' = page \/ page' = <<>> \/ page' \in Pages
    BY DEF Next, Step, vars, env, CallModuleNew, CallDependencyNew, CallOeNew, CallModuleSet,
           CallSetDependency, Select, FreeOperatingEnv, IngestMetadata, Verify, ParseVendor,
           ParseModule, ParseOe, ParseDependency, EndOfArray, Query, GetPage, NextPage, MatchVendor,
           QueryContacts, MatchModule, MatchDependency, MatchOe, VendorSought, ModuleSought,
           DependencySought, Dependencies, OeSought, Verified, VerifyFrame, MatchFrame, IngestFrame,
           Called, Api, Stop, Return, Seek, Matched, NextCandidate, Candidate, Status, Element,
           Fail, EndIngest, search, parse, bounds
  <2>2. ASSUME page' \in Pages PROVE page' \in Seq(Present)
    <3>1. page' \in Seq(Offered)
      BY <2>2, PageFacts
    <3> QED BY <1>0, <3>1, OfferedPresent
  <2>3. page \in Seq(Present) /\ <<>> \in Seq(Present)
    BY <1>0 DEF SearchTypes
  <2> QED BY <2>1, <2>2, <2>3, Zenon
<1>3. i' \in Nat /\ pages' \in Nat /\ k' \in Nat
  <2>1. /\ i' = i \/ i' = i + 1 \/ i' = 0 \/ i' = 1
        /\ pages' = pages \/ pages' = pages + 1 \/ pages' = 0
        /\ k' = k \/ k' = k + 1 \/ k' = 0 \/ k' = 1
    BY DEF Next, Step, vars, env, CallModuleNew, CallDependencyNew, CallOeNew, CallModuleSet,
           CallSetDependency, Select, FreeOperatingEnv, IngestMetadata, Verify, ParseVendor,
           ParseModule, ParseOe, ParseDependency, EndOfArray, Query, GetPage, NextPage, MatchVendor,
           QueryContacts, MatchModule, MatchDependency, MatchOe, VendorSought, ModuleSought,
           DependencySought, Dependencies, OeSought, Verified, VerifyFrame, MatchFrame, IngestFrame,
           Called, Api, Stop, Return, Seek, Matched, NextCandidate, Candidate, Status, Element,
           Fail, EndIngest, search, parse, bounds
  <2> QED BY <1>0, <2>1 DEF SearchTypes
<1>4. tmp_dep' \in [series : Strings, family : Strings]
  <2>1. tmp_dep' = tmp_dep \/ tmp_dep' = Cleared \/ MatchDependency
    BY DEF Next, Step, vars, env, CallModuleNew, CallDependencyNew, CallOeNew, CallModuleSet,
           CallSetDependency, Select, FreeOperatingEnv, IngestMetadata, Verify, ParseVendor,
           ParseModule, ParseOe, ParseDependency, EndOfArray, Query, GetPage, NextPage, MatchVendor,
           QueryContacts, MatchModule, MatchOe, VendorSought, ModuleSought, DependencySought,
           Dependencies, OeSought, Verified, VerifyFrame, MatchFrame, IngestFrame, Called, Api,
           Stop, Return, Seek, Matched, NextCandidate, Candidate, Status, Element, Fail, EndIngest,
           search, parse, bounds
  <2>2. ASSUME MatchDependency, tmp_dep' # Cleared PROVE tmp_dep' \in [series : Strings, family : Strings]
    <3>1. tmp_dep' = Filled(DepTable[page[i]])
      BY <2>2 DEF MatchDependency, Matched
    <3>2. DepTable[page[i]] \in DepEntry
      BY <1>0, <2>2, DatabaseAssumption DEF MatchDependency, Candidate, PageInv, SearchTypes, Offered
    <3> QED BY <1>0, <3>1, <3>2 DEF Filled, SearchTypes, DepEntry, Present
  <2> QED BY <1>0, <2>1, <2>2 DEF SearchTypes
<1> QED BY <1>1, <1>2, <1>3, <1>4 DEF SearchTypes

LEMMA FlowTypesStep == Types /\ [Next]_vars => FlowTypes'
<1> SUFFICES ASSUME FlowTypes, [Next]_vars PROVE FlowTypes'
  BY DEF Types
<1>1. pc' = pc \/ pc' \in {"idle", "vendors", "modules", "oes", "hung", "crashed"} \cup Verifying
  BY DEF Next, Step, vars, env, CallModuleNew, CallDependencyNew, CallOeNew, CallModuleSet,
         CallSetDependency, Select, FreeOperatingEnv, IngestMetadata, Verify, ParseVendor,
         ParseModule, ParseOe, ParseDependency, EndOfArray, Query, GetPage, NextPage, MatchVendor,
         QueryContacts, MatchModule, MatchDependency, MatchOe, VendorSought, ModuleSought,
         DependencySought, Dependencies, OeSought, Verified, VerifyFrame, MatchFrame, IngestFrame,
         Called, Api, Stop, Return, Seek, Matched, NextCandidate, Candidate, Status, Element, Fail,
         EndIngest, search, parse, bounds, Verifying
<1>2. bad' \in BOOLEAN
  <2>1. bad' = bad \/ bad' = TRUE \/ bad' = FALSE \/ \E code : bad' = (bad \/ code # "AMVP_SUCCESS")
    BY DEF Next, Step, vars, env, CallModuleNew, CallDependencyNew, CallOeNew, CallModuleSet,
           CallSetDependency, Select, FreeOperatingEnv, IngestMetadata, Verify, ParseVendor,
           ParseModule, ParseOe, ParseDependency, EndOfArray, Query, GetPage, NextPage, MatchVendor,
           QueryContacts, MatchModule, MatchDependency, MatchOe, VendorSought, ModuleSought,
           DependencySought, Dependencies, OeSought, Verified, VerifyFrame, MatchFrame, IngestFrame,
           Called, Api, Stop, Return, Seek, Matched, NextCandidate, Candidate, Status, Element,
           Fail, EndIngest, search, parse, bounds
  <2> QED BY <2>1, Zenon DEF FlowTypes
<1> QED BY <1>1, <1>2, Zenon DEF FlowTypes

LEMMA TypesStep == Types /\ VerifyInv /\ PageInv /\ [Next]_vars => Types'
  BY VendorTypesStep, ModuleTypesStep, DepTypesStep, OeTypesStep, FipsTypesStep, GlbTypesStep, ParseTypesStep,
     SearchTypesStep, FlowTypesStep DEF Types
-----------------------------------------------------------------------------
(* The steps of a verification, and what they leave alone.                 *)
LEMMA VerifyingStep ==
    ASSUME [Next]_vars, pc' \in Verifying
    PROVE  \/ Verify
           \/ pc \in Verifying /\ fips' = fips /\ bad' = bad /\ glb' = glb /\ ~Reset
  BY DEF Next, Step, vars, env, CallModuleNew, CallDependencyNew, CallOeNew, CallModuleSet,
         CallSetDependency, Select, FreeOperatingEnv, IngestMetadata, ParseVendor, ParseModule,
         ParseOe, ParseDependency, EndOfArray, Query, GetPage, NextPage, MatchVendor, QueryContacts,
         MatchModule, MatchDependency, MatchOe, VendorSought, ModuleSought, DependencySought,
         Dependencies, OeSought, Verified, VerifyFrame, MatchFrame, IngestFrame, Called, Api, Stop,
         Return, Seek, Matched, NextCandidate, Candidate, Status, Element, Fail, EndIngest, search,
         parse, bounds, Verifying, Reset

LEMMA VerifyKeeps ==
    ASSUME Types, VerifyInv, PageInv, [Next]_vars, pc \in Verifying, pc' \in Verifying
    PROVE  /\ fips' = fips /\ bad' = bad /\ glb' = glb
           /\ vendors' = vendors \/ TouchVendor
           /\ modules' = modules \/ TouchModule
           /\ deps' = deps \/ TouchDep
           /\ oes' = oes \/ TouchOe
           /\ Mod'.vendor = Mod.vendor /\ Mod'.data = Mod.data /\ Oe'.deps = Oe.deps
<1>1. fips' = fips /\ bad' = bad /\ glb' = glb /\ ~Reset
  BY VerifyingStep DEF Verify, Api, Verifying
<1>2. vendors' = vendors \/ TouchVendor
  BY <1>1, VendorsEffect DEF GrowVendors, Verifying
<1>3. modules' = modules \/ TouchModule
  BY <1>1, ModulesEffect DEF GrowModules, Verifying
<1>4. deps' = deps \/ TouchDep
  BY <1>1, DepsEffect DEF GrowDeps, Verifying
<1>5. oes' = oes \/ TouchOe
  BY <1>1, OesEffect DEF GrowOes, Verifying
<1>6. fips.module \in 1..Len(modules) /\ fips.oe \in 1..Len(oes)
  BY VerifyFacts
<1>7. Mod'.vendor = Mod.vendor /\ Mod'.data = Mod.data
  BY <1>1, <1>3, <1>6 DEF Mod, TouchModule, Verifying
<1>8. Oe'.deps = Oe.deps
  BY <1>1, <1>5, <1>6 DEF Oe, TouchOe, Verifying
<1> QED BY <1>1, <1>2, <1>3, <1>4, <1>5, <1>7, <1>8

(* The vendor changes only as long as it is searched for.                  *)
LEMMA VendorKept ==
    ASSUME Types, VerifyInv, PageInv, [Next]_vars, pc \in Verifying, pc' \in Verifying,
           what # "vendor" \/ pc \notin {"match", "contacts"}
    PROVE  vendors' = vendors /\ Ven' = Ven
<1>1. vendors' = vendors
  BY VerifyKeeps DEF TouchVendor
<1> QED BY <1>1, VerifyKeeps DEF Ven

(* The places of a search: where it may be after a step.                   *)
LEMMA SearchFlow ==
    ASSUME [Next]_vars, pc \in Verifying, pc' \in Verifying
    PROVE  /\ pc' = "contacts" => pc = "contacts" \/ (pc = "match" /\ what = "vendor" /\ what' = what)
           /\ pc' = "dependencies" =>
                \/ pc = "dependencies" /\ what' = what /\ k' = k
                \/ pc = "sought" /\ what \in {"module", "dependency"} /\ what' = "dependency"
                   /\ k' = IF what = "module" THEN 1 ELSE k + 1
           /\ pc' \in {"get", "match", "contacts", "sought"} =>
                what' = what /\ k' = k /\ pc \in {"seek", "get", "match", "contacts", "sought"}
           /\ pc' = "seek" =>
                \/ pc = "seek" /\ what' = what /\ k' = k
                \/ pc = "sought" /\ what = "vendor" /\ what' = "module" /\ Ven.url # NULL
                \/ pc = "dependencies" /\ what' = "dependency" /\ k' = k /\ k <= Len(Oe.deps)
                \/ pc = "dependencies" /\ what' = "oe"
           /\ pc' = "verified" =>
                \/ pc = "verified" /\ what' = what
                \/ pc = "dependencies"
                \/ pc = "sought" /\ what = "oe"
  BY DEF Next, Step, vars, env, CallModuleNew, CallDependencyNew, CallOeNew, CallModuleSet,
         CallSetDependency, Select, FreeOperatingEnv, IngestMetadata, Verify, ParseVendor,
         ParseModule, ParseOe, ParseDependency, EndOfArray, Query, GetPage, NextPage, MatchVendor,
         QueryContacts, MatchModule, MatchDependency, MatchOe, VendorSought, ModuleSought,
         DependencySought, Dependencies, OeSought, Verified, VerifyFrame, MatchFrame, IngestFrame,
         Called, Api, Stop, Return, Seek, Matched, NextCandidate, Candidate, Status, Element, Fail,
         EndIngest, search, parse, bounds, Verifying

LEMMA VerifyInvStep == Types /\ VerifyInv /\ PageInv /\ [Next]_vars => VerifyInv'
<1> SUFFICES ASSUME Types, VerifyInv, PageInv, [Next]_vars, pc' \in Verifying
             PROVE  /\ fips'.module # 0 /\ fips'.oe # 0 /\ Mod'.vendor # 0
                    /\ pc' = "dependencies" => k' >= 1 /\ what' = "dependency"
                    /\ pc' = "contacts" => what' = "vendor"
                    /\ what' = "dependency" /\ pc' \in {"seek", "get", "match", "sought"} => k' \in 1..Len(Oe'.deps)
                    /\ what' # "vendor" \/ pc' \in {"dependencies", "verified"} => Ven'.url # NULL
  BY DEF VerifyInv
<1>1. CASE Verify
  BY <1>1 DEF Verify, Api, Seek, Return, Verifying, Mod, env
<1>2. CASE pc \in Verifying
  <2>1. fips' = fips /\ fips.module # 0 /\ fips.oe # 0 /\ Mod'.vendor # 0 /\ Oe'.deps = Oe.deps
    BY <1>2, VerifyKeeps DEF VerifyInv
  <2>2. pc' = "dependencies" => k' >= 1 /\ what' = "dependency"
    <3>1. k \in Nat
      BY DEF Types, SearchTypes
    <3> QED BY <1>2, <3>1, SearchFlow DEF VerifyInv
  <2>3. pc' = "contacts" => what' = "vendor"
    BY <1>2, SearchFlow DEF VerifyInv
  <2>4. what' = "dependency" /\ pc' \in {"seek", "get", "match", "sought"} => k' \in 1..Len(Oe.deps)
    <3>1. k \in Nat
      BY DEF Types, SearchTypes
    <3>2. Oe.deps \in Seq(Nat)
      BY <1>2, VerifyFacts DEF OeRec
    <3> QED BY <1>2, <3>1, <3>2, SearchFlow DEF VerifyInv
  <2>5. what' # "vendor" \/ pc' \in {"dependencies", "verified"} => Ven'.url # NULL
    <3>1. CASE what # "vendor" \/ pc \notin {"match", "contacts"}
      <4>1. Ven' = Ven
        BY <1>2, <3>1, VendorKept
      <4> QED BY <1>2, <4>1, SearchFlow DEF VerifyInv, Verifying
    <3>2. CASE what = "vendor" /\ pc \in {"match", "contacts"}
      BY <1>2, <3>2, SearchFlow DEF Verifying
    <3> QED BY <3>1, <3>2
  <2> QED BY <2>1, <2>2, <2>3, <2>4, <2>5
<1> QED BY <1>1, <1>2, VerifyingStep

(* What is searched for keeps what it is searched by.                      *)
LEMMA SoughtKept ==
    ASSUME Types, VerifyInv, PageInv, [Next]_vars, pc \in {"get", "match", "contacts"},
           pc' \in {"get", "match", "contacts"}
    PROVE  /\ what' = what /\ k' = k /\ Sought' = Sought /\ Offered' = Offered
           /\ Ven'.data = Ven.data /\ (what # "vendor" => Ven' = Ven) /\ Mod'.data = Mod.data
           /\ (what = "dependency" => Dep' = Dep) /\ (what = "oe" => DepUrls(Oe)' = DepUrls(Oe))
<1> USE DEF Verifying
<1>1. what' = what /\ k' = k /\ (pc' = "contacts" => what = "vendor")
  BY SearchFlow DEF VerifyInv
<1>2. /\ fips' = fips /\ Mod'.vendor = Mod.vendor /\ Mod'.data = Mod.data /\ Oe'.deps = Oe.deps
      /\ fips.module \in 1..Len(modules) /\ fips.oe \in 1..Len(oes) /\ Mod.vendor \in 1..Len(vendors)
  BY VerifyKeeps, VerifyFacts
<1>3. Ven'.data = Ven.data /\ Ven'.url = Ven.url
  BY <1>2, VerifyKeeps DEF Ven, TouchVendor
<1>4. what # "vendor" => Ven' = Ven
  BY VendorKept
<1>5. Mod'.url = Mod.url
  BY <1>2, VerifyKeeps DEF Mod, TouchModule
<1>6. Oe'.url = Oe.url
  BY <1>2, VerifyKeeps DEF Oe, TouchOe
<1>7. what = "dependency" => Dep' = Dep
  <2> SUFFICES ASSUME what = "dependency" PROVE Dep' = Dep
    OBVIOUS
  <2>1. pc # "contacts" /\ pc' # "contacts"
    BY <1>1 DEF VerifyInv
  <2>2. k \in 1..Len(Oe.deps)
    BY <2>1 DEF VerifyInv
  <2>3. Oe.deps[k] \in 1..Len(deps) /\ Dep \in DepRec
    BY <2>2, VerifyFacts DEF Dep
  <2>4. deps'[Oe.deps[k]] = deps[Oe.deps[k]]
    <3>1. CASE deps' = deps
      BY <3>1
    <3>2. CASE TouchDep
      <4>1. deps'[Oe.deps[k]] = [deps[Oe.deps[k]] EXCEPT !.url = deps[Oe.deps[k]].url]
        BY <2>1, <2>3, <3>2 DEF TouchDep
      <4> QED BY <2>3, <4>1 DEF Dep, DepRec
    <3> QED BY <3>1, <3>2, VerifyKeeps
  <2> QED BY <1>1, <1>2, <2>4 DEF Dep
<1>8. Sought' = Sought
  BY <1>1, <1>3, <1>5, <1>6, <1>7 DEF Sought, Types, SearchTypes
<1>9. Offered' = Offered
  BY <1>1, <1>2, <1>3, <1>7 DEF Offered, Types, SearchTypes
<1>10. what = "oe" => DepUrls(Oe)' = DepUrls(Oe)
  <2>1. what = "oe" => pc = "get" \/ pc = "match"
    BY DEF VerifyInv
  <2>2. what = "oe" => deps' = deps
    BY <2>1, VerifyKeeps DEF TouchDep
  <2> QED BY <1>2, <2>2 DEF DepUrls
<1> QED BY <1>1, <1>2, <1>3, <1>4, <1>7, <1>8, <1>9, <1>10

(* The moves over the pages and the candidates.                            *)
LEMMA PageMoves ==
    ASSUME [Next]_vars
    PROVE  /\ pc' = "get" =>
                \/ pc = "seek" /\ Sought = NULL /\ UNCHANGED <<env, fips, what, k>>
                \/ pc \in {"get", "match"}
           /\ pc' = "match" =>
                \/ pc = "get" /\ page' \in Pages /\ i' = 1 /\ tmp_dep' = tmp_dep /\ UNCHANGED <<env, fips, what, k>>
                \/ pc \in {"match", "contacts"} /\ page' = page /\ i' = i + 1 /\ (pc = "match" => i <= Len(page))
                \/ pc = "match" /\ page' = page /\ i' = i
           /\ pc' = "contacts" =>
                \/ pc = "contacts" /\ UNCHANGED <<env, fips, what, k, page, i>>
                \/ pc = "match" /\ page' = page /\ i' = i /\ MatchVendor
  BY DEF Next, Step, vars, env, CallModuleNew, CallDependencyNew, CallOeNew, CallModuleSet,
         CallSetDependency, Select, FreeOperatingEnv, IngestMetadata, Verify, ParseVendor,
         ParseModule, ParseOe, ParseDependency, EndOfArray, Query, GetPage, NextPage, MatchVendor,
         QueryContacts, MatchModule, MatchDependency, MatchOe, VendorSought, ModuleSought,
         DependencySought, Dependencies, OeSought, Verified, VerifyFrame, MatchFrame, IngestFrame,
         Called, Api, Stop, Return, Seek, Matched, NextCandidate, Candidate, Status, Element, Fail,
         EndIngest, search, parse, bounds, Verifying

LEMMA OfferedSame == UNCHANGED <<env, fips, what, k>> => Sought' = Sought /\ Offered' = Offered
  BY DEF env, Sought, Offered, Mod, Ven, Oe, Dep

(* The address that match_vendors_page() has found.                        *)
LEMMA AddressFound ==
    ASSUME Types, VerifyInv, PageInv, MatchVendor, pc' = "contacts"
    PROVE  /\ i <= Len(page)
           /\ \E n \in 1..Len(VendorTable[page[i]].addresses) :
                /\ VendorTable[page[i]].addresses[n].data = Ven'.data.address
                /\ VendorTable[page[i]].addresses[n].url = Ven'.addressUrl
<1>0. pc = "match" /\ what = "vendor" /\ i <= Len(page) /\ fips' = fips /\ modules' = modules
  BY DEF MatchVendor, Candidate, VerifyFrame
<1> DEFINE e == VendorTable[page[i]]
           A == AddressMatches(Ven.data.address, e.addresses)
           url == e.addresses[Min(A)].url
<1>1. e \in VendorEntry
  BY <1>0, CandidateVendor, VendorTableType DEF Types
<1>2. A # {} /\ vendors' = [vendors EXCEPT ![Mod.vendor].addressUrl = url]
  BY DEF MatchVendor, NextCandidate, Stop, Return
<1>3. Min(A) \in 1..Len(e.addresses) /\ e.addresses[Min(A)].data = Ven.data.address
  <2>1. e.addresses \in Seq([data : Strings, url : Present])
    BY <1>1 DEF VendorEntry
  <2>2. A \in SUBSET Nat /\ A \subseteq 1..Len(e.addresses)
    BY <2>1 DEF AddressMatches
  <2>3. Min(A) \in A
    BY <1>2, <2>2, Least
  <2> QED BY <2>2, <2>3 DEF AddressMatches
<1>4. Mod.vendor \in 1..Len(vendors) /\ Ven \in VendorRec /\ vendors \in Seq(VendorRec)
  BY <1>0, VerifyFacts DEF Verifying, Types, VendorTypes
<1> HIDE DEF A
<1>5. Ven' = [Ven EXCEPT !.addressUrl = url]
  BY <1>0, <1>2, <1>4 DEF Ven, Mod
<1>6. Ven'.data = Ven.data /\ Ven'.addressUrl = url
  BY <1>4, <1>5 DEF VendorRec
<1> QED BY <1>0, <1>3, <1>6

LEMMA PageInvStep == Types /\ VerifyInv /\ PageInv /\ [Next]_vars => PageInv'
<1> SUFFICES ASSUME Types, VerifyInv, PageInv, [Next]_vars PROVE PageInv'
  OBVIOUS
<1>0. Len(page) \in Nat /\ i \in Nat
  BY DEF Types, SearchTypes
<1>1. pc' \in {"get", "match", "contacts"} => Sought' = NULL
  <2> SUFFICES ASSUME pc' \in {"get", "match", "contacts"} PROVE Sought' = NULL
    OBVIOUS
  <2>1. CASE UNCHANGED <<env, fips, what, k>> /\ Sought = NULL
    BY <2>1, OfferedSame
  <2>2. CASE pc \in {"get", "match", "contacts"}
    BY <2>2, SoughtKept DEF PageInv
  <2> QED BY <2>1, <2>2, PageMoves
<1>2. pc' \in {"match", "contacts"} => i' >= 1 /\ \A n \in 1..Len(page') : page'[n] \in Offered'
  <2> SUFFICES ASSUME pc' \in {"match", "contacts"} PROVE i' >= 1 /\ \A n \in 1..Len(page') : page'[n] \in Offered'
    OBVIOUS
  <2>1. CASE page' \in Pages /\ i' = 1 /\ UNCHANGED <<env, fips, what, k>>
    BY <2>1, OfferedSame, PageFacts
  <2>2. CASE pc \in {"match", "contacts"} /\ page' = page /\ i' \in {i, i + 1}
    BY <1>0, <2>2, SoughtKept DEF PageInv
  <2> QED BY <2>1, <2>2, PageMoves
<1>3. pc' = "match" => i' <= Len(page') + 1
  <2> SUFFICES ASSUME pc' = "match" PROVE i' <= Len(page') + 1
    OBVIOUS
  <2>1. CASE page' \in Pages /\ i' = 1
    <3>1. Len(page') \in Nat
      BY <2>1, PageFacts
    <3> QED BY <2>1, <3>1
  <2>2. CASE pc \in {"match", "contacts"} /\ page' = page /\ (i' = i + 1 /\ (pc = "match" => i <= Len(page)))
    BY <1>0, <2>2 DEF PageInv
  <2>3. CASE pc = "match" /\ page' = page /\ i' = i
    BY <2>3 DEF PageInv
  <2> QED BY <2>1, <2>2, <2>3, PageMoves
<1>4. pc' = "contacts" =>
        /\ i' <= Len(page')
        /\ \E n \in 1..Len(VendorTable[page'[i']].addresses) :
              /\ VendorTable[page'[i']].addresses[n].data = Ven'.data.address
              /\ VendorTable[page'[i']].addresses[n].url = Ven'.addressUrl
  <2> SUFFICES ASSUME pc' = "contacts"
               PROVE  /\ i' <= Len(page')
                      /\ \E n \in 1..Len(VendorTable[page'[i']].addresses) :
                            /\ VendorTable[page'[i']].addresses[n].data = Ven'.data.address
                            /\ VendorTable[page'[i']].addresses[n].url = Ven'.addressUrl
    OBVIOUS
  <2>1. CASE pc = "contacts" /\ UNCHANGED <<env, fips, what, k, page, i>>
    BY <2>1 DEF PageInv, env, Ven, Mod
  <2>2. CASE pc = "match" /\ page' = page /\ i' = i /\ MatchVendor
    BY <2>2, AddressFound
  <2> QED BY <2>1, <2>2, PageMoves
<1> QED BY <1>1, <1>2, <1>3, <1>4 DEF PageInv

(* Initially, the arrays are empty and nothing runs.                       *)
LEMMA InitTypes == Init => Types /\ VerifyInv /\ PageInv /\ CrashInv
<1> SUFFICES ASSUME Init PROVE Types /\ VerifyInv /\ PageInv /\ CrashInv
  OBVIOUS
<1> USE DEF Init
<1>1. VendorTypes /\ ModuleTypes /\ OeTypes /\ FipsTypes /\ GlbTypes
  BY DEF VendorTypes, ModuleTypes, OeTypes, FipsTypes, GlbTypes
<1>2. DepTypes
  BY BoundsAssumption DEF DepTypes
<1>3. ParseTypes
  BY DEF ParseTypes, Metadata, Empty
<1>4. SearchTypes
  BY FilesAssumption DEF SearchTypes, Cleared
<1>5. FlowTypes
  BY DEF FlowTypes
<1> QED BY <1>1, <1>2, <1>3, <1>4, <1>5 DEF Types, VerifyInv, PageInv, CrashInv, Verifying
-----------------------------------------------------------------------------
(* A failure is remembered until the ctx is freed.                         *)
LEMMA BadStays == [Next]_vars /\ bad => bad' \/ Reset
<1> SUFFICES ASSUME [Next]_vars, bad PROVE bad' \/ Reset
  OBVIOUS
<1>1. bad' = bad \/ bad' = TRUE \/ FreeOperatingEnv \/ \E code : bad' = (bad \/ code # "AMVP_SUCCESS")
  BY DEF Next, Step, vars, env, CallModuleNew, CallDependencyNew, CallOeNew, CallModuleSet,
         CallSetDependency, Select, IngestMetadata, Verify, ParseVendor, ParseModule, ParseOe,
         ParseDependency, EndOfArray, Query, GetPage, NextPage, MatchVendor, QueryContacts,
         MatchModule, MatchDependency, MatchOe, VendorSought, ModuleSought, DependencySought,
         Dependencies, OeSought, Verified, VerifyFrame, MatchFrame, IngestFrame, Called, Api, Stop,
         Return, Seek, Matched, NextCandidate, Candidate, Status, Element, Fail, EndIngest, search,
         parse, bounds
<1> QED BY <1>1, FreeResets, Zenon

(* A call that leaves a module without a vendor has failed, and verifying  *)
(* crashes over no other module.                                           *)
LEMMA CrashInvStep == Types /\ VerifyInv /\ PageInv /\ CrashInv /\ [Next]_vars => CrashInv'
<1> SUFFICES ASSUME Types, VerifyInv, PageInv, CrashInv, [Next]_vars PROVE CrashInv'
  OBVIOUS
<1>0. ModuleTypes
  BY DEF Types
<1>1. CASE Reset
  BY <1>1 DEF Reset, CrashInv
<1>2. CASE ~Reset
  <2>1. bad => bad'
    BY <1>2, BadStays
  <2>2. ~bad' => \A n \in 1..Len(modules') : modules'[n].vendor # 0
    <3>1. CASE modules' = modules
      BY <2>1, <3>1 DEF CrashInv
    <3>2. CASE GrowModules
      <4>1. PICK m \in ModuleRec : (m.vendor = 0 => bad') /\ modules' = Append(modules, m)
        BY <3>2 DEF GrowModules
      <4>2. /\ modules' \in Seq(ModuleRec) /\ Len(modules') = Len(modules) + 1 /\ modules'[Len(modules) + 1] = m
            /\ \A n \in 1..Len(modules) : modules'[n] = modules[n]
        BY <1>0, <4>1, Longer DEF ModuleTypes
      <4> QED BY <1>0, <2>1, <4>1, <4>2 DEF CrashInv, ModuleTypes
    <3>3. CASE TouchModule
      BY <2>1, <3>3 DEF CrashInv, TouchModule
    <3> QED BY <1>2, <3>1, <3>2, <3>3, ModulesEffect
  <2>3. pc' = "crashed" => bad'
    <3>1. pc' = "crashed" => pc = "crashed" \/ Verify
      BY DEF Next, Step, vars, env, CallModuleNew, CallDependencyNew, CallOeNew, CallModuleSet,
             CallSetDependency, Select, FreeOperatingEnv, IngestMetadata, ParseVendor, ParseModule,
             ParseOe, ParseDependency, EndOfArray, Query, GetPage, NextPage, MatchVendor,
             QueryContacts, MatchModule, MatchDependency, MatchOe, VendorSought, ModuleSought,
             DependencySought, Dependencies, OeSought, Verified, VerifyFrame, MatchFrame,
             IngestFrame, Called, Api, Stop, Return, Seek, Matched, NextCandidate, Candidate,
             Status, Element, Fail, EndIngest, search, parse, bounds
    <3>2. CASE Verify /\ pc' = "crashed"
      <4>1. fips.module \in 1..Len(modules) /\ modules[fips.module].vendor = 0 /\ bad' = bad
        BY <3>2 DEF Verify, Seek, Return, Mod, Types, FipsTypes
      <4> QED BY <4>1 DEF CrashInv
    <3> QED BY <2>1, <3>1, <3>2 DEF CrashInv
  <2> QED BY <2>2, <2>3 DEF CrashInv
<1> QED BY <1>1, <1>2

(* Verification crashes over a module without a vendor only in a ctx in    *)
(* which a load or a call has failed before.                               *)
THEOREM CrashAfterFailure == Spec => []CrashOnlyAfterFailure
<1> DEFINE Inv == Types /\ VerifyInv /\ PageInv /\ CrashInv
<1>1. Init => Inv
  BY InitTypes
<1>2. Inv /\ [Next]_vars => Inv'
  BY TypesStep, VerifyInvStep, PageInvStep, CrashInvStep
<1>3. Inv => CrashOnlyAfterFailure
  BY DEF CrashInv, CrashOnlyAfterFailure
<1> QED BY <1>1, <1>2, <1>3, PTL DEF Spec
-----------------------------------------------------------------------------
(* compare_persons(): a contact is found by its name and email addresses.  *)
LEMMA ContactFacts ==
    ASSUME NEW R, NEW contacts \in Seq(R), NEW p, ContactFor(p, contacts).outcome = "equal"
    PROVE  \E c \in 1..Len(contacts) :
              /\ contacts[c].url = ContactFor(p, contacts).url
              /\ contacts[c].name = p.name /\ Agrees(p.emails, contacts[c].emails)
<1> DEFINE S == {n \in DOMAIN contacts : ComparePerson(p, contacts[n]) # "differs"}
<1>1. S # {}
  BY DEF ContactFor
<1>2. Min(S) \in 1..Len(contacts)
  <2>1. S \in SUBSET Nat /\ S \subseteq 1..Len(contacts)
    OBVIOUS
  <2> QED BY <1>1, <2>1, Least
<1>3. ComparePerson(p, contacts[Min(S)]) = "equal" /\ ContactFor(p, contacts).url = contacts[Min(S)].url
  BY <1>1 DEF ContactFor
<1> HIDE DEF S
<1>4. p.name = contacts[Min(S)].name /\ Agrees(p.emails, contacts[Min(S)].emails)
  BY <1>3 DEF ComparePerson, Compare, CompareEmails
<1> QED BY <1>2, <1>3, <1>4

(* match_vendors_page() with all the contacts found.                       *)
LEMMA VendorFound ==
    ASSUME Types, VerifyInv, PageInv, QueryContacts, Ven'.url # NULL
    PROVE  VendorOk(Ven')
<1>0. pc = "contacts" /\ what = "vendor" /\ i <= Len(page) /\ fips' = fips /\ modules' = modules
  BY DEF QueryContacts, VerifyInv, PageInv, Verifying, VerifyFrame
<1> DEFINE persons == Ven.data.persons
           contacts == VendorTable[page[i]].contacts
           Contact(n) == ContactFor(persons[n], contacts)
           prefix == {n \in DOMAIN persons : \A j \in 1..n : Contact(j).outcome = "equal"}
           urls == [n \in DOMAIN persons |-> IF n \in prefix THEN Contact(n).url ELSE Ven.personUrls[n]]
<1>1. page[i] \in DOMAIN VendorTable /\ VendorTable[page[i]] \in VendorEntry
  BY <1>0, CandidateVendor, VendorTableType DEF Types
<1>2. Mod.vendor \in 1..Len(vendors) /\ Ven \in VendorRec /\ vendors \in Seq(VendorRec) /\ Ven.url = NULL
  BY <1>0, VerifyFacts DEF Verifying, Types, VendorTypes, PageInv, Sought
<1>3. \/ vendors' = vendors
      \/ vendors' = [vendors EXCEPT ![Mod.vendor].personUrls = urls]
      \/ /\ vendors' = [vendors EXCEPT ![Mod.vendor].personUrls = urls, ![Mod.vendor].url = page[i]]
         /\ prefix = DOMAIN persons
  BY DEF QueryContacts
<1>4. contacts \in Seq([name : Strings, emails : Seq(Strings), phones : Seq(Strings), url : Present])
  BY <1>1 DEF VendorEntry
<1>5. persons \in Seq(Person)
  BY <1>2 DEF VendorRec, VendorElement
<1>6. ASSUME prefix = DOMAIN persons, NEW n \in DOMAIN persons
      PROVE  \E c \in 1..Len(contacts) : /\ contacts[c].url = urls[n]
                                         /\ contacts[c].name = persons[n].name
                                         /\ Agrees(persons[n].emails, contacts[c].emails)
  <2>1. n \in 1..n
    BY <1>5
  <2>2. ContactFor(persons[n], contacts).outcome = "equal" /\ urls[n] = ContactFor(persons[n], contacts).url
    BY <1>6, <2>1
  <2> HIDE DEF urls, persons, contacts
  <2>3. \E c \in 1..Len(contacts) :
           /\ contacts[c].url = ContactFor(persons[n], contacts).url
           /\ contacts[c].name = persons[n].name /\ Agrees(persons[n].emails, contacts[c].emails)
    BY <1>4, <2>2, ContactFacts
  <2> QED BY <2>2, <2>3
<1>7. DOMAIN urls = DOMAIN persons
  OBVIOUS
<1> HIDE DEF urls, prefix, Contact
<1>8. vendors' # vendors /\ vendors' # [vendors EXCEPT ![Mod.vendor].personUrls = urls]
  <2>1. Ven' = vendors'[Mod.vendor]
    BY <1>0 DEF Ven, Mod
  <2>2. [vendors EXCEPT ![Mod.vendor].personUrls = urls][Mod.vendor].url = NULL
    BY <1>2 DEF Ven, VendorRec
  <2> QED BY <1>2, <2>1, <2>2 DEF Ven
<1>9. prefix = DOMAIN persons /\ Ven' = [Ven EXCEPT !.personUrls = urls, !.url = page[i]]
  BY <1>0, <1>2, <1>3, <1>8 DEF Ven, Mod
<1>10. /\ Ven'.url = page[i] /\ Ven'.personUrls = urls /\ Ven'.data = Ven.data
       /\ Ven'.addressUrl = Ven.addressUrl
  BY <1>2, <1>9 DEF VendorRec
<1>11. \E a \in 1..Len(VendorTable[page[i]].addresses) :
         /\ VendorTable[page[i]].addresses[a].data = Ven.data.address
         /\ VendorTable[page[i]].addresses[a].url = Ven.addressUrl
  BY <1>0 DEF PageInv
<1> QED BY <1>1, <1>6, <1>7, <1>9, <1>10, <1>11 DEF VendorOk

LEMMA VendorInvStep == Types /\ VerifyInv /\ PageInv /\ VendorInv /\ [Next]_vars => VendorInv'
<1> SUFFICES ASSUME Types, VerifyInv, PageInv, VendorInv, [Next]_vars PROVE VendorInv'
  OBVIOUS
<1>0. vendors \in Seq(VendorRec)
  BY DEF Types, VendorTypes
<1>1. CASE vendors' = vendors
  BY <1>1 DEF VendorInv
<1>2. CASE Reset
  BY <1>2 DEF VendorInv, Reset
<1>3. CASE GrowVendors
  <2>1. PICK v \in VendorRec : v.url = NULL /\ vendors' = Append(vendors, v)
    BY <1>3 DEF GrowVendors
  <2>2. /\ Len(vendors') = Len(vendors) + 1 /\ vendors'[Len(vendors) + 1] = v
        /\ \A n \in 1..Len(vendors) : vendors'[n] = vendors[n]
    BY <1>0, <2>1, Longer
  <2>3. VendorOk(v)
    BY <2>1 DEF VendorOk
  <2> QED BY <1>0, <2>2, <2>3 DEF VendorInv
<1>4. CASE TouchVendor
  <2>1. pc \in {"match", "contacts"} /\ what = "vendor" /\ Mod.vendor \in 1..Len(vendors) /\ Ven.url = NULL
    BY <1>4, VerifyFacts DEF TouchVendor, Verifying, PageInv, Sought
  <2>2. VendorOk(vendors'[Mod.vendor])
    <3>1. CASE vendors'[Mod.vendor].url = NULL
      BY <3>1 DEF VendorOk
    <3>2. CASE vendors'[Mod.vendor].url # NULL
      <4>1. pc' = "sought"
        BY <1>4, <2>1, <3>2 DEF TouchVendor, Ven
      <4>2. QueryContacts
        <5>1. vendors' # vendors /\ ~ParseVendor /\ ~FreeOperatingEnv
          BY <2>1, <3>2 DEF Ven, ParseVendor, FreeOperatingEnv, Api
        <5>2. ~MatchVendor
          BY <4>1, <5>1 DEF MatchVendor, NextCandidate, Stop, Return
        <5> QED BY <5>1, <5>2, VendorsChange
      <4>3. Ven' = vendors'[Mod.vendor]
        BY <4>2 DEF QueryContacts, VerifyFrame, Ven, Mod
      <4> QED BY <3>2, <4>2, <4>3, VendorFound
    <3> QED BY <3>1, <3>2
  <2> QED BY <1>4, <2>2 DEF TouchVendor, VendorInv
<1> QED BY <1>1, <1>2, <1>3, <1>4, VendorsEffect

LEMMA ModuleTableType ==
    \A u \in DOMAIN ModuleTable : u \in Strings /\ u # NULL /\ ModuleTable[u].vendorUrl # NULL
                                  /\ ModuleTable[u].contactUrls \in Seq(Present)
  BY DatabaseAssumption DEF Present, ModuleEntry

(* A vendor that has been found stays as it is.                            *)
LEMMA FoundVendorStays ==
    ASSUME Types, VerifyInv, PageInv, [Next]_vars, ~Reset, NEW n \in 1..Len(vendors), vendors[n].url # NULL
    PROVE  n \in 1..Len(vendors') /\ vendors'[n] = vendors[n]
<1>0. vendors \in Seq(VendorRec)
  BY DEF Types, VendorTypes
<1>1. CASE vendors' = vendors
  BY <1>1
<1>2. CASE GrowVendors
  <2>1. PICK v \in VendorRec : vendors' = Append(vendors, v)
    BY <1>2 DEF GrowVendors
  <2> QED BY <1>0, <2>1, Longer
<1>3. CASE TouchVendor
  <2>1. n # Mod.vendor
    BY <1>3 DEF TouchVendor, PageInv, Sought, Ven
  <2> QED BY <1>3, <2>1 DEF TouchVendor
<1> QED BY <1>1, <1>2, <1>3, VendorsEffect

(* match_modules_page() has compared the URLs of the vendor.               *)
LEMMA ModuleFound ==
    ASSUME Types, VerifyInv, PageInv, MatchModule, modules' # modules
    PROVE  ModuleOk(page[i], Ven) /\ vendors' = vendors /\ modules' = [modules EXCEPT ![fips.module].url = page[i]]
<1>0. pc = "match" /\ what = "module" /\ i \in 1..Len(page) /\ vendors' = vendors
  BY DEF MatchModule, Candidate, PageInv, Types, SearchTypes
<1>1. SameModule(ModuleTable[page[i]], i) /\ modules' = [modules EXCEPT ![fips.module].url = page[i]]
  BY DEF MatchModule
<1>2. page[i] \in DOMAIN ModuleTable
  BY <1>0 DEF PageInv, Offered
<1>3. ModuleTable[page[i]].contactUrls \in Seq(Present)
  BY <1>2, ModuleTableType
<1>4. \A p \in DOMAIN Ven.personUrls :
         i \in DOMAIN ModuleTable[page[i]].contactUrls /\ ModuleTable[page[i]].contactUrls[i] = Ven.personUrls[p]
  BY <1>0, <1>1, <1>3 DEF SameModule
<1> QED BY <1>0, <1>1, <1>2, <1>4 DEF ModuleOk, SameModule

LEMMA ModuleInvStep == Types /\ VerifyInv /\ PageInv /\ ModuleInv /\ [Next]_vars => ModuleInv'
<1> SUFFICES ASSUME Types, VerifyInv, PageInv, ModuleInv, [Next]_vars PROVE ModuleInv'
  OBVIOUS
<1>0. modules \in Seq(ModuleRec) /\ Len(modules) \in Nat
  BY DEF Types, ModuleTypes
<1>1. CASE Reset
  BY <1>1 DEF ModuleInv, Reset
<1>2. CASE ~Reset
  <2>1. ASSUME NEW n \in 1..Len(modules), modules[n].url # NULL
        PROVE  modules[n].vendor # 0 /\ ModuleOk(modules[n].url, vendors'[modules[n].vendor])
    <3>1. modules[n].vendor # 0 /\ ModuleOk(modules[n].url, vendors[modules[n].vendor])
      BY <2>1 DEF ModuleInv
    <3>2. modules[n].vendor \in 1..Len(vendors)
      <4>1. modules[n] \in ModuleRec
        BY <1>0, ElementType
      <4> QED BY <3>1, <4>1 DEF Types, ModuleTypes, ModuleRec, VendorTypes
    <3>3. vendors[modules[n].vendor].url # NULL
      BY <3>1, ModuleTableType DEF ModuleOk
    <3>4. vendors'[modules[n].vendor] = vendors[modules[n].vendor]
      BY <1>2, <3>2, <3>3, FoundVendorStays
    <3> QED BY <3>1, <3>4
  <2>2. CASE modules' = modules
    BY <2>1, <2>2 DEF ModuleInv
  <2>3. CASE GrowModules
    <3>1. PICK m \in ModuleRec : m.url = NULL /\ modules' = Append(modules, m)
      BY <2>3 DEF GrowModules
    <3>2. /\ Len(modules') = Len(modules) + 1 /\ modules'[Len(modules) + 1] = m
          /\ \A n \in 1..Len(modules) : modules'[n] = modules[n]
      BY <1>0, <3>1, Longer
    <3> QED BY <1>0, <2>1, <3>1, <3>2 DEF ModuleInv
  <2>4. CASE TouchModule
    <3> SUFFICES ASSUME NEW n \in 1..Len(modules), modules'[n].url # NULL
                 PROVE  modules'[n].vendor # 0 /\ ModuleOk(modules'[n].url, vendors'[modules'[n].vendor])
      BY <2>4 DEF ModuleInv, TouchModule
    <3>1. modules'[n].vendor = modules[n].vendor
      BY <2>4 DEF TouchModule
    <3>2. CASE modules'[n].url = modules[n].url
      BY <2>1, <3>1, <3>2
    <3>3. CASE modules'[n].url # modules[n].url
      <4>1. pc = "match" /\ what = "module" /\ n = fips.module /\ modules' # modules
        BY <2>4, <3>3 DEF TouchModule
      <4>2. MatchModule
        BY <4>1, ModulesChange DEF CallModuleNew, CallModuleSet, ParseModule, FreeOperatingEnv, Api
      <4>3. ModuleOk(page[i], Ven) /\ vendors' = vendors /\ modules' = [modules EXCEPT ![fips.module].url = page[i]]
        BY <4>1, <4>2, ModuleFound
      <4>4. Mod.vendor # 0 /\ Mod \in ModuleRec
        BY <4>1, VerifyFacts DEF VerifyInv, Verifying
      <4>5. modules'[n].url = page[i]
        BY <1>0, <4>1, <4>3, <4>4 DEF Mod, ModuleRec
      <4> QED BY <3>1, <4>1, <4>3, <4>4, <4>5 DEF Mod, Ven
    <3> QED BY <3>2, <3>3
  <2> QED BY <1>2, <2>2, <2>3, <2>4, ModulesEffect
<1> QED BY <1>1, <1>2

(* A dependency that has been found keeps its URL.                         *)
LEMMA FoundDepStays ==
    ASSUME Types, VerifyInv, PageInv, [Next]_vars, ~Reset, NEW n \in 1..Len(deps), deps[n].url # NULL
    PROVE  deps'[n].url = deps[n].url
<1>0. deps \in Seq(DepRec)
  BY DEF Types, DepTypes
<1>1. CASE deps' = deps
  BY <1>1
<1>2. CASE GrowDeps
  <2>1. PICK d \in DepRec : deps' = Append(deps, d)
    BY <1>2 DEF GrowDeps
  <2>2. deps'[n] = deps[n]
    BY <1>0, <2>1, Longer
  <2> QED BY <2>2
<1>3. CASE TouchDep
  <2>1. deps'[n].url # deps[n].url => pc = "match" /\ what = "dependency" /\ n = Oe.deps[k]
    BY <1>3 DEF TouchDep
  <2>2. pc = "match" /\ what = "dependency" => Dep.url = NULL
    BY DEF PageInv, Sought
  <2> QED BY <2>1, <2>2 DEF Dep
<1> QED BY <1>1, <1>2, <1>3, DepsEffect

(* match_oes_page() has compared the URLs of the dependencies.             *)
LEMMA OeFound ==
    ASSUME Types, VerifyInv, PageInv, MatchOe, oes' # oes
    PROVE  OeOk(oes'[fips.oe], deps') /\ pc = "match"
<1>0. pc = "match" /\ what = "oe" /\ i \in 1..Len(page) /\ deps' = deps
  BY DEF MatchOe, Candidate, PageInv, Types, SearchTypes
<1>1. Agrees(DepUrls(Oe), OeTable[page[i]]) /\ oes' = [oes EXCEPT ![fips.oe].url = page[i]]
  BY DEF MatchOe
<1>2. page[i] \in DOMAIN OeTable /\ OeTable[page[i]] \in Seq(Present)
  BY <1>0, DatabaseAssumption DEF PageInv, Offered
<1>3. fips.oe \in 1..Len(oes) /\ Oe \in OeRec /\ oes \in Seq(OeRec)
  BY <1>0, VerifyFacts DEF Verifying, Types, OeTypes
<1>4. oes'[fips.oe] = [Oe EXCEPT !.url = page[i]]
  BY <1>1, <1>3 DEF Oe
<1>5. oes'[fips.oe].url = page[i] /\ oes'[fips.oe].deps = Oe.deps /\ Oe.deps \in Seq(Nat)
  BY <1>3, <1>4 DEF OeRec
<1>6. DOMAIN DepUrls(Oe) = DOMAIN Oe.deps /\ \A q \in DOMAIN Oe.deps : DepUrls(Oe)[q] = deps[Oe.deps[q]].url
  BY DEF DepUrls
<1>7. /\ Len(OeTable[page[i]]) = Len(Oe.deps)
      /\ \A q \in 1..Len(Oe.deps) : OeTable[page[i]][q] \in {NoString, deps[Oe.deps[q]].url}
  <2>1. Len(DepUrls(Oe)) = Len(Oe.deps)
    BY <1>5, <1>6
  <2> QED BY <1>1, <1>2, <1>5, <1>6, <2>1 DEF Agrees
<1>8. Len(Oe.deps) \in Nat
  BY <1>5
<1> QED BY <1>0, <1>2, <1>5, <1>7, <1>8 DEF OeOk

LEMMA OeInvStep == Types /\ VerifyInv /\ PageInv /\ OeInv /\ [Next]_vars => OeInv'
<1> SUFFICES ASSUME Types, VerifyInv, PageInv, OeInv, [Next]_vars PROVE OeInv'
  OBVIOUS
<1>0. oes \in Seq(OeRec) /\ Len(oes) \in Nat
  BY DEF Types, OeTypes
<1>1. CASE Reset
  BY <1>1 DEF OeInv, Reset
<1>2. CASE ~Reset
  <2>1. ASSUME NEW n \in 1..Len(oes), oes[n].url # NULL
        PROVE  OeOk(oes[n], deps') /\ Len(oes[n].deps) \in Nat /\ Len(OeTable[oes[n].url]) \in Nat
    <3>1. oes[n] \in OeRec
      BY <1>0, ElementType
    <3>2. oes[n].deps \in Seq(Nat)
      BY <3>1 DEF OeRec
    <3>3. oes[n].url \in DOMAIN OeTable /\ Len(OeTable[oes[n].url]) <= Len(oes[n].deps)
      BY <2>1 DEF OeInv, OeOk
    <3>4. OeTable[oes[n].url] \in Seq(Present)
      BY <3>3, DatabaseAssumption
    <3>5. Len(OeTable[oes[n].url]) \in Nat /\ Len(oes[n].deps) \in Nat
      BY <3>2, <3>4
    <3>6. ASSUME NEW q \in 1..Len(OeTable[oes[n].url]), OeTable[oes[n].url][q] # NoString
          PROVE  OeTable[oes[n].url][q] = deps'[oes[n].deps[q]].url
      <4>1. OeTable[oes[n].url][q] = deps[oes[n].deps[q]].url
        BY <2>1, <3>6 DEF OeInv, OeOk
      <4>2. oes[n].deps[q] \in 1..Len(deps)
        BY <3>3, <3>5 DEF Types, OeTypes
      <4>3. OeTable[oes[n].url][q] \in Present
        BY <3>4, ElementType
      <4>4. deps'[oes[n].deps[q]].url = deps[oes[n].deps[q]].url
        BY <1>2, <4>1, <4>2, <4>3, FoundDepStays DEF Present
      <4> QED BY <4>1, <4>4
    <3> QED BY <3>3, <3>5, <3>6 DEF OeOk
  <2>2. CASE oes' = oes
    BY <2>1, <2>2 DEF OeInv, OeOk
  <2>3. CASE GrowOes
    <3>1. PICK o \in OeRec : o.url = NULL /\ oes' = Append(oes, o)
      BY <2>3 DEF GrowOes
    <3>2. /\ Len(oes') = Len(oes) + 1 /\ oes'[Len(oes) + 1] = o
          /\ \A n \in 1..Len(oes) : oes'[n] = oes[n]
      BY <1>0, <3>1, Longer
    <3> QED BY <1>0, <2>1, <3>1, <3>2 DEF OeInv, OeOk
  <2>4. CASE TouchOe
    <3> SUFFICES ASSUME NEW n \in 1..Len(oes), oes'[n].url # NULL PROVE OeOk(oes'[n], deps')
      BY <2>4 DEF OeInv, OeOk, TouchOe
    <3>1. CASE oes'[n].url = oes[n].url
      <4>1. /\ oes[n].url \in DOMAIN OeTable /\ Len(OeTable[oes[n].url]) <= Len(oes[n].deps)
            /\ \A q \in 1..Len(OeTable[oes[n].url]) : OeTable[oes[n].url][q] \in {NoString, deps'[oes[n].deps[q]].url}
            /\ Len(oes[n].deps) \in Nat /\ Len(OeTable[oes[n].url]) \in Nat
        BY <2>1, <3>1 DEF OeOk
      <4>2. /\ Len(oes[n].deps) <= Len(oes'[n].deps)
            /\ \A q \in 1..Len(oes[n].deps) : oes'[n].deps[q] = oes[n].deps[q]
        BY <2>4 DEF TouchOe
      <4>3. oes'[n] \in OeRec
        BY <2>4, ElementType DEF TouchOe
      <4>4. Len(oes'[n].deps) \in Nat
        BY <4>3 DEF OeRec
      <4>5. Len(OeTable[oes[n].url]) <= Len(oes'[n].deps)
        BY <4>1, <4>2, <4>4
      <4>6. \A q \in 1..Len(OeTable[oes[n].url]) : OeTable[oes[n].url][q] \in {NoString, deps'[oes'[n].deps[q]].url}
        BY <4>1, <4>2
      <4> QED BY <3>1, <4>1, <4>5, <4>6 DEF OeOk
    <3>2. CASE oes'[n].url # oes[n].url
      <4>1. pc = "match" /\ what = "oe" /\ n = fips.oe /\ oes' # oes
        BY <2>4, <3>2 DEF TouchOe
      <4>2. MatchOe
        BY <4>1, OesChange DEF CallOeNew, CallSetDependency, ParseOe, ParseDependency, ModuleSought, DependencySought,
                               Dependencies, FreeOperatingEnv, Api
      <4> QED BY <4>1, <4>2, OeFound
    <3> QED BY <3>1, <3>2
  <2> QED BY <1>2, <2>2, <2>3, <2>4, OesEffect
<1> QED BY <1>1, <1>2

(* What an element of the file is written over has, as long as nothing has *)
(* failed, no field and no URL.                                            *)
LEMMA WrittenIsBlank ==
    ASSUME Types, DepInv, FreshInv, ~bad, ParseDependency, NEW p, WritesDep(p)
    PROVE  /\ deps'[p].url = NULL /\ deps'[p].id = glb.dependency
           /\ Exact(deps'[p], file.oes[pos].deps[sub])
<1>1. file.oes[pos].deps[sub] \in DepElement /\ glb.dependency \in Nat
  BY DepElementRead DEF ParseDependency, Types, GlbTypes
<1>2. CASE Len(deps') = Len(deps) /\ deps[p].id = glb.dependency
           /\ deps'[p] = SetFields(deps[p], file.oes[pos].deps[sub])
  <2>1. p \in 1..Len(deps) /\ deps[p] \in DepRec
    BY <1>2, ElementType DEF WritesDep, Types, DepTypes
  <2>2. Blank(deps[p])
    BY <1>1, <1>2, <2>1 DEF FreshInv
  <2>3. deps[p].url = NULL
    BY <2>1, <2>2 DEF DepInv, DepNamed, Blank
  <2> QED BY <1>1, <1>2, <2>1, <2>2, <2>3, SetFieldsFacts
<1>3. CASE deps'[p] = SetFields(EmptyDep(glb.dependency), file.oes[pos].deps[sub])
  <2>1. EmptyDep(glb.dependency) \in DepRec /\ Blank(EmptyDep(glb.dependency))
        /\ EmptyDep(glb.dependency).url = NULL /\ EmptyDep(glb.dependency).id = glb.dependency
    BY <1>1, FilesAssumption DEF EmptyDep, DepRec, Blank
  <2> QED BY <1>1, <1>3, <2>1, SetFieldsFacts
<1> QED BY <1>2, <1>3 DEF WritesDep

(* match_dependencies_page() has compared the fields that the server has.  *)
LEMMA DepFound ==
    ASSUME Types, VerifyInv, PageInv, MatchDependency, deps' # deps
    PROVE  /\ Oe.deps[k] \in 1..Len(deps) /\ Len(deps') = Len(deps) /\ deps' \in Seq(DepRec)
           /\ \A n \in 1..Len(deps) : n # Oe.deps[k] => deps'[n] = deps[n]
           /\ deps'[Oe.deps[k]] \in DepRec /\ deps'[Oe.deps[k]] = [Dep EXCEPT !.url = page[i]]
           /\ DepNamed(deps'[Oe.deps[k]]) /\ DepOk(deps'[Oe.deps[k]])
<1>0. pc = "match" /\ what = "dependency" /\ i \in 1..Len(page) /\ page \in Seq(Present) /\ k \in 1..Len(Oe.deps)
  BY DEF MatchDependency, Candidate, PageInv, VerifyInv, Verifying, Types, SearchTypes
<1>1. SameDependency(DepTable[page[i]]) /\ deps' = [deps EXCEPT ![Oe.deps[k]].url = page[i]]
  BY DEF MatchDependency
<1>2. /\ page[i] \in DOMAIN DepTable /\ DepTable[page[i]] \in DepEntry /\ page[i] \in Strings
      /\ Dep.name \in {NULL, DepTable[page[i]].name}
  BY <1>0, DatabaseAssumption DEF PageInv, Offered, Present
<1>3. Oe.deps[k] \in 1..Len(deps) /\ Dep \in DepRec /\ deps \in Seq(DepRec)
  BY <1>0, VerifyFacts DEF Verifying, Dep, Types, DepTypes
<1> DEFINE new == [Dep EXCEPT !.url = page[i]]
<1>4. /\ new \in DepRec /\ new.url = page[i] /\ new.name = Dep.name /\ new.desc = Dep.desc
      /\ new.series = Dep.series /\ new.family = Dep.family
  BY <1>2, <1>3 DEF DepRec
<1>5. deps' = [deps EXCEPT ![Oe.deps[k]] = new]
  BY <1>1 DEF Dep
<1>6. /\ Dep.name # NULL /\ DepTable[page[i]].name = Dep.name /\ DepTable[page[i]].desc = Dep.desc
      /\ DepTable[page[i]].series \in {NULL, Dep.series} /\ DepTable[page[i]].family \in {NULL, Dep.family}
  BY <1>1, <1>2 DEF SameDependency, Filled
<1> HIDE DEF new
<1>7. /\ deps' \in Seq(DepRec) /\ Len(deps') = Len(deps)
      /\ \A n \in 1..Len(deps) : deps'[n] = IF n = Oe.deps[k] THEN new ELSE deps[n]
  BY <1>3, <1>4, <1>5, Replaced
<1>8. deps'[Oe.deps[k]] = new
  BY <1>3, <1>7
<1>9. DepNamed(new) /\ DepOk(new)
  BY <1>2, <1>4, <1>6 DEF DepNamed, DepOk
<1>10. Oe.deps[k] \in 1..Len(deps) /\ Len(deps') = Len(deps) /\ deps' \in Seq(DepRec)
       /\ \A n \in 1..Len(deps) : n # Oe.deps[k] => deps'[n] = deps[n]
  BY <1>3, <1>7
<1> QED BY <1>4, <1>8, <1>9, <1>10 DEF new

(* amvp_oe_dependency_new() by the application.                            *)
LEMMA CalledDep ==
    ASSUME Types, NEW id \in UserIds, CallDependencyNew(id), deps' # deps
    PROVE  /\ deps' \in Seq(DepRec) /\ Len(deps') = Len(deps) + 1 /\ deps'[Len(deps) + 1] = EmptyDep(id)
           /\ \A n \in 1..Len(deps) : deps'[n] = deps[n]
           /\ DepNamed(EmptyDep(id)) /\ DepOk(EmptyDep(id)) /\ Blank(EmptyDep(id)) /\ glb' = glb
<1>1. id \in Nat /\ EmptyDep(id) \in DepRec
  BY BoundsAssumption, FilesAssumption DEF EmptyDep, DepRec
<1>2. deps' = Append(deps, EmptyDep(id)) /\ glb' = glb
  BY <1>1, DependencyNewFacts DEF CallDependencyNew, Called
<1>3. DepNamed(EmptyDep(id)) /\ DepOk(EmptyDep(id)) /\ Blank(EmptyDep(id))
  BY DEF EmptyDep, DepNamed, DepOk, Blank
<1>4. /\ deps' \in Seq(DepRec) /\ Len(deps') = Len(deps) + 1 /\ deps'[Len(deps) + 1] = EmptyDep(id)
      /\ \A n \in 1..Len(deps) : deps'[n] = deps[n]
  BY <1>1, <1>2, Longer DEF Types, DepTypes
<1> QED BY <1>2, <1>3, <1>4

(* The next id of a dependency does not decrease.                          *)
LEMMA GlbGrows == Types /\ [Next]_vars => glb'.dependency >= glb.dependency /\ glb'.dependency \in Nat
<1> SUFFICES ASSUME Types, [Next]_vars PROVE glb'.dependency >= glb.dependency
  BY GlbTypesStep DEF GlbTypes
<1>1. \/ glb' = glb \/ glb' = [glb EXCEPT !.vendor = @ + 1] \/ glb' = [glb EXCEPT !.module = @ + 1]
      \/ glb' = [glb EXCEPT !.oe = @ + 1] \/ glb' = [glb EXCEPT !.dependency = @ + 1]
  BY DEF Next, Step, vars, env, CallModuleNew, CallDependencyNew, CallOeNew, CallModuleSet,
         CallSetDependency, Select, FreeOperatingEnv, IngestMetadata, Verify, ParseVendor,
         ParseModule, ParseOe, ParseDependency, EndOfArray, Query, GetPage, NextPage, MatchVendor,
         QueryContacts, MatchModule, MatchDependency, MatchOe, VendorSought, ModuleSought,
         DependencySought, Dependencies, OeSought, Verified, VerifyFrame, MatchFrame, IngestFrame,
         Called, Api, Stop, Return, Seek, Matched, NextCandidate, Candidate, Status, Element, Fail,
         EndIngest, search, parse, bounds
<1> QED BY <1>1 DEF Types, GlbTypes

LEMMA DepInvStep ==
    Types /\ VerifyInv /\ PageInv /\ DepInv /\ FreshInv /\ [Next]_vars => DepInv' /\ FreshInv'
<1> SUFFICES ASSUME Types, VerifyInv, PageInv, DepInv, FreshInv, [Next]_vars PROVE DepInv' /\ FreshInv'
  OBVIOUS
<1>0. /\ deps \in Seq(DepRec) /\ Len(deps) \in Nat /\ \A n \in 1..Len(deps) : deps[n].id \in Nat
      /\ glb.dependency \in Nat /\ glb'.dependency \in Nat /\ glb'.dependency >= glb.dependency
  <2>1. deps \in Seq(DepRec) /\ Len(deps) \in Nat /\ glb.dependency \in Nat
    BY DEF Types, DepTypes, GlbTypes
  <2>2. ASSUME NEW n \in 1..Len(deps) PROVE deps[n].id \in Nat
    <3>1. deps[n] \in DepRec
      BY <2>1, ElementType
    <3> QED BY <3>1 DEF DepRec
  <2> QED BY <2>1, <2>2, GlbGrows
<1>1. CASE Reset
  BY <1>1 DEF DepInv, FreshInv, Reset
<1>2. CASE ~Reset
  <2>0. bad => bad'
    BY <1>2, BadStays
  <2>1. CASE deps' = deps
    BY <1>0, <2>0, <2>1 DEF DepInv, FreshInv
  <2>2. ASSUME NEW id \in UserIds, CallDependencyNew(id), deps' # deps PROVE DepInv' /\ FreshInv'
    <3>1. /\ Len(deps') = Len(deps) + 1 /\ deps'[Len(deps) + 1] = EmptyDep(id)
          /\ \A n \in 1..Len(deps) : deps'[n] = deps[n]
          /\ DepNamed(EmptyDep(id)) /\ DepOk(EmptyDep(id)) /\ Blank(EmptyDep(id)) /\ glb' = glb
      BY <2>2, CalledDep
    <3>2. \A n \in 1..Len(deps') : n \in 1..Len(deps) \/ n = Len(deps) + 1
      BY <1>0, <3>1
    <3>3. DepInv'
      BY <2>0, <3>1, <3>2 DEF DepInv
    <3>4. FreshInv'
      BY <2>0, <3>1, <3>2 DEF FreshInv
    <3> QED BY <3>3, <3>4
  <2>3. CASE ParseDependency /\ deps' # deps
    <3>1. PICK p : WritesDep(p) /\ (FailsParse \/ AddsDep(p))
      BY <2>3, ParseDependencyEffect
    <3>2. /\ p \in 1..Len(deps') /\ deps' \in Seq(DepRec)
          /\ \A n \in 1..Len(deps') : n = p \/ (n \in 1..Len(deps) /\ deps'[n] = deps[n])
      BY <1>0, <3>1 DEF WritesDep
    <3>3. DepNamed(deps'[p])
      <4>1. file.oes[pos].deps[sub] \in DepElement
        BY <2>3, DepElementRead DEF ParseDependency
      <4>2. CASE p \in 1..Len(deps) /\ deps'[p] = SetFields(deps[p], file.oes[pos].deps[sub])
        <5>1. deps[p] \in DepRec /\ DepNamed(deps[p])
          BY <1>0, <4>2, ElementType DEF DepInv
        <5>2. deps'[p].url = deps[p].url /\ (deps[p].name # NULL => deps'[p].name # NULL)
          BY <4>1, <4>2, <5>1, SetFieldsFacts
        <5> QED BY <5>1, <5>2 DEF DepNamed
      <4>3. CASE deps'[p] = SetFields(EmptyDep(glb.dependency), file.oes[pos].deps[sub])
        <5>1. EmptyDep(glb.dependency) \in DepRec /\ EmptyDep(glb.dependency).url = NULL
          BY <1>0, FilesAssumption DEF EmptyDep, DepRec
        <5>2. deps'[p].url = NULL
          BY <4>1, <4>3, <5>1, SetFieldsFacts
        <5> QED BY <5>2 DEF DepNamed
      <4> QED BY <1>0, <3>1, <4>2, <4>3 DEF WritesDep
    <3>4. CASE FailsParse
      <4>1. bad'
        BY <3>4 DEF FailsParse
      <4> QED BY <3>2, <3>3, <4>1 DEF DepInv, FreshInv
    <3>5. CASE AddsDep(p)
      <4>1. bad' = bad /\ glb'.dependency = glb.dependency + 1
        BY <1>0, <3>5 DEF AddsDep, Types, GlbTypes
      <4>2. ASSUME ~bad PROVE deps'[p].url = NULL /\ deps'[p].id = glb.dependency
        BY <2>3, <3>1, <4>2, WrittenIsBlank
      <4>3. ~bad => DepOk(deps'[p])
        BY <4>2 DEF DepOk
      <4>4. DepInv'
        BY <3>2, <3>3, <4>1, <4>3 DEF DepInv
      <4>5. FreshInv'
        BY <1>0, <3>2, <4>1, <4>2 DEF FreshInv
      <4> QED BY <4>4, <4>5
    <3> QED BY <3>1, <3>4, <3>5
  <2>4. CASE MatchDependency /\ deps' # deps
    <3> DEFINE p == Oe.deps[k]
    <3>1. /\ p \in 1..Len(deps) /\ Len(deps') = Len(deps) /\ (\A n \in 1..Len(deps) : n # p => deps'[n] = deps[n])
          /\ DepNamed(deps'[p]) /\ DepOk(deps'[p]) /\ deps'[p] = [Dep EXCEPT !.url = page[i]]
      BY <2>4, DepFound
    <3>2. DepInv'
      BY <2>0, <3>1 DEF DepInv
    <3>3. deps[p] \in DepRec
      BY <1>0, <3>1, ElementType
    <3>4. deps'[p].id = deps[p].id /\ (Blank(deps[p]) => Blank(deps'[p]))
      BY <3>1, <3>3 DEF Dep, DepRec, Blank
    <3>5. glb' = glb
      BY <2>4 DEF MatchDependency, MatchFrame, VerifyFrame
    <3> HIDE DEF p
    <3>6. FreshInv'
      BY <2>0, <3>1, <3>4, <3>5 DEF FreshInv
    <3> QED BY <3>2, <3>6
  <2> QED BY <1>2, <2>1, <2>2, <2>3, <2>4, DepsChange, FreeResets
<1> QED BY <1>1, <1>2
-----------------------------------------------------------------------------
(* From the positions of the arrays to what the properties say.            *)
LEMMA Position == ASSUME NEW R, NEW s \in Seq(R), NEW v \in ToSet(s) PROVE \E n \in 1..Len(s) : v = s[n]
  BY DEF ToSet

LEMMA BelongTogether ==
    Types /\ VendorInv /\ ModuleInv /\ OeInv /\ DepInv => UrlsBelong
<1> SUFFICES ASSUME Types, VendorInv, ModuleInv, OeInv, DepInv PROVE UrlsBelong
  OBVIOUS
<1>0. vendors \in Seq(VendorRec) /\ modules \in Seq(ModuleRec) /\ deps \in Seq(DepRec) /\ oes \in Seq(OeRec)
  BY DEF Types, VendorTypes, ModuleTypes, DepTypes, OeTypes
<1>1. VendorUrlsTogether
  <2> SUFFICES ASSUME NEW v \in ToSet(vendors), v.url # NULL
               PROVE  /\ \E a \in ToSet(VendorTable[v.url].addresses) :
                           a = [data |-> v.data.address, url |-> v.addressUrl]
                      /\ \A q \in DOMAIN v.personUrls : \E c \in ToSet(VendorTable[v.url].contacts) :
                           /\ c.url = v.personUrls[q] /\ c.name = v.data.persons[q].name
                           /\ Agrees(v.data.persons[q].emails, c.emails)
    BY Zenon DEF VendorUrlsTogether
  <2> DEFINE e == VendorTable[v.url]
  <2>1. VendorOk(v)
    BY <1>0, Position DEF VendorInv
  <2>2. e \in VendorEntry
    BY <2>1, DatabaseAssumption DEF VendorOk
  <2>3. /\ e.addresses \in Seq([data : Strings, url : Present])
        /\ e.contacts \in Seq([name : Strings, emails : Seq(Strings), phones : Seq(Strings), url : Present])
    BY <2>2 DEF VendorEntry
  <2>4. \E a \in ToSet(e.addresses) : a = [data |-> v.data.address, url |-> v.addressUrl]
    <3>1. PICK a \in 1..Len(e.addresses) : e.addresses[a].data = v.data.address /\ e.addresses[a].url = v.addressUrl
      BY <2>1 DEF VendorOk
    <3>2. e.addresses[a] \in [data : Strings, url : Present]
      BY <2>3, ElementType
    <3>3. e.addresses[a] = [data |-> v.data.address, url |-> v.addressUrl]
      BY <3>1, <3>2
    <3>4. e.addresses[a] \in ToSet(e.addresses)
      BY <2>3 DEF ToSet
    <3> QED BY <3>3, <3>4
  <2>5. ASSUME NEW q \in DOMAIN v.personUrls
        PROVE  \E c \in ToSet(e.contacts) : /\ c.url = v.personUrls[q] /\ c.name = v.data.persons[q].name
                                            /\ Agrees(v.data.persons[q].emails, c.emails)
    <3>1. PICK c \in 1..Len(e.contacts) : /\ e.contacts[c].url = v.personUrls[q]
                                          /\ e.contacts[c].name = v.data.persons[q].name
                                          /\ Agrees(v.data.persons[q].emails, e.contacts[c].emails)
      BY <2>1 DEF VendorOk
    <3>2. e.contacts[c] \in ToSet(e.contacts)
      BY <2>3 DEF ToSet
    <3> QED BY <3>1, <3>2
  <2> QED BY <2>4, <2>5
<1>2. ASSUME NEW m \in ToSet(modules), m.url # NULL
      PROVE  LET e == ModuleTable[m.url] v == vendors[m.vendor]
             IN  /\ e.vendorUrl = v.url /\ e.addressUrl = v.addressUrl
                 /\ ToSet(v.personUrls) \subseteq ToSet(e.contactUrls)
  <2>1. ModuleOk(m.url, vendors[m.vendor])
    BY <1>0, <1>2, Position DEF ModuleInv
  <2> QED BY <2>1 DEF ModuleOk, ToSet
<1>3. ASSUME NEW n \in 1..Len(oes), oes[n].url # NULL 
      PROVE  \E m \in 0..Len(oes[n].deps) : Agrees(SubSeq(DepUrls(oes[n]), 1, m), OeTable[oes[n].url])
  <2> DEFINE s == OeTable[oes[n].url]
             t == DepUrls(oes[n])
  <2>1. OeOk(oes[n], deps)
    BY <1>3 DEF OeInv
  <2>2. s \in Seq(Present)
    BY <2>1, DatabaseAssumption DEF OeOk
  <2>3. oes[n] \in OeRec
    BY <1>0, ElementType
  <2>4. oes[n].deps \in Seq(Nat) /\ \A q \in 1..Len(oes[n].deps) : oes[n].deps[q] \in 1..Len(deps)
    BY <2>3 DEF OeRec, Types, OeTypes
  <2>5. DOMAIN t = 1..Len(oes[n].deps) /\ \A q \in 1..Len(oes[n].deps) : t[q] = deps[oes[n].deps[q]].url
    BY <2>4 DEF DepUrls
  <2>6. ASSUME NEW q \in 1..Len(oes[n].deps) PROVE t[q] \in Strings
    <3>1. deps[oes[n].deps[q]] \in DepRec
      BY <1>0, <2>4, ElementType
    <3> QED BY <2>5, <3>1 DEF DepRec
  <2>7. t = [q \in 1..Len(oes[n].deps) |-> t[q]]
    BY <2>4 DEF DepUrls
  <2> HIDE DEF t, s
  <2>8. Len(oes[n].deps) \in Nat
    BY <2>4
  <2>9. t \in Seq(Strings) /\ Len(t) = Len(oes[n].deps)
    BY <2>6, <2>7, <2>8
  <2>10. Len(s) <= Len(t) /\ \A q \in 1..Len(s) : s[q] \in {NoString, t[q]}
    BY <2>1, <2>2, <2>5, <2>8, <2>9 DEF OeOk, s
  <2>11. Len(SubSeq(t, 1, Len(s))) = Len(s) /\ \A q \in 1..Len(s) : SubSeq(t, 1, Len(s))[q] = t[q]
    BY <2>2, <2>9, <2>10
  <2>12. Agrees(SubSeq(t, 1, Len(s)), s)
    BY <2>10, <2>11 DEF Agrees
  <2>13. Len(s) \in 0..Len(oes[n].deps)
    BY <2>2, <2>9, <2>10
  <2> QED BY <2>12, <2>13 DEF s, t
<1>4. ASSUME NEW o \in ToSet(oes), o.url # NULL
      PROVE  \E m \in 0..Len(o.deps) : Agrees(SubSeq(DepUrls(o), 1, m), OeTable[o.url])
  BY <1>0, <1>3, <1>4, Position
<1>5. ASSUME ~bad, NEW d \in ToSet(deps), d.url # NULL
      PROVE  LET e == DepTable[d.url]
             IN  e.name = d.name /\ e.desc = d.desc /\ \A f \in {"series", "family"} : e[f] \in {NULL, d[f]}
  <2>1. DepOk(d)
    BY <1>0, <1>5, Position DEF DepInv
  <2> QED BY <1>5, <2>1 DEF DepOk
<1>6. FoundIsEqual
  BY <1>2, <1>4, <1>5, Zenon DEF FoundIsEqual
<1> QED BY <1>1, <1>6 DEF UrlsBelong

(* The URLs that a verification has stored belong together and to what     *)
(* they were stored for: query_vendor_contacts() and the like keep what    *)
(* they have found of a candidate that does not match in the end.          *)
THEOREM UrlsTogether == Spec => []UrlsBelong
<1> DEFINE Inv == /\ Types /\ VerifyInv /\ PageInv
                  /\ VendorInv /\ ModuleInv /\ OeInv /\ DepInv /\ FreshInv
<1>1. Init => Inv
  <2>1. Init => VendorInv /\ ModuleInv /\ OeInv /\ DepInv /\ FreshInv
    BY DEF Init, VendorInv, ModuleInv, OeInv, DepInv, FreshInv
  <2> QED BY <2>1, InitTypes
<1>2. Inv /\ [Next]_vars => Inv'
  BY TypesStep, VerifyInvStep, PageInvStep, VendorInvStep, ModuleInvStep, OeInvStep, DepInvStep
<1>3. Inv => UrlsBelong
  BY BelongTogether
<1> QED BY <1>1, <1>2, <1>3, PTL DEF Spec
-----------------------------------------------------------------------------
(* A candidate is left behind because it differs.                          *)
LEMMA Rejects ==
    ASSUME [Next]_vars, pc = "match", pc' = "match", i' # i
    PROVE  /\ i' = i + 1 /\ page' = page
           /\ what = "module" => ~SameModule(ModuleTable[page[i]], i)
           /\ what = "dependency" => ~SameDependency(DepTable[page[i]])
           /\ what = "oe" => ~Agrees(DepUrls(Oe), OeTable[page[i]])
  BY DEF Next, Step, vars, env, CallModuleNew, CallDependencyNew, CallOeNew, CallModuleSet,
         CallSetDependency, Select, FreeOperatingEnv, IngestMetadata, Verify, ParseVendor,
         ParseModule, ParseOe, ParseDependency, EndOfArray, Query, GetPage, NextPage, MatchVendor,
         QueryContacts, MatchModule, MatchDependency, MatchOe, VendorSought, ModuleSought,
         DependencySought, Dependencies, OeSought, Verified, VerifyFrame, MatchFrame, IngestFrame,
         Called, Api, Stop, Return, Seek, Matched, NextCandidate, Candidate, Status, Element, Fail,
         EndIngest, search, parse, bounds

(* What is equal agrees.                                                   *)
LEMMA EqualAgrees == \A s : Agrees(s, s)
  BY DEF Agrees

(* The fields that are left of an earlier candidate.                       *)
LEMMA TmpMoves ==
    ASSUME [Next]_vars, tmp_dep' # Cleared
    PROVE  \/ MatchDependency /\ pc' = "match" /\ i' = i + 1 /\ what' = what
           \/ tmp_dep' = tmp_dep /\ (pc = "match" /\ what = "dependency" => pc' = pc /\ what' = what /\ i' = i)
  BY DEF Next, Step, vars, env, CallModuleNew, CallDependencyNew, CallOeNew, CallModuleSet,
         CallSetDependency, Select, FreeOperatingEnv, IngestMetadata, Verify, ParseVendor,
         ParseModule, ParseOe, ParseDependency, EndOfArray, Query, GetPage, NextPage, MatchVendor,
         QueryContacts, MatchModule, MatchDependency, MatchOe, VendorSought, ModuleSought,
         DependencySought, Dependencies, OeSought, Verified, VerifyFrame, MatchFrame, IngestFrame,
         Called, Api, Stop, Return, Seek, Matched, NextCandidate, Candidate, Status, Element, Fail,
         EndIngest, search, parse, bounds

(* With no field left of an earlier candidate, an equal one is recognised. *)
LEMMA FirstDependency ==
    ASSUME Dep \in DepRec, NEW e \in DepEntry, tmp_dep = Cleared, Exact(Dep, e)
    PROVE  SameDependency(e)
<1>1. e.name # NULL /\ Dep.name = e.name /\ Dep.desc = e.desc /\ Dep.series = e.series /\ Dep.family = e.family
  BY DEF Exact, DepEntry, Present
<1>2. \A f \in {"series", "family"} : Filled(e)[f] = e[f]
  BY DEF Filled, Cleared
<1> QED BY <1>1, <1>2 DEF SameDependency

(* A vendor with one contact: the first candidate is compared with it.     *)
LEMMA FirstModule ==
    ASSUME Ven \in VendorRec, NEW e \in ModuleEntry, ModuleAsked = e, ~(Len(Ven.personUrls) > 1)
    PROVE  SameModule(e, 1)
<1>1. Ven.personUrls \in Seq(Strings) /\ Len(Ven.personUrls) \in Nat
  BY DEF VendorRec
<1>2. /\ e.data = Mod.data /\ e.vendorUrl = Ven.url /\ e.addressUrl = Ven.addressUrl
      /\ e.contactUrls = Ven.personUrls /\ e.data # NULL
  BY DEF ModuleAsked, ModuleEntry, Present
<1>3. \A p \in DOMAIN Ven.personUrls : p = 1 /\ 1 <= Len(Ven.personUrls)
  BY <1>1
<1> QED BY <1>2, <1>3 DEF SameModule

LEMMA FirstInvStep == Types /\ VerifyInv /\ PageInv /\ FirstInv /\ [Next]_vars => FirstInv'
<1> SUFFICES ASSUME Types, VerifyInv, PageInv, FirstInv, [Next]_vars PROVE FirstInv'
  OBVIOUS
<1>0. i \in Nat /\ Len(page) \in Nat
  BY DEF Types, SearchTypes
<1>1. tmp_dep' # Cleared => pc' = "match" /\ what' = "dependency" /\ i' > 1
  <2> SUFFICES ASSUME tmp_dep' # Cleared PROVE pc' = "match" /\ what' = "dependency" /\ i' > 1
    OBVIOUS
  <2>1. CASE MatchDependency /\ pc' = "match" /\ i' = i + 1 /\ what' = what
    BY <1>0, <2>1 DEF MatchDependency, Candidate, PageInv
  <2>2. CASE tmp_dep' = tmp_dep /\ (pc = "match" /\ what = "dependency" => pc' = pc /\ what' = what /\ i' = i)
    BY <2>2 DEF FirstInv
  <2> QED BY <2>1, <2>2, TmpMoves
<1>2. ASSUME pc' = "match", i' > 1
      PROVE  /\ what' = "dependency" => ~Exact(Dep', DepTable[page'[1]])
             /\ what' = "module" => ModuleAsked' # ModuleTable[page'[1]] \/ Len(Ven'.personUrls) > 1
             /\ what' = "oe" => \A n \in 1..(i' - 1) : OeTable[page'[n]] # DepUrls(Oe)'
  <2>1. pc \in {"match", "contacts"} /\ page' = page
    BY <1>2, PageMoves
  <2>2. /\ what' = what /\ (what # "vendor" => Ven' = Ven) /\ (what = "dependency" => Dep' = Dep)
        /\ (what = "oe" => DepUrls(Oe)' = DepUrls(Oe)) /\ Mod'.data = Mod.data
    BY <1>2, <2>1, SoughtKept
  <2>3. what = "module" => ModuleAsked' = ModuleAsked
    BY <2>2 DEF ModuleAsked
  <2>4. CASE pc = "contacts"
    BY <2>2, <2>4 DEF VerifyInv, Verifying
  <2>5. CASE pc = "match" /\ i' = i
    BY <1>2, <2>1, <2>2, <2>3, <2>5 DEF FirstInv
  <2>6. CASE pc = "match" /\ i' # i
    <3>1. /\ i' = i + 1 /\ i >= 1 /\ i <= Len(page)
          /\ what = "module" => ~SameModule(ModuleTable[page[i]], i)
          /\ what = "dependency" => ~SameDependency(DepTable[page[i]])
          /\ what = "oe" => OeTable[page[i]] # DepUrls(Oe)
      <4>1. i' <= Len(page') + 1
        BY <1>2, PageInvStep DEF PageInv
      <4>2. what = "oe" => OeTable[page[i]] # DepUrls(Oe)
        <5>1. what = "oe" => ~Agrees(DepUrls(Oe), OeTable[page[i]])
          BY <1>2, <2>1, <2>6, Rejects
        <5>2. Agrees(DepUrls(Oe), DepUrls(Oe))
          BY EqualAgrees
        <5> QED BY <5>1, <5>2
      <4> QED BY <1>0, <1>2, <2>1, <2>6, <4>1, <4>2, Rejects DEF PageInv
    <3>2. page[i] \in Offered
      BY <1>0, <2>6, <3>1 DEF PageInv
    <3>3. what = "dependency" => ~Exact(Dep, DepTable[page[1]])
      <4> SUFFICES ASSUME what = "dependency", i = 1 PROVE ~Exact(Dep, DepTable[page[1]])
        BY <1>0, <2>6, <3>1 DEF FirstInv
      <4>1. tmp_dep = Cleared
        BY DEF FirstInv
      <4>2. DepTable[page[1]] \in DepEntry
        BY <3>2, DatabaseAssumption DEF Offered
      <4>3. k \in 1..Len(Oe.deps)
        BY <2>6 DEF VerifyInv, Verifying
      <4>4. Dep \in DepRec
        BY <2>6, <4>3, VerifyFacts DEF Verifying, Dep
      <4> QED BY <3>1, <4>1, <4>2, <4>4, FirstDependency
    <3>4. what = "module" => ModuleAsked # ModuleTable[page[1]] \/ Len(Ven.personUrls) > 1
      <4> SUFFICES ASSUME what = "module", i = 1 PROVE ModuleAsked # ModuleTable[page[1]] \/ Len(Ven.personUrls) > 1
        BY <1>0, <2>6, <3>1 DEF FirstInv
      <4>1. ModuleTable[page[1]] \in ModuleEntry
        BY <3>2, DatabaseAssumption DEF Offered
      <4>2. Ven \in VendorRec
        BY <2>6, VerifyFacts DEF Verifying
      <4> QED BY <3>1, <4>1, <4>2, FirstModule
    <3>5. what = "oe" => \A n \in 1..i : OeTable[page[n]] # DepUrls(Oe)
      BY <1>0, <2>6, <3>1 DEF FirstInv
    <3>6. i' - 1 = i
      BY <1>0, <3>1
    <3> QED BY <2>1, <2>2, <2>3, <3>3, <3>4, <3>5, <3>6
  <2> QED BY <2>1, <2>4, <2>5, <2>6
<1> QED BY <1>1, <1>2 DEF FirstInv

(* A resource that the server already has is not created again, if it is   *)
(* the first of its page: match_dependencies_page() clears its candidate,  *)
(* and match_modules_page() compares the contact at that position.         *)
THEOREM FirstFound == Spec => []FirstIsFound
<1> DEFINE Inv == Types /\ VerifyInv /\ PageInv /\ FirstInv
<1>1. Init => Inv
  <2>1. Init => FirstInv
    BY DEF Init, FirstInv
  <2> QED BY <2>1, InitTypes
<1>2. Inv /\ [Next]_vars => Inv'
  BY TypesStep, VerifyInvStep, PageInvStep, FirstInvStep
<1>3. Inv => FirstIsFound
  <2> SUFFICES ASSUME Inv, pc = "match", i > Len(page), page # <<>>
               PROVE  /\ what = "dependency" => ~Exact(Dep, DepTable[page[1]])
                      /\ what = "module" => ModuleAsked # ModuleTable[page[1]] \/ Len(Ven.personUrls) > 1
                      /\ what = "oe" => \A n \in DOMAIN page : OeTable[page[n]] # DepUrls(Oe)
    BY DEF FirstIsFound, ModuleAsked
  <2>1. page \in Seq(Present) /\ i \in Nat /\ i <= Len(page) + 1
    BY DEF Types, SearchTypes, PageInv
  <2>2. i > 1 /\ DOMAIN page = 1..(i - 1)
    BY <2>1
  <2> QED BY <2>2 DEF FirstInv
<1> QED BY <1>1, <1>2, <1>3, PTL DEF Spec
-----------------------------------------------------------------------------
(* Which steps set the status, and how the others move on.                 *)
LEMMA StatusFlow ==
    ASSUME [Next]_vars, pc \in Verifying, pc' \in Verifying
    PROVE  \/ ModuleSought \/ DependencySought \/ Dependencies
           \/ /\ pc' \in {"seek", "get", "match", "contacts", "sought"} /\ pc \in {"seek", "get", "match", "contacts", "sought"}
              /\ (what' = what /\ k' = k) \/ what' = "module"
           \/ pc' = "dependencies" /\ pc = pc' /\ what' = what /\ k' = k
           \/ pc' = "verified" /\ (pc = "verified" \/ (pc = "sought" /\ what = "oe"))
  BY DEF Next, Step, vars, env, CallModuleNew, CallDependencyNew, CallOeNew, CallModuleSet,
         CallSetDependency, Select, FreeOperatingEnv, IngestMetadata, Verify, ParseVendor,
         ParseModule, ParseOe, ParseDependency, EndOfArray, Query, GetPage, NextPage, MatchVendor,
         QueryContacts, MatchModule, MatchDependency, MatchOe, VendorSought, OeSought, Verified,
         VerifyFrame, MatchFrame, IngestFrame, Called, Api, Stop, Return, Seek, Matched,
         NextCandidate, Candidate, Status, Element, Fail, EndIngest, search, parse, bounds,
         Verifying

LEMMA StatusKept ==
    ASSUME Types, VerifyInv, PageInv, [Next]_vars, pc \in Verifying, pc' \in Verifying,
           ~ModuleSought, ~DependencySought, ~Dependencies
    PROVE  Oe'.status = Oe.status
<1>1. fips' = fips /\ fips.oe \in 1..Len(oes) /\ Oe \in OeRec /\ oes \in Seq(OeRec)
  BY VerifyKeeps, VerifyFacts DEF Types, OeTypes
<1>2. CASE oes' = oes
  BY <1>1, <1>2 DEF Oe
<1>3. CASE MatchOe
  <2>1. oes' = oes \/ oes' = [oes EXCEPT ![fips.oe].url = page[i]]
    BY <1>3 DEF MatchOe
  <2>2. CASE oes' = [oes EXCEPT ![fips.oe].url = page[i]]
    <3>1. Oe' = [Oe EXCEPT !.url = page[i]]
      BY <1>1, <2>2 DEF Oe
    <3> QED BY <1>1, <3>1 DEF OeRec
  <2> QED BY <1>2, <2>1, <2>2
<1>4. oes' = oes \/ MatchOe
  BY OesChange DEF CallOeNew, CallSetDependency, ParseOe, ParseDependency, FreeOperatingEnv, Api, Verifying
<1> QED BY <1>2, <1>3, <1>4

(* What the steps that set the status leave it at.                         *)
LEMMA StatusSet ==
    ASSUME Types, VerifyInv, PageInv, pc \in Verifying, fips' = fips, deps' = deps,
           NEW s \in {"COMPLETE", "PARTIAL", "INCOMPLETE"}, Status(s)
    PROVE  Oe'.status = s
<1>1. fips.oe \in 1..Len(oes) /\ oes \in Seq(OeRec) /\ Oe \in OeRec
  BY VerifyFacts DEF Types, OeTypes
<1>2. oes' = [oes EXCEPT ![fips.oe] = [Oe EXCEPT !.status = s]] /\ [Oe EXCEPT !.status = s].status = s
  BY StatusEffect
<1>3. Oe' = [Oe EXCEPT !.status = s]
  BY <1>1, <1>2 DEF Oe
<1> QED BY <1>2, <1>3

LEMMA StatusInvStep == Types /\ VerifyInv /\ PageInv /\ StatusInv /\ [Next]_vars => StatusInv'
<1> SUFFICES ASSUME Types, VerifyInv, PageInv, StatusInv, [Next]_vars, pc' \in Verifying PROVE StatusInv'
  BY DEF StatusInv, Verifying
<1>1. CASE Verify
  <2>1. what' = "vendor" /\ pc' = "seek"
    BY <1>1 DEF Verify, Seek, Return, Verifying
  <2> QED BY <2>1 DEF StatusInv
<1>2. CASE pc \in Verifying
  <2>0. /\ fips' = fips /\ Oe'.deps = Oe.deps /\ Oe.deps \in Seq(Nat) /\ Len(Oe.deps) \in Nat /\ k \in Nat
        /\ \A q \in 1..Len(Oe.deps) : Oe.deps[q] \in 1..Len(deps)
    BY <1>2, VerifyKeeps, VerifyFacts DEF OeRec, Types, SearchTypes
  <2>1. \A q \in 1..Len(Oe.deps) : deps'[Oe.deps[q]].url = NULL => deps[Oe.deps[q]].url = NULL
    <3>1. ~Reset
      BY <1>2 DEF Reset, Verifying
    <3> QED BY <2>0, <3>1, FoundDepStays
  <2>2. what # "dependency" \/ pc # "match" => deps' = deps
    BY <1>2, VerifyKeeps DEF TouchDep, Verifying
  <2>3. CASE ModuleSought
    <3>1. Oe'.status = "COMPLETE"
      BY <1>2, <2>0, <2>3, StatusSet DEF ModuleSought
    <3>2. pc' = "dependencies" /\ k' = 1
      BY <2>3 DEF ModuleSought
    <3> QED BY <3>1, <3>2 DEF StatusInv
  <2>4. CASE DependencySought
    <3>1. pc = "sought" /\ what = "dependency" /\ pc' = "dependencies" /\ k' = k + 1 /\ deps' = deps
      BY <2>4 DEF DependencySought
    <3>2. Oe.status \in {"COMPLETE", "PARTIAL"}
          /\ \A q \in 1..Len(Oe.deps) : q < k /\ deps[Oe.deps[q]].url = NULL => Oe.status = "PARTIAL"
      BY <3>1 DEF StatusInv
    <3>3. CASE Dep.url = NULL
      <4>1. Oe'.status = "PARTIAL"
        BY <1>2, <2>0, <2>4, <3>3, StatusSet DEF DependencySought
      <4> QED BY <3>1, <4>1 DEF StatusInv
    <3>4. CASE Dep.url # NULL
      <4>1. Oe'.status = Oe.status
        BY <2>0, <2>4, <3>4 DEF DependencySought, Oe
      <4>2. \A q \in 1..Len(Oe.deps) : q < k + 1 => q < k \/ q = k
        BY <2>0
      <4>3. \A q \in 1..Len(Oe.deps) : q < k + 1 /\ deps[Oe.deps[q]].url = NULL => Oe.status = "PARTIAL"
        BY <3>2, <3>4, <4>2 DEF Dep
      <4> QED BY <2>0, <3>1, <3>2, <4>1, <4>3 DEF StatusInv
    <3> QED BY <3>3, <3>4
  <2>5. CASE Dependencies
    <3>1. pc = "dependencies" /\ what = "dependency" /\ deps' = deps
      BY <1>2, <2>5 DEF Dependencies, VerifyInv
    <3>2. Oe.status \in {"COMPLETE", "PARTIAL"}
          /\ \A q \in 1..Len(Oe.deps) : q < k /\ deps[Oe.deps[q]].url = NULL => Oe.status = "PARTIAL"
      BY <3>1 DEF StatusInv
    <3>3. CASE k <= Len(Oe.deps)
      <4>1. pc' = "seek" /\ what' = "dependency" /\ oes' = oes /\ k' = k
        BY <2>0, <2>5, <3>3 DEF Dependencies, Seek
      <4> QED BY <2>0, <3>1, <3>2, <4>1 DEF StatusInv, Oe
    <3>4. CASE k > Len(Oe.deps)
      <4>1. /\ pc' = "verified" \/ (pc' = "seek" /\ what' = "oe")
            /\ ToSet(DepUrls(Oe)) \subseteq {NULL} => Status("INCOMPLETE")
            /\ ~(ToSet(DepUrls(Oe)) \subseteq {NULL}) => oes' = oes
        BY <2>0, <2>5, <3>4 DEF Dependencies, Seek
      <4>2. CASE ToSet(DepUrls(Oe)) \subseteq {NULL}
        <5>1. Oe'.status = "INCOMPLETE"
          BY <1>2, <2>0, <3>1, <4>1, <4>2, StatusSet
        <5>2. \A q \in 1..Len(Oe.deps) : deps[Oe.deps[q]].url = NULL
          <6>1. DOMAIN DepUrls(Oe) = DOMAIN Oe.deps /\ \A q \in DOMAIN Oe.deps : DepUrls(Oe)[q] = deps[Oe.deps[q]].url
            BY DEF DepUrls
          <6>2. \A q \in DOMAIN DepUrls(Oe) : DepUrls(Oe)[q] \in {NULL}
            BY <4>2, Zenon DEF ToSet
          <6>3. DOMAIN Oe.deps = 1..Len(Oe.deps)
            BY <2>0
          <6> QED BY <6>1, <6>2, <6>3
        <5> QED BY <2>0, <3>1, <4>1, <5>1, <5>2 DEF StatusInv, NULL
      <4>3. CASE ~(ToSet(DepUrls(Oe)) \subseteq {NULL})
        <5>1. Oe'.status = Oe.status
          BY <2>0, <4>1, <4>3 DEF Oe
        <5>2. Oe.status = "COMPLETE" => \A q \in 1..Len(Oe.deps) : deps[Oe.deps[q]].url # NULL
          BY <2>0, <3>2, <3>4
        <5> QED BY <2>0, <3>1, <3>2, <4>1, <5>1, <5>2 DEF StatusInv, NULL
      <4> QED BY <4>2, <4>3
    <3> QED BY <2>0, <3>3, <3>4
  <2>6. CASE ~ModuleSought /\ ~DependencySought /\ ~Dependencies
    <3>1. Oe'.status = Oe.status
      BY <1>2, <2>6, StatusKept
    <3>2. CASE /\ pc' \in {"seek", "get", "match", "contacts", "sought"}
               /\ pc \in {"seek", "get", "match", "contacts", "sought"}
               /\ (what' = what /\ k' = k) \/ what' = "module"
      <4>1. pc # "contacts" \/ what = "vendor"
        BY <1>2 DEF VerifyInv
      <4>2. CASE what' = "dependency" /\ what = "dependency" /\ k' = k
        BY <2>0, <2>1, <3>1, <3>2, <4>1, <4>2 DEF StatusInv
      <4>3. CASE what' = "oe" /\ what = "oe"
        BY <2>0, <2>2, <3>1, <3>2, <4>1, <4>3 DEF StatusInv
      <4>4. CASE what' \in {"vendor", "module"}
        BY <3>2, <4>4 DEF StatusInv
      <4>5. what \in {"vendor", "module", "dependency", "oe"}
        BY DEF Types, SearchTypes
      <4> QED BY <3>2, <4>2, <4>3, <4>4, <4>5
    <3>3. CASE pc' = "dependencies" /\ pc = pc' /\ what' = what /\ k' = k
      BY <2>0, <2>1, <3>1, <3>3 DEF StatusInv
    <3>4. CASE pc' = "verified" /\ (pc = "verified" \/ (pc = "sought" /\ what = "oe"))
      BY <2>0, <2>2, <3>1, <3>4 DEF StatusInv
    <3> QED BY <1>2, <2>6, <3>2, <3>3, <3>4, StatusFlow
  <2> QED BY <2>3, <2>4, <2>5, <2>6
<1> QED BY <1>1, <1>2, VerifyingStep

(* The validation request is whole: each dependency of an OE that is to be *)
(* created is in it once, and a module that is to be created has the URLs  *)
(* of its vendor, its address and all contacts (amvp_build_validation()).  *)
THEOREM WholeRequest == Spec => []RequestIsWhole
<1> DEFINE Inv == Types /\ VerifyInv /\ PageInv /\ VendorInv /\ StatusInv
<1>1. Init => Inv
  <2>1. Init => VendorInv /\ StatusInv
    BY DEF Init, VendorInv, StatusInv
  <2> QED BY <2>1, InitTypes
<1>2. Inv /\ [Next]_vars => Inv'
  BY TypesStep, VerifyInvStep, PageInvStep, VendorInvStep, StatusInvStep
<1>3. Inv => RequestIsWhole
  <2> SUFFICES ASSUME Inv, pc = "verified"
               PROVE  /\ Validation.oeUrl = NULL =>
                           /\ Validation.depUrls \cap Validation.dependencies = {}
                           /\ Validation.depUrls \cup Validation.dependencies = DOMAIN Oe.deps
                      /\ Validation.moduleUrl = NULL =>
                           /\ NULL \notin {Validation.vendorUrl, Validation.addressUrl}
                           /\ Validation.contactUrls = DOMAIN Ven.data.persons
    BY DEF RequestIsWhole
  <2>1. /\ Oe \in OeRec /\ Ven \in VendorRec /\ DOMAIN Ven.personUrls = DOMAIN Ven.data.persons
        /\ Ven.url # NULL /\ Mod.vendor \in 1..Len(vendors)
    BY VerifyFacts DEF VerifyInv, Verifying
  <2>2. /\ Oe.deps \in Seq(Nat) /\ Oe.status \in {"COMPLETE", "PARTIAL", "INCOMPLETE"}
        /\ Oe.status = "COMPLETE" => \A q \in DOMAIN Oe.deps : deps[Oe.deps[q]].url # NULL
        /\ Oe.status = "INCOMPLETE" => \A q \in DOMAIN Oe.deps : deps[Oe.deps[q]].url = NULL
    <3>1. Oe.deps \in Seq(Nat) /\ Oe.status \in {NULL, "COMPLETE", "PARTIAL", "INCOMPLETE"}
      BY <2>1 DEF OeRec
    <3>2. DOMAIN Oe.deps = 1..Len(Oe.deps)
      BY <3>1
    <3>3. /\ Oe.status # NULL
          /\ Oe.status = "COMPLETE" => \A q \in 1..Len(Oe.deps) : deps[Oe.deps[q]].url # NULL
          /\ Oe.status = "INCOMPLETE" => \A q \in 1..Len(Oe.deps) : deps[Oe.deps[q]].url = NULL
      BY DEF StatusInv
    <3> QED BY <3>1, <3>2, <3>3
  <2>3. ASSUME Validation.oeUrl = NULL
        PROVE  /\ Validation.depUrls \cap Validation.dependencies = {}
               /\ Validation.depUrls \cup Validation.dependencies = DOMAIN Oe.deps
    BY <2>2, <2>3 DEF Validation
  <2>4. ASSUME Validation.moduleUrl = NULL
        PROVE  /\ NULL \notin {Validation.vendorUrl, Validation.addressUrl}
               /\ Validation.contactUrls = DOMAIN Ven.data.persons
    <3>1. VendorOk(Ven)
      BY <2>1 DEF VendorInv, Ven
    <3>2. VendorTable[Ven.url] \in VendorEntry
      BY <2>1, <3>1, DatabaseAssumption DEF VendorOk
    <3>3. Ven.addressUrl # NULL
      <4>1. PICK a \in 1..Len(VendorTable[Ven.url].addresses) : VendorTable[Ven.url].addresses[a].url = Ven.addressUrl
        BY <2>1, <3>1 DEF VendorOk
      <4>2. VendorTable[Ven.url].addresses \in Seq([data : Strings, url : Present])
        BY <3>2 DEF VendorEntry
      <4>3. VendorTable[Ven.url].addresses[a] \in [data : Strings, url : Present]
        BY <4>2, ElementType
      <4> QED BY <4>1, <4>3 DEF Present
    <3>4. ASSUME NEW p \in DOMAIN Ven.personUrls PROVE Ven.personUrls[p] # NULL
      <4>1. PICK c \in 1..Len(VendorTable[Ven.url].contacts) : VendorTable[Ven.url].contacts[c].url = Ven.personUrls[p]
        BY <2>1, <3>1 DEF VendorOk
      <4>2. VendorTable[Ven.url].contacts
              \in Seq([name : Strings, emails : Seq(Strings), phones : Seq(Strings), url : Present])
        BY <3>2 DEF VendorEntry
      <4>3. VendorTable[Ven.url].contacts[c]
              \in [name : Strings, emails : Seq(Strings), phones : Seq(Strings), url : Present]
        BY <4>2, ElementType
      <4> QED BY <4>1, <4>3 DEF Present
    <3> QED BY <2>1, <2>4, <3>3, <3>4 DEF Validation
  <2> QED BY <2>3, <2>4
<1> QED BY <1>1, <1>2, <1>3, PTL DEF Spec
-----------------------------------------------------------------------------
(* amvp_oe_oe_new() takes an id once.                                      *)
LEMMA UniqueInvStep == Types /\ VerifyInv /\ PageInv /\ UniqueInv /\ [Next]_vars => UniqueInv'
<1> SUFFICES ASSUME Types, VerifyInv, PageInv, UniqueInv, [Next]_vars PROVE UniqueInv'
  OBVIOUS
<1>0. oes \in Seq(OeRec) /\ Len(oes) \in Nat
  BY DEF Types, OeTypes
<1>1. CASE oes' = oes
  BY <1>1 DEF UniqueInv
<1>2. CASE Reset
  BY <1>2 DEF UniqueInv, Reset
<1>3. CASE GrowOes
  <2>1. PICK o \in OeRec : oes' = Append(oes, o) /\ \A n \in 1..Len(oes) : oes[n].id # o.id
    BY <1>3 DEF GrowOes
  <2>2. Len(oes') = Len(oes) + 1 /\ oes'[Len(oes) + 1] = o /\ \A n \in 1..Len(oes) : oes'[n] = oes[n]
    BY <1>0, <2>1, Longer
  <2> QED BY <1>0, <2>1, <2>2 DEF UniqueInv
<1>4. CASE TouchOe
  BY <1>4 DEF UniqueInv, TouchOe
<1> QED BY <1>1, <1>2, <1>3, <1>4, OesEffect

(* The dependencies of an operating environment that are read so far, one  *)
(* element each, leave room for the one that was just made: the result of  *)
(* amvp_oe_oe_set_dependency() need not be looked at.                      *)
LEMMA Room ==
    ASSUME NEW s \in Seq(Nat), NEW M \in Nat, NEW p \in 1..M,
           \A q \in 1..Len(s) : s[q] \in 1..M /\ s[q] # p,
           \A a, b \in 1..Len(s) : a # b => s[a] # s[b]
    PROVE  Len(s) < M
<1> SUFFICES ASSUME Len(s) >= M PROVE FALSE
  OBVIOUS
<1> DEFINE m == Len(s) + 1
           f == [q \in 1..m |-> IF q = m THEN p ELSE s[q]]
<1>1. m \in Nat /\ m > M /\ f \in [1..m -> 1..M]
  <2>1. m \in Nat /\ m > M
    OBVIOUS
  <2>2. ASSUME NEW q \in 1..m, q # m PROVE q \in 1..Len(s)
    BY <2>2
  <2> HIDE DEF m
  <2>3. \A q \in 1..m : (IF q = m THEN p ELSE s[q]) \in 1..M
    BY <2>2
  <2> QED BY <2>1, <2>3
<1>2. IsFiniteSet(1..m) /\ Cardinality(1..m) = m /\ IsFiniteSet(1..M) /\ Cardinality(1..M) = M
  BY <1>1, FS_Interval
<1>3. \E x, y \in 1..m : x # y /\ f[x] = f[y]
  <2> HIDE DEF f, m
  <2> QED BY <1>1, <1>2, FS_PigeonHole
<1> QED BY <1>3

(* What is loaded stays, as long as no dependency with a used id changes.  *)
LEMMA LoadedStays ==
    ASSUME NEW o, NEW e, NEW m \in Nat, NEW ds, NEW next \in Nat, Loaded(o, e, m, deps, next),
           NEW next2 \in Nat, next <= next2, \A q \in 1..m : deps[o.deps[q]].id \in Nat,
           \A q \in 1..m : deps[o.deps[q]].id < next => ds[o.deps[q]] = deps[o.deps[q]]
    PROVE  Loaded(o, e, m, ds, next2)
  BY DEF Loaded

LEMMA LoadFlow ==
    ASSUME [Next]_vars, pc' = "oes"
    PROVE  \/ pc = "oes" /\ (UNCHANGED vars \/ ParseOe \/ ParseDependency)
           \/ pc = "modules" /\ pos' = 1 /\ sub' = 0 /\ file' = file /\ oes' = oes
<1>1. CASE UNCHANGED vars
  BY <1>1 DEF vars
<1>2. CASE Next
  <2>1. EndOfArray \/ ParseOe \/ ParseDependency
    BY <1>2
       DEF Next, Step, env, CallModuleNew, CallDependencyNew, CallOeNew, CallModuleSet,
           CallSetDependency, Select, FreeOperatingEnv, IngestMetadata, Verify, ParseVendor,
           ParseModule, Query, GetPage, NextPage, MatchVendor, QueryContacts, MatchModule,
           MatchDependency, MatchOe, VendorSought, ModuleSought, DependencySought, Dependencies,
           OeSought, Verified, VerifyFrame, MatchFrame, IngestFrame, Called, Api, Stop, Return,
           Seek, Matched, NextCandidate, Candidate, Status, Element, Fail, EndIngest, search, parse,
           bounds
  <2>2. ParseOe \/ ParseDependency => pc = "oes"
    BY DEF ParseOe, ParseDependency
  <2> QED BY <2>1, <2>2 DEF EndOfArray, Fail, EndIngest, Return, env
<1> QED BY <1>1, <1>2

LEMMA LoadTypes ==
    ASSUME Types
    PROVE  /\ oes \in Seq(OeRec) /\ Len(oes) \in Nat /\ file.oes \in Seq(OeElement) /\ Len(file.oes) \in Nat
           /\ pos \in Nat /\ sub \in Nat /\ glb.dependency \in Nat /\ glb.oe \in Nat
           /\ \A n \in 1..Len(file.oes) : Len(file.oes[n].deps) \in Nat
           /\ \A n \in 1..Len(oes) : oes[n].deps \in Seq(Nat) /\ Len(oes[n].deps) \in Nat
           /\ \A n \in 1..Len(oes) : \A q \in 1..Len(oes[n].deps) :
                oes[n].deps[q] \in 1..Len(deps) /\ deps[oes[n].deps[q]].id \in Nat
<1>1. /\ oes \in Seq(OeRec) /\ Len(oes) \in Nat /\ file.oes \in Seq(OeElement) /\ Len(file.oes) \in Nat
      /\ pos \in Nat /\ sub \in Nat /\ glb.dependency \in Nat /\ glb.oe \in Nat
  BY DEF Types, OeTypes, ParseTypes, Metadata, GlbTypes
<1>2. ASSUME NEW n \in 1..Len(file.oes) PROVE Len(file.oes[n].deps) \in Nat
  <2>1. file.oes[n] \in OeElement
    BY <1>1, ElementType
  <2> QED BY <2>1 DEF OeElement
<1>3. ASSUME NEW n \in 1..Len(oes) PROVE oes[n].deps \in Seq(Nat) /\ Len(oes[n].deps) \in Nat
  <2>1. oes[n] \in OeRec
    BY <1>1, ElementType
  <2> QED BY <2>1 DEF OeRec
<1>4. ASSUME NEW n \in 1..Len(oes), NEW q \in 1..Len(oes[n].deps)
      PROVE  oes[n].deps[q] \in 1..Len(deps) /\ deps[oes[n].deps[q]].id \in Nat
  <2>1. oes[n].deps[q] \in 1..Len(deps) /\ deps \in Seq(DepRec)
    BY DEF Types, OeTypes, DepTypes
  <2>2. deps[oes[n].deps[q]] \in DepRec
    BY <2>1, ElementType
  <2> QED BY <2>1, <2>2 DEF DepRec
<1> QED BY <1>1, <1>2, <1>3, <1>4

(* parse_oes(): an operating environment without dependencies is added.    *)
LEMMA LoadOe ==
    ASSUME Types, LoadInv, ~bad, pc = "oes", ParseOe, pc' = "oes"
    PROVE  LoadInv'
<1>1. /\ sub = 0 /\ sub' = 1 /\ pos' = pos /\ file' = file /\ deps' = deps /\ pos <= Len(file.oes) /\ pos >= 1
      /\ glb'.oe = glb.oe + 1 /\ glb'.dependency = glb.dependency
  BY DEF ParseOe, Fail, EndIngest, Return, Types, ParseTypes, GlbTypes
<1> DEFINE new == [id |-> glb.oe, url |-> NULL, deps |-> <<>>, status |-> NULL]
<1>2. oes' = Append(oes, new)
  BY DEF ParseOe, OeNew, Made, Fail, EndIngest, Return
<1>3. new \in OeRec /\ new.id = glb.oe /\ new.deps = <<>>
  BY LoadTypes, FilesAssumption DEF OeRec
<1> HIDE DEF new
<1>4. /\ Len(oes) \in Nat /\ Len(oes') = Len(oes) + 1 /\ oes'[Len(oes) + 1] = new
      /\ \A n \in 1..Len(oes) : oes'[n] = oes[n]
  BY <1>2, <1>3, LoadTypes, Longer
<1>5. /\ Read = pos - 1 /\ Read' = pos /\ Read <= Len(oes) /\ pos \in Nat /\ Len(file.oes) \in Nat /\ glb.oe \in Nat
      /\ \A n \in 1..Read : Loaded(oes[Len(oes) - Read + n], file.oes[n], ReadOf(n), deps, glb.dependency)
  <2>1. pos \in Nat /\ Len(file.oes) \in Nat /\ glb.oe \in Nat
    BY LoadTypes
  <2>2. Read = pos - 1 /\ Read' = pos
    BY <1>1 DEF Read
  <2> QED BY <2>1, <2>2 DEF LoadInv
<1>6. oes'[Len(oes')].id = glb'.oe - 1
  BY <1>1, <1>3, <1>4, <1>5
<1>7. ASSUME NEW n \in 1..pos
      PROVE  Loaded(oes'[Len(oes') - pos + n], file.oes[n], ReadOf(n)', deps, glb.dependency)
  <2>1. CASE n = pos
    <3>1. oes'[Len(oes') - pos + n] = new
      BY <1>4, <1>5, <2>1
    <3>2. ReadOf(n)' = 0
      BY <1>1, <2>1 DEF ReadOf
    <3>3. Len(new.deps) = 0
      BY <1>3
    <3> QED BY <3>1, <3>2, <3>3 DEF Loaded
  <2>2. CASE n # pos
    <3>1. n \in 1..Read /\ Len(oes) - Read + n \in 1..Len(oes) /\ Len(oes') - pos + n = Len(oes) - Read + n
      BY <1>4, <1>5, <2>2
    <3>2. ReadOf(n)' = ReadOf(n)
      BY <1>1, <2>2 DEF ReadOf
    <3> QED BY <1>4, <1>5, <3>1, <3>2
  <2> QED BY <2>1, <2>2
<1>8. Read' <= Len(file.oes) /\ Read' <= Len(oes')
  BY <1>1, <1>4, <1>5
<1> QED BY <1>1, <1>5, <1>6, <1>7, <1>8 DEF LoadInv

(* parse_dependencies(): the last operating environment gets one more.     *)
LEMMA LoadDep ==
    ASSUME Types, DepInv, FreshInv, UniqueInv, LoadInv, ~bad, pc = "oes", ParseDependency, pc' = "oes"
    PROVE  LoadInv'
<1>1. PICK p : WritesDep(p) /\ AddsDep(p)
  BY ParseDependencyEffect DEF FailsParse
<1> DEFINE o == oes[Len(oes)]
           e == file.oes[pos]
           r == [o EXCEPT !.deps = Append(o.deps, p)]
<1>2. /\ sub >= 1 /\ pos \in 1..Len(file.oes) /\ sub \in 1..Len(e.deps) /\ Len(e.deps) \in Nat
      /\ sub \in Nat /\ pos \in Nat /\ file' = file /\ glb.dependency \in Nat
      /\ glb'.dependency = glb.dependency + 1 /\ glb'.oe = glb.oe
  <2>1. sub > 0
    BY DEF ParseDependency
  <2>2. pos \in 1..Len(file.oes) /\ sub \in 1..Len(e.deps) /\ Len(e.deps) \in Nat
    BY <2>1, DepElementRead
  <2>3. file' = file /\ glb'.dependency = glb.dependency + 1 /\ glb'.oe = glb.oe /\ glb.dependency \in Nat
    BY <1>1 DEF AddsDep, Types, GlbTypes
  <2> QED BY <2>1, <2>2, <2>3, LoadTypes
<1>3. /\ Read = pos /\ pos <= Len(oes) /\ o.id = glb.oe - 1 /\ Len(oes) \in 1..Len(oes) /\ Len(oes) \in Nat
      /\ \A n \in 1..pos : Loaded(oes[Len(oes) - pos + n], file.oes[n], ReadOf(n), deps, glb.dependency)
  <2>1. Read = pos /\ Len(oes) \in Nat
    BY <1>2, LoadTypes DEF Read
  <2>2. /\ Read <= Len(oes) /\ o.id = glb.oe - 1
        /\ \A n \in 1..Read : Loaded(oes[Len(oes) - Read + n], file.oes[n], ReadOf(n), deps, glb.dependency)
    BY <1>2 DEF LoadInv
  <2> QED BY <1>2, <2>1, <2>2
<1>4. Loaded(o, e, sub - 1, deps, glb.dependency)
  <2>1. Len(oes) - pos + pos = Len(oes) /\ ReadOf(pos) = sub - 1 /\ pos \in 1..pos
    BY <1>2, <1>3 DEF ReadOf
  <2> QED BY <1>3, <2>1
<1>5. o \in OeRec /\ o.deps \in Seq(Nat)
  BY <1>3, LoadTypes, ElementType
<1>6. Find(oes, glb.oe - 1) = Len(oes)
  <2>1. /\ Find(oes, glb.oe - 1) \in 0..Len(oes)
        /\ Find(oes, glb.oe - 1) # 0 => oes[Find(oes, glb.oe - 1)].id = glb.oe - 1
        /\ Find(oes, glb.oe - 1) = 0 => \A n \in 1..Len(oes) : oes[n].id # glb.oe - 1
    BY LoadTypes, FindFacts
  <2>2. Find(oes, glb.oe - 1) \in 1..Len(oes)
    BY <1>3, <2>1
  <2> QED BY <1>3, <2>1, <2>2 DEF UniqueInv
<1>7. /\ p \in 1..Len(deps') /\ p \in Nat /\ Len(deps') \in Nat /\ Len(deps') <= LIBAMVP_DEPENDENCIES_MAX
      /\ Len(deps) <= Len(deps') /\ Len(deps) \in Nat
      /\ \A n \in 1..Len(deps) : n = p => deps[n].id = glb.dependency
      /\ \A n \in 1..Len(deps) : n # p => deps'[n] = deps[n]
  <2>1. Len(deps) \in Nat /\ Len(deps) <= LIBAMVP_DEPENDENCIES_MAX /\ LIBAMVP_DEPENDENCIES_MAX \in Nat
    BY BoundsAssumption DEF Types, DepTypes
  <2> QED BY <1>1, <2>1 DEF WritesDep
<1>8. ASSUME NEW n \in 1..Len(oes), NEW q \in 1..Len(oes[n].deps), deps[oes[n].deps[q]].id < glb.dependency
      PROVE  oes[n].deps[q] # p /\ oes[n].deps[q] \in 1..Len(deps') /\ deps'[oes[n].deps[q]] = deps[oes[n].deps[q]]
  <2>1. oes[n].deps[q] \in 1..Len(deps) /\ deps[oes[n].deps[q]].id \in Nat
    BY LoadTypes
  <2>2. oes[n].deps[q] # p
    BY <1>2, <1>7, <1>8, <2>1
  <2> QED BY <1>7, <2>1, <2>2
<1>9. Len(o.deps) # LIBAMVP_DEPENDENCIES_MAX /\ Len(o.deps) = sub - 1
  <2>1. Len(o.deps) = sub - 1 /\ Len(o.deps) \in Nat
    BY <1>2, <1>4 DEF Loaded
  <2>2. \A q \in 1..Len(o.deps) : o.deps[q] \in 1..Len(deps') /\ o.deps[q] # p
    BY <1>3, <1>4, <1>8, <2>1 DEF Loaded
  <2>3. \A a, b \in 1..Len(o.deps) : a # b => o.deps[a] # o.deps[b]
    BY <1>4, <2>1 DEF Loaded
  <2>4. Len(o.deps) < Len(deps')
    <3> HIDE DEF o
    <3> QED BY <1>5, <1>7, <2>2, <2>3, Room
  <2>5. LIBAMVP_DEPENDENCIES_MAX \in Nat
    BY BoundsAssumption
  <2> QED BY <1>7, <2>1, <2>4, <2>5
<1>10. oes' = [oes EXCEPT ![Len(oes)] = r]
  <2>1. oes' = SetDependency(oes, Len(oes), p).s
    BY <1>1, <1>6 DEF AddsDep
  <2>2. Len(oes) \in 0..Len(oes) /\ OeTypes /\ p # 0
    BY <1>3, <1>7 DEF Types
  <2> QED BY <1>3, <1>7, <1>9, <2>1, <2>2, SetDependencyFacts
<1>11. r \in OeRec /\ r.id = o.id /\ r.deps = Append(o.deps, p)
  <2>1. Append(o.deps, p) \in Seq(Nat)
    BY <1>5, <1>7
  <2> HIDE DEF o
  <2> QED BY <1>5, <2>1 DEF OeRec
<1> HIDE DEF r
<1>12. Len(oes') = Len(oes) /\ \A n \in 1..Len(oes) : oes'[n] = IF n = Len(oes) THEN r ELSE oes[n]
  BY <1>3, <1>10, <1>11, LoadTypes, Replaced
<1>13. deps'[p].id = glb.dependency /\ Exact(deps'[p], e.deps[sub])
  BY <1>1, WrittenIsBlank
<1>14. Loaded(r, e, sub, deps', glb'.dependency)
  <2>1. /\ Len(r.deps) = sub /\ r.deps[sub] = p /\ \A q \in 1..(sub - 1) : r.deps[q] = o.deps[q]
    <3>1. /\ Len(r.deps) = Len(o.deps) + 1 /\ r.deps[Len(o.deps) + 1] = p
          /\ \A q \in 1..Len(o.deps) : r.deps[q] = o.deps[q]
      BY <1>5, <1>7, <1>11, Longer
    <3> QED BY <1>2, <1>9, <3>1
  <2>2. \A q \in 1..sub : q = sub \/ q \in 1..(sub - 1)
    BY <1>2
  <2>3. ASSUME NEW q \in 1..(sub - 1)
        PROVE  /\ deps'[r.deps[q]].id < glb'.dependency /\ Exact(deps'[r.deps[q]], e.deps[q]) /\ r.deps[q] # p
    <3>1. q \in 1..Len(o.deps) /\ deps[o.deps[q]].id < glb.dependency /\ Exact(deps[o.deps[q]], e.deps[q])
      BY <1>4, <1>9 DEF Loaded
    <3>2. deps'[o.deps[q]] = deps[o.deps[q]] /\ o.deps[q] # p
      BY <1>3, <1>8, <3>1
    <3>3. deps[o.deps[q]].id \in Nat
      BY <1>3, <3>1, LoadTypes
    <3>4. r.deps[q] = o.deps[q]
      BY <2>1
    <3> HIDE DEF o, e
    <3>5. deps[o.deps[q]].id < glb'.dependency
      BY <1>2, <3>1, <3>3
    <3> QED BY <3>1, <3>2, <3>4, <3>5
  <2>4. \A q \in 1..sub : deps'[r.deps[q]].id < glb'.dependency /\ Exact(deps'[r.deps[q]], e.deps[q])
    BY <1>2, <1>13, <2>1, <2>2, <2>3
  <2>5. \A a, b \in 1..(sub - 1) : a # b => r.deps[a] # r.deps[b]
    BY <1>4, <2>1 DEF Loaded
  <2>6. \A a, b \in 1..sub : a # b => r.deps[a] # r.deps[b]
    BY <2>1, <2>2, <2>3, <2>5
  <2> QED BY <2>1, <2>4, <2>6 DEF Loaded
<1>15. ASSUME NEW n \in 1..(pos - 1)
       PROVE  Loaded(oes'[Len(oes) - pos + n], file.oes[n], Len(file.oes[n].deps), deps', glb'.dependency)
  <2>1. Len(oes) - pos + n \in 1..Len(oes) /\ Len(oes) - pos + n # Len(oes) /\ n \in 1..pos /\ n # pos
    BY <1>2, <1>3
  <2> DEFINE x == Len(oes) - pos + n
  <2>2. Loaded(oes[x], file.oes[n], Len(file.oes[n].deps), deps, glb.dependency)
    BY <1>3, <2>1 DEF ReadOf
  <2>3. oes'[x] = oes[x] /\ x \in 1..Len(oes)
    BY <1>12, <2>1
  <2>4. Len(file.oes[n].deps) \in Nat /\ Len(oes[x].deps) = Len(file.oes[n].deps)
    BY <1>2, <2>1, <2>2, LoadTypes DEF Loaded
  <2> HIDE DEF x
  <2>5. \A q \in 1..Len(file.oes[n].deps) :
          deps[oes[x].deps[q]].id \in Nat
          /\ (deps[oes[x].deps[q]].id < glb.dependency => deps'[oes[x].deps[q]] = deps[oes[x].deps[q]])
    BY <1>8, <2>3, <2>4, LoadTypes
  <2>6. glb'.dependency \in Nat /\ glb.dependency <= glb'.dependency
    BY <1>2
  <2>7. Loaded(oes[x], file.oes[n], Len(file.oes[n].deps), deps', glb'.dependency)
    BY <1>2, <2>2, <2>4, <2>5, <2>6, LoadedStays
  <2> QED BY <2>3, <2>7 DEF x
<1>16. /\ Read' = pos /\ (sub' # 0 => sub' = sub + 1 /\ pos' = pos)
       /\ \A n \in 1..pos : ReadOf(n)' = IF n = pos THEN sub ELSE Len(file.oes[n].deps)
  <2>1. \/ sub = Len(e.deps) /\ sub' = 0 /\ pos' = pos + 1
        \/ sub # Len(e.deps) /\ sub' = sub + 1 /\ pos' = pos
    BY <1>1 DEF AddsDep
  <2>2. /\ Read' = IF sub' = 0 THEN pos' - 1 ELSE pos'
        /\ \A n \in 1..pos : ReadOf(n)' = IF sub' # 0 /\ n = pos' THEN sub' - 1 ELSE Len(file.oes[n].deps)
    BY <1>2 DEF Read, ReadOf
  <2>3. Read' = pos /\ (sub' # 0 => sub' = sub + 1 /\ pos' = pos)
    BY <1>2, <2>1, <2>2
  <2>4. \A n \in 1..pos : ReadOf(n)' = IF n = pos THEN sub ELSE Len(file.oes[n].deps)
    BY <1>2, <2>1, <2>2
  <2> QED BY <2>3, <2>4
<1>17. ASSUME NEW n \in 1..pos
       PROVE  Loaded(oes'[Len(oes') - Read' + n], file.oes[n], ReadOf(n)', deps', glb'.dependency)
  <2>1. CASE n = pos
    <3>1. Len(oes') - Read' + n = Len(oes) /\ oes'[Len(oes)] = r
      BY <1>2, <1>3, <1>12, <1>16, <2>1
    <3>2. ReadOf(n)' = sub
      BY <1>16, <2>1
    <3> QED BY <1>14, <2>1, <3>1, <3>2
  <2>2. CASE n # pos
    <3>1. n \in 1..(pos - 1) /\ Len(oes') - Read' + n = Len(oes) - pos + n
      BY <1>2, <1>12, <1>16, <2>2
    <3> QED BY <1>15, <1>16, <3>1
  <2> QED BY <2>1, <2>2
<1>18. Read' <= Len(file.oes) /\ Read' <= Len(oes') /\ (sub' # 0 => oes'[Len(oes')].id = glb'.oe - 1)
  BY <1>2, <1>3, <1>11, <1>12, <1>16
<1> QED BY <1>2, <1>16, <1>17, <1>18 DEF LoadInv

LEMMA LoadInvStep ==
    ASSUME Types, DepInv, FreshInv, UniqueInv, LoadInv, [Next]_vars
    PROVE  LoadInv'
<1> SUFFICES ASSUME ~bad', pc' = "oes" PROVE LoadInv'
  BY DEF LoadInv
<1>1. ~bad
  BY BadStays DEF Reset
<1>2. CASE pc = "oes" /\ UNCHANGED vars
  BY <1>2 DEF LoadInv, Read, ReadOf, vars, env, parse
<1>3. CASE pc = "oes" /\ ParseOe
  BY <1>1, <1>3, LoadOe
<1>4. CASE pc = "oes" /\ ParseDependency
  BY <1>1, <1>4, LoadDep
<1>5. CASE pc = "modules" /\ pos' = 1 /\ sub' = 0 /\ file' = file /\ oes' = oes
  <2>1. Read' = 0 /\ Len(file.oes) \in Nat /\ Len(oes) \in Nat
    BY <1>5, LoadTypes DEF Read
  <2> QED BY <1>5, <2>1 DEF LoadInv
<1> QED BY <1>2, <1>3, <1>4, <1>5, LoadFlow

(* Success at the end of a file.                                           *)
LEMMA LoadEnds ==
    ASSUME [Next]_vars, pc = "oes", pc' = "idle", rv' = "AMVP_SUCCESS"
    PROVE  sub = 0 /\ pos > Len(file.oes)
<1>1. EndOfArray \/ ParseOe \/ ParseDependency
  BY DEF Next, Step, vars, env, CallModuleNew, CallDependencyNew, CallOeNew, CallModuleSet,
         CallSetDependency, Select, FreeOperatingEnv, IngestMetadata, Verify, ParseVendor,
         ParseModule, Query, GetPage, NextPage, MatchVendor, QueryContacts, MatchModule,
         MatchDependency, MatchOe, VendorSought, ModuleSought, DependencySought, Dependencies,
         OeSought, Verified, VerifyFrame, MatchFrame, IngestFrame, Called, Api, Stop, Return, Seek,
         Matched, NextCandidate, Candidate, Status, Element, Fail, EndIngest, search, parse, bounds
<1>2. ~ParseOe
  BY DEF ParseOe, Fail, EndIngest, Return
<1>3. ~ParseDependency
  BY DEF ParseDependency, Fail, EndIngest, Return
<1> QED BY <1>1, <1>2, <1>3 DEF EndOfArray, Fail, EndIngest, Return

(* A file is ingested with success only when each of its operating         *)
(* environments has all its dependencies, also at the capacity, where      *)
(* amvp_oe_dependency_new() returns success and makes none.                *)
THEOREM SuccessLoaded == Spec => IngestSuccessMeansLoaded
<1> DEFINE Inv == Types /\ VerifyInv /\ PageInv /\ DepInv /\ FreshInv /\ UniqueInv /\ LoadInv
<1>1. Init => Inv
  <2>1. Init => DepInv /\ FreshInv /\ UniqueInv /\ LoadInv
    BY DEF Init, DepInv, FreshInv, UniqueInv, LoadInv
  <2> QED BY <2>1, InitTypes
<1>2. Inv /\ [Next]_vars => Inv'
  BY TypesStep, VerifyInvStep, PageInvStep, DepInvStep, UniqueInvStep, LoadInvStep
<1>3. Inv /\ [Next]_vars => IngestLoads
  <2> SUFFICES ASSUME Inv, [Next]_vars, ~bad, pc = "oes", pc' = "idle", rv' = "AMVP_SUCCESS",
                      NEW n \in DOMAIN file.oes
               PROVE  LET o == oes[Len(oes) - Len(file.oes) + n]
                      IN  /\ Len(o.deps) = Len(file.oes[n].deps)
                          /\ \A q \in DOMAIN o.deps : Exact(deps[o.deps[q]], file.oes[n].deps[q])
    BY DEF IngestLoads
  <2>1. sub = 0 /\ pos > Len(file.oes)
    BY LoadEnds
  <2>2. Read = Len(file.oes) /\ n \in 1..Len(file.oes) /\ Len(file.oes) <= Len(oes)
    BY <2>1, LoadTypes DEF LoadInv, Read
  <2> DEFINE x == Len(oes) - Len(file.oes) + n
  <2>3. x \in 1..Len(oes)
    BY <2>2, LoadTypes
  <2>4. Loaded(oes[x], file.oes[n], Len(file.oes[n].deps), deps, glb.dependency)
    BY <2>1, <2>2 DEF LoadInv, ReadOf
  <2>5. DOMAIN oes[x].deps = 1..Len(oes[x].deps)
    BY <2>3, LoadTypes
  <2> QED BY <2>4, <2>5 DEF Loaded
<1> QED BY <1>1, <1>2, <1>3, PTL DEF Spec, IngestSuccessMeansLoaded
=============================================================================
