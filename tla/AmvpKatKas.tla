----------------------------- MODULE AmvpKatKas -----------------------------
(***************************************************************************)
(* Tables of the key agreement and key transport handlers (amvp_kas_ecc.c, *)
(* amvp_kas_ffc.c, amvp_kas_ifc.c, amvp_kts_ifc.c) and of the safe primes  *)
(* (amvp_safe_primes.c).  The SSC handlers serve a capability with or      *)
(* without a hash of Z ("hashed", "plain").                                *)
(***************************************************************************)
EXTENDS AmvpKatTable

KasTestType == Tag("testType", {"AFT", "VAL"})
Val == Is("testType", {"VAL"})
Aft == IsNot("testType", {"VAL"})
\* hashFunctionZ is read if the capability was registered with one.
KasHashZ == When(Is("alg", {"hashed"}), <<Tag("hashFunctionZ", {"ok"})>>)
Kas == [refused |-> {MALFORMED_JSON}, late |-> {INVALID_ARG, UNSUPPORTED_OP}, zeroed |-> TRUE]
Ssc == [algs |-> {"hashed", "plain"}, refused |-> {MALFORMED_JSON}, late |-> {UNSUPPORTED_OP}, zeroed |-> TRUE]
\* A disjunction of two conditions.
EitherIs(v, values, w, others, steps) ==
    When(Is(v, values), steps) \o When(IsNot(v, values) \cup Is(w, others), steps)

(********************************** KAS ECC **********************************)
KasEccCdhGroup == <<Tag("curve", {"ok"}), KasTestType>>
KasEccCdhTest  == <<Opt("tcId"), Into("psx", Str("publicServerX")), Into("psy", Str("publicServerY"))>>
KasEccCdhInit  == News(<<"psx", "psy">>) \o Allocs(<<"pix", "piy", "z", "d", "chash">>)
KasEccCdhOutput == Bufs({"pix", "piy", "z"})
KasEccRelease   == {"chash", "psx", "psy", "pix", "piy", "d", "z"}
KasEccCdh ==
    [group |-> KasEccCdhGroup, test |-> KasEccCdhTest, init |-> KasEccCdhInit, args |-> {"tcId", "curve", "testType"},
     outputs |-> KasEccCdhOutput, frees |-> KasEccRelease] @@ Kas @@ Usual

KasEccIut == <<Into("pix", Str("ephemeralPublicIutX")), Into("piy", Str("ephemeralPublicIutY")),
               Into("d", Str("ephemeralPrivateIut"))>>
KasEccServer == <<Opt("tcId"), Into("psx", Str("ephemeralPublicServerX")), Into("psy", Str("ephemeralPublicServerY"))>>
KasEccLocals == {"psx", "psy", "pix", "piy", "d", "z"}
KasEccCompGroup == <<Tag("curve", {"ok"}), Tag("hashAlg", {"ok"}), KasTestType>>
KasEccCompTest  == KasEccServer \o When(Val, KasEccIut \o <<Into("z", Str("hashZIut"))>>)
KasEccCompInit ==
    News(<<"psx", "psy">>) \o Allocs(<<"pix", "piy", "d", "z", "chash">>) \o
    When(Val, <<Decode("pix", "pix"), Decode("piy", "piy"), Decode("d", "d"), Decode("z", "z")>>)
KasEccCompOutput == Bufs({"chash"}) \cup On(Aft, Bufs({"pix", "piy", "d"})) \cup On(Val, Bufs({"z"}))
KasEccComp ==
    [group |-> KasEccCompGroup, test |-> KasEccCompTest, init |-> KasEccCompInit,
     args |-> Names(KasEccCompGroup) \cup {"tcId"}, testLocals |-> KasEccLocals,
     outputs |-> KasEccCompOutput, frees |-> KasEccRelease] @@ Kas @@ Usual

KasEccSscGroup == <<Tag("domainParameterGenerationMode", {"ok"})>> \o KasHashZ \o <<KasTestType>>
\* Without a hash the field is "z" when there is no "hashZ".
KasEccSscTest  == KasEccServer \o When(Val, KasEccIut \o <<Into("z", Str("hashZ"))>>)
KasEccSscOutput == Bufs({"chash"}) \cup On(Aft, Bufs({"pix", "piy", "d"})) \cup On(Val, Bufs({"z"}))
KasEccSsc ==
    [group |-> KasEccSscGroup, test |-> KasEccSscTest, init |-> KasEccCompInit,
     args |-> Names(KasEccSscGroup) \cup {"tcId"}, testLocals |-> KasEccLocals,
     outputs |-> KasEccSscOutput, frees |-> KasEccRelease] @@ Ssc @@ Usual

(********************************** KAS FFC **********************************)
\* Only the parameter sets FB and FC come with p, q and g.
KasFfcOwn == Is("dgm", {"FB"})
KasFfcCompGroup ==
    <<Tag("hashAlg", {"ok"}), Into("dgm", Field("parmSet", {"FB"}, MISSING_ARG, MALFORMED_JSON)), KasTestType>> \o
    Each(Str, <<"p", "q", "g">>)
KasFfcCompTest ==
    <<Opt("tcId"), Into("eps", Str("ephemeralPublicServer"))>> \o
    When(Val, <<Into("epri", Str("ephemeralPrivateIut")), Into("epui", Str("ephemeralPublicIut")), Into("z", Str("hashZIut"))>>)
KasFfcCompInit ==
    When(KasFfcOwn, News(<<"p", "q", "g">>)) \o New("eps", "eps") \o Allocs(<<"epri", "epui", "chash", "piut", "z">>) \o
    When(Val, <<Decode("z", "z"), Decode("epri", "epri"), Decode("epui", "epui")>>)
KasFfcCompOutput == Bufs({"chash"}) \cup On(Aft, Bufs({"piut"})) \cup On(Val, Bufs({"z"}))
KasFfcRelease == {"piut", "epri", "epui", "eps", "z", "chash", "p", "q", "g"}
KasFfcLocals == {"eps", "epri", "epui", "z"}
KasFfcComp ==
    [group |-> KasFfcCompGroup, test |-> KasFfcCompTest, init |-> KasFfcCompInit, args |-> Names(KasFfcCompGroup) \cup {"tcId"},
     testLocals |-> KasFfcLocals, outputs |-> KasFfcCompOutput, frees |-> KasFfcRelease] @@ Kas @@ Usual

KasFfcSscGroup ==
    <<Into("dgm", Field("domainParameterGenerationMode", {"FB", "named"}, MISSING_ARG, MALFORMED_JSON))>> \o
    KasHashZ \o <<KasTestType>> \o When(KasFfcOwn, Each(Str, <<"p", "q", "g">>))
KasFfcSscTest ==
    <<Opt("tcId"), Into("eps", Str("ephemeralPublicServer"))>> \o
    When(Val, <<Into("epri", Str("ephemeralPrivateIut")), Into("epui", Str("ephemeralPublicIut")), Into("z", Str("hashZ"))>>)
KasFfcSscOutput == Bufs({"chash"}) \cup On(Aft, Bufs({"piut"})) \cup On(Val, Bufs({"z"}))
KasFfcSsc ==
    [group |-> KasFfcSscGroup, test |-> KasFfcSscTest, init |-> KasFfcCompInit, 
     args |-> {"tcId", "dgm", "testType", "hashFunctionZ"}, testLocals |-> KasFfcLocals,
     outputs |-> KasFfcSscOutput, frees |-> KasFfcRelease] @@ Ssc @@ Usual

(********************************** KAS IFC **********************************)
\* An unknown scheme or role leaves that of the group before.
KasIfcGroup ==
    <<KasTestType, Tag("keyGenerationMethod", {"basic", "crt"}),
      Keep(Field("scheme", {"KAS1", "KAS2"}, MISSING_ARG, TAKEN))>> \o KasHashZ \o
    <<Keep(Into("role", Field("kasRole", {"initiator", "responder"}, MISSING_ARG, TAKEN))),
      Field("fixedPubExp", {"ok"}, MISSING_ARG, TAKEN), Num("modulo", MISSING_ARG)>>
KasIfcCrt == Is("keyGenerationMethod", {"crt"})
\* The length of d is checked before d is read.
KasIfcOwnKey ==
    <<Into("p", Str("iutP")), Into("q", Str("iutQ"))>> \o When(Is("d", {"bad"}), <<Reject(INVALID_ARG)>>) \o
    <<Into("n", Str("iutN")), Into("e", Str("iutE"))>> \o
    When(KasIfcCrt, <<Into("dmp1", Str("iutDmp1")), Into("dmq1", Str("iutDmq1")), Into("iqmp", Str("iutIqmp"))>>) \o
    When(IsNot("keyGenerationMethod", {"crt"}), <<Into("d", Present("iutD"))>>)
KasIfcTest ==
    <<Opt("tcId")>> \o
    EitherIs("role", {"responder"}, "scheme", {"KAS2"}, KasIfcOwnKey) \o
    EitherIs("role", {"initiator"}, "scheme", {"KAS2"}, <<Into("server_n", Str("serverN")), Into("server_e", Str("serverE"))>>) \o
    EitherIs("role", {"responder"}, "scheme", {"KAS2"}, <<Into("server_ct_z", Str("serverC"))>>)
\* pt_z is "z" for a KAS1 responder and "iutZ" else; kas2_z is "hashZ" or "z".
KasIfcTestVal ==
    When(Val, <<Present("pt_z")>> \o EitherIs("role", {"initiator"}, "scheme", {"KAS2"}, <<Into("ct_z", Str("iutC"))>>)) \o
    When(Is("scheme", {"KAS2"}) \cup Val, <<Present("kas2_z")>>)
KasIfcGiven == <<"p", "q", "d", "n", "e", "dmp1", "dmq1", "iqmp", "server_ct_z", "kas2_z", "server_n", "server_e">>
KasIfcInit ==
    FlattenSeq([i \in DOMAIN KasIfcGiven |-> NewIf(KasIfcGiven[i], KasIfcGiven[i])]) \o
    <<Alloc("iut_ct_z")>> \o DecodeIf("ct_z", "iut_ct_z") \o <<Alloc("iut_pt_z")>> \o DecodeIf("pt_z", "iut_pt_z") \o
    <<Alloc("server_pt_z")>> \o
    When(Val, When(Is("role", {"initiator"}), New("ct_z", "provided_ct_z")) \o
              When(IsNot("role", {"initiator"}), New("pt_z", "provided_pt_z")))
\* If the buffer for the combined z of KAS2 cannot be allocated output_tc() succeeds, and the test is answered without z.
KasIfcOutput ==
    On(Aft, On(Is("role", {"initiator"}), Bufs({"iut_ct_z", "iut_pt_z"})) \cup
            On(Is("scheme", {"KAS2"}), Bufs({"iut_ct_z", "iut_pt_z", "server_pt_z"})) \cup
            On(IsNot("role", {"initiator"}) \cup IsNot("scheme", {"KAS2"}), Bufs({"server_pt_z"})))
KasIfcRelease == ToSet(KasIfcGiven) \cup {"iut_ct_z", "iut_pt_z", "server_pt_z", "provided_ct_z", "provided_pt_z"}
KasIfcSsc ==
    [group |-> KasIfcGroup, test |-> KasIfcTest \o KasIfcTestVal, init |-> KasIfcInit,
     args |-> {"tcId", "testType", "keyGenerationMethod", "hashFunctionZ", "modulo"},
     carried |-> ToSet(KasIfcGiven) \cup {"ct_z", "pt_z", "scheme", "role"},
     outputs |-> KasIfcOutput, frees |-> KasIfcRelease] @@ Ssc @@ Usual

(********************************** KTS IFC **********************************)
KtsIfcGroup ==
    <<Tag("testType", {"AFT"}), Tag("keyGenerationMethod", {"basic", "crt"}), Field("scheme", {"ok"}, MISSING_ARG, TAKEN),
      Keep(Into("role", Field("kasRole", {"initiator", "responder"}, MISSING_ARG, TAKEN))),
      Field("iutId", {"ok"}, MISSING_ARG, TAKEN), Field("serverId", {"ok"}, MISSING_ARG, TAKEN),
      Num("modulo", MISSING_ARG), Num("l", MISSING_ARG),
      Field("keyConfirmationDirection", {"ok"}, MISSING_ARG, TAKEN), Field("keyConfirmationRole", {"ok"}, MISSING_ARG, TAKEN),
      Tag("hashAlg", {"ok"}), Field("associatedDataPattern", {"ok"}, MISSING_ARG, TAKEN), Field("encoding", {"ok"}, MISSING_ARG, TAKEN)>>
KtsIfcTest ==
    <<Opt("tcId")>> \o
    When(Is("role", {"responder"}),
         <<Into("ct", Str("serverC")), Into("p", Str("iutP")), Into("q", Str("iutQ")), Into("n", Str("iutN")), Into("e", Str("iutE"))>> \o
         When(KasIfcCrt, <<Into("dmp1", Str("iutDmp1")), Into("dmq1", Str("iutDmq1")), Into("iqmp", Str("iutIqmp"))>>) \o
         When(IsNot("keyGenerationMethod", {"crt"}), <<Into("d", Str("iutD"))>>)) \o
    When(IsNot("role", {"responder"}), <<Into("n", Str("serverN")), Into("e", Str("serverE"))>>)
KtsIfcInit ==
    Allocs(<<"ct", "pt">>) \o
    When(Is("role", {"responder"}),
         <<Decode("ct", "ct")>> \o News(<<"p", "q">>) \o NewIf("d", "d") \o When(KasIfcCrt, News(<<"dmp1", "dmq1", "iqmp">>))) \o
    News(<<"n", "e">>)
KtsIfcOutput  == On(Is("role", {"initiator"}), Bufs({"ct"})) \cup Bufs({"pt"})
KtsIfcRelease == {"p", "q", "d", "e", "n", "dmp1", "dmq1", "iqmp", "ct", "pt"}
KtsIfc ==
    [refused |-> {MALFORMED_JSON}, late |-> {UNSUPPORTED_OP}, zeroed |-> TRUE, group |-> KtsIfcGroup, test |-> KtsIfcTest,
     init |-> KtsIfcInit, args |-> {"tcId", "testType", "keyGenerationMethod", "hashAlg", "modulo", "l"},
     carried |-> {"d", "role"}, outputs |-> KtsIfcOutput, frees |-> KtsIfcRelease] @@ Usual

(******************************** Safe primes ********************************)
SafePrimesGroup == <<Tag("safePrimeGroup", {"ok"})>>
SafePrimesTest  == <<Num("tcId", MISSING_ARG), Tag("testType", {"ok"})>> \o When(Is("alg", {"keyVer"}), Each(Present, <<"x", "y">>))
SafePrimesInit  == When(Is("alg", {"keyVer"}), News(<<"y", "x">>)) \o When(Is("alg", {"keyGen"}), Allocs(<<"x", "y">>))
SafePrimesOutput  == On(Is("alg", {"keyGen"}), Bufs({"x", "y"}))
SafePrimesRelease == {"x", "y"}
SafePrimes ==
    [algs |-> {"keyGen", "keyVer"}, refused |-> {MALFORMED_JSON, INVALID_ARG, UNSUPPORTED_OP}, zeroed |-> TRUE,
     noTgId |-> MISSING_ARG, group |-> SafePrimesGroup, test |-> SafePrimesTest, init |-> SafePrimesInit,
     args |-> {"tcId", "safePrimeGroup", "testType"}, outputs |-> SafePrimesOutput, frees |-> SafePrimesRelease] @@ Usual

KasHandlers ==
    [kas_ecc_cdh |-> KasEccCdh, kas_ecc_comp |-> KasEccComp, kas_ecc_ssc |-> KasEccSsc, kas_ffc_comp |-> KasFfcComp,
     kas_ffc_ssc |-> KasFfcSsc, kas_ifc |-> KasIfcSsc, kts_ifc |-> KtsIfc, safe_primes |-> SafePrimes]
=============================================================================
