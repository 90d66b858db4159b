----------------------------- MODULE AmvpKatKdf -----------------------------
(***************************************************************************)
(* Tables of the key derivation handlers: SP 800-108 (amvp_kdf108.c), the  *)
(* SP 800-135 functions (amvp_kdf135_*.c, amvp_kdf_tls12.c), TLS 1.3       *)
(* (amvp_kdf_tls13.c), PBKDF (amvp_pbkdf.c) and KDA (amvp_kda.c).          *)
(***************************************************************************)
EXTENDS AmvpKatTable

KdfRefused == {MALFORMED_JSON, INVALID_ARG, UNSUPPORTED_OP}
LOCAL InRange(f) == Num(f, INVALID_ARG)
LOCAL Id       == Num("tcId", MISSING_ARG)

(********************************* SP 800-108 *********************************)
Kdf108Group ==
    <<Tag("kdfMode", {"counter", "feedback"}), Tag("macMode", {"ok"}), InRange("keyOutLength")>> \o
    When(Is("kdfMode", {"counter"}), <<InRange("counterLength")>>) \o
    When(IsNot("kdfMode", {"counter"}), <<Opt("counterLength")>>) \o
    <<Tag("counterLocation", {"middle", "before"})>>
Kdf108Test ==
    <<Opt("tcId"), Str("keyIn")>> \o When(Is("kdfMode", {"feedback"}), <<Str("iv")>>) \o
    When(Is("counterLocation", {"middle"}), <<Field("deferred", {"ok"}, MISSING_ARG, TAKEN)>>) \o
    When(IsNot("counterLocation", {"middle"}), <<Opt("deferred")>>)
Kdf108Init ==
    <<Alloc("key_in"), Tight("keyIn", "key_in")>> \o When(Given("iv"), <<Alloc("iv"), Tight("iv", "iv")>>) \o
    Allocs(<<"key_out", "fixed_data">>)
Kdf108Output  == Bufs({"key_out", "fixed_data"})
Kdf108Release == {"key_in", "iv", "key_out", "fixed_data"}
Kdf108 ==
    [refused |-> KdfRefused, group |-> Kdf108Group, test |-> Kdf108Test, init |-> Kdf108Init,
     args |-> {"tcId", "kdfMode", "macMode", "counterLocation", "keyOutLength", "counterLength", "deferred"},
     carried |-> {"iv"}, outputs |-> Kdf108Output, frees |-> Kdf108Release,
     onInit |-> {"release"}, onCrypto |-> {"release"}, leaks |-> {"r_tval"}] @@ Usual

(************************************ IKE ************************************)
Ikev1Group ==
    <<Tag("hashAlg", {"ok"}), Tag("authenticationMethod", {"psk", "dsa"}), InRange("nInitLength"), InRange("nRespLength"),
      InRange("dhLength")>> \o
    When(Is("authenticationMethod", {"psk"}), <<InRange("preSharedKeyLength")>>)
\* The nonces must be as long as the group says.
Ikev1Test ==
    <<Opt("tcId"), Tag("nInit", {"ok"}), Tag("nResp", {"ok"}), Str("ckyInit"), Str("ckyResp"), Str("gxy")>> \o
    When(Is("authenticationMethod", {"psk"}), <<Str("preSharedKey")>>)
Ikev1Keys == <<"s_key_id", "s_key_id_a", "s_key_id_d", "s_key_id_e">>
Ikev1Init ==
    News(<<"nInit", "nResp", "ckyInit", "ckyResp", "gxy">>) \o NewIf("preSharedKey", "psk") \o Allocs(Ikev1Keys)
Ikev1Output  == Bufs(ToSet(Ikev1Keys))
Ikev1Release == {"nInit", "nResp", "ckyInit", "ckyResp", "gxy", "psk"} \cup ToSet(Ikev1Keys)
Ikev1 ==
    [refused |-> KdfRefused, group |-> Ikev1Group, test |-> Ikev1Test, init |-> Ikev1Init,
     args |-> Names(Ikev1Group) \cup {"tcId"}, carried |-> {"preSharedKey", "preSharedKeyLength"},
     outputs |-> Ikev1Output, frees |-> Ikev1Release] @@ Usual

Ikev2Group == <<Tag("hashAlg", {"ok"})>> \o Each(InRange, <<"nInitLength", "nRespLength", "dhLength", "derivedKeyingMaterialLength">>)
Ikev2Strs  == <<"nInit", "nResp", "spiInit", "spiResp", "gir", "girNew">>
Ikev2Test  == <<Opt("tcId")>> \o Each(Str, Ikev2Strs)
Ikev2Keys  == <<"s_key_seed", "s_key_seed_rekey", "derived_keying_material", "derived_keying_material_child_dh",
                "derived_keying_material_child">>
Ikev2Init    == News(Ikev2Strs) \o Allocs(Ikev2Keys)
Ikev2Output  == Bufs(ToSet(Ikev2Keys))
Ikev2Release == ToSet(Ikev2Strs) \cup ToSet(Ikev2Keys)
Ikev2 ==
    [refused |-> KdfRefused, group |-> Ikev2Group, test |-> Ikev2Test, init |-> Ikev2Init,
     args |-> Names(Ikev2Group) \cup {"tcId"}, outputs |-> Ikev2Output, frees |-> Ikev2Release] @@ Usual

(******************************** SNMP and SRTP ********************************)
SnmpGroup == <<InRange("passwordLength"), Present("engineId")>>
SnmpTest  == <<Id, Tag("password", {"ok"})>>
SnmpInit  == <<Alloc("s_key")>> \o New("engineId", "engine_id")
SnmpOutput  == Bufs({"s_key"})
SnmpRelease == {"s_key", "engine_id"}
Snmp ==
    [refused |-> KdfRefused, late |-> {MISSING_ARG}, noTests |-> MISSING_ARG, group |-> SnmpGroup, test |-> SnmpTest,
     init |-> SnmpInit, args |-> {"tcId", "passwordLength", "password"}, outputs |-> SnmpOutput, frees |-> SnmpRelease] @@ Usual

SrtpGroup == <<InRange("aesKeyLength"), Present("kdr")>>
SrtpTest  == <<Opt("tcId")>> \o Each(Present, <<"masterKey", "masterSalt", "index", "srtcpIndex">>)
SrtpKeys  == <<"srtp_ka", "srtp_ke", "srtp_ks", "srtcp_ka", "srtcp_ke", "srtcp_ks">>
SrtpInit  == News(<<"kdr", "masterKey", "masterSalt", "index", "srtcpIndex">>) \o Allocs(SrtpKeys)
SrtpOutput  == Bufs(ToSet(SrtpKeys))
SrtpRelease == {"kdr", "masterKey", "masterSalt", "index", "srtcpIndex"} \cup ToSet(SrtpKeys)
Srtp ==
    [refused |-> KdfRefused, group |-> SrtpGroup, test |-> SrtpTest, init |-> SrtpInit,
     args |-> {"tcId", "aesKeyLength"}, outputs |-> SrtpOutput, frees |-> SrtpRelease] @@ Usual

(************************************ SSH ************************************)
SshGroup == <<Field("cipher", {"ok"}, MISSING_ARG, NO_CAP), Field("hashAlg", {"ok"}, MISSING_ARG, NO_CAP)>>
SshTest  == <<Id>> \o Each(Present, <<"k", "h", "sessionId">>)
SshKeys  == <<"cs_init_iv", "sc_init_iv", "cs_encrypt_key", "sc_encrypt_key", "cs_integrity_key", "sc_integrity_key">>
SshInit  ==
    Allocs(<<"k", "h", "sessionId">>) \o <<Tight("k", "k"), Decode("h", "h"), Tight("sessionId", "sessionId")>> \o Allocs(SshKeys)
SshOutput  == Bufs(ToSet(SshKeys))
SshRelease == {"k", "h", "sessionId"} \cup ToSet(SshKeys)
Ssh ==
    [refused |-> KdfRefused, late |-> {MISSING_ARG}, noTests |-> MISSING_ARG, group |-> SshGroup, test |-> SshTest,
     init |-> SshInit, args |-> {"tcId", "cipher", "hashAlg"}, groupLocals |-> {"hashAlg"},
     outputs |-> SshOutput, frees |-> SshRelease] @@ Usual

(***************************** ANS X9.42 and X9.63 *****************************)
AnsRefused == KdfRefused \cup {MISSING_ARG}
X942Group == <<Tag("kdfType", {"ok"}), Tag("hashAlg", {"ok"}), Present("oid")>>
X942Strs  == <<"zz", "partyUInfo", "partyVInfo", "suppPubInfo", "suppPrivInfo">>
X942Test  == <<Id>> \o Each(Str, X942Strs) \o <<Tag("keyLen", {"ok"})>>
X942Init  == <<Alloc("dkm")>> \o News(<<"oid">> \o X942Strs)
X942Output  == Bufs({"dkm"})
X942Release == {"dkm", "oid"} \cup ToSet(X942Strs)
X942 ==
    [refused |-> AnsRefused, late |-> {MISSING_ARG}, noTests |-> MISSING_ARG, group |-> X942Group, test |-> X942Test,
     init |-> X942Init, args |-> {"tcId", "kdfType", "hashAlg", "keyLen"}, groupLocals |-> {"hashAlg"},
     outputs |-> X942Output, frees |-> X942Release] @@ Usual

X963Group == <<Num("fieldSize", MISSING_ARG), Num("keyDataLength", MISSING_ARG), Opt("sharedInfoLength"), Tag("hashAlg", {"ok"})>>
X963Test  == <<Id, Field("z", Hex, INVALID_ARG, TAKEN), Field("sharedInfo", Hex, INVALID_ARG, TAKEN)>>
X963Init  == News(<<"z", "sharedInfo">>) \o <<Alloc("key_data")>>
X963Output  == Bufs({"key_data"})
X963Release == {"z", "sharedInfo", "key_data"}
X963 ==
    [refused |-> AnsRefused, late |-> {MISSING_ARG}, noTests |-> MISSING_ARG, group |-> X963Group, test |-> X963Test,
     init |-> X963Init, args |-> Names(X963Group) \cup {"tcId"}, groupLocals |-> {"hashAlg"},
     outputs |-> X963Output, frees |-> X963Release] @@ Usual

(************************************ TLS ************************************)
Tls12Group == <<InRange("preMasterSecretLength"), InRange("keyBlockLength"), Field("hashAlg", {"ok"}, MISSING_ARG, NO_CAP)>>
Tls12Test  == <<Opt("tcId"), Str("preMasterSecret")>> \o Each(Present, <<"sessionHash", "serverRandom", "clientRandom">>)
Tls12Init  == News(<<"preMasterSecret", "sessionHash", "clientRandom", "serverRandom">>) \o Allocs(<<"msecret", "kblock">>)
Tls12Output  == Bufs({"msecret", "kblock"})
Tls12Release == {"preMasterSecret", "sessionHash", "clientRandom", "serverRandom", "msecret", "kblock"}
Tls12 ==
    [refused |-> KdfRefused, group |-> Tls12Group, test |-> Tls12Test, init |-> Tls12Init,
     args |-> Names(Tls12Group) \cup {"tcId"}, outputs |-> Tls12Output, frees |-> Tls12Release] @@ Usual

Tls13Group ==
    <<Field("testType", {"ok"}, MISSING_ARG, MALFORMED_JSON), Field("hmacAlg", {"ok"}, MISSING_ARG, MALFORMED_JSON),
      Field("runningMode", {"PSK", "DHE", "PSK-DHE"}, MISSING_ARG, MALFORMED_JSON)>>
Tls13Randoms == <<"helloClientRandom", "helloServerRandom", "finishedClientRandom", "finishedServerRandom">>
Tls13Test ==
    <<Id>> \o When(Is("runningMode", {"PSK", "PSK-DHE"}), <<Present("psk")>>) \o
    When(Is("runningMode", {"DHE", "PSK-DHE"}), <<Present("dhe")>>) \o Each(Present, Tls13Randoms)
Tls13Keys == <<"c_early_traffic_secret", "early_expt_master_secret", "c_hs_traffic_secret", "s_hs_traffic_secret",
               "c_app_traffic_secret", "s_app_traffic_secret", "expt_master_secret", "resume_master_secret">>
Tls13Init ==
    <<Alloc("psk")>> \o DecodeIf("psk", "psk") \o <<Alloc("dhe")>> \o DecodeIf("dhe", "dhe") \o News(Tls13Randoms) \o Allocs(Tls13Keys)
Tls13Locals == {"psk", "dhe"} \cup ToSet(Tls13Randoms)
Tls13Output  == Bufs(ToSet(Tls13Keys))
Tls13Release == {"psk", "dhe"} \cup ToSet(Tls13Randoms) \cup ToSet(Tls13Keys)
Tls13 ==
    [refused |-> KdfRefused, group |-> Tls13Group, test |-> Tls13Test, init |-> Tls13Init,
     args |-> Names(Tls13Group) \cup {"tcId"}, testLocals |-> Tls13Locals,
     outputs |-> Tls13Output, frees |-> Tls13Release] @@ Usual

(*********************************** PBKDF ***********************************)
PbkdfGroup == <<Tag("testType", {"ok"}), Tag("hmacAlg", {"ok"})>>
PbkdfTest  == <<Id, InRange("keyLen"), Str("salt"), Tag("password", {"ok"}), InRange("iterationCount")>>
PbkdfInit  == <<Alloc("salt"), Tight("salt", "salt"), Alloc("password"), Copy("password", "password"), Alloc("key")>>
PbkdfOutput  == Bufs({"key"})
PbkdfRelease == {"salt", "password", "key"}
Pbkdf ==
    [refused |-> KdfRefused, group |-> PbkdfGroup, test |-> PbkdfTest, init |-> PbkdfInit,
     args |-> {"tcId", "hmacAlg", "testType", "keyLen", "iterationCount"},
     outputs |-> PbkdfOutput, frees |-> PbkdfRelease,
     onInit |-> {"release"}, onCrypto |-> {"release"}, leaks |-> {"r_tval"}] @@ Usual

(************************************ KDA ************************************)
LOCAL Malformed(f, values) == Field(f, values, MALFORMED_JSON, MALFORMED_JSON)
LOCAL Needed(f)            == Field(f, Hex, MALFORMED_JSON, TAKEN)
KdaAlgs == {"hkdf", "onestep", "twostep"}
KdaPatterns == {"parties", "full"}     \* "full" also has a literal, the context, algorithm id, label and t
KdaGroup ==
    <<Malformed("testType", {"AFT", "VAL"}), Malformed("kdfConfiguration", {"ok"})>> \o
    When(Is("alg", {"hkdf"}), <<Malformed("hmacAlg", {"ok"})>>) \o
    When(Is("alg", {"onestep"}), <<Malformed("auxFunction", {"ok"})>>) \o
    When(Is("alg", {"twostep"}), <<Num("macMode", TC_INVALID_DATA)>>) \o
    <<Field("fixedInfoPattern", KdaPatterns, MALFORMED_JSON, TAKEN), Malformed("fixedInfoEncoding", {"ok"}),
      Malformed("saltMethod", {"ok"}), Field("saltLen", {"ok"}, TAKEN, MALFORMED_JSON), Malformed("l", {"ok"})>>
\* hybrid_secret is read from the parameters of the last test of the group before, which is what paramobj points to;
\* without one it is -1, which counts as true.
KdaGroupRest ==
    When(Is("alg", {"twostep"}),
         <<Num("kdfMode", TC_INVALID_DATA), Num("counterLocation", TC_INVALID_DATA), Num("counterLen", TC_INVALID_DATA),
           Field("ivLen", {"zero", "some"}, TAKEN, TC_INVALID_DATA)>>) \o
    When(Is("paramHybrid", {"false"}), <<Assign("hybrid_secret", "false")>>) \o
    When(IsNot("paramHybrid", {"false"}), <<Assign("hybrid_secret", "true")>>)
KdaTest ==
    <<Opt("tcId"), Into("paramHybrid", Field("usesHybridSharedSecret", Bool, TAKEN, TAKEN))>> \o
    When(IsNot("fixedInfoPattern", KdaPatterns), <<Reject(MALFORMED_JSON)>>) \o
    When(Is("alg", {"onestep"}), <<Field("salt", Hex \cup {"other"}, TAKEN, TAKEN)>>) \o
    When(IsNot("alg", {"onestep"}), <<Malformed("salt", {"ok"})>>) \o
    <<Field("z", Hex, MALFORMED_JSON, TC_INVALID_DATA)>> \o
    When(Is("alg", {"twostep"}) \cup Is("ivLen", {"some"}), <<Field("iv", Hex \cup {"other"}, TC_INVALID_DATA, TAKEN)>>)
KdaTestInfo ==
    <<Needed("uPartyId"), OptHex("uEphemeralData"), Needed("vPartyId"), OptHex("vEphemeralData")>> \o
    When(Is("fixedInfoPattern", {"full"}), Each(Needed, <<"context", "algorithmId", "label", "t">>)) \o
    When(IsNot("fixedInfoPattern", {"full"}) \cup Is("hybrid_secret", {"true"}), <<OptHex("t")>>) \o
    When(Is("testType", {"VAL"}), <<Malformed("dkm", {"ok"})>>)
\* cmp_pattern_str() has stored the literal of the pattern.
KdaLiteral == When(Is("fixedInfoPattern", {"full"}), <<Held("literal")>>)
KdaInitInfo ==
    NewIf("t", "t") \o New("uPartyId", "uPartyId") \o NewIf("uEphemeralData", "uEphemeralData") \o
    New("vPartyId", "vPartyId") \o NewIf("vEphemeralData", "vEphemeralData") \o NewIf("algorithmId", "algorithmId") \o
    NewIf("label", "label") \o NewIf("context", "context") \o <<Alloc("outputDkm")>> \o
    When(Is("testType", {"VAL"}), New("dkm", "providedDkm"))
\* A salt or IV of another length than announced ends the function with the code of the conversion, AMVP_SUCCESS.
KdaOnestepInit == KdaLiteral \o NewIf("salt", "salt") \o <<Cut("salt")>> \o New("z", "z") \o KdaInitInfo
KdaTwostepInit == KdaLiteral \o News(<<"salt", "z">>) \o NewIf("iv", "iv") \o <<Cut("iv")>> \o KdaInitInfo
KdaHkdfInit    == KdaLiteral \o News(<<"salt", "z">>) \o KdaInitInfo
KdaOnestepOutput == On(Is("testType", {"AFT"}), Bufs({"outputDkm"}))
KdaTwostepOutput == On(Is("testType", {"AFT"}), Bufs({"outputDkm"}))
KdaHkdfOutput    == On(Is("testType", {"AFT"}), Bufs({"outputDkm"}))
\* The literal of a two-step pattern is stored at the offset it has in the one-step structure, and not found again.
KdaRelease == {"salt", "iv", "z", "t", "algorithmId", "label", "context", "uPartyId", "uEphemeralData", "vPartyId",
               "vEphemeralData", "providedDkm", "outputDkm"}
KdaProcess ==
    [refused |-> {MALFORMED_JSON}, zeroed |-> TRUE,
     testLocals |-> {"salt", "z", "uPartyId", "uEphemeralData", "vPartyId", "vEphemeralData", "context", "algorithmId",
                     "label", "t", "dkm", "reject"}]
KdaSteps == [group |-> KdaGroup \o KdaGroupRest, test |-> KdaTest \o KdaTestInfo]
Hkdf ==
    [algs |-> {"hkdf"}, late |-> {MALFORMED_JSON, INVALID_ARG, UNSUPPORTED_OP}, group |-> For("hkdf", KdaSteps.group),
     test |-> For("hkdf", KdaSteps.test), args |-> Names(For("hkdf", KdaSteps.group)) \cup {"tcId"}, init |-> KdaHkdfInit,
     outputs |-> KdaHkdfOutput, frees |-> KdaRelease \cup {"literal"}, carried |-> {"paramHybrid"}] @@ KdaProcess @@ Usual
Onestep ==
    [algs |-> {"onestep"}, late |-> {MALFORMED_JSON, UNSUPPORTED_OP}, group |-> For("onestep", KdaSteps.group),
     test |-> For("onestep", KdaSteps.test), args |-> Names(For("onestep", KdaSteps.group)) \cup {"tcId"},
     init |-> KdaOnestepInit, outputs |-> KdaOnestepOutput, frees |-> KdaRelease \cup {"literal"},
     carried |-> {"paramHybrid"}, unmet |-> {Is("salt", {"other"})}] @@ KdaProcess @@ Usual
Twostep ==
    [algs |-> {"twostep"}, late |-> {MALFORMED_JSON, UNSUPPORTED_OP}, group |-> For("twostep", KdaSteps.group),
     test |-> For("twostep", KdaSteps.test), args |-> Names(For("twostep", KdaSteps.group)) \cup {"tcId"},
     init |-> KdaTwostepInit, outputs |-> KdaTwostepOutput, frees |-> KdaRelease, leaks |-> {"literal"},
     carried |-> {"paramHybrid", "iv"}, unmet |-> {Is("iv", {"other"})}] @@ KdaProcess @@ Usual

KdfHandlers ==
    [kdf108 |-> Kdf108, ikev1 |-> Ikev1, ikev2 |-> Ikev2, snmp |-> Snmp, srtp |-> Srtp, ssh |-> Ssh, x942 |-> X942,
     x963 |-> X963, tls12 |-> Tls12, tls13 |-> Tls13, pbkdf |-> Pbkdf, hkdf |-> Hkdf, onestep |-> Onestep, twostep |-> Twostep]
=============================================================================
