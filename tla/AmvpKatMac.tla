----------------------------- MODULE AmvpKatMac -----------------------------
(***************************************************************************)
(* Tables of the hash, MAC and DRBG handlers (amvp_hash.c, amvp_hmac.c,    *)
(* amvp_cmac.c, amvp_kmac.c, amvp_drbg.c).                                 *)
(***************************************************************************)
EXTENDS AmvpKatTable

(************************************ HMAC ************************************)
HmacGroup == <<Num("msgLen", MISSING_ARG), Num("keyLen", MISSING_ARG), Num("macLen", MISSING_ARG)>>
HmacTest  == <<Num("tcId", MISSING_ARG), Str("msg"), Str("key")>>
HmacInit  == Allocs(<<"msg", "mac", "key">>) \o <<Decode("msg", "msg"), Decode("key", "key")>>
HmacOutput  == Bufs({"mac"})
HmacRelease == {"mac", "msg", "key"}
Hmac ==
    [group |-> HmacGroup, test |-> HmacTest, args |-> {"tcId", "msgLen", "macLen", "keyLen"},
     outputs |-> HmacOutput, init |-> HmacInit, frees |-> HmacRelease, late |-> {MISSING_ARG}, noTests |-> MISSING_ARG]
    @@ Usual

(************************************ CMAC ************************************)
\* `verify' is set by a group that verifies and reset by none.
CmacGroup ==
    When(Is("alg", {"AES"}), <<Num("keyLen", MISSING_ARG)>>) \o
    When(Is("alg", {"TDES"}), <<Num("keyingOption", INVALID_ARG)>>) \o
    <<Field("testType", {"AFT"}, MISSING_ARG, UNSUPPORTED_OP),
      Field("direction", {"ver", "gen"}, MALFORMED_JSON, UNSUPPORTED_OP)>> \o
    When(Is("direction", {"ver"}), <<Assign("verify", "1")>>) \o
    <<Field("msgLen", {"zero", "some"}, TAKEN, TAKEN), Num("macLen", MISSING_ARG)>>
CmacTest ==
    <<Opt("tcId")>> \o
    When(Is("msgLen", {"some"}), <<Field("message", Hex \cup {"empty"}, MISSING_ARG, INVALID_ARG)>>) \o
    When(IsNot("msgLen", {"some"}), <<Field("message", {"empty"}, TAKEN, MISSING_ARG)>>) \o
    When(Is("alg", {"AES"}), <<Into("key1", Str("key"))>>) \o
    When(Is("alg", {"TDES"}), <<Str("key1"), Str("key2"), Str("key3")>>) \o
    When(Is("verify", {"1"}), <<Present("mac")>>)
\* init_tc() looks at its arguments before it zeroes the structure.
CmacEarly ==
    {Decode("message", "msg"), Decode("tcId", ""), Decode("key1", "key")}
    \cup On(Is("alg", {"TDES"}), {Decode("key2", "key2"), Decode("key3", "key3")})
    \cup On(Is("verify", {"1"}), {Decode("mac", "mac"), Decode("macLen", "")})
CmacInit ==
    Allocs(<<"msg", "mac", "key">>) \o When(Is("verify", {"1"}), <<Decode("mac", "mac")>>) \o
    Allocs(<<"key2", "key3">>) \o <<Decode("message", "msg"), Decode("key1", "key")>> \o
    When(Is("alg", {"TDES"}), <<Decode("key2", "key2"), Decode("key3", "key3")>>)
CmacOutput  == On(IsNot("verify", {"1"}), Bufs({"mac"}))
CmacRelease == {"msg", "mac", "key", "key2", "key3"}
Cmac ==
    [algs |-> {"AES", "TDES"}, group |-> CmacGroup, test |-> CmacTest,
     args |-> {"tcId", "testType", "msgLen", "verify", "macLen"}, early |-> CmacEarly, carried |-> {"verify"},
     outputs |-> CmacOutput, init |-> CmacInit, frees |-> CmacRelease]
    @@ Usual

(************************************ KMAC ************************************)
\* A missing flag reads as -1, which counts as true.
KmacGroup ==
    <<Field("testType", {"AFT", "MVT"}, MISSING_ARG, INVALID_ARG), Opt("xof"), Field("hexCustomization", Bool, TAKEN, TAKEN)>>
KmacTest ==
    <<Num("tcId", MISSING_ARG), Field("msgLen", {"ok"}, TAKEN, INVALID_ARG), Str("msg"),
      Num("keyLen", INVALID_ARG), Str("key"), Num("macLen", INVALID_ARG)>> \o
    When(Is("testType", {"MVT"}), <<Str("mac")>>) \o
    When(IsNot("hexCustomization", {"false"}), <<Into("custom", Present("customizationHex"))>>) \o
    When(Is("hexCustomization", {"false"}), <<Into("custom", Field("customization", {"ok"}, MISSING_ARG, TAKEN))>>)
KmacInit ==
    Allocs(<<"msg", "mac", "key">>) \o
    When(IsNot("hexCustomization", {"false"}), <<Alloc("custom_hex")>>) \o
    When(Is("hexCustomization", {"false"}), <<Alloc("custom")>>) \o
    <<Decode("msg", "msg"), Decode("key", "key")>> \o
    When(Is("testType", {"MVT"}), <<Decode("mac", "mac")>>) \o
    When(IsNot("hexCustomization", {"false"}), <<Decode("custom", "custom_hex")>>) \o
    When(Is("hexCustomization", {"false"}), <<Copy("custom", "custom")>>)
KmacOutput  == On(Is("testType", {"AFT"}), Bufs({"mac"}))
KmacRelease == {"msg", "mac", "key", "custom", "custom_hex"}
Kmac ==
    [group |-> KmacGroup, test |-> KmacTest,
     args |-> {"tcId", "testType", "xof", "hexCustomization", "msgLen", "macLen", "keyLen"},
     outputs |-> KmacOutput, init |-> KmacInit, frees |-> KmacRelease, late |-> {MISSING_ARG}, noTests |-> MISSING_ARG]
    @@ Usual

(************************************ Hash ************************************)
HashGroup ==
    When(IsNot("alg", {"SHAKE"}), <<Field("testType", {"AFT", "MCT"}, MISSING_ARG, INVALID_ARG)>>) \o
    When(Is("alg", {"SHAKE"}), <<Field("testType", {"AFT", "MCT", "VOT"}, MISSING_ARG, INVALID_ARG)>>) \o
    When(Is("alg", {"SHAKE"}) \cup Is("testType", {"MCT"}),
         <<Num("minOutLen", INVALID_ARG), Field("maxOutLen", {"ok"}, TAKEN, INVALID_ARG)>>)
HashTest == <<Opt("tcId"), Str("msg")>> \o When(Is("testType", {"VOT"}), <<Num("outLen", INVALID_ARG)>>)
HashInit ==
    Allocs(<<"msg", "md">>) \o
    When(Is("testType", {"MCT"}) \cup Is("alg", {"SHA"}), Allocs(<<"m1", "m2", "m3">>)) \o <<Decode("msg", "msg")>>
\* The loops of the three Monte Carlo functions use the same buffers as a single test.
HashMct     == Is("testType", {"MCT"})
HashMctTc   == On(Is("testType", {"MCT"}) \cup Is("alg", {"SHA"}), Bufs({"m1", "m2", "m3"}))
HashOutput  == Bufs({"md"})
HashRelease == {"msg", "md", "m1", "m2", "m3"}
Hash ==
    [algs |-> {"SHA", "SHA3", "SHAKE"}, group |-> HashGroup, test |-> HashTest, mct |-> HashMct,
     args |-> {"tcId", "testType", "outLen", "minOutLen", "maxOutLen"},
     groupLocals |-> {"testType", "minOutLen", "maxOutLen"}, testLocals |-> {"outLen"},
     outputs |-> HashOutput \cup HashMctTc, init |-> HashInit, frees |-> HashRelease]
    @@ Usual

(************************************ DRBG ************************************)
DrbgGroup ==
    <<Field("mode", {"ok"}, MALFORMED_JSON, UNSUPPORTED_OP), Field("predResistance", Bool, MISSING_ARG, MISSING_ARG),
      Field("reSeed", Bool, MISSING_ARG, MISSING_ARG)>> \o
    When(Is("alg", {"CTR"}), <<Field("derFunc", Bool, MISSING_ARG, MISSING_ARG)>>) \o
    <<Num("entropyInputLen", INVALID_ARG)>> \o
    When(IsNot("alg", {"CTR"}), <<Num("nonceLen", INVALID_ARG)>>) \o
    When(Is("derFunc", {"true"}), <<Num("nonceLen", INVALID_ARG)>>) \o
    When(Is("derFunc", {"false"}), <<Opt("nonceLen")>>) \o
    <<Field("persoStringLen", {"ok"}, TAKEN, INVALID_ARG), Num("returnedBitsLen", INVALID_ARG),
      Field("additionalInputLen", {"ok"}, TAKEN, INVALID_ARG)>>
\* otherInput is an array of two inputs for "generate", after one for "reSeed" if the group reseeds.
DrbgReseed == Is("predResistance", {"false"}) \cup Is("reSeed", {"true"})
DrbgTest ==
    <<Opt("tcId"), Str("persoString"), Str("entropyInput"), Str("nonce"), Field("otherInput", {"ok"}, MISSING_ARG, INVALID_ARG)>> \o
    When(DrbgReseed, <<Field("intendedUse_0", {"reSeed"}, TAKEN, INVALID_ARG), Str("additionalInput_0"), Str("entropyInputPR_0")>>) \o
    <<Field("intendedUse_1", {"generate"}, TAKEN, INVALID_ARG), Str("additionalInput_1"), Str("entropyInputPR_1")>>
DrbgTest2 ==
    <<Field("intendedUse_2", {"generate"}, TAKEN, INVALID_ARG), Str("additionalInput_2"), Str("entropyInputPR_2")>>
DrbgInputs == <<"additionalInput_0", "entropyInputPR_0", "additionalInput_1", "entropyInputPR_1",
                "additionalInput_2", "entropyInputPR_2", "entropyInput", "persoString", "nonce">>
DrbgInit == Allocs(<<"drb">> \o DrbgInputs) \o FlattenSeq([i \in DOMAIN DrbgInputs |-> DecodeIf(DrbgInputs[i], DrbgInputs[i])])
DrbgOutput  == Bufs({"drb"})
DrbgRelease == ToSet(DrbgInputs) \cup {"drb"}
Drbg ==
    [algs |-> {"CTR", "HASH"}, group |-> DrbgGroup, test |-> DrbgTest \o DrbgTest2,
     args |-> Names(DrbgGroup) \cup {"tcId"},
     groupLocals |-> {"predResistance", "reSeed", "derFunc", "entropyInputLen", "nonceLen", "persoStringLen",
                      "returnedBitsLen", "additionalInputLen"},
     testLocals |-> ToSet(DrbgInputs) \cup {"tcId"},
     outputs |-> DrbgOutput, init |-> DrbgInit, frees |-> DrbgRelease]
    @@ Usual

MacHandlers == [hmac |-> Hmac, cmac |-> Cmac, kmac |-> Kmac, hash |-> Hash, drbg |-> Drbg]
=============================================================================
