----------------------------- MODULE AmvpKatSym -----------------------------
(***************************************************************************)
(* Tables of the block cipher handlers (amvp_aes.c, amvp_des.c).  A cipher *)
(* is one of the modes the code tells apart: CBC stands for CBC, its       *)
(* ciphertext stealing forms, CFB8, CFB128 and OFB; KW for KW and KWP;     *)
(* CTR_INT for CTR whose capability says RFC 3686 with internal IVs.       *)
(***************************************************************************)
EXTENDS AmvpKatTable

LOCAL Known(f, values) == Field(f, values, TC_MISSING_DATA, TC_INVALID_DATA)
LOCAL Lim(f)           == Field(f, Hex, TC_MISSING_DATA, TC_INVALID_DATA)
LOCAL AtMost(f)        == Field(f, {"ok"}, TAKEN, TC_INVALID_DATA)

(************************************ AES ************************************)
AesAlgs == {"ECB", "CBC", "CFB1", "CTR", "CTR_INT", "KW", "GCM", "GMAC", "CCM", "GCM_SIV", "XPN", "XTS"}
AesAead == {"GCM", "GMAC", "CCM", "GCM_SIV", "XPN"}
AesDirections == {"encrypt", "decrypt"}
AesTestTypes  == {"AFT", "MCT", "CTR"}
AesSources    == {"internal", "external"}
AesTweakModes == {"hex", "number"}
AesGroup ==
    <<Known("direction", AesDirections), Known("testType", AesTestTypes)>> \o
    When(Is("testType", {"CTR"}), <<Num("overflow", TC_INVALID_DATA), Num("incremental", TC_INVALID_DATA)>>) \o
    When(Is("alg", {"KW"}), <<Known("kwCipher", {"ok"})>>) \o
    <<Num("keyLen", TC_INVALID_DATA)>> \o
    When(Is("alg", {"CTR_INT"}), <<Assign("ivGen", "internal")>>)
AesGroupAead ==
    When(Is("alg", AesAead), <<Known("ivLen", {"ok"})>>) \o
    When(Is("alg", {"GCM", "GMAC"}), <<Known("ivGen", AesSources)>>) \o
    When(Is("alg", {"GCM", "GMAC"}) \cup Is("ivGen", {"internal"}), <<Known("ivGenMode", {"ok"})>>) \o
    When(Is("alg", AesAead), <<AtMost("aadLen"), Num("tagLen", TC_INVALID_DATA)>>)
AesGroupRest ==
    <<Into("paylen", AtMost("payloadLen"))>> \o
    When(Is("alg", {"XTS"}), <<Field("tweakMode", AesTweakModes, TC_MISSING_DATA, TAKEN)>>) \o
    When(Is("alg", {"XPN"}), <<Known("saltGen", AesSources), Num("saltLen", TC_INVALID_DATA)>>)
\* A GMAC test has neither a plaintext nor a ciphertext.
AesText(f, dir) ==
    When(Is("direction", {dir}) \cup IsNot("alg", {"GMAC"}), <<Lim(f)>>) \o
    When(Is("direction", {dir}) \cup Is("alg", {"GMAC"}), <<Field(f, {"none"}, TAKEN, TC_INVALID_DATA)>>)
AesTest ==
    <<Field("tcId", {"ok"}, TC_MISSING_DATA, TAKEN), Lim("key")>> \o
    When(Is("alg", {"CFB1"}), <<Into("datalen", AtMost("payloadLen"))>>) \o
    When(Is("alg", {"XTS"}), <<AtMost("dataUnitLen")>>) \o
    AesText("pt", "encrypt") \o AesText("ct", "decrypt") \o
    When(Is("direction", {"decrypt"}) \cup Is("alg", {"GCM", "GMAC"}), <<Lim("tag")>>)
\* readIv is set and never reset.  The iv of a GCM-SIV test is not read: it is computed with the zeroed buffer.
AesTestIv ==
    When(Is("alg", {"CBC", "CFB1", "CCM", "CTR", "XPN"}), <<Assign("readIv", "1")>>) \o
    When(Is("alg", {"GCM", "GMAC"}) \cup Is("direction", {"decrypt"}), <<Assign("readIv", "1")>>) \o
    When(Is("alg", {"GCM", "GMAC"}) \cup Is("ivGen", {"external"}), <<Assign("readIv", "1")>>) \o
    When(Is("readIv", {"1"}), <<Lim("iv")>>) \o
    When(Is("alg", {"XTS"}) \cup IsNot("tweakMode", AesTweakModes), <<Reject(TC_INVALID_DATA)>>) \o
    When(Is("alg", {"XTS"}) \cup Is("tweakMode", {"hex"}), <<Into("iv", Lim("tweakValue"))>>) \o
    When(Is("alg", {"XTS"}) \cup Is("tweakMode", {"number"}), <<AtMost("sequenceNumber")>>) \o
    When(Is("alg", AesAead), <<Lim("aad")>>) \o
    When(Is("alg", {"XPN"}) \cup Is("saltGen", {"external"}), <<OptHex("salt")>>)
AesInit ==
    Allocs(<<"key", "pt", "ct", "tag", "iv", "aad", "salt">>) \o <<Decode("key", "key")>> \o
    DecodeIf("pt", "pt") \o DecodeIf("ct", "ct") \o DecodeIf("iv", "iv") \o DecodeIf("tag", "tag") \o
    DecodeIf("aad", "aad") \o DecodeIf("salt", "salt")
\* The Monte Carlo functions put out the key, the IV and the input of each round and feed them back.
AesMct        == Is("testType", {"MCT"})
AesMctIterate == On(AesMct, Bufs({"pt", "ct", "iv"}))
AesMctOutput  ==
    On(AesMct, Bufs({"key"})) \cup On(AesMct \cup IsNot("alg", {"ECB"}), Bufs({"iv"})) \cup
    On(AesMct \cup Is("direction", {"encrypt"}), Bufs({"pt"})) \cup On(AesMct \cup Is("direction", {"decrypt"}), Bufs({"ct"}))
AesOutput ==
    On(Is("ivGen", {"internal"}), Bufs({"iv"})) \cup On(Is("saltGen", {"internal"}), Bufs({"salt"})) \cup
    On(Is("direction", {"encrypt"}), Bufs({"ct"})) \cup On(Is("direction", {"decrypt"}), Bufs({"pt"})) \cup
    On(Is("direction", {"encrypt"}) \cup Is("alg", {"GCM", "GMAC", "XPN"}), Bufs({"tag"}))
\* A failure of the crypto module is the answer of an authenticated decryption.
AesReports == {Is("direction", {"decrypt"}) \cup Is("alg", AesAead \cup {"KW"})}
AesTolerates == {Is("alg", {"KW", "GCM", "GCM_SIV", "CCM", "GMAC"})}
\* An error of a Monte Carlo round may lose the r_tval of the round (mct_r_tval), and one of init_tc() that of the test.
AesRelease == {"key", "pt", "ct", "tag", "iv", "aad", "salt"}
Aes ==
    [algs |-> AesAlgs, refused |-> {TC_MISSING_DATA, TC_INVALID_DATA}, noTgId |-> TC_MISSING_DATA,
     group |-> AesGroup \o AesGroupAead \o AesGroupRest, test |-> AesTest \o AesTestIv, mct |-> AesMct,
     args |-> {"tcId", "testType", "kwCipher", "keyLen", "ivLen", "datalen", "paylen", "tagLen", "aadLen", "saltLen",
               "dataUnitLen", "direction", "ivGen", "ivGenMode", "incremental", "overflow", "tweakMode",
               "sequenceNumber", "saltGen"},
     groupLocals |-> (Names(AesGroup) \cup Names(AesGroupAead) \cup Names(AesGroupRest) \cup {"datalen", "dataUnitLen"}) \ {"tweakMode"},
     testLocals |-> {"tcId", "key", "pt", "ct", "iv", "tag", "aad", "salt"},
     carried |-> {"readIv", "sequenceNumber"},
     init |-> AesInit, outputs |-> AesOutput \cup AesMctIterate \cup AesMctOutput, frees |-> AesRelease,
     tolerates |-> AesTolerates, reports |-> AesReports, silent |-> {Is("direction", {"encrypt"})},
     mctLost |-> {"mct_r_tval"}, onInit |-> {"release"}, leaks |-> {"r_tval", "mct_r_tval"}]
    @@ Usual

(************************************ DES ************************************)
DesGroup ==
    <<Tag("direction", {"encrypt", "decrypt"}), Tag("testType", {"AFT", "MCT", "CTR"})>> \o
    When(Is("testType", {"CTR"}), <<Num("overflowCounter", MALFORMED_JSON), Num("incrementalCounter", MALFORMED_JSON)>>) \o
    <<Keep(Field("keyingOption", {"ok"}, TAKEN, TC_INVALID_DATA))>>
DesTest ==
    <<Opt("tcId"), Tag("key1", {"ok"}), Tag("key2", {"ok"}), Tag("key3", {"ok"})>> \o
    When(Is("direction", {"encrypt"}), <<Str("pt")>>) \o
    When(Is("direction", {"decrypt"}), <<Str("ct")>>) \o
    When(Is("alg", {"CFB1"}), <<Opt("payloadLen")>>) \o
    When(IsNot("alg", {"ECB"}), <<Tag("iv", {"ok"})>>)
\* The three keys are joined before they are decoded.
DesInit ==
    Allocs(<<"key", "pt", "ct", "iv", "iv_ret", "iv_ret_after">>) \o <<Decode("key1", "key")>> \o
    DecodeIf("pt", "pt") \o DecodeIf("ct", "ct") \o DecodeIf("iv", "iv")
DesMct        == Is("testType", {"MCT"})
DesMctIterate == On(DesMct, Bufs({"pt", "ct", "iv"}))
DesMctOutput  ==
    On(DesMct, Bufs({"key"})) \cup On(DesMct \cup IsNot("alg", {"ECB"}), Bufs({"iv"})) \cup
    On(DesMct \cup Is("direction", {"encrypt"}), Bufs({"pt"})) \cup On(DesMct \cup Is("direction", {"decrypt"}), Bufs({"ct"}))
DesOutput  == On(Is("direction", {"encrypt"}), Bufs({"ct"})) \cup On(Is("direction", {"decrypt"}), Bufs({"pt"}))
DesRelease == {"key", "pt", "ct", "iv", "iv_ret", "iv_ret_after"}
Des ==
    [algs |-> {"ECB", "CBC", "CFB1"}, group |-> DesGroup, test |-> DesTest, mct |-> DesMct,
     mctCode |-> "AMVP_CRYPTO_MODULE_FAIL",
     args |-> {"tcId", "testType", "direction", "incrementalCounter", "overflowCounter", "keyingOption"},
     testLocals |-> {"key1", "key2", "key3", "pt", "ct", "iv", "payloadLen"},
     carried |-> {"keyingOption", "incrementalCounter", "overflowCounter"},
     init |-> DesInit, outputs |-> DesOutput \cup DesMctIterate \cup DesMctOutput, frees |-> DesRelease,
     onInit |-> {"release"}, onOutput |-> {"release"}, leaks |-> {"r_tval"}]
    @@ Usual

SymHandlers == [aes |-> Aes, des |-> Des]
=============================================================================
