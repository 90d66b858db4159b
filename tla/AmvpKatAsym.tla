----------------------------- MODULE AmvpKatAsym -----------------------------
(***************************************************************************)
(* Tables of the signature and key generation handlers (amvp_dsa.c,        *)
(* amvp_ecdsa.c, amvp_rsa_keygen.c, amvp_rsa_sig.c, amvp_rsa_prim.c).      *)
(***************************************************************************)
EXTENDS AmvpKatTable

LOCAL Id == Num("tcId", MISSING_ARG)

(************************************ DSA ************************************)
DsaSizes == <<Num("l", MISSING_ARG), Num("n", MISSING_ARG)>>
DsaHash  == <<Tag("hashAlg", {"ok"})>>
\* A group is a call of a function of its own, which has all the variables.
DsaLocals == {"l", "n", "hashAlg", "tcId", "message", "p", "q", "g", "r", "s", "y", "gMode", "pqMode", "reject",
              "domainSeed", "counter", "index", "h"}
Dsa ==
    [refused |-> {MALFORMED_JSON, UNSUPPORTED_OP, MISSING_ARG, INVALID_ARG}, late |-> {MISSING_ARG}, noTests |-> MISSING_ARG,
     zeroed |-> TRUE, groupLocals |-> DsaLocals,
     frees |-> {"p", "q", "g", "x", "y", "r", "s", "seed", "msg"}, onOutput |-> {"release"}, leaks |-> {"r_tval"}]

DsaKeygenInit == Allocs(<<"p", "q", "g", "x", "y">>)
DsaKeygen == [group |-> DsaSizes, test |-> <<Id>>, init |-> DsaKeygenInit, args |-> {"tcId", "l", "n"},
              outputs |-> Bufs({"p", "q", "g", "y", "x"})] @@ Dsa @@ Usual

DsaSiggenInit == Allocs(<<"p", "q", "g", "r", "s", "y">>) \o New("message", "msg")
DsaSiggen == [group |-> DsaSizes \o DsaHash, test |-> <<Id, Present("message")>>, init |-> DsaSiggenInit,
              args |-> {"tcId", "l", "n", "hashAlg"}, outputs |-> Bufs({"p", "q", "g", "y", "r", "s"})] @@ Dsa @@ Usual

DsaSigverInit ==
    Allocs(<<"msg", "p", "q", "g", "r", "s", "y">>) \o <<Decode("message", "msg"), Decode("p", "p"), Decode("q", "q"),
    Decode("g", "g"), Decode("r", "r"), Decode("s", "s"), Decode("y", "y")>>
DsaSigver == [group |-> DsaSizes \o DsaHash \o Each(Present, <<"p", "q", "g">>),
              test |-> <<Id>> \o Each(Present, <<"message", "r", "s", "y">>), init |-> DsaSigverInit,
              args |-> {"tcId", "l", "n", "hashAlg"}, outputs |-> {}] @@ Dsa @@ Usual

\* Exactly one of gMode and pqMode must be there.
DsaModes ==
    <<Field("gMode", {"none", "canonical", "unverifiable"}, TAKEN, TAKEN), Field("pqMode", {"none", "probable", "provable"}, TAKEN, TAKEN)>> \o
    When(Is("gMode", Null) \cup Is("pqMode", Null), <<Reject(MISSING_ARG)>>) \o
    When(IsNot("gMode", Null) \cup IsNot("pqMode", Null), <<Reject(INVALID_ARG)>>)
Canonical    == Is("gMode", {"canonical"})
Unverifiable == Is("gMode", {"unverifiable"})
DsaPqgverTest ==
    <<Id, OptHex("domainSeed"), Opt("counter"), Opt("index"), Present("p"), Present("q"), OptHex("g"), Opt("h")>> \o
    When(Is("gMode", Null) \cup IsNot("pqMode", {"probable"}), <<Reject(UNSUPPORTED_OP)>>) \o
    When(Is("pqMode", {"probable"}) \cup Is("domainSeed", Null), <<Reject(MISSING_ARG)>>) \o
    When(Canonical \cup Is("index", Null), <<Reject(MISSING_ARG)>>) \o When(Canonical \cup Is("g", Null), <<Reject(MISSING_ARG)>>) \o
    When(Unverifiable \cup Is("domainSeed", Null), <<Reject(MISSING_ARG)>>) \o
    When(Unverifiable \cup Is("h", Null), <<Reject(MISSING_ARG)>>) \o
    When(IsNot("gMode", {"canonical", "unverifiable"} \cup Null), <<Reject(UNSUPPORTED_OP)>>)
DsaPqgverInit ==
    Allocs(<<"seed", "p", "q", "g", "r", "s", "y">>) \o DecodeIf("domainSeed", "seed") \o
    <<Decode("p", "p"), Decode("q", "q")>> \o DecodeIf("g", "g")
DsaPqgver == [group |-> DsaSizes \o DsaHash \o DsaModes, test |-> DsaPqgverTest, init |-> DsaPqgverInit,
              args |-> {"tcId", "l", "n", "hashAlg", "counter", "index", "h", "gMode", "pqMode"}, outputs |-> {}] @@ Dsa @@ Usual

DsaPqggenTest ==
    <<Id>> \o
    When(IsNot("gMode", {"canonical", "unverifiable"} \cup Null), <<Reject(INVALID_ARG)>>) \o
    When(Canonical, <<Present("domainSeed"), Field("index", {"ok"}, MISSING_ARG, TAKEN)>>) \o
    When(IsNot("gMode", Null), <<Present("p"), Present("q")>>) \o
    When(Is("gMode", Null) \cup IsNot("pqMode", {"probable", "provable"}), <<Reject(INVALID_ARG)>>)
DsaPqggenInit ==
    Allocs(<<"p", "q", "g", "seed">>) \o When(Canonical, <<Decode("domainSeed", "seed")>>) \o
    When(IsNot("gMode", Null), <<Decode("p", "p"), Decode("q", "q")>>)
DsaPqggenOutput == On(IsNot("gMode", Null), Bufs({"g"})) \cup On(Is("gMode", Null), Bufs({"p", "q", "seed"}))
DsaPqggen == [group |-> DsaModes \o DsaSizes \o DsaHash, test |-> DsaPqggenTest, init |-> DsaPqggenInit,
              args |-> {"tcId", "l", "n", "hashAlg", "gMode", "pqMode"}, outputs |-> DsaPqggenOutput,
              onOutput |-> {"release", "free"}, leaks |-> {}] @@ Dsa @@ Usual

(*********************************** ECDSA ***********************************)
EcdsaSig == Is("alg", {"SIGGEN", "SIGVER"})
EcdsaKey == Is("alg", {"KEYVER", "SIGVER"})
EcdsaGroup ==
    <<Tag("curve", {"ok"})>> \o When(Is("alg", {"KEYGEN"}), <<Tag("secretGenerationMode", {"ok"})>>) \o
    When(EcdsaSig, <<Tag("hashAlg", {"ok"}), Opt("componentTest")>>)
EcdsaTest ==
    <<Opt("tcId")>> \o When(EcdsaKey, Each(Str, <<"qx", "qy">>)) \o When(EcdsaSig, <<Str("message")>>) \o
    When(Is("alg", {"SIGVER"}), Each(Str, <<"r", "s">>))
EcdsaInit ==
    Allocs(<<"qx", "qy", "d", "s", "r", "message">>) \o When(EcdsaKey, <<Decode("qx", "qx"), Decode("qy", "qy")>>) \o
    When(Is("alg", {"SIGVER"}), <<Decode("r", "r"), Decode("s", "s")>>) \o When(EcdsaSig, <<Decode("message", "message")>>)
EcdsaOutput ==
    On(Is("alg", {"KEYGEN"}), Bufs({"qy", "qx", "d"})) \cup On(Is("alg", {"SIGGEN"}), Bufs({"qy", "qx", "r", "s"}))
EcdsaRelease == {"qy", "qx", "d", "r", "s", "message"}
\* A failed allocation makes init_tc() free the buffers whose pointers it leaves to release_tc().
Ecdsa ==
    [algs |-> {"KEYGEN", "KEYVER", "SIGGEN", "SIGVER"}, refused |-> {MALFORMED_JSON, INVALID_ARG, UNSUPPORTED_OP},
     late |-> {MALFORMED_JSON}, noTgId |-> MISSING_ARG, noTests |-> MISSING_ARG, zeroed |-> TRUE, selfFrees |-> TRUE,
     group |-> EcdsaGroup, test |-> EcdsaTest, init |-> EcdsaInit, args |-> Names(EcdsaGroup) \cup {"tcId"},
     groupLocals |-> {"hashAlg", "curve", "secretGenerationMode"}, outputs |-> EcdsaOutput, frees |-> EcdsaRelease] @@ Usual

(************************************ RSA ************************************)
RsaRefused == {MALFORMED_JSON, INVALID_ARG, UNSUPPORTED_OP}
Rsa == [refused |-> RsaRefused, zeroed |-> TRUE, ignoresInit |-> TRUE]

\* B34 stands for B32 as well; a test type other than KAT is not told apart.
RsaHashed == Is("randPQ", {"B34", "B35"})
RsaKeygenGroup ==
    <<Field("testType", {"KAT"}, TC_INVALID_DATA, TAKEN), Field("infoGeneratedByServer", Bool, MISSING_ARG, MISSING_ARG),
      Tag("pubExp", {"fixed", "random"})>> \o
    When(Is("pubExp", {"fixed"}), <<Into("e", Present("fixedPubExp"))>>) \o
    <<Tag("keyFormat", {"standard", "crt"}), Tag("randPQ", {"B33", "B34", "B35", "B36"})>> \o
    When(Is("randPQ", {"B33", "B35", "B36"}), <<Tag("primeTest", {"ok"})>>) \o
    <<Tag("modulo", {"ok"})>> \o When(RsaHashed, <<Tag("hashAlg", {"ok"})>>)
RsaGiven == Is("infoGeneratedByServer", {"true"})
RsaKeygenTest ==
    <<Opt("tcId")>> \o When(Is("pubExp", {"random"}), <<Str("e")>>) \o
    When(RsaGiven, <<Num("bitlens", INVALID_ARG)>>) \o When(RsaGiven \cup RsaHashed, <<Str("seed")>>) \o
    When(Is("randPQ", {"B36"}), Each(Present, <<"xp", "xp1", "xp2", "xq", "xq1", "xq2">>))
RsaPrimes == <<"xp", "xp1", "xp2", "xq", "xq1", "xq2">>
RsaKeygenInit ==
    Allocs(<<"e", "p", "q", "n", "d">>) \o When(Is("randPQ", {"B36"}), Allocs(RsaPrimes)) \o
    When(IsNot("randPQ", {"B36"}) \cup Is("infoGeneratedByServer", {"false"}), Allocs(RsaPrimes)) \o
    When(Is("randPQ", {"B36"}), [i \in DOMAIN RsaPrimes |-> Decode(RsaPrimes[i], RsaPrimes[i])]) \o
    <<Decode("e", "e"), Alloc("seed")>> \o When(RsaGiven, DecodeIf("seed", "seed"))
RsaKeygenOutput ==
    LET answers(guard) == On(guard, Bufs({"p", "q", "n", "d", "e"}) \cup On(Is("keyFormat", {"crt"}), Bufs(ToSet(RsaPrimes))))
    IN  answers(IsNot("randPQ", {"B33"})) \cup answers(Is("randPQ", {"B33"}) \cup IsNot("testType", {"KAT"})) \cup
        On(IsNot("randPQ", {"B33"}) \cup Is("infoGeneratedByServer", {"false"}), Bufs({"seed"}))
RsaKeygenRelease == {"e", "seed", "p", "q", "n", "d"} \cup ToSet(RsaPrimes)
\* A CRT answer holds the primes, for which there are no buffers if the server has generated the information.
RsaKeygen ==
    [group |-> RsaKeygenGroup, test |-> RsaKeygenTest, init |-> RsaKeygenInit,
     args |-> {"tcId", "testType", "infoGeneratedByServer", "pubExp", "keyFormat", "randPQ", "primeTest", "modulo", "hashAlg"},
     carried |-> {"hashAlg", "primeTest", "seed"},
     unmet |-> {Is("keyFormat", {"crt"}) \cup RsaGiven \cup IsNot("randPQ", {"B36"})},
     outputs |-> RsaKeygenOutput, frees |-> RsaKeygenRelease] @@ Rsa @@ Usual

RsaVer == Is("alg", {"SIGVER"})
RsaSigGroup ==
    <<Tag("sigType", {"ok"}), Tag("modulo", {"ok"}), Tag("hashAlg", {"ok"}), Opt("saltLen")>> \o When(RsaVer, Each(Str, <<"e", "n">>))
RsaSigTest ==
    <<Num("tcId", MALFORMED_JSON), Str("message")>> \o When(RsaVer, <<Str("signature"), Opt("salt")>>)
RsaSigInit ==
    Allocs(<<"msg", "signature", "salt", "e", "n">>) \o <<Decode("message", "msg")>> \o
    When(RsaVer, <<Decode("e", "e"), Decode("n", "n"), Decode("signature", "signature")>>)
RsaSigOutput  == On(Is("alg", {"SIGGEN"}), Bufs({"e", "n", "signature"}))
RsaSigRelease == {"msg", "e", "n", "signature", "salt"}
\* If the buffer for the padded signature cannot be allocated r_tval is lost.
RsaSig ==
    [algs |-> {"SIGGEN", "SIGVER"}, refused |-> RsaRefused \cup {MISSING_ARG}, group |-> RsaSigGroup, test |-> RsaSigTest,
     init |-> RsaSigInit, args |-> {"tcId", "sigType", "modulo", "hashAlg", "saltLen", "salt"},
     lost |-> {RsaVer}, leaks |-> {"r_tval"}, outputs |-> RsaSigOutput, frees |-> RsaSigRelease] @@ Rsa @@ Usual

\* A test has an array of ciphertexts, each of which is a test case with an r_cval of its own, which goes with r_tval.
\* pass and fail are counters of the group that the application counts on: what it leaves of them in one test case
\* goes into the next.  pt is converted only if the crypto handler says it has decrypted it.
RsaDecprimGroup ==
    <<Num("modulo", INVALID_ARG), Into("pass", Num("totalTestCases", INVALID_ARG)), Into("fail", Num("totalFailingCases", INVALID_ARG))>>
RsaDecprimTest  == <<Opt("tcId"), Field("deferred", Bool, MISSING_ARG, MISSING_ARG), Into("cipher", Str("cipherText"))>>
RsaDecprimInit  == New("cipher", "cipher") \o Allocs(<<"plaintext", "e", "n", "pt">>)
RsaDecprimOutput  == Bufs({"e", "n"})
RsaDecprimRelease == {"e", "n", "pt", "cipher", "plaintext"}
RsaDecprim ==
    [group |-> RsaDecprimGroup, test |-> RsaDecprimTest, init |-> RsaDecprimInit, args |-> {"modulo", "deferred", "pass", "fail"},
     divided |-> {"cipher"}, until |-> TRUE, writesBack |-> {"pass", "fail"}, carried |-> {"pass", "fail"},
     outputs |-> RsaDecprimOutput, frees |-> RsaDecprimRelease] @@ Rsa @@ Usual

RsaSigprimGroup == <<Num("modulo", INVALID_ARG), Keep(Field("keyFormat", {"standard", "crt"}, MISSING_ARG, TAKEN))>>
RsaCrtParts == <<"p", "q", "dmp1", "dmq1", "iqmp">>
RsaSigprimTest ==
    <<Num("tcId", MALFORMED_JSON), Str("e"), Str("n")>> \o When(Is("keyFormat", {"crt"}), Each(Str, RsaCrtParts)) \o
    When(IsNot("keyFormat", {"crt"}), <<Present("d")>>) \o <<Str("message")>>
RsaSigprimInit ==
    New("e", "e") \o NewIf("d", "d") \o New("n", "n") \o
    FlattenSeq([i \in DOMAIN RsaCrtParts |-> NewIf(RsaCrtParts[i], RsaCrtParts[i])]) \o New("message", "msg") \o <<Alloc("signature")>>
\* The signature is converted only if the crypto handler says there is one.
RsaSigprimOutput  == {}
RsaSigprimRelease == {"e", "d", "n", "msg", "signature"} \cup ToSet(RsaCrtParts)
RsaSigprim ==
    [refused |-> RsaRefused \cup {MISSING_ARG}, group |-> RsaSigprimGroup, test |-> RsaSigprimTest, init |-> RsaSigprimInit,
     args |-> {"tcId", "modulo", "keyFormat"}, carried |-> {"d", "keyFormat"} \cup ToSet(RsaCrtParts),
     outputs |-> RsaSigprimOutput, frees |-> RsaSigprimRelease] @@ Rsa @@ Usual

AsymHandlers ==
    [dsa_keygen |-> DsaKeygen, dsa_siggen |-> DsaSiggen, dsa_sigver |-> DsaSigver, dsa_pqgver |-> DsaPqgver, dsa_pqggen |-> DsaPqggen,
     ecdsa |-> Ecdsa, rsa_keygen |-> RsaKeygen, rsa_sig |-> RsaSig, rsa_decprim |-> RsaDecprim, rsa_sigprim |-> RsaSigprim]
=============================================================================
