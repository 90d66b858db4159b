----------------------------- MODULE AmvpResultsMC -----------------------------
(***************************************************************************)
(* An instance of AmvpResults with four vector sets.                        *)
(***************************************************************************)
EXTENDS AmvpResults, TLC

(* Vector sets 9, 95, 7 and one without a URL.  The first two have URLs     *)
(* that are taken for one another, the first and the third algorithms.      *)
Urls      == <<"vs9", "vs95", "vs7", "none">>
SomeAlgs  == <<"RSA", "AES", "RSA-ext", "RSA">>
SomeModes == <<"keyGen", "none", "keyGen", "none">>
SomePrefixes == {<<"vs9", "vs95">>, <<"RSA", "RSA-ext">>}
================================================================================
