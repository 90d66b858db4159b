----------------------------- MODULE AmvpKatMC -----------------------------
(* The known-answer-test handlers of the library, for TLC: those of the      *)
(* algorithms that take data and those that make or take keys.               *)
EXTENDS AmvpKatChecks, AmvpKatMac, AmvpKatSym, AmvpKatKdf, AmvpKatKas, AmvpKatAsym

AllHandlers ==
    LET algorithms == MacHandlers @@ SymHandlers
        keys       == KdfHandlers @@ KasHandlers @@ AsymHandlers
    IN  algorithms @@ keys
=============================================================================
