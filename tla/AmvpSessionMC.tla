----------------------------- MODULE AmvpSessionMC -----------------------------
(***************************************************************************)
(* Instances of AmvpSession with two or three vector sets: v1, v2, v3 in    *)
(* the server's order.                                                      *)
(***************************************************************************)
EXTENDS AmvpSession, TLC

CONSTANTS v1, v2, v3

TwoSets == {v1, v2}
ThreeSets == {v1, v2, v3}
TwoInOrder == v1 :> 1 @@ v2 :> 2
ThreeInOrder == TwoInOrder @@ v3 :> 3
================================================================================
