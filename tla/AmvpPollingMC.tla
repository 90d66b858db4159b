----------------------------- MODULE AmvpPollingMC -----------------------------
(***************************************************************************)
(* An instance of AmvpPolling.  It scales the times of amvp_lcl.h down (20  *)
(* for 300, 120 for 7200 seconds) and keeps AMVP_RETRY_TIME_MIN.  The       *)
(* "retry" periods lie on both sides of every comparison the handler makes: *)
(* negative, below and at RETRY_TIME_MIN, just above it, an usual one, at   *)
(* and above RETRY_TIME_MAX, above MAX_WAIT_TIME.                           *)
(***************************************************************************)
EXTENDS AmvpPolling

ScaledPeriods == {-7, 1, 5, 6, 13, 20, 21, 200}
================================================================================
