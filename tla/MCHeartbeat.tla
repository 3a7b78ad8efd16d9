---------------------------- MODULE MCHeartbeat ----------------------------
(***************************************************************************)
(* Heartbeat for TLC.                                                      *)
(***************************************************************************)
EXTENDS Heartbeat, TLC

CONSTANTS a, b

OneDomain == { a }
TwoDomains == { a, b }
=============================================================================
