------------------------------- MODULE MCBapm -------------------------------
(***************************************************************************)
(* Bapm for TLC: its parameters are given by the configuration.            *)
(***************************************************************************)
EXTENDS Bapm
=============================================================================
