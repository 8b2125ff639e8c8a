----------------------------- MODULE MCStartup -----------------------------
(***************************************************************************)
(* Two launchers for Startup.                                              *)
(***************************************************************************)
EXTENDS Startup, TLC

CONSTANTS i1, i2
=============================================================================
