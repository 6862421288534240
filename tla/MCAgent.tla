------------------------------- MODULE MCAgent -------------------------------
(***************************************************************************)
(* Agent for TLC.                                                          *)
(***************************************************************************)
EXTENDS Agent
=============================================================================
