------------------------------- MODULE MCCrow -------------------------------
(***************************************************************************)
(* Crow for TLC.                                                           *)
(***************************************************************************)
EXTENDS Crow
=============================================================================
