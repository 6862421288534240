----------------------------- MODULE MCPipeTalk -----------------------------
(***************************************************************************)
(* PipeTalk for TLC.                                                       *)
(***************************************************************************)
EXTENDS PipeTalk
=============================================================================
