------------------------------ MODULE MCArchive ------------------------------
(***************************************************************************)
(* Archive for TLC.                                                        *)
(***************************************************************************)
EXTENDS Archive

\* Several blocks, none (a directory), one.
SomeSizes == <<2, 0, 1, 3>>
=============================================================================
