---------------------------- MODULE MCFdPlumbing ----------------------------
(***************************************************************************)
(* FdPlumbing for TLC.                                                     *)
(***************************************************************************)
EXTENDS FdPlumbing

OneThenTwo == [o \in Objects |-> IF o \in Programs THEN 1 ELSE 2]
=============================================================================
