---------------------------- MODULE MCThreadPool ----------------------------
(***************************************************************************)
(* ThreadPool for TLC.  Workers are interchangeable, and so are the tasks  *)
(* that no other constant singles out.                                     *)
(***************************************************************************)
EXTENDS ThreadPool, TLC

Symmetry ==
  Permutations(Workers) \cup Permutations(Tasks \ (Endless \cup Rogue \cup Interrupted))
=============================================================================
