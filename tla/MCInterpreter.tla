---------------------------- MODULE MCInterpreter ----------------------------
(***************************************************************************)
(* Interpreter for TLC.                                                    *)
(***************************************************************************)
EXTENDS Interpreter, TLC

TwoArchives == {"a", "b"}

\* The archives differ only after the first buffer.
TwoFirstAlike == [a \in TwoArchives |-> <<1, IF a = "a" THEN 2 ELSE 3>>]

TwoFiles == <<"lib.py", "main.py">>

\* Jobs differ in nothing but their names.
JobSymmetry == Permutations(Jobs)
=============================================================================
