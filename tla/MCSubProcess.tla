---------------------------- MODULE MCSubProcess ----------------------------
(***************************************************************************)
(* SubProcess for TLC.                                                     *)
(***************************************************************************)
EXTENDS SubProcess

TwoPids == {101, 102}
OneCode == {3}
TwoCodes == {0, 1}

OnceEach == [o \in Objects |-> 1]
\* One of the objects is started a second time.
OneTwice == [OnceEach EXCEPT ![CHOOSE o \in Objects : TRUE] = 2]

\* asked, exit and answer are history that careless callers do not look at:
\* states that differ in nothing else have the same future.
CarelessView == <<kernel, members, calls, starts>>
=============================================================================
