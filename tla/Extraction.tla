----------------------------- MODULE Extraction -----------------------------
(***************************************************************************)
(* What utils/archive_decompress promises, without libarchive, its codes,  *)
(* its handles or blocks of data: the entries of an archive are handed out *)
(* in their order and none twice, a call says that there are no more only  *)
(* when there are none, a call that fails loses at most the entry it was   *)
(* at, and every call ends.  Archive implements it; Interpreter relies on  *)
(* it.                                                                     *)
(***************************************************************************)
EXTENDS Naturals

CONSTANT Entries   \* 1 .. n, the entries of the archive

VARIABLES
  count,     \* how many of them can be read
  state,     \* "new", "idle", the call under way, or "over"
  consumed,  \* the last entry that is no longer to be had
  given,     \* the entries that calls have handed out
  result     \* what the last call said: "none" (yet), "entry", "end" or "error"

xvars == <<count, state, consumed, given, result>>

Calls == {"next", "all", "vector"}

Init ==
  /\ count \in {0} \cup Entries
  /\ state = "new"
  /\ consumed = 0
  /\ given = {}
  /\ result = "none"

Construct ==
  /\ state = "new"
  /\ state' \in {"idle", "over"}
  /\ UNCHANGED <<count, consumed, given, result>>

Begin ==
  /\ state = "idle"
  /\ state' \in Calls
  /\ result' = "none"
  /\ UNCHANGED <<count, consumed, given>>

\* extract_to_directory goes on after an entry, the others return.
Give ==
  /\ state \in Calls
  /\ consumed < count
  /\ consumed' = consumed + 1
  /\ given' = given \cup {consumed'}
  /\ IF state = "all" THEN UNCHANGED <<state, result>>
                      ELSE state' = "idle" /\ result' = "entry"
  /\ UNCHANGED count

End ==
  /\ state \in Calls
  /\ consumed = count
  /\ state' = "idle" /\ result' = "end"
  /\ UNCHANGED <<count, consumed, given>>

\* An error is thrown, or undefined behaviour ends the process.
Fail ==
  /\ state \in Calls
  /\ \/ state' = "idle" /\ result' = "error"
     \/ state' = "over" /\ result' \in {"none", "error"}
  /\ consumed' \in {consumed, consumed + 1}
  /\ consumed' <= count
  /\ UNCHANGED <<count, given>>

Destroy ==
  /\ state = "idle"
  /\ state' = "over"
  /\ UNCHANGED <<count, consumed, given, result>>

Work == Give \/ End \/ Fail

Next == Construct \/ Begin \/ Work \/ Destroy

Spec == Init /\ [][Next]_xvars

FairSpec == Spec /\ WF_xvars(Work)
=============================================================================
