---------------------------- MODULE ArchiveProofs ----------------------------
(***************************************************************************)
(* For archives of any length, with entries of any size: what a call says  *)
(* it has extracted is whole, the read handle is freed once, and           *)
(* archive_decompress is an Extraction.                                    *)
(*                                                                         *)
(* The invariant relates pc, the object's place in its code, to the rest:  *)
(* what is open, which call is under way, and how far it has come.         *)
(***************************************************************************)
EXTENDS Archive, TLAPS

Calls == {"next", "all", "vector"}
Working == {"header", "copy", "read"}
Moving == {"copy", "read"}

TypeOK ==
  /\ pc \in {"new", "ready", "thrown", "gone"} \cup Working
  /\ op \in Calls \cup {"none"}
  /\ result \in {"none", "entry", "end", "error"}
  /\ process \in {"up", "terminated"}
  /\ open \in BOOLEAN /\ frees \in Nat /\ writer \in BOOLEAN
  /\ fatal \in BOOLEAN /\ failed \in BOOLEAN
  /\ count \in {0, Len(Sizes)}
  /\ entry \in 0 .. count
  /\ moved \in Nat
  /\ extracted \in [Entries -> Nat \cup {Unextracted}]
  /\ warned \subseteq Entries /\ short \subseteq Entries /\ unfinished \subseteq Entries

\* The handle is there and unharmed as long as calls may use it.
Alive ==
  /\ pc \in {"new", "ready"} \cup Working => open /\ frees = 0
  /\ pc = "new" => ~fatal /\ entry = 0 /\ result = "none" /\ extracted = [e \in Entries |-> Unextracted]

\* A call is under way where the code of one runs, and it has no result yet;
\* while data are moved there is an entry that they belong to.
UnderWay ==
  /\ op # "none" <=> pc \in Working
  /\ pc \in Working => result = "none"
  /\ pc \in Moving => entry > 0 /\ moved <= Sizes[entry]

IInv ==
  /\ TypeOK
  /\ Alive
  /\ UnderWay
  /\ WholeUnlessWarned
  /\ HandleFreedOnce

-----------------------------------------------------------------------------
(* The inductive invariant *)

\* What the assumption on Sizes says of the entries.
LEMMA EntriesHaveSizes ==
  /\ Len(Sizes) \in Nat
  /\ Entries = 1 .. Len(Sizes)
  /\ \A e \in Entries : Sizes[e] \in Nat
BY SizesAssumption DEF Entries

\* The inductive invariant holds before the constructor.
LEMMA InvInit == Init => IInv
<1> SUFFICES ASSUME Init PROVE IInv
  OBVIOUS
<1> USE EntriesHaveSizes DEF Init
<1>1. TypeOK
  <2>1. extracted \in [Entries -> Nat \cup {Unextracted}]
    OBVIOUS
  <2>2. entry \in 0 .. count
    OBVIOUS
  <2>3. QED
    BY <2>1, <2>2 DEF TypeOK
<1>2. Alive /\ UnderWay
  BY DEF Alive, UnderWay, Working, Moving
<1>3. WholeUnlessWarned /\ HandleFreedOnce
  BY DEF WholeUnlessWarned, HandleFreedOnce
<1>4. QED
  BY <1>1, <1>2, <1>3 DEF IInv

\* The entry of a call under way is an entry.
LEMMA EntryInRange ==
  ASSUME TypeOK
  PROVE  /\ entry \in Nat /\ entry <= Len(Sizes) /\ count \in Nat
         /\ entry > 0 => entry \in Entries
         /\ entry < count => entry + 1 \in Entries
BY EntriesHaveSizes DEF TypeOK

\* How the calls end, for an entry whose data are all there, or that libarchive
\* has said something about.
LEMMA EntryDoneKeeps ==
  ASSUME IInv, pc \in Working,
         NEW e \in Entries, NEW blocks \in Nat, EntryDone(e, blocks),
         blocks = Sizes[e] \/ e \in warned' \cup short',
         warned \subseteq warned', warned' \subseteq Entries,
         short \subseteq short', short' \subseteq Entries,
         count' = count, entry' \in 0 .. count, moved' \in Nat
  PROVE  IInv'
<1> USE DEF IInv, TypeOK, EntryDone, Return, handle
<1>1. PICK there \in 0 .. blocks :
        /\ extracted' = [extracted EXCEPT ![e] = there]
        /\ \/ there = blocks /\ unfinished' = unfinished
           \/ unfinished' = unfinished \cup {e}
  BY DEF Finish
<1>2. TypeOK'
  <2>1. extracted' \in [Entries -> Nat \cup {Unextracted}] /\ unfinished' \subseteq Entries
    BY <1>1
  <2>2. pc' \in {"header", "ready"} /\ op' \in Calls \cup {"none"}
        /\ result' \in {"none", "entry", "end", "error"} /\ writer' \in BOOLEAN
    OBVIOUS
  <2>3. QED
    BY <2>1, <2>2 DEF Working
<1>3. Alive' /\ UnderWay'
  BY DEF Alive, UnderWay, Working, Moving
<1>4. WholeUnlessWarned'
  <2>1. SUFFICES ASSUME NEW d \in Entries, extracted'[d] # Unextracted
                 PROVE  extracted'[d] = Sizes[d] \/ d \in warned' \cup short' \cup unfinished'
    BY DEF WholeUnlessWarned
  <2>2. CASE d = e
    BY <1>1, <2>2
  <2>3. CASE d # e
    <3>1. extracted'[d] = extracted[d]
      BY <1>1, <2>3
    <3>2. QED
      BY <1>1, <2>1, <3>1 DEF WholeUnlessWarned
  <2>4. QED
    BY <2>2, <2>3
<1>5. HandleFreedOnce'
  BY DEF HandleFreedOnce, Alive, Working
<1>6. QED
  BY <1>2, <1>3, <1>4, <1>5

\* Data that are over are all there, or have ended early.
LEMMA DataEndTells ==
  ASSUME IInv, pc \in Moving, DataEnd
  PROVE  /\ moved = Sizes[entry] \/ entry \in short'
         /\ short \subseteq short' /\ short' \subseteq Entries
<1>1. entry \in Entries
  BY EntryInRange DEF IInv, UnderWay
<1>2. QED
  BY <1>1, EntriesHaveSizes DEF IInv, TypeOK, UnderWay, DataEnd

\* An error, of the reader or of the writer, keeps the invariant.
LEMMA ErrorKeeps ==
  ASSUME IInv, pc \in Working, (\E code \in Bad : ReadError(code)) \/ WriteError,
         UNCHANGED <<count, warned, short>>, entry' \in 0 .. count, moved' \in Nat
  PROVE  IInv'
<1> USE DEF IInv, TypeOK, ReadError, WriteError, Return, Bad
<1>1. TypeOK'
  OBVIOUS
<1>2. Alive' /\ UnderWay'
  BY DEF Alive, UnderWay, Working, Moving
<1>3. WholeUnlessWarned' /\ HandleFreedOnce'
  BY DEF WholeUnlessWarned, HandleFreedOnce, Alive, Working
<1>4. QED
  BY <1>1, <1>2, <1>3

\* Every step keeps the invariant.
LEMMA InvStep == IInv /\ [Next]_vars => IInv'
<1> SUFFICES ASSUME IInv, [Next]_vars PROVE IInv'
  OBVIOUS
<1> USE EntriesHaveSizes DEF IInv, TypeOK, handle, flaws
<1>1. CASE HeaderEof
  BY <1>1 DEF HeaderEof, Return, Alive, UnderWay, WholeUnlessWarned, HandleFreedOnce, Working, Moving
<1>2. CASE HeaderError
  <2>1. pc \in Working /\ UNCHANGED <<count, warned, short, entry, moved>>
    BY <1>2 DEF HeaderError, Working
  <2>2. QED
    BY <1>2, <2>1, ErrorKeeps DEF HeaderError
<1>3. CASE Header
  <2>1. /\ entry + 1 \in Entries /\ entry' \in 0 .. count /\ entry' = entry + 1
        /\ moved' = 0 /\ pc \in Working /\ UNCHANGED <<count, warned, short>>
    BY <1>3, EntryInRange DEF Header, Working
  <2>2. CASE WriteError
    BY <2>1, <2>2, ErrorKeeps
  <2>3. CASE Sizes[entry'] = 0 /\ EntryDone(entry', 0)
    BY <2>1, <2>3, EntryDoneKeeps
  <2>4. CASE /\ pc' = IF op = "vector" THEN "read" ELSE "copy"
             /\ UNCHANGED <<op, result, process, handle, writer, extracted, unfinished>>
    BY <1>3, <2>1, <2>4 DEF Header, Alive, UnderWay, WholeUnlessWarned, HandleFreedOnce, Working, Moving
  <2>5. QED
    BY <1>3, <2>2, <2>3, <2>4 DEF Header
<1>4. CASE CopyBlock
  <2>1. entry \in Entries
    BY <1>4, EntryInRange DEF CopyBlock, UnderWay, Moving
  <2>2. QED
    BY <1>4, <2>1 DEF CopyBlock, Alive, UnderWay, WholeUnlessWarned, HandleFreedOnce, Working, Moving
<1>5. CASE CopyEnds
  <2>1. entry \in Entries /\ pc \in Working
    BY <1>5, EntryInRange DEF CopyEnds, UnderWay, Moving, Working
  <2>2. QED
    BY <1>5, <2>1, DataEndTells, EntryDoneKeeps DEF CopyEnds, UnderWay, Moving
<1>6. CASE CopyWarns
  <2>1. entry \in Entries /\ pc \in Working
    BY <1>6, EntryInRange DEF CopyWarns, UnderWay, Moving, Working
  <2>2. QED
    BY <1>6, <2>1, EntryDoneKeeps DEF CopyWarns
<1>7. CASE CopyFails
  <2>1. pc \in Working /\ UNCHANGED <<count, warned, short, entry, moved>>
    BY <1>7 DEF CopyFails, Working
  <2>2. QED
    BY <1>7, <2>1, ErrorKeeps DEF CopyFails
<1>8. CASE ReadSome
  <2>1. entry \in Entries /\ pc \in Working /\ UNCHANGED <<count, warned, short, entry>>
    BY <1>8, EntryInRange DEF ReadSome, UnderWay, Moving, Working
  <2>2. moved' \in Nat /\ moved' <= Sizes[entry]
    BY <1>8, <2>1 DEF ReadSome
  <2>3. CASE Full /\ EntryDone(entry, moved')
    BY <2>1, <2>2, <2>3, EntryDoneKeeps DEF Full
  <2>4. CASE UNCHANGED <<pc, op, result, process, handle, writer, extracted, unfinished>>
    BY <2>1, <2>2, <2>4 DEF Alive, UnderWay, WholeUnlessWarned, HandleFreedOnce, Working, Moving
  <2>5. QED
    BY <1>8, <2>3, <2>4 DEF ReadSome
<1>9. CASE ReadWarns
  <2>1. entry \in Entries /\ pc \in Working
    BY <1>9, EntryInRange DEF ReadWarns, UnderWay, Moving, Working
  <2>2. CASE EntryDone(entry, moved)
    BY <1>9, <2>1, <2>2, EntryDoneKeeps DEF ReadWarns
  <2>3. CASE process' = "terminated" /\ UNCHANGED <<pc, op, result, handle, writer, extracted, unfinished>>
    BY <1>9, <2>1, <2>3 DEF ReadWarns, Alive, UnderWay, WholeUnlessWarned, HandleFreedOnce, Working, Moving
  <2>4. QED
    BY <1>9, <2>2, <2>3 DEF ReadWarns
<1>10. CASE ReadEnds
  <2>1. entry \in Entries /\ pc \in Working
    BY <1>10, EntryInRange DEF ReadEnds, UnderWay, Moving, Working
  <2>2. QED
    BY <1>10, <2>1, DataEndTells, EntryDoneKeeps DEF ReadEnds, UnderWay, Moving
<1>11. CASE ReadFails
  <2>1. pc \in Working /\ UNCHANGED <<count, warned, short, entry, moved>>
    BY <1>11 DEF ReadFails, Working
  <2>2. QED
    BY <1>11, <2>1, ErrorKeeps DEF ReadFails
<1>12. CASE StatFails
  BY <1>12 DEF StatFails, Alive, UnderWay, WholeUnlessWarned, HandleFreedOnce, Working, Moving
<1>13. CASE Open
  <2>1. /\ pc = "new" /\ pc' \in {"ready", "thrown"} /\ frees = 0 /\ open
        /\ UNCHANGED <<op, result, process, writer, count, entry, moved, extracted, flaws>>
    BY <1>13 DEF Open, Alive
  <2>2. CASE UNCHANGED handle
    BY <1>13, <2>1, <2>2 DEF Open, Alive, UnderWay, WholeUnlessWarned, HandleFreedOnce, Working, Moving
  <2>3. CASE pc' = "thrown" /\ frees' = 1 /\ open' = FALSE /\ fatal' = TRUE /\ failed' = TRUE
    <3>1. TypeOK'
      BY <2>1, <2>3
    <3>2. Alive' /\ UnderWay'
      BY <2>1, <2>3 DEF Alive, UnderWay, Working, Moving
    <3>3. WholeUnlessWarned' /\ HandleFreedOnce'
      BY <2>1, <2>3 DEF WholeUnlessWarned, HandleFreedOnce
    <3>4. QED
      BY <3>1, <3>2, <3>3
  <2>4. CASE pc' = "thrown" /\ failed' = TRUE /\ UNCHANGED <<open, frees, fatal>>
    BY <2>1, <2>4 DEF Alive, UnderWay, WholeUnlessWarned, HandleFreedOnce, Working, Moving
  <2>5. close => frees' = 1 /\ open' = FALSE
    BY <2>1 DEF close
  <2>6. QED
    BY <1>13, <2>2, <2>3, <2>4, <2>5 DEF Open
<1>14. CASE Destroy
  <2>1. frees' = 1 /\ open' = FALSE
    BY <1>14 DEF Destroy, close, Alive
  <2>2. TypeOK'
    BY <1>14, <2>1 DEF Destroy
  <2>3. Alive' /\ UnderWay'
    BY <1>14, <2>1 DEF Destroy, Alive, UnderWay, Working, Moving
  <2>4. WholeUnlessWarned'
    BY <1>14, <2>1 DEF Destroy, WholeUnlessWarned
  <2>5. HandleFreedOnce'
    BY <1>14, <2>1 DEF Destroy, HandleFreedOnce
  <2>6. QED
    BY <2>2, <2>3, <2>4, <2>5
<1>15. ASSUME NEW o \in Calls, Begin(o) PROVE IInv'
  BY <1>15 DEF Calls, Begin, Alive, UnderWay, WholeUnlessWarned, HandleFreedOnce, Working, Moving
<1>16. CASE UNCHANGED vars
  BY <1>16 DEF vars, Alive, UnderWay, WholeUnlessWarned, HandleFreedOnce, Working, Moving
<1>17. QED
  BY <1>1, <1>2, <1>3, <1>4, <1>5, <1>6, <1>7, <1>8, <1>9, <1>10, <1>11, <1>12, <1>13, <1>14, <1>15, <1>16
     DEF Next, Step, Client, Calls

\* The invariant holds always.
LEMMA Invariance == Spec => []IInv
BY InvInit, InvStep, PTL DEF Spec

-----------------------------------------------------------------------------
(* The refinement, step by step *)

\* Handing over an entry whose data are there is a Give.
LEMMA EntryDoneGives ==
  ASSUME IInv, process = "up", pc \in Working,
         NEW blocks \in Nat, EntryDone(entry', blocks),
         count' = count, Consumed < count, entry' = Consumed + 1, entry' \in Entries
  PROVE  Promised!Give
<1>1. State = op /\ State \in Calls
  BY DEF IInv, TypeOK, UnderWay, State, Working, Calls
<1>2. pc' \in {"header", "ready"} /\ process' = "up"
  BY DEF EntryDone, Return
<1>3. Consumed' = Consumed + 1
  BY <1>2 DEF Consumed
<1>4. Given' = Given \cup {entry'}
  <2>1. PICK there \in 0 .. blocks : extracted' = [extracted EXCEPT ![entry'] = there]
    BY DEF EntryDone, Finish
  <2>2. there # Unextracted /\ extracted \in [Entries -> Nat \cup {Unextracted}]
    BY <2>1 DEF Unextracted, IInv, TypeOK
  <2>3. QED
    BY <2>1, <2>2 DEF Given
<1>5. IF State = "all" THEN UNCHANGED <<State, result>> ELSE State' = "idle" /\ result' = "entry"
  BY <1>1, <1>2 DEF EntryDone, Return, State
<1>6. QED
  BY <1>1, <1>3, <1>4, <1>5 DEF Promised!Give, Promised!Calls, Calls

\* A call that throws fails, and what it leaves behind is at most one entry.
LEMMA ErrorFails ==
  ASSUME IInv, process = "up", pc \in Working, (\E code \in Bad : ReadError(code)) \/ WriteError,
         UNCHANGED count, entry' \in {Consumed, Consumed + 1}, entry' <= count
  PROVE  Promised!Fail
<1>1. State \in Calls
  BY DEF IInv, TypeOK, UnderWay, State, Working, Calls
<1>2. pc' = "ready" /\ result' = "error" /\ UNCHANGED extracted /\ process' \in {"up", "terminated"}
  BY DEF ReadError, WriteError, Return
<1>3. State' \in {"idle", "over"}
  BY <1>2 DEF State
<1>4. Consumed' = entry' /\ Given' = Given
  BY <1>2 DEF Consumed, Given
<1>5. QED
  BY <1>1, <1>2, <1>3, <1>4 DEF Promised!Fail, Promised!Calls, Calls

\* A new object is a new extraction.
LEMMA InitPromised == Init => Promised!Init
BY EntriesHaveSizes DEF Init, Promised!Init, State, Consumed, Given, Unextracted

\* Every step is a step of Extraction or leaves it alone.
LEMMA StepPromised == IInv /\ [Next]_vars => [Promised!Next]_(Promised!xvars)
<1> SUFFICES ASSUME IInv, Next PROVE Promised!Next \/ UNCHANGED Promised!xvars
  BY DEF vars, handle, Promised!xvars, State, Consumed, Given
<1>1. process = "up" /\ entry \in Nat /\ count \in Nat /\ entry <= count
  BY EntriesHaveSizes DEF IInv, TypeOK, Next, Step, Client
<1> USE <1>1, EntriesHaveSizes
<1>2. CASE HeaderEof
  <2>1. State \in Calls /\ State' = "idle" /\ result' = "end"
    BY <1>2 DEF HeaderEof, Return, State, IInv, TypeOK, UnderWay, Working, Calls
  <2>2. Consumed = count /\ Consumed' = Consumed /\ Given' = Given
    BY <1>2 DEF HeaderEof, Return, Consumed, Given
  <2>3. Promised!End
    BY <1>2, <2>1, <2>2 DEF HeaderEof, Promised!End, Promised!Calls, Calls
  <2>4. QED
    BY <2>3 DEF Promised!Next, Promised!Work
<1>3. CASE HeaderError \/ CopyFails \/ ReadFails
  <2>1. Promised!Fail
    BY <1>3, ErrorFails DEF HeaderError, CopyFails, ReadFails, Working, Consumed
  <2>2. QED
    BY <2>1 DEF Promised!Next, Promised!Work
<1>4. CASE Header
  <2>1. /\ entry < count /\ entry' = entry + 1 /\ UNCHANGED count
        /\ pc = "header" /\ pc \in Working /\ Consumed = entry /\ entry' \in Entries
    BY <1>4, EntryInRange DEF Header, Working, Consumed, IInv
  <2>2. CASE WriteError
    <3>1. Promised!Fail
      BY <2>1, <2>2, ErrorFails
    <3>2. QED
      BY <3>1 DEF Promised!Next, Promised!Work
  <2>3. CASE EntryDone(entry', 0)
    <3>1. Promised!Give
      BY <2>1, <2>3, EntryDoneGives
    <3>2. QED
      BY <3>1 DEF Promised!Next, Promised!Work
  <2>4. CASE /\ pc' = IF op = "vector" THEN "read" ELSE "copy"
             /\ UNCHANGED <<op, result, process, handle, writer, extracted, unfinished>>
    BY <2>1, <2>4 DEF Promised!xvars, State, Consumed, Given
  <2>5. QED
    BY <1>4, <2>2, <2>3, <2>4 DEF Header
<1>5. CASE CopyBlock
  BY <1>5 DEF CopyBlock, Promised!xvars, State, Consumed, Given
<1>6. ASSUME pc \in Moving, NEW blocks \in Nat, EntryDone(entry, blocks), UNCHANGED <<count, entry>>
      PROVE  Promised!Next
  <2>1. /\ entry' = Consumed + 1 /\ Consumed < count /\ entry' \in Entries /\ pc \in Working
        /\ EntryDone(entry', blocks)
    BY <1>6, EntryInRange DEF Consumed, Moving, Working, IInv, UnderWay
  <2>2. Promised!Give
    BY <1>6, <2>1, EntryDoneGives
  <2>3. QED
    BY <2>2 DEF Promised!Next, Promised!Work
<1>7. CASE CopyEnds \/ CopyWarns \/ ReadEnds
  BY <1>6, <1>7 DEF CopyEnds, CopyWarns, ReadEnds, Moving, IInv, TypeOK
<1>8. CASE ReadSome
  <2>1. pc \in Moving /\ moved' \in Nat /\ UNCHANGED <<count, entry>>
    BY <1>8, EntryInRange DEF ReadSome, Moving, IInv, UnderWay, TypeOK
  <2>2. CASE EntryDone(entry, moved')
    BY <1>6, <2>1, <2>2
  <2>3. CASE UNCHANGED <<pc, op, result, process, handle, writer, extracted, unfinished>>
    BY <2>1, <2>3 DEF Promised!xvars, State, Consumed, Given
  <2>4. QED
    BY <1>8, <2>2, <2>3 DEF ReadSome
<1>9. CASE ReadWarns
  <2>1. CASE EntryDone(entry, moved)
    BY <1>6, <1>9, <2>1 DEF ReadWarns, Moving, IInv, TypeOK
  <2>2. CASE process' = "terminated" /\ UNCHANGED <<pc, op, result, handle, writer, extracted, unfinished>>
    <3>1. State \in Calls /\ State' = "over" /\ result' = "none"
      BY <1>9, <2>2 DEF ReadWarns, State, IInv, TypeOK, UnderWay, Working, Calls
    <3>2. Consumed' = Consumed /\ Given' = Given /\ Consumed <= count /\ UNCHANGED count
      BY <1>9, <2>2 DEF ReadWarns, Consumed, Given
    <3>3. Promised!Fail
      BY <3>1, <3>2 DEF Promised!Fail, Promised!Calls, Calls
    <3>4. QED
      BY <3>3 DEF Promised!Next, Promised!Work
  <2>3. QED
    BY <1>9, <2>1, <2>2 DEF ReadWarns
<1>10. CASE StatFails \/ Open
  <2>1. Promised!Construct
    BY <1>10 DEF StatFails, Open, Promised!Construct, State, Consumed, Given
  <2>2. QED
    BY <2>1 DEF Promised!Next
<1>11. CASE Destroy
  <2>1. Promised!Destroy
    BY <1>11 DEF Destroy, Promised!Destroy, State, Consumed, Given
  <2>2. QED
    BY <2>1 DEF Promised!Next
<1>12. ASSUME NEW o \in Calls, Begin(o) PROVE Promised!Next
  <2>1. Promised!Begin
    BY <1>12 DEF Begin, Promised!Begin, Promised!Calls, Calls, State, Consumed, Given
  <2>2. QED
    BY <2>1 DEF Promised!Next
<1>13. QED
  BY <1>2, <1>3, <1>4, <1>5, <1>7, <1>8, <1>9, <1>10, <1>11, <1>12 DEF Next, Step, Client, Calls

-----------------------------------------------------------------------------

(***************************************************************************)
(* Whatever codes libarchive answers with, and however little a read       *)
(* returns, an entry that a call reported as extracted has all its blocks, *)
(* unless a warning came during its data, these ended before the size of   *)
(* the header, or archive_write_finish_entry failed on it.                 *)
(***************************************************************************)
THEOREM ReportedEntriesAreWhole == Spec => []WholeUnlessWarned
<1>1. IInv => WholeUnlessWarned
  BY DEF IInv
<1>2. QED
  BY <1>1, Invariance, PTL

(***************************************************************************)
(* close runs in close_before_throw and in the destructor, and frees the   *)
(* read handle once between them, however the calls before it ended.       *)
(***************************************************************************)
THEOREM HandlesAreFreedOnce == Spec => []HandleFreedOnce
<1>1. IInv => HandleFreedOnce
  BY DEF IInv
<1>2. QED
  BY <1>1, Invariance, PTL

(***************************************************************************)
(* archive_decompress is an Extraction: entries are handed out in their    *)
(* order and none twice, a call tells the end only after the last, and one *)
(* that fails loses one entry at most.                                     *)
(***************************************************************************)
THEOREM ArchiveIsAnExtraction == Spec => ImplementsExtraction
BY InitPromised, StepPromised, Invariance, PTL DEF Spec, ImplementsExtraction, Promised!Spec
=============================================================================
