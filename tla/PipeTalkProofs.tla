--------------------------- MODULE PipeTalkProofs ---------------------------
(***************************************************************************)
(* For pipes of any capacity and a child that writes any number of chunks: *)
(* a read that returns less than it was asked for tells the truth.         *)
(***************************************************************************)
EXTENDS PipeTalk, TLAPS

\* Every variable has its type, and a pipe never holds more than it can.
TypeOK ==
  /\ child \in {"thinks", "ended"} \cup Streams
  /\ leaked \in BOOLEAN
  /\ sent \in [Streams -> Nat]
  /\ pipe \in [Streams -> 0 .. Capacity]
  /\ buffer \in Nat
  /\ op \in Reads \cup {"none", "wait", "crashed"} /\ size \in 0 .. MaxChunks + 1
  /\ short \in BOOLEAN

\* No chunk is made up: what is under way to the owner the child has written.
NothingMadeUp == pipe["output"] + buffer <= sent["output"]

IInv == TypeOK /\ NothingMadeUp /\ ShortMeansEnd

\* The inductive invariant holds when the child starts.
LEMMA InvInit == Init => IInv
<1> SUFFICES ASSUME Init PROVE IInv
  OBVIOUS
<1>1. pipe["output"] = 0 /\ sent["output"] = 0
  BY DEF Init, Streams
<1>2. leaked \in BOOLEAN /\ short \in BOOLEAN
  BY Zenon DEF Init
<1>3. TypeOK
  BY <1>2, PipeTalkAssumption DEF Init, TypeOK
<1>4. QED
  BY <1>1, <1>3 DEF Init, IInv, NothingMadeUp, ShortMeansEnd

\* Every step keeps the invariant.
LEMMA InvStep == IInv /\ [Next]_vars => IInv'
<1> SUFFICES ASSUME IInv, [Next]_vars PROVE IInv'
  OBVIOUS
<1> USE PipeTalkAssumption DEF IInv, TypeOK, NothingMadeUp, ShortMeansEnd
<1>1. ASSUME NEW s \in Streams, Choose(s) PROVE IInv'
  BY <1>1 DEF Choose, Streams
<1>2. ASSUME NEW s \in Streams, Write(s) PROVE IInv'
  BY <1>2 DEF Write, Streams
<1>3. CASE End \/ Killed
  BY <1>3 DEF End, Killed
<1>4. CASE HolderEnds
  BY <1>4 DEF HolderEnds
<1>5. ASSUME NEW o \in Reads, NEW n \in 1 .. MaxChunks + 1, Begin(o, n) PROVE IInv'
  BY <1>5 DEF Begin
<1>6. CASE Begin("wait", 0) \/ ErrReadCrashes
  BY <1>6 DEF Begin, ErrReadCrashes
<1>7. CASE Fill
  BY <1>7 DEF Fill, Streams
<1>8. CASE ReadReturns
  <2>1. Left \in 0 .. buffer
    BY DEF Left
  <2>2. TypeOK' /\ NothingMadeUp'
    BY <1>8, <2>1 DEF ReadReturns, Streams
  <2>3. buffer < size => pipe["output"] = 0 /\ child = "ended" /\ Left = 0
    BY <1>8 DEF ReadReturns, Enough, EndOfFile, Left
  <2>4. QED
    BY <1>8, <2>2, <2>3 DEF ReadReturns
<1>9. CASE WaitReturns \/ UNCHANGED vars
  BY <1>9 DEF WaitReturns, vars
<1>10. QED
  BY <1>1, <1>2, <1>3, <1>4, <1>5, <1>6, <1>7, <1>8, <1>9
     DEF Next, ChildStep, OwnerStep, Environment

(***************************************************************************)
(* A read that returned less than it was asked for has handed out the last *)
(* of the output: the child is over, and neither the pipe nor the FILE     *)
(* holds anything back.  It is what tells the end, since read says it in   *)
(* no other way.                                                           *)
(***************************************************************************)
THEOREM ShortReadsEnd == Spec => []ShortMeansEnd
<1>1. IInv => ShortMeansEnd
  BY DEF IInv
<1>2. QED
  BY <1>1, InvInit, InvStep, PTL DEF Spec
=============================================================================
