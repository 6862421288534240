----------------------------- MODULE CrowProofs -----------------------------
(***************************************************************************)
(* For counters of any width and any number of ticks: what Crow reports of *)
(* them is a percentage, and counts no tick twice.                         *)
(***************************************************************************)
EXTENDS Crow, TLAPS

\* What the reports are made of; a total of nothing is never the divisor.
TypeOK ==
  /\ crow \in {"none", "live", "terminated"}
  /\ kernel \in [Counters -> 0 .. MaxCount] /\ last \in [Counters -> 0 .. MaxCount]
  /\ ticks \in Nat /\ counted \in Nat

\* By how much a counter is ahead of the last sample, or behind it.
Ahead(c) == kernel[c] - last[c]

TotalAhead == Ahead("user") + Ahead("user_low") + Ahead("sys") + Ahead("idle")

IInv ==
  /\ TypeOK
  /\ PercentInRange
  /\ TicksCountedOnce
  /\ counted + TotalAhead <= ticks

-----------------------------------------------------------------------------
(* The arithmetic of uint64_t *)

\* What is below the modulus is its own remainder.
LEMMA SmallModulo ==
  ASSUME NEW m \in Nat, NEW a \in Nat, a < m
  PROVE  a % m = a
OBVIOUS

\* The difference of a counter that has not gone back is what uint64_t makes of it.
LEMMA DifferenceModulo ==
  ASSUME NEW m \in Nat, NEW a \in Nat, NEW b \in Nat, b <= a, a < m
  PROVE  (a + m - b) % m = a - b
OBVIOUS

\* When no counter went back, the sums are those of the plain differences: what
\* is added to every difference before the modulus is taken never shows.
LEMMA SincesAreDifferences ==
  ASSUME TypeOK, ~WentBack
  PROVE  /\ BusySince = Ahead("user") + Ahead("user_low") + Ahead("sys")
         /\ TotalSince = TotalAhead
         /\ TotalSince \in Nat /\ BusySince \in 0 .. TotalSince
<1>1. \A c \in Counters : /\ kernel[c] \in 0 .. MaxCount /\ last[c] \in 0 .. MaxCount
                          /\ last[c] <= kernel[c]
  BY DEF TypeOK, WentBack
<1>2. \A c \in Counters : Since(c) = Ahead(c) /\ Ahead(c) \in 0 .. MaxCount
  BY <1>1, CrowAssumption, DifferenceModulo DEF Since, Ahead
<1>3. BusySince = Ahead("user") + Ahead("user_low") + Ahead("sys")
  <2> DEFINE busy == Since("user") + Since("user_low") + Since("sys")
  <2>1. busy \in Nat /\ busy < Modulus /\ Modulus \in Nat
    BY <1>2, CrowAssumption DEF Counters
  <2>2. busy % Modulus = busy
    BY <2>1, SmallModulo
  <2>3. QED
    BY <1>2, <2>2 DEF BusySince, Counters
<1>4. TotalSince = TotalAhead
  BY <1>2, <1>3, CrowAssumption, SmallModulo DEF TotalSince, TotalAhead, Counters
<1>5. QED
  BY <1>2, <1>3, <1>4, CrowAssumption DEF TotalAhead, Counters

-----------------------------------------------------------------------------
(* The inductive invariant *)

\* The inductive invariant holds before the first sample.
LEMMA InvInit == Init => IInv
<1> SUFFICES ASSUME Init PROVE IInv
  OBVIOUS
<1>1. \A c \in Counters : kernel[c] \in 0 .. MaxCount /\ last[c] = kernel[c]
  BY DEF Init
<1>2. TotalAhead = 0
  BY <1>1 DEF TotalAhead, Ahead, Counters
<1>3. QED
  BY <1>2, CrowAssumption DEF Init, IInv, TypeOK, PercentInRange, TicksCountedOnce, NoTime, Unknown

\* Every step keeps the invariant.
LEMMA InvStep == IInv /\ [Next]_vars => IInv'
<1> SUFFICES ASSUME IInv, [Next]_vars PROVE IInv'
  OBVIOUS
<1> USE CrowAssumption DEF IInv
<1>1. ASSUME NEW c \in Counters, Forward(c) PROVE IInv'
  <2>1. TypeOK' /\ PercentInRange' /\ ticks' = ticks + 1 /\ counted' = counted
    BY <1>1 DEF Forward, TypeOK, PercentInRange
  <2>2. TotalAhead' = TotalAhead + 1
    BY <1>1 DEF Forward, TypeOK, TotalAhead, Ahead, Counters
  <2>3. QED
    BY <2>1, <2>2 DEF TypeOK, TicksCountedOnce, TotalAhead, Ahead, Counters
<1>2. ASSUME NEW c \in Counters, Back(c) PROVE IInv'
  <2>1. TypeOK' /\ PercentInRange' /\ TicksCountedOnce' /\ UNCHANGED <<ticks, counted>>
    BY <1>2 DEF Back, TypeOK, PercentInRange, TicksCountedOnce
  <2>2. TotalAhead' = TotalAhead - 1
    BY <1>2 DEF Back, TypeOK, TotalAhead, Ahead, Counters
  <2>3. QED
    BY <2>1, <2>2 DEF TypeOK, TotalAhead, Ahead, Counters
<1>3. CASE _init
  <2>1. TypeOK' /\ PercentInRange' /\ TicksCountedOnce' /\ ticks' = 0 /\ counted' = 0
    BY <1>3 DEF _init, TypeOK, PercentInRange, TicksCountedOnce, NoTime, Unknown
  <2>2. TotalAhead' = 0
    BY <1>3 DEF _init, TypeOK, TotalAhead, Ahead, Counters
  <2>3. QED
    BY <2>1, <2>2
<1>4. CASE collection
  <2>1. TypeOK' /\ UNCHANGED ticks /\ TotalAhead' = 0
    <3>1. CASE WentBack
      BY <1>4, <3>1 DEF collection, _c_cpu, _c_disk, Remembered, TypeOK, TotalAhead, Ahead, Counters
    <3>2. CASE ~WentBack
      BY <1>4, <3>2, SincesAreDifferences
         DEF collection, _c_cpu, _c_disk, Remembered, TypeOK, TotalAhead, Ahead, Counters
    <3>3. QED
      BY <3>1, <3>2
  <2>2. CASE WentBack
    BY <1>4, <2>1, <2>2
       DEF collection, _c_cpu, TypeOK, PercentInRange, TicksCountedOnce, Unknown
  <2>3. CASE ~WentBack
    <3>1. cpu' = [busy |-> BusySince, of |-> Divisor(TotalSince)]
      BY <1>4, <2>3 DEF collection, _c_cpu
    <3>2. counted' = counted + TotalAhead
      BY <1>4, <2>3, SincesAreDifferences DEF collection, _c_cpu
    <3>3. PercentInRange'
      BY <2>3, <3>1, SincesAreDifferences DEF PercentInRange, Divisor
    <3>4. QED
      BY <2>1, <3>2, <3>3 DEF TypeOK, TicksCountedOnce
  <2>4. QED
    BY <2>2, <2>3
<1>5. CASE Unreadable \/ Destroy \/ UNCHANGED vars
  BY <1>5 DEF Unreadable, Destroy, vars, TypeOK, PercentInRange, TicksCountedOnce, TotalAhead, Ahead
<1>6. QED
  BY <1>1, <1>2, <1>3, <1>4, <1>5 DEF Next

\* The invariant holds always.
LEMMA Invariance == Spec => []IInv
BY InvInit, InvStep, PTL DEF Spec

(***************************************************************************)
(* _c_cpu's subtractions never wrap around and its quotient is between 0   *)
(* and 1, whatever the kernel's counters do between two samples, as long   *)
(* as they do not themselves come near the width of uint64_t.              *)
(***************************************************************************)
THEOREM PercentagesAreInRange == Spec => []PercentInRange
<1>1. IInv => PercentInRange
  BY DEF IInv
<1>2. QED
  BY <1>1, Invariance, PTL

(***************************************************************************)
(* No tick is in two reports, nor in one before it has gone by, even when  *)
(* some counter goes back and a report is given up for it.                 *)
(***************************************************************************)
THEOREM TicksAreCountedOnce == Spec => []TicksCountedOnce
<1>1. IInv => TicksCountedOnce
  BY DEF IInv
<1>2. QED
  BY <1>1, Invariance, PTL
=============================================================================
