-------------------------------- MODULE Crow --------------------------------
(***************************************************************************)
(* utils/crow: the share of processor time spent busy, from two samples of *)
(* the kernel's counters, and the figures of the disk.  One crow at a time *)
(* is modelled: main_loop makes one for each report.                       *)
(***************************************************************************)
EXTENDS Integers

CONSTANTS
  Modulus,    \* 2^64, the width of uint64_t
  MaxCount,   \* bound: how far a counter gets
  MaxTicks    \* bound: how often counters go forward in the life of a crow

\* The counters that are read; the first three are those of busy time.
Counters == {"user", "user_low", "sys", "idle"}

ASSUME CrowAssumption ==
  /\ {Modulus, MaxCount, MaxTicks} \subseteq Nat
  /\ 4 * MaxCount < Modulus

VARIABLES
  crow,      \* "none", "live", or "terminated" with its process
  kernel,    \* the counters of /proc/stat
  last,      \* cpu_last_total_*: the sample before
  cpu,       \* cpu_percent / 100 as a quotient, or Unknown (-1.0)
  disk,      \* the disk_* members are "unset" or "read"
  ticks,     \* history: how often counters went forward since the constructor
  counted    \* history: the ticks that reports were made of

vars == <<crow, kernel, last, cpu, disk, ticks, counted>>

Unknown == [busy |-> -1, of |-> 1]
NoTime == [busy |-> 0, of |-> 1]

Init ==
  /\ crow = "none"
  /\ kernel \in [Counters -> 0 .. MaxCount]
  /\ last = kernel /\ cpu = NoTime /\ disk = "unset"
  /\ ticks = 0 /\ counted = 0

Forward(c) ==
  /\ kernel[c] < MaxCount /\ ticks < MaxTicks
  /\ kernel' = [kernel EXCEPT ![c] = @ + 1]
  /\ ticks' = ticks + 1
  /\ UNCHANGED <<crow, last, cpu, disk, counted>>

\* A counter does go back at times, when the kernel corrects its accounting.
Back(c) ==
  /\ kernel[c] > 0
  /\ kernel' = [kernel EXCEPT ![c] = @ - 1]
  /\ UNCHANGED <<crow, last, cpu, disk, ticks, counted>>

_init ==
  /\ crow = "none"
  /\ crow' = "live"
  /\ last' = kernel /\ cpu' = NoTime /\ disk' = "unset"
  /\ ticks' = 0 /\ counted' = 0
  /\ UNCHANGED kernel

\* /proc/stat cannot be opened, and fscanf is given a null pointer.
Unreadable ==
  /\ crow \in {"none", "live"}
  /\ crow' = "terminated"
  /\ UNCHANGED <<kernel, last, cpu, disk, ticks, counted>>

\* Mutant: only the counter of idle time is known to go back.
WentBack_IdleOnly == kernel["idle"] < last["idle"]

WentBack == \E c \in Counters : kernel[c] < last[c]

\* The ticks of a counter since the last sample, and of the counters of busy
\* time and of all, in the arithmetic of uint64_t.
Since(c) == (kernel[c] + Modulus - last[c]) % Modulus
BusySince == (Since("user") + Since("user_low") + Since("sys")) % Modulus
TotalSince == (BusySince + Since("idle")) % Modulus

Divisor(total) == IF total = 0 THEN 1 ELSE total

\* Mutant: the sample before is that of the constructor.
Remembered_First == last

Remembered == kernel

_c_cpu ==
  /\ IF WentBack
       THEN cpu' = Unknown /\ UNCHANGED counted
       ELSE /\ cpu' = [busy |-> BusySince, of |-> Divisor(TotalSince)]
            /\ counted' = counted + TotalSince
  /\ last' = Remembered

\* If statvfs fails the members stay what they are.
_c_disk == disk' \in {disk, "read"}

\* The figures are taken and handed out; _c_memory needs none of those before.
collection ==
  /\ crow = "live"
  /\ _c_cpu
  /\ _c_disk
  /\ UNCHANGED <<crow, kernel, ticks>>

Destroy ==
  /\ crow = "live"
  /\ crow' = "none"
  /\ UNCHANGED <<kernel, last, cpu, disk, ticks, counted>>

Next ==
  \/ \E c \in Counters : Forward(c) \/ Back(c)
  \/ _init
  \/ Unreadable
  \/ collection
  \/ Destroy

Spec == Init /\ [][Next]_vars

-----------------------------------------------------------------------------
(* Properties *)

\* However the counters jump, or if none has moved, a percentage is between 0
\* and 100 or is -1.0: no difference of two samples wraps around, and nothing is
\* divided by zero.
PercentInRange == cpu # Unknown => cpu.of > 0 /\ cpu.busy \in 0 .. cpu.of

\* The reports of one crow share out the ticks of its life: none is in two of
\* them, also when a counter went back in between.
TicksCountedOnce == counted <= ticks
=============================================================================
