\* Counters up to 2 that go forward four times; 16 stands for 2^64.  A process
\* that is terminated has nothing left to do: deadlock is not checked.
CONSTANTS
  Modulus = 16
  MaxCount = 2
  MaxTicks = 4
SPECIFICATION Spec
INVARIANTS
  PercentInRange
  TicksCountedOnce
CHECK_DEADLOCK FALSE
