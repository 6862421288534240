\* Up to three chunks to each of two pipes that hold two.  The owner may be
\* stuck with its child for ever: deadlock is not checked.
CONSTANTS
  Capacity = 2
  MaxChunks = 3
SPECIFICATION Spec
INVARIANTS
  ShortMeansEnd
PROPERTIES
  ReadsEnd
  WaitEnds
CHECK_DEADLOCK FALSE
