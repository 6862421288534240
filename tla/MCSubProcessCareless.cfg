\* Two objects that are used in any order whatever: unstarted, restarted, polled
\* twice, killed after their end.  When every child is reaped and the starts
\* are used up nothing need be left to do, so deadlock is not checked.  The view
\* leaves out what is recorded for the properties of careful callers.
CONSTANTS
  Objects = {o1, o2}
  Leaders = {}
  Pids <- TwoPids
  Codes <- OneCode
  NoObject = NoObject
  MaxStarts <- OneTwice
  Careful = FALSE
SPECIFICATION Spec
INVARIANTS
  TypeOK
  ChildrenAreKnown
PROPERTIES
  ReturnCodeSticks
VIEW CarelessView
CHECK_DEADLOCK FALSE
