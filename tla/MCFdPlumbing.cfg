\* A program with one option and a function that closes everything with two, so
\* that one of them can replace what the other has opened.
CONSTANTS
  Objects = {o1, o2}
  Programs = {o1}
  Closers = {o2}
  Parent = Parent
  Nothing = Nothing
  MaxFd = 8
  MaxOptions <- OneThenTwo
SPECIFICATION Spec
INVARIANTS
  TypeOK
  OneOwner
  StreamsAsAsked
  PipesAreJoined
  ProgramsLeakInWindow
PROPERTIES
  NumbersStayTrue
CHECK_DEADLOCK FALSE
