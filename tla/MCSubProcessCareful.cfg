\* Three objects on two pids, so that the pid of one comes back as the pid of
\* another; one of the children leads a session.
CONSTANTS
  Objects = {o1, o2, o3}
  Leaders = {o1}
  Pids <- TwoPids
  Codes <- TwoCodes
  NoObject = NoObject
  MaxStarts <- OnceEach
  Careful = TRUE
SPECIFICATION FairSpec
INVARIANTS
  AnswersAreTrue
  NoZombieLeft
PROPERTIES
  KillsItsOwn
  WaitEndsWithChild
CHECK_DEADLOCK FALSE
