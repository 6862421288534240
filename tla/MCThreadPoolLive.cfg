\* Two workers, one task that never returns and two that do.  No symmetry: the
\* properties are temporal.  The destructor really does hang on the endless
\* task, so TLC is not asked for the absence of deadlock.
CONSTANTS
  Workers = {w1, w2}
  Tasks = {t1, t2, t3}
  Endless = {t1}
  Rogue = {}
  Interrupted = {t2}
  NoTask = NoTask
  NoWorker = NoWorker
SPECIFICATION FairSpec
PROPERTIES
  ImplementsTaskPool
  ImplementsFairTaskPool
  ShutdownCompletes
CHECK_DEADLOCK FALSE
