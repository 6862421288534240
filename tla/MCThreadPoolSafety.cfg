\* Three workers and four tasks: more tasks than workers, so that tasks queue up
\* while every worker runs, and two workers can sleep while one is on its way.
CONSTANTS
  Workers = {w1, w2, w3}
  Tasks = {t1, t2, t3, t4}
  Endless = {}
  Rogue = {t1}
  Interrupted = {t1, t2}
  NoTask = NoTask
  NoWorker = NoWorker
SPECIFICATION Spec
SYMMETRY Symmetry
INVARIANTS
  TypeOK
  NothingLost
  RunsAtMostOnce
  WakeupAccounted
  ThreadsOutliveUse
