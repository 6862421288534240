\* Three activations on two workers: two runs that overlap and a third that waits
\* for a worker.  A run whose answer was lost holds up the exit for ever, and a
\* channel may stay down, so deadlock is not checked.
CONSTANTS
  Workers = {w1, w2}
  MaxConnects = 3
  NoLoop = NoLoop
  Garbage = Garbage
SPECIFICATION FairSpec
INVARIANTS
  TypeOK
  AnswersBalance
  
  LoopsNeedWorkers
  LoopsEndBeforeExit
PROPERTIES
  KeepsReporting
  OnlyLoopsBlockExit
CHECK_DEADLOCK FALSE
