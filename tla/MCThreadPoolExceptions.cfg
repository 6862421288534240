\* One worker and one task that throws neither a std::exception nor what Boost
\* catches itself.
CONSTANTS
  Workers = {w1}
  Tasks = {t1}
  Endless = {}
  Rogue = {t1}
  Interrupted = {}
  NoTask = NoTask
  NoWorker = NoWorker
SPECIFICATION Spec
INVARIANTS
  AllExceptionsSuppressed
