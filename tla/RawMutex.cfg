\* Three threads: a woken one finds that another was faster, while a third waits.
CONSTANTS
  t1 = t1
  t2 = t2
  t3 = t3
  Threads <- ThreeThreads
SPECIFICATION Spec
INVARIANTS
  StrandedOnlyIfMissed
PROPERTIES
  BothExclude
  QueuedIsWoken
