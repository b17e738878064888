\* Two tasks: one spawned by the other inside its poll, polls that suspend the
\* thread twice, and wakes from other threads, needed or not.
CONSTANTS
  t1 = t1
  t2 = t2
  Tasks <- TwoTasks
  Events = 1
  MaxSpurious = 2
  MaxSuspends = 2
SPECIFICATION Spec
INVARIANTS
  OnePoll
  NoForgottenTask
  NoLostWake
PROPERTIES
  PooledIsPolled
  WokenIsPolled
\* The thread may stop when every task is done.
CHECK_DEADLOCK FALSE
