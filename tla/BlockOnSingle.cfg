\* One call at a time: safety, liveness and the implementation of Parker.
CONSTANTS
  Futures = {f1, f2}
  Events = 2
  MaxDepth = 1
  MaxSpurious = 3
SPECIFICATION Spec
INVARIANTS
  LeakBound
PROPERTIES
  ImplementsParker
\* The thread may stop when every future was driven to its end.
CHECK_DEADLOCK FALSE
