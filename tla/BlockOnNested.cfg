\* Calls inside the poll of another call and inside callbacks.
CONSTANTS
  Futures = {f1, f2, f3}
  Events = 1
  MaxDepth = 3
  MaxSpurious = 1
SPECIFICATION Spec
INVARIANTS
  ChainReachesCurrent
  NoLostWake
PROPERTIES
  ReturnsUnlessOvertaken
CHECK_DEADLOCK FALSE
