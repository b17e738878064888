\* Swap intervals up to 3, so that a frame can be skipped twice in a row.
CONSTANTS
  MaxDelay = 3
  MaxBlockers = 2
  Timings = {"timeout", "raf2"}
SPECIFICATION Spec
INVARIANTS
  EveryNthFrame
  FramesWhileAlive
  TimingSetOnce
PROPERTIES
  EndsForAReason
  CancelledReturns
