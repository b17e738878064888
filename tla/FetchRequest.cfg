\* Two requests, of which one may take the handle that the other freed.
CONSTANTS
  r1 = r1
  r2 = r2
  Requests <- TwoRequests
  Handles <- TwoHandles
  Durations <- SomeDurations
  PerMilli = 2
  MaxU64 = 4
  MaxDelay = 2
SPECIFICATION Spec
INVARIANTS
  BoxPerPromise
  HandlesOwned
PROPERTIES
  TimeoutEndsIt
\* Every request has returned, was dropped, or waits for a server.
CHECK_DEADLOCK FALSE
