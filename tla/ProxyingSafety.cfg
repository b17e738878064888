\* Every operation, two threads, three calls that overlap in every way.
CONSTANTS
  Threads = {t1, t2}
  Calls = {c1, c2, c3}
  Kinds = {"async", "blocking", "blocking_ctx", "callback", "callback_ctx"}
  NoCall = NoCall
SYMMETRY Symmetry
SPECIFICATION Spec
INVARIANTS
  AliveWhileUsed
  LeaksOnlyUnrun
  BorrowsCovered
\* The program has nothing more to do once its calls are settled.
CHECK_DEADLOCK FALSE
