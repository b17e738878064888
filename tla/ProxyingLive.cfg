\* The operations without a Context; a chain of waits passes through three threads.
CONSTANTS
  Threads = {t1, t2, t3}
  Calls = {c1, c2}
  Kinds = {"blocking", "callback"}
  NoCall = NoCall
SPECIFICATION Spec
PROPERTIES
  BlockedReturns
  IsAnswered
CHECK_DEADLOCK FALSE
