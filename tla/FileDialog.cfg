\* One file is loaded while two calls save: the listener of a dismissed dialog
\* can be at work during the second.
CONSTANTS
  r1 = r1
  Requests <- OneRequest
  MaxCalls = 2
SPECIFICATION Spec
INVARIANTS
  LeaksAreKnown
  AnswerTells
PROPERTIES
  FirstEventDecides
  CallReturns
CHECK_DEADLOCK FALSE
