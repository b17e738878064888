\* 5-bit integers, and years on both sides of 100 and of three cycles below it.
CONSTANTS
  IntMax = 15
  Durations <- UpToFourPieces
  Years <- ThreeCycles
SPECIFICATION ConversionsSpec
INVARIANTS
  JsGetsWhatWasAsked
