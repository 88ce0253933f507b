SPECIFICATION Spec
CONSTANTS
  Texts <- SomeTexts
  MaxChunk = 2
  Threshold = 1
  Tokens <- SomeTokens
  MaxMoves = 4
INVARIANTS PacingIsInvisible IdleClockRuns CaptureIsTheText
CHECK_DEADLOCK FALSE
