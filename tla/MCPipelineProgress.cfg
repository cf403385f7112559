SPECIFICATION FairSpec
CONSTANTS
  i1 = i1
  i2 = i2
  Intents <- TwoIntents
  Decodable <- TwoIntents
  Supported <- TwoIntents
  Checkable <- OneIntent
  Priceable <- OneIntent
  Faults <- NoFaults
  MaxAttempts = 3
  MaxStalls = 0
  MaxLosses = 0
  Workers = 1
INVARIANTS
  NotForgotten
PROPERTIES
  OwnSolveSticks
  VerdictReached
  FulfilledIsSolved
CHECK_DEADLOCK FALSE
