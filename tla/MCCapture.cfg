SPECIFICATION FairSpec
CONSTANTS
  i1 = i1
  i2 = i2
  i3 = i3
  Intents <- ThreeIntents
  Supported <- TwoIntents
  Faults <- AllFaults
  MaxHeight = 2
  MaxLogs = 2
  MaxDeaths = 1
  MaxErrors = 1
INVARIANTS
  TypeOK
  TailCovered
PROPERTIES
  WatchedIsQueued
CHECK_DEADLOCK FALSE
