SPECIFICATION Spec
CONSTANTS
  i1 = i1
  i2 = i2
  i3 = i3
  Intents <- TwoIntents
  Supported <- TwoIntents
  Faults <- NoFaults
  MaxHeight = 2
  MaxLogs = 2
  MaxDeaths = 0
  MaxErrors = 0
INVARIANTS
  EndedIsRecorded
CHECK_DEADLOCK FALSE
