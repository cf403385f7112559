SPECIFICATION Spec
CONSTANTS
  i1 = i1
  i2 = i2
  Intents <- OneIntent
  Decodable <- OneIntent
  Supported <- OneIntent
  Checkable <- OneIntent
  Priceable <- OneIntent
  Faults <- CallFaults
  MaxAttempts = 3
  MaxStalls = 1
  MaxLosses = 0
  Workers = 1
INVARIANTS
  RecordedIsEnqueued
CHECK_DEADLOCK FALSE
