SPECIFICATION FairSpec
CONSTANTS
  i1 = i1
  i2 = i2
  Intents <- OneIntent
  Decodable <- OneIntent
  Supported <- OneIntent
  Checkable <- OneIntent
  Priceable <- OneIntent
  Faults <- StoreFaults
  MaxAttempts = 2
  MaxStalls = 1
  MaxLosses = 1
  Workers = 1
PROPERTIES
  JobsSettle
CHECK_DEADLOCK FALSE
