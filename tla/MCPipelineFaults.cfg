SPECIFICATION Spec
CONSTANTS
  i1 = i1
  i2 = i2
  Intents <- OneIntent
  Decodable <- OneIntent
  Supported <- OneIntent
  Checkable <- OneIntent
  Priceable <- OneIntent
  Faults <- AllFaults
  MaxAttempts = 2
  MaxStalls = 1
  MaxLosses = 1
  Workers = 2
CONSTRAINT OneMishap
INVARIANTS
  TypeOK
  SolvedIsTruthful
  CauseRecorded
  RefusedNeverQueued
  SendsBounded
  IndInv
PROPERTIES
  NoSendAfterOwnReceipt
  NoSendOnceRejected
  OwnReceiptSticks
  ImplementsLifecycle
CHECK_DEADLOCK FALSE
