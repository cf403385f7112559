CONSTANTS
  Pods = {p, q}
  Chains = {a, b}
  Used = {a}
  Interval = 0
  Faults = {"rpc", "db", "crash"}
  MaxTime = 2
  MaxStarts = 3
  MaxStalls = 1
  MaxCount = 1
  MaxHanded = 2
SPECIFICATION FairSpec
INVARIANTS TypeOK HandedOnce EndedIsRenewed
PROPERTIES DueIsSynced
CHECK_DEADLOCK FALSE
