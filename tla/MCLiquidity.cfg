SPECIFICATION Spec
CONSTANTS
  a = a
  b = b
  c = c
  d = d
  Tokens <- FourTokens
  ChainOf <- Chains
  Target <- Targets
  Minimum <- Minimums
  Maximum <- Maximums
  Enough <- Enoughs
  Balances <- FewBalances
  Faults <- AllFaults
  MaxLoss = 1
  MaxChecks = 2
  MaxSpends = 1
  MaxStalls = 1
  MaxDeaths = 1
INVARIANTS
  TypeOK
  PlanWithinSurplus
  LessThanTwice
  BringsEnough
  PaidOncePerLife
  IndInv
PROPERTIES
  NeverDrained
CHECK_DEADLOCK FALSE
