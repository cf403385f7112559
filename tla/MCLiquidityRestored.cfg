SPECIFICATION FairSpec
CONSTANTS
  a = a
  b = b
  c = c
  d = d
  Tokens <- FourTokens
  ChainOf <- Chains
  Target <- Targets
  Minimum <- Minimums
  Maximum <- Maximums
  Enough <- Enoughs
  Balances <- AnyBalances
  Faults <- NoFaults
  MaxLoss = 0
  MaxChecks = 1
  MaxSpends = 0
  MaxStalls = 1
  MaxDeaths = 0
PROPERTIES
  DeficitRestored
CHECK_DEADLOCK FALSE
