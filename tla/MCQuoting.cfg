SPECIFICATION Spec
CONSTANTS
  a = a
  b = b
  x = x
  w = w
  u = u
  m = m
  s = s
  base = base
  op = op
  main = main
  sepolia = sepolia
  side = side
  hyper = hyper
  storage = storage
  other = other
  Chains <- MCChains
  Mainnet = main
  Sepolia = sepolia
  Tokens <- MCTokens
  ChainOf <- MCChainOf
  Solvers = {base, op}
  Linear = {base, op}
  Targets = {a, b, u}
  Sources = {base, main, side}
  Accepted = {a, b, x, w, m, s}
  SixDecimals = {a, b, x, u, m, s}
  Provers = {hyper, storage, other}
  SupportedProvers <- MCSupportedProvers
  ProofDuration <- MCProofDuration
  MinBalance <- MCMinBalance
  Unit = 1
  BaseFee <- MCFee
  Per100UnitFee <- MCFee
  Hundred = 3
  Requests <- MCRequests
  Hyperlane = {hyper}
  Batch = FALSE
  Balances <- MCBalances
  Faults = {"rpc", "db"}
  MaxTime = 1
  MaxChanges = 1
INVARIANTS
  TypeOK
  BooksOK
  DeficitsFirst
  QuoteHonoured
  NoLoss
CHECK_DEADLOCK FALSE
