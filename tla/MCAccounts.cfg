SPECIFICATION Spec
CONSTANTS
  p = p
  q = q
  a = a
  f = f
  l = l
  Pods = {p, q}
  Hooks = {a}
  Jobs = {f, l}
  PodOf <- MCPodOf
  V2 = {l}
  Faults = {"rpc", "stale", "lost", "timeout", "store", "crash", "revert", "replace"}
  MaxAttempts = 2
  MaxStarts = 3
  MaxFaults = 1
INVARIANTS
  TypeOK
  OncePerJob
PROPERTIES
  ExecutesDeployed
CHECK_DEADLOCK FALSE
