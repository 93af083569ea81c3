SPECIFICATION Spec
CONSTANTS
  Clients = {c1}
  Callers = {k1, k2}
  Runs = {r1}
  EarlyDrop = FALSE
  MaxReports = 2
  MaxObjects = 3
INVARIANTS
  RegistryHoldsLocks
CHECK_DEADLOCK FALSE
