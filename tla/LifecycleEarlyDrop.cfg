SPECIFICATION Spec
CONSTANTS
  Clients = {c1}
  Callers = {k1}
  Runs = {r1, r2}
  EarlyDrop = TRUE
  MaxReports = 1
  MaxObjects = 2
SYMMETRY Symmetry
INVARIANTS
  SinglePipeline
CHECK_DEADLOCK FALSE
