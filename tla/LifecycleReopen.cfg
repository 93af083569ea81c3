SPECIFICATION Spec
CONSTANTS
  Clients = {c1}
  Callers = {k1, k2}
  Runs = {r1}
  EarlyDrop = FALSE
  MaxReports = 1
  MaxObjects = 2
SYMMETRY Symmetry
INVARIANTS
  ClosedStaysClosed
CHECK_DEADLOCK FALSE
