SPECIFICATION Spec
CONSTANTS
  Clients = {c1, c2}
  Callers = {k1}
  Runs = {r1}
  EarlyDrop = FALSE
  MaxReports = 1
  MaxObjects = 2
SYMMETRY Symmetry
PROPERTIES
  TerminalAdmitsNothing
CHECK_DEADLOCK FALSE
