SPECIFICATION Spec
CONSTANTS
  Clients = {c1, c2}
  Callers = {k1}
  Runs = {r1}
  EarlyDrop = FALSE
  MaxReports = 1
  MaxObjects = 3
SYMMETRY Symmetry
INVARIANTS
  TypeOK
  SinglePipeline
  UnfinishedIsHeld
PROPERTIES
  TerminalMeansDrained
  TerminalMeansSummarized
CHECK_DEADLOCK FALSE
