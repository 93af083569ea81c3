SPECIFICATION FairSpec
CONSTANTS
  Threads = {t1}
  NoThread = NoThread
  Capacity = 1
  MaxBatch = 1
  MaxRetries = 0
  MaxReports = 2
PROPERTIES
  UnboundedShutdownReturns
CHECK_DEADLOCK FALSE
