SPECIFICATION FairSpec
CONSTANTS
  Threads = {t1, t2}
  NoThread = NoThread
  Capacity = 1
  MaxBatch = 2
  MaxRetries = 1
  MaxReports = 1
PROPERTIES
  BoundedDrainReturns
  AdmittedSettles
  UnboundedDrainReturns
CHECK_DEADLOCK FALSE
