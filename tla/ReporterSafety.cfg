SPECIFICATION Spec
CONSTANTS
  Threads = {t1, t2}
  NoThread = NoThread
  Capacity = 1
  MaxBatch = 2
  MaxRetries = 1
  MaxReports = 3
INVARIANTS
  TypeOK
  DrainedMeansStored
  WriteOrderKept
  PendingCoversUnstored
  CountsBalance
  NoSilentLoss
PROPERTIES
  ImplementsLog
CHECK_DEADLOCK FALSE
