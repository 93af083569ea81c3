SPECIFICATION SessionSpec
CONSTANTS
  None = None
  m1 = m1
  Clocks = {1}
  Callers = {1}
  Batches <- McBatches
  FirstStores <- McFirstStores
  MaxAppends = 2
  MaxSessions = 4
  Calls = {1, 2}
  Creators = {1, 2}
  PageSize = 1
  Openings <- McOpenings
  MaxOpenings = 2
  MinusInfinity <- McMinusInfinity
  Infinity = 8
  NaN = 9
INVARIANT FlushReportsAreTrue
INVARIANT SessionFindsItsStore
INVARIANT WalkMissesNoRun
PROPERTY EveryFlushReturns
PROPERTY DeadlineEndsTheWait
CHECK_DEADLOCK FALSE
