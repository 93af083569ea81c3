SPECIFICATION Spec
CONSTANTS
  None = None
  p1 = p1
  r1 = r1
  r2 = r2
  m1 = m1
  Projects = {p1}
  Runs = {r1, r2}
  Metrics = {m1}
  MinSpan = 2
  Stores <- McStores
  FirstStore <- McFirstStore
  MaxSelectedRuns = 2
  Filters <- McFilters
  MaxInputs = 5
  MaxMishaps = 1
INVARIANT TypeOK
INVARIANT ExpectedIsOnItsWay
INVARIANT CurvesMatchSelection
INVARIANT SelectionIsOffered
INVARIANT CachesAreCurrent
INVARIANT BrushFitsOverview
INVARIANT QuietShowsSelection
PROPERTY ReadsAreLatest
PROPERTY ComesToRest
CHECK_DEADLOCK FALSE
