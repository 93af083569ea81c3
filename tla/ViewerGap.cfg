SPECIFICATION Spec
CONSTANTS
  None = None
  p1 = p1
  r1 = r1
  r2 = r2
  m1 = m1
  Projects = {p1}
  Runs = {r1, r2}
  Metrics = {m1}
  MinSpan = 1
  Stores <- McSparseStores
  FirstStore <- McSparseStore
  MaxSelectedRuns = 2
  Filters <- McFilters
  MaxInputs = 5
  MaxMishaps = 0
INVARIANT DragsAreCommitted
CHECK_DEADLOCK FALSE
