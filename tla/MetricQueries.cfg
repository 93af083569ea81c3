SPECIFICATION Spec
CONSTANTS
  None = None
  m1 = m1
  Metrics = {m1}
  Callers = {c1, c2}
  Clocks = {1, 3}
  Batches <- McBatches
  FirstStores <- McFirstStores
  MaxAppends = 3
  MaxSessions = 2
  NaN <- McNaN
  Infinity <- McInfinity
  MinusInfinity <- McMinusInfinity
  MinusZero <- McMinusZero
  MantissaBits = 4
  IntBits = 7
  OverviewPoints <- McBounds
  DetailPoints <- McBounds
  Widths = {1, 6, 8}
  Viewports <- McViewports
  Limits = {1, 2, 4, 9}
  HitRadius = 1
SYMMETRY CallersAreAlike
INVARIANT TypeOK
INVARIANT SummariesAgree
INVARIANT LastReportWins
PROPERTY CompleteEvidenceIsFinal
INVARIANT ReductionKeepsShape
INVARIANT VerdictIgnoresWidth
INVARIANT DrawableIsDrawn
INVARIANT ViewportShowsTheCurve
INVARIANT RankingMatchesComparison
CHECK_DEADLOCK FALSE
