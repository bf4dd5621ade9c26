SPECIFICATION Spec
CONSTANTS
  s1 = s1
  s2 = s2
  p1 = p1
  p2 = p2
  t1 = t1
  t2 = t2
  Seids <- MCSeids
  Periods <- MCPeriods
  Tickers <- MCTickers
  Urrs <- MCUrrs
  EvtLen = 4
  ReportLen = 1
  OnePerPeriod = TRUE
  SlowTicks = TRUE
  FewRequests = TRUE
  None = None
INVARIANTS TypeOK GroupsCurrent OneTicker
PROPERTIES MainGetsThrough Reported
