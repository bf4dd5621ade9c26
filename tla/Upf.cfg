SPECIFICATION Spec
CONSTANTS
  s1 = s1
  Smfs <- MCSmfs
  MaxSeq = 4
  MaxCtx = 2
  MaxReports = 1
  MaxRetrans = 1
  MaxRestarts = 1
  WindowCovers = TRUE
  SlowRestart = TRUE
  UseAfterRelease = FALSE
  Nil = Nil
  NoAnswer = NoAnswer
PROPERTIES SeidsPooled
INVARIANTS TypeOK SeidTable AtMostOnce OwnSession ContextsServed CleanStart
CHECK_DEADLOCK FALSE
