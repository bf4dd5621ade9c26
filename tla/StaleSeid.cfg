SPECIFICATION Spec
CONSTANTS
  s1 = s1
  Smfs <- MCSmfs
  MaxSeq = 5
  MaxCtx = 2
  MaxReports = 0
  MaxRetrans = 1
  MaxRestarts = 0
  WindowCovers = TRUE
  SlowRestart = TRUE
  UseAfterRelease = TRUE
  Nil = Nil
  NoAnswer = NoAnswer
INVARIANTS OwnSession
CHECK_DEADLOCK FALSE
