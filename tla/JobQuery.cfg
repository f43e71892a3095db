SPECIFICATION JobFairSpec
CONSTANTS
  t1 = t1
  t2 = t2
  Task = {t1, t2}
  MaxOps = 3
  BatchSize = 2
  MaxFailures = 1
INVARIANTS InOrder Drained AnswerTrue
PROPERTIES NewerBatchesWin StopReturns SeenInTheEnd
\* Stop() may have returned
CHECK_DEADLOCK FALSE
