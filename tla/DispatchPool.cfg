CONSTANTS
  p1 = p1
  p2 = p2
  j1 = j1
  j2 = j2
  c1 = c1
  NoJob = NoJob
  Thread = {p1, p2}
  Job = {j1, j2}
  Other = {c1}
  Size = 2
  MaxCalls = 1
  MaxOutages = 1
SPECIFICATION FairPoolSpec
INVARIANTS Drained Conserved NoWakeupLost
PROPERTIES EveryoneReturns
\* the destructor may have returned, or calls may wait forever
CHECK_DEADLOCK FALSE
