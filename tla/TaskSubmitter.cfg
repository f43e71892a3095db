CONSTANTS
  f1 = f1
  f2 = f2
  ra = ra
  rb = rb
  rc = rc
  rd = rd
  Key <- KeyOf
  Flusher = {f1, f2}
  Req = {ra, rb, rc, rd}
  Invalid = {rd}
  MaxQueue = 2
  Faults = {"tx", "indoubt", "redis"}
  MaxFaults = 1
SPECIFICATION FairSpec
INVARIANTS InOnePlace CommitThenPublish PublishedOnce
PROPERTIES EventuallyFlushed
\* the destructor may have returned
CHECK_DEADLOCK FALSE
