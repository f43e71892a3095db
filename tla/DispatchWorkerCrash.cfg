CONSTANTS
  s1 = s1
  s2 = s2
  w1 = w1
  Sched = {s1}
  Worker = {w1}
  NMsg = 1
  Malformed = {}
  BatchSize = 1
  RescueBatch = 1
  MaxInflight = 1
  Faults = {"worker"}
  MaxFaults = 1
  IdleCap = 0
SPECIFICATION FairSpec
PROPERTIES ZeroLoss
