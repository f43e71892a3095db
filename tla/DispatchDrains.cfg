CONSTANTS
  s1 = s1
  s2 = s2
  w1 = w1
  Sched = {s1}
  Worker = {w1}
  NMsg = 2
  Malformed = {}
  BatchSize = 2
  RescueBatch = 1
  MaxInflight = 4
  Faults = {"rpc", "read", "sched", "throw"}
  MaxFaults = 2
  IdleCap = 0
SPECIFICATION FairSpec
PROPERTIES StreamDrains ZeroLoss
