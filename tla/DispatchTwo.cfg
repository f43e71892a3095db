CONSTANTS
  s1 = s1
  s2 = s2
  w1 = w1
  Sched = {s1, s2}
  Worker = {w1}
  NMsg = 2
  Malformed = {1}
  BatchSize = 2
  RescueBatch = 1
  MaxInflight = 0
  Faults = {"rpc", "xack", "read", "ttl", "sched", "worker", "swallow", "report"}
  MaxFaults = 1
  IdleCap = 2
SYMMETRY Symm
SPECIFICATION Spec
INVARIANTS InflightExact PoolBounded NoMessageDropped OneCopyPerIdlePeriod
