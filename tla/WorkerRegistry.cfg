CONSTANTS
  w1 = w1
  w2 = w2
  Worker = {w1, w2}
  Timeout = 2
  MaxLoad = 2
  MaxFaults = 3
SPECIFICATION FairSpec
INVARIANTS TypeOK HealedAfterOneRound
PROPERTIES DeadIsForgotten
