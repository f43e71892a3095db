CONSTANTS
  f1 = f1
  f2 = f2
  ra = ra
  rb = rb
  rc = rc
  rd = rd
  Key <- KeyOf
  Flusher = {f1, f2}
  Req = {ra, rb}
  Invalid = {}
  MaxQueue = 2
  Faults = {}
  MaxFaults = 0
SPECIFICATION Spec
INVARIANTS RepeatIsHarmless
\* the destructor may have returned
CHECK_DEADLOCK FALSE
