CONSTANTS
  a = a
  b = b
  c = c
  d = d
  Task = {a, b, c, d}
  Graphs <- Checked
  Submitted <- Shapes
  MayBreak = TRUE
  MayExpire = TRUE
SPECIFICATION FairClientSpec
INVARIANTS TypeOK AtMostOnce ParentsFirst CounterExact NoSilentStall
PROPERTIES VerdictExact JobRunsOut Implements
\* the job stops when it has run out
CHECK_DEADLOCK FALSE
