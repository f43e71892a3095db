CONSTANTS
  a = a
  b = b
  c = c
  d = d
  Task = {a, b, c, d}
  Graphs <- Shapes
  MayBreak = FALSE
  MayExpire = FALSE
SPECIFICATION Spec
INVARIANTS TriggeredAtIndegreeZero
CHECK_DEADLOCK FALSE
