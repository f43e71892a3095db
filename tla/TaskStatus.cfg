CONSTANTS
  t1 = t1
  Task = {t1}
  MaxRetry = 1
  MaxAttempts = 2
  Faults = {"rpc", "lost", "lua", "tx", "xadd", "flush", "crash"}
  MaxFaults = 2
SPECIFICATION Spec
INVARIANTS MessagesWithinBudget FailedTriggersNothing 
\* every task may have ended
CHECK_DEADLOCK FALSE
