SPECIFICATION FairSpec
CONSTANTS
  r1 = r1
  k1 = k1
  Call = {r1, k1}
  Web = {r1}
  MethodOf <- MCMethodOf
  Method = {"SubmitDag", "GetJobStatus"}
  Cq = {"q1"}
  InitialContexts = 1
INVARIANTS TagsLive CapacityKept AnswersTrue NoEventLeft
PROPERTIES EveryRequestAnswered BothStop
\* Both processes stop, and nobody has to send a request.
CHECK_DEADLOCK FALSE
