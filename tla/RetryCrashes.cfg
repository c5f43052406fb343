SPECIFICATION FairSpec
CONSTANTS
  m1 = m1
  m2 = m2
  q1 = q1
  q2 = q2
  Msgs = {m1}
  Queues = {q1, q2}
  Publisher = publisher
  RoutesTo <- MCRoutesTo
  Expiring = {}
  MaxAttempts = 2
  Prefetch = 1
  MaxLosses = 1
INVARIANTS
  TypeOK
  NoLoss
  AttemptsAreFailures
PROPERTIES
  RetriesEnd
CHECK_DEADLOCK FALSE
