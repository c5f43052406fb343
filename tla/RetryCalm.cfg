SPECIFICATION Spec
CONSTANTS
  m1 = m1
  m2 = m2
  q1 = q1
  q2 = q2
  Msgs = {m1, m2}
  Queues = {q1}
  Publisher = publisher
  RoutesTo <- MCRoutesTo
  Expiring = {m2}
  MaxAttempts = 3
  Prefetch = 2
  MaxLosses = 0
INVARIANTS
  OneFate
PROPERTIES
  RetriesEndOnce
CHECK_DEADLOCK FALSE
