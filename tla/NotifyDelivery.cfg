SPECIFICATION FairSpec
CONSTANTS
  N = 4
  Kind <- OnePoison
  Prefetch = 2
  MaxOutages = 1
  MaxLosses = 2
INVARIANTS
  TypeOK
  OnePlace
  DuplicatesExplained
PROPERTIES
  NotificationsEndOnce
  HealthySettle
CHECK_DEADLOCK FALSE
