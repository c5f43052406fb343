SPECIFICATION FairSpec
CONSTANTS
  ann = ann
  bob = bob
  d1 = d1
  d2 = d2
  done = done
  r1 = r1
  r2 = r2
  None = None
  Users <- MCUsers
  Ids <- MCIds
  Marks <- MCMarks
  DefaultMark = done
  NewBodies <- MCNewBodies
  Bodies <- MCBodies
  Requests <- MCRequests
  Pages <- MCPages
  Limits <- MCLimits
  Grain = 2
  NaN = NaN
  Infinity = Infinity
  MinusInfinity = MinusInfinity
  MaxCalls = 3
  MaxFaults = 1
CHECK_DEADLOCK FALSE
INVARIANTS TypeOK CopiesExplained ListsAgree ListsForgetDeleted
PROPERTIES EveryCallEnds
