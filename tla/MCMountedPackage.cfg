SPECIFICATION Spec
CONSTANTS
  Points <- MCPoints
  MaxPolls = 2
  FaultBudget = 2
  MaxRequests = 5
INVARIANTS
  TypeOK
  ZipMatchesRegistry
  ZipNeverLost
  NothingStaysMounted
  MountShowsPackage
CHECK_DEADLOCK FALSE
