SPECIFICATION FairSpec
CONSTANTS
  UserList <- MCUserList
  Outsiders = {"u2"}
  Depth = 2
  FaultBudget = 1
  MaxRequests = 2
INVARIANTS
  TypeOK
  EveryUserIsServed
  OthersAreServed
  NoUserKeepsDirectories
  LegacyFollowsPackage
PROPERTIES
  RequestsEnd
  ServiceGoesAway
CHECK_DEADLOCK FALSE
