SPECIFICATION Spec
CONSTANTS
  MaxRequests = 3
  FaultBudget = 2
INVARIANTS
  TypeOK
  TepKept
  CardReleased
  PackageWhole
  AppsStopped
CHECK_DEADLOCK FALSE
