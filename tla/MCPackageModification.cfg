SPECIFICATION Spec
CONSTANTS
  Paths <- MCPaths
  ParentOf <- MCParent
  RdsPaths = {"f", "d", "d/x"}
  MaxLines = 5
  DeltaPaths = {"f", "d", "d/x"}
  Climbing = "../f"
  BinDir = "bin"
  Storage = {"data"}
  IconCopies = {"icon"}
  MountPoint = ".mmc"
  Installed <- MCInstalled
  RdsContents <- MCRdsContents
  DeltaContents <- MCDeltaContents
  FaultBudget = 1
INVARIANTS
  TypeOK
  RdsApplied
  RdsRestored
  DeltaRebuilds
CHECK_DEADLOCK FALSE
