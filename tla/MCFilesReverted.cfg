SPECIFICATION Spec
CONSTANTS
  CodeEntries = {"bin"}
  Apps = {"app"}
  MaxVersion = 3
  FaultBudget = 1
  Modes = {FALSE}
INVARIANT FilesReverted
CHECK_DEADLOCK FALSE
