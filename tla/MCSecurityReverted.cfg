SPECIFICATION Spec
CONSTANTS
  CodeEntries = {"bin"}
  Apps = {"app"}
  MaxVersion = 2
  FaultBudget = 1
  Modes = {FALSE}
INVARIANT SecurityReverted
CHECK_DEADLOCK FALSE
