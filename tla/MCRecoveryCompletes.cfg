SPECIFICATION FairSpec
CONSTANTS
  CodeEntries = {"bin"}
  Apps = {"app"}
  MaxVersion = 2
  FaultBudget = 1
  Modes = {FALSE}
PROPERTY RecoveryCompletes
CHECK_DEADLOCK FALSE
