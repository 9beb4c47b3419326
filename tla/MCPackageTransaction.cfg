SPECIFICATION Spec
CONSTANTS
  CodeEntries = {"bin"}
  Apps = {"app", "app2"}
  MaxVersion = 3
  FaultBudget = 2
  Modes = {TRUE, FALSE}
INVARIANTS
  TypeOK
  FilesAtRest
  RegistryAtRest
  IconsAtRest
  NothingNewerStays
  SecurityAtRest
  UserDataSurvives
  NothingLeftBehind
  OldVersionNeverLost
  RecoveryArmed
CHECK_DEADLOCK FALSE
