SPECIFICATION FairSpec
CONSTANT NumSteps = 3
INVARIANTS
  TypeOK
  UndoneExactlyOnce
  UndoneInReverse
  ResultIsTruthful
  ClientProtocol
  ClientLearnsOutcome
PROPERTIES
  RunEnds
  ImplementsTransaction
CHECK_DEADLOCK FALSE
