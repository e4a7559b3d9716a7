CONSTANTS
  op1 = op1
  op2 = op2
  Cleared = Cleared
  Ops <- TestOps
  Mixes <- TestMixes
  Batched = FALSE
  Overlapping = FALSE
  MaxCrashes = 1
SPECIFICATION FairOperationsSpec
INVARIANTS
  CloudAgrees
  ReportedBeforeCleared
PROPERTIES
  NotReversed
  RequesterBehaves
  EveryOperationEnds
CHECK_DEADLOCK FALSE
