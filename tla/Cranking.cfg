SPECIFICATION FairCrankerSpec
CONSTANTS
  c1 = c1
  Crankers = {c1}
  EpochLength = 1
  InitSlot = 1
  MaxSlot = 3
  MaxOperators = 3
  PauseValues = {TRUE}
  MaxRetries = 1
  MaxInflight = 2
CHECK_DEADLOCK FALSE
INVARIANTS SnapshotComplete PlanIsRemainder
PROPERTY CrankersComplete
