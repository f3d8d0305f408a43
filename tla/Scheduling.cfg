SPECIFICATION FairSpec
CONSTANTS
  a1 = a1  a2 = a2
  Addresses = {a1, a2}
  MaxRunning = 2
  MaxTasks = 4
PROPERTIES ImplementsConflictOrder EveryTaskRuns
INVARIANTS BlockedOnlyByConflict QueuesCleanWhenInactive
