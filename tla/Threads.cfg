SPECIFICATION FairManagerSpec
CONSTANTS
  a1 = a1  h1 = h1  h2 = h2
  Addresses = {a1}
  MaxRunning = 4
  Modes = {"BlockVerification", "BlockProduction"}
  Handlers = {h1, h2}
  TaskContexts <- OneAddress
  Failures <- FailuresOfMode
  MaxTasks = 2
  MaxSessions = 1
INVARIANTS
  ExecutionInOrder SessionsDoNotMix OkMeansExecuted
  ExpectedMessagesOnly ReinitializeNeverPanics
PROPERTY WaitsEnd
CHECK_DEADLOCK FALSE
