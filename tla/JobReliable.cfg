\* A reliable store; the master crashes, a trainer dies, a task times out early.
SPECIFICATION FairJobSpec
CONSTANTS
  NumTasks = 2
  FailureMax = 1
  NumPasses = 2
  SaveFaults = FALSE
  NoEntry = NoEntry
  NoState = NoState
  Trainers = {t1, t2}
  MaxCrashes = 1
  MaxDeaths = 1
  MaxLate = 1
  MaxFaults = 2
  NoTask = NoTask
INVARIANT OnePassAhead
PROPERTIES
  PendingIsTemporary
  CalmJobCompletes
CHECK_DEADLOCK FALSE
