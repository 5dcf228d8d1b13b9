\* Saves fail, the master crashes, a trainer dies, a task times out on a live trainer.
SPECIFICATION JobSpec
CONSTANTS
  NumTasks = 2
  FailureMax = 1
  NumPasses = 2
  SaveFaults = TRUE
  NoEntry = NoEntry
  NoState = NoState
  Trainers = {t1, t2}
  MaxCrashes = 1
  MaxDeaths = 1
  MaxLate = 1
  MaxFaults = 2
  NoTask = NoTask
INVARIANTS
  FullPass
  TasksConserved
  HandedIsDurable
PROPERTY HandoutIsFresh
CHECK_DEADLOCK FALSE
