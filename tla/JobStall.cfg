\* A trainer dies and is restarted; nothing else goes wrong.
SPECIFICATION FairJobSpec
CONSTANTS
  NumTasks = 2
  FailureMax = 2
  NumPasses = 2
  SaveFaults = FALSE
  NoEntry = NoEntry
  NoState = NoState
  Trainers = {t1, t2}
  MaxCrashes = 0
  MaxDeaths = 1
  MaxLate = 0
  MaxFaults = 1
  NoTask = NoTask
PROPERTY JobCompletes
CHECK_DEADLOCK FALSE
