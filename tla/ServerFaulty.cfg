\* Crashes, errors at every step of a checkpoint, and a second trainer.
SPECIFICATION ServerSpec
CONSTANTS
  Params = {p1, p2}
  MaxUpdates = 1
  MaxSaves = 3
  MaxCrashes = 2
  MaxTrainers = 2
  EtcdFaults = TRUE
  NoValue = NoValue
  Partial = Partial
INVARIANTS
  SafeUpdatesKept
  Coherent
  NamedFileLoads
  
CHECK_DEADLOCK FALSE
