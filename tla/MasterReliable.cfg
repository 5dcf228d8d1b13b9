\* The store never fails; the master crashes and recovers at any point.
SPECIFICATION Spec
CONSTANTS
  NumTasks = 2
  FailureMax = 1
  NumPasses = 2
  SaveFaults = FALSE
  NoEntry = NoEntry
  NoState = NoState
INVARIANTS
  TypeOK
  PendingIsTimed
PROPERTIES
  ImplementsTaskPool
