\* A trainer dies and is restarted, a lease expires too early, etcd fails once.
SPECIFICATION InitSpec
CONSTANTS
  Trainers = {t1, t2, t3}
  NumServers = 2
  MaxUpdates = 1
  MaxExpiries = 1
  MaxDeaths = 1
  MaxEtcdErrors = 1
  Nobody = Nobody
  Gone = Gone
INVARIANTS
  DoneIsTrue
  NoDoubleClose
PROPERTIES
  UpdatesKept
  CalmJobInitializes
CHECK_DEADLOCK FALSE
