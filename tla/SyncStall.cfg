\* Two trainers, one leaves while the server is between two phases.
SPECIFICATION SyncSpec
CONSTANTS
  Trainers = {t1, t2}
  Dense = {d}
  Sparse = {s}
  MaxRounds = 2
  SendThreads = 2
PROPERTY BarrierReleases
CHECK_DEADLOCK FALSE
