\* Three trainers that leave after any batch, three batches at most.
SPECIFICATION SyncSpec
CONSTANTS
  Trainers = {t1, t2, t3}
  Dense = {d}
  Sparse = {s}
  MaxRounds = 3
  SendThreads = 1
INVARIANTS
  SyncTypeOK
  FreshMerge
  DepartedForgotten
  LockStep
PROPERTY TrainingEnds
CHECK_DEADLOCK FALSE
