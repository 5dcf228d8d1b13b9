\* Three trainers, also asking again while they save.
SPECIFICATION ElectionSpec
CONSTANTS
  Trainers = {t1, t2, t3}
  Durations = {0, 1, 2, 3}
  MaxTimers = 3
  Nobody = Nobody
INVARIANT OneSaverAskedOnce
PROPERTY BlockEnds
