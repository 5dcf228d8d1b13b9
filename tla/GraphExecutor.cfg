\* All small graphs, three runs, two exceptions.
SPECIFICATION ExecSpec
CONSTANTS
  Ops = {1, 2, 3}
  Vars = {"x", "a", "b", "c", "d"}
  Out <- MCOut
  Graphs <- MCGraphs
  Fetchable = {"x", "d"}
  Delayed = {2}
  Fetch = 4
  FetchVar = "f"
  Nobody = Nobody
  NumThreads = 2
  DropEvery = 2
  MaxRuns = 3
  MaxFailures = 2
INVARIANTS
  ExecTypeOK
  ScopesOutliveOps
  HonestThrow
PROPERTIES
  ImplementsDagRun
  RunEnds
CHECK_DEADLOCK FALSE
