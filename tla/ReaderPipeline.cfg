CONSTANTS
    Capacity = 2
    BufferSize = 2
    PassBatches = 4
    MaxPasses = 3
    MaxEarly = 2
SPECIFICATION PipelineSpec
INVARIANTS
    PipelineTypeOK
    LatestBatchIntact
    NoReplay
    WholePasses
PROPERTY PassesEnd
CHECK_DEADLOCK FALSE
