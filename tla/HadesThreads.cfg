SPECIFICATION BuildSpec
CONSTANTS
    kConcurrentGC = TRUE
    kBarrierChunkSize = 1
    kMaxBarrierChunks = 2
    MaxUnmarked = 2
    MaxSegments = 2
    MaxSpurious = 1
INVARIANTS
    OneBackgroundTask
    CollectIsFull
    CompactionExclusive
    BarriersWhileMarking
PROPERTIES
    PhaseOrder
    CallsReturn
    BackgroundFinishes
