SPECIFICATION Spec
CONSTANTS
    SegIds = {1,2,3}
    SegmentSize = 2
    CardSize = 2
    NumRoots = 2
    Null = Null
    Heaps <- MCHeaps
    MaxMutations = 2
INVARIANTS WellFormed CardTable VisitedKept EvacuatesMarked
CHECK_DEADLOCK FALSE
