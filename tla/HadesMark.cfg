SPECIFICATION Spec
CONSTANTS
    Cells = {c1, c2, c3}
    Fields = {f}
    WeakSlots = {w1}
    EntrySlots = {s1, s2}
    Null = Null
    Heaps <- MCWeakHeaps
    kBarrierChunkSize = 1
    kMaxBarrierChunks = 1
    MaxSegments = 1
    MaxMutations = 2
SYMMETRY Symmetry
INVARIANTS ReachableKept WeakTargetsKept GarbageReclaimed
PROPERTY ImplementsManagedHeap
