SPECIFICATION TablesSpec
CONSTANTS
    Parts = {"list", "map", "storage"}
    Chunks = {c1, c2, c3}
    NoChunk = NoChunk
    kElementsPerChunk = 2
    Hash <- CollidingKeys
    k1 = k1
    k2 = k2
    k3 = k3
    k4 = k4
    Keys = {k1, k2, k3, k4}
    Values = {v1, v2}
    Iterators = {i1}
    Free = Free
    Done = Done
    kInitialCapacity = 2
    kMaxCapacity = 8
    StorageMayFail = TRUE
    MaxCredited = 8
    Storages = {p1, p2, p3}
    Sizes = {1}
    Limit = 2
    SizeMax = 16
INVARIANTS HeldSafe AllVisited LookupExact
PROPERTY ImplementsOrderedMap
