SPECIFICATION PartSpec
CONSTANTS
    Parts = {"cells", "symbols"}
    MinSize = 2
    SegmentSize = 7
    kNumSmall = 4
    AllocSizes = {2, 3, 8}
    MaxHeapSize = 3
    SizeRange = 64
    s1 = s1
    s2 = s2
    Strings = {s1, s2}
    Hash <- CollidingStrings
    Slots = {o1}
    NoSymbol = NoSymbol
    kInitialCapacity = 4
    MaxNonEmpty = 3
    MaxSymbols = 2
INVARIANTS FreelistsExact BytesExact OutOfMemoryExact SymbolsLive SymbolFound
PROPERTY FreshSurvive
CHECK_DEADLOCK FALSE
