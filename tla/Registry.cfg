SPECIFICATION PartSpec
CONSTANTS
    Records = {r1, r2, r3, r4, r5}
    Tokens = {t1}
    None = None
    Null = Null
    Registries = {f1, f2, f3, f4}
    kInitCapacity = 1
    IndexRange = 16
    UnregistersDetached = FALSE
    GrowthMayFail = TRUE
SYMMETRY Symmetry
INVARIANTS RecordsAccounted FreeListExact CleanupComplete VisitedInOrder
