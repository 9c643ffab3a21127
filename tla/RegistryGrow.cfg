SPECIFICATION PartSpec
CONSTANTS
    Records = {r1, r2, r3, r4}
    Tokens = {t1}
    None = None
    Null = Null
    Registries = {}
    kInitCapacity = 2
    IndexRange = 16
    UnregistersDetached = TRUE
    GrowthMayFail = FALSE
SYMMETRY Symmetry
INVARIANT MustCopyExactly
