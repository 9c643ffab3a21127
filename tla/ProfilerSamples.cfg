SPECIFICATION PartSpec
CONSTANTS
    Parts = {"profiler"}
    Tasks = {t1}
    Commands = {"continue", "step", "eval"}
    EvalMayChain = FALSE
    Adders = {a1}
    Workers = {1}
    MaxAdded = 1
    Runtimes = {r1}
    Timeouts = {1}
    MaxTime = 1
    Modules = {m1, m2}
    MaxNest = 1
    DumpsWhileSuspended = TRUE
INVARIANT SamplesRooted
