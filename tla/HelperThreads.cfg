SPECIFICATION FairPartSpec
CONSTANTS
    Parts = {"executor", "monitor", "profiler"}
    Tasks = {t1}
    Commands = {"continue", "step", "eval"}
    EvalMayChain = FALSE
    Adders = {a1, a2}
    Workers = {1, 2, 3}
    MaxAdded = 5
    Runtimes = {r1, r2}
    Timeouts = {1, 2}
    MaxTime = 2
    Modules = {m1, m2}
    MaxNest = 3
    DumpsWhileSuspended = FALSE
INVARIANTS SerialOrder SleepBounded WalkSafe SamplesRooted
PROPERTIES TasksExecuted DeadlinesAnswered SamplerReturns
