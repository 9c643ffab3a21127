SPECIFICATION FairPartSpec
CONSTANTS
    Parts = {"debugger"}
    Tasks = {t1, t2}
    Commands = {"continue", "step", "eval"}
    EvalMayChain = FALSE
    Adders = {a1}
    Workers = {1}
    MaxAdded = 1
    Runtimes = {r1}
    Timeouts = {1}
    MaxTime = 1
    Modules = {m1}
    MaxNest = 1
    DumpsWhileSuspended = FALSE
INVARIANTS ExactlyOnce ExitsWithCommand
PROPERTIES CommandKept TasksRun
