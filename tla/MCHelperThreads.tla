--------------------------- MODULE MCHelperThreads ---------------------------
(* Small instances for TLC of what works beside the runtime on other threads: *)
(* AsyncDebugger, SerialExecutor, TimeLimitMonitor and SamplingProfiler. They *)
(* share nothing, so a behaviour is one of one of them; the bounds are in the *)
(* .cfg files.                                                                *)
EXTENDS AsyncDebugger, SerialExecutor, TimeLimitMonitor, SamplingProfiler

CONSTANT Parts      \* of the four, which ones
VARIABLE part       \* it never changes

partVars == <<vars, execVars, timeVars, profVars, part>>

PartInit ==
    /\ part \in Parts
    /\ Init /\ ExecInit /\ TimeInit /\ ProfInit

DebuggerNext ==
    /\ part = "debugger" /\ Next
    /\ UNCHANGED <<execVars, timeVars, profVars, part>>
ExecutorNext ==
    /\ part = "executor" /\ ExecNext
    /\ UNCHANGED <<vars, timeVars, profVars, part>>
MonitorNext ==
    /\ part = "monitor" /\ TimeNext
    /\ UNCHANGED <<vars, execVars, profVars, part>>
ProfilerNext ==
    /\ part = "profiler" /\ ProfNext
    /\ UNCHANGED <<vars, execVars, timeVars, part>>

\* What was to be destroyed is destroyed, or was never created in the time there is.
PartEnds ==
    /\ \/ part = "executor" /\ adding[Destructor] = "done"
       \/ part = "monitor" /\ monitorAt = "gone"
       \/ part = "monitor" /\ monitorAt = "none" /\ now = MaxTime
    /\ UNCHANGED partVars

PartNext ==
    DebuggerNext \/ ExecutorNext \/ MonitorNext \/ ProfilerNext \/ PartEnds
PartSpec == PartInit /\ [][PartNext]_partVars

\* The parts that do not take place have nothing to do.
FairPartSpec ==
    /\ PartSpec
    /\ Fairness /\ ExecFair /\ TimeFair /\ ProfFair
==============================================================================
