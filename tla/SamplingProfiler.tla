-------------------------- MODULE SamplingProfiler --------------------------
(* SamplingProfiler and its Sampler (lib/VM/Profiler): a timer thread stops   *)
(* the runtime thread with a signal, and the handler walks the stack.  The    *)
(* runtime thread suspends sampling for a collection and for the debugger,    *)
(* and another thread enables, disables and dumps.  One runtime, on POSIX.    *)
(*                                                                            *)
(* A lock that is taken and released within one call that does not block is   *)
(* a guard that it is free; the timer thread holds both while it samples.     *)
EXTENDS Naturals, Sequences

CONSTANTS
    Modules,              \* what frames belong to: domains, native functions
    MaxNest,              \* bound: suspensions inside each other
    DumpsWhileSuspended   \* may samples be dumped while sampling is suspended?

VARIABLES
    profilerLock,    \* the holder, "timer" or "client", or "free"
    profEnabled,     \* enabled_
    samplerAt,       \* the timer thread
    clientAt,        \* the thread that enables, disables and dumps
    frames,          \* the runtime thread's stack, as a set
    nest,            \* what the runtime thread suspended sampling for
    suspending,      \* where it is in suspend(): "no", or what enabled() was
    suspendCount,    \* suspendCount_
    preStack,        \* the frames in preSuspendStackStorage_
    samples,         \* the frames in sampledStacks_
    domains          \* domains_ and nativeFunctions_

runtimeVars == <<frames, nest, suspending, suspendCount, preStack>>
sampledVars == <<samples, domains>>
profVars == <<profilerLock, profEnabled, samplerAt, clientAt, runtimeVars,
              sampledVars>>

\* The timer thread holds runtimeDataLock_ while it waits for the handler.
dataLockFree == samplerAt # "signaled"
inGC == nest # <<>> /\ nest[Len(nest)] = "gc"

------------------------------------------------------------------------------
(* The runtime thread.                                                        *)

\* JavaScript runs, an expression that the debugger evaluates too.
CallOrReturn ==
    /\ suspending = "no" /\ ~inGC
    /\ frames' \in SUBSET Modules
    /\ UNCHANGED <<profilerLock, profEnabled, samplerAt, clientAt, nest,
                   suspending, suspendCount, preStack, sampledVars>>

\* For a collection or a pause, suspend() asks first whether the profiler is
\* enabled, with profilerLock_.
AskEnabled ==
    /\ suspending = "no" /\ profilerLock = "free"
    /\ Len(nest) < MaxNest /\ ~inGC
    /\ suspending' = IF profEnabled THEN "enabled" ELSE "disabled"
    /\ UNCHANGED <<profilerLock, profEnabled, samplerAt, clientAt, frames,
                   nest, suspendCount, preStack, sampledVars>>

\* mutant: runtimeDataLock_ is not taken.
SuspendLock_None == TRUE
SuspendLock == dataLockFree

\* Then, with runtimeDataLock_, it counts, and the first one walks the stack.
Suspend ==
    /\ suspending # "no" /\ SuspendLock
    /\ \E why \in {"gc", "debugger"} : nest' = Append(nest, why)
    /\ suspending' = "no"
    /\ suspendCount' = suspendCount + 1
    /\ IF suspending = "enabled" /\ suspendCount = 0
       THEN preStack' = frames /\ domains' = domains \cup frames
       ELSE UNCHANGED <<preStack, domains>>
    /\ UNCHANGED <<profilerLock, profEnabled, samplerAt, clientAt, frames,
                   samples>>

\* mutant: resume() ends every suspension.
CountDown_ToZero == 0
CountDown == suspendCount - 1

Resume ==
    /\ nest # <<>> /\ suspending = "no" /\ dataLockFree
    /\ nest' = SubSeq(nest, 1, Len(nest) - 1)
    /\ suspendCount' = CountDown
    /\ preStack' = IF CountDown = 0 THEN {} ELSE preStack
    /\ UNCHANGED <<profilerLock, profEnabled, samplerAt, clientAt, frames,
                   suspending, sampledVars>>

\* The handler runs wherever the runtime thread is, waiting for a lock too.  The
\* timer thread stores the sample, unless there was no room for all the frames,
\* and releases runtimeDataLock_.
ProfilingSignalHandler ==
    /\ samplerAt = "signaled" /\ samplerAt' = "sampled"
    /\ \E walked \in SUBSET frames :
         /\ domains' = domains \cup walked
         /\ samples' = IF walked = frames THEN samples \cup walked ELSE samples
    /\ UNCHANGED <<profilerLock, profEnabled, clientAt, runtimeVars>>

------------------------------------------------------------------------------
(* The timer thread: timerLoop().                                             *)

IsSuspended == suspendCount > 0

\* With profilerLock_, at the start and after each wait: it ends, samples the
\* stack that was captured by suspend(), or signals the runtime thread.
SamplerLoop ==
    /\ samplerAt \in {"start", "wait"} /\ profilerLock = "free"
    /\ IF ~profEnabled
       THEN /\ samplerAt' = "done"
            /\ UNCHANGED <<profilerLock, samples>>
       ELSE /\ profilerLock' = "timer"
            /\ IF IsSuspended
               THEN samplerAt' = "sampled" /\ samples' = samples \cup preStack
               ELSE samplerAt' = "signaled" /\ UNCHANGED samples
    /\ UNCHANGED <<profEnabled, clientAt, runtimeVars, domains>>

SamplerWaits ==
    /\ samplerAt = "sampled" /\ samplerAt' = "wait"
    /\ profilerLock' = "free"
    /\ UNCHANGED <<profEnabled, clientAt, runtimeVars, sampledVars>>

------------------------------------------------------------------------------
(* The client's thread.                                                       *)

Enable ==
    /\ clientAt = "idle" /\ profilerLock = "free" /\ ~profEnabled
    /\ profEnabled' = TRUE /\ samplerAt' = "start"
    /\ UNCHANGED <<profilerLock, clientAt, runtimeVars, sampledVars>>

\* mutant: the timer thread is joined with profilerLock_ held.
DisableUnlock_Not == profilerLock' = "client"
DisableUnlock == UNCHANGED profilerLock

CallDisable ==
    /\ clientAt = "idle" /\ profEnabled /\ clientAt' = "disable"
    /\ UNCHANGED <<profilerLock, profEnabled, samplerAt, runtimeVars,
                   sampledVars>>
Disable ==
    /\ clientAt = "disable" /\ profilerLock = "free" /\ DisableUnlock
    /\ profEnabled' = FALSE /\ clientAt' = "join"
    /\ UNCHANGED <<samplerAt, runtimeVars, sampledVars>>
JoinSampler ==
    /\ clientAt = "join" /\ samplerAt = "done"
    /\ clientAt' = "idle" /\ samplerAt' = "none"
    /\ UNCHANGED <<profilerLock, profEnabled, runtimeVars, sampledVars>>

\* mutant: the roots are released and the samples kept.
Clear_KeepsSamples == domains' = {} /\ UNCHANGED samples
Clear == samples' = {} /\ domains' = {}

\* dumpTraceryTrace() and its like, from any thread.  Only the global one takes
\* profilerLock_ as well.
Dump ==
    /\ clientAt = "idle" /\ dataLockFree
    /\ suspendCount > 0 => DumpsWhileSuspended
    /\ Clear
    /\ UNCHANGED <<profilerLock, profEnabled, samplerAt, clientAt,
                   runtimeVars>>

------------------------------------------------------------------------------
ProfInit ==
    /\ profilerLock = "free" /\ profEnabled = FALSE
    /\ samplerAt = "none" /\ clientAt = "idle"
    /\ frames = {} /\ nest = <<>> /\ suspending = "no" /\ suspendCount = 0
    /\ preStack = {} /\ samples = {} /\ domains = {}

Runtime == CallOrReturn \/ AskEnabled \/ Suspend \/ Resume
Sampler == SamplerLoop \/ SamplerWaits
Client == Enable \/ CallDisable \/ Disable \/ JoinSampler \/ Dump

\* The threads go on, the signal is delivered, and a lock that is released again
\* and again is got.
ProfFair ==
    /\ WF_profVars(ProfilingSignalHandler) /\ WF_profVars(SamplerWaits)
    /\ SF_profVars(SamplerLoop) /\ SF_profVars(Suspend)
    /\ SF_profVars(Disable) /\ WF_profVars(JoinSampler)

ProfNext == Runtime \/ ProfilingSignalHandler \/ Sampler \/ Client

------------------------------------------------------------------------------
\* "Shouldn't interrupt the VM thread when the sampling profiler is suspended":
\* the stack is walked only while the runtime thread is neither in a collection
\* nor in the debugger, nor in the middle of a change to what the handler and
\* suspend() both write (walkRuntimeStack, suspend, resume, sampleStack).
WalkSafe ==
    samplerAt = "signaled" => nest = <<>> /\ suspendCount = 0 /\ preStack = {}

\* "Domains to be kept alive for sampled RuntimeModules": whatever is sampled, or
\* will be sampled from the stack captured by suspend(), is a root of the
\* collector (registerDomain, registerNativeFunction, clear).
SamplesRooted == samples \cup preStack \subseteq domains

\* No thread waits for ever: although the timer thread waits for the runtime
\* thread with both locks held, suspend() gets its second lock, disable() joins
\* the timer thread, and the handler answers (sampleStacks, suspend, disable).
SamplerReturns ==
    /\ suspending # "no" ~> suspending = "no"
    /\ clientAt = "disable" ~> clientAt = "idle"
    /\ samplerAt = "signaled" ~> samplerAt # "signaled"
==============================================================================
