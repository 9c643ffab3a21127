------------------------- MODULE HelperThreadsProofs -------------------------
(* Proofs about the components that run a thread of their own: SerialExecutor *)
(* for any number of threads that add tasks, of workers and of tasks;         *)
(* TimeLimitMonitor for any number of runtimes, any time-outs and any length  *)
(* of time; SamplingProfiler for any modules and any depth of nested          *)
(* suspensions; AsyncDebugger, whose clients have threads of their own, for   *)
(* any number of tasks and any use the client makes of commands.              *)
EXTENDS SerialExecutor, TimeLimitMonitor, SamplingProfiler, AsyncDebugger,
        FiniteSetTheorems, SequenceTheorems, TLAPS

------------------------------------------------------------------------------
(* SerialExecutor.  That there is one worker at a time needs what             *)
(* threadState_ says of the last one started, tid_: only one that has timed   *)
(* out is replaced, after it was joined, and the destructor has ended all     *)
(* calls of add() (WorkerInv).                                                *)

ExecSpec == ExecInit /\ [][ExecNext]_execVars

Inactive == {"none", "exit", "dead"}

QueueInv ==
    /\ added \in Seq(Nat) /\ started \in Seq(Nat) /\ taskQueue \in Seq(Nat)
    /\ started \o taskQueue = added

WorkerInv ==
    /\ workerAt \in [Workers -> {"start", "loop", "task", "wait"} \cup Inactive]
    /\ \A w \in Workers : w # tid => workerAt[w] \in Inactive
    /\ threadState = "Uninitialized" => \A w \in Workers : workerAt[w] \in Inactive
    /\ adding \in [Adders \cup {Destructor} -> {"idle", "locked", "join", "done"}]
    /\ \A a \in Adders : adding[a] \in {"idle", "locked"}
    /\ threadState \in {"Uninitialized", "Initialized", "TimedOut", "Terminating"}
    /\ threadState = "Terminating" => \A a \in Adders : adding[a] = "idle"
    /\ adding[Destructor] # "idle" => \A a \in Adders : adding[a] = "idle"
    /\ threadState = "Terminating" => adding[Destructor] # "idle"

------------------------------------------------------------------------------
(* The queue.                                                                 *)

\* Concatenation of what was begun, what is next and what is queued behind it.
LEMMA Associative ==
    ASSUME NEW s \in Seq(Nat), NEW t \in Seq(Nat), NEW u \in Seq(Nat)
    PROVE  (s \o t) \o u = s \o (t \o u)
BY ConcatAssociative, SMTT(30)

\* A task at the end of the queue is at the end of what was added.
LEMMA PushKeeps == QueueInv /\ Push /\ UNCHANGED started => QueueInv'
<1> SUFFICES ASSUME QueueInv, Push, UNCHANGED started PROVE QueueInv'
  OBVIOUS
<1>1. PICK t \in Nat : t = Len(added) + 1
  BY DEF QueueInv
<1>2. taskQueue' = Append(taskQueue, t) /\ added' = Append(added, t)
  BY <1>1 DEF Push
<1>3. taskQueue' \in Seq(Nat) /\ added' \in Seq(Nat) /\ <<t>> \in Seq(Nat)
  BY <1>2 DEF QueueInv
<1>4. taskQueue' = taskQueue \o <<t>> /\ added' = added \o <<t>>
  BY <1>2, AppendIsConcat DEF QueueInv
<1>5. started \o (taskQueue \o <<t>>) = (started \o taskQueue) \o <<t>>
  <2>1. started \in Seq(Nat) /\ taskQueue \in Seq(Nat)
    BY DEF QueueInv
  <2> QED
    BY <1>3, <2>1, Associative
<1>6. started' \o taskQueue' = added'
  BY <1>4, <1>5, Zenon DEF QueueInv
<1> QED
  BY <1>3, <1>6 DEF QueueInv

\* The task that is begun is the one after those begun before.
LEMMA RunTaskKeeps == ASSUME QueueInv, NEW w, RunTask(w) PROVE QueueInv'
<1>1. /\ taskQueue # <<>> /\ taskQueue' = Tail(taskQueue) /\ added' = added
      /\ started' = Append(started, Head(taskQueue))
  BY DEF RunTask
<1>2. PICK t \in Nat : t = Head(taskQueue)
  BY <1>1 DEF QueueInv
<1>3. taskQueue' \in Seq(Nat) /\ started' \in Seq(Nat) /\ <<t>> \in Seq(Nat)
  BY <1>1, <1>2 DEF QueueInv
<1>4. taskQueue = <<t>> \o taskQueue'
  BY <1>1, <1>2 DEF QueueInv
<1>5. started' = started \o <<t>>
  <2>1. started' = Append(started, t)
    BY <1>1, <1>2
  <2> QED
    BY <2>1, AppendIsConcat DEF QueueInv
<1>6. (started \o <<t>>) \o taskQueue' = started \o (<<t>> \o taskQueue')
  <2>1. PICK q \in Seq(Nat) : q = taskQueue'
    BY <1>3
  <2>2. started \in Seq(Nat)
    BY DEF QueueInv
  <2>3. (started \o <<t>>) \o q = started \o (<<t>> \o q)
    BY <1>3, <2>2, Associative
  <2> QED
    BY <2>1, <2>3
<1>7. started' \o taskQueue' = added'
  BY <1>1, <1>4, <1>5, <1>6, Zenon DEF QueueInv
<1>8. added' \in Seq(Nat)
  BY <1>1 DEF QueueInv
<1> QED
  BY <1>3, <1>7, <1>8 DEF QueueInv

\* Every step: only add() and run() touch the queue.
LEMMA QueueStep == QueueInv /\ [ExecNext]_execVars => QueueInv'
<1> SUFFICES ASSUME QueueInv, [ExecNext]_execVars PROVE QueueInv'
  OBVIOUS
<1>1. CASE \E a \in Adders : AddEnd(a)
  BY <1>1, PushKeeps DEF AddEnd
<1>2. CASE \E w \in Workers : TaskAdds(w)
  BY <1>2, PushKeeps DEF TaskAdds
<1>3. CASE \E w \in Workers : RunTask(w)
  BY <1>3, RunTaskKeeps
<1>4. CASE UNCHANGED <<taskQueue, added, started>>
  BY <1>4 DEF QueueInv
<1> QED
  BY <1>1, <1>2, <1>3, <1>4
     DEF ExecNext, Worker, AddLock, Lock, TaskDone, ReturnFromRun, WaitForTask, WakeUp,
         ThreadEnds, TimeOut, Terminate, Join, execVars

------------------------------------------------------------------------------
(* The worker.                                                                *)

\* Every step: a worker is started only if the one before has ended.
LEMMA WorkerStep ==
    ASSUME WorkerInv, [ExecNext]_execVars
    PROVE  WorkerInv'
<1> USE ExecutorAssumption DEF WorkerInv, Inactive
<1>1. ASSUME NEW a \in Adders, AddLock(a) PROVE WorkerInv'
  BY <1>1 DEF AddLock
<1>2. ASSUME NEW a \in Adders, AddEnd(a) PROVE WorkerInv'
  <2>1. CASE threadState = "Initialized"
    BY <1>2, <2>1 DEF AddEnd, NeedsWorker
  <2>2. CASE threadState # "Initialized"
    <3>1. threadState # "Terminating" /\ adding[Destructor] = "idle"
      BY <1>2 DEF AddEnd
    <3>2. \A w \in Workers : workerAt[w] \in Inactive
      BY <1>2, <2>2, <3>1 DEF AddEnd, NeedsWorker
    <3> QED
      BY <1>2, <2>2, <3>1, <3>2 DEF AddEnd, NeedsWorker
  <2> QED
    BY <2>1, <2>2
<1>3. ASSUME NEW w \in Workers, Worker(w) PROVE WorkerInv'
  BY <1>3 DEF Worker, Lock, RunTask, TaskDone, ReturnFromRun, WaitForTask,
              WakeUp, ThreadEnds
<1>4. ASSUME NEW w \in Workers, TaskAdds(w) PROVE WorkerInv'
  BY <1>4 DEF TaskAdds, Push
<1>5. ASSUME NEW w \in Workers, TimeOut(w) PROVE WorkerInv'
  BY <1>5 DEF TimeOut
<1>6. CASE Terminate
  BY <1>6 DEF Terminate
<1>7. CASE Join
  BY <1>7 DEF Join
<1>8. CASE UNCHANGED execVars
  BY <1>8 DEF execVars
<1> QED
  BY <1>1, <1>2, <1>3, <1>4, <1>5, <1>6, <1>7, <1>8 DEF ExecNext

\* No worker and no task at first.
LEMMA ExecInitInv == ExecInit => QueueInv /\ WorkerInv
BY ConcatEmptySeq DEF ExecInit, QueueInv, WorkerInv, Inactive

\* The last worker started is the only one that may be active.
LEMMA OneWorker == QueueInv /\ WorkerInv => SerialOrder
<1> SUFFICES ASSUME QueueInv, WorkerInv PROVE SerialOrder
  OBVIOUS
<1>1. PICK active :
           active = {w \in Workers : workerAt[w] \notin {"none", "exit", "dead"}}
  OBVIOUS
<1>2. active = {} \/ active = {tid}
  BY <1>1 DEF WorkerInv, Inactive
<1>3. Cardinality(active) = 0 \/ Cardinality(active) = 1
  BY <1>2, FS_EmptySet, FS_Singleton, Zenon
<1>4. Cardinality(active) <= 1
  BY <1>3
<1> QED
  BY <1>1, <1>4, Zenon DEF SerialOrder, QueueInv

------------------------------------------------------------------------------
\* Tasks are begun in the order of their add(), each once, and never by two workers
\* at a time, however workers time out and are started again (add, run).
THEOREM SerialExecution == ExecSpec => []SerialOrder
<1>1. WorkerInv /\ [ExecNext]_execVars => WorkerInv'
  BY WorkerStep
<1> QED
  BY <1>1, ExecInitInv, QueueStep, OneWorker, PTL DEF ExecSpec

------------------------------------------------------------------------------
(* TimeLimitMonitor.  SleepBounded is inductive with what a round knows: the  *)
(* thread will wake up no later than the deadlines it has seen, which nobody  *)
(* changes while it holds lock_ (RoundInv).                                   *)

TimeSpec == TimeInit /\ [][TimeNext]_timeVars

Times == 0 .. NoDeadline

TypeInv ==
    /\ deadline \in [Runtimes -> Times] /\ wakeAt \in Times
    /\ runtimeAt \in [Runtimes -> {"unwatched", "idle", "notify", "gone"}]
    /\ now \in 0 .. MaxTime

RoundInv == timerLock => \A r \in seen : r \in Runtimes => wakeAt <= deadline[r]

------------------------------------------------------------------------------
\* The earlier of two deadlines is one of them.
LEMMA EarliestIsLeast ==
    ASSUME NEW s \in Nat, NEW t \in Nat
    PROVE  /\ Earliest({s, t}) \in {s, t}
           /\ Earliest({s, t}) <= s /\ Earliest({s, t}) <= t
<1>1. \E u \in {s, t} : \A v \in {s, t} : u <= v
  <2>1. CASE s <= t
    BY <2>1
  <2>2. CASE t <= s
    BY <2>2
  <2> QED
    BY <2>1, <2>2
<1> QED
  BY <1>1 DEF Earliest

\* No deadline is later than all deadlines.
LEMMA TimesAre ==
    /\ NoDeadline \in Times
    /\ 0 \in 0 .. MaxTime /\ 0 .. MaxTime \subseteq Times
BY TimesAssumption DEF Times, NoDeadline

\* Nothing is watched at first.
LEMMA TimeInitInv == TimeInit => TypeInv /\ RoundInv /\ SleepBounded
<1> SUFFICES ASSUME TimeInit PROVE TypeInv /\ RoundInv /\ SleepBounded
  OBVIOUS
<1>1. TypeInv
  BY TimesAre DEF TimeInit, TypeInv
<1>2. RoundInv
  BY DEF TimeInit, RoundInv, timerLock
<1>3. SleepBounded
  BY DEF TimeInit, SleepBounded, WatchedAlive
<1> QED
  BY <1>1, <1>2, <1>3

\* Every step keeps deadlines within the time there is.
LEMMA TypeStep ==
    ASSUME TypeInv, [TimeNext]_timeVars PROVE TypeInv'
<1> USE TimesAre DEF TypeInv
<1>1. ASSUME NEW r \in Runtimes, WatchRuntime(r) PROVE TypeInv'
  <2>1. PICK t \in Timeouts : now + t <= MaxTime
                              /\ deadline' = [deadline EXCEPT ![r] = now + t]
    BY <1>1 DEF WatchRuntime
  <2>2. now + t \in Times
    BY <2>1, TimesAssumption DEF Times, NoDeadline
  <2> QED
    BY <1>1, <2>1, <2>2 DEF WatchRuntime, timerVars
<1>2. ASSUME NEW r \in Runtimes,
             NotifyTimer(r) \/ UnwatchRuntime(r) \/ AsyncBreakCheck(r)
                 \/ DestroyRuntime(r)
      PROVE  TypeInv'
  BY <1>2 DEF NotifyTimer, UnwatchRuntime, Unwatch, AsyncBreakCheck,
              DestroyRuntime, timerVars
<1>3. CASE MonitorDestructor
  BY <1>3 DEF MonitorDestructor, DisableMonitor, TickleTimer, JoinTimer, timerVars
<1>4. CASE TimerWakes \/ TimerWaits
  BY <1>4 DEF TimerWakes, TimerWaits
<1>5. ASSUME NEW r \in Runtimes, LookAt(r) PROVE TypeInv'
  <2>1. wakeAt \in Nat /\ deadline[r] \in Nat /\ Times \subseteq Nat
    BY DEF Times
  <2>2. wakeAt' = wakeAt \/ wakeAt' = Earliest({wakeAt, deadline[r]})
    BY <1>5 DEF LookAt, NextDeadline
  <2>3. wakeAt' \in Times
    BY <2>1, <2>2, EarliestIsLeast
  <2>4. deadline' \in [Runtimes -> Times]
    BY <1>5 DEF LookAt
  <2> QED
    BY <1>5, <2>3, <2>4 DEF LookAt
<1>6. CASE Tick
  BY <1>6, TimesAssumption DEF Tick, timerVars
<1>7. CASE UNCHANGED timeVars
  BY <1>7 DEF timeVars, timerVars
<1> QED
  BY <1>1, <1>2, <1>3, <1>4, <1>5, <1>6, <1>7 DEF TimeNext, Timer

\* A look at a runtime keeps what the round knows of the others.
LEMMA LookKeeps ==
    ASSUME TypeInv, RoundInv, NEW r \in Runtimes, LookAt(r)
    PROVE  RoundInv'
<1>1. \A q \in Runtimes : deadline[q] \in Nat /\ deadline[q] <= NoDeadline
  BY TimesAssumption DEF TypeInv, Times, NoDeadline
<1>2. wakeAt \in Nat /\ wakeAt <= NoDeadline /\ NoDeadline \in Nat
  BY TimesAssumption DEF TypeInv, Times, NoDeadline
<1>3. seen' = seen \cup {r} /\ \A q \in seen : q \in Runtimes => wakeAt <= deadline[q]
  BY DEF LookAt, RoundInv
<1>4. CASE deadline[r] <= readAt
  <2>1. wakeAt' = wakeAt /\ deadline' = [deadline EXCEPT ![r] = NoDeadline]
    BY <1>4 DEF LookAt
  <2> QED
    BY <1>2, <1>3, <2>1 DEF RoundInv, TypeInv
<1>5. CASE ~(deadline[r] <= readAt)
  <2>1. wakeAt' = Earliest({wakeAt, deadline[r]}) /\ deadline' = deadline
    BY <1>5 DEF LookAt, NextDeadline
  <2>2. wakeAt' \in Nat /\ wakeAt' <= wakeAt /\ wakeAt' <= deadline[r]
    BY <1>1, <1>2, <2>1, EarliestIsLeast
  <2> QED
    BY <1>1, <1>2, <1>3, <2>1, <2>2 DEF RoundInv
<1> QED
  BY <1>4, <1>5

\* Deadlines are set and taken back only while the timer thread does not hold lock_.
LEMMA RoundStep ==
    ASSUME TypeInv, RoundInv, [TimeNext]_timeVars PROVE RoundInv'
<1>1. CASE \E r \in Runtimes : LookAt(r)
  BY <1>1, LookKeeps
<1>2. CASE TimerWakes \/ TimerWaits
  BY <1>2 DEF TimerWakes, TimerWaits, RoundInv, timerLock
<1>3. ASSUME NEW r \in Runtimes,
             WatchRuntime(r) \/ UnwatchRuntime(r) \/ DestroyRuntime(r)
      PROVE  RoundInv'
  BY <1>3 DEF WatchRuntime, UnwatchRuntime, DestroyRuntime, RoundInv, timerLock,
              timerVars
<1>4. CASE UNCHANGED <<timerVars, deadline>>
  BY <1>4 DEF RoundInv, timerLock, timerVars
<1> QED
  BY <1>1, <1>2, <1>3, <1>4
     DEF TimeNext, Timer, MonitorDestructor, NotifyTimer, AsyncBreakCheck,
         DisableMonitor, TickleTimer, JoinTimer, Tick, timeVars, timerVars

\* A runtime is not watched when it is destroyed, nor afterwards.
LEMMA AliveStep ==
    ASSUME TypeInv, WatchedAlive, [TimeNext]_timeVars
    PROVE  WatchedAlive'
<1> USE DEF WatchedAlive, TypeInv
<1>1. ASSUME NEW r \in Runtimes, WatchRuntime(r) PROVE WatchedAlive'
  BY <1>1 DEF WatchRuntime
<1>2. ASSUME NEW r \in Runtimes, UnwatchRuntime(r) \/ DestroyRuntime(r)
      PROVE  WatchedAlive'
  BY <1>2 DEF UnwatchRuntime, DestroyRuntime, Unwatch
<1>3. ASSUME NEW r \in Runtimes, NotifyTimer(r) PROVE WatchedAlive'
  BY <1>3 DEF NotifyTimer
<1>4. ASSUME NEW r \in Runtimes, LookAt(r) PROVE WatchedAlive'
  BY <1>4 DEF LookAt
<1>5. CASE UNCHANGED <<deadline, runtimeAt>>
  BY <1>5
<1> QED
  BY <1>1, <1>2, <1>3, <1>4, <1>5
     DEF TimeNext, Timer, TimerWakes, TimerWaits, MonitorDestructor, AsyncBreakCheck,
         DisableMonitor, TickleTimer, JoinTimer, Tick, timeVars, timerVars

\* When the thread goes to sleep it has seen all deadlines; those set since then
\* come with a notification, and the others only become later.
LEMMA SleepStep ==
    ASSUME TypeInv, RoundInv, SleepBounded, [TimeNext]_timeVars
    PROVE  SleepBounded'
<1> DEFINE Bounded == timerAt = "wait" /\ ~notified
                        /\ (\A r \in Runtimes : runtimeAt[r] # "notify")
                        => \A r \in Runtimes : wakeAt <= deadline[r]
<1> SUFFICES Bounded'
  BY AliveStep DEF SleepBounded
<1>0. Bounded
  BY DEF SleepBounded
<1>a. wakeAt \in Nat /\ wakeAt <= NoDeadline
  BY TimesAssumption DEF TypeInv, Times, NoDeadline
<1> USE DEF TypeInv
<1>1. ASSUME NEW r \in Runtimes, WatchRuntime(r) PROVE Bounded'
  BY <1>1 DEF WatchRuntime
<1>2. ASSUME NEW r \in Runtimes, UnwatchRuntime(r) \/ DestroyRuntime(r) PROVE Bounded'
  BY <1>0, <1>2, <1>a DEF UnwatchRuntime, DestroyRuntime, Unwatch, timerVars
<1>3. ASSUME NEW r \in Runtimes, NotifyTimer(r) PROVE Bounded'
  BY <1>3 DEF NotifyTimer, NotifyLoop
<1>4. CASE TimerWaits
  <2>1. \A r \in Runtimes : wakeAt <= deadline[r]
    BY <1>4, <1>a DEF TimerWaits, RoundInv
  <2> QED
    BY <1>4, <2>1 DEF TimerWaits
<1>5. CASE TimerWakes
  BY <1>5 DEF TimerWakes
<1>6. ASSUME NEW r \in Runtimes, LookAt(r) PROVE Bounded'
  BY <1>6 DEF LookAt, timerLock
<1>7. CASE TickleTimer
  BY <1>7 DEF TickleTimer
<1>8. CASE UNCHANGED <<timerVars, deadline, runtimeAt, notified>>
  BY <1>0, <1>8 DEF timerVars
<1> QED
  BY <1>1, <1>2, <1>3, <1>4, <1>5, <1>6, <1>7, <1>8
     DEF TimeNext, Timer, MonitorDestructor, AsyncBreakCheck, DisableMonitor,
         JoinTimer, Tick, timeVars

------------------------------------------------------------------------------
\* The timer thread never sleeps past a deadline, and has no pointer to a runtime
\* that is gone (watchRuntime, unwatchRuntime, timerLoop).
THEOREM NeverOversleeps ==
    TimeSpec => []SleepBounded
<1>1. TypeInv /\ [TimeNext]_timeVars => TypeInv'
  BY TypeStep
<1>2. TypeInv /\ RoundInv /\ [TimeNext]_timeVars => RoundInv'
  BY RoundStep
<1>3. TypeInv /\ RoundInv /\ SleepBounded /\ [TimeNext]_timeVars => SleepBounded'
  BY SleepStep
<1>4. TimeInit => TypeInv /\ RoundInv /\ SleepBounded
  BY TimeInitInv
<1> QED
  BY <1>1, <1>2, <1>3, <1>4, PTL DEF TimeSpec

------------------------------------------------------------------------------
(* SamplingProfiler.  Both properties rest on what suspendCount_ means: it is *)
(* the number of suspensions, the stack captured by the first one is empty    *)
(* without them, and no signal is under way during one (SuspendInv).          *)

ProfSpec == ProfInit /\ [][ProfNext]_profVars

Reasons == {"gc", "debugger"}

SuspendInv ==
    /\ nest \in Seq(Reasons) /\ suspendCount = Len(nest)
    /\ samplerAt = "signaled" => suspendCount = 0
    /\ suspendCount = 0 => preStack = {}

------------------------------------------------------------------------------
\* Nothing is sampled or suspended at first.
LEMMA ProfInitInv == ProfInit => SuspendInv /\ SamplesRooted
BY DEF ProfInit, SuspendInv, SamplesRooted

\* suspend(): no signal is under way, as the timer thread holds the lock then.
LEMMA SuspendKeeps == SuspendInv /\ Suspend => SuspendInv'
<1> SUFFICES ASSUME SuspendInv, Suspend PROVE SuspendInv'
  OBVIOUS
<1>1. PICK why \in Reasons : nest' = Append(nest, why)
  BY DEF Suspend, Reasons
<1>2. nest' \in Seq(Reasons) /\ Len(nest') = Len(nest) + 1 /\ Len(nest) \in Nat
  BY <1>1 DEF SuspendInv
<1>3. samplerAt # "signaled" /\ samplerAt' = samplerAt
      /\ suspendCount' = suspendCount + 1
  BY DEF Suspend, SuspendLock, dataLockFree
<1> QED
  BY <1>2, <1>3 DEF SuspendInv

\* resume(): the captured stack goes with the last suspension.
LEMMA ResumeKeeps == SuspendInv /\ Resume => SuspendInv'
<1> SUFFICES ASSUME SuspendInv, Resume PROVE SuspendInv'
  OBVIOUS
<1>1. nest # <<>> /\ nest' = SubSeq(nest, 1, Len(nest) - 1)
      /\ samplerAt # "signaled" /\ samplerAt' = samplerAt
  BY DEF Resume, dataLockFree
<1>2. nest' \in Seq(Reasons) /\ Len(nest') = Len(nest) - 1
  BY <1>1 DEF SuspendInv
<1> QED
  BY <1>1, <1>2 DEF SuspendInv, Resume, CountDown

\* Every other step.
LEMMA StepInv == SuspendInv /\ [ProfNext]_profVars => SuspendInv'
<1> SUFFICES ASSUME SuspendInv, [ProfNext]_profVars PROVE SuspendInv'
  OBVIOUS
<1>1. CASE Suspend
  BY <1>1, SuspendKeeps
<1>2. CASE Resume
  BY <1>2, ResumeKeeps
<1>3. CASE CallOrReturn \/ AskEnabled
  BY <1>3 DEF SuspendInv, CallOrReturn, AskEnabled
<1>4. CASE ProfilingSignalHandler \/ SamplerWaits
  BY <1>4 DEF SuspendInv, ProfilingSignalHandler, SamplerWaits, runtimeVars
<1>5. CASE SamplerLoop
  <2>1. UNCHANGED <<nest, suspendCount, preStack>>
    BY <1>5 DEF SamplerLoop, runtimeVars
  <2>2. suspendCount > 0 => samplerAt' # "signaled"
    BY <1>5 DEF SamplerLoop, IsSuspended
  <2>3. Len(nest) \in Nat
    BY DEF SuspendInv
  <2> QED
    BY <2>1, <2>2, <2>3 DEF SuspendInv
<1>6. CASE Client
  BY <1>6 DEF SuspendInv, Client, Enable, CallDisable, Disable, JoinSampler, Dump,
              runtimeVars
<1>7. CASE UNCHANGED profVars
  BY <1>7 DEF SuspendInv, profVars, runtimeVars
<1> QED
  BY <1>1, <1>2, <1>3, <1>4, <1>5, <1>6, <1>7 DEF ProfNext, Runtime, Sampler

\* What is sampled is a root: only a dump takes roots away, and the samples with
\* them; it finds no captured stack unless it may come during a suspension.
LEMMA RootsKept ==
    ASSUME SuspendInv, SamplesRooted, [ProfNext]_profVars, ~DumpsWhileSuspended
    PROVE  SamplesRooted'
<1>1. CASE Suspend
  BY <1>1 DEF Suspend, SamplesRooted
<1>2. CASE Resume
  BY <1>2 DEF Resume, SamplesRooted, sampledVars
<1>3. CASE ProfilingSignalHandler
  BY <1>3 DEF ProfilingSignalHandler, SamplesRooted, runtimeVars
<1>4. CASE SamplerLoop
  BY <1>4 DEF SamplerLoop, SamplesRooted, runtimeVars
<1>5. CASE Dump
  <2>1. suspendCount = 0
    BY <1>5 DEF Dump, SuspendInv
  <2> QED
    BY <1>5, <2>1 DEF Dump, Clear, SamplesRooted, SuspendInv, runtimeVars
<1>6. CASE CallOrReturn \/ AskEnabled
  BY <1>6 DEF CallOrReturn, AskEnabled, SamplesRooted, sampledVars
<1>7. CASE SamplerWaits \/ Enable \/ CallDisable \/ Disable \/ JoinSampler
  BY <1>7 DEF SamplerWaits, Enable, CallDisable, Disable, JoinSampler,
              SamplesRooted, sampledVars, runtimeVars
<1>8. CASE UNCHANGED profVars
  BY <1>8 DEF SamplesRooted, profVars, runtimeVars, sampledVars
<1> QED
  BY <1>1, <1>2, <1>3, <1>4, <1>5, <1>6, <1>7, <1>8
     DEF ProfNext, Runtime, Sampler, Client

------------------------------------------------------------------------------
\* The stack is never walked while the runtime is in a collection or in the
\* debugger, nor while suspend() captures it (walkRuntimeStack, suspend).
THEOREM WalkIsSafe == ProfSpec => []WalkSafe
<1>1. SuspendInv => WalkSafe
  BY DEF SuspendInv, WalkSafe
<1> QED
  BY <1>1, ProfInitInv, StepInv, PTL DEF ProfSpec

\* What is or will be sampled is a root of the collector, if samples are not dumped
\* while sampling is suspended (recordPreSuspendStack, clear).
THEOREM SamplesAreRooted == ~DumpsWhileSuspended /\ ProfSpec => []SamplesRooted
<1> SUFFICES ASSUME ~DumpsWhileSuspended PROVE ProfSpec => []SamplesRooted
  OBVIOUS
<1>1. SuspendInv /\ SamplesRooted /\ [ProfNext]_profVars => SamplesRooted'
  BY RootsKept
<1> QED
  BY <1>1, ProfInitInv, StepInv, PTL DEF ProfSpec
------------------------------------------------------------------------------
(* AsyncDebugger.  A task's flag says whether it has run (RanInv), and until  *)
(* it has, its interrupt is in the queue, which the destructor empties last   *)
(* (InterruptInv).  That didPause() has a command to return is decided where  *)
(* its loop ends: no command is missing there unless the client has gone,     *)
(* whether or not it comes back (PauseInv).                                   *)

DebuggerTypes ==
    /\ interrupts \in Seq(Tasks) /\ integrator \in Seq(Tasks)
    /\ submitted \in [Tasks -> {"no", "queued", "all"}]
    /\ pc \in PausePoints \cup {"idle", "js", "implicit", "eval", "destroy", "end"}
    /\ nextCommand \in {"continue", "step", "eval", "moved"}
    /\ alreadyRan \subseteq Tasks
    /\ ran \in [Tasks -> Nat]

DebuggerFlags ==
    /\ eventCallback \in BOOLEAN /\ signaled \in BOOLEAN
    /\ implicitBreak \in BOOLEAN /\ deferred \in BOOLEAN /\ stepping \in BOOLEAN
    /\ evalCallback \in BOOLEAN /\ cleared \in BOOLEAN /\ dropped \in BOOLEAN
    /\ isWaitingForCommand \in BOOLEAN

RanInv == \A t \in Tasks : ran[t] = IF t \in alreadyRan THEN 1 ELSE 0

Queued(t) == \E k \in 1 .. Len(interrupts) : interrupts[k] = t

InterruptInv ==
    /\ \A t \in Tasks : submitted[t] = "all" => t \in alreadyRan \/ Queued(t)
    /\ ~Alive => \A t \in Tasks : submitted[t] # "queued"
    /\ pc = "end" => interrupts = <<>>

PauseInv ==
    /\ pc \in PausePoints /\ ~isWaitingForCommand => nextCommand # "moved"
    /\ pc = "interrupt" => isWaitingForCommand
    /\ pc \in PausePoints /\ ~eventCallback => cleared
    /\ pc \in {"exit", "return"} /\ isWaitingForCommand => cleared
    /\ pc \notin PausePoints => ~isWaitingForCommand

------------------------------------------------------------------------------
(* DebuggerTypes.                                                                     *)

\* Everything holds at first.
LEMMA DebuggerInit ==
    Init => DebuggerTypes /\ DebuggerFlags /\ RanInv /\ InterruptInv /\ PauseInv
<1> SUFFICES ASSUME Init
             PROVE  DebuggerTypes /\ DebuggerFlags /\ RanInv /\ InterruptInv /\ PauseInv
  OBVIOUS
<1>1. DebuggerTypes
  BY DEF Init, DebuggerTypes
<1>2. DebuggerFlags
  BY Zenon DEF Init, DebuggerFlags
<1>3. RanInv /\ PauseInv
  BY DEF Init, RanInv, PauseInv, PausePoints
<1>4. InterruptInv
  BY DEF Init, InterruptInv, Alive
<1> QED
  BY <1>1, <1>2, <1>3, <1>4

\* Taking an interrupt keeps the types of what it changes.
LEMMA TakeType ==
    ASSUME DebuggerTypes, TakeInterrupt
    PROVE  /\ interrupts' \in Seq(Tasks) /\ alreadyRan' \subseteq Tasks
           /\ ran' \in [Tasks -> Nat]
<1>1. PICK t \in Tasks : t = Head(interrupts)
  BY DEF DebuggerTypes, TakeInterrupt
<1>2. /\ interrupts' = Tail(interrupts) /\ interrupts # <<>>
      /\ alreadyRan' = alreadyRan \cup {t}
      /\ ran' = IF t \in alreadyRan THEN ran ELSE [ran EXCEPT ![t] = @ + 1]
  BY <1>1 DEF TakeInterrupt
<1> QED
  BY <1>2 DEF DebuggerTypes

\* The integrator's copy of a task runs it and sets its flag, unless it is set.
LEMMA IntegratorRuns ==
    ASSUME DebuggerTypes, RunIntegratorTask
    PROVE  \E t \in Tasks :
             /\ integrator' \in Seq(Tasks) /\ pc' \in {pc, "js"}
             /\ \/ t \in alreadyRan /\ alreadyRan' = alreadyRan /\ ran' = ran
                \/ /\ t \notin alreadyRan /\ alreadyRan' = alreadyRan \cup {t}
                   /\ ran' = [ran EXCEPT ![t] = @ + 1]
<1>1. PICK t \in Tasks : t = Head(integrator)
  BY DEF DebuggerTypes, RunIntegratorTask
<1>2. integrator' \in Seq(Tasks)
  BY DEF DebuggerTypes, RunIntegratorTask
<1>3. CASE Head(integrator) \in alreadyRan
  BY <1>1, <1>2, <1>3 DEF RunIntegratorTask, taskVars
<1>4. CASE Head(integrator) \notin alreadyRan
  <2>1. /\ t \notin alreadyRan /\ alreadyRan' = alreadyRan \cup {t}
        /\ ran' = [ran EXCEPT ![t] = @ + 1]
    BY <1>1, <1>4, Zenon DEF RunIntegratorTask, MarkRan
  <2>2. pc' \in {pc, "js"}
    BY <1>4 DEF RunIntegratorTask
  <2> QED
    BY <1>2, <2>1, <2>2, Zenon
<1> QED
  BY <1>3, <1>4

\* Every step keeps the types ...
LEMMA DebuggerTypesStep == DebuggerTypes /\ [Next]_vars => DebuggerTypes'
<1> SUFFICES ASSUME DebuggerTypes, [Next]_vars PROVE DebuggerTypes'
  OBVIOUS
<1> USE DEF DebuggerTypes, PausePoints, clientVars, queueVars, pauseVars, taskVars,
            requestVars
<1>1. CASE SetDebuggerEventCallback \/ ClearDebuggerEventCallback
  BY <1>1 DEF SetDebuggerEventCallback, ClearDebuggerEventCallback
<1>2. ASSUME NEW t \in Tasks, EnqueueRuntimeTask(t) PROVE DebuggerTypes'
  BY <1>2 DEF EnqueueRuntimeTask
<1>3. ASSUME NEW t \in Tasks, TriggerInterrupt(t) PROVE DebuggerTypes'
  BY <1>3 DEF TriggerInterrupt
<1>4. CASE Choices
  BY <1>4 DEF Choices, EnterJS, LeaveJS, DidPause, Destroy, DeferredPause, DropBreak
<1>5. CASE RunIntegratorTask
  <2>1. PICK t \in Tasks :
             /\ integrator' \in Seq(Tasks) /\ pc' \in {pc, "js"}
             /\ \/ alreadyRan' = alreadyRan /\ ran' = ran
                \/ alreadyRan' = alreadyRan \cup {t} /\ ran' = [ran EXCEPT ![t] = @ + 1]
    BY <1>5, IntegratorRuns, Zenon
  <2>2. alreadyRan' \subseteq Tasks /\ ran' \in [Tasks -> Nat]
    <3>1. CASE alreadyRan' = alreadyRan /\ ran' = ran
      BY <3>1
    <3>2. CASE alreadyRan' = alreadyRan \cup {t} /\ ran' = [ran EXCEPT ![t] = @ + 1]
      <4>1. ran[t] + 1 \in Nat
        OBVIOUS
      <4> QED
        BY <3>2, <4>1
    <3> QED
      BY <2>1, <3>1, <3>2
  <2>3. UNCHANGED <<interrupts, submitted, nextCommand>>
    BY <1>5 DEF RunIntegratorTask
  <2> QED
    BY <2>1, <2>2, <2>3
<1>6. CASE AsyncBreak \/ InterruptsDone
  BY <1>6 DEF AsyncBreak, InterruptsDone
<1>7. CASE RunInterrupt
  <2>1. TakeInterrupt
    BY <1>7 DEF RunInterrupt
  <2> QED
    BY <1>7, <2>1, TakeType DEF RunInterrupt, TakeInterrupt, NoCommand
<1>8. CASE RunEventCallback
  BY <1>8, ClientAssumption DEF RunEventCallback, NoCommand, GiveCommand
<1>9. CASE ProcessInterruptWhilePaused
  BY <1>9 DEF ProcessInterruptWhilePaused, ProcessLoop
<1>10. CASE RunInterruptWhilePaused
  <2>1. pc' \in {"process", "interrupt"} /\ TakeInterrupt
    BY <1>10 DEF RunInterruptWhilePaused
  <2>2. nextCommand' \in {"continue", "step", "eval", "moved"}
    BY <1>10, ClientAssumption DEF RunInterruptWhilePaused, NoCommand, GiveCommand
  <2> QED
    BY <2>1, <2>2, TakeType DEF TakeInterrupt
<1>11. CASE ExitPause \/ Return
  BY <1>11 DEF ExitPause, Abandon, Return
<1>12. CASE EvalComplete
  BY <1>12, ClientAssumption DEF EvalComplete, AwaitNext
<1>13. CASE UNCHANGED vars
  BY <1>13 DEF vars
<1> QED
  BY <1>1, <1>2, <1>3, <1>4, <1>5, <1>6, <1>7, <1>8, <1>9, <1>10, <1>11, <1>12, <1>13
     DEF Next, OtherThreads, RuntimeThread, Finished

\* ... and those of the flags.
LEMMA DebuggerFlagsStep == DebuggerFlags /\ [Next]_vars => DebuggerFlags'
<1> SUFFICES ASSUME DebuggerFlags, [Next]_vars PROVE DebuggerFlags'
  OBVIOUS
<1> USE DEF DebuggerFlags, clientVars, queueVars, pauseVars, taskVars, requestVars
<1>1. CASE OtherThreads
  <2>1. (pc = "wait") \in BOOLEAN /\ (pc \in PausePoints) \in BOOLEAN
    OBVIOUS
  <2>2. CASE SetDebuggerEventCallback
    BY <2>1, <2>2, Zenon DEF SetDebuggerEventCallback, Notify
  <2>3. CASE ClearDebuggerEventCallback
    BY <2>1, <2>3, Zenon DEF ClearDebuggerEventCallback, Notify
  <2>4. ASSUME NEW t \in Tasks, EnqueueRuntimeTask(t) \/ TriggerInterrupt(t)
        PROVE  DebuggerFlags'
    BY <2>1, <2>4, Zenon DEF EnqueueRuntimeTask, TriggerInterrupt, Notify
  <2> QED
    BY <1>1, <2>2, <2>3, <2>4, Zenon DEF OtherThreads
<1>2. CASE Choices
  <2>1. CASE EnterJS \/ LeaveJS \/ Destroy
    BY <2>1, Zenon DEF EnterJS, LeaveJS, Destroy
  <2>2. CASE DidPause
    BY <2>2, Zenon DEF DidPause
  <2>3. CASE DeferredPause
    BY <2>3, Zenon DEF DeferredPause
  <2>4. CASE DropBreak
    BY <2>4, Zenon DEF DropBreak
  <2> QED
    BY <1>2, <2>1, <2>2, <2>3, <2>4, Zenon DEF Choices
<1>3. CASE RunIntegratorTask \/ AsyncBreak \/ InterruptsDone
  BY <1>3, Zenon DEF RunIntegratorTask, AsyncBreak, InterruptsDone
<1>4. ASSUME NoCommand \/ GiveCommand(Commands)
      PROVE  isWaitingForCommand' \in BOOLEAN /\ evalCallback' \in BOOLEAN
  BY <1>4, Zenon DEF NoCommand, GiveCommand
<1>5. CASE RunInterrupt \/ RunInterruptWhilePaused
  BY <1>4, <1>5, Zenon DEF RunInterrupt, RunInterruptWhilePaused, TakeInterrupt
<1>6. CASE RunEventCallback
  BY <1>4, <1>6, Zenon DEF RunEventCallback
<1>7. CASE ProcessInterruptWhilePaused
  BY <1>7, Zenon DEF ProcessInterruptWhilePaused
<1>8. CASE ExitPause
  BY <1>8, Zenon DEF ExitPause, Abandon
<1>9. CASE Return
  BY <1>9, Zenon DEF Return
<1>10. CASE EvalComplete
  BY <1>10, Zenon DEF EvalComplete, AwaitNext
<1>11. CASE UNCHANGED vars
  BY <1>11, Zenon DEF vars
<1> QED
  BY <1>1, <1>2, <1>3, <1>5, <1>6, <1>7, <1>8, <1>9, <1>10, <1>11, Zenon
     DEF Next, RuntimeThread, Finished

------------------------------------------------------------------------------
(* Tasks.                                                                     *)

\* The flag of the task that is at the head of the queue says that it has run.
LEMMA TakeRuns ==
    ASSUME DebuggerTypes, TakeInterrupt
    PROVE  \E t \in Tasks :
             /\ t = Head(interrupts) /\ alreadyRan' = alreadyRan \cup {t}
             /\ ran' = IF t \in alreadyRan THEN ran ELSE [ran EXCEPT ![t] = @ + 1]
<1>1. PICK t \in Tasks : t = Head(interrupts)
  BY DEF DebuggerTypes, TakeInterrupt
<1> QED
  BY <1>1 DEF TakeInterrupt

\* Only taking an interrupt and the integrator's queue run tasks, and both set the flag.
LEMMA RanStep == DebuggerTypes /\ RanInv /\ [Next]_vars => RanInv'
<1> SUFFICES ASSUME DebuggerTypes, RanInv, [Next]_vars PROVE RanInv'
  OBVIOUS
<1>1. CASE TakeInterrupt
  BY <1>1, TakeRuns DEF RanInv, DebuggerTypes
<1>2. CASE RunIntegratorTask
  BY <1>2, IntegratorRuns DEF RanInv, DebuggerTypes
<1>3. CASE UNCHANGED taskVars
  BY <1>3 DEF RanInv, taskVars
<1> QED
  BY <1>1, <1>2, <1>3, Zenon
     DEF Next, OtherThreads, Choices, RuntimeThread, Finished, vars,
         SetDebuggerEventCallback, ClearDebuggerEventCallback, EnqueueRuntimeTask,
         TriggerInterrupt, EnterJS, LeaveJS, DidPause, Destroy, AsyncBreak,
         DeferredPause, DropBreak, InterruptsDone, RunInterrupt, RunInterruptWhilePaused, RunEventCallback,
         ProcessInterruptWhilePaused, ExitPause, Return, EvalComplete

\* An interrupt that is taken has run, and the others stay in the queue.
LEMMA TakeKeeps ==
    ASSUME DebuggerTypes, TakeInterrupt, NEW t \in Tasks, t \in alreadyRan \/ Queued(t)
    PROVE  (t \in alreadyRan \/ Queued(t))'
<1>1. alreadyRan' = alreadyRan \cup {Head(interrupts)} /\ interrupts # <<>>
      /\ interrupts' = Tail(interrupts)
  BY DEF TakeInterrupt
<1>2. CASE t \in alreadyRan
  BY <1>1, <1>2
<1>3. CASE Queued(t)
  <2>1. PICK k \in 1 .. Len(interrupts) : interrupts[k] = t
    BY <1>3 DEF Queued
  <2>2. CASE k = 1
    BY <1>1, <2>1, <2>2 DEF DebuggerTypes
  <2>3. CASE k # 1
    <3>1. k - 1 \in 1 .. Len(interrupts') /\ interrupts'[k - 1] = t
      BY <1>1, <2>1, <2>3 DEF DebuggerTypes
    <3> QED
      BY <3>1 DEF Queued
  <2> QED
    BY <2>2, <2>3
<1> QED
  BY <1>2, <1>3

\* A task that was submitted has run or is queued, and nothing is submitted to an API
\* that is destroyed.
LEMMA InterruptStep == DebuggerTypes /\ InterruptInv /\ [Next]_vars => InterruptInv'
<1> SUFFICES ASSUME DebuggerTypes, InterruptInv, [Next]_vars PROVE InterruptInv'
  OBVIOUS
<1> USE DEF InterruptInv, Alive, clientVars, queueVars, pauseVars, taskVars, requestVars
<1>1. ASSUME NEW t \in Tasks, EnqueueRuntimeTask(t) PROVE InterruptInv'
  BY <1>1 DEF EnqueueRuntimeTask, Queued, DebuggerTypes
<1>2. ASSUME NEW t \in Tasks, TriggerInterrupt(t) PROVE InterruptInv'
  <2>1. /\ interrupts' = Append(interrupts, t) /\ alreadyRan' = alreadyRan
        /\ submitted' = [submitted EXCEPT ![t] = "all"] /\ pc' = pc /\ Alive
    BY <1>2 DEF TriggerInterrupt
  <2>2. ASSUME NEW q \in Tasks, Queued(q) \/ q = t PROVE Queued(q)'
    <3>1. /\ Len(interrupts') = Len(interrupts) + 1 /\ Len(interrupts) \in Nat
          /\ interrupts'[Len(interrupts) + 1] = t
          /\ \A k \in 1 .. Len(interrupts) : interrupts'[k] = interrupts[k]
      BY <2>1 DEF DebuggerTypes
    <3>2. CASE q = t
      BY <3>1, <3>2 DEF Queued
    <3>3. CASE Queued(q)
      BY <3>1, <3>3 DEF Queued
    <3> QED
      BY <2>2, <3>2, <3>3
  <2>3. \A q \in Tasks : submitted'[q] = "all" => q = t \/ submitted[q] = "all"
    BY <2>1 DEF DebuggerTypes
  <2>4. \A q \in Tasks : submitted'[q] = "all" => q \in alreadyRan' \/ Queued(q)'
    BY <2>1, <2>2, <2>3
  <2> QED
    BY <2>1, <2>4
<1>3. CASE TakeInterrupt /\ pc' \notin {"destroy", "end"}
  <2>1. submitted' = submitted
    BY <1>3 DEF TakeInterrupt
  <2> QED
    BY <1>3, <2>1, TakeKeeps
<1>4. CASE RunInterrupt
  <2>1. TakeInterrupt /\ submitted' = submitted /\ pc' = pc /\ pc # "end"
    BY <1>4 DEF RunInterrupt, TakeInterrupt
  <2> QED
    BY <2>1, TakeKeeps
<1>5. CASE RunIntegratorTask
  <2>1. alreadyRan \subseteq alreadyRan' /\ pc' \in {pc, "js"}
    BY <1>5, IntegratorRuns
  <2>2. UNCHANGED <<submitted, interrupts>>
    BY <1>5 DEF RunIntegratorTask
  <2> QED
    BY <2>1, <2>2 DEF Queued
<1>6. CASE Destroy
  BY <1>6 DEF Destroy, Queued
<1>7. CASE InterruptsDone
  BY <1>7 DEF InterruptsDone, Queued
<1>8. CASE /\ UNCHANGED <<submitted, interrupts, alreadyRan>>
           /\ pc' = pc \/ pc' \notin {"destroy", "end"}
  BY <1>8 DEF Queued
<1>9. CASE RunInterruptWhilePaused
  BY <1>3, <1>9 DEF RunInterruptWhilePaused
<1>10. CASE RuntimeThread
  BY <1>4, <1>5, <1>7, <1>8, <1>9, <1>10
     DEF RuntimeThread, AsyncBreak, RunEventCallback, ProcessInterruptWhilePaused,
         ProcessLoop, ExitPause, Abandon, Return, EvalComplete
<1>11. CASE Choices
  BY <1>6, <1>8, <1>11
     DEF Choices, EnterJS, LeaveJS, DidPause, DeferredPause, DropBreak
<1>12. CASE OtherThreads
  BY <1>1, <1>2, <1>8, <1>12
     DEF OtherThreads, SetDebuggerEventCallback, ClearDebuggerEventCallback
<1> QED
  BY <1>8, <1>10, <1>11, <1>12 DEF Next, Finished, vars

------------------------------------------------------------------------------
(* Pauses.                                                                    *)

\* A client that is not there has gone in this pause, or before an evaluation in it.
LEMMA PauseStep == DebuggerTypes /\ PauseInv /\ [Next]_vars => PauseInv'
<1> SUFFICES ASSUME DebuggerTypes, PauseInv, [Next]_vars PROVE PauseInv'
  OBVIOUS
<1> USE DEF PauseInv, PausePoints, clientVars, queueVars, pauseVars, taskVars, requestVars
<1>1. CASE OtherThreads
  <2>1. CASE SetDebuggerEventCallback
    BY <2>1 DEF SetDebuggerEventCallback
  <2>2. CASE ClearDebuggerEventCallback
    <3>1. pc \in PausePoints => cleared'
      BY <2>2 DEF ClearDebuggerEventCallback
    <3> QED
      BY <2>2, <3>1 DEF ClearDebuggerEventCallback
  <2>3. ASSUME NEW t \in Tasks, EnqueueRuntimeTask(t) \/ TriggerInterrupt(t)
        PROVE  PauseInv'
    BY <2>3 DEF EnqueueRuntimeTask, TriggerInterrupt
  <2> QED
    BY <1>1, <2>1, <2>2, <2>3 DEF OtherThreads
<1>2. CASE Choices
  <2>1. CASE EnterJS \/ LeaveJS \/ Destroy
    BY <2>1 DEF EnterJS, LeaveJS, Destroy
  <2>2. CASE DidPause
    BY <2>2 DEF DidPause
  <2>3. CASE DeferredPause
    BY <2>3 DEF DeferredPause
  <2>4. CASE DropBreak
    BY <2>4 DEF DropBreak
  <2> QED
    BY <1>2, <2>1, <2>2, <2>3, <2>4 DEF Choices
<1>3. CASE RunIntegratorTask
  <2>1. UNCHANGED <<isWaitingForCommand, nextCommand, eventCallback, cleared>>
        /\ pc \in {"idle", "end"} /\ pc' \in {pc, "js"}
    BY <1>3, IntegratorRuns DEF RunIntegratorTask
  <2> QED
    BY <2>1
<1>4. CASE AsyncBreak \/ InterruptsDone \/ RunInterrupt
  BY <1>4 DEF AsyncBreak, InterruptsDone, RunInterrupt, NoCommand, TakeInterrupt
<1>5. CASE RunEventCallback
  BY <1>5, ClientAssumption DEF RunEventCallback, NoCommand, GiveCommand
<1>6. CASE ProcessInterruptWhilePaused
  BY <1>6 DEF ProcessInterruptWhilePaused, ProcessLoop
<1>7. CASE RunInterruptWhilePaused
  <2>1. /\ pc = "interrupt" /\ isWaitingForCommand /\ eventCallback' = eventCallback
        /\ cleared' = cleared
        /\ pc' = IF ~isWaitingForCommand' THEN "process" ELSE "interrupt"
    BY <1>7 DEF RunInterruptWhilePaused, StopAfterCommand, TakeInterrupt
  <2>2. ~isWaitingForCommand' => nextCommand' \in Commands
    BY <1>7, <2>1 DEF RunInterruptWhilePaused, NoCommand, GiveCommand
  <2> QED
    BY <2>1, <2>2, ClientAssumption
<1>8. CASE ExitPause
  BY <1>8 DEF ExitPause, Abandon
<1>9. CASE Return
  BY <1>9 DEF Return
<1>10. CASE EvalComplete
  BY <1>10, ClientAssumption DEF EvalComplete, AwaitNext
<1>11. CASE UNCHANGED vars
  BY <1>11 DEF vars
<1> QED
  BY <1>1, <1>2, <1>3, <1>4, <1>5, <1>6, <1>7, <1>8, <1>9, <1>10, <1>11
     DEF Next, RuntimeThread, Finished

\* While interrupts run, a command is still waited for.
LEMMA KeptStep ==
    ASSUME DebuggerTypes, PauseInv, [Next]_vars PROVE CommandKeptStep
<1> SUFFICES ASSUME pc \in {"interrupt", "process", "wait"}, ~isWaitingForCommand
             PROVE  interrupts' \in {interrupts}
                                     \cup {Append(interrupts, t) : t \in Tasks}
  BY DEF CommandKeptStep
<1>1. pc \in {"process", "wait"}
  BY DEF PauseInv
<1>2. CASE \E t \in Tasks : TriggerInterrupt(t)
  BY <1>2 DEF TriggerInterrupt
<1>3. CASE interrupts' = interrupts
  BY <1>3
<1> QED
  BY <1>1, <1>2, <1>3
     DEF Next, OtherThreads, Choices, RuntimeThread, Finished, vars, clientVars,
         SetDebuggerEventCallback, ClearDebuggerEventCallback, EnqueueRuntimeTask,
         EnterJS, LeaveJS, DidPause, Destroy, RunIntegratorTask, AsyncBreak,
         DeferredPause, DropBreak,
         RunInterrupt, InterruptsDone, RunEventCallback, ExitPause, Return,
         ProcessInterruptWhilePaused, RunInterruptWhilePaused, EvalComplete

------------------------------------------------------------------------------
\* All that is proved of each step holds always.
LEMMA DebuggerInvariants ==
    Spec => /\ []DebuggerTypes /\ []DebuggerFlags /\ []RanInv
            /\ []InterruptInv /\ []PauseInv
BY DebuggerInit, DebuggerTypesStep, DebuggerFlagsStep, RanStep, InterruptStep, PauseStep,
   PTL DEF Spec

\* A task that is in two queues runs at most once, and all that was submitted has
\* run when the API is destroyed (enqueueTask, runInterrupts).
THEOREM RunsOnce == Spec => []ExactlyOnce
<1>1. DebuggerTypes /\ DebuggerFlags /\ PauseInv => TypeOK
  BY DEF DebuggerTypes, DebuggerFlags, PauseInv, TypeOK
<1>2. DebuggerTypes /\ RanInv /\ InterruptInv
        => /\ \A t \in Tasks : ran[t] <= 1
           /\ pc = "end" => \A t \in Tasks : submitted[t] = "all" => ran[t] = 1
  BY DEF DebuggerTypes, RanInv, InterruptInv, Queued
<1>3. DebuggerTypes /\ DebuggerFlags /\ RanInv /\ InterruptInv /\ PauseInv => ExactlyOnce
  BY <1>1, <1>2, Zenon DEF ExactlyOnce
<1> QED
  BY <1>3, DebuggerInvariants, PTL

\* A command that didPause() returns was given in this pause, and it comes to have
\* none only if the event callback was cleared in it (processInterruptWhilePaused).
THEOREM CommandReturned == Spec => []ExitsWithCommand
<1>1. PauseInv => ExitsWithCommand
  BY DEF PauseInv, ExitsWithCommand, PausePoints
<1> QED
  BY <1>1, DebuggerInvariants, PTL

\* No interrupt is taken from the queue between the command and the return of
\* didPause() (runInterrupts).
THEOREM NoneTakenAfterCommand == Spec => CommandKept
<1>1. DebuggerTypes /\ PauseInv /\ [Next]_vars => CommandKeptStep
  BY KeptStep
<1>2. DebuggerTypes /\ PauseInv /\ [Next]_vars => [CommandKeptStep]_vars
  BY <1>1
<1> QED
  BY <1>2, DebuggerInvariants, PTL DEF Spec, CommandKept
==============================================================================
