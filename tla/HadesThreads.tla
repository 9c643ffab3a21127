---------------------------- MODULE HadesThreads ----------------------------
(***************************************************************************)
(* The mutator and the background thread of the Hades garbage collector:   *)
(* who may hold gcMutex_, when the background task runs, pauses and exits, *)
(* and how an old generation (OG) collection moves through its phases      *)
(* (lib/VM/gcs/HadesGC.cpp, include/hermes/VM/HadesGC.h).                  *)
(*                                                                         *)
(* Heap contents are abstracted to counts: unmarked cells that the marker  *)
(* can still discover, entries of the worklists, segments left to sweep.   *)
(* Statistics, sizes and thresholds only influence choices, so the choices *)
(* they decide (is the heap full, is the OG full enough, is there budget   *)
(* left) are nondeterministic.                                             *)
(*                                                                         *)
(* Steps that run with gcMutex_ held and that the other thread cannot      *)
(* observe are taken together; every acquire, release, wait, notify and    *)
(* unlocked access is a step of its own.                                   *)
(***************************************************************************)
EXTENDS Integers, FiniteSets

CONSTANTS
    kConcurrentGC,      \* GCConcurrency.h: background thread or incremental mode
    kBarrierChunkSize,  \* MarkState::kBarrierChunkSize (128 in the code)
    kMaxBarrierChunks,  \* kMaxBarrierWorklistSize / kBarrierChunkSize (16)
    MaxUnmarked,        \* bound: cells an OG collection can find unmarked
    MaxSegments,        \* bound: OG segments at the start of a collection
    MaxSpurious         \* bound: spurious wake-ups of condition variables

ASSUME ConcurrencyAssumption == kConcurrentGC \in BOOLEAN
ASSUME ChunkAssumption ==
    kBarrierChunkSize \in Nat \ {0} /\ kMaxBarrierChunks \in Nat \ {0}
ASSUME BoundAssumption ==
    MaxUnmarked \in Nat /\ MaxSegments \in Nat /\ MaxSpurious \in Nat

VARIABLES
    gcMutex,               \* "free", "mut" or "bg"
    waiters,               \* threads blocked in ogPauseCondVar_.wait
    ogPaused, backgroundTaskActive,
    concurrentPhase, ogMarkingBarriers,
    markState,             \* markState_ has a value
    compactee,             \* compactee_.segment is set
    promoteYGToOG,
    segNumber,             \* sweepIterator_.segNumber
    unmarked, localWorklist, barrierWorklist, barrierChunkIndex,
    queue, shutdown,       \* the Executor: tasks queued, shutdown_
    notified,              \* the worker was notified while it waited on cv_
    pcM, pcB,              \* control points of mutator and background thread
    op,                    \* the entry point the mutator is executing
    ret,                   \* where waitForCollectionToFinish returns to
    doCompaction,          \* local of youngGenCollection
    initialPhase,          \* local of yieldToOldGen
    fullCycle,             \* history: progress of the cycle collect() owes
    spurious               \* spurious wake-ups so far

mutexVars == <<gcMutex, waiters, ogPaused>>
markVars  == <<unmarked, localWorklist, barrierWorklist, barrierChunkIndex>>
gcVars    == <<concurrentPhase, ogMarkingBarriers, markState, segNumber>>
execVars  == <<queue, shutdown, notified, pcB, backgroundTaskActive>>
heapVars  == <<compactee, promoteYGToOG>>
mutVars   == <<pcM, op, ret, doCompaction, initialPhase>>
vars == <<mutexVars, markVars, gcVars, execVars, heapVars, mutVars,
          fullCycle, spurious>>

Phase == {"None", "Mark", "CompleteMarking", "Sweep"}

\* Entry points that take gcMutex_ through ensureBackgroundTaskPaused() ...
PausingOps == {"allocSlow", "handleSan", "allocLongLived", "barrier"}
\* ... and those that take it with a plain lock_guard.  "snapshot" stands for
\* createSnapshot and the heap profiler switches, "external" for the
\* operations that only read or adjust counters.
LockingOps == {"collect", "snapshot", "external", "finalizeAll"}
\* "collect2" is the tail of collect(): its second young gen collection.
Ops == PausingOps \cup LockingOps \cup {"collect2"}

YGOps == {"allocSlow", "handleSan", "collect", "collect2"}

kMaxBarrierWorklistSize == kMaxBarrierChunks * kBarrierChunkSize

MutatorPoints == {"idle", "pause", "lock", "locked", "wait", "yg", "ygEnd",
                  "yield", "yieldLoop", "ygTail", "ogWait", "ogCondVar",
                  "ygReturn", "unlock", "destroy", "join", "end"}
TaskPoints    == {"taskLock", "loop", "step", "condVar"}
WorkerPoints  == {"head", "execWait", "taskDone", "exited"} \cup TaskPoints

Smaller(a, b) == IF a < b THEN a ELSE b

------------------------------------------------------------------------------
(* Condition variable ogPauseCondVar_.                                      *)

\* notify_one: one waiter, if there is any, becomes runnable.
NotifyOne(w) == IF w = {} THEN {{}} ELSE {w \ {t} : t \in w}

------------------------------------------------------------------------------
(* Marking: incrementalMark(markLimit) with the markState_ fields.          *)

\* The effect of incrementalMark(limit) on the counts, where worklist is the
\* contents of barrierWorklist_ that it drains.  d of those were unmarked; the
\* loop then pops k cells from the local worklist and pushes n new ones.
\* limit 0 pops nothing; "some" pops at least one cell when there is one; "all"
\* runs the local worklist dry.
IncrementalMark(limit, worklist) ==
    \E d \in 0 .. Smaller(worklist, unmarked) :
    \E n \in 0 .. (unmarked - d) :
    \E k \in 0 .. (localWorklist + d + n) :
        /\ limit = "zero" => k = 0
        /\ (limit = "some" /\ localWorklist + d > 0) => k > 0
        /\ limit = "all" => k = localWorklist + d + n
        /\ k = 0 => n = 0
        /\ unmarked' = unmarked - d - n
        /\ localWorklist' = localWorklist + d + n - k
        /\ barrierWorklist' = 0

\* completeMarking(): barriers off, the pending push chunk is flushed, all is
\* drained, then markState_ is reset, which discards every worklist.  Mutated
\* form: the barriers stay on.
CompleteMarking_BarriersLeftOn ==
    /\ UNCHANGED ogMarkingBarriers
    /\ markState' = FALSE
    /\ unmarked' = 0 /\ localWorklist' = 0
    /\ barrierWorklist' = 0 /\ barrierChunkIndex' = 0
CompleteMarking ==
    /\ ogMarkingBarriers' = FALSE
    /\ markState' = FALSE
    /\ unmarked' = 0 /\ localWorklist' = 0
    /\ barrierWorklist' = 0 /\ barrierChunkIndex' = 0

\* OldGen::sweepNext(): one segment per call; with no segment left it only
\* ends the sweep.  The sweep is over when the number left is zero.
SweepNext ==
    segNumber' = IF segNumber = 0 THEN 0 ELSE segNumber - 1

\* The sweep that ends is the one collect() waits for, if that one was started.
SweepEnded == IF fullCycle = "started" THEN "finished" ELSE fullCycle

\* Where marking goes when the local worklist is empty.  Mutated form: straight
\* to sweeping, without the stop-the-world completion.
AfterMark_SkipsCompletion == "Sweep"
AfterMark == "CompleteMarking"

CollectMark ==
    /\ concurrentPhase = "Mark"
    /\ IncrementalMark("some", barrierWorklist)
    /\ concurrentPhase' = IF localWorklist' = 0 THEN AfterMark ELSE "Mark"
    /\ UNCHANGED <<barrierChunkIndex, ogMarkingBarriers, markState, segNumber,
                   fullCycle>>

CollectComplete ==
    /\ concurrentPhase = "CompleteMarking"
    /\ CompleteMarking
    /\ concurrentPhase' = "Sweep"
    /\ UNCHANGED <<segNumber, fullCycle>>

CollectSweep ==
    /\ concurrentPhase = "Sweep"
    /\ SweepNext
    /\ IF segNumber' = 0
       THEN concurrentPhase' = "None" /\ fullCycle' = SweepEnded
       ELSE UNCHANGED <<concurrentPhase, fullCycle>>
    /\ UNCHANGED <<markVars, ogMarkingBarriers, markState>>

\* incrementalCollect(backgroundThread): one step of an OG collection.  The
\* background thread leaves CompleteMarking to the mutator.
IncrementalCollect(backgroundThread) ==
    \/ /\ \/ concurrentPhase = "None"
          \/ backgroundThread /\ concurrentPhase = "CompleteMarking"
       /\ UNCHANGED <<markVars, gcVars, fullCycle>>
    \/ CollectMark
    \/ ~backgroundThread /\ CollectComplete
    \/ CollectSweep

------------------------------------------------------------------------------
(* The Executor and the background task.                                    *)

\* Executor::add: queue_.emplace_back and cv_.notify_one, under mtx_.
ExecutorAdd ==
    /\ queue' = queue + 1
    /\ notified' = (notified \/ pcB = "execWait")

\* collectOGInBackground(): mark the task active and hand it to the executor.
CollectOGInBackground ==
    /\ backgroundTaskActive' = TRUE
    /\ ExecutorAdd

\* The inner loop of worker(): take the next task.
TakeTask == queue > 0 /\ queue' = queue - 1 /\ pcB' = "taskLock"

\* worker(): while (!shutdown_), then the predicate of cv_.wait, with mtx_ held
\* throughout.
WorkerHead ==
    /\ pcB = "head"
    /\ \/ shutdown /\ pcB' = "exited" /\ UNCHANGED queue
       \/ ~shutdown /\ TakeTask
       \/ ~shutdown /\ queue = 0 /\ pcB' = "execWait" /\ UNCHANGED queue
    /\ UNCHANGED <<shutdown, notified, backgroundTaskActive, mutexVars, markVars,
                   gcVars, heapVars, mutVars, fullCycle, spurious>>

\* The worker wakes from cv_.wait and evaluates the predicate again.
WorkerWake ==
    /\ pcB = "execWait"
    /\ \/ notified /\ notified' = FALSE /\ UNCHANGED spurious
       \/ spurious < MaxSpurious /\ spurious' = spurious + 1 /\ UNCHANGED notified
    /\ \/ TakeTask
       \/ queue = 0 /\ shutdown /\ pcB' = "head" /\ UNCHANGED queue
       \/ queue = 0 /\ ~shutdown /\ UNCHANGED <<queue, pcB>>
    /\ UNCHANGED <<shutdown, backgroundTaskActive, mutexVars, markVars, gcVars,
                   heapVars, mutVars, fullCycle>>

\* fn() returned; the worker takes mtx_ again and looks for more tasks.
WorkerTaskDone ==
    /\ pcB = "taskDone"
    /\ \/ TakeTask
       \/ queue = 0 /\ pcB' = "head" /\ UNCHANGED queue
    /\ UNCHANGED <<shutdown, notified, backgroundTaskActive, mutexVars, markVars,
                   gcVars, heapVars, mutVars, fullCycle, spurious>>

\* The task begins: std::unique_lock lk(gcMutex_).
TaskLock ==
    /\ pcB = "taskLock" /\ gcMutex = "free"
    /\ gcMutex' = "bg" /\ pcB' = "loop"
    /\ UNCHANGED <<waiters, ogPaused, queue, shutdown, notified,
                   backgroundTaskActive, markVars, gcVars, heapVars, mutVars,
                   fullCycle, spurious>>

\* ogPauseCondVar_.wait(lk, !ogPaused_): go on when no pause is requested,
\* otherwise block and release gcMutex_.
TaskCheckPaused ==
    /\ pcB = "loop"
    /\ IF ogPaused
       THEN /\ pcB' = "condVar" /\ gcMutex' = "free"
            /\ waiters' = waiters \cup {"bg"}
       ELSE pcB' = "step" /\ UNCHANGED <<gcMutex, waiters>>
    /\ UNCHANGED <<ogPaused, queue, shutdown, notified, backgroundTaskActive,
                   markVars, gcVars, heapVars, mutVars, fullCycle, spurious>>

\* Notified (or woken spuriously), the task takes gcMutex_ and tests again.
TaskResume ==
    /\ pcB = "condVar" /\ gcMutex = "free"
    /\ \/ "bg" \notin waiters /\ UNCHANGED <<waiters, spurious>>
       \/ /\ "bg" \in waiters /\ spurious < MaxSpurious
          /\ waiters' = waiters \ {"bg"} /\ spurious' = spurious + 1
    /\ gcMutex' = "bg" /\ pcB' = "loop"
    /\ UNCHANGED <<ogPaused, queue, shutdown, notified, backgroundTaskActive,
                   markVars, gcVars, heapVars, mutVars, fullCycle>>

\* The task leaves its loop when the collection is over or needs the mutator.
\* Mutated form: it keeps waiting for the mutator to complete marking.
TaskOver_OnlyNone(p) == p = "None"
TaskOver(p) == p \in {"None", "CompleteMarking"}

\* The exit of the task: backgroundTaskActive_ is cleared and the mutator, in
\* case it waits, notified before gcMutex_ is released.
TaskExit ==
    /\ backgroundTaskActive' = FALSE
    /\ waiters' \in NotifyOne(waiters)
    /\ gcMutex' = "free" /\ pcB' = "taskDone"

\* One turn of the task's loop: incrementalCollect(true), then leave when the
\* collection is over or waits for the mutator to complete marking.
TaskStep ==
    /\ pcB = "step"
    /\ IncrementalCollect(TRUE)
    /\ IF TaskOver(concurrentPhase')
       THEN TaskExit
       ELSE pcB' = "loop" /\ UNCHANGED <<backgroundTaskActive, waiters, gcMutex>>
    /\ UNCHANGED <<ogPaused, queue, shutdown, notified, heapVars, mutVars,
                   spurious>>

Background == \/ WorkerHead \/ WorkerWake \/ WorkerTaskDone
              \/ TaskLock \/ TaskCheckPaused \/ TaskResume \/ TaskStep

------------------------------------------------------------------------------
(* The mutator: entering and leaving the collector.                         *)

\* An entry point is called.  ensureBackgroundTaskPaused() first raises
\* ogPaused_ when there is a background thread.  handleSan is the forced young
\* gen collection of the handle sanitizer, collect() a full collection.
Enter(o) ==
    /\ pcM = "idle"
    /\ o \in (PausingOps \ {"barrier"}) \cup LockingOps
    /\ op' = o
    /\ IF o \in PausingOps /\ kConcurrentGC
       THEN pcM' = "pause" /\ ogPaused' = TRUE
       ELSE pcM' = "lock" /\ UNCHANGED ogPaused
    /\ UNCHANGED <<gcMutex, waiters, markVars, gcVars, execVars, heapVars, ret,
                   doCompaction, initialPhase, fullCycle, spurious>>

\* handleFullBarrierChunk returns without draining below the limit.
BelowLimit(size) == size < kMaxBarrierWorklistSize

\* barrierEnqueue(cell), from a write or read barrier, without gcMutex_.  A full
\* push chunk is first moved to barrierWorklist_; if that reaches its limit the
\* mutator pauses the background thread to drain it.
BarrierEnqueue ==
    /\ pcM = "idle" /\ ogMarkingBarriers
    /\ IF barrierChunkIndex < kBarrierChunkSize
       THEN /\ barrierChunkIndex' = barrierChunkIndex + 1
            /\ UNCHANGED <<barrierWorklist, pcM, op, ogPaused>>
       ELSE /\ barrierWorklist' = barrierWorklist + kBarrierChunkSize
            /\ IF BelowLimit(barrierWorklist')
               THEN barrierChunkIndex' = 1 /\ UNCHANGED <<pcM, op, ogPaused>>
               ELSE /\ barrierChunkIndex' = 0
                    /\ op' = "barrier"
                    /\ IF kConcurrentGC
                       THEN pcM' = "pause" /\ ogPaused' = TRUE
                       ELSE pcM' = "lock" /\ UNCHANGED ogPaused
    /\ UNCHANGED <<gcMutex, waiters, unmarked, localWorklist, gcVars, execVars,
                   heapVars, ret, doCompaction, initialPhase, fullCycle, spurious>>

\* pauseBackgroundTask(): with gcMutex_ acquired, let the task resume (it then
\* blocks on gcMutex_).
PauseLock ==
    /\ pcM = "pause" /\ gcMutex = "free"
    /\ gcMutex' = "mut" /\ pcM' = "locked"
    /\ ogPaused' = FALSE
    /\ waiters' \in NotifyOne(waiters)
    /\ UNCHANGED <<markVars, gcVars, execVars, heapVars, op, ret, doCompaction,
                   initialPhase, fullCycle, spurious>>

\* std::lock_guard lk{gcMutex_}.
PlainLock ==
    /\ pcM = "lock" /\ gcMutex = "free"
    /\ gcMutex' = "mut" /\ pcM' = "locked"
    /\ UNCHANGED <<waiters, ogPaused, markVars, gcVars, execVars, heapVars, op,
                   ret, doCompaction, initialPhase, fullCycle, spurious>>

\* Go to waitForCollectionToFinish and return to r.
WaitThen(r) == pcM' = "wait" /\ ret' = r

\* ttiReached(): promotion of whole young generations ends; no lock is taken.
TTIReached ==
    /\ pcM = "idle" /\ promoteYGToOG
    /\ promoteYGToOG' = FALSE
    /\ UNCHANGED <<mutexVars, markVars, gcVars, execVars, compactee, mutVars,
                   fullCycle, spurious>>

Unlock ==
    /\ pcM = "unlock"
    /\ gcMutex' = "free"
    /\ pcM' = IF op = "finalizeAll" THEN "destroy" ELSE "idle"
    /\ UNCHANGED <<waiters, ogPaused, markVars, gcVars, execVars, heapVars, op,
                   ret, doCompaction, initialPhase, fullCycle, spurious>>

------------------------------------------------------------------------------
(* The mutator with gcMutex_ held.                                          *)

\* collect(): leave promotion mode, finish any collection under way, then run
\* the first, forcing, young gen collection.
StartCollect ==
    /\ pcM = "locked" /\ op = "collect"
    /\ promoteYGToOG' = FALSE
    /\ fullCycle' = "owed"
    /\ WaitThen("yg")
    /\ UNCHANGED <<mutexVars, markVars, gcVars, execVars, compactee, op,
                   doCompaction, initialPhase, spurious>>

\* allocSlow and the handle sanitizer go straight to a young gen collection.
StartYoungGen ==
    /\ pcM = "locked" /\ op \in {"allocSlow", "handleSan"}
    /\ pcM' = "yg"
    /\ UNCHANGED <<mutexVars, markVars, gcVars, execVars, heapVars, op, ret,
                   doCompaction, initialPhase, fullCycle, spurious>>

\* Snapshots and profilers finish the collection under way.
StartSnapshot ==
    /\ pcM = "locked" /\ op = "snapshot"
    /\ WaitThen("unlock")
    /\ UNCHANGED <<mutexVars, markVars, gcVars, execVars, heapVars, op,
                   doCompaction, initialPhase, fullCycle, spurious>>

\* allocLongLived / allocLarge: directly in the OG; when no segment can be
\* added, the collection under way is finished first.
StartAllocLongLived ==
    /\ pcM = "locked" /\ op = "allocLongLived"
    /\ \/ pcM' = "unlock" /\ UNCHANGED ret
       \/ WaitThen("unlock")
    /\ UNCHANGED <<mutexVars, markVars, gcVars, execVars, heapVars, op,
                   doCompaction, initialPhase, fullCycle, spurious>>

\* The slow tail of handleFullBarrierChunk: incrementalMark(0), then the cell is
\* put in the now empty push chunk.
DrainFullBarrierChunk ==
    /\ pcM = "locked" /\ op = "barrier"
    /\ IncrementalMark("zero", barrierWorklist)
    /\ barrierChunkIndex' = barrierChunkIndex + 1
    /\ pcM' = "unlock"
    /\ UNCHANGED <<mutexVars, gcVars, execVars, heapVars, op, ret, doCompaction,
                   initialPhase, fullCycle, spurious>>

\* credit/debitExternalMemory, getHeapInfo, printStats: nothing but the lock.
AccountExternal ==
    /\ pcM = "locked" /\ op = "external"
    /\ pcM' = "unlock"
    /\ UNCHANGED <<mutexVars, markVars, gcVars, execVars, heapVars, op, ret,
                   doCompaction, initialPhase, fullCycle, spurious>>

\* finalizeAll(): abandon the collection under way.
FinalizeAll ==
    /\ pcM = "locked" /\ op = "finalizeAll"
    /\ concurrentPhase' = "None"
    /\ pcM' = "unlock"
    /\ UNCHANGED <<mutexVars, markVars, ogMarkingBarriers, markState, segNumber,
                   execVars, heapVars, op, ret, doCompaction, initialPhase,
                   fullCycle, spurious>>

\* Mutated form: the mutator passes backgroundThread = true.
WaitStep_AsBackground == IncrementalCollect(TRUE)
WaitStep == IncrementalCollect(FALSE)

\* waitForCollectionToFinish(): the mutator does the remaining work itself,
\* without ever releasing gcMutex_.
WaitForCollection ==
    /\ pcM = "wait"
    /\ IF concurrentPhase = "None"
       THEN pcM' = ret /\ UNCHANGED <<markVars, gcVars, fullCycle>>
       ELSE WaitStep /\ UNCHANGED pcM
    /\ UNCHANGED <<mutexVars, execVars, heapVars, op, ret, doCompaction,
                   initialPhase, spurious>>

\* youngGenCollection, promotion: the segment moves to the OG as a whole when a
\* new one can be created.
PromoteYoungGen ==
    /\ pcM = "yg" /\ promoteYGToOG
    /\ doCompaction' = (compactee /\ concurrentPhase \in {"Sweep", "None"})
    /\ pcM' = "yield"
    /\ UNCHANGED <<mutexVars, markVars, gcVars, execVars, heapVars, op, ret,
                   initialPhase, fullCycle, spurious>>

\* youngGenCollection, evacuation (promotion is off, or turned off because no
\* segment could be created).  The OG may be full half way, in which case
\* OldGen::allocSlow finishes the OG collection before evacuation continues.
EvacuateYoungGen ==
    /\ pcM = "yg"
    /\ promoteYGToOG' = FALSE
    /\ doCompaction' = (compactee /\ concurrentPhase \in {"Sweep", "None"})
    /\ \/ pcM' = "ygEnd" /\ UNCHANGED ret
       \/ WaitThen("ygEnd")
    /\ UNCHANGED <<mutexVars, markVars, gcVars, execVars, compactee, op,
                   initialPhase, fullCycle, spurious>>

\* The evacuation is over: finalizeCompactee() releases the compacted segment.
FinishYoungGen ==
    /\ pcM = "ygEnd"
    /\ compactee' = (compactee /\ ~doCompaction)
    /\ pcM' = "yield"
    /\ UNCHANGED <<mutexVars, markVars, gcVars, execVars, promoteYGToOG, op, ret,
                   doCompaction, initialPhase, fullCycle, spurious>>

\* yieldToOldGen(), concurrent mode: the mutator completes marking and hands
\* the sweep to a new background task; nothing to do in the other phases.
YieldConcurrent ==
    /\ pcM = "yield" /\ kConcurrentGC
    /\ IF concurrentPhase = "CompleteMarking"
       THEN /\ IncrementalCollect(FALSE)
            /\ CollectOGInBackground
       ELSE UNCHANGED <<markVars, gcVars, fullCycle, queue, notified,
                        backgroundTaskActive>>
    /\ pcM' = "ygTail"
    /\ UNCHANGED <<mutexVars, shutdown, pcB, heapVars, op, ret, doCompaction,
                   initialPhase, spurious>>

\* yieldToOldGen(), incremental mode: work until the phase changes or the
\* budget is spent.
YieldIncremental ==
    /\ pcM = "yield" /\ ~kConcurrentGC
    /\ initialPhase' = concurrentPhase
    /\ pcM' = IF concurrentPhase = "None" THEN "ygTail" ELSE "yieldLoop"
    /\ UNCHANGED <<mutexVars, markVars, gcVars, execVars, heapVars, op, ret,
                   doCompaction, fullCycle, spurious>>

YieldStep ==
    /\ pcM = "yieldLoop"
    /\ IncrementalCollect(FALSE)
    /\ \/ pcM' = "ygTail"
       \/ concurrentPhase' = initialPhase /\ UNCHANGED pcM
    /\ UNCHANGED <<mutexVars, execVars, heapVars, op, ret, doCompaction,
                   initialPhase, spurious>>

\* The end of youngGenCollection: a new OG collection may start only when the
\* last one is over and left no compaction pending; collect() and the handle
\* sanitizer force it, otherwise the occupancy of the OG decides.
\* Mutated forms: a pending compaction is ignored; collect() does not force.
MayStartOldGen_IgnoresCompactee == concurrentPhase = "None"
ForcesOldGen_NotCollect(o) == o = "handleSan"

ForcesOldGen(o) == o \in {"collect", "handleSan"}
MayStartOldGen == concurrentPhase = "None" /\ ~compactee

TailYoungGen ==
    /\ pcM = "ygTail"
    /\ \/ MayStartOldGen /\ pcM' = "ogWait"
       \/ ~(MayStartOldGen /\ ForcesOldGen(op)) /\ pcM' = "ygReturn"
    /\ UNCHANGED <<mutexVars, markVars, gcVars, execVars, heapVars, op, ret,
                   doCompaction, initialPhase, fullCycle, spurious>>

------------------------------------------------------------------------------
(* oldGenCollection().                                                      *)

\* Mutated form: the new collection does not wait for a lingering task.
TaskLingers_Ignored == FALSE
TaskLingers == kConcurrentGC /\ backgroundTaskActive

\* A task of an earlier collection may not have noticed its end yet: wait on
\* ogPauseCondVar_ for it, releasing gcMutex_.
OldGenWait ==
    /\ pcM = "ogWait" /\ TaskLingers
    /\ waiters' = waiters \cup {"mut"}
    /\ gcMutex' = "free" /\ pcM' = "ogCondVar"
    /\ UNCHANGED <<ogPaused, markVars, gcVars, execVars, heapVars, op, ret,
                   doCompaction, initialPhase, fullCycle, spurious>>

OldGenWake ==
    /\ pcM = "ogCondVar" /\ gcMutex = "free"
    /\ \/ "mut" \notin waiters /\ UNCHANGED <<waiters, spurious>>
       \/ /\ "mut" \in waiters /\ spurious < MaxSpurious
          /\ waiters' = waiters \ {"mut"} /\ spurious' = spurious + 1
    /\ gcMutex' = "mut" /\ pcM' = "ogWait"
    /\ UNCHANGED <<ogPaused, markVars, gcVars, execVars, heapVars, op, ret,
                   doCompaction, initialPhase, fullCycle>>

\* prepareCompactee(forceCompaction), then initializeSweep(): with n segments in
\* the OG, the last may become the compactee if it is not the only one.
PrepareCompactee(forceCompaction) ==
    \E n \in 0 .. MaxSegments :
        \/ n > 1 /\ compactee' = TRUE /\ segNumber' = n - 1
        \/ ~(forceCompaction /\ n > 1) /\ segNumber' = n /\ UNCHANGED compactee

\* Clear the mark bits, create markState_, mark the roots, switch the barriers
\* on and hand marking to the background thread.
OldGenStart ==
    /\ pcM = "ogWait" /\ ~TaskLingers
    /\ promoteYGToOG' = FALSE
    /\ markState' = TRUE
    /\ \E live \in 0 .. MaxUnmarked : \E rooted \in 0 .. live :
           unmarked' = live - rooted /\ localWorklist' = rooted
    /\ barrierWorklist' = 0 /\ barrierChunkIndex' = 0
    /\ concurrentPhase' = "Mark" /\ ogMarkingBarriers' = TRUE
    /\ PrepareCompactee(ForcesOldGen(op))
    /\ IF kConcurrentGC
       THEN CollectOGInBackground
       ELSE UNCHANGED <<queue, notified, backgroundTaskActive>>
    /\ fullCycle' = IF fullCycle = "owed" THEN "started" ELSE fullCycle
    /\ pcM' = "ygReturn"
    /\ UNCHANGED <<mutexVars, shutdown, pcB, op, ret, doCompaction,
                   initialPhase, spurious>>

\* Back in the caller of youngGenCollection.  collect() finishes the collection
\* it forced and runs a second young gen collection to complete a compaction.
ReturnYoungGen ==
    /\ pcM = "ygReturn"
    /\ IF op = "collect"
       THEN op' = "collect2" /\ WaitThen("yg")
       ELSE pcM' = "unlock" /\ UNCHANGED <<op, ret>>
    /\ UNCHANGED <<mutexVars, markVars, gcVars, execVars, heapVars, doCompaction,
                   initialPhase, fullCycle, spurious>>

------------------------------------------------------------------------------
(* Destruction.                                                             *)

\* ~HadesGC, then ~Executor: request shutdown, notify the worker ...
Destroy ==
    /\ pcM = "destroy"
    /\ shutdown' = TRUE
    /\ notified' = (notified \/ pcB = "execWait")
    /\ pcM' = "join"
    /\ UNCHANGED <<mutexVars, markVars, gcVars, queue, pcB, backgroundTaskActive,
                   heapVars, op, ret, doCompaction, initialPhase, fullCycle,
                   spurious>>

\* ... and join it.  Without a background thread there is nothing to join.
Join ==
    /\ pcM = "join" /\ pcB = "exited"
    /\ pcM' = "end"
    /\ UNCHANGED <<mutexVars, markVars, gcVars, execVars, heapVars, op, ret,
                   doCompaction, initialPhase, fullCycle, spurious>>

\* The heap is gone; nothing happens any more.
Finished == pcM = "end" /\ UNCHANGED vars

------------------------------------------------------------------------------
\* Calls that the program may make, or not, while it is not in the collector.
Mutate == \/ \E o \in Ops : Enter(o)
          \/ BarrierEnqueue
          \/ TTIReached

\* What the mutator does on its own once it has called the collector.
InCollector ==
    \/ PauseLock \/ PlainLock \/ Unlock
    \/ StartCollect \/ StartYoungGen \/ StartSnapshot \/ StartAllocLongLived
    \/ DrainFullBarrierChunk \/ AccountExternal \/ FinalizeAll
    \/ WaitForCollection
    \/ PromoteYoungGen \/ EvacuateYoungGen \/ FinishYoungGen
    \/ YieldConcurrent \/ YieldIncremental \/ YieldStep \/ TailYoungGen
    \/ OldGenWait \/ OldGenWake \/ OldGenStart \/ ReturnYoungGen
    \/ Destroy \/ Join

Init ==
    /\ gcMutex = "free" /\ waiters = {} /\ ogPaused = FALSE
    /\ backgroundTaskActive = FALSE
    /\ concurrentPhase = "None" /\ ogMarkingBarriers = FALSE /\ markState = FALSE
    /\ compactee = FALSE /\ promoteYGToOG \in BOOLEAN
    /\ segNumber = 0
    /\ unmarked = 0 /\ localWorklist = 0
    /\ barrierWorklist = 0 /\ barrierChunkIndex = 0
    /\ queue = 0 /\ shutdown = FALSE /\ notified = FALSE
    /\ pcM = "idle" /\ pcB = IF kConcurrentGC THEN "head" ELSE "exited"
    /\ op = "external" /\ ret = "unlock"
    /\ doCompaction = FALSE /\ initialPhase = "None"
    /\ fullCycle = "none" /\ spurious = 0

Next == Mutate \/ InCollector \/ Background \/ Finished

Spec == Init /\ [][Next]_vars

\* Each thread keeps running: the operating system schedules the background
\* thread, and the mutator, once in the collector, executes its code.  A mutex
\* that stays free is eventually taken; no fairness among contenders is assumed.
FairSpec == Spec /\ WF_vars(Background) /\ WF_vars(InCollector)

------------------------------------------------------------------------------
(* Properties.                                                              *)

TypeOK ==
    /\ gcMutex \in {"free", "mut", "bg"}
    /\ waiters \subseteq {"mut", "bg"}
    /\ ogPaused \in BOOLEAN /\ backgroundTaskActive \in BOOLEAN
    /\ concurrentPhase \in Phase
    /\ ogMarkingBarriers \in BOOLEAN /\ markState \in BOOLEAN
    /\ compactee \in BOOLEAN /\ promoteYGToOG \in BOOLEAN
    /\ segNumber \in 0 .. MaxSegments
    /\ unmarked \in 0 .. MaxUnmarked /\ localWorklist \in 0 .. MaxUnmarked
    /\ barrierWorklist \in Nat
    /\ barrierChunkIndex \in 0 .. kBarrierChunkSize
    /\ queue \in Nat /\ shutdown \in BOOLEAN /\ notified \in BOOLEAN
    /\ pcM \in MutatorPoints /\ pcB \in WorkerPoints
    /\ op \in Ops /\ ret \in {"yg", "ygEnd", "unlock"}
    /\ doCompaction \in BOOLEAN /\ initialPhase \in Phase
    /\ fullCycle \in {"none", "owed", "started", "finished"}
    /\ spurious \in 0 .. MaxSpurious

\* What yieldToOldGen() asserts "while we are both on the mutator and holding
\* gcMutex_": barriers and mark state exist exactly while marking, and in the
\* phases that run in the background a task exists to run them.  The last
\* conjunct is the assertion of collectOGInBackground(), which it calls when
\* marking is to be completed.
YieldAssertions ==
    pcM = "yield" =>
        /\ ogMarkingBarriers = (concurrentPhase \in {"Mark", "CompleteMarking"})
        /\ markState = (concurrentPhase \in {"Mark", "CompleteMarking"})
        /\ kConcurrentGC /\ concurrentPhase \in {"Mark", "Sweep"}
               => backgroundTaskActive
        /\ concurrentPhase = "CompleteMarking" => ~backgroundTaskActive

\* backgroundTaskActive_ tells the truth: it is set exactly while one task is
\* queued or running, and there is never a second one ("Should only have one
\* active task at a time"; "must be true when the background task is in the
\* loop").  Starting a collection before a lingering task left its loop would
\* break it.
OneBackgroundTask ==
    queue + (IF pcB \in TaskPoints THEN 1 ELSE 0)
        = (IF backgroundTaskActive THEN 1 ELSE 0)

\* While marking is under way the mutator's barriers are on, in every state and
\* not only when the mutator holds gcMutex_; and whenever they are on,
\* barrierEnqueue finds a markState_ to write to.
BarriersWhileMarking ==
    /\ concurrentPhase \in {"Mark", "CompleteMarking"} => ogMarkingBarriers
    /\ ogMarkingBarriers => markState

\* barrierWorklist_ never exceeds its limit ("overflow" in
\* drainBarrierWorklist), whatever the order in which the mutator flushes
\* chunks and the background thread drains them; nor does it when the pending
\* chunk is added by flushPendingBarrierPushChunk.
WorklistBounded ==
    /\ barrierWorklist <= kMaxBarrierWorklistSize
    /\ pcM # "locked" /\ pcM # "pause" /\ pcM # "lock" =>
           barrierWorklist + barrierChunkIndex <= kMaxBarrierWorklistSize

\* collect() keeps its contract: when its second young gen collection has run,
\* an OG collection that began after the call has ended, and the compaction it
\* prepared has been carried out.
CollectIsFull ==
    op = "collect2" /\ pcM \in {"yield", "yieldLoop", "ygTail"} =>
        fullCycle = "finished" /\ ~compactee

\* "Cannot do compactions during YG promotions", and no OG collection starts
\* while a compactee is pending ("Ongoing compaction at the start of an OG
\* collection").
CompactionExclusive ==
    /\ promoteYGToOG => ~compactee
    /\ pcM \in {"ogWait", "ogCondVar"} => ~compactee /\ concurrentPhase = "None"

\* An OG collection goes through its phases in order, marking is completed by
\* the mutator alone, and every change of phase is made by the thread that
\* holds gcMutex_.  Only finalizeAll() abandons a collection.
PhaseStep ==
    concurrentPhase' # concurrentPhase =>
        /\ gcMutex # "free"
        /\ \/ <<concurrentPhase, concurrentPhase'>> \in
                  {<<"None", "Mark">>, <<"Mark", "CompleteMarking">>,
                   <<"CompleteMarking", "Sweep">>, <<"Sweep", "None">>}
           \/ op = "finalizeAll" /\ concurrentPhase' = "None"
        /\ concurrentPhase = "CompleteMarking" => gcMutex = "mut"
PhaseOrder == [][PhaseStep]_vars

\* Every call into the collector returns: pausing never waits forever for the
\* task to notice, no wake-up is lost between the two uses of ogPauseCondVar_,
\* waitForCollectionToFinish() ends, and destruction joins the worker.
CallsReturn == (pcM # "idle") ~> (pcM \in {"idle", "end"})

\* If the program stays out of the collector, the background task runs to the
\* end of its phase and exits: a pause never leaves it waiting.
BackgroundFinishes ==
    <>[](pcM = "idle") => <>[](~backgroundTaskActive)

==============================================================================
