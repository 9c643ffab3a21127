------------------------- MODULE HadesThreadsProofs -------------------------
(***************************************************************************)
(* Proofs about HadesThreads, for every chunk size, worklist limit, number *)
(* of cells and segments, and for both modes of the collector.             *)
(*                                                                         *)
(* The safety properties follow from one inductive invariant, IndInv.  Its *)
(* parts say who holds gcMutex_ at which control point (Ownership), how    *)
(* backgroundTaskActive_ follows the phase (TaskInv), how barriers and     *)
(* markState_ follow it (MarkInv), what the worklists hold (WorkInv,       *)
(* WorklistInv), which entry point can be at which control point           *)
(* (ControlInv) and how far collect() has come (CollectInv).               *)
(***************************************************************************)
EXTENDS HadesThreads, TLAPS

\* Control points at which the mutator holds gcMutex_.
Holding == {"locked", "wait", "yg", "ygEnd", "yield", "yieldLoop", "ygTail",
            "ogWait", "ygReturn", "unlock"}
\* Control points after finalizeAll() and of the destructor.
Ending == {"destroy", "join", "end"}
\* Control points inside youngGenCollection.
InYoungGen == {"yg", "ygEnd", "yield", "yieldLoop", "ygTail", "ogWait",
               "ogCondVar", "ygReturn"}

\* The flags and sets of TypeOK, and the rest of it.
FlagsOK ==
    /\ ogPaused \in BOOLEAN /\ backgroundTaskActive \in BOOLEAN
    /\ ogMarkingBarriers \in BOOLEAN /\ markState \in BOOLEAN
    /\ compactee \in BOOLEAN /\ promoteYGToOG \in BOOLEAN
    /\ shutdown \in BOOLEAN /\ notified \in BOOLEAN
    /\ doCompaction \in BOOLEAN
    /\ waiters \subseteq {"mut", "bg"}

RestOK ==
    /\ gcMutex \in {"free", "mut", "bg"}
    /\ concurrentPhase \in Phase
    /\ segNumber \in 0 .. MaxSegments
    /\ unmarked \in 0 .. MaxUnmarked /\ localWorklist \in 0 .. MaxUnmarked
    /\ barrierWorklist \in Nat
    /\ barrierChunkIndex \in 0 .. kBarrierChunkSize
    /\ queue \in Nat
    /\ pcM \in MutatorPoints /\ pcB \in WorkerPoints
    /\ op \in Ops /\ ret \in {"yg", "ygEnd", "unlock"}
    /\ initialPhase \in Phase
    /\ fullCycle \in {"none", "owed", "started", "finished"}
    /\ spurious \in 0 .. MaxSpurious

Ownership ==
    /\ (gcMutex = "mut") <=> (pcM \in Holding)
    /\ (gcMutex = "bg") <=> (pcB \in {"loop", "step"})

TaskInv ==
    /\ OneBackgroundTask
    /\ ~kConcurrentGC => pcB = "exited" /\ ~backgroundTaskActive
    /\ kConcurrentGC /\ pcM # "wait" =>
           /\ concurrentPhase \in {"Mark", "Sweep"} => backgroundTaskActive
           /\ concurrentPhase = "CompleteMarking" => ~backgroundTaskActive

\* Only finalizeAll() leaves barriers and markState_ behind.
MarkInv ==
    /\ concurrentPhase \in {"Mark", "CompleteMarking"} => ogMarkingBarriers
    /\ ogMarkingBarriers => markState
    /\ markState /\ concurrentPhase \in {"None", "Sweep"} =>
           op = "finalizeAll" /\ pcM \in {"unlock"} \cup Ending
    /\ markState => ogMarkingBarriers

WorkInv == unmarked + localWorklist <= MaxUnmarked

\* The mutator waits to drain a full worklist.
DrainPending == op = "barrier" /\ pcM \in {"pause", "lock", "locked"}

\* barrierWorklist_ grows by whole chunks, and the last one that fits makes the
\* mutator drain it before it touches the push chunk again.
WorklistInv ==
    \E j \in 0 .. kMaxBarrierChunks :
        /\ barrierWorklist = j * kBarrierChunkSize
        /\ ~DrainPending => j < kMaxBarrierChunks
        /\ DrainPending => barrierChunkIndex = 0

ControlInv ==
    /\ pcM \in InYoungGen => op \in YGOps
    /\ pcM \in {"pause", "lock", "locked"} => op # "collect2"
    /\ pcM \in Ending => op = "finalizeAll"
    /\ pcM = "wait" =>
           /\ ret = "yg" => op \in {"collect", "collect2"}
           /\ ret = "ygEnd" => op \in YGOps
           /\ ret = "unlock" => op \in {"snapshot", "allocLongLived"}
    /\ pcM = "yieldLoop" => ~kConcurrentGC

\* collect() at work, from the moment it starts to wait.
Collecting == op \in {"collect", "collect2"} /\ pcM \in {"wait"} \cup InYoungGen

CollectInv ==
    /\ Collecting => ~promoteYGToOG
    /\ Collecting /\ op = "collect" =>
           fullCycle = IF pcM = "ygReturn" THEN "started" ELSE "owed"
    /\ Collecting /\ op = "collect2" =>
           \/ fullCycle = "finished"
           \/ fullCycle = "started" /\ pcM = "wait" /\ ret = "yg"
    /\ fullCycle = "owed" => Collecting /\ op = "collect"
    /\ fullCycle = "started" =>
           concurrentPhase # "None" /\ Collecting /\ pcM \in {"wait", "ygReturn"}
    /\ Collecting /\ (pcM \in InYoungGen \ {"ygReturn"} \/ ret = "ygEnd")
           /\ pcM # "ygReturn" => concurrentPhase = "None"
    /\ Collecting /\ (pcM = "ygEnd" \/ (pcM = "wait" /\ ret = "ygEnd")) =>
           doCompaction = compactee
    /\ Collecting /\ pcM \in {"yield", "ygTail"} => ~compactee
    /\ Collecting => pcM # "yieldLoop"

IndInv ==
    /\ TypeOK /\ Ownership /\ TaskInv /\ MarkInv /\ WorkInv /\ WorklistInv
    /\ CompactionExclusive /\ ControlInv /\ CollectInv

------------------------------------------------------------------------------
(* What one call of incrementalCollect() can do to the state.               *)

WorkEffect ==
    /\ unmarked' \in 0 .. MaxUnmarked /\ localWorklist' \in 0 .. MaxUnmarked
    /\ unmarked' + localWorklist' <= MaxUnmarked
    /\ barrierWorklist' \in {0, barrierWorklist}
    /\ barrierChunkIndex' \in {0, barrierChunkIndex}
    /\ segNumber' \in 0 .. MaxSegments

PhaseEffect(backgroundThread) ==
    \/ /\ \/ /\ concurrentPhase' = concurrentPhase
             /\ backgroundThread \/ concurrentPhase # "CompleteMarking"
          \/ concurrentPhase = "Mark" /\ concurrentPhase' = "CompleteMarking"
       /\ UNCHANGED <<ogMarkingBarriers, markState, fullCycle>>
    \/ /\ ~backgroundThread
       /\ concurrentPhase = "CompleteMarking" /\ concurrentPhase' = "Sweep"
       /\ ogMarkingBarriers' = FALSE /\ markState' = FALSE
       /\ UNCHANGED fullCycle
    \/ /\ concurrentPhase = "Sweep" /\ concurrentPhase' = "None"
       /\ fullCycle' = SweepEnded
       /\ UNCHANGED <<ogMarkingBarriers, markState>>

\* incrementalMark() only moves cells from unmarked to the local worklist and
\* from there away, so their sum never grows.
LEMMA IncrementalMarkEffect ==
    ASSUME TypeOK, WorkInv, NEW limit, IncrementalMark(limit, barrierWorklist)
    PROVE  /\ unmarked' \in 0 .. MaxUnmarked
           /\ localWorklist' \in 0 .. MaxUnmarked
           /\ unmarked' + localWorklist' <= MaxUnmarked
           /\ barrierWorklist' = 0
<1>1. PICK d \in 0 .. Smaller(barrierWorklist, unmarked) :
      \E n \in 0 .. (unmarked - d) : \E k \in 0 .. (localWorklist + d + n) :
        /\ unmarked' = unmarked - d - n
        /\ localWorklist' = localWorklist + d + n - k
        /\ barrierWorklist' = 0
    BY DEF IncrementalMark
<1>2. PICK n \in 0 .. (unmarked - d) : \E k \in 0 .. (localWorklist + d + n) :
        /\ unmarked' = unmarked - d - n
        /\ localWorklist' = localWorklist + d + n - k
        /\ barrierWorklist' = 0
    BY <1>1
<1>5. PICK k \in 0 .. (localWorklist + d + n) :
        /\ unmarked' = unmarked - d - n
        /\ localWorklist' = localWorklist + d + n - k
        /\ barrierWorklist' = 0
    BY <1>2
<1>3. d \in Nat /\ n \in Nat /\ unmarked \in Nat /\ localWorklist \in Nat
    BY <1>1, <1>2, BoundAssumption DEF TypeOK, Smaller
<1>4. k \in Nat /\ k <= localWorklist + d + n /\ n <= unmarked - d
    BY <1>2, <1>3, <1>5
<1> QED BY <1>3, <1>4, <1>5, BoundAssumption DEF WorkInv

\* One call of incrementalCollect() is a step of the phase machine that keeps
\* the work counts within their bounds.
LEMMA CollectEffect ==
    ASSUME TypeOK, WorkInv, NEW b, IncrementalCollect(b)
    PROVE  WorkEffect /\ PhaseEffect(b)
<1>1. CASE /\ b \/ concurrentPhase # "CompleteMarking"
           /\ UNCHANGED <<markVars, gcVars, fullCycle>>
    BY <1>1 DEF WorkEffect, PhaseEffect, TypeOK, WorkInv, markVars, gcVars
<1>2. CASE CollectMark
    <2>1. IncrementalMark("some", barrierWorklist) BY <1>2 DEF CollectMark
    <2>2. WorkEffect
        BY <1>2, <2>1, IncrementalMarkEffect DEF CollectMark, WorkEffect, TypeOK
    <2> QED BY <1>2, <2>2 DEF CollectMark, PhaseEffect, AfterMark
<1>3. CASE ~b /\ CollectComplete
    BY <1>3, BoundAssumption
    DEF CollectComplete, CompleteMarking, WorkEffect, PhaseEffect, TypeOK
<1>4. CASE CollectSweep
    BY <1>4, BoundAssumption
    DEF CollectSweep, SweepNext, WorkEffect, PhaseEffect, TypeOK, WorkInv, markVars
<1> QED BY <1>1, <1>2, <1>3, <1>4 DEF IncrementalCollect


\* The same, as types.
CollectTypes ==
    /\ unmarked' \in 0 .. MaxUnmarked /\ localWorklist' \in 0 .. MaxUnmarked
    /\ barrierWorklist' \in Nat
    /\ barrierChunkIndex' \in 0 .. kBarrierChunkSize
    /\ segNumber' \in 0 .. MaxSegments
    /\ concurrentPhase' \in Phase
    /\ fullCycle' \in {"none", "owed", "started", "finished"}

\* One call of incrementalCollect() keeps the types.
LEMMA CollectTyped ==
    ASSUME TypeOK, WorkInv, NEW b, IncrementalCollect(b)
    PROVE  CollectTypes
<1>1. WorkEffect /\ PhaseEffect(b) BY CollectEffect
<1>2. /\ unmarked' \in 0 .. MaxUnmarked /\ localWorklist' \in 0 .. MaxUnmarked
      /\ barrierWorklist' \in Nat
      /\ barrierChunkIndex' \in 0 .. kBarrierChunkSize
      /\ segNumber' \in 0 .. MaxSegments
    BY <1>1, ChunkAssumption DEF WorkEffect, TypeOK
<1>3. concurrentPhase' \in Phase
    BY <1>1 DEF PhaseEffect, TypeOK, Phase
<1>4. fullCycle' \in {"none", "owed", "started", "finished"}
    BY <1>1 DEF PhaseEffect, TypeOK, SweepEnded
<1> QED BY <1>2, <1>3, <1>4 DEF CollectTypes

\* Flags stay Boolean, and only the two threads wait.
LEMMA FlagsStep ==
    ASSUME IndInv, [Next]_vars
    PROVE  FlagsOK'
<1> USE DEF IndInv, TypeOK, FlagsOK, mutexVars, markVars, gcVars, execVars,
        heapVars, mutVars, vars
<1>1. CASE UNCHANGED vars
    BY <1>1, Zenon
<1>2. CASE \E o \in Ops : Enter(o)
    BY <1>2, Zenon DEF Enter
<1>3. CASE BarrierEnqueue
    BY <1>3, Zenon DEF BarrierEnqueue, BelowLimit
<1>4. CASE TTIReached
    BY <1>4, Zenon DEF TTIReached
<1>5. CASE PauseLock
    BY <1>5, Zenon DEF PauseLock, NotifyOne
<1>6. CASE PlainLock
    BY <1>6, Zenon DEF PlainLock
<1>7. CASE Unlock
    BY <1>7, Zenon DEF Unlock
<1>8. CASE StartCollect
    BY <1>8, Zenon DEF StartCollect, WaitThen
<1>9. CASE StartYoungGen
    BY <1>9, Zenon DEF StartYoungGen
<1>10. CASE StartSnapshot
    BY <1>10, Zenon DEF StartSnapshot, WaitThen
<1>11. CASE StartAllocLongLived
    BY <1>11, Zenon DEF StartAllocLongLived, WaitThen
<1>12. CASE DrainFullBarrierChunk
    BY <1>12, Zenon DEF DrainFullBarrierChunk
<1>13. CASE AccountExternal
    BY <1>13, Zenon DEF AccountExternal
<1>14. CASE FinalizeAll
    BY <1>14, Zenon DEF FinalizeAll
<1>15. CASE WaitForCollection
    BY <1>15, Zenon DEF WaitForCollection, WaitStep, IncrementalCollect, CollectMark,
        CollectComplete, CompleteMarking, CollectSweep, IncrementalMark
<1>16. CASE PromoteYoungGen
    BY <1>16, Zenon DEF PromoteYoungGen
<1>17. CASE EvacuateYoungGen
    BY <1>17, Zenon DEF EvacuateYoungGen, WaitThen
<1>18. CASE FinishYoungGen
    BY <1>18, Zenon DEF FinishYoungGen
<1>19. CASE YieldConcurrent
    BY <1>19, Zenon DEF YieldConcurrent, CollectOGInBackground, ExecutorAdd,
        IncrementalCollect, CollectMark, CollectComplete, CompleteMarking, CollectSweep,
        IncrementalMark
<1>20. CASE YieldIncremental
    BY <1>20, Zenon DEF YieldIncremental
<1>21. CASE YieldStep
    BY <1>21, Zenon DEF YieldStep, IncrementalCollect, CollectMark, CollectComplete,
        CompleteMarking, CollectSweep, IncrementalMark
<1>22. CASE TailYoungGen
    BY <1>22, Zenon DEF TailYoungGen, MayStartOldGen, ForcesOldGen
<1>23. CASE OldGenWait
    BY <1>23, Zenon DEF OldGenWait, TaskLingers
<1>24. CASE OldGenWake
    BY <1>24, Zenon DEF OldGenWake
<1>25. CASE OldGenStart
    BY <1>25, Zenon DEF OldGenStart, TaskLingers, PrepareCompactee, ForcesOldGen,
        CollectOGInBackground, ExecutorAdd
<1>26. CASE ReturnYoungGen
    BY <1>26, Zenon DEF ReturnYoungGen, WaitThen
<1>27. CASE Destroy
    BY <1>27, Zenon DEF Destroy
<1>28. CASE Join
    BY <1>28, Zenon DEF Join
<1>29. CASE WorkerHead
    BY <1>29, Zenon DEF WorkerHead, TakeTask
<1>30. CASE WorkerWake
    BY <1>30, Zenon DEF WorkerWake, TakeTask
<1>31. CASE WorkerTaskDone
    BY <1>31, Zenon DEF WorkerTaskDone, TakeTask
<1>32. CASE TaskLock
    BY <1>32, Zenon DEF TaskLock
<1>33. CASE TaskCheckPaused
    BY <1>33, Zenon DEF TaskCheckPaused
<1>34. CASE TaskResume
    BY <1>34, Zenon DEF TaskResume
<1>35. CASE TaskStep
    BY <1>35, Zenon DEF TaskStep, TaskExit, TaskOver, NotifyOne, IncrementalCollect,
        CollectMark, CollectComplete, CompleteMarking, CollectSweep, IncrementalMark
<1> QED
    BY <1>1, <1>2, <1>3, <1>4, <1>5, <1>6, <1>7, <1>8, <1>9, <1>10, <1>11, <1>12, <1>13,
        <1>14, <1>15, <1>16, <1>17, <1>18, <1>19, <1>20, <1>21, <1>22, <1>23, <1>24, <1>25,
        <1>26, <1>27, <1>28, <1>29, <1>30, <1>31, <1>32, <1>33, <1>34, <1>35
    DEF Next, Mutate, InCollector, Background, Finished

\* Control points, phases and counts keep their types.
LEMMA RestStep ==
    ASSUME IndInv, [Next]_vars
    PROVE  RestOK'
<1>a. IncrementalCollect(FALSE) \/ IncrementalCollect(TRUE) => CollectTypes
    BY CollectTyped DEF IndInv
<1> USE ConcurrencyAssumption, ChunkAssumption, BoundAssumption
    DEF IndInv, TypeOK, RestOK, Phase, Ops, PausingOps, LockingOps, YGOps,
        MutatorPoints, WorkerPoints, TaskPoints, mutexVars, markVars, gcVars,
        execVars, heapVars, mutVars, vars
<1>1. CASE UNCHANGED vars
    BY <1>1
<1>2. CASE \E o \in Ops : Enter(o)
    BY <1>2 DEF Enter
<1>3. CASE BarrierEnqueue
    BY <1>3 DEF BarrierEnqueue, BelowLimit
<1>4. CASE TTIReached
    BY <1>4 DEF TTIReached
<1>5. CASE PauseLock
    BY <1>5 DEF PauseLock, NotifyOne
<1>6. CASE PlainLock
    BY <1>6 DEF PlainLock
<1>7. CASE Unlock
    BY <1>7 DEF Unlock
<1>8. CASE StartCollect
    BY <1>8 DEF StartCollect, WaitThen
<1>9. CASE StartYoungGen
    BY <1>9 DEF StartYoungGen
<1>10. CASE StartSnapshot
    BY <1>10 DEF StartSnapshot, WaitThen
<1>11. CASE StartAllocLongLived
    BY <1>11 DEF StartAllocLongLived, WaitThen
<1>12. CASE DrainFullBarrierChunk
    <2>1. IncrementalMark("zero", barrierWorklist) BY <1>12 DEF DrainFullBarrierChunk
    <2> QED BY <1>12, <2>1, IncrementalMarkEffect
            DEF DrainFullBarrierChunk, DrainPending, WorklistInv
<1>13. CASE AccountExternal
    BY <1>13 DEF AccountExternal
<1>14. CASE FinalizeAll
    BY <1>14 DEF FinalizeAll
<1>15. CASE WaitForCollection
    <2>1. CASE concurrentPhase = "None"
        BY <1>15, <2>1 DEF WaitForCollection
    <2>2. CASE concurrentPhase # "None"
        <3>1. IncrementalCollect(FALSE)
            BY <1>15, <2>2 DEF WaitForCollection, WaitStep
        <3> QED BY <1>15, <2>2, <1>a, <3>1 DEF CollectTypes, WaitForCollection
    <2> QED BY <2>1, <2>2
<1>16. CASE PromoteYoungGen
    BY <1>16 DEF PromoteYoungGen
<1>17. CASE EvacuateYoungGen
    BY <1>17 DEF EvacuateYoungGen, WaitThen
<1>18. CASE FinishYoungGen
    BY <1>18 DEF FinishYoungGen
<1>19. CASE YieldConcurrent
    <2>1. CASE concurrentPhase = "CompleteMarking"
        <3>1. IncrementalCollect(FALSE) BY <1>19, <2>1 DEF YieldConcurrent
        <3> QED BY <1>19, <2>1, <1>a, <3>1
                DEF CollectTypes, YieldConcurrent, CollectOGInBackground, ExecutorAdd
    <2>2. CASE concurrentPhase # "CompleteMarking"
        BY <1>19, <2>2 DEF YieldConcurrent
    <2> QED BY <2>1, <2>2
<1>20. CASE YieldIncremental
    BY <1>20 DEF YieldIncremental
<1>21. CASE YieldStep
    <2>1. IncrementalCollect(FALSE) BY <1>21 DEF YieldStep
    <2> QED BY <1>21, <1>a, <2>1 DEF CollectTypes, YieldStep
<1>22. CASE TailYoungGen
    BY <1>22 DEF TailYoungGen, MayStartOldGen, ForcesOldGen
<1>23. CASE OldGenWait
    BY <1>23 DEF OldGenWait, TaskLingers
<1>24. CASE OldGenWake
    BY <1>24 DEF OldGenWake
<1>25. CASE OldGenStart
    BY <1>25 DEF OldGenStart, TaskLingers, PrepareCompactee, ForcesOldGen,
        CollectOGInBackground, ExecutorAdd
<1>26. CASE ReturnYoungGen
    BY <1>26 DEF ReturnYoungGen, WaitThen
<1>27. CASE Destroy
    BY <1>27 DEF Destroy
<1>28. CASE Join
    BY <1>28 DEF Join
<1>29. CASE WorkerHead
    BY <1>29 DEF WorkerHead, TakeTask
<1>30. CASE WorkerWake
    BY <1>30 DEF WorkerWake, TakeTask
<1>31. CASE WorkerTaskDone
    BY <1>31 DEF WorkerTaskDone, TakeTask
<1>32. CASE TaskLock
    BY <1>32 DEF TaskLock
<1>33. CASE TaskCheckPaused
    BY <1>33 DEF TaskCheckPaused
<1>34. CASE TaskResume
    BY <1>34 DEF TaskResume
<1>35. CASE TaskStep
    <2>1. IncrementalCollect(TRUE) BY <1>35 DEF TaskStep
    <2> QED BY <1>35, <1>a, <2>1 DEF CollectTypes, TaskStep, TaskExit, TaskOver, NotifyOne
<1> QED
    BY <1>1, <1>2, <1>3, <1>4, <1>5, <1>6, <1>7, <1>8, <1>9, <1>10, <1>11, <1>12, <1>13,
        <1>14, <1>15, <1>16, <1>17, <1>18, <1>19, <1>20, <1>21, <1>22, <1>23, <1>24, <1>25,
        <1>26, <1>27, <1>28, <1>29, <1>30, <1>31, <1>32, <1>33, <1>34, <1>35
    DEF Next, Mutate, InCollector, Background, Finished

\* A thread holds gcMutex_ exactly at its holding control points.
LEMMA OwnershipStep ==
    ASSUME IndInv, [Next]_vars
    PROVE  Ownership'
<1>a. /\ IncrementalCollect(FALSE) => WorkEffect /\ PhaseEffect(FALSE)
      /\ IncrementalCollect(TRUE) => WorkEffect /\ PhaseEffect(TRUE)
    BY CollectEffect DEF IndInv
<1>b. IncrementalMark("zero", barrierWorklist) =>
          barrierWorklist' = 0 /\ unmarked' + localWorklist' <= MaxUnmarked
    BY IncrementalMarkEffect DEF IndInv
<1> USE ConcurrencyAssumption, ChunkAssumption, BoundAssumption
    DEF IndInv, TypeOK, Phase, Ops, PausingOps, LockingOps, YGOps, MutatorPoints,
        WorkerPoints, TaskPoints, Ownership, Holding,
        mutexVars, markVars, gcVars, execVars, heapVars, mutVars, vars
<1>1. CASE UNCHANGED vars
    BY <1>1
<1>2. CASE \E o \in Ops : Enter(o)
    BY <1>2 DEF Enter
<1>3. CASE BarrierEnqueue
    BY <1>3 DEF BarrierEnqueue, BelowLimit
<1>4. CASE TTIReached
    BY <1>4 DEF TTIReached
<1>5. CASE PauseLock
    BY <1>5 DEF PauseLock, NotifyOne
<1>6. CASE PlainLock
    BY <1>6 DEF PlainLock
<1>7. CASE Unlock
    BY <1>7 DEF Unlock
<1>8. CASE StartCollect
    BY <1>8 DEF StartCollect, WaitThen
<1>9. CASE StartYoungGen
    BY <1>9 DEF StartYoungGen
<1>10. CASE StartSnapshot
    BY <1>10 DEF StartSnapshot, WaitThen
<1>11. CASE StartAllocLongLived
    BY <1>11 DEF StartAllocLongLived, WaitThen
<1>12. CASE DrainFullBarrierChunk
    BY <1>12, <1>b DEF DrainFullBarrierChunk
<1>13. CASE AccountExternal
    BY <1>13 DEF AccountExternal
<1>14. CASE FinalizeAll
    BY <1>14 DEF FinalizeAll
<1>15. CASE WaitForCollection
    BY <1>15, <1>a DEF WaitForCollection, WaitStep, WorkEffect, PhaseEffect, SweepEnded
<1>16. CASE PromoteYoungGen
    BY <1>16 DEF PromoteYoungGen
<1>17. CASE EvacuateYoungGen
    BY <1>17 DEF EvacuateYoungGen, WaitThen
<1>18. CASE FinishYoungGen
    BY <1>18 DEF FinishYoungGen
<1>19. CASE YieldConcurrent
    BY <1>19, <1>a DEF YieldConcurrent, CollectOGInBackground, ExecutorAdd, WorkEffect,
        PhaseEffect, SweepEnded
<1>20. CASE YieldIncremental
    BY <1>20 DEF YieldIncremental
<1>21. CASE YieldStep
    BY <1>21, <1>a DEF YieldStep, WorkEffect, PhaseEffect, SweepEnded
<1>22. CASE TailYoungGen
    BY <1>22 DEF TailYoungGen, MayStartOldGen, ForcesOldGen
<1>23. CASE OldGenWait
    BY <1>23 DEF OldGenWait, TaskLingers
<1>24. CASE OldGenWake
    BY <1>24 DEF OldGenWake
<1>25. CASE OldGenStart
    BY <1>25 DEF OldGenStart, TaskLingers, PrepareCompactee, ForcesOldGen,
        CollectOGInBackground, ExecutorAdd
<1>26. CASE ReturnYoungGen
    BY <1>26 DEF ReturnYoungGen, WaitThen
<1>27. CASE Destroy
    BY <1>27 DEF Destroy
<1>28. CASE Join
    BY <1>28 DEF Join
<1>29. CASE WorkerHead
    BY <1>29 DEF WorkerHead, TakeTask
<1>30. CASE WorkerWake
    BY <1>30 DEF WorkerWake, TakeTask
<1>31. CASE WorkerTaskDone
    BY <1>31 DEF WorkerTaskDone, TakeTask
<1>32. CASE TaskLock
    BY <1>32 DEF TaskLock
<1>33. CASE TaskCheckPaused
    BY <1>33 DEF TaskCheckPaused
<1>34. CASE TaskResume
    BY <1>34 DEF TaskResume
<1>35. CASE TaskStep
    BY <1>35, <1>a DEF TaskStep, TaskExit, TaskOver, NotifyOne, WorkEffect, PhaseEffect,
        SweepEnded
<1> QED
    BY <1>1, <1>2, <1>3, <1>4, <1>5, <1>6, <1>7, <1>8, <1>9, <1>10, <1>11,
       <1>12, <1>13, <1>14, <1>15, <1>16, <1>17, <1>18, <1>19, <1>20,
       <1>21, <1>22, <1>23, <1>24, <1>25, <1>26, <1>27, <1>28, <1>29,
       <1>30, <1>31, <1>32, <1>33, <1>34, <1>35
    DEF Next, Mutate, InCollector, Background, Finished

\* Every step keeps backgroundTaskActive_ equal to the number of tasks that are
\* queued or running, and the task's control points in line with gcMutex_.
LEMMA TaskInvStep ==
    ASSUME IndInv, [Next]_vars
    PROVE  TaskInv'
<1>a. /\ IncrementalCollect(FALSE) => WorkEffect /\ PhaseEffect(FALSE)
      /\ IncrementalCollect(TRUE) => WorkEffect /\ PhaseEffect(TRUE)
    BY CollectEffect DEF IndInv
<1>b. IncrementalMark("zero", barrierWorklist) =>
          barrierWorklist' = 0 /\ unmarked' + localWorklist' <= MaxUnmarked
    BY IncrementalMarkEffect DEF IndInv
<1> USE ConcurrencyAssumption, ChunkAssumption, BoundAssumption
    DEF IndInv, TypeOK, Phase, Ops, PausingOps, LockingOps, YGOps, MutatorPoints,
        WorkerPoints, TaskPoints, Ownership, Holding, TaskInv, OneBackgroundTask,
        ControlInv,
        mutexVars, markVars, gcVars, execVars, heapVars, mutVars, vars
<1>1. CASE UNCHANGED vars
    BY <1>1
<1>2. CASE \E o \in Ops : Enter(o)
    BY <1>2 DEF Enter
<1>3. CASE BarrierEnqueue
    BY <1>3 DEF BarrierEnqueue, BelowLimit
<1>4. CASE TTIReached
    BY <1>4 DEF TTIReached
<1>5. CASE PauseLock
    BY <1>5 DEF PauseLock, NotifyOne
<1>6. CASE PlainLock
    BY <1>6 DEF PlainLock
<1>7. CASE Unlock
    BY <1>7 DEF Unlock
<1>8. CASE StartCollect
    BY <1>8 DEF StartCollect, WaitThen
<1>9. CASE StartYoungGen
    BY <1>9 DEF StartYoungGen
<1>10. CASE StartSnapshot
    BY <1>10 DEF StartSnapshot, WaitThen
<1>11. CASE StartAllocLongLived
    BY <1>11 DEF StartAllocLongLived, WaitThen
<1>12. CASE DrainFullBarrierChunk
    BY <1>12, <1>b DEF DrainFullBarrierChunk
<1>13. CASE AccountExternal
    BY <1>13 DEF AccountExternal
<1>14. CASE FinalizeAll
    BY <1>14 DEF FinalizeAll
<1>15. CASE WaitForCollection
    BY <1>15, <1>a DEF WaitForCollection, WaitStep, WorkEffect, PhaseEffect, SweepEnded
<1>16. CASE PromoteYoungGen
    BY <1>16 DEF PromoteYoungGen
<1>17. CASE EvacuateYoungGen
    BY <1>17 DEF EvacuateYoungGen, WaitThen
<1>18. CASE FinishYoungGen
    BY <1>18 DEF FinishYoungGen
<1>19. CASE YieldConcurrent
    <2>1. CASE concurrentPhase = "CompleteMarking"
        <3>1. ~backgroundTaskActive BY <1>19, <2>1 DEF YieldConcurrent
        <3>2. IncrementalCollect(FALSE) BY <1>19, <2>1 DEF YieldConcurrent
        <3>3. concurrentPhase' = "Sweep" BY <1>a, <2>1, <3>2 DEF PhaseEffect
        <3>4. /\ queue' = queue + 1 /\ backgroundTaskActive' = TRUE
              /\ pcB' = pcB /\ kConcurrentGC
            BY <1>19, <2>1
            DEF YieldConcurrent, CollectOGInBackground, ExecutorAdd
        <3>5. OneBackgroundTask' BY <3>1, <3>4
        <3> QED BY <3>3, <3>4, <3>5
    <2>2. CASE concurrentPhase # "CompleteMarking"
        BY <1>19, <2>2 DEF YieldConcurrent
    <2> QED BY <2>1, <2>2
<1>20. CASE YieldIncremental
    BY <1>20 DEF YieldIncremental
<1>21. CASE YieldStep
    BY <1>21, <1>a DEF YieldStep, WorkEffect, PhaseEffect, SweepEnded
<1>22. CASE TailYoungGen
    BY <1>22 DEF TailYoungGen, MayStartOldGen, ForcesOldGen
<1>23. CASE OldGenWait
    BY <1>23 DEF OldGenWait, TaskLingers
<1>24. CASE OldGenWake
    BY <1>24 DEF OldGenWake
<1>25. CASE OldGenStart
    BY <1>25 DEF OldGenStart, TaskLingers, PrepareCompactee, ForcesOldGen,
        CollectOGInBackground, ExecutorAdd
<1>26. CASE ReturnYoungGen
    BY <1>26 DEF ReturnYoungGen, WaitThen
<1>27. CASE Destroy
    BY <1>27 DEF Destroy
<1>28. CASE Join
    BY <1>28 DEF Join
<1>29. CASE WorkerHead
    BY <1>29 DEF WorkerHead, TakeTask
<1>30. CASE WorkerWake
    BY <1>30 DEF WorkerWake, TakeTask
<1>31. CASE WorkerTaskDone
    BY <1>31 DEF WorkerTaskDone, TakeTask
<1>32. CASE TaskLock
    BY <1>32 DEF TaskLock
<1>33. CASE TaskCheckPaused
    BY <1>33 DEF TaskCheckPaused
<1>34. CASE TaskResume
    BY <1>34 DEF TaskResume
<1>35. CASE TaskStep
    BY <1>35, <1>a DEF TaskStep, TaskExit, TaskOver, NotifyOne, WorkEffect, PhaseEffect,
        SweepEnded
<1> QED
    BY <1>1, <1>2, <1>3, <1>4, <1>5, <1>6, <1>7, <1>8, <1>9, <1>10, <1>11,
       <1>12, <1>13, <1>14, <1>15, <1>16, <1>17, <1>18, <1>19, <1>20,
       <1>21, <1>22, <1>23, <1>24, <1>25, <1>26, <1>27, <1>28, <1>29,
       <1>30, <1>31, <1>32, <1>33, <1>34, <1>35
    DEF Next, Mutate, InCollector, Background, Finished

\* Every step keeps barriers, markState_ and the phase in agreement.
LEMMA MarkStep ==
    ASSUME IndInv, [Next]_vars
    PROVE  MarkInv'
<1>a. /\ IncrementalCollect(FALSE) => WorkEffect /\ PhaseEffect(FALSE)
      /\ IncrementalCollect(TRUE) => WorkEffect /\ PhaseEffect(TRUE)
    BY CollectEffect DEF IndInv
<1>b. IncrementalMark("zero", barrierWorklist) =>
          barrierWorklist' = 0 /\ unmarked' + localWorklist' <= MaxUnmarked
    BY IncrementalMarkEffect DEF IndInv
<1> USE ConcurrencyAssumption, ChunkAssumption, BoundAssumption
    DEF IndInv, TypeOK, Phase, Ops, PausingOps, LockingOps, YGOps, MutatorPoints,
        WorkerPoints, TaskPoints, MarkInv, Ending, Ownership, Holding, InYoungGen,
        ControlInv, CompactionExclusive,
        mutexVars, markVars, gcVars, execVars, heapVars, mutVars, vars
<1>1. CASE UNCHANGED vars
    BY <1>1
<1>2. CASE \E o \in Ops : Enter(o)
    BY <1>2 DEF Enter
<1>3. CASE BarrierEnqueue
    BY <1>3 DEF BarrierEnqueue, BelowLimit
<1>4. CASE TTIReached
    BY <1>4 DEF TTIReached
<1>5. CASE PauseLock
    BY <1>5 DEF PauseLock, NotifyOne
<1>6. CASE PlainLock
    BY <1>6 DEF PlainLock
<1>7. CASE Unlock
    BY <1>7 DEF Unlock
<1>8. CASE StartCollect
    BY <1>8 DEF StartCollect, WaitThen
<1>9. CASE StartYoungGen
    BY <1>9 DEF StartYoungGen
<1>10. CASE StartSnapshot
    BY <1>10 DEF StartSnapshot, WaitThen
<1>11. CASE StartAllocLongLived
    BY <1>11 DEF StartAllocLongLived, WaitThen
<1>12. CASE DrainFullBarrierChunk
    BY <1>12, <1>b DEF DrainFullBarrierChunk
<1>13. CASE AccountExternal
    BY <1>13 DEF AccountExternal
<1>14. CASE FinalizeAll
    BY <1>14 DEF FinalizeAll
<1>15. CASE WaitForCollection
    <2>1. CASE concurrentPhase = "None"
        BY <1>15, <2>1 DEF WaitForCollection
    <2>2. CASE concurrentPhase # "None"
        <3>1. IncrementalCollect(FALSE) /\ pcM = "wait" /\ pcM' = pcM /\ op' = op
            BY <1>15, <2>2 DEF WaitForCollection, WaitStep
        <3> QED BY <1>a, <3>1 DEF PhaseEffect
    <2> QED BY <2>1, <2>2
<1>16. CASE PromoteYoungGen
    BY <1>16 DEF PromoteYoungGen
<1>17. CASE EvacuateYoungGen
    BY <1>17 DEF EvacuateYoungGen, WaitThen
<1>18. CASE FinishYoungGen
    BY <1>18 DEF FinishYoungGen
<1>19. CASE YieldConcurrent
    <2>1. CASE concurrentPhase = "CompleteMarking"
        <3>1. IncrementalCollect(FALSE) BY <1>19, <2>1 DEF YieldConcurrent
        <3> QED BY <1>a, <2>1, <3>1 DEF PhaseEffect
    <2>2. CASE concurrentPhase # "CompleteMarking"
        BY <1>19, <2>2 DEF YieldConcurrent
    <2> QED BY <2>1, <2>2
<1>20. CASE YieldIncremental
    BY <1>20 DEF YieldIncremental
<1>21. CASE YieldStep
    BY <1>21, <1>a DEF YieldStep, WorkEffect, PhaseEffect, SweepEnded
<1>22. CASE TailYoungGen
    BY <1>22 DEF TailYoungGen, MayStartOldGen, ForcesOldGen
<1>23. CASE OldGenWait
    BY <1>23 DEF OldGenWait, TaskLingers
<1>24. CASE OldGenWake
    BY <1>24 DEF OldGenWake
<1>25. CASE OldGenStart
    BY <1>25 DEF OldGenStart, TaskLingers, PrepareCompactee, ForcesOldGen,
        CollectOGInBackground, ExecutorAdd
<1>26. CASE ReturnYoungGen
    BY <1>26 DEF ReturnYoungGen, WaitThen
<1>27. CASE Destroy
    BY <1>27 DEF Destroy
<1>28. CASE Join
    BY <1>28 DEF Join
<1>29. CASE WorkerHead
    BY <1>29 DEF WorkerHead, TakeTask
<1>30. CASE WorkerWake
    BY <1>30 DEF WorkerWake, TakeTask
<1>31. CASE WorkerTaskDone
    BY <1>31 DEF WorkerTaskDone, TakeTask
<1>32. CASE TaskLock
    BY <1>32 DEF TaskLock
<1>33. CASE TaskCheckPaused
    BY <1>33 DEF TaskCheckPaused
<1>34. CASE TaskResume
    BY <1>34 DEF TaskResume
<1>35. CASE TaskStep
    BY <1>35, <1>a DEF TaskStep, TaskExit, TaskOver, NotifyOne, WorkEffect, PhaseEffect,
        SweepEnded
<1> QED
    BY <1>1, <1>2, <1>3, <1>4, <1>5, <1>6, <1>7, <1>8, <1>9, <1>10, <1>11,
       <1>12, <1>13, <1>14, <1>15, <1>16, <1>17, <1>18, <1>19, <1>20,
       <1>21, <1>22, <1>23, <1>24, <1>25, <1>26, <1>27, <1>28, <1>29,
       <1>30, <1>31, <1>32, <1>33, <1>34, <1>35
    DEF Next, Mutate, InCollector, Background, Finished

\* Every step keeps compaction, promotion and the start of OG collections apart.
LEMMA CompactionStep ==
    ASSUME IndInv, [Next]_vars
    PROVE  CompactionExclusive'
<1>a. /\ IncrementalCollect(FALSE) => WorkEffect /\ PhaseEffect(FALSE)
      /\ IncrementalCollect(TRUE) => WorkEffect /\ PhaseEffect(TRUE)
    BY CollectEffect DEF IndInv
<1>b. IncrementalMark("zero", barrierWorklist) =>
          barrierWorklist' = 0 /\ unmarked' + localWorklist' <= MaxUnmarked
    BY IncrementalMarkEffect DEF IndInv
<1> USE ConcurrencyAssumption, ChunkAssumption, BoundAssumption
    DEF IndInv, TypeOK, Phase, Ops, PausingOps, LockingOps, YGOps, MutatorPoints,
        WorkerPoints, TaskPoints, CompactionExclusive, Ownership, Holding,
        mutexVars, markVars, gcVars, execVars, heapVars, mutVars, vars
<1>1. CASE UNCHANGED vars
    BY <1>1
<1>2. CASE \E o \in Ops : Enter(o)
    BY <1>2 DEF Enter
<1>3. CASE BarrierEnqueue
    BY <1>3 DEF BarrierEnqueue, BelowLimit
<1>4. CASE TTIReached
    BY <1>4 DEF TTIReached
<1>5. CASE PauseLock
    BY <1>5 DEF PauseLock, NotifyOne
<1>6. CASE PlainLock
    BY <1>6 DEF PlainLock
<1>7. CASE Unlock
    BY <1>7 DEF Unlock
<1>8. CASE StartCollect
    BY <1>8 DEF StartCollect, WaitThen
<1>9. CASE StartYoungGen
    BY <1>9 DEF StartYoungGen
<1>10. CASE StartSnapshot
    BY <1>10 DEF StartSnapshot, WaitThen
<1>11. CASE StartAllocLongLived
    BY <1>11 DEF StartAllocLongLived, WaitThen
<1>12. CASE DrainFullBarrierChunk
    BY <1>12, <1>b DEF DrainFullBarrierChunk
<1>13. CASE AccountExternal
    BY <1>13 DEF AccountExternal
<1>14. CASE FinalizeAll
    BY <1>14 DEF FinalizeAll
<1>15. CASE WaitForCollection
    BY <1>15, <1>a DEF WaitForCollection, WaitStep, WorkEffect, PhaseEffect, SweepEnded
<1>16. CASE PromoteYoungGen
    BY <1>16 DEF PromoteYoungGen
<1>17. CASE EvacuateYoungGen
    BY <1>17 DEF EvacuateYoungGen, WaitThen
<1>18. CASE FinishYoungGen
    BY <1>18 DEF FinishYoungGen
<1>19. CASE YieldConcurrent
    BY <1>19, <1>a DEF YieldConcurrent, CollectOGInBackground, ExecutorAdd, WorkEffect,
        PhaseEffect, SweepEnded
<1>20. CASE YieldIncremental
    BY <1>20 DEF YieldIncremental
<1>21. CASE YieldStep
    BY <1>21, <1>a DEF YieldStep, WorkEffect, PhaseEffect, SweepEnded
<1>22. CASE TailYoungGen
    BY <1>22 DEF TailYoungGen, MayStartOldGen, ForcesOldGen
<1>23. CASE OldGenWait
    BY <1>23 DEF OldGenWait, TaskLingers
<1>24. CASE OldGenWake
    BY <1>24 DEF OldGenWake
<1>25. CASE OldGenStart
    BY <1>25 DEF OldGenStart, TaskLingers, PrepareCompactee, ForcesOldGen,
        CollectOGInBackground, ExecutorAdd
<1>26. CASE ReturnYoungGen
    BY <1>26 DEF ReturnYoungGen, WaitThen
<1>27. CASE Destroy
    BY <1>27 DEF Destroy
<1>28. CASE Join
    BY <1>28 DEF Join
<1>29. CASE WorkerHead
    BY <1>29 DEF WorkerHead, TakeTask
<1>30. CASE WorkerWake
    BY <1>30 DEF WorkerWake, TakeTask
<1>31. CASE WorkerTaskDone
    BY <1>31 DEF WorkerTaskDone, TakeTask
<1>32. CASE TaskLock
    BY <1>32 DEF TaskLock
<1>33. CASE TaskCheckPaused
    BY <1>33 DEF TaskCheckPaused
<1>34. CASE TaskResume
    BY <1>34 DEF TaskResume
<1>35. CASE TaskStep
    BY <1>35, <1>a DEF TaskStep, TaskExit, TaskOver, NotifyOne, WorkEffect, PhaseEffect,
        SweepEnded
<1> QED
    BY <1>1, <1>2, <1>3, <1>4, <1>5, <1>6, <1>7, <1>8, <1>9, <1>10, <1>11,
       <1>12, <1>13, <1>14, <1>15, <1>16, <1>17, <1>18, <1>19, <1>20,
       <1>21, <1>22, <1>23, <1>24, <1>25, <1>26, <1>27, <1>28, <1>29,
       <1>30, <1>31, <1>32, <1>33, <1>34, <1>35
    DEF Next, Mutate, InCollector, Background, Finished

\* Every step keeps the mutator's control points in line with gcMutex_, the
\* pause flag and the entry point it executes.
LEMMA ControlStep ==
    ASSUME IndInv, [Next]_vars
    PROVE  ControlInv'
<1>a. /\ IncrementalCollect(FALSE) => WorkEffect /\ PhaseEffect(FALSE)
      /\ IncrementalCollect(TRUE) => WorkEffect /\ PhaseEffect(TRUE)
    BY CollectEffect DEF IndInv
<1>b. IncrementalMark("zero", barrierWorklist) =>
          barrierWorklist' = 0 /\ unmarked' + localWorklist' <= MaxUnmarked
    BY IncrementalMarkEffect DEF IndInv
<1> USE ConcurrencyAssumption, ChunkAssumption, BoundAssumption
    DEF IndInv, TypeOK, Phase, Ops, PausingOps, LockingOps, YGOps, MutatorPoints,
        WorkerPoints, TaskPoints, ControlInv, InYoungGen, Ending, Ownership,
        Holding,
        mutexVars, markVars, gcVars, execVars, heapVars, mutVars, vars
<1>1. CASE UNCHANGED vars
    BY <1>1
<1>2. CASE \E o \in Ops : Enter(o)
    BY <1>2 DEF Enter
<1>3. CASE BarrierEnqueue
    BY <1>3 DEF BarrierEnqueue, BelowLimit
<1>4. CASE TTIReached
    BY <1>4 DEF TTIReached
<1>5. CASE PauseLock
    BY <1>5 DEF PauseLock, NotifyOne
<1>6. CASE PlainLock
    BY <1>6 DEF PlainLock
<1>7. CASE Unlock
    BY <1>7 DEF Unlock
<1>8. CASE StartCollect
    BY <1>8 DEF StartCollect, WaitThen
<1>9. CASE StartYoungGen
    BY <1>9 DEF StartYoungGen
<1>10. CASE StartSnapshot
    BY <1>10 DEF StartSnapshot, WaitThen
<1>11. CASE StartAllocLongLived
    BY <1>11 DEF StartAllocLongLived, WaitThen
<1>12. CASE DrainFullBarrierChunk
    BY <1>12, <1>b DEF DrainFullBarrierChunk
<1>13. CASE AccountExternal
    BY <1>13 DEF AccountExternal
<1>14. CASE FinalizeAll
    BY <1>14 DEF FinalizeAll
<1>15. CASE WaitForCollection
    BY <1>15, <1>a DEF WaitForCollection, WaitStep, WorkEffect, PhaseEffect, SweepEnded
<1>16. CASE PromoteYoungGen
    BY <1>16 DEF PromoteYoungGen
<1>17. CASE EvacuateYoungGen
    BY <1>17 DEF EvacuateYoungGen, WaitThen
<1>18. CASE FinishYoungGen
    BY <1>18 DEF FinishYoungGen
<1>19. CASE YieldConcurrent
    BY <1>19, <1>a DEF YieldConcurrent, CollectOGInBackground, ExecutorAdd, WorkEffect,
        PhaseEffect, SweepEnded
<1>20. CASE YieldIncremental
    BY <1>20 DEF YieldIncremental
<1>21. CASE YieldStep
    BY <1>21, <1>a DEF YieldStep, WorkEffect, PhaseEffect, SweepEnded
<1>22. CASE TailYoungGen
    BY <1>22 DEF TailYoungGen, MayStartOldGen, ForcesOldGen
<1>23. CASE OldGenWait
    BY <1>23 DEF OldGenWait, TaskLingers
<1>24. CASE OldGenWake
    BY <1>24 DEF OldGenWake
<1>25. CASE OldGenStart
    BY <1>25 DEF OldGenStart, TaskLingers, PrepareCompactee, ForcesOldGen,
        CollectOGInBackground, ExecutorAdd
<1>26. CASE ReturnYoungGen
    BY <1>26 DEF ReturnYoungGen, WaitThen
<1>27. CASE Destroy
    BY <1>27 DEF Destroy
<1>28. CASE Join
    BY <1>28 DEF Join
<1>29. CASE WorkerHead
    BY <1>29 DEF WorkerHead, TakeTask
<1>30. CASE WorkerWake
    BY <1>30 DEF WorkerWake, TakeTask
<1>31. CASE WorkerTaskDone
    BY <1>31 DEF WorkerTaskDone, TakeTask
<1>32. CASE TaskLock
    BY <1>32 DEF TaskLock
<1>33. CASE TaskCheckPaused
    BY <1>33 DEF TaskCheckPaused
<1>34. CASE TaskResume
    BY <1>34 DEF TaskResume
<1>35. CASE TaskStep
    BY <1>35, <1>a DEF TaskStep, TaskExit, TaskOver, NotifyOne, WorkEffect, PhaseEffect,
        SweepEnded
<1> QED
    BY <1>1, <1>2, <1>3, <1>4, <1>5, <1>6, <1>7, <1>8, <1>9, <1>10, <1>11,
       <1>12, <1>13, <1>14, <1>15, <1>16, <1>17, <1>18, <1>19, <1>20,
       <1>21, <1>22, <1>23, <1>24, <1>25, <1>26, <1>27, <1>28, <1>29,
       <1>30, <1>31, <1>32, <1>33, <1>34, <1>35
    DEF Next, Mutate, InCollector, Background, Finished

\* Every step keeps the cells found or still to be found within the bound.
LEMMA WorkStep ==
    ASSUME IndInv, [Next]_vars
    PROVE  WorkInv'
<1>a. /\ IncrementalCollect(FALSE) => WorkEffect /\ PhaseEffect(FALSE)
      /\ IncrementalCollect(TRUE) => WorkEffect /\ PhaseEffect(TRUE)
    BY CollectEffect DEF IndInv
<1>b. IncrementalMark("zero", barrierWorklist) =>
          barrierWorklist' = 0 /\ unmarked' + localWorklist' <= MaxUnmarked
    BY IncrementalMarkEffect DEF IndInv
<1> USE ConcurrencyAssumption, ChunkAssumption, BoundAssumption
    DEF IndInv, TypeOK, Phase, Ops, PausingOps, LockingOps, YGOps, MutatorPoints,
        WorkerPoints, TaskPoints, WorkInv,
        mutexVars, markVars, gcVars, execVars, heapVars, mutVars, vars
<1>1. CASE UNCHANGED vars
    BY <1>1
<1>2. CASE \E o \in Ops : Enter(o)
    BY <1>2 DEF Enter
<1>3. CASE BarrierEnqueue
    BY <1>3 DEF BarrierEnqueue, BelowLimit
<1>4. CASE TTIReached
    BY <1>4 DEF TTIReached
<1>5. CASE PauseLock
    BY <1>5 DEF PauseLock, NotifyOne
<1>6. CASE PlainLock
    BY <1>6 DEF PlainLock
<1>7. CASE Unlock
    BY <1>7 DEF Unlock
<1>8. CASE StartCollect
    BY <1>8 DEF StartCollect, WaitThen
<1>9. CASE StartYoungGen
    BY <1>9 DEF StartYoungGen
<1>10. CASE StartSnapshot
    BY <1>10 DEF StartSnapshot, WaitThen
<1>11. CASE StartAllocLongLived
    BY <1>11 DEF StartAllocLongLived, WaitThen
<1>12. CASE DrainFullBarrierChunk
    BY <1>12, <1>b DEF DrainFullBarrierChunk
<1>13. CASE AccountExternal
    BY <1>13 DEF AccountExternal
<1>14. CASE FinalizeAll
    BY <1>14 DEF FinalizeAll
<1>15. CASE WaitForCollection
    BY <1>15, <1>a DEF WaitForCollection, WaitStep, WorkEffect, PhaseEffect, SweepEnded
<1>16. CASE PromoteYoungGen
    BY <1>16 DEF PromoteYoungGen
<1>17. CASE EvacuateYoungGen
    BY <1>17 DEF EvacuateYoungGen, WaitThen
<1>18. CASE FinishYoungGen
    BY <1>18 DEF FinishYoungGen
<1>19. CASE YieldConcurrent
    BY <1>19, <1>a DEF YieldConcurrent, CollectOGInBackground, ExecutorAdd, WorkEffect,
        PhaseEffect, SweepEnded
<1>20. CASE YieldIncremental
    BY <1>20 DEF YieldIncremental
<1>21. CASE YieldStep
    BY <1>21, <1>a DEF YieldStep, WorkEffect, PhaseEffect, SweepEnded
<1>22. CASE TailYoungGen
    BY <1>22 DEF TailYoungGen, MayStartOldGen, ForcesOldGen
<1>23. CASE OldGenWait
    BY <1>23 DEF OldGenWait, TaskLingers
<1>24. CASE OldGenWake
    BY <1>24 DEF OldGenWake
<1>25. CASE OldGenStart
    BY <1>25 DEF OldGenStart, TaskLingers, PrepareCompactee, ForcesOldGen,
        CollectOGInBackground, ExecutorAdd
<1>26. CASE ReturnYoungGen
    BY <1>26 DEF ReturnYoungGen, WaitThen
<1>27. CASE Destroy
    BY <1>27 DEF Destroy
<1>28. CASE Join
    BY <1>28 DEF Join
<1>29. CASE WorkerHead
    BY <1>29 DEF WorkerHead, TakeTask
<1>30. CASE WorkerWake
    BY <1>30 DEF WorkerWake, TakeTask
<1>31. CASE WorkerTaskDone
    BY <1>31 DEF WorkerTaskDone, TakeTask
<1>32. CASE TaskLock
    BY <1>32 DEF TaskLock
<1>33. CASE TaskCheckPaused
    BY <1>33 DEF TaskCheckPaused
<1>34. CASE TaskResume
    BY <1>34 DEF TaskResume
<1>35. CASE TaskStep
    BY <1>35, <1>a DEF TaskStep, TaskExit, TaskOver, NotifyOne, WorkEffect, PhaseEffect,
        SweepEnded
<1> QED
    BY <1>1, <1>2, <1>3, <1>4, <1>5, <1>6, <1>7, <1>8, <1>9, <1>10, <1>11,
       <1>12, <1>13, <1>14, <1>15, <1>16, <1>17, <1>18, <1>19, <1>20,
       <1>21, <1>22, <1>23, <1>24, <1>25, <1>26, <1>27, <1>28, <1>29,
       <1>30, <1>31, <1>32, <1>33, <1>34, <1>35
    DEF Next, Mutate, InCollector, Background, Finished


\* Chunk arithmetic: one more chunk, and when it still fits.
LEMMA ChunkArithmetic ==
    ASSUME NEW j \in Nat, NEW c \in Nat \ {0}, NEW k \in Nat
    PROVE  /\ j * c + c = (j + 1) * c
           /\ (j + 1) * c < k * c => j + 1 < k
           /\ j <= k => j * c <= k * c
           /\ j < k => j * c + c <= k * c
           /\ 0 * c = 0
<1>1. j * c + c = (j + 1) * c BY SMT
<1>2. ASSUME k <= j + 1 PROVE k * c <= (j + 1) * c BY <1>2, SMT
<1>3. ASSUME j <= k PROVE j * c <= k * c BY <1>3, SMT
<1>4. ASSUME j < k PROVE (j + 1) * c <= k * c BY <1>4, SMT
<1>5. j * c \in Nat /\ k * c \in Nat /\ (j + 1) * c \in Nat BY SMT
<1> QED BY <1>1, <1>2, <1>3, <1>4, <1>5, SMT

\* A step that keeps or empties barrierWorklist_ and does not start or keep a
\* drain keeps WorklistInv; so does one that leaves everything it reads alone.
LEMMA WorklistKept ==
    ASSUME IndInv,
           barrierWorklist' \in {0, barrierWorklist},
           \/ ~DrainPending' /\ (~DrainPending \/ barrierWorklist' = 0)
           \/ DrainPending /\ DrainPending' /\ barrierChunkIndex' = 0
    PROVE  WorklistInv'
<1>1. PICK j \in 0 .. kMaxBarrierChunks :
        /\ barrierWorklist = j * kBarrierChunkSize
        /\ ~DrainPending => j < kMaxBarrierChunks
        /\ DrainPending => barrierChunkIndex = 0
    BY DEF IndInv, WorklistInv
<1>2. 0 = 0 * kBarrierChunkSize BY ChunkAssumption, ChunkArithmetic
<1>3. CASE barrierWorklist' = 0
    BY <1>2, <1>3, ChunkAssumption, 0 \in 0 .. kMaxBarrierChunks DEF WorklistInv
<1>4. CASE barrierWorklist' = barrierWorklist /\ barrierWorklist' # 0
    BY <1>1, <1>4 DEF WorklistInv
<1> QED BY <1>3, <1>4

\* barrierWorklist_ holds whole chunks, and the mutator stops to drain it when
\* the last one that fits has been added.
LEMMA WorklistStep ==
    ASSUME IndInv, [Next]_vars
    PROVE  WorklistInv'
<1> DEFINE Kept ==
        /\ barrierWorklist' \in {0, barrierWorklist}
        /\ \/ ~DrainPending' /\ (~DrainPending \/ barrierWorklist' = 0)
           \/ DrainPending /\ DrainPending' /\ barrierChunkIndex' = 0
<1>a. /\ IncrementalCollect(FALSE) => WorkEffect
      /\ IncrementalCollect(TRUE) => WorkEffect
    BY CollectEffect DEF IndInv
<1>b. IncrementalMark("zero", barrierWorklist) => barrierWorklist' = 0
    BY IncrementalMarkEffect DEF IndInv
<1>c. DrainPending => barrierChunkIndex = 0
    BY DEF IndInv, WorklistInv
<1>1. CASE BarrierEnqueue
    <2>1. PICK j \in 0 .. kMaxBarrierChunks :
            /\ barrierWorklist = j * kBarrierChunkSize
            /\ ~DrainPending => j < kMaxBarrierChunks
        BY DEF IndInv, WorklistInv
    <2>2. ~DrainPending BY <1>1 DEF BarrierEnqueue, DrainPending
    <2>3. j \in Nat /\ j < kMaxBarrierChunks /\ j + 1 \in 0 .. kMaxBarrierChunks
        BY <2>1, <2>2, ChunkAssumption
    <2>4. /\ j * kBarrierChunkSize + kBarrierChunkSize = (j + 1) * kBarrierChunkSize
          /\ (j + 1) * kBarrierChunkSize < kMaxBarrierWorklistSize =>
                 j + 1 < kMaxBarrierChunks
        BY <2>3, ChunkAssumption, ChunkArithmetic DEF kMaxBarrierWorklistSize
    <2>5. CASE barrierChunkIndex < kBarrierChunkSize
        BY <1>1, <2>2, <2>5, WorklistKept DEF BarrierEnqueue, DrainPending
    <2>6. CASE ~(barrierChunkIndex < kBarrierChunkSize)
        <3>1. barrierWorklist' = (j + 1) * kBarrierChunkSize
            BY <1>1, <2>1, <2>4, <2>6 DEF BarrierEnqueue
        <3>2. CASE barrierWorklist' < kMaxBarrierWorklistSize
            <4>1. j + 1 < kMaxBarrierChunks BY <2>4, <3>1, <3>2
            <4>2. ~DrainPending'
                BY <1>1, <2>6, <3>2 DEF BarrierEnqueue, BelowLimit, DrainPending
            <4> QED BY <2>3, <3>1, <4>1, <4>2 DEF WorklistInv
        <3>3. CASE ~(barrierWorklist' < kMaxBarrierWorklistSize)
            <4>1. DrainPending' /\ barrierChunkIndex' = 0
                BY <1>1, <2>6, <3>3 DEF BarrierEnqueue, BelowLimit, DrainPending
            <4> QED BY <2>3, <3>1, <4>1 DEF WorklistInv
        <3> QED BY <3>2, <3>3
    <2> QED BY <2>5, <2>6
<1> USE <1>c DEF IndInv, DrainPending, TypeOK, ControlInv, Ending, InYoungGen,
        YGOps, mutexVars, markVars, gcVars, execVars, heapVars, mutVars, vars
<1>2. CASE UNCHANGED vars
    <2>1. Kept BY <1>2
    <2> QED BY <2>1, WorklistKept
<1>3. CASE \E o \in Ops : Enter(o)
    <2>1. Kept BY <1>3 DEF Enter, PausingOps, LockingOps
    <2> QED BY <2>1, WorklistKept
<1>4. CASE TTIReached
    <2>1. Kept BY <1>4 DEF TTIReached
    <2> QED BY <2>1, WorklistKept
<1>5. CASE PauseLock
    <2>1. Kept BY <1>5 DEF PauseLock, NotifyOne
    <2> QED BY <2>1, WorklistKept
<1>6. CASE PlainLock
    <2>1. Kept BY <1>6 DEF PlainLock
    <2> QED BY <2>1, WorklistKept
<1>7. CASE Unlock
    <2>1. Kept BY <1>7 DEF Unlock
    <2> QED BY <2>1, WorklistKept
<1>8. CASE StartCollect
    <2>1. Kept BY <1>8 DEF StartCollect, WaitThen
    <2> QED BY <2>1, WorklistKept
<1>9. CASE StartYoungGen
    <2>1. Kept BY <1>9 DEF StartYoungGen
    <2> QED BY <2>1, WorklistKept
<1>10. CASE StartSnapshot
    <2>1. Kept BY <1>10 DEF StartSnapshot, WaitThen
    <2> QED BY <2>1, WorklistKept
<1>11. CASE StartAllocLongLived
    <2>1. Kept BY <1>11 DEF StartAllocLongLived, WaitThen
    <2> QED BY <2>1, WorklistKept
<1>12. CASE DrainFullBarrierChunk
    <2>1. Kept BY <1>12, <1>b DEF DrainFullBarrierChunk
    <2> QED BY <2>1, WorklistKept
<1>13. CASE AccountExternal
    <2>1. Kept BY <1>13 DEF AccountExternal
    <2> QED BY <2>1, WorklistKept
<1>14. CASE FinalizeAll
    <2>1. Kept BY <1>14 DEF FinalizeAll
    <2> QED BY <2>1, WorklistKept
<1>15. CASE WaitForCollection
    <2>1. Kept BY <1>15, <1>a DEF WaitForCollection, WaitStep, WorkEffect
    <2> QED BY <2>1, WorklistKept
<1>16. CASE PromoteYoungGen
    <2>1. Kept BY <1>16 DEF PromoteYoungGen
    <2> QED BY <2>1, WorklistKept
<1>17. CASE EvacuateYoungGen
    <2>1. Kept BY <1>17 DEF EvacuateYoungGen, WaitThen
    <2> QED BY <2>1, WorklistKept
<1>18. CASE FinishYoungGen
    <2>1. Kept BY <1>18 DEF FinishYoungGen
    <2> QED BY <2>1, WorklistKept
<1>19. CASE YieldConcurrent
    <2>1. Kept
        BY <1>19, <1>a DEF YieldConcurrent, CollectOGInBackground, ExecutorAdd,
            WorkEffect
    <2> QED BY <2>1, WorklistKept
<1>20. CASE YieldIncremental
    <2>1. Kept BY <1>20 DEF YieldIncremental
    <2> QED BY <2>1, WorklistKept
<1>21. CASE YieldStep
    <2>1. Kept BY <1>21, <1>a DEF YieldStep, WorkEffect
    <2> QED BY <2>1, WorklistKept
<1>22. CASE TailYoungGen
    <2>1. Kept BY <1>22 DEF TailYoungGen, MayStartOldGen, ForcesOldGen
    <2> QED BY <2>1, WorklistKept
<1>23. CASE OldGenWait
    <2>1. Kept BY <1>23 DEF OldGenWait, TaskLingers
    <2> QED BY <2>1, WorklistKept
<1>24. CASE OldGenWake
    <2>1. Kept BY <1>24 DEF OldGenWake
    <2> QED BY <2>1, WorklistKept
<1>25. CASE OldGenStart
    <2>1. Kept
        BY <1>25 DEF OldGenStart, TaskLingers, PrepareCompactee, ForcesOldGen,
            CollectOGInBackground, ExecutorAdd
    <2> QED BY <2>1, WorklistKept
<1>26. CASE ReturnYoungGen
    <2>1. Kept BY <1>26 DEF ReturnYoungGen, WaitThen
    <2> QED BY <2>1, WorklistKept
<1>27. CASE Destroy
    <2>1. Kept BY <1>27 DEF Destroy
    <2> QED BY <2>1, WorklistKept
<1>28. CASE Join
    <2>1. Kept BY <1>28 DEF Join
    <2> QED BY <2>1, WorklistKept
<1>29. CASE WorkerHead
    <2>1. Kept BY <1>29 DEF WorkerHead, TakeTask
    <2> QED BY <2>1, WorklistKept
<1>30. CASE WorkerWake
    <2>1. Kept BY <1>30 DEF WorkerWake, TakeTask
    <2> QED BY <2>1, WorklistKept
<1>31. CASE WorkerTaskDone
    <2>1. Kept BY <1>31 DEF WorkerTaskDone, TakeTask
    <2> QED BY <2>1, WorklistKept
<1>32. CASE TaskLock
    <2>1. Kept BY <1>32 DEF TaskLock
    <2> QED BY <2>1, WorklistKept
<1>33. CASE TaskCheckPaused
    <2>1. Kept BY <1>33 DEF TaskCheckPaused
    <2> QED BY <2>1, WorklistKept
<1>34. CASE TaskResume
    <2>1. Kept BY <1>34 DEF TaskResume
    <2> QED BY <2>1, WorklistKept
<1>35. CASE TaskStep
    <2>1. Kept BY <1>35, <1>a DEF TaskStep, TaskExit, TaskOver, NotifyOne, WorkEffect
    <2> QED BY <2>1, WorklistKept
<1> QED
    BY <1>1, <1>2, <1>3, <1>4, <1>5, <1>6, <1>7, <1>8, <1>9, <1>10, <1>11,
       <1>12, <1>13, <1>14, <1>15, <1>16, <1>17, <1>18, <1>19, <1>20,
       <1>21, <1>22, <1>23, <1>24, <1>25, <1>26, <1>27, <1>28, <1>29,
       <1>30, <1>31, <1>32, <1>33, <1>34, <1>35
    DEF Next, Mutate, InCollector, Background, Finished

\* Every step keeps what collect() has achieved so far.
LEMMA CollectStep ==
    ASSUME IndInv, [Next]_vars
    PROVE  CollectInv'
<1>a. /\ IncrementalCollect(FALSE) => WorkEffect /\ PhaseEffect(FALSE)
      /\ IncrementalCollect(TRUE) => WorkEffect /\ PhaseEffect(TRUE)
    BY CollectEffect DEF IndInv
<1>b. IncrementalMark("zero", barrierWorklist) =>
          barrierWorklist' = 0 /\ unmarked' + localWorklist' <= MaxUnmarked
    BY IncrementalMarkEffect DEF IndInv
<1> USE ConcurrencyAssumption, ChunkAssumption, BoundAssumption
    DEF IndInv, TypeOK, Phase, Ops, PausingOps, LockingOps, YGOps, MutatorPoints,
        WorkerPoints, TaskPoints, CollectInv, Collecting, InYoungGen, Ownership,
        Holding, ControlInv, Ending, CompactionExclusive,
        mutexVars, markVars, gcVars, execVars, heapVars, mutVars, vars
<1>1. CASE UNCHANGED vars
    BY <1>1
<1>2. CASE \E o \in Ops : Enter(o)
    BY <1>2 DEF Enter
<1>3. CASE BarrierEnqueue
    BY <1>3 DEF BarrierEnqueue, BelowLimit
<1>4. CASE TTIReached
    BY <1>4 DEF TTIReached
<1>5. CASE PauseLock
    BY <1>5 DEF PauseLock, NotifyOne
<1>6. CASE PlainLock
    BY <1>6 DEF PlainLock
<1>7. CASE Unlock
    BY <1>7 DEF Unlock
<1>8. CASE StartCollect
    BY <1>8 DEF StartCollect, WaitThen
<1>9. CASE StartYoungGen
    BY <1>9 DEF StartYoungGen
<1>10. CASE StartSnapshot
    BY <1>10 DEF StartSnapshot, WaitThen
<1>11. CASE StartAllocLongLived
    BY <1>11 DEF StartAllocLongLived, WaitThen
<1>12. CASE DrainFullBarrierChunk
    BY <1>12, <1>b DEF DrainFullBarrierChunk
<1>13. CASE AccountExternal
    BY <1>13 DEF AccountExternal
<1>14. CASE FinalizeAll
    BY <1>14 DEF FinalizeAll
<1>15. CASE WaitForCollection
    BY <1>15, <1>a DEF WaitForCollection, WaitStep, WorkEffect, PhaseEffect, SweepEnded
<1>16. CASE PromoteYoungGen
    BY <1>16 DEF PromoteYoungGen
<1>17. CASE EvacuateYoungGen
    BY <1>17 DEF EvacuateYoungGen, WaitThen
<1>18. CASE FinishYoungGen
    BY <1>18 DEF FinishYoungGen
<1>19. CASE YieldConcurrent
    BY <1>19, <1>a DEF YieldConcurrent, CollectOGInBackground, ExecutorAdd, WorkEffect,
        PhaseEffect, SweepEnded
<1>20. CASE YieldIncremental
    BY <1>20 DEF YieldIncremental
<1>21. CASE YieldStep
    BY <1>21, <1>a DEF YieldStep, WorkEffect, PhaseEffect, SweepEnded
<1>22. CASE TailYoungGen
    BY <1>22 DEF TailYoungGen, MayStartOldGen, ForcesOldGen
<1>23. CASE OldGenWait
    BY <1>23 DEF OldGenWait, TaskLingers
<1>24. CASE OldGenWake
    BY <1>24 DEF OldGenWake
<1>25. CASE OldGenStart
    <2>1. /\ pcM = "ogWait" /\ pcM' = "ygReturn" /\ op' = op /\ ret' = ret
          /\ ~promoteYGToOG' /\ concurrentPhase' = "Mark"
        BY <1>25 DEF OldGenStart
    <2>2. fullCycle' = IF fullCycle = "owed" THEN "started" ELSE fullCycle
        BY <1>25 DEF OldGenStart
    <2> QED BY <2>1, <2>2
<1>26. CASE ReturnYoungGen
    BY <1>26 DEF ReturnYoungGen, WaitThen
<1>27. CASE Destroy
    BY <1>27 DEF Destroy
<1>28. CASE Join
    BY <1>28 DEF Join
<1>29. CASE WorkerHead
    BY <1>29 DEF WorkerHead, TakeTask
<1>30. CASE WorkerWake
    BY <1>30 DEF WorkerWake, TakeTask
<1>31. CASE WorkerTaskDone
    BY <1>31 DEF WorkerTaskDone, TakeTask
<1>32. CASE TaskLock
    BY <1>32 DEF TaskLock
<1>33. CASE TaskCheckPaused
    BY <1>33 DEF TaskCheckPaused
<1>34. CASE TaskResume
    BY <1>34 DEF TaskResume
<1>35. CASE TaskStep
    BY <1>35, <1>a DEF TaskStep, TaskExit, TaskOver, NotifyOne, WorkEffect, PhaseEffect,
        SweepEnded
<1> QED
    BY <1>1, <1>2, <1>3, <1>4, <1>5, <1>6, <1>7, <1>8, <1>9, <1>10, <1>11,
       <1>12, <1>13, <1>14, <1>15, <1>16, <1>17, <1>18, <1>19, <1>20,
       <1>21, <1>22, <1>23, <1>24, <1>25, <1>26, <1>27, <1>28, <1>29,
       <1>30, <1>31, <1>32, <1>33, <1>34, <1>35
    DEF Next, Mutate, InCollector, Background, Finished


------------------------------------------------------------------------------
(* The invariant and what follows from it.                                  *)

\* A new heap satisfies the invariant: no collection, no task, empty worklists.
LEMMA InitInv == Init => IndInv
<1> SUFFICES ASSUME Init PROVE IndInv OBVIOUS
<1> USE ConcurrencyAssumption, ChunkAssumption, BoundAssumption DEF Init
<1>1. FlagsOK BY Zenon DEF FlagsOK
<1>2. RestOK
    BY DEF RestOK, Phase, Ops, PausingOps, LockingOps, MutatorPoints,
           WorkerPoints, TaskPoints
<1>3. TypeOK BY <1>1, <1>2 DEF TypeOK, FlagsOK, RestOK
<1>4. Ownership BY DEF Ownership, Holding
<1>5. TaskInv BY DEF TaskInv, OneBackgroundTask, TaskPoints
<1>6. MarkInv BY DEF MarkInv
<1>7. WorkInv BY DEF WorkInv
<1>8. WorklistInv
    <2>1. 0 = 0 * kBarrierChunkSize BY ChunkArithmetic
    <2>2. 0 \in 0 .. kMaxBarrierChunks /\ 0 < kMaxBarrierChunks OBVIOUS
    <2> QED BY <2>1, <2>2 DEF WorklistInv, DrainPending
<1>9. CompactionExclusive BY DEF CompactionExclusive
<1>10. ControlInv BY DEF ControlInv, InYoungGen, Ending
<1>11. CollectInv BY DEF CollectInv, Collecting, InYoungGen
<1> QED
    BY <1>3, <1>4, <1>5, <1>6, <1>7, <1>8, <1>9, <1>10, <1>11 DEF IndInv

\* Every step of either thread preserves the invariant.
LEMMA StepInv == IndInv /\ [Next]_vars => IndInv'
<1> SUFFICES ASSUME IndInv, [Next]_vars PROVE IndInv' OBVIOUS
<1>1. TypeOK' BY FlagsStep, RestStep DEF TypeOK, FlagsOK, RestOK
<1> QED
    BY <1>1, OwnershipStep, TaskInvStep, MarkStep, WorkStep, WorklistStep,
       CompactionStep, ControlStep, CollectStep
    DEF IndInv

\* IndInv holds throughout every execution.
THEOREM Inductive == Spec => []IndInv
<1> QED BY InitInv, StepInv, PTL DEF Spec

\* Type correctness of the collector's shared state, for every bound.
THEOREM TypeCorrect == Spec => []TypeOK
<1>1. IndInv => TypeOK BY DEF IndInv
<1> QED BY <1>1, Inductive, PTL

\* The assertions of yieldToOldGen() and collectOGInBackground() never fail,
\* whatever the interleaving of the mutator with the background task.
THEOREM YieldSafe == Spec => []YieldAssertions
<1>1. IndInv => YieldAssertions
    <2> SUFFICES ASSUME IndInv, pcM = "yield" PROVE YieldAssertions
        BY DEF YieldAssertions
    <2>1. concurrentPhase \in Phase BY DEF IndInv, TypeOK
    <2>2. ogMarkingBarriers = (concurrentPhase \in {"Mark", "CompleteMarking"})
        BY <2>1 DEF IndInv, TypeOK, MarkInv, Phase, Ending
    <2>3. markState = (concurrentPhase \in {"Mark", "CompleteMarking"})
        BY <2>1 DEF IndInv, TypeOK, MarkInv, Phase, Ending
    <2>4. /\ kConcurrentGC /\ concurrentPhase \in {"Mark", "Sweep"} =>
                 backgroundTaskActive
          /\ concurrentPhase = "CompleteMarking" => ~backgroundTaskActive
        BY ConcurrencyAssumption DEF IndInv, TypeOK, TaskInv
    <2> QED BY <2>2, <2>3, <2>4 DEF YieldAssertions
<1> QED BY <1>1, Inductive, PTL

\* There is never more than one background task, and backgroundTaskActive_ says
\* exactly whether there is one.
THEOREM SingleTask == Spec => []OneBackgroundTask
<1>1. IndInv => OneBackgroundTask BY DEF IndInv, TaskInv
<1> QED BY <1>1, Inductive, PTL

\* No write escapes the snapshot: barriers are on for as long as marking runs,
\* and markState_ exists whenever they are.
THEOREM BarriersOn == Spec => []BarriersWhileMarking
<1>1. IndInv => BarriersWhileMarking
    BY DEF IndInv, MarkInv, BarriersWhileMarking
<1> QED BY <1>1, Inductive, PTL

\* barrierWorklist_ stays within its limit, for every chunk size and limit.
THEOREM WorklistSafe == Spec => []WorklistBounded
<1>1. IndInv => WorklistBounded
    <2> SUFFICES ASSUME IndInv PROVE WorklistBounded OBVIOUS
    <2>1. PICK j \in 0 .. kMaxBarrierChunks :
            /\ barrierWorklist = j * kBarrierChunkSize
            /\ ~DrainPending => j < kMaxBarrierChunks
        BY DEF IndInv, WorklistInv
    <2>2. j \in Nat /\ j <= kMaxBarrierChunks BY <2>1, ChunkAssumption
    <2>3. /\ j * kBarrierChunkSize <= kMaxBarrierWorklistSize
          /\ j < kMaxBarrierChunks => j * kBarrierChunkSize + kBarrierChunkSize
                                          <= kMaxBarrierWorklistSize
        BY <2>2, ChunkAssumption, ChunkArithmetic DEF kMaxBarrierWorklistSize
    <2>4. /\ barrierWorklist \in Nat /\ barrierChunkIndex \in Nat
          /\ barrierChunkIndex <= kBarrierChunkSize
          /\ kMaxBarrierWorklistSize \in Nat
        BY ChunkAssumption DEF IndInv, TypeOK, kMaxBarrierWorklistSize
    <2>5. ASSUME pcM # "locked" /\ pcM # "pause" /\ pcM # "lock"
          PROVE  barrierWorklist + barrierChunkIndex <= kMaxBarrierWorklistSize
        <3>1. j < kMaxBarrierChunks BY <2>1, <2>5 DEF DrainPending
        <3> QED BY <2>1, <2>3, <2>4, <3>1, ChunkAssumption
    <2> QED BY <2>1, <2>3, <2>5 DEF WorklistBounded
<1> QED BY <1>1, Inductive, PTL

\* collect() performs the full collection and the compaction it promises.
THEOREM CollectContract == Spec => []CollectIsFull
<1>1. IndInv => CollectIsFull
    BY DEF IndInv, CollectInv, Collecting, InYoungGen, CollectIsFull
<1> QED BY <1>1, Inductive, PTL

\* Promotion and compaction exclude each other, and no OG collection starts on
\* top of a pending compaction.
THEOREM CompactionSafe == Spec => []CompactionExclusive
<1>1. IndInv => CompactionExclusive BY DEF IndInv
<1> QED BY <1>1, Inductive, PTL

\* Every change of phase is the next one in the order and made by the thread
\* that holds gcMutex_; marking is completed by the mutator.
LEMMA PhaseKept == IndInv /\ [Next]_vars => [PhaseStep]_vars
<1> SUFFICES ASSUME IndInv, [Next]_vars, concurrentPhase' # concurrentPhase
             PROVE  PhaseStep
    BY DEF PhaseStep
<1>1. TypeOK /\ WorkInv /\ Ownership /\ CompactionExclusive
    BY DEF IndInv
<1>2. pcM \in Holding => gcMutex = "mut"
    BY <1>1 DEF Ownership
<1>3. ASSUME NEW b, IncrementalCollect(b), b => gcMutex = "bg", ~b => gcMutex = "mut",
             b \in BOOLEAN
      PROVE  PhaseStep
    <2>1. PhaseEffect(b)
        BY <1>1, <1>3, CollectEffect
    <2> QED
        BY <1>3, <2>1 DEF PhaseEffect, PhaseStep
<1>4. CASE FinalizeAll
    <2>1. gcMutex = "mut"
        BY <1>2, <1>4 DEF FinalizeAll, Holding
    <2> QED
        BY <1>4, <2>1 DEF FinalizeAll, PhaseStep
<1>5. CASE WaitForCollection
    <2>1. gcMutex = "mut" /\ IncrementalCollect(FALSE)
        BY <1>2, <1>5 DEF WaitForCollection, WaitStep, Holding, gcVars
    <2> QED
        BY <1>3, <2>1
<1>6. CASE YieldConcurrent
    <2>1. gcMutex = "mut" /\ IncrementalCollect(FALSE)
        BY <1>2, <1>6 DEF YieldConcurrent, Holding, gcVars
    <2> QED
        BY <1>3, <2>1
<1>7. CASE YieldStep
    <2>1. gcMutex = "mut" /\ IncrementalCollect(FALSE)
        BY <1>2, <1>7 DEF YieldStep, Holding
    <2> QED
        BY <1>3, <2>1
\* No collection starts before the last one is over.
<1>8. CASE OldGenStart
    <2>1. gcMutex = "mut" /\ concurrentPhase = "None" /\ concurrentPhase' = "Mark"
        BY <1>1, <1>2, <1>8 DEF OldGenStart, Holding, CompactionExclusive
    <2> QED
        BY <2>1 DEF PhaseStep
<1>9. CASE TaskStep
    <2>1. gcMutex = "bg" /\ IncrementalCollect(TRUE)
        BY <1>1, <1>9 DEF TaskStep, Ownership
    <2> QED
        BY <1>3, <2>1
<1>10. \/ FinalizeAll \/ WaitForCollection \/ YieldConcurrent \/ YieldStep
       \/ OldGenStart \/ TaskStep
    <2>1. CASE Mutate
        BY <2>1 DEF Mutate, Enter, BarrierEnqueue, TTIReached, gcVars
    <2>2. CASE InCollector
        <3>1. CASE \/ PauseLock \/ PlainLock \/ Unlock \/ StartCollect
                   \/ StartYoungGen \/ StartSnapshot \/ StartAllocLongLived
                   \/ DrainFullBarrierChunk \/ AccountExternal
            BY <3>1
            DEF PauseLock, PlainLock, Unlock, StartCollect, StartYoungGen,
                StartSnapshot, StartAllocLongLived, DrainFullBarrierChunk,
                AccountExternal, gcVars
        <3>2. CASE \/ PromoteYoungGen \/ EvacuateYoungGen \/ FinishYoungGen
                   \/ YieldIncremental \/ TailYoungGen \/ OldGenWait \/ OldGenWake
                   \/ ReturnYoungGen \/ Destroy \/ Join
            BY <3>2
            DEF PromoteYoungGen, EvacuateYoungGen, FinishYoungGen, YieldIncremental,
                TailYoungGen, OldGenWait, OldGenWake, ReturnYoungGen, Destroy, Join,
                gcVars
        <3> QED
            BY <2>2, <3>1, <3>2 DEF InCollector
    <2>3. CASE Background
        BY <2>3
        DEF Background, WorkerHead, WorkerWake, WorkerTaskDone, TaskLock,
            TaskCheckPaused, TaskResume, gcVars
    <2> QED
        BY <2>1, <2>2, <2>3 DEF Next, Finished, vars, gcVars
<1> QED
    BY <1>4, <1>5, <1>6, <1>7, <1>8, <1>9, <1>10

\* An OG collection goes through its phases in order, only finalizeAll()
\* abandons one, and only the mutator completes marking.
THEOREM PhasesInOrder == Spec => PhaseOrder
<1> QED
    BY Inductive, PhaseKept, PTL DEF Spec, PhaseOrder

==============================================================================
