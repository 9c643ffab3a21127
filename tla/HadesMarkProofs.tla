--------------------------- MODULE HadesMarkProofs ---------------------------
(***************************************************************************)
(* Proofs about HadesMark, for every set of cells, fields, weak references *)
(* and weak map entries, every initial heap and every bound.               *)
(*                                                                         *)
(* The invariant behind them is about the sets of cells that marking may   *)
(* end with.  Call a set T of allocated cells mark-closed when it contains *)
(* every cell that is marked, young or enqueued by a barrier, and the      *)
(* target of every pointer that the marker has still to read in a cell of  *)
(* T.  SnapshotInv: every mark-closed set already contains the registers   *)
(* and is closed under ALL pointers, also those in cells that were scanned *)
(* before the mutator wrote them.  When nothing is left to scan, the       *)
(* marked and young cells are such a set.                                  *)
(***************************************************************************)
EXTENDS HadesMark, TLAPS

\* Cells that are marked or will be, whatever the mutator does.
Shaded == young \cup marked \cup pushChunk \cup barrierWorklist

\* The marker has still to read field f of c, if c is going to be marked.
Unscanned(c, f) ==
    /\ c \notin young
    /\ c \notin marked \/ c \in localWorklist \/ (c = scanCell /\ f \in todo)

MarkClosed(T) ==
    /\ Shaded \subseteq T
    /\ \A c \in T : \A f \in Fields :
           Unscanned(c, f) => field[c][f] \in T \cup {Null}

\* Sets of cells: generations, mark bits and worklists.
SetInv ==
    /\ young \cap old = {}
    /\ marked \subseteq old /\ localWorklist \subseteq marked
    /\ pushChunk \cup barrierWorklist \subseteq old
    /\ todo # {} => scanCell \in marked

\* Which thread can be where in which phase.
ControlInv ==
    /\ bgMarking => phase = "Mark"
    /\ todo # {} => bgMarking
    /\ pcM \in {"mark", "slots"} =>
           /\ phase = "CompleteMarking" /\ ~bgMarking
           /\ pushChunk = {} /\ barrierWorklist = {}
    /\ phase \in {"None", "Sweep"} =>
           localWorklist = {} /\ pushChunk = {} /\ barrierWorklist = {}
    /\ draining =>
           pcM \in {"store", "load"} /\ ogMarkingBarriers /\ pushChunk = {}

\* The operation that the mutator is in the middle of.
PendingInv ==
    /\ pcM = "store" =>
           /\ pendCell \in regs /\ pendCell \notin young /\ pendField \in Fields
           /\ pendValue \in regs \cup {Null}
           /\ draining => field[pendCell][pendField] \in old
           /\ ogMarkingBarriers /\ ~draining =>
                  field[pendCell][pendField] \in Shaded \cup {Null}
    /\ pcM = "load" =>
           /\ draining => pendValue \in old
           /\ ogMarkingBarriers /\ ~draining => pendValue \in Shaded

\* The live cells are closed under everything the program can follow.
LiveInv ==
    /\ Roots \subseteq Live
    /\ \A c \in Live : \A f \in Fields : field[c][f] \in Live \cup {Null}
    /\ \A w \in WeakSlots : weak[w] \in Live \cup {Null}

EntryInv ==
    \A s \in EntrySlots :
        /\ entry[s].owner \in Live \cup {Null}
        /\ entry[s].key \in Live \cup {Null}
        /\ entry[s].value \in Live \cup {Null}
        /\ entry[s].map \in Allocated \cup {Null}
        /\ entry[s].map \in Live => entry[s].owner = entry[s].map
        /\ entry[s].owner \in {entry[s].map, Null}
        /\ entry[s].map = Null => entry[s].key = Null /\ entry[s].value = Null

SnapshotInv ==
    ogMarkingBarriers =>
        \A T \in SUBSET Allocated : MarkClosed(T) =>
            /\ regs \subseteq T
            /\ \A c \in T : \A f \in Fields : field[c][f] \in T \cup {Null}

\* During a pass over the weak map entries: no entry that was visited needs its
\* value marked, unless another pass follows.
SlotInv ==
    pcM = "slots" =>
        \/ localWorklist # {}
        \/ \A s \in EntrySlots \ slotsLeft :
               EntryLive(s) => entry[s].value = Null \/ IsMarked(entry[s].value)

\* While marking, what is not doomed does not lead to anything doomed.
Kept == Allocated \ doomed
DoomedInv ==
    /\ doomed \subseteq old
    /\ doomed \cap marked = {}
    /\ phase = "None" => doomed = {}
    /\ ogMarkingBarriers =>
           /\ Roots \cap doomed = {} /\ Shaded \cap doomed = {}
           /\ \A c \in Kept : \A f \in Fields : field[c][f] \notin doomed
           /\ \A s \in EntrySlots :
                  entry[s].owner \in Kept /\ entry[s].key \in Kept
                      => entry[s].value \notin doomed

IndInv == /\ TypeOK /\ SetInv /\ ControlInv /\ PendingInv /\ LiveInv /\ EntryInv
          /\ SnapshotInv /\ SlotInv /\ DoomedInv

\* The barriers' effect on push chunk and worklist, for a pointer value.
BarrierEffect(value) ==
    /\ pushChunk \cup barrierWorklist \subseteq pushChunk' \cup barrierWorklist'
    /\ pushChunk' \cup barrierWorklist' \subseteq
           pushChunk \cup barrierWorklist \cup {value}
    /\ value \notin young /\ value # Null /\ ogMarkingBarriers /\ ~draining' =>
           value \in pushChunk'
    /\ draining' => /\ ogMarkingBarriers /\ value \notin young /\ value # Null
                    /\ pushChunk' = {}
    /\ ~(value \notin young /\ value # Null /\ ogMarkingBarriers) =>
           UNCHANGED <<pushChunk, barrierWorklist>>
    /\ barrierChunkIndex' \in 0 .. kBarrierChunkSize
    /\ barrierWorklistSize' \in Nat

\* The snapshot barrier has that effect when the mutator calls it.
LEMMA SnapshotBarrierEffect ==
    ASSUME TypeOK, ~draining, NEW value \in Pointer, SnapshotBarrier(value)
    PROVE  BarrierEffect(value)
<1> USE ChunkAssumption DEF TypeOK, BarrierEffect, SnapshotBarrier, barrierVars
<1>1. CASE ogMarkingBarriers /\ value # Null /\ value \notin young
    <2>1. BarrierEnqueue(value) BY <1>1
    <2>2. CASE PushChunkFull
        <3>1. /\ barrierWorklist' = barrierWorklist \cup pushChunk
              /\ barrierWorklistSize' = barrierWorklistSize + kBarrierChunkSize
              /\ pushChunk' = IF draining' THEN {} ELSE {value}
              /\ barrierChunkIndex' = IF draining' THEN 0 ELSE 1
            BY <2>1, <2>2 DEF BarrierEnqueue, Flush
        <3> QED BY <3>1, <1>1
    <2>3. CASE ~PushChunkFull
        BY <2>1, <2>3, <1>1 DEF BarrierEnqueue, PushChunkFull
    <2> QED BY <2>2, <2>3
<1>2. CASE ~(ogMarkingBarriers /\ value # Null /\ value \notin young)
    BY <1>2
<1> QED BY <1>1, <1>2

\* draining' is a Boolean: it is the result of a comparison.
LEMMA DrainingTyped ==
    ASSUME draining \in BOOLEAN, NEW value, SnapshotBarrier(value)
    PROVE  draining' \in BOOLEAN
<1>1. CASE UNCHANGED draining BY <1>1, Zenon
<1>2. CASE draining' = FALSE BY <1>2, Zenon
<1>3. CASE draining' = (barrierWorklistSize' >= kMaxBarrierWorklistSize)
    <2>1. (barrierWorklistSize' >= kMaxBarrierWorklistSize) \in BOOLEAN OBVIOUS
    <2> QED BY <1>3, <2>1, Zenon
<1> QED BY <1>1, <1>2, <1>3, Zenon DEF SnapshotBarrier, BarrierEnqueue, barrierVars

\* TypeOK in three parts: Booleans, ...
FlagsOK == /\ promoteYGToOG \in BOOLEAN /\ bgMarking \in BOOLEAN
           /\ draining \in BOOLEAN
\* ... the weak map entries ...
EntrySet == [map : Pointer, owner : Pointer, key : Pointer, value : Pointer]
EntryOK == entry \in [EntrySlots -> EntrySet]
\* ... and the rest.
RestOK ==
    /\ young \subseteq Cells /\ old \subseteq Cells
    /\ field \in [Cells -> [Fields -> Pointer]]
    /\ regs \subseteq Cells
    /\ weak \in [WeakSlots -> Pointer]
    /\ phase \in {"None", "Mark", "CompleteMarking", "Sweep"}
    /\ segNumber \in 0 .. MaxSegments
    /\ marked \subseteq Cells /\ localWorklist \subseteq Cells
    /\ pushChunk \subseteq Cells /\ barrierChunkIndex \in 0 .. kBarrierChunkSize
    /\ barrierWorklist \subseteq Cells /\ barrierWorklistSize \in Nat
    /\ scanCell \in Pointer /\ todo \subseteq Fields
    /\ pcM \in {"run", "store", "load", "mark", "slots"}
    /\ pendCell \in Pointer /\ pendField \in Fields \cup {Null}
    /\ pendValue \in Pointer
    /\ slotsLeft \subseteq EntrySlots /\ doomed \subseteq Cells
    /\ mutations \in 0 .. MaxMutations

\* Together they are TypeOK.
LEMMA TypeParts == TypeOK <=> FlagsOK /\ EntryOK /\ RestOK
BY Zenon DEF TypeOK, FlagsOK, EntryOK, EntrySet, RestOK

\* Every step keeps the Booleans Boolean.
LEMMA FlagsStep ==
    ASSUME FlagsOK,
           [Next]_vars
    PROVE  FlagsOK'
<1> USE DEF FlagsOK,
        genVars, progVars, weakVars, barrierVars, markVars, scanVars, mutVars,
        cycleVars, vars
<1>1. CASE UNCHANGED vars
    BY <1>1, Zenon
<1>2. ASSUME NEW c \in regs, NEW f \in Fields, NEW v \in regs \cup {Null},
               WriteBarrier(c, f, v)
      PROVE  FlagsOK'
    BY <1>2, DrainingTyped, Zenon DEF WriteBarrier
<1>3. ASSUME Store
      PROVE  FlagsOK'
    BY <1>3, Zenon DEF Store, OpDone
<1>4. ASSUME DrainFullBarrierChunk
      PROVE  FlagsOK'
    BY <1>4, Zenon DEF DrainFullBarrierChunk, DrainBarrierWorklist
<1>5. ASSUME NEW c \in regs, NEW f \in Fields, Read(c, f)
      PROVE  FlagsOK'
    BY <1>5, Zenon DEF Read, Running
<1>6. ASSUME NEW c \in regs, Drop(c)
      PROVE  FlagsOK'
    BY <1>6, Zenon DEF Drop, Running
<1>7. ASSUME NEW c \in Cells, NEW init \in [Fields -> regs \cup {Null}],
               AllocYoung(c, init)
      PROVE  FlagsOK'
    BY <1>7, Zenon DEF AllocYoung, NewCell, Running, Allocated
<1>8. ASSUME NEW c \in Cells, NEW init \in [Fields -> regs \cup {Null}],
               AllocLongLived(c, init)
      PROVE  FlagsOK'
    BY <1>8, Zenon DEF AllocLongLived, NewCell, FinishAlloc, Running, Allocated
<1>9. ASSUME NEW w \in WeakSlots, NEW c \in regs, MakeWeak(w, c)
      PROVE  FlagsOK'
    BY <1>9, Zenon DEF MakeWeak, Running
<1>10. ASSUME NEW w \in WeakSlots, Deref(w)
      PROVE  FlagsOK'
    BY <1>10, DrainingTyped, Zenon DEF Deref, LoadWeak, Running
<1>11. ASSUME Load
      PROVE  FlagsOK'
    BY <1>11, Zenon DEF Load, OpDone
<1>12. ASSUME NEW s \in EntrySlots, NEW m \in regs, NEW k \in regs,
               NEW v \in regs \cup {Null}, MapSet(s, m, k, v)
      PROVE  FlagsOK'
    BY <1>12, Zenon DEF MapSet, Running, Found, Freeable, FreeSlot
<1>13. ASSUME NEW s \in EntrySlots, NEW m \in regs, NEW k \in regs,
               MapGet(s, m, k)
      PROVE  FlagsOK'
    BY <1>13, DrainingTyped, Zenon DEF MapGet, LoadMapped, LoadWeak, Running, Found
<1>14. ASSUME NEW s \in EntrySlots, NEW m \in regs, NEW k \in regs,
               MapDelete(s, m, k)
      PROVE  FlagsOK'
    BY <1>14, Zenon DEF MapDelete, Running, Found, FreeSlot
<1>15. ASSUME YoungGenCollection
      PROVE  FlagsOK'
    BY <1>15, Zenon DEF YoungGenCollection, ClearWeak, ClearRoot, FreeSlot, Evacuated
<1>16. ASSUME PromoteYoungGen
      PROVE  FlagsOK'
    BY <1>16, Zenon DEF PromoteYoungGen
<1>17. ASSUME OldGenCollection
      PROVE  FlagsOK'
    BY <1>17, Zenon DEF OldGenCollection
<1>18. ASSUME MarkBegin
      PROVE  FlagsOK'
    BY <1>18, Zenon DEF MarkBegin, DrainBarrierWorklist
<1>19. ASSUME NEW c \in Cells, MarkPop(c)
      PROVE  FlagsOK'
    BY <1>19, Zenon DEF MarkPop
<1>20. ASSUME NEW f \in Fields, MarkField(f)
      PROVE  FlagsOK'
    BY <1>20, Zenon DEF MarkField, Push, Unmarked, IsMarked
<1>21. ASSUME MarkEnd
      PROVE  FlagsOK'
    BY <1>21, Zenon DEF MarkEnd
<1>22. ASSUME CompleteMarking
      PROVE  FlagsOK'
    BY <1>22, Zenon DEF CompleteMarking, DrainBarrierWorklist, Pending
<1>23. ASSUME NEW c \in Cells, MarkCell(c)
      PROVE  FlagsOK'
    BY <1>23, Zenon DEF MarkCell, Unmarked, IsMarked
<1>24. ASSUME BeginPass
      PROVE  FlagsOK'
    BY <1>24, Zenon DEF BeginPass
<1>25. ASSUME NEW s \in EntrySlots, VisitSlot(s)
      PROVE  FlagsOK'
    BY <1>25, Zenon DEF VisitSlot, Push, Unmarked, IsMarked, EntryLive
<1>26. ASSUME NextPass
      PROVE  FlagsOK'
    BY <1>26, Zenon DEF NextPass, NewlyMarked
<1>27. ASSUME FinishMarking
      PROVE  FlagsOK'
    BY <1>27, Zenon DEF FinishMarking, NewlyMarked, MarkWeakRoots, ClearWeak,
        ClearRoot, EntryLive, IsMarked
<1>28. ASSUME SweepNext
      PROVE  FlagsOK'
    BY <1>28, Zenon DEF SweepNext, FreeSlot
<1> QED
    BY <1>1, <1>2, <1>3, <1>4, <1>5, <1>6, <1>7, <1>8, <1>9, <1>10, <1>11,
       <1>12, <1>13, <1>14, <1>15, <1>16, <1>17, <1>18, <1>19, <1>20,
       <1>21, <1>22, <1>23, <1>24, <1>25, <1>26, <1>27, <1>28 DEF Next, Program, Collector

\* Every step keeps the entries typed.
LEMMA EntryStep ==
    ASSUME EntryOK, regs \subseteq Cells,
           [Next]_vars
    PROVE  EntryOK'
<1>a. FreeSlot \in EntrySet BY DEF FreeSlot, EntrySet, Pointer
<1>b. ASSUME NEW e \in EntrySet, NEW o \in Pointer, NEW k \in Pointer, NEW v \in Pointer
      PROVE  /\ [e EXCEPT !.owner = o, !.key = k] \in EntrySet
             /\ [e EXCEPT !.value = v, !.owner = o, !.key = k] \in EntrySet
             /\ [e EXCEPT !.value = v] \in EntrySet
    BY DEF EntrySet
<1>c. ASSUME NEW e \in EntrySet
      PROVE  e.owner \in Pointer /\ e.key \in Pointer /\ e.value \in Pointer
    BY DEF EntrySet
<1>d. ASSUME NEW p \in Pointer, NEW dead PROVE ClearRoot(p, dead) \in Pointer
    BY DEF ClearRoot, Pointer
<1> USE DEF EntryOK,
        genVars, progVars, weakVars, barrierVars, markVars, scanVars, mutVars,
        cycleVars, vars
<1>1. CASE UNCHANGED vars
    BY <1>1
<1>2. ASSUME NEW c \in regs, NEW f \in Fields, NEW v \in regs \cup {Null},
               WriteBarrier(c, f, v)
      PROVE  EntryOK'
    BY <1>2 DEF WriteBarrier, Running
<1>3. ASSUME Store
      PROVE  EntryOK'
    BY <1>3 DEF Store, OpDone
<1>4. ASSUME DrainFullBarrierChunk
      PROVE  EntryOK'
    BY <1>4 DEF DrainFullBarrierChunk, DrainBarrierWorklist
<1>5. ASSUME NEW c \in regs, NEW f \in Fields, Read(c, f)
      PROVE  EntryOK'
    BY <1>5 DEF Read, Running
<1>6. ASSUME NEW c \in regs, Drop(c)
      PROVE  EntryOK'
    BY <1>6 DEF Drop, Running
<1>7. ASSUME NEW c \in Cells, NEW init \in [Fields -> regs \cup {Null}],
               AllocYoung(c, init)
      PROVE  EntryOK'
    BY <1>7 DEF AllocYoung, NewCell, Running, Allocated
<1>8. ASSUME NEW c \in Cells, NEW init \in [Fields -> regs \cup {Null}],
               AllocLongLived(c, init)
      PROVE  EntryOK'
    BY <1>8 DEF AllocLongLived, NewCell, FinishAlloc, Running, Allocated
<1>9. ASSUME NEW w \in WeakSlots, NEW c \in regs, MakeWeak(w, c)
      PROVE  EntryOK'
    BY <1>9 DEF MakeWeak, Running
<1>10. ASSUME NEW w \in WeakSlots, Deref(w)
      PROVE  EntryOK'
    BY <1>10 DEF Deref, LoadWeak, Running
<1>11. ASSUME Load
      PROVE  EntryOK'
    BY <1>11 DEF Load, OpDone
<1>12. ASSUME NEW s \in EntrySlots, NEW m \in regs, NEW k \in regs,
               NEW v \in regs \cup {Null}, MapSet(s, m, k, v)
      PROVE  EntryOK'
    <2>1. v \in Pointer BY DEF Pointer
    <2>2. CASE entry' = [entry EXCEPT ![s].value = v]
        <3>1. [entry[s] EXCEPT !.value = v] \in EntrySet
            BY <1>b, <2>1
        <3>2. entry' = [entry EXCEPT ![s] = [entry[s] EXCEPT !.value = v]]
            BY <2>2
        <3> QED BY <3>1, <3>2
    <2>3. CASE \E freed \in {{}, Freeable(m)} :
                 entry' = [t \in EntrySlots |->
                     IF t = s THEN [map |-> m, owner |-> m, key |-> k, value |-> v]
                     ELSE IF t \in freed THEN FreeSlot ELSE entry[t]]
        <3>1. [map |-> m, owner |-> m, key |-> k, value |-> v] \in EntrySet
            BY <2>1 DEF EntrySet, Pointer
        <3> QED BY <2>3, <3>1, <1>a
    <2> QED BY <1>12, <2>2, <2>3 DEF MapSet
<1>13. ASSUME NEW s \in EntrySlots, NEW m \in regs, NEW k \in regs,
               MapGet(s, m, k)
      PROVE  EntryOK'
    BY <1>13 DEF MapGet, LoadMapped, LoadWeak, Running, Found
<1>14. ASSUME NEW s \in EntrySlots, NEW m \in regs, NEW k \in regs,
               MapDelete(s, m, k)
      PROVE  EntryOK'
    BY <1>14, <1>a DEF MapDelete, Running, Found, FreeSlot
<1>15. ASSUME YoungGenCollection
      PROVE  EntryOK'
    <2> DEFINE dead == young \ Evacuated
    <2>1. entry' = [s \in EntrySlots |->
                      IF entry[s].map \in dead THEN FreeSlot
                      ELSE [entry[s] EXCEPT !.owner = ClearRoot(@, dead),
                                            !.key = ClearRoot(@, dead)]]
        BY <1>15 DEF YoungGenCollection
    <2> HIDE DEF dead
    <2>2. ASSUME NEW s \in EntrySlots
          PROVE  [entry[s] EXCEPT !.owner = ClearRoot(@, dead),
                                  !.key = ClearRoot(@, dead)] \in EntrySet
        BY <1>b, <1>c, <1>d
    <2> QED BY <2>1, <2>2, <1>a
<1>16. ASSUME PromoteYoungGen
      PROVE  EntryOK'
    BY <1>16 DEF PromoteYoungGen
<1>17. ASSUME OldGenCollection
      PROVE  EntryOK'
    BY <1>17 DEF OldGenCollection
<1>18. ASSUME MarkBegin
      PROVE  EntryOK'
    BY <1>18 DEF MarkBegin, DrainBarrierWorklist
<1>19. ASSUME NEW c \in Cells, MarkPop(c)
      PROVE  EntryOK'
    BY <1>19 DEF MarkPop
<1>20. ASSUME NEW f \in Fields, MarkField(f)
      PROVE  EntryOK'
    BY <1>20 DEF MarkField, Push, Unmarked, IsMarked
<1>21. ASSUME MarkEnd
      PROVE  EntryOK'
    BY <1>21 DEF MarkEnd
<1>22. ASSUME CompleteMarking
      PROVE  EntryOK'
    BY <1>22 DEF CompleteMarking, DrainBarrierWorklist, Pending
<1>23. ASSUME NEW c \in Cells, MarkCell(c)
      PROVE  EntryOK'
    BY <1>23 DEF MarkCell, Unmarked, IsMarked
<1>24. ASSUME BeginPass
      PROVE  EntryOK'
    BY <1>24 DEF BeginPass
<1>25. ASSUME NEW s \in EntrySlots, VisitSlot(s)
      PROVE  EntryOK'
    BY <1>25 DEF VisitSlot, Push, Unmarked, IsMarked, EntryLive
<1>26. ASSUME NextPass
      PROVE  EntryOK'
    BY <1>26 DEF NextPass, NewlyMarked
<1>27. ASSUME FinishMarking
      PROVE  EntryOK'
    <2> DEFINE dead == old \ marked
    <2>1. entry' = [s \in EntrySlots |->
                [entry[s] EXCEPT !.value = IF EntryLive(s) THEN @ ELSE Null,
                                 !.owner = ClearRoot(@, dead),
                                 !.key = ClearRoot(@, dead)]]
        BY <1>27 DEF FinishMarking
    <2> HIDE DEF dead
    <2>2. ASSUME NEW s \in EntrySlots
          PROVE  [entry[s] EXCEPT !.value = IF EntryLive(s) THEN @ ELSE Null,
                                 !.owner = ClearRoot(@, dead),
                                 !.key = ClearRoot(@, dead)] \in EntrySet
        <3>1. (IF EntryLive(s) THEN entry[s].value ELSE Null) \in Pointer
            BY <1>c DEF Pointer
        <3> QED BY <3>1, <1>b, <1>c, <1>d
    <2> QED BY <2>1, <2>2
<1>28. ASSUME SweepNext
      PROVE  EntryOK'
    BY <1>28, <1>a DEF SweepNext, FreeSlot
<1> QED
    BY <1>1, <1>2, <1>3, <1>4, <1>5, <1>6, <1>7, <1>8, <1>9, <1>10, <1>11,
       <1>12, <1>13, <1>14, <1>15, <1>16, <1>17, <1>18, <1>19, <1>20,
       <1>21, <1>22, <1>23, <1>24, <1>25, <1>26, <1>27, <1>28 DEF Next, Program, Collector

\* Every step keeps the rest of TypeOK.
LEMMA RestStep ==
    ASSUME TypeOK, ControlInv, PendingInv, SetInv, LiveInv,
           [Next]_vars
    PROVE  RestOK'
<1>a. ASSUME NEW value \in Pointer, SnapshotBarrier(value), pcM = "run"
      PROVE  /\ pushChunk' \subseteq Cells /\ barrierWorklist' \subseteq Cells
             /\ barrierChunkIndex' \in 0 .. kBarrierChunkSize
             /\ barrierWorklistSize' \in Nat
    BY <1>a, SnapshotBarrierEffect DEF BarrierEffect, TypeOK, ControlInv, Pointer
<1> USE NullAssumption, ChunkAssumption, BoundAssumption
<1> USE DEF TypeOK, RestOK, Pointer,
        genVars, progVars, weakVars, barrierVars, markVars, scanVars, mutVars,
        cycleVars, vars
<1>1. CASE UNCHANGED vars
    BY <1>1
<1>2. ASSUME NEW c \in regs, NEW f \in Fields, NEW v \in regs \cup {Null},
               WriteBarrier(c, f, v)
      PROVE  RestOK'
    <2>1. field[c][f] \in Pointer OBVIOUS
    <2>2. CASE c \in young
        BY <1>2, <2>2 DEF WriteBarrier, Running
    <2>3. CASE c \notin young
        <3>1. SnapshotBarrier(field[c][f]) /\ pcM = "run"
            BY <1>2, <2>3 DEF WriteBarrier, Running
        <3>2. /\ pushChunk' \subseteq Cells /\ barrierWorklist' \subseteq Cells
              /\ barrierChunkIndex' \in 0 .. kBarrierChunkSize
              /\ barrierWorklistSize' \in Nat
            BY <1>a, <2>1, <3>1
        <3> QED BY <1>2, <2>3, <3>2 DEF WriteBarrier, Running
    <2> QED BY <2>2, <2>3
<1>3. ASSUME Store
      PROVE  RestOK'
    BY <1>3 DEF Store, OpDone
<1>4. ASSUME DrainFullBarrierChunk
      PROVE  RestOK'
    <2>1. (IF pcM = "store" THEN field[pendCell][pendField] ELSE pendValue) \in old
        BY <1>4 DEF DrainFullBarrierChunk, ControlInv, PendingInv
    <2> QED BY <1>4, <2>1 DEF DrainFullBarrierChunk, DrainBarrierWorklist
<1>5. ASSUME NEW c \in regs, NEW f \in Fields, Read(c, f)
      PROVE  RestOK'
    BY <1>5 DEF Read, Running
<1>6. ASSUME NEW c \in regs, Drop(c)
      PROVE  RestOK'
    BY <1>6 DEF Drop, Running
<1>7. ASSUME NEW c \in Cells, NEW init \in [Fields -> regs \cup {Null}],
               AllocYoung(c, init)
      PROVE  RestOK'
    BY <1>7 DEF AllocYoung, NewCell, Running, Allocated
<1>8. ASSUME NEW c \in Cells, NEW init \in [Fields -> regs \cup {Null}],
               AllocLongLived(c, init)
      PROVE  RestOK'
    BY <1>8 DEF AllocLongLived, NewCell, FinishAlloc, Running, Allocated
<1>9. ASSUME NEW w \in WeakSlots, NEW c \in regs, MakeWeak(w, c)
      PROVE  RestOK'
    BY <1>9 DEF MakeWeak, Running
<1>10. ASSUME NEW w \in WeakSlots, Deref(w)
      PROVE  RestOK'
    BY <1>10, <1>a DEF Deref, LoadWeak, Running
<1>11. ASSUME Load
      PROVE  RestOK'
    <2>1. pendValue \in Live BY <1>11 DEF Load, LiveInv, Roots
    <2> QED BY <1>11, <2>1 DEF Load, OpDone, Live
<1>12. ASSUME NEW s \in EntrySlots, NEW m \in regs, NEW k \in regs,
               NEW v \in regs \cup {Null}, MapSet(s, m, k, v)
      PROVE  RestOK'
    BY <1>12 DEF MapSet, Running, Found, Freeable, FreeSlot
<1>13. ASSUME NEW s \in EntrySlots, NEW m \in regs, NEW k \in regs,
               MapGet(s, m, k)
      PROVE  RestOK'
    BY <1>13, <1>a DEF MapGet, LoadMapped, LoadWeak, Running, Found
<1>14. ASSUME NEW s \in EntrySlots, NEW m \in regs, NEW k \in regs,
               MapDelete(s, m, k)
      PROVE  RestOK'
    BY <1>14 DEF MapDelete, Running, Found, FreeSlot
<1>15. ASSUME YoungGenCollection
      PROVE  RestOK'
    BY <1>15 DEF YoungGenCollection, ClearWeak, ClearRoot, FreeSlot, Evacuated
<1>16. ASSUME PromoteYoungGen
      PROVE  RestOK'
    BY <1>16 DEF PromoteYoungGen
<1>17. ASSUME OldGenCollection
      PROVE  RestOK'
    BY <1>17 DEF OldGenCollection
<1>18. ASSUME MarkBegin
      PROVE  RestOK'
    BY <1>18 DEF MarkBegin, DrainBarrierWorklist
<1>19. ASSUME NEW c \in Cells, MarkPop(c)
      PROVE  RestOK'
    BY <1>19 DEF MarkPop
<1>20. ASSUME NEW f \in Fields, MarkField(f)
      PROVE  RestOK'
    <2>1. scanCell \in Cells BY <1>20 DEF MarkField, SetInv
    <2>2. Unmarked({field[scanCell][f]}) \subseteq Cells BY <2>1 DEF Unmarked
    <2> QED BY <1>20, <2>2 DEF MarkField, Push
<1>21. ASSUME MarkEnd
      PROVE  RestOK'
    BY <1>21 DEF MarkEnd
<1>22. ASSUME CompleteMarking
      PROVE  RestOK'
    BY <1>22 DEF CompleteMarking, DrainBarrierWorklist, Pending
<1>23. ASSUME NEW c \in Cells, MarkCell(c)
      PROVE  RestOK'
    BY <1>23 DEF MarkCell, Unmarked, IsMarked
<1>24. ASSUME BeginPass
      PROVE  RestOK'
    BY <1>24 DEF BeginPass
<1>25. ASSUME NEW s \in EntrySlots, VisitSlot(s)
      PROVE  RestOK'
    BY <1>25 DEF VisitSlot, Push, Unmarked, IsMarked, EntryLive
<1>26. ASSUME NextPass
      PROVE  RestOK'
    BY <1>26 DEF NextPass, NewlyMarked
<1>27. ASSUME FinishMarking
      PROVE  RestOK'
    BY <1>27 DEF FinishMarking, NewlyMarked, MarkWeakRoots, ClearWeak,
        ClearRoot, EntryLive, IsMarked
<1>28. ASSUME SweepNext
      PROVE  RestOK'
    BY <1>28 DEF SweepNext, FreeSlot
<1> QED
    BY <1>1, <1>2, <1>3, <1>4, <1>5, <1>6, <1>7, <1>8, <1>9, <1>10, <1>11,
       <1>12, <1>13, <1>14, <1>15, <1>16, <1>17, <1>18, <1>19, <1>20,
       <1>21, <1>22, <1>23, <1>24, <1>25, <1>26, <1>27, <1>28 DEF Next, Program, Collector

\* What the three operations with a barrier do: their barrier is on a live cell.
LEMMA WriteBarrierEffect ==
    ASSUME TypeOK, ControlInv, LiveInv, NEW c \in regs, NEW f \in Fields,
           NEW v, WriteBarrier(c, f, v), c \notin young
    PROVE  /\ BarrierEffect(field[c][f]) /\ field[c][f] \in Live \cup {Null}
           /\ pcM = "run" /\ pcM' = "store" /\ UNCHANGED field
           /\ pendCell' = c /\ pendField' = f /\ pendValue' = v
<1>1. c \in Live BY DEF LiveInv, Roots
<1>2. field[c][f] \in Live \cup {Null} BY <1>1 DEF LiveInv
<1>3. field[c][f] \in Pointer BY DEF TypeOK
<1>4. SnapshotBarrier(field[c][f]) /\ ~draining
    BY DEF WriteBarrier, Running, ControlInv
<1> QED BY <1>2, <1>3, <1>4, SnapshotBarrierEffect DEF WriteBarrier, Running

\* A read through a weak reference enqueues its live target.
LEMMA DerefEffect ==
    ASSUME TypeOK, ControlInv, LiveInv, NEW w \in WeakSlots, Deref(w)
    PROVE  /\ BarrierEffect(weak[w]) /\ weak[w] \in Live /\ weak[w] # Null
           /\ pcM = "run" /\ pcM' = "load" /\ pendValue' = weak[w]
<1>1. weak[w] \in Live \ {Null} BY DEF LiveInv, Deref, LoadWeak
<1>2. weak[w] \in Pointer BY DEF TypeOK
<1>3. SnapshotBarrier(weak[w]) /\ ~draining
    BY DEF Deref, LoadWeak, Running, ControlInv
<1> QED BY <1>1, <1>2, <1>3, SnapshotBarrierEffect DEF Deref, LoadWeak, Running

\* So does a read of a weak map entry's value.
LEMMA MapGetEffect ==
    ASSUME TypeOK, ControlInv, EntryInv, NEW s \in EntrySlots, NEW m \in regs,
           NEW k \in regs, MapGet(s, m, k)
    PROVE  /\ BarrierEffect(entry[s].value) /\ entry[s].value \in Live \ {Null}
           /\ pcM = "run" /\ pcM' = "load" /\ pendValue' = entry[s].value
<1>1. entry[s].value \in Live \ {Null} BY DEF EntryInv, MapGet, LoadMapped, LoadWeak
<1>2. entry[s].value \in Pointer BY TypeParts DEF EntryOK, EntrySet
<1>3. SnapshotBarrier(entry[s].value) /\ ~draining
    BY DEF MapGet, LoadMapped, LoadWeak, Running, ControlInv
<1> QED
    BY <1>1, <1>2, <1>3, SnapshotBarrierEffect
    DEF MapGet, LoadMapped, LoadWeak, Running

\* Every step keeps generations, mark bits and worklists as they should be.
LEMMA SetStep ==
    ASSUME TypeOK, ControlInv, SetInv, LiveInv, EntryInv, PendingInv,
           [Next]_vars
    PROVE  SetInv'
<1> USE DEF SetInv, ControlInv, Live, ogMarkingBarriers,
        genVars, progVars, weakVars, barrierVars, markVars, scanVars, mutVars,
        cycleVars, vars
<1>1. CASE UNCHANGED vars
    BY <1>1
<1>2. ASSUME NEW c \in regs, NEW f \in Fields, NEW v \in regs \cup {Null},
               WriteBarrier(c, f, v)
      PROVE  SetInv'
    <2>1. CASE c \in young BY <1>2, <2>1 DEF WriteBarrier, Running
    <2>2. CASE c \notin young
        <3>1. /\ BarrierEffect(field[c][f]) /\ field[c][f] \in Live \cup {Null}
              /\ pcM' = "store" /\ UNCHANGED field
              /\ pendCell' = c /\ pendField' = f /\ pendValue' = v
            BY <1>2, <2>2, WriteBarrierEffect
        <3> QED BY <1>2, <2>2, <3>1 DEF WriteBarrier, BarrierEffect
    <2> QED BY <2>1, <2>2
<1>3. ASSUME Store
      PROVE  SetInv'
    BY <1>3 DEF Store, OpDone
<1>4. ASSUME DrainFullBarrierChunk
      PROVE  SetInv'
    <2>1. (IF pcM = "store" THEN field[pendCell][pendField] ELSE pendValue) \in old
        BY <1>4 DEF DrainFullBarrierChunk, PendingInv
    <2> QED BY <1>4, <2>1 DEF DrainFullBarrierChunk, DrainBarrierWorklist
<1>5. ASSUME NEW c \in regs, NEW f \in Fields, Read(c, f)
      PROVE  SetInv'
    BY <1>5 DEF Read, Running
<1>6. ASSUME NEW c \in regs, Drop(c)
      PROVE  SetInv'
    BY <1>6 DEF Drop, Running
<1>7. ASSUME NEW c \in Cells, NEW init \in [Fields -> regs \cup {Null}],
               AllocYoung(c, init)
      PROVE  SetInv'
    BY <1>7 DEF AllocYoung, NewCell, Running, Allocated
<1>8. ASSUME NEW c \in Cells, NEW init \in [Fields -> regs \cup {Null}],
               AllocLongLived(c, init)
      PROVE  SetInv'
    BY <1>8 DEF AllocLongLived, NewCell, FinishAlloc, Running, Allocated
<1>9. ASSUME NEW w \in WeakSlots, NEW c \in regs, MakeWeak(w, c)
      PROVE  SetInv'
    BY <1>9 DEF MakeWeak, Running
<1>10. ASSUME NEW w \in WeakSlots, Deref(w)
      PROVE  SetInv'
    <2>1. /\ BarrierEffect(weak[w]) /\ weak[w] \in Live /\ weak[w] # Null
          /\ pcM = "run" /\ pcM' = "load" /\ pendValue' = weak[w]
        BY <1>10, DerefEffect
    <2> QED BY <1>10, <2>1 DEF Deref, BarrierEffect
<1>11. ASSUME Load
      PROVE  SetInv'
    BY <1>11 DEF Load, OpDone
<1>12. ASSUME NEW s \in EntrySlots, NEW m \in regs, NEW k \in regs,
               NEW v \in regs \cup {Null}, MapSet(s, m, k, v)
      PROVE  SetInv'
    BY <1>12 DEF MapSet, Running, Found, Freeable, FreeSlot
<1>13. ASSUME NEW s \in EntrySlots, NEW m \in regs, NEW k \in regs,
               MapGet(s, m, k)
      PROVE  SetInv'
    <2>1. /\ BarrierEffect(entry[s].value) /\ entry[s].value \in Live \ {Null}
          /\ pcM = "run" /\ pcM' = "load" /\ pendValue' = entry[s].value
        BY <1>13, MapGetEffect
    <2> QED BY <1>13, <2>1 DEF MapGet, BarrierEffect
<1>14. ASSUME NEW s \in EntrySlots, NEW m \in regs, NEW k \in regs,
               MapDelete(s, m, k)
      PROVE  SetInv'
    BY <1>14 DEF MapDelete, Running, Found, FreeSlot
<1>15. ASSUME YoungGenCollection
      PROVE  SetInv'
    BY <1>15 DEF YoungGenCollection, ClearWeak, ClearRoot, FreeSlot, Evacuated
<1>16. ASSUME PromoteYoungGen
      PROVE  SetInv'
    BY <1>16 DEF PromoteYoungGen
<1>17. ASSUME OldGenCollection
      PROVE  SetInv'
    BY <1>17 DEF OldGenCollection, LiveInv, Roots
<1>18. ASSUME MarkBegin
      PROVE  SetInv'
    BY <1>18 DEF MarkBegin, DrainBarrierWorklist
<1>19. ASSUME NEW c \in Cells, MarkPop(c)
      PROVE  SetInv'
    BY <1>19 DEF MarkPop
<1>20. ASSUME NEW f \in Fields, MarkField(f)
      PROVE  SetInv'
    BY <1>20 DEF MarkField, Push, Unmarked, IsMarked, LiveInv
<1>21. ASSUME MarkEnd
      PROVE  SetInv'
    BY <1>21 DEF MarkEnd
<1>22. ASSUME CompleteMarking
      PROVE  SetInv'
    BY <1>22 DEF CompleteMarking, DrainBarrierWorklist, Pending
<1>23. ASSUME NEW c \in Cells, MarkCell(c)
      PROVE  SetInv'
    BY <1>23 DEF MarkCell, Unmarked, IsMarked, LiveInv
<1>24. ASSUME BeginPass
      PROVE  SetInv'
    BY <1>24 DEF BeginPass
<1>25. ASSUME NEW s \in EntrySlots, VisitSlot(s)
      PROVE  SetInv'
    BY <1>25 DEF VisitSlot, Push, Unmarked, IsMarked, EntryLive, EntryInv
<1>26. ASSUME NextPass
      PROVE  SetInv'
    BY <1>26 DEF NextPass, NewlyMarked
<1>27. ASSUME FinishMarking
      PROVE  SetInv'
    BY <1>27 DEF FinishMarking, NewlyMarked, MarkWeakRoots, ClearWeak,
        ClearRoot, EntryLive, IsMarked
<1>28. ASSUME SweepNext
      PROVE  SetInv'
    BY <1>28 DEF SweepNext, FreeSlot
<1> QED
    BY <1>1, <1>2, <1>3, <1>4, <1>5, <1>6, <1>7, <1>8, <1>9, <1>10, <1>11,
       <1>12, <1>13, <1>14, <1>15, <1>16, <1>17, <1>18, <1>19, <1>20,
       <1>21, <1>22, <1>23, <1>24, <1>25, <1>26, <1>27, <1>28 DEF Next, Program, Collector

\* Every step keeps threads and phases together.
LEMMA ControlStep ==
    ASSUME TypeOK, ControlInv, SetInv, LiveInv, EntryInv, PendingInv,
           [Next]_vars
    PROVE  ControlInv'
<1> USE DEF ControlInv, ogMarkingBarriers, SetInv,
        genVars, progVars, weakVars, barrierVars, markVars, scanVars, mutVars,
        cycleVars, vars
<1>1. CASE UNCHANGED vars
    BY <1>1
<1>2. ASSUME NEW c \in regs, NEW f \in Fields, NEW v \in regs \cup {Null},
               WriteBarrier(c, f, v)
      PROVE  ControlInv'
    <2>1. CASE c \in young BY <1>2, <2>1 DEF WriteBarrier, Running
    <2>2. CASE c \notin young
        <3>1. /\ BarrierEffect(field[c][f]) /\ field[c][f] \in Live \cup {Null}
              /\ pcM' = "store" /\ UNCHANGED field
              /\ pendCell' = c /\ pendField' = f /\ pendValue' = v
            BY <1>2, <2>2, WriteBarrierEffect
        <3> QED BY <1>2, <2>2, <3>1 DEF WriteBarrier, BarrierEffect
    <2> QED BY <2>1, <2>2
<1>3. ASSUME Store
      PROVE  ControlInv'
    BY <1>3 DEF Store, OpDone
<1>4. ASSUME DrainFullBarrierChunk
      PROVE  ControlInv'
    BY <1>4 DEF DrainFullBarrierChunk, DrainBarrierWorklist
<1>5. ASSUME NEW c \in regs, NEW f \in Fields, Read(c, f)
      PROVE  ControlInv'
    BY <1>5 DEF Read, Running
<1>6. ASSUME NEW c \in regs, Drop(c)
      PROVE  ControlInv'
    BY <1>6 DEF Drop, Running
<1>7. ASSUME NEW c \in Cells, NEW init \in [Fields -> regs \cup {Null}],
               AllocYoung(c, init)
      PROVE  ControlInv'
    BY <1>7 DEF AllocYoung, NewCell, Running, Allocated
<1>8. ASSUME NEW c \in Cells, NEW init \in [Fields -> regs \cup {Null}],
               AllocLongLived(c, init)
      PROVE  ControlInv'
    BY <1>8 DEF AllocLongLived, NewCell, FinishAlloc, Running, Allocated
<1>9. ASSUME NEW w \in WeakSlots, NEW c \in regs, MakeWeak(w, c)
      PROVE  ControlInv'
    BY <1>9 DEF MakeWeak, Running
<1>10. ASSUME NEW w \in WeakSlots, Deref(w)
      PROVE  ControlInv'
    <2>1. /\ BarrierEffect(weak[w]) /\ weak[w] \in Live /\ weak[w] # Null
          /\ pcM = "run" /\ pcM' = "load" /\ pendValue' = weak[w]
        BY <1>10, DerefEffect
    <2> QED BY <1>10, <2>1 DEF Deref, BarrierEffect
<1>11. ASSUME Load
      PROVE  ControlInv'
    BY <1>11 DEF Load, OpDone
<1>12. ASSUME NEW s \in EntrySlots, NEW m \in regs, NEW k \in regs,
               NEW v \in regs \cup {Null}, MapSet(s, m, k, v)
      PROVE  ControlInv'
    BY <1>12 DEF MapSet, Running, Found, Freeable, FreeSlot
<1>13. ASSUME NEW s \in EntrySlots, NEW m \in regs, NEW k \in regs,
               MapGet(s, m, k)
      PROVE  ControlInv'
    <2>1. /\ BarrierEffect(entry[s].value) /\ entry[s].value \in Live \ {Null}
          /\ pcM = "run" /\ pcM' = "load" /\ pendValue' = entry[s].value
        BY <1>13, MapGetEffect
    <2> QED BY <1>13, <2>1 DEF MapGet, BarrierEffect
<1>14. ASSUME NEW s \in EntrySlots, NEW m \in regs, NEW k \in regs,
               MapDelete(s, m, k)
      PROVE  ControlInv'
    BY <1>14 DEF MapDelete, Running, Found, FreeSlot
<1>15. ASSUME YoungGenCollection
      PROVE  ControlInv'
    BY <1>15 DEF YoungGenCollection, ClearWeak, ClearRoot, FreeSlot, Evacuated
<1>16. ASSUME PromoteYoungGen
      PROVE  ControlInv'
    BY <1>16 DEF PromoteYoungGen
<1>17. ASSUME OldGenCollection
      PROVE  ControlInv'
    BY <1>17 DEF OldGenCollection
<1>18. ASSUME MarkBegin
      PROVE  ControlInv'
    BY <1>18 DEF MarkBegin, DrainBarrierWorklist
<1>19. ASSUME NEW c \in Cells, MarkPop(c)
      PROVE  ControlInv'
    BY <1>19 DEF MarkPop
<1>20. ASSUME NEW f \in Fields, MarkField(f)
      PROVE  ControlInv'
    BY <1>20 DEF MarkField, Push, Unmarked, IsMarked
<1>21. ASSUME MarkEnd
      PROVE  ControlInv'
    BY <1>21 DEF MarkEnd
<1>22. ASSUME CompleteMarking
      PROVE  ControlInv'
    BY <1>22 DEF CompleteMarking, DrainBarrierWorklist, Pending
<1>23. ASSUME NEW c \in Cells, MarkCell(c)
      PROVE  ControlInv'
    BY <1>23 DEF MarkCell, Unmarked, IsMarked
<1>24. ASSUME BeginPass
      PROVE  ControlInv'
    BY <1>24 DEF BeginPass
<1>25. ASSUME NEW s \in EntrySlots, VisitSlot(s)
      PROVE  ControlInv'
    BY <1>25 DEF VisitSlot, Push, Unmarked, IsMarked, EntryLive
<1>26. ASSUME NextPass
      PROVE  ControlInv'
    BY <1>26 DEF NextPass, NewlyMarked
<1>27. ASSUME FinishMarking
      PROVE  ControlInv'
    BY <1>27 DEF FinishMarking, NewlyMarked, MarkWeakRoots, ClearWeak,
        ClearRoot, EntryLive, IsMarked
<1>28. ASSUME SweepNext
      PROVE  ControlInv'
    BY <1>28 DEF SweepNext, FreeSlot
<1> QED
    BY <1>1, <1>2, <1>3, <1>4, <1>5, <1>6, <1>7, <1>8, <1>9, <1>10, <1>11,
       <1>12, <1>13, <1>14, <1>15, <1>16, <1>17, <1>18, <1>19, <1>20,
       <1>21, <1>22, <1>23, <1>24, <1>25, <1>26, <1>27, <1>28 DEF Next, Program, Collector

\* Every step keeps what is known of the pending operation.
LEMMA PendingStep ==
    ASSUME TypeOK, ControlInv, SetInv, LiveInv, EntryInv, PendingInv,
           [Next]_vars
    PROVE  PendingInv'
<1> USE DEF PendingInv, ControlInv, SetInv, ogMarkingBarriers, Shaded, Live,
        genVars, progVars, weakVars, barrierVars, markVars, scanVars, mutVars,
        cycleVars, vars
<1>1. CASE UNCHANGED vars
    BY <1>1
<1>2. ASSUME NEW c \in regs, NEW f \in Fields, NEW v \in regs \cup {Null},
               WriteBarrier(c, f, v)
      PROVE  PendingInv'
    <2>1. CASE c \in young BY <1>2, <2>1 DEF WriteBarrier, Running
    <2>2. CASE c \notin young
        <3>1. /\ BarrierEffect(field[c][f]) /\ field[c][f] \in Live \cup {Null}
              /\ pcM' = "store" /\ UNCHANGED field
              /\ pendCell' = c /\ pendField' = f /\ pendValue' = v
            BY <1>2, <2>2, WriteBarrierEffect
        <3> QED BY <1>2, <2>2, <3>1 DEF WriteBarrier, BarrierEffect
    <2> QED BY <2>1, <2>2
<1>3. ASSUME Store
      PROVE  PendingInv'
    BY <1>3 DEF Store, OpDone
<1>4. ASSUME DrainFullBarrierChunk
      PROVE  PendingInv'
    BY <1>4 DEF DrainFullBarrierChunk, DrainBarrierWorklist
<1>5. ASSUME NEW c \in regs, NEW f \in Fields, Read(c, f)
      PROVE  PendingInv'
    BY <1>5 DEF Read, Running
<1>6. ASSUME NEW c \in regs, Drop(c)
      PROVE  PendingInv'
    BY <1>6 DEF Drop, Running
<1>7. ASSUME NEW c \in Cells, NEW init \in [Fields -> regs \cup {Null}],
               AllocYoung(c, init)
      PROVE  PendingInv'
    BY <1>7 DEF AllocYoung, NewCell, Running, Allocated
<1>8. ASSUME NEW c \in Cells, NEW init \in [Fields -> regs \cup {Null}],
               AllocLongLived(c, init)
      PROVE  PendingInv'
    BY <1>8 DEF AllocLongLived, NewCell, FinishAlloc, Running, Allocated
<1>9. ASSUME NEW w \in WeakSlots, NEW c \in regs, MakeWeak(w, c)
      PROVE  PendingInv'
    BY <1>9 DEF MakeWeak, Running
<1>10. ASSUME NEW w \in WeakSlots, Deref(w)
      PROVE  PendingInv'
    <2>1. /\ BarrierEffect(weak[w]) /\ weak[w] \in Live /\ weak[w] # Null
          /\ pcM = "run" /\ pcM' = "load" /\ pendValue' = weak[w]
        BY <1>10, DerefEffect
    <2> QED BY <1>10, <2>1 DEF Deref, BarrierEffect
<1>11. ASSUME Load
      PROVE  PendingInv'
    BY <1>11 DEF Load, OpDone
<1>12. ASSUME NEW s \in EntrySlots, NEW m \in regs, NEW k \in regs,
               NEW v \in regs \cup {Null}, MapSet(s, m, k, v)
      PROVE  PendingInv'
    BY <1>12 DEF MapSet, Running, Found, Freeable, FreeSlot
<1>13. ASSUME NEW s \in EntrySlots, NEW m \in regs, NEW k \in regs,
               MapGet(s, m, k)
      PROVE  PendingInv'
    <2>1. /\ BarrierEffect(entry[s].value) /\ entry[s].value \in Live \ {Null}
          /\ pcM = "run" /\ pcM' = "load" /\ pendValue' = entry[s].value
        BY <1>13, MapGetEffect
    <2> QED BY <1>13, <2>1 DEF MapGet, BarrierEffect
<1>14. ASSUME NEW s \in EntrySlots, NEW m \in regs, NEW k \in regs,
               MapDelete(s, m, k)
      PROVE  PendingInv'
    BY <1>14 DEF MapDelete, Running, Found, FreeSlot
<1>15. ASSUME YoungGenCollection
      PROVE  PendingInv'
    BY <1>15 DEF YoungGenCollection, ClearWeak, ClearRoot, FreeSlot, Evacuated
<1>16. ASSUME PromoteYoungGen
      PROVE  PendingInv'
    BY <1>16 DEF PromoteYoungGen
<1>17. ASSUME OldGenCollection
      PROVE  PendingInv'
    BY <1>17 DEF OldGenCollection
<1>18. ASSUME MarkBegin
      PROVE  PendingInv'
    BY <1>18 DEF MarkBegin, DrainBarrierWorklist
<1>19. ASSUME NEW c \in Cells, MarkPop(c)
      PROVE  PendingInv'
    BY <1>19 DEF MarkPop
<1>20. ASSUME NEW f \in Fields, MarkField(f)
      PROVE  PendingInv'
    BY <1>20 DEF MarkField, Push, Unmarked, IsMarked
<1>21. ASSUME MarkEnd
      PROVE  PendingInv'
    BY <1>21 DEF MarkEnd
<1>22. ASSUME CompleteMarking
      PROVE  PendingInv'
    BY <1>22 DEF CompleteMarking, DrainBarrierWorklist, Pending
<1>23. ASSUME NEW c \in Cells, MarkCell(c)
      PROVE  PendingInv'
    BY <1>23 DEF MarkCell, Unmarked, IsMarked
<1>24. ASSUME BeginPass
      PROVE  PendingInv'
    BY <1>24 DEF BeginPass
<1>25. ASSUME NEW s \in EntrySlots, VisitSlot(s)
      PROVE  PendingInv'
    BY <1>25 DEF VisitSlot, Push, Unmarked, IsMarked, EntryLive
<1>26. ASSUME NextPass
      PROVE  PendingInv'
    BY <1>26 DEF NextPass, NewlyMarked
<1>27. ASSUME FinishMarking
      PROVE  PendingInv'
    BY <1>27 DEF FinishMarking, NewlyMarked, MarkWeakRoots, ClearWeak,
        ClearRoot, EntryLive, IsMarked
<1>28. ASSUME SweepNext
      PROVE  PendingInv'
    BY <1>28 DEF SweepNext, FreeSlot
<1> QED
    BY <1>1, <1>2, <1>3, <1>4, <1>5, <1>6, <1>7, <1>8, <1>9, <1>10, <1>11,
       <1>12, <1>13, <1>14, <1>15, <1>16, <1>17, <1>18, <1>19, <1>20,
       <1>21, <1>22, <1>23, <1>24, <1>25, <1>26, <1>27, <1>28 DEF Next, Program, Collector

\* Evacuated is the least closed set above the roots in the YG, so it is one.
LEMMA EvacuatedClosed ==
    /\ Evacuated \subseteq young
    /\ YoungRoots \cap young \subseteq Evacuated
    /\ ClosedInYoung(Evacuated)
<1>1. Evacuated \subseteq young /\ YoungRoots \cap young \subseteq Evacuated
    BY DEF Evacuated
<1>2. ASSUME NEW d \in Evacuated, NEW f \in Fields, field[d][f] \in young,
             NEW T \in SUBSET young,
             YoungRoots \cap young \subseteq T, ClosedInYoung(T)
      PROVE  field[d][f] \in T
    <2>1. d \in T BY <1>2 DEF Evacuated
    <2> QED BY <1>2, <2>1 DEF ClosedInYoung
<1> QED BY <1>1, <1>2 DEF Evacuated, ClosedInYoung

\* What survives a YG collection: nothing that is left refers to the dead.
LEMMA SurvivorsClosed ==
    ASSUME SetInv, LiveInv, EntryInv, YoungGenCollection
    PROVE  /\ Live' = Live \ (young \ Evacuated)
           /\ regs \subseteq Live'
           /\ \A c \in Live' : \A f \in Fields : field[c][f] \in Live' \cup {Null}
           /\ \A s \in EntrySlots : entry[s].value \in Live' \cup {Null}
<1> DEFINE dead == young \ Evacuated
<1>1. Live' = Live \ dead
    BY EvacuatedClosed DEF YoungGenCollection, Live, SetInv, cycleVars
<1>2. ASSUME NEW p \in Live \cup {Null}, p \in young => p \in YoungRoots
      PROVE  p \in Live' \cup {Null}
    BY <1>1, <1>2, EvacuatedClosed
<1>3. regs \subseteq Live'
    BY <1>1, EvacuatedClosed DEF YoungRoots, LiveInv, Roots
<1>4. ASSUME NEW c \in Live', NEW f \in Fields
      PROVE  field[c][f] \in Live' \cup {Null}
    <2>1. c \in Live /\ field[c][f] \in Live \cup {Null} BY <1>1 DEF LiveInv
    <2>2. CASE c \in young
        <3>1. c \in Evacuated BY <1>1, <2>2
        <3> QED BY <1>1, <2>1, <3>1, EvacuatedClosed DEF ClosedInYoung
    <2>3. CASE c \notin young
        <3>1. <<c, f>> \in Scanned \X Fields BY <2>1, <2>3 DEF Live, Scanned
        <3>2. field[c][f] \in YoungRoots
            <4>1. field[c][f] = field[(<<c, f>>)[1]][(<<c, f>>)[2]] OBVIOUS
            <4> QED BY <3>1, <4>1 DEF YoungRoots
        <3> QED BY <1>2, <2>1, <3>2
    <2> QED BY <2>2, <2>3
<1>5. ASSUME NEW s \in EntrySlots PROVE entry[s].value \in Live' \cup {Null}
    <2>1. entry[s].value \in Live \cup {Null} BY DEF EntryInv
    <2> QED BY <1>2, <2>1 DEF YoungRoots
<1> QED BY <1>1, <1>3, <1>4, <1>5

\* When the last pass found nothing, marked and young cells are a mark-closed
\* set, and by SnapshotInv closed under all pointers.
LEMMA MarkedClosed ==
    ASSUME SetInv, ControlInv, SnapshotInv, FinishMarking
    PROVE  /\ Live' = young \cup marked
           /\ regs \subseteq Live'
           /\ \A c \in Live' : \A f \in Fields : field[c][f] \in Live' \cup {Null}
<1> DEFINE T == young \cup marked
<1>1. /\ pcM = "slots" /\ localWorklist = {}
      /\ UNCHANGED <<young, old, marked>> /\ phase' = "Sweep"
    BY DEF FinishMarking, NewlyMarked, genVars
<1>2. /\ pushChunk = {} /\ barrierWorklist = {} /\ todo = {}
      /\ ogMarkingBarriers
    BY <1>1 DEF ControlInv, ogMarkingBarriers
<1>3. MarkClosed(T) /\ T \in SUBSET Allocated
    BY <1>1, <1>2 DEF MarkClosed, Shaded, Unscanned, SetInv, Allocated
<1>4. Live' = T BY <1>1 DEF Live, SetInv
<1> QED BY <1>2, <1>3, <1>4 DEF SnapshotInv

\* The weak map entries after each step that clears some of them.
LEMMA YoungEntries ==
    ASSUME EntryOK, YoungGenCollection, NEW s \in EntrySlots
    PROVE  LET dead == young \ Evacuated IN
           \/ entry[s].map \in dead /\ entry'[s] = FreeSlot
           \/ /\ entry[s].map \notin dead
              /\ entry'[s].map = entry[s].map
              /\ entry'[s].owner = ClearRoot(entry[s].owner, dead)
              /\ entry'[s].key = ClearRoot(entry[s].key, dead)
              /\ entry'[s].value = entry[s].value
<1> DEFINE dead == young \ Evacuated
<1>1. entry' = [t \in EntrySlots |->
                  IF entry[t].map \in dead THEN FreeSlot
                  ELSE [entry[t] EXCEPT !.owner = ClearRoot(@, dead),
                                        !.key = ClearRoot(@, dead)]]
    BY DEF YoungGenCollection
<1> HIDE DEF dead
<1>2. entry[s] \in EntrySet BY DEF EntryOK
<1>3. entry'[s] = IF entry[s].map \in dead THEN FreeSlot
                  ELSE [entry[s] EXCEPT !.owner = ClearRoot(@, dead),
                                        !.key = ClearRoot(@, dead)]
    BY <1>1
<1>4. \/ entry[s].map \in dead /\ entry'[s] = FreeSlot
      \/ /\ entry[s].map \notin dead
         /\ entry'[s].map = entry[s].map
         /\ entry'[s].owner = ClearRoot(entry[s].owner, dead)
         /\ entry'[s].key = ClearRoot(entry[s].key, dead)
         /\ entry'[s].value = entry[s].value
    BY <1>2, <1>3 DEF EntrySet
<1> QED BY <1>4 DEF dead

\* At the end of marking, owners and keys that died are cleared, and the values of
\* entries that are not live.
LEMMA FinishEntries ==
    ASSUME EntryOK, FinishMarking, NEW s \in EntrySlots
    PROVE  /\ entry'[s].map = entry[s].map
           /\ entry'[s].owner = ClearRoot(entry[s].owner, old \ marked)
           /\ entry'[s].key = ClearRoot(entry[s].key, old \ marked)
           /\ entry'[s].value = IF EntryLive(s) THEN entry[s].value ELSE Null
<1> DEFINE dead == old \ marked
<1>1. entry' = [t \in EntrySlots |->
                [entry[t] EXCEPT !.value = IF EntryLive(t) THEN @ ELSE Null,
                                 !.owner = ClearRoot(@, dead),
                                 !.key = ClearRoot(@, dead)]]
    BY DEF FinishMarking
<1>2. entry[s] \in EntrySet BY DEF EntryOK
<1> QED BY <1>1, <1>2 DEF EntrySet

\* Sweeping frees nothing that is live.
LEMMA SweepKeepsLive ==
    ASSUME SetInv, ControlInv, SweepNext
    PROVE  Live' = Live
<1>1. CASE segNumber <= 1
    BY <1>1 DEF SweepNext, Live, SetInv, markVars
<1>2. CASE ~(segNumber <= 1)
    BY <1>2 DEF SweepNext, Live, SetInv, markVars
<1> QED BY <1>1, <1>2

\* Every step keeps the live cells closed.
LEMMA LiveStep ==
    ASSUME TypeOK, ControlInv, SetInv, LiveInv, EntryInv, PendingInv, SnapshotInv,
           [Next]_vars
    PROVE  LiveInv'
<1> USE NullAssumption
<1> USE DEF TypeOK, LiveInv, Live, Roots,
        genVars, progVars, weakVars, barrierVars, markVars, scanVars, mutVars,
        cycleVars, vars
<1>1. CASE UNCHANGED vars
    BY <1>1
<1>2. ASSUME NEW c \in regs, NEW f \in Fields, NEW v \in regs \cup {Null},
               WriteBarrier(c, f, v)
      PROVE  LiveInv'
    <2>1. CASE c \in young
        <3>1. v \in Live \cup {Null} OBVIOUS
        <3>2. field' = [field EXCEPT ![c][f] = v]
            BY <1>2, <2>1 DEF WriteBarrier
        <3>3. \A d \in Cells : \A g \in Fields :
                 field'[d][g] = IF d = c /\ g = f THEN v ELSE field[d][g]
            BY <3>2
        <3> QED BY <1>2, <2>1, <3>1, <3>3 DEF WriteBarrier, Running
    <2>2. CASE c \notin young
        <3>1. /\ BarrierEffect(field[c][f]) /\ field[c][f] \in Live \cup {Null}
              /\ pcM' = "store" /\ UNCHANGED field
              /\ pendCell' = c /\ pendField' = f /\ pendValue' = v
            BY <1>2, <2>2, WriteBarrierEffect
        <3> QED BY <1>2, <2>2, <3>1 DEF WriteBarrier, BarrierEffect
    <2> QED BY <2>1, <2>2
<1>3. ASSUME Store
      PROVE  LiveInv'
    BY <1>3 DEF Store, OpDone, PendingInv, Pointer
<1>4. ASSUME DrainFullBarrierChunk
      PROVE  LiveInv'
    BY <1>4 DEF DrainFullBarrierChunk, DrainBarrierWorklist, ControlInv,
        ogMarkingBarriers
<1>5. ASSUME NEW c \in regs, NEW f \in Fields, Read(c, f)
      PROVE  LiveInv'
    BY <1>5 DEF Read, Running
<1>6. ASSUME NEW c \in regs, Drop(c)
      PROVE  LiveInv'
    BY <1>6 DEF Drop, Running
<1>7. ASSUME NEW c \in Cells, NEW init \in [Fields -> regs \cup {Null}],
               AllocYoung(c, init)
      PROVE  LiveInv'
    BY <1>7 DEF AllocYoung, NewCell, Running, Allocated
<1>8. ASSUME NEW c \in Cells, NEW init \in [Fields -> regs \cup {Null}],
               AllocLongLived(c, init)
      PROVE  LiveInv'
    BY <1>8 DEF AllocLongLived, NewCell, FinishAlloc, Running, Allocated,
        Pointer
<1>9. ASSUME NEW w \in WeakSlots, NEW c \in regs, MakeWeak(w, c)
      PROVE  LiveInv'
    BY <1>9 DEF MakeWeak, Running
<1>10. ASSUME NEW w \in WeakSlots, Deref(w)
      PROVE  LiveInv'
    <2>1. /\ BarrierEffect(weak[w]) /\ weak[w] \in Live /\ weak[w] # Null
          /\ pcM = "run" /\ pcM' = "load" /\ pendValue' = weak[w]
        BY <1>10, DerefEffect
    <2> QED BY <1>10, <2>1 DEF Deref, BarrierEffect
<1>11. ASSUME Load
      PROVE  LiveInv'
    BY <1>11 DEF Load, OpDone
<1>12. ASSUME NEW s \in EntrySlots, NEW m \in regs, NEW k \in regs,
               NEW v \in regs \cup {Null}, MapSet(s, m, k, v)
      PROVE  LiveInv'
    BY <1>12 DEF MapSet, Running, Found, Freeable, FreeSlot
<1>13. ASSUME NEW s \in EntrySlots, NEW m \in regs, NEW k \in regs,
               MapGet(s, m, k)
      PROVE  LiveInv'
    <2>1. /\ BarrierEffect(entry[s].value) /\ entry[s].value \in Live \ {Null}
          /\ pcM = "run" /\ pcM' = "load" /\ pendValue' = entry[s].value
        BY <1>13, MapGetEffect
    <2> QED BY <1>13, <2>1 DEF MapGet, BarrierEffect
<1>14. ASSUME NEW s \in EntrySlots, NEW m \in regs, NEW k \in regs,
               MapDelete(s, m, k)
      PROVE  LiveInv'
    BY <1>14 DEF MapDelete, Running, Found, FreeSlot
<1>15. ASSUME YoungGenCollection
      PROVE  LiveInv'
    <2>1. /\ Live' = Live \ (young \ Evacuated)
          /\ regs \subseteq Live'
          /\ \A c \in Live' : \A f \in Fields : field[c][f] \in Live' \cup {Null}
        BY <1>15, SurvivorsClosed
    <2>2. /\ pcM' = "run" /\ UNCHANGED <<regs, field>>
          /\ weak' = [w \in WeakSlots |->
                        IF weak[w] \in young \ Evacuated THEN Null ELSE weak[w]]
        BY <1>15 DEF YoungGenCollection, ClearWeak
    <2> HIDE DEF Live
    <2> QED BY <2>1, <2>2
<1>16. ASSUME PromoteYoungGen
      PROVE  LiveInv'
    BY <1>16 DEF PromoteYoungGen
<1>17. ASSUME OldGenCollection
      PROVE  LiveInv'
    BY <1>17 DEF OldGenCollection
<1>18. ASSUME MarkBegin
      PROVE  LiveInv'
    BY <1>18 DEF MarkBegin, DrainBarrierWorklist
<1>19. ASSUME NEW c \in Cells, MarkPop(c)
      PROVE  LiveInv'
    BY <1>19 DEF MarkPop
<1>20. ASSUME NEW f \in Fields, MarkField(f)
      PROVE  LiveInv'
    BY <1>20 DEF MarkField, Push, Unmarked, IsMarked, ControlInv
<1>21. ASSUME MarkEnd
      PROVE  LiveInv'
    BY <1>21 DEF MarkEnd, ControlInv
<1>22. ASSUME CompleteMarking
      PROVE  LiveInv'
    BY <1>22 DEF CompleteMarking, DrainBarrierWorklist, Pending, ControlInv,
        SetInv
<1>23. ASSUME NEW c \in Cells, MarkCell(c)
      PROVE  LiveInv'
    BY <1>23 DEF MarkCell, Unmarked, IsMarked, ControlInv
<1>24. ASSUME BeginPass
      PROVE  LiveInv'
    BY <1>24 DEF BeginPass
<1>25. ASSUME NEW s \in EntrySlots, VisitSlot(s)
      PROVE  LiveInv'
    BY <1>25 DEF VisitSlot, Push, Unmarked, IsMarked, EntryLive, ControlInv
<1>26. ASSUME NextPass
      PROVE  LiveInv'
    BY <1>26 DEF NextPass, NewlyMarked
<1>27. ASSUME FinishMarking
      PROVE  LiveInv'
    <2>1. /\ Live' = young \cup marked
          /\ regs \subseteq Live'
          /\ \A c \in Live' : \A f \in Fields : field[c][f] \in Live' \cup {Null}
        BY <1>27, MarkedClosed
    <2>2. /\ pcM' = "run" /\ UNCHANGED <<regs, field>> /\ phase # "Sweep"
          /\ weak' = [w \in WeakSlots |->
                        IF weak[w] \in old \ marked THEN Null ELSE weak[w]]
        BY <1>27 DEF FinishMarking, MarkWeakRoots, ClearWeak, ControlInv
    <2> QED BY <2>1, <2>2
<1>28. ASSUME SweepNext
      PROVE  LiveInv'
    <2>1. Live' = Live BY <1>28, SweepKeepsLive
    <2> HIDE DEF Live
    <2> QED BY <1>28, <2>1 DEF SweepNext
<1> QED
    BY <1>1, <1>2, <1>3, <1>4, <1>5, <1>6, <1>7, <1>8, <1>9, <1>10, <1>11,
       <1>12, <1>13, <1>14, <1>15, <1>16, <1>17, <1>18, <1>19, <1>20,
       <1>21, <1>22, <1>23, <1>24, <1>25, <1>26, <1>27, <1>28 DEF Next, Program, Collector

\* Every step keeps weak map entries pointing to live cells.
LEMMA EntryInvStep ==
    ASSUME TypeOK, ControlInv, SetInv, LiveInv, EntryInv, SnapshotInv, SlotInv,
           [Next]_vars
    PROVE  EntryInv'
<1> USE NullAssumption DEF TypeOK, LiveInv, Roots
<1> USE DEF EntryInv,
        genVars, progVars, weakVars, barrierVars, markVars, scanVars, mutVars,
        cycleVars, vars
<1>1. CASE UNCHANGED vars
    BY <1>1 DEF Live, Allocated
<1>2. ASSUME NEW c \in regs, NEW f \in Fields, NEW v \in regs \cup {Null},
               WriteBarrier(c, f, v)
      PROVE  EntryInv'
    BY <1>2 DEF WriteBarrier, Running, Live, Allocated, ControlInv, SetInv
<1>3. ASSUME Store
      PROVE  EntryInv'
    BY <1>3 DEF Store, OpDone, Live, Allocated, ControlInv, SetInv
<1>4. ASSUME DrainFullBarrierChunk
      PROVE  EntryInv'
    BY <1>4 DEF DrainFullBarrierChunk, DrainBarrierWorklist, Live, Allocated,
        ControlInv, SetInv
<1>5. ASSUME NEW c \in regs, NEW f \in Fields, Read(c, f)
      PROVE  EntryInv'
    BY <1>5 DEF Read, Running, Live, Allocated, ControlInv, SetInv
<1>6. ASSUME NEW c \in regs, Drop(c)
      PROVE  EntryInv'
    BY <1>6 DEF Drop, Running, Live, Allocated, ControlInv, SetInv
<1>7. ASSUME NEW c \in Cells, NEW init \in [Fields -> regs \cup {Null}],
               AllocYoung(c, init)
      PROVE  EntryInv'
    BY <1>7 DEF AllocYoung, NewCell, Running, Allocated, Live, Allocated,
        ControlInv, SetInv
<1>8. ASSUME NEW c \in Cells, NEW init \in [Fields -> regs \cup {Null}],
               AllocLongLived(c, init)
      PROVE  EntryInv'
    BY <1>8 DEF AllocLongLived, NewCell, FinishAlloc, Running, Allocated,
        Live, Allocated, ControlInv, SetInv
<1>9. ASSUME NEW w \in WeakSlots, NEW c \in regs, MakeWeak(w, c)
      PROVE  EntryInv'
    BY <1>9 DEF MakeWeak, Running, Live, Allocated, ControlInv, SetInv
<1>10. ASSUME NEW w \in WeakSlots, Deref(w)
      PROVE  EntryInv'
    BY <1>10 DEF Deref, LoadWeak, Running, Live, Allocated, ControlInv, SetInv
<1>11. ASSUME Load
      PROVE  EntryInv'
    BY <1>11 DEF Load, OpDone, Live, Allocated, ControlInv, SetInv
<1>12. ASSUME NEW s \in EntrySlots, NEW m \in regs, NEW k \in regs,
               NEW v \in regs \cup {Null}, MapSet(s, m, k, v)
      PROVE  EntryInv'
    <2>1. m \in Live /\ k \in Live /\ v \in Live \cup {Null} OBVIOUS
    <2>2. Live' = Live /\ Allocated' = Allocated
        BY <1>12 DEF MapSet, Live, Allocated
    <2>3. CASE Found(s, m, k) /\ entry' = [entry EXCEPT ![s].value = v]
        <3>1. ASSUME NEW t \in EntrySlots
              PROVE  /\ entry'[t].map = entry[t].map /\ entry'[t].key = entry[t].key
                     /\ entry'[t].owner = entry[t].owner
                     /\ \/ entry'[t].value = entry[t].value
                        \/ t = s /\ entry'[t].value = v
            BY <2>3, TypeParts DEF EntryOK, EntrySet
        <3> QED BY <2>1, <2>2, <2>3, <3>1 DEF Found
    <2>4. CASE \E freed \in {{}, Freeable(m)} :
                 entry' = [t \in EntrySlots |->
                     IF t = s THEN [map |-> m, owner |-> m, key |-> k, value |-> v]
                     ELSE IF t \in freed THEN FreeSlot ELSE entry[t]]
        <3>1. ASSUME NEW t \in EntrySlots
              PROVE  \/ entry'[t] = entry[t] \/ entry'[t] = FreeSlot
                     \/ entry'[t] = [map |-> m, owner |-> m, key |-> k, value |-> v]
            BY <2>4
        <3> QED BY <2>1, <2>2, <3>1 DEF FreeSlot, Allocated, Live
    <2> QED BY <1>12, <2>3, <2>4 DEF MapSet
<1>13. ASSUME NEW s \in EntrySlots, NEW m \in regs, NEW k \in regs,
               MapGet(s, m, k)
      PROVE  EntryInv'
    BY <1>13 DEF MapGet, LoadMapped, LoadWeak, Running, Found, Live, Allocated,
        ControlInv, SetInv
<1>14. ASSUME NEW s \in EntrySlots, NEW m \in regs, NEW k \in regs,
               MapDelete(s, m, k)
      PROVE  EntryInv'
    BY <1>14 DEF MapDelete, Running, Found, FreeSlot, Live, Allocated,
        ControlInv, SetInv
<1>15. ASSUME YoungGenCollection
      PROVE  EntryInv'
    <2> DEFINE dead == young \ Evacuated
    <2>1. /\ Live' = Live \ dead
          /\ \A s \in EntrySlots : entry[s].value \in Live' \cup {Null}
        BY <1>15, SurvivorsClosed
    <2>2. Allocated' = Allocated \ dead
        BY <1>15, EvacuatedClosed DEF YoungGenCollection, Allocated, SetInv
    <2>3. Null \notin Live' /\ Null \notin dead /\ dead \subseteq Allocated
        BY <2>1 DEF Live, Allocated
    <2>4. ASSUME NEW s \in EntrySlots
          PROVE  \/ entry[s].map \in dead /\ entry'[s] = FreeSlot
                 \/ /\ entry[s].map \notin dead
                    /\ entry'[s].map = entry[s].map
                    /\ entry'[s].owner = ClearRoot(entry[s].owner, dead)
                    /\ entry'[s].key = ClearRoot(entry[s].key, dead)
                    /\ entry'[s].value = entry[s].value
        BY <1>15, YoungEntries, TypeParts
    <2> HIDE DEF dead
    <2> QED BY <2>1, <2>2, <2>3, <2>4 DEF ClearRoot, FreeSlot
<1>16. ASSUME PromoteYoungGen
      PROVE  EntryInv'
    BY <1>16 DEF PromoteYoungGen, Live, Allocated, ControlInv, SetInv
<1>17. ASSUME OldGenCollection
      PROVE  EntryInv'
    BY <1>17 DEF OldGenCollection, Live, Allocated, ControlInv, SetInv
<1>18. ASSUME MarkBegin
      PROVE  EntryInv'
    BY <1>18 DEF MarkBegin, DrainBarrierWorklist, Live, Allocated, ControlInv,
        SetInv
<1>19. ASSUME NEW c \in Cells, MarkPop(c)
      PROVE  EntryInv'
    BY <1>19 DEF MarkPop, Live, Allocated, ControlInv, SetInv
<1>20. ASSUME NEW f \in Fields, MarkField(f)
      PROVE  EntryInv'
    BY <1>20 DEF MarkField, Push, Unmarked, IsMarked, Live, Allocated,
        ControlInv, SetInv
<1>21. ASSUME MarkEnd
      PROVE  EntryInv'
    BY <1>21 DEF MarkEnd, Live, Allocated, ControlInv, SetInv
<1>22. ASSUME CompleteMarking
      PROVE  EntryInv'
    BY <1>22 DEF CompleteMarking, DrainBarrierWorklist, Pending, Live,
        Allocated, ControlInv, SetInv
<1>23. ASSUME NEW c \in Cells, MarkCell(c)
      PROVE  EntryInv'
    BY <1>23 DEF MarkCell, Unmarked, IsMarked, Live, Allocated, ControlInv,
        SetInv
<1>24. ASSUME BeginPass
      PROVE  EntryInv'
    BY <1>24 DEF BeginPass, Live, Allocated, ControlInv, SetInv
<1>25. ASSUME NEW s \in EntrySlots, VisitSlot(s)
      PROVE  EntryInv'
    BY <1>25 DEF VisitSlot, Push, Unmarked, IsMarked, EntryLive, Live,
        Allocated, ControlInv, SetInv
<1>26. ASSUME NextPass
      PROVE  EntryInv'
    BY <1>26 DEF NextPass, NewlyMarked, Live, Allocated, ControlInv, SetInv
<1>27. ASSUME FinishMarking
      PROVE  EntryInv'
    <2>1. Live' = young \cup marked BY <1>27, MarkedClosed
    <2>2. /\ Live = Allocated /\ Allocated' = Allocated
          /\ Live' = Live \ (old \ marked)
        BY <1>27, <2>1 DEF FinishMarking, ControlInv, Live, Allocated, SetInv
    <2>3. ASSUME NEW s \in EntrySlots
          PROVE  /\ entry'[s].map = entry[s].map
                 /\ entry'[s].owner = ClearRoot(entry[s].owner, old \ marked)
                 /\ entry'[s].key = ClearRoot(entry[s].key, old \ marked)
                 /\ entry'[s].value = IF EntryLive(s) THEN entry[s].value ELSE Null
        BY <1>27, FinishEntries, TypeParts
    <2>4. ASSUME NEW s \in EntrySlots
          PROVE  entry'[s].value \in Live' \cup {Null}
        <3>1. EntryLive(s) => entry[s].value = Null \/ IsMarked(entry[s].value)
            BY <1>27 DEF SlotInv, FinishMarking, NewlyMarked
        <3> QED BY <2>1, <2>3, <3>1 DEF IsMarked
    <2>5. Null \notin Live BY DEF Live
    <2> QED BY <2>2, <2>3, <2>4, <2>5 DEF ClearRoot
<1>28. ASSUME SweepNext
      PROVE  EntryInv'
    <2>1. Live' = Live BY <1>28, SweepKeepsLive
    <2>2. PICK dead \in SUBSET (old \ marked) :
             /\ old' = old \ dead
             /\ entry' = [s \in EntrySlots |->
                            IF entry[s].map \in dead THEN FreeSlot ELSE entry[s]]
        BY <1>28 DEF SweepNext
    <2>3. Allocated' = Allocated \ dead
        BY <1>28, <2>2 DEF SweepNext, Allocated, SetInv
    <2>4. Null \notin Live BY DEF Live
    <2> QED BY <2>1, <2>2, <2>3, <2>4 DEF FreeSlot
<1> QED
    BY <1>1, <1>2, <1>3, <1>4, <1>5, <1>6, <1>7, <1>8, <1>9, <1>10, <1>11,
       <1>12, <1>13, <1>14, <1>15, <1>16, <1>17, <1>18, <1>19, <1>20,
       <1>21, <1>22, <1>23, <1>24, <1>25, <1>26, <1>27, <1>28 DEF Next, Program, Collector

\* Every step keeps what the pass over the weak map entries has established.
LEMMA SlotStep ==
    ASSUME ControlInv, SetInv, SlotInv,
           [Next]_vars
    PROVE  SlotInv'
<1> USE DEF ControlInv, SlotInv,
        genVars, progVars, weakVars, barrierVars, markVars, scanVars, mutVars,
        cycleVars, vars
<1>1. CASE UNCHANGED vars
    BY <1>1 DEF EntryLive, IsMarked
<1>2. ASSUME NEW c \in regs, NEW f \in Fields, NEW v \in regs \cup {Null},
               WriteBarrier(c, f, v)
      PROVE  SlotInv'
    BY <1>2 DEF WriteBarrier, Running
<1>3. ASSUME Store
      PROVE  SlotInv'
    BY <1>3 DEF Store, OpDone
<1>4. ASSUME DrainFullBarrierChunk
      PROVE  SlotInv'
    BY <1>4 DEF DrainFullBarrierChunk, DrainBarrierWorklist
<1>5. ASSUME NEW c \in regs, NEW f \in Fields, Read(c, f)
      PROVE  SlotInv'
    BY <1>5 DEF Read, Running
<1>6. ASSUME NEW c \in regs, Drop(c)
      PROVE  SlotInv'
    BY <1>6 DEF Drop, Running
<1>7. ASSUME NEW c \in Cells, NEW init \in [Fields -> regs \cup {Null}],
               AllocYoung(c, init)
      PROVE  SlotInv'
    BY <1>7 DEF AllocYoung, NewCell, Running, Allocated
<1>8. ASSUME NEW c \in Cells, NEW init \in [Fields -> regs \cup {Null}],
               AllocLongLived(c, init)
      PROVE  SlotInv'
    BY <1>8 DEF AllocLongLived, NewCell, FinishAlloc, Running, Allocated
<1>9. ASSUME NEW w \in WeakSlots, NEW c \in regs, MakeWeak(w, c)
      PROVE  SlotInv'
    BY <1>9 DEF MakeWeak, Running
<1>10. ASSUME NEW w \in WeakSlots, Deref(w)
      PROVE  SlotInv'
    BY <1>10 DEF Deref, LoadWeak, Running
<1>11. ASSUME Load
      PROVE  SlotInv'
    BY <1>11 DEF Load, OpDone
<1>12. ASSUME NEW s \in EntrySlots, NEW m \in regs, NEW k \in regs,
               NEW v \in regs \cup {Null}, MapSet(s, m, k, v)
      PROVE  SlotInv'
    BY <1>12 DEF MapSet, Running, Found, Freeable, FreeSlot
<1>13. ASSUME NEW s \in EntrySlots, NEW m \in regs, NEW k \in regs,
               MapGet(s, m, k)
      PROVE  SlotInv'
    BY <1>13 DEF MapGet, LoadMapped, LoadWeak, Running, Found
<1>14. ASSUME NEW s \in EntrySlots, NEW m \in regs, NEW k \in regs,
               MapDelete(s, m, k)
      PROVE  SlotInv'
    BY <1>14 DEF MapDelete, Running, Found, FreeSlot
<1>15. ASSUME YoungGenCollection
      PROVE  SlotInv'
    BY <1>15 DEF YoungGenCollection, ClearWeak, ClearRoot, FreeSlot, Evacuated
<1>16. ASSUME PromoteYoungGen
      PROVE  SlotInv'
    BY <1>16 DEF PromoteYoungGen
<1>17. ASSUME OldGenCollection
      PROVE  SlotInv'
    BY <1>17 DEF OldGenCollection
<1>18. ASSUME MarkBegin
      PROVE  SlotInv'
    BY <1>18 DEF MarkBegin, DrainBarrierWorklist
<1>19. ASSUME NEW c \in Cells, MarkPop(c)
      PROVE  SlotInv'
    BY <1>19 DEF MarkPop
<1>20. ASSUME NEW f \in Fields, MarkField(f)
      PROVE  SlotInv'
    BY <1>20 DEF MarkField, Push, Unmarked, IsMarked
<1>21. ASSUME MarkEnd
      PROVE  SlotInv'
    BY <1>21 DEF MarkEnd
<1>22. ASSUME CompleteMarking
      PROVE  SlotInv'
    BY <1>22 DEF CompleteMarking, DrainBarrierWorklist, Pending
<1>23. ASSUME NEW c \in Cells, MarkCell(c)
      PROVE  SlotInv'
    BY <1>23 DEF MarkCell, Unmarked, IsMarked
<1>24. ASSUME BeginPass
      PROVE  SlotInv'
    BY <1>24 DEF BeginPass
<1>25. ASSUME NEW s \in EntrySlots, VisitSlot(s)
      PROVE  SlotInv'
    BY <1>25 DEF VisitSlot, Push, Unmarked, IsMarked, EntryLive
<1>26. ASSUME NextPass
      PROVE  SlotInv'
    BY <1>26 DEF NextPass, NewlyMarked
<1>27. ASSUME FinishMarking
      PROVE  SlotInv'
    BY <1>27 DEF FinishMarking, NewlyMarked, MarkWeakRoots, ClearWeak,
        ClearRoot, EntryLive, IsMarked
<1>28. ASSUME SweepNext
      PROVE  SlotInv'
    BY <1>28 DEF SweepNext, FreeSlot
<1> QED
    BY <1>1, <1>2, <1>3, <1>4, <1>5, <1>6, <1>7, <1>8, <1>9, <1>10, <1>11,
       <1>12, <1>13, <1>14, <1>15, <1>16, <1>17, <1>18, <1>19, <1>20,
       <1>21, <1>22, <1>23, <1>24, <1>25, <1>26, <1>27, <1>28 DEF Next, Program, Collector

\* A step that only marks makes progress: what it has scanned leads to cells
\* that are shaded now.
Progress ==
    /\ Shaded \subseteq Shaded'
    /\ \A d \in Allocated : \A g \in Fields :
           Unscanned(d, g) => \/ Unscanned(d, g)'
                              \/ field[d][g] \in Shaded' \cup {Null}

\* SnapshotInv is kept by every step that makes progress.
LEMMA ProgressKeepsSnapshot ==
    ASSUME SnapshotInv, ogMarkingBarriers, Progress,
           field' = field, Allocated' = Allocated, regs' \subseteq regs
    PROVE  SnapshotInv'
<1> SUFFICES ASSUME NEW T \in SUBSET Allocated, MarkClosed(T)'
             PROVE  /\ regs' \subseteq T
                    /\ \A c \in T : \A f \in Fields : field'[c][f] \in T \cup {Null}
    BY DEF SnapshotInv
<1>1. MarkClosed(T) BY DEF Progress, MarkClosed
<1> QED BY <1>1 DEF SnapshotInv

\* A new cell keeps SnapshotInv, whether young or old: nothing refers to it, so
\* without it a mark-closed set is still one.
LEMMA NewCellKeepsSnapshot ==
    ASSUME TypeOK, SetInv, LiveInv, SnapshotInv, ogMarkingBarriers,
           NEW c \in Cells, NEW init \in [Fields -> regs \cup {Null}],
           AllocYoung(c, init) \/ AllocLongLived(c, init)
    PROVE  SnapshotInv'
<1>1. /\ c \notin Allocated /\ Allocated' = Allocated \cup {c}
      /\ field' = [field EXCEPT ![c] = init] /\ regs' = regs \cup {c}
      /\ Shaded' = Shaded \cup {c}
    BY DEF AllocYoung, AllocLongLived, NewCell, FinishAlloc, Allocated, Shaded,
           barrierVars, markVars
<1>2. ASSUME NEW d \in Allocated, NEW f \in Fields
      PROVE  /\ field[d][f] \in Allocated \cup {Null} /\ field'[d][f] = field[d][f]
             /\ Unscanned(d, f)' <=> Unscanned(d, f)
    <2>1. field[d][f] \in Allocated \cup {Null}
        BY DEF LiveInv, Live, Allocated, ogMarkingBarriers
    <2>2. d # c /\ d \in Cells BY <1>1 DEF TypeOK, Allocated
    <2>3. field'[d][f] = field[d][f] BY <1>1, <2>2 DEF TypeOK
    <2>4. Unscanned(d, f)' <=> Unscanned(d, f)
        BY <2>2 DEF Unscanned, AllocYoung, AllocLongLived, NewCell, FinishAlloc,
                    markVars, scanVars
    <2> QED BY <2>1, <2>3, <2>4
<1> SUFFICES ASSUME NEW T \in SUBSET (Allocated \cup {c}), MarkClosed(T)'
             PROVE  /\ regs' \subseteq T
                    /\ \A d \in T : \A f \in Fields : field'[d][f] \in T \cup {Null}
    BY <1>1 DEF SnapshotInv
<1> DEFINE T0 == T \ {c}
<1>3. T0 \in SUBSET Allocated /\ c \in T BY <1>1 DEF MarkClosed
<1>4. MarkClosed(T0)
    <2>1. Shaded \subseteq T0
        BY <1>1 DEF MarkClosed, Shaded, SetInv, Allocated
    <2>2. ASSUME NEW d \in T0, NEW f \in Fields, Unscanned(d, f)
          PROVE  field[d][f] \in T0 \cup {Null}
        <3>1. field[d][f] \in T \cup {Null}
            BY <1>2, <1>3, <2>2 DEF MarkClosed
        <3> QED BY <1>1, <1>2, <1>3, <3>1
    <2> QED BY <2>1, <2>2 DEF MarkClosed
<1>5. /\ regs \subseteq T0
      /\ \A d \in T0 : \A f \in Fields : field[d][f] \in T0 \cup {Null}
    BY <1>3, <1>4 DEF SnapshotInv
<1>6. \A f \in Fields : field'[c][f] \in regs \cup {Null} BY <1>1 DEF TypeOK
<1> QED BY <1>1, <1>2, <1>3, <1>5, <1>6

\* A YG collection keeps it: add the young cells to a set that is mark-closed
\* afterwards, and it was mark-closed before.
LEMMA YoungGenKeepsSnapshot ==
    ASSUME SetInv, ControlInv, LiveInv, EntryInv, SnapshotInv, ogMarkingBarriers,
           YoungGenCollection
    PROVE  SnapshotInv'
<1>1. /\ young' = {} /\ old' = old \cup Evacuated /\ marked' = marked \cup Evacuated
      /\ UNCHANGED <<field, regs, pushChunk, barrierWorklist, localWorklist,
                     scanCell, todo>>
    BY DEF YoungGenCollection, progVars, barrierVars, scanVars
<1>2. Evacuated \subseteq young BY EvacuatedClosed
<1> SUFFICES ASSUME NEW T \in SUBSET Allocated', MarkClosed(T)'
             PROVE  /\ regs \subseteq T
                    /\ \A c \in T : \A f \in Fields : field[c][f] \in T \cup {Null}
    BY <1>1 DEF SnapshotInv
<1> DEFINE T0 == T \cup young
<1>3. Evacuated \subseteq T BY <1>1 DEF MarkClosed, Shaded
<1>4. T0 \in SUBSET Allocated BY <1>1, <1>2 DEF Allocated
<1>5. MarkClosed(T0)
    <2>1. Shaded \subseteq T0 BY <1>1 DEF MarkClosed, Shaded
    <2>2. ASSUME NEW d \in T0, NEW f \in Fields, Unscanned(d, f)
          PROVE  field[d][f] \in T \cup {Null}
        <3>1. d \in T /\ Unscanned(d, f)'
            BY <1>1, <1>2, <2>2 DEF Unscanned
        <3> QED BY <1>1, <3>1 DEF MarkClosed
    <2> QED BY <2>1, <2>2 DEF MarkClosed
<1>6. /\ regs \subseteq T0
      /\ \A c \in T0 : \A f \in Fields : field[c][f] \in T0 \cup {Null}
    BY <1>4, <1>5 DEF SnapshotInv
<1>7. /\ regs \subseteq Live'
      /\ \A c \in Live' : \A f \in Fields : field[c][f] \in Live' \cup {Null}
    BY SurvivorsClosed
<1>8. Live' = old \cup Evacuated
    BY <1>1 DEF YoungGenCollection, Live, ogMarkingBarriers, cycleVars
<1>9. \A p \in Live' : p \in T0 => p \in T
    BY <1>2, <1>3, <1>8 DEF SetInv
<1>10. T \subseteq Live' BY <1>1, <1>8 DEF Allocated
<1> QED BY <1>6, <1>7, <1>9, <1>10

\* A store keeps it, if the old value was shaded or the cell young.
LEMMA StoreKeepsSnapshot ==
    ASSUME TypeOK, SnapshotInv, ogMarkingBarriers, NEW c \in regs, NEW f \in Fields,
           NEW v \in regs \cup {Null}, field' = [field EXCEPT ![c][f] = v],
           field[c][f] \in Shaded \cup {Null} \/ c \in young,
           Allocated' = Allocated, regs' = regs, Shaded' = Shaded,
           \A d, g : Unscanned(d, g)' <=> Unscanned(d, g)
    PROVE  SnapshotInv'
<1> SUFFICES ASSUME NEW T \in SUBSET Allocated, MarkClosed(T)'
             PROVE  /\ regs \subseteq T
                    /\ \A d \in T : \A g \in Fields : field'[d][g] \in T \cup {Null}
    BY DEF SnapshotInv
<1>1. ASSUME NEW d \in T, NEW g \in Fields
      PROVE  field'[d][g] = IF d = c /\ g = f THEN v ELSE field[d][g]
    <2>1. d \in Cells BY DEF TypeOK, Allocated
    <2> QED BY <2>1 DEF TypeOK
<1>2. MarkClosed(T)
    <2>1. ASSUME NEW d \in T, NEW g \in Fields, Unscanned(d, g)
          PROVE  field[d][g] \in T \cup {Null}
        <3>1. CASE d = c /\ g = f
            BY <2>1, <3>1 DEF MarkClosed, Unscanned
        <3>2. CASE ~(d = c /\ g = f)
            BY <1>1, <2>1, <3>2 DEF MarkClosed
        <3> QED BY <3>1, <3>2
    <2> QED BY <2>1 DEF MarkClosed
<1>3. /\ regs \subseteq T
      /\ \A d \in T : \A g \in Fields : field[d][g] \in T \cup {Null}
    BY <1>2 DEF SnapshotInv
<1> QED BY <1>1, <1>3

\* Every step keeps SnapshotInv: the heart of the snapshot-at-the-beginning
\* argument.
LEMMA SnapshotStep ==
    ASSUME TypeOK, SetInv, ControlInv, PendingInv, LiveInv, EntryInv, SnapshotInv,
           [Next]_vars
    PROVE  SnapshotInv'
<1> SUFFICES ASSUME ogMarkingBarriers' PROVE SnapshotInv'
    BY DEF SnapshotInv
<1>p. ASSUME UNCHANGED vars PROVE SnapshotInv'
    <2>1. ogMarkingBarriers /\ Progress /\ field' = field /\ Allocated' = Allocated
        BY <1>p DEF ogMarkingBarriers, Progress, Shaded, Unscanned, Allocated, vars,
            genVars, progVars, barrierVars, markVars, scanVars, cycleVars
    <2> QED BY <1>p, <2>1, ProgressKeepsSnapshot DEF vars, progVars
<1> USE DEF ogMarkingBarriers,
        genVars, progVars, weakVars, barrierVars, markVars, scanVars, mutVars,
        cycleVars, vars
<1>1. CASE UNCHANGED vars
    BY <1>1, <1>p
<1>2. ASSUME NEW c \in regs, NEW f \in Fields, NEW v \in regs \cup {Null},
               WriteBarrier(c, f, v)
      PROVE  SnapshotInv'
    <2>1. CASE c \notin young
        <3>1. BarrierEffect(field[c][f]) /\ field' = field
            BY <1>2, <2>1, WriteBarrierEffect
        <3>2. Progress /\ Allocated' = Allocated /\ regs' = regs
            BY <1>2, <3>1 DEF BarrierEffect, WriteBarrier, Progress, Shaded,
                Unscanned, Allocated
        <3> QED BY <1>2, <3>1, <3>2, ProgressKeepsSnapshot DEF WriteBarrier
    <2>2. CASE c \in young
        <3>1. field' = [field EXCEPT ![c][f] = v] BY <1>2, <2>2 DEF WriteBarrier
        <3> QED BY <1>2, <2>2, <3>1, StoreKeepsSnapshot
                DEF WriteBarrier, Unscanned, Shaded, Allocated
    <2> QED BY <2>1, <2>2
<1>3. ASSUME Store
      PROVE  SnapshotInv'
    <2>1. /\ pendCell \in regs /\ pendField \in Fields
          /\ pendValue \in regs \cup {Null}
          /\ field[pendCell][pendField] \in Shaded \cup {Null}
        BY <1>3 DEF Store, PendingInv
    <2>2. field' = [field EXCEPT ![pendCell][pendField] = pendValue]
        BY <1>3 DEF Store
    <2> QED BY <1>3, <2>1, <2>2, StoreKeepsSnapshot
            DEF Store, Unscanned, Shaded, Allocated
<1>4. ASSUME DrainFullBarrierChunk
      PROVE  SnapshotInv'
    <2>1. pushChunk = {} BY <1>4 DEF DrainFullBarrierChunk, ControlInv
    <2>2. Progress /\ field' = field /\ Allocated' = Allocated /\ regs' \subseteq regs
        BY <1>4, <2>1 DEF DrainFullBarrierChunk, DrainBarrierWorklist, Progress,
                           Shaded, Unscanned, Allocated
    <2> QED BY <1>4, <2>2, ProgressKeepsSnapshot DEF DrainFullBarrierChunk,
            ogMarkingBarriers, ControlInv
<1>5. ASSUME NEW c \in regs, NEW f \in Fields, Read(c, f)
      PROVE  SnapshotInv'
    <2>1. regs' = regs \cup {field[c][f]} /\ field[c][f] # Null
        BY <1>5 DEF Read
    <2>2. ASSUME NEW T \in SUBSET Allocated, MarkClosed(T)
          PROVE  field[c][f] \in T
        BY <1>5, <2>1, <2>2 DEF Read, SnapshotInv
    <2>3. \A T : MarkClosed(T)' <=> MarkClosed(T)
        BY <1>5 DEF Read, MarkClosed, Shaded, Unscanned
    <2> QED BY <1>5, <2>1, <2>2, <2>3 DEF Read, SnapshotInv, Allocated
<1>6. ASSUME NEW c \in regs, Drop(c)
      PROVE  SnapshotInv'
    <2>1. Progress /\ field' = field /\ Allocated' = Allocated /\ regs' \subseteq regs
        BY <1>6 DEF Drop, Running, Progress, Shaded, Unscanned, Allocated
    <2> QED BY <1>6, <2>1, ProgressKeepsSnapshot DEF Drop, Running,
            ogMarkingBarriers, ControlInv
<1>7. ASSUME NEW c \in Cells, NEW init \in [Fields -> regs \cup {Null}],
               AllocYoung(c, init)
      PROVE  SnapshotInv'
    BY <1>7, NewCellKeepsSnapshot DEF AllocYoung
<1>8. ASSUME NEW c \in Cells, NEW init \in [Fields -> regs \cup {Null}],
               AllocLongLived(c, init)
      PROVE  SnapshotInv'
    BY <1>8, NewCellKeepsSnapshot DEF AllocLongLived
<1>9. ASSUME NEW w \in WeakSlots, NEW c \in regs, MakeWeak(w, c)
      PROVE  SnapshotInv'
    <2>1. Progress /\ field' = field /\ Allocated' = Allocated /\ regs' \subseteq regs
        BY <1>9 DEF MakeWeak, Running, Progress, Shaded, Unscanned, Allocated
    <2> QED BY <1>9, <2>1, ProgressKeepsSnapshot DEF MakeWeak, Running,
            ogMarkingBarriers, ControlInv
<1>10. ASSUME NEW w \in WeakSlots, Deref(w)
      PROVE  SnapshotInv'
    <2>1. BarrierEffect(weak[w]) BY <1>10, DerefEffect
    <2>2. Progress /\ field' = field /\ Allocated' = Allocated /\ regs' \subseteq regs
        BY <1>10, <2>1 DEF BarrierEffect, Deref, Progress, Shaded, Unscanned,
            Allocated
    <2> QED BY <1>10, <2>2, ProgressKeepsSnapshot DEF Deref
<1>11. ASSUME Load
      PROVE  SnapshotInv'
    <2>1. pendValue \in Shaded BY <1>11 DEF Load, PendingInv
    <2>2. ASSUME NEW T \in SUBSET Allocated, MarkClosed(T)
          PROVE  pendValue \in T
        BY <2>1, <2>2 DEF MarkClosed
    <2> QED BY <1>11, <2>2 DEF Load, SnapshotInv, MarkClosed, Shaded, Unscanned,
            Allocated
<1>12. ASSUME NEW s \in EntrySlots, NEW m \in regs, NEW k \in regs,
               NEW v \in regs \cup {Null}, MapSet(s, m, k, v)
      PROVE  SnapshotInv'
    <2>1. Progress /\ field' = field /\ Allocated' = Allocated /\ regs' \subseteq regs
        BY <1>12 DEF MapSet, Running, Found, Freeable, FreeSlot, Progress, Shaded,
            Unscanned, Allocated
    <2> QED
        BY <1>12, <2>1, ProgressKeepsSnapshot DEF MapSet, Running, Found, Freeable,
            FreeSlot,
            ogMarkingBarriers, ControlInv
<1>13. ASSUME NEW s \in EntrySlots, NEW m \in regs, NEW k \in regs,
               MapGet(s, m, k)
      PROVE  SnapshotInv'
    <2>1. BarrierEffect(entry[s].value) BY <1>13, MapGetEffect
    <2>2. Progress /\ field' = field /\ Allocated' = Allocated /\ regs' \subseteq regs
        BY <1>13, <2>1 DEF BarrierEffect, MapGet, Progress, Shaded, Unscanned,
            Allocated
    <2> QED BY <1>13, <2>2, ProgressKeepsSnapshot DEF MapGet
<1>14. ASSUME NEW s \in EntrySlots, NEW m \in regs, NEW k \in regs,
               MapDelete(s, m, k)
      PROVE  SnapshotInv'
    <2>1. Progress /\ field' = field /\ Allocated' = Allocated /\ regs' \subseteq regs
        BY <1>14 DEF MapDelete, Running, Found, FreeSlot, Progress, Shaded, Unscanned,
            Allocated
    <2> QED BY <1>14, <2>1, ProgressKeepsSnapshot DEF MapDelete, Running, Found, FreeSlot,
            ogMarkingBarriers, ControlInv
<1>15. ASSUME YoungGenCollection
      PROVE  SnapshotInv'
    BY <1>15, YoungGenKeepsSnapshot DEF YoungGenCollection
<1>16. ASSUME PromoteYoungGen
      PROVE  SnapshotInv'
    <2>1. Progress /\ field' = field /\ Allocated' = Allocated /\ regs' \subseteq regs
        BY <1>16 DEF PromoteYoungGen, Progress, Shaded, Unscanned, Allocated, SetInv,
            ControlInv
    <2> QED BY <1>16, <2>1, ProgressKeepsSnapshot DEF PromoteYoungGen,
            ogMarkingBarriers, ControlInv
<1>17. ASSUME OldGenCollection
      PROVE  SnapshotInv'
    <2>1. ASSUME NEW T, MarkClosed(T)'
          PROVE  /\ regs' \subseteq T
                 /\ \A c \in T : \A f \in Fields : field'[c][f] \in T \cup {Null}
        <3>1. /\ regs' \subseteq T /\ field' = field
              /\ \A c \in T : \A f \in Fields : Unscanned(c, f)'
            BY <1>17, <2>1 DEF OldGenCollection, MarkClosed, Shaded, Unscanned
        <3> QED BY <2>1, <3>1 DEF MarkClosed
    <2> QED BY <2>1 DEF SnapshotInv
<1>18. ASSUME MarkBegin
      PROVE  SnapshotInv'
    <2>1. Progress /\ field' = field /\ Allocated' = Allocated /\ regs' \subseteq regs
        BY <1>18 DEF MarkBegin, DrainBarrierWorklist, Progress, Shaded, Unscanned,
            Allocated
    <2> QED BY <1>18, <2>1, ProgressKeepsSnapshot DEF MarkBegin, DrainBarrierWorklist,
            ogMarkingBarriers, ControlInv
<1>19. ASSUME NEW c \in Cells, MarkPop(c)
      PROVE  SnapshotInv'
    <2>1. Progress /\ field' = field /\ Allocated' = Allocated /\ regs' \subseteq regs
        BY <1>19 DEF MarkPop, Progress, Shaded, Unscanned, Allocated
    <2> QED BY <1>19, <2>1, ProgressKeepsSnapshot DEF MarkPop,
            ogMarkingBarriers, ControlInv
<1>20. ASSUME NEW f \in Fields, MarkField(f)
      PROVE  SnapshotInv'
    <2>1. Progress /\ field' = field /\ Allocated' = Allocated /\ regs' \subseteq regs
        BY <1>20 DEF MarkField, Push, Unmarked, IsMarked, Progress, Shaded, Unscanned,
            Allocated, SetInv
    <2> QED BY <1>20, <2>1, ProgressKeepsSnapshot DEF MarkField, Push, Unmarked, IsMarked,
            ogMarkingBarriers, ControlInv
<1>21. ASSUME MarkEnd
      PROVE  SnapshotInv'
    <2>1. Progress /\ field' = field /\ Allocated' = Allocated /\ regs' \subseteq regs
        BY <1>21 DEF MarkEnd, Progress, Shaded, Unscanned, Allocated
    <2> QED BY <1>21, <2>1, ProgressKeepsSnapshot DEF MarkEnd,
            ogMarkingBarriers, ControlInv
<1>22. ASSUME CompleteMarking
      PROVE  SnapshotInv'
    <2>1. Progress /\ field' = field /\ Allocated' = Allocated /\ regs' \subseteq regs
        BY <1>22 DEF CompleteMarking, DrainBarrierWorklist, Pending, Progress, Shaded,
            Unscanned, Allocated
    <2> QED
        BY <1>22, <2>1, ProgressKeepsSnapshot DEF CompleteMarking, DrainBarrierWorklist,
            Pending,
            ogMarkingBarriers, ControlInv
<1>23. ASSUME NEW c \in Cells, MarkCell(c)
      PROVE  SnapshotInv'
    <2>1. Progress /\ field' = field /\ Allocated' = Allocated /\ regs' \subseteq regs
        BY <1>23 DEF MarkCell, Unmarked, IsMarked, Progress, Shaded, Unscanned,
            Allocated, SetInv
    <2> QED BY <1>23, <2>1, ProgressKeepsSnapshot DEF MarkCell, Unmarked, IsMarked,
            ogMarkingBarriers, ControlInv
<1>24. ASSUME BeginPass
      PROVE  SnapshotInv'
    <2>1. Progress /\ field' = field /\ Allocated' = Allocated /\ regs' \subseteq regs
        BY <1>24 DEF BeginPass, Progress, Shaded, Unscanned, Allocated
    <2> QED BY <1>24, <2>1, ProgressKeepsSnapshot DEF BeginPass,
            ogMarkingBarriers, ControlInv
<1>25. ASSUME NEW s \in EntrySlots, VisitSlot(s)
      PROVE  SnapshotInv'
    <2>1. Progress /\ field' = field /\ Allocated' = Allocated /\ regs' \subseteq regs
        BY <1>25 DEF VisitSlot, Push, Unmarked, IsMarked, EntryLive, Progress, Shaded,
            Unscanned, Allocated, SetInv
    <2> QED
        BY <1>25, <2>1, ProgressKeepsSnapshot DEF VisitSlot, Push, Unmarked, IsMarked,
            EntryLive,
            ogMarkingBarriers, ControlInv
<1>26. ASSUME NextPass
      PROVE  SnapshotInv'
    <2>1. Progress /\ field' = field /\ Allocated' = Allocated /\ regs' \subseteq regs
        BY <1>26 DEF NextPass, NewlyMarked, Progress, Shaded, Unscanned, Allocated
    <2> QED BY <1>26, <2>1, ProgressKeepsSnapshot DEF NextPass, NewlyMarked,
            ogMarkingBarriers, ControlInv
<1>27. ASSUME FinishMarking
      PROVE  SnapshotInv'
    BY <1>27 DEF FinishMarking
<1>28. ASSUME SweepNext
      PROVE  SnapshotInv'
    BY <1>28 DEF SweepNext
<1> QED
    BY <1>1, <1>2, <1>3, <1>4, <1>5, <1>6, <1>7, <1>8, <1>9, <1>10, <1>11,
       <1>12, <1>13, <1>14, <1>15, <1>16, <1>17, <1>18, <1>19, <1>20,
       <1>21, <1>22, <1>23, <1>24, <1>25, <1>26, <1>27, <1>28 DEF Next, Program, Collector

\* Closure(S) contains S and is closed; it is the least such set.
LEMMA ClosureClosed ==
    ASSUME TypeOK, NEW S \in SUBSET Cells
    PROVE  S \subseteq Closure(S) /\ Closed(Closure(S)) /\ Closure(S) \subseteq Cells
<1>1. S \subseteq Closure(S) /\ Closure(S) \subseteq Cells BY DEF Closure
<1>2. ASSUME NEW c \in Closure(S), NEW f \in Fields
      PROVE  field[c][f] \in Closure(S) \cup {Null}
    <2>1. field[c][f] \in Cells \cup {Null}
        BY <1>1 DEF TypeOK, Pointer
    <2>2. ASSUME NEW T \in SUBSET Cells, S \subseteq T, Closed(T)
          PROVE  field[c][f] \in T \cup {Null}
        <3>1. c \in T BY <2>2 DEF Closure
        <3> QED BY <2>2, <3>1 DEF Closed
    <2> QED BY <2>1, <2>2 DEF Closure
<1>3. ASSUME NEW s \in EntrySlots,
             entry[s].owner \in Closure(S), entry[s].key \in Closure(S)
      PROVE  entry[s].value \in Closure(S) \cup {Null}
    <2>1. entry[s].value \in Cells \cup {Null}
        BY TypeParts DEF EntryOK, EntrySet, Pointer
    <2>2. ASSUME NEW T \in SUBSET Cells, S \subseteq T, Closed(T)
          PROVE  entry[s].value \in T \cup {Null}
        <3>1. entry[s].owner \in T /\ entry[s].key \in T
            BY <1>3, <2>2 DEF Closure
        <3> QED BY <2>2, <3>1 DEF Closed
    <2> QED BY <2>1, <2>2 DEF Closure
<1> QED BY <1>1, <1>2, <1>3 DEF Closed

\* What is reachable from S lies in every closed set above S.
LEMMA ClosureLeast ==
    ASSUME NEW S, NEW T \in SUBSET Cells, S \subseteq T, Closed(T)
    PROVE  Closure(S) \subseteq T
BY DEF Closure

\* A dereference takes the target and what it leads to off the doomed cells.
LEMMA DerefKeepsDoomed ==
    ASSUME TypeOK, ControlInv, SetInv, LiveInv, EntryInv, DoomedInv,
           NEW w \in WeakSlots, Deref(w)
    PROVE  DoomedInv'
<1> DEFINE S == (Allocated \ doomed) \cup {weak[w]}
<1> DEFINE C == Closure(S)
<1>1. /\ BarrierEffect(weak[w]) /\ weak[w] \in Live /\ weak[w] # Null
      /\ pcM = "run" /\ pcM' = "load" /\ pendValue' = weak[w]
    BY DerefEffect
<1>2. doomed' = doomed \ C BY DEF Deref
<1>3. UNCHANGED <<young, old, field, regs, entry, marked, phase>>
    BY DEF Deref, genVars, progVars, weakVars, markVars
<1>4. S \in SUBSET Cells BY <1>1 DEF TypeOK, Allocated, Live
<1>5. S \subseteq C /\ Closed(C) /\ C \subseteq Cells BY <1>4, ClosureClosed
<1> HIDE DEF C
<1>6. /\ doomed' \subseteq old' /\ doomed' \cap marked' = {}
      /\ phase' = "None" => doomed' = {}
    BY <1>2, <1>3 DEF DoomedInv
<1>7. ASSUME ogMarkingBarriers'
      PROVE  /\ Roots' \cap doomed' = {} /\ Shaded' \cap doomed' = {}
             /\ \A c \in Kept' : \A f \in Fields : field'[c][f] \notin doomed'
             /\ \A s \in EntrySlots :
                    entry'[s].owner \in Kept' /\ entry'[s].key \in Kept'
                        => entry'[s].value \notin doomed'
    <2>1. ogMarkingBarriers BY <1>3, <1>7 DEF ogMarkingBarriers
    <2>2. Kept' \subseteq C
        BY <1>2, <1>3, <1>5 DEF Kept, Allocated, SetInv
    <2>3. Null \notin doomed'
        BY <1>2, NullAssumption DEF TypeOK
    <2>4. Roots' \cap doomed' = {}
        BY <1>1, <1>2, <1>3, <1>5, <2>1 DEF Roots, DoomedInv
    <2>5. Shaded' \cap doomed' = {}
        BY <1>1, <1>2, <1>3, <1>5, <2>1 DEF Shaded, BarrierEffect, DoomedInv
    <2>6. ASSUME NEW c \in Kept', NEW f \in Fields
          PROVE  field'[c][f] \notin doomed'
        BY <1>2, <1>3, <1>5, <2>2, <2>3 DEF Closed
    <2>7. ASSUME NEW s \in EntrySlots, entry'[s].owner \in Kept', entry'[s].key \in Kept'
          PROVE  entry'[s].value \notin doomed'
        BY <1>2, <1>3, <1>5, <2>2, <2>3, <2>7 DEF Closed
    <2> QED BY <2>4, <2>5, <2>6, <2>7
<1> QED BY <1>6, <1>7 DEF DoomedInv

\* Every step keeps what is not doomed apart from what is.
LEMMA DoomedStep ==
    ASSUME TypeOK, SetInv, ControlInv, PendingInv, LiveInv, EntryInv, DoomedInv,
           [Next]_vars
    PROVE  DoomedInv'
<1> USE NullAssumption DEF TypeOK
<1>a. ogMarkingBarriers => \A v \in regs \cup {Null} : v \notin doomed
    BY DEF DoomedInv, Roots
<1> USE DEF DoomedInv, ogMarkingBarriers,
        genVars, progVars, weakVars, barrierVars, markVars, scanVars, mutVars,
        cycleVars, vars
<1>1. CASE UNCHANGED vars
    BY <1>1 DEF Shaded, Kept, Allocated, Roots, Live
<1>2. ASSUME NEW c \in regs, NEW f \in Fields, NEW v \in regs \cup {Null},
               WriteBarrier(c, f, v)
      PROVE  DoomedInv'
    <2>1. v \notin doomed \/ ~ogMarkingBarriers BY <1>a
    <2>2. CASE c \in young
        <3>1. \A d \in Allocated : \A g \in Fields :
                 field'[d][g] = IF d = c /\ g = f THEN v ELSE field[d][g]
            BY <1>2, <2>2 DEF WriteBarrier, Allocated
        <3> QED
            BY <1>2, <2>1, <2>2, <3>1 DEF WriteBarrier, Running, Shaded, Kept,
                Allocated, Roots, Live
    <2>3. CASE c \notin young
        <3>1. /\ BarrierEffect(field[c][f]) /\ field' = field
              /\ pcM = "run" /\ pcM' = "store"
            BY <1>2, <2>3, WriteBarrierEffect
        <3>2. ogMarkingBarriers => c \in Kept
            BY DEF Kept, Roots, Allocated, Live, LiveInv
        <3> QED
            BY <1>2, <3>1, <3>2 DEF WriteBarrier, BarrierEffect, Shaded, Kept,
                Allocated, Roots, Live
    <2> QED BY <2>2, <2>3
<1>3. ASSUME Store
      PROVE  DoomedInv'
    <2>1. pendValue \notin doomed \/ ~ogMarkingBarriers
        BY <1>3, <1>a DEF Store, PendingInv
    <2>2. \A d \in Allocated : \A g \in Fields :
             field'[d][g] = IF d = pendCell /\ g = pendField THEN pendValue
                            ELSE field[d][g]
        BY <1>3 DEF Store, Allocated
    <2> QED BY <1>3, <2>1, <2>2 DEF Store, OpDone, Shaded, Kept, Allocated, Roots, Live
<1>4. ASSUME DrainFullBarrierChunk
      PROVE  DoomedInv'
    <2> DEFINE cell == IF pcM = "store" THEN field[pendCell][pendField] ELSE pendValue
    <2>1. cell \notin doomed
        <3>1. CASE pcM = "store"
            <4>1. pendCell \in Kept /\ pendField \in Fields /\ ogMarkingBarriers
                BY <1>4, <3>1 DEF DrainFullBarrierChunk, PendingInv, ControlInv,
                    Kept, LiveInv, Shaded, Kept, Allocated, Roots, Live
            <4> QED BY <3>1, <4>1
        <3>2. CASE pcM # "store"
            BY <1>4, <3>2 DEF DrainFullBarrierChunk, ControlInv, Roots
        <3> QED BY <3>1, <3>2
    <2>2. pushChunk' = {cell} BY <1>4 DEF DrainFullBarrierChunk
    <2> HIDE DEF cell
    <2>3. /\ marked' = marked \cup barrierWorklist /\ barrierWorklist' = {}
          /\ pcM' = pcM
          /\ UNCHANGED <<young, old, field, regs, entry, phase, doomed, pendValue>>
        BY <1>4 DEF DrainFullBarrierChunk, DrainBarrierWorklist
    <2>4. ogMarkingBarriers BY <1>4 DEF DrainFullBarrierChunk, ControlInv
    <2> QED BY <2>1, <2>2, <2>3, <2>4 DEF Shaded, Kept, Allocated, Roots, Live
<1>5. ASSUME NEW c \in regs, NEW f \in Fields, Read(c, f)
      PROVE  DoomedInv'
    <2>1. ogMarkingBarriers => field[c][f] \notin doomed
        <3>1. ogMarkingBarriers => c \in Kept
            BY DEF Kept, LiveInv, Shaded, Kept, Allocated, Roots, Live
        <3> QED BY <3>1
    <2> QED BY <1>5, <2>1 DEF Read, Running, Shaded, Kept, Allocated, Roots, Live
<1>6. ASSUME NEW c \in regs, Drop(c)
      PROVE  DoomedInv'
    BY <1>6 DEF Drop, Running, Shaded, Kept, Allocated, Roots, Live, SetInv,
        ControlInv
<1>7. ASSUME NEW c \in Cells, NEW init \in [Fields -> regs \cup {Null}],
               AllocYoung(c, init)
      PROVE  DoomedInv'
    <2>1. /\ c \notin Allocated /\ Allocated' = Allocated \cup {c}
          /\ field' = [field EXCEPT ![c] = init] /\ regs' = regs \cup {c}
          /\ Shaded' = Shaded \cup {c} /\ pcM = "run" /\ pcM' = "run"
        BY <1>7 DEF AllocYoung, NewCell, FinishAlloc, Allocated, Shaded, Running
    <2>2. \A d \in Allocated : \A f \in Fields : field'[d][f] = field[d][f]
        BY <2>1 DEF Allocated
    <2>3. \A f \in Fields : field'[c][f] \in regs \cup {Null}
        BY <2>1
    <2>4. c \notin doomed /\ Kept' = Kept \cup {c}
        BY <1>7, <2>1 DEF AllocYoung, Kept, Allocated
    <2>5. \A s \in EntrySlots : entry[s].owner # c /\ entry[s].key # c
        BY <2>1 DEF EntryInv, Live, Allocated
    <2> QED BY <1>7, <1>a, <2>1, <2>2, <2>3, <2>4, <2>5 DEF AllocYoung, NewCell,
            FinishAlloc, Kept, Roots, Allocated
<1>8. ASSUME NEW c \in Cells, NEW init \in [Fields -> regs \cup {Null}],
               AllocLongLived(c, init)
      PROVE  DoomedInv'
    <2>1. /\ c \notin Allocated /\ Allocated' = Allocated \cup {c}
          /\ field' = [field EXCEPT ![c] = init] /\ regs' = regs \cup {c}
          /\ Shaded' = Shaded \cup {c} /\ pcM = "run" /\ pcM' = "run"
        BY <1>8 DEF AllocLongLived, NewCell, FinishAlloc, Allocated, Shaded, Running
    <2>2. \A d \in Allocated : \A f \in Fields : field'[d][f] = field[d][f]
        BY <2>1 DEF Allocated
    <2>3. \A f \in Fields : field'[c][f] \in regs \cup {Null}
        BY <2>1
    <2>4. c \notin doomed /\ Kept' = Kept \cup {c}
        BY <1>8, <2>1 DEF AllocLongLived, Kept, Allocated
    <2>5. \A s \in EntrySlots : entry[s].owner # c /\ entry[s].key # c
        BY <2>1 DEF EntryInv, Live, Allocated
    <2> QED BY <1>8, <1>a, <2>1, <2>2, <2>3, <2>4, <2>5 DEF AllocLongLived, NewCell,
            FinishAlloc, Kept, Roots, Allocated
<1>9. ASSUME NEW w \in WeakSlots, NEW c \in regs, MakeWeak(w, c)
      PROVE  DoomedInv'
    BY <1>9 DEF MakeWeak, Running, Shaded, Kept, Allocated, Roots, Live,
        SetInv, ControlInv
<1>10. ASSUME NEW w \in WeakSlots, Deref(w)
      PROVE  DoomedInv'
    BY <1>10, DerefKeepsDoomed
<1>11. ASSUME Load
      PROVE  DoomedInv'
    BY <1>11 DEF Load, OpDone, Shaded, Kept, Allocated, Roots, Live, SetInv,
        ControlInv
<1>12. ASSUME NEW s \in EntrySlots, NEW m \in regs, NEW k \in regs,
               NEW v \in regs \cup {Null}, MapSet(s, m, k, v)
      PROVE  DoomedInv'
    <2>1. v \notin doomed \/ ~ogMarkingBarriers BY <1>a
    <2>2. CASE Found(s, m, k) /\ entry' = [entry EXCEPT ![s].value = v]
        <3>1. ASSUME NEW t \in EntrySlots
              PROVE  /\ entry'[t].key = entry[t].key /\ entry'[t].owner = entry[t].owner
                     /\ \/ entry'[t].value = entry[t].value
                        \/ entry'[t].value = v
            BY <2>2, TypeParts DEF EntryOK, EntrySet
        <3> QED
            BY <1>12, <2>1, <3>1 DEF MapSet, Running, Shaded, Kept, Allocated, Roots,
                Live
    <2>3. CASE \E freed \in {{}, Freeable(m)} :
                 entry' = [t \in EntrySlots |->
                     IF t = s THEN [map |-> m, owner |-> m, key |-> k, value |-> v]
                     ELSE IF t \in freed THEN FreeSlot ELSE entry[t]]
        <3>1. ASSUME NEW t \in EntrySlots
              PROVE  \/ entry'[t] = entry[t] \/ entry'[t] = FreeSlot
                     \/ entry'[t].value = v
            BY <2>3
        <3> QED
            BY <1>12, <2>1, <3>1 DEF MapSet, Running, FreeSlot, Shaded, Kept, Allocated,
                Roots, Live
    <2> QED BY <1>12, <2>2, <2>3 DEF MapSet
<1>13. ASSUME NEW s \in EntrySlots, NEW m \in regs, NEW k \in regs,
               MapGet(s, m, k)
      PROVE  DoomedInv'
    <2>1. /\ BarrierEffect(entry[s].value) /\ entry[s].value \in Live \ {Null}
          /\ pcM = "run" /\ pcM' = "load" /\ pendValue' = entry[s].value
        BY <1>13, MapGetEffect
    <2>2. ASSUME ogMarkingBarriers PROVE entry[s].value \notin doomed
        <3>1. entry[s].owner = m /\ entry[s].key = k
            BY <1>13 DEF MapGet, Found, EntryInv, LiveInv, Roots
        <3>2. m \in Kept /\ k \in Kept
            BY <2>2 DEF Kept, LiveInv, Shaded, Kept, Allocated, Roots, Live
        <3> QED BY <2>2, <3>1, <3>2
    <2> QED
        BY <1>13, <2>1, <2>2 DEF MapGet, BarrierEffect, Shaded, Kept, Allocated, Roots,
            Live
<1>14. ASSUME NEW s \in EntrySlots, NEW m \in regs, NEW k \in regs,
               MapDelete(s, m, k)
      PROVE  DoomedInv'
    BY <1>14 DEF MapDelete, Running, Found, FreeSlot, Shaded, Kept, Allocated,
        Roots, Live, SetInv, ControlInv
<1>15. ASSUME YoungGenCollection
      PROVE  DoomedInv'
    <2> DEFINE dead == young \ Evacuated
    <2>1. /\ young' = {} /\ old' = old \cup Evacuated /\ marked' = marked \cup Evacuated
          /\ pcM = "run" /\ UNCHANGED <<field, regs, pushChunk, barrierWorklist, doomed,
                                        phase, pcM, pendValue>>
        BY <1>15 DEF YoungGenCollection
    <2>2. Evacuated \subseteq young BY EvacuatedClosed
    <2>3. /\ Kept' \subseteq Kept /\ Shaded' \subseteq Shaded
          /\ Null \notin Kept' /\ Null \notin doomed
        BY <2>1, <2>2 DEF Kept, Shaded, Allocated
    <2>4. ASSUME NEW s \in EntrySlots,
                 entry'[s].owner \in Kept', entry'[s].key \in Kept'
          PROVE  /\ entry[s].owner = entry'[s].owner /\ entry[s].key = entry'[s].key
                 /\ entry[s].value = entry'[s].value
        <3>1. \/ entry'[s] = FreeSlot
              \/ /\ entry'[s].owner = ClearRoot(entry[s].owner, dead)
                 /\ entry'[s].key = ClearRoot(entry[s].key, dead)
                 /\ entry'[s].value = entry[s].value
            BY <1>15, YoungEntries, TypeParts
        <3> QED BY <2>3, <2>4, <3>1 DEF ClearRoot, FreeSlot
    <2>5. doomed' \subseteq old' /\ doomed' \cap marked' = {}
        BY <2>1, <2>2 DEF SetInv
    <2> QED BY <2>1, <2>3, <2>4, <2>5 DEF Roots
<1>16. ASSUME PromoteYoungGen
      PROVE  DoomedInv'
    BY <1>16 DEF PromoteYoungGen, Shaded, Kept, Allocated, Roots, Live, SetInv,
        ControlInv
<1>17. ASSUME OldGenCollection
      PROVE  DoomedInv'
    <2>1. /\ young = {} /\ marked' = regs /\ pushChunk' = {} /\ barrierWorklist' = {}
          /\ doomed' = old \ Reachable /\ phase' = "Mark" /\ phase = "None" /\ pcM = "run"
          /\ UNCHANGED <<young, old, field, regs, entry, pcM>>
        BY <1>17 DEF OldGenCollection
    <2>2. Roots = regs /\ Roots' = regs BY <2>1 DEF Roots
    <2>3. regs \subseteq Reachable /\ Closed(Reachable) /\ Reachable \subseteq Cells
        BY <2>2, ClosureClosed DEF Reachable
    <2>4. Kept' = old \cap Reachable BY <2>1 DEF Kept, Allocated
    <2>5. Shaded' = regs BY <2>1 DEF Shaded
    <2> HIDE DEF Reachable
    <2> QED BY <2>1, <2>2, <2>3, <2>4, <2>5 DEF Closed
<1>18. ASSUME MarkBegin
      PROVE  DoomedInv'
    BY <1>18 DEF MarkBegin, DrainBarrierWorklist, Shaded, Kept, Allocated,
        Roots, Live, SetInv, ControlInv
<1>19. ASSUME NEW c \in Cells, MarkPop(c)
      PROVE  DoomedInv'
    BY <1>19 DEF MarkPop, Shaded, Kept, Allocated, Roots, Live, SetInv,
        ControlInv
<1>20. ASSUME NEW f \in Fields, MarkField(f)
      PROVE  DoomedInv'
    <2>1. scanCell \in Kept /\ ogMarkingBarriers
        BY <1>20 DEF MarkField, SetInv, ControlInv, Kept, Allocated
    <2>2. Unmarked({field[scanCell][f]}) \cap doomed = {}
        BY <2>1 DEF Unmarked
    <2> QED BY <1>20, <2>1, <2>2 DEF MarkField, Push, Shaded, Kept, Allocated,
            Roots
<1>21. ASSUME MarkEnd
      PROVE  DoomedInv'
    BY <1>21 DEF MarkEnd, Shaded, Kept, Allocated, Roots, Live, SetInv,
        ControlInv
<1>22. ASSUME CompleteMarking
      PROVE  DoomedInv'
    BY <1>22 DEF CompleteMarking, DrainBarrierWorklist, Pending, Shaded, Kept,
        Allocated, Roots, Live, SetInv, ControlInv
<1>23. ASSUME NEW c \in Cells, MarkCell(c)
      PROVE  DoomedInv'
    <2>1. c \in Kept /\ ogMarkingBarriers
        BY <1>23 DEF MarkCell, SetInv, ControlInv, Kept, Allocated
    <2>2. Unmarked({field[c][f] : f \in Fields}) \cap doomed = {}
        BY <2>1 DEF Unmarked
    <2> QED BY <1>23, <2>1, <2>2 DEF MarkCell, Push, Shaded, Kept, Allocated,
            Roots
<1>24. ASSUME BeginPass
      PROVE  DoomedInv'
    BY <1>24 DEF BeginPass, Shaded, Kept, Allocated, Roots, Live, SetInv,
        ControlInv
<1>25. ASSUME NEW s \in EntrySlots, VisitSlot(s)
      PROVE  DoomedInv'
    <2>1. ogMarkingBarriers BY <1>25 DEF VisitSlot, ControlInv
    <2>2. EntryLive(s) => entry[s].value \notin doomed
        BY <2>1 DEF EntryLive, IsMarked, Kept, Allocated, SetInv
    <2>3. (IF EntryLive(s) THEN Unmarked({entry[s].value}) ELSE {}) \cap doomed = {}
        BY <2>2 DEF Unmarked
    <2>4. marked' \cap doomed = {} BY <1>25, <2>3 DEF VisitSlot, Push
    <2> QED BY <1>25, <2>1, <2>4 DEF VisitSlot, Shaded, Kept, Allocated, Roots
<1>26. ASSUME NextPass
      PROVE  DoomedInv'
    BY <1>26 DEF NextPass, NewlyMarked, Shaded, Kept, Allocated, Roots, Live,
        SetInv, ControlInv
<1>27. ASSUME FinishMarking
      PROVE  DoomedInv'
    BY <1>27 DEF FinishMarking
<1>28. ASSUME SweepNext
      PROVE  DoomedInv'
    <2>1. PICK dead \in SUBSET (old \ marked) :
             /\ segNumber <= 1 => dead = old \ marked
             /\ old' = old \ dead /\ doomed' = doomed \ dead
        BY <1>28 DEF SweepNext
    <2>2. phase' = "None" => segNumber <= 1 BY <1>28 DEF SweepNext
    <2>3. phase' \in {"None", "Sweep"} /\ marked' = marked BY <1>28 DEF SweepNext
    <2> QED BY <2>1, <2>2, <2>3
<1> QED
    BY <1>1, <1>2, <1>3, <1>4, <1>5, <1>6, <1>7, <1>8, <1>9, <1>10, <1>11,
       <1>12, <1>13, <1>14, <1>15, <1>16, <1>17, <1>18, <1>19, <1>20,
       <1>21, <1>22, <1>23, <1>24, <1>25, <1>26, <1>27, <1>28 DEF Next, Program, Collector

------------------------------------------------------------------------------
\* The initial states satisfy the invariant.
LEMMA InitInv == Init => IndInv
<1> SUFFICES ASSUME Init PROVE IndInv OBVIOUS
<1>1. PICK h \in Heaps : /\ old = h.old /\ field = h.field /\ regs = h.regs
                         /\ weak = h.weak /\ entry = h.entry
    BY DEF Init
<1>2. WellFormed(h) BY HeapsAssumption
<1>3. /\ old \subseteq Cells /\ regs \subseteq old
      /\ field \in [Cells -> [Fields -> Pointer]]
      /\ \A c \in old : \A f \in Fields : field[c][f] \in old \cup {Null}
      /\ weak \in [WeakSlots -> old \cup {Null}]
    BY <1>1, <1>2 DEF WellFormed
<1>4. /\ entry \in [EntrySlots ->
                      [map : old, owner : old, key : old, value : old \cup {Null}]
                          \cup {FreeSlot}]
      /\ \A s \in EntrySlots : entry[s].map = entry[s].owner
    BY <1>1, <1>2 DEF WellFormed
<1>5. FlagsOK BY Zenon DEF Init, FlagsOK
<1>6. EntryOK
    <2>1. ASSUME NEW s \in EntrySlots PROVE entry[s] \in EntrySet
        BY <1>3, <1>4 DEF EntrySet, FreeSlot, Pointer
    <2> QED BY <1>4, <2>1 DEF EntryOK
<1>7. RestOK
    BY <1>3, ChunkAssumption, BoundAssumption DEF Init, RestOK, Pointer
<1>8. TypeOK BY <1>5, <1>6, <1>7, TypeParts
<1>9. SetInv /\ ControlInv /\ PendingInv
    BY DEF Init, SetInv, ControlInv, PendingInv
<1>10. Live = old /\ Roots = regs /\ Allocated = old
    BY DEF Init, Live, Roots, Allocated
<1>11. LiveInv BY <1>3, <1>10 DEF LiveInv
<1>12. EntryInv
    <2>1. ASSUME NEW s \in EntrySlots
          PROVE  /\ entry[s].owner \in old \cup {Null}
                 /\ entry[s].key \in old \cup {Null}
                 /\ entry[s].value \in old \cup {Null}
                 /\ entry[s].map = entry[s].owner
                 /\ entry[s].map = Null => entry[s].key = Null /\ entry[s].value = Null
        BY <1>3, <1>4, NullAssumption DEF FreeSlot
    <2> QED BY <1>10, <2>1 DEF EntryInv
<1>13. SnapshotInv /\ SlotInv
    BY DEF Init, SnapshotInv, SlotInv, ogMarkingBarriers
<1>14. DoomedInv BY DEF Init, DoomedInv, ogMarkingBarriers
<1> QED BY <1>8, <1>9, <1>11, <1>12, <1>13, <1>14 DEF IndInv

\* Every step preserves it.
LEMMA StepInv == IndInv /\ [Next]_vars => IndInv'
<1> SUFFICES ASSUME IndInv, [Next]_vars PROVE IndInv' OBVIOUS
<1>1. /\ TypeOK /\ SetInv /\ ControlInv /\ PendingInv /\ LiveInv /\ EntryInv
      /\ SnapshotInv /\ SlotInv /\ DoomedInv
    BY DEF IndInv
<1>2. TypeOK'
    <2>1. FlagsOK /\ EntryOK /\ RestOK BY <1>1, TypeParts
    <2>2. regs \subseteq Cells BY <2>1 DEF RestOK
    <2>3. FlagsOK' BY <2>1, FlagsStep
    <2>4. EntryOK' BY <2>1, <2>2, EntryStep
    <2>5. RestOK' BY <1>1, RestStep
    <2>6. (FlagsOK /\ EntryOK /\ RestOK)' => TypeOK'
        BY Zenon DEF TypeOK, FlagsOK, EntryOK, EntrySet, RestOK
    <2> QED BY <2>3, <2>4, <2>5, <2>6
<1>3. SetInv' BY <1>1, SetStep
<1>4. ControlInv' BY <1>1, ControlStep
<1>5. PendingInv' BY <1>1, PendingStep
<1>6. LiveInv' BY <1>1, LiveStep
<1>7. EntryInv' BY <1>1, EntryInvStep
<1>8. SnapshotInv' BY <1>1, SnapshotStep
<1>9. SlotInv' BY <1>1, SlotStep
<1>10. DoomedInv' BY <1>1, DoomedStep
<1> QED BY <1>2, <1>3, <1>4, <1>5, <1>6, <1>7, <1>8, <1>9, <1>10 DEF IndInv

\* The invariant holds in every reachable state of every instance.
THEOREM Inductive == Spec => []IndInv
BY InitInv, StepInv, PTL DEF Spec

\* All variables keep their types; in particular the push chunk never outgrows
\* its capacity (handleFullBarrierChunk is called in time).
THEOREM TypeCorrect == Spec => []TypeOK
<1>1. IndInv => TypeOK BY DEF IndInv
<1> QED BY <1>1, Inductive, PTL

\* Safety of concurrent marking: no cell that the program can reach is ever
\* freed or condemned, whatever it writes between the marker's steps.
THEOREM ReachableSafe == Spec => []ReachableKept
<1>1. IndInv => ReachableKept
    <2> SUFFICES ASSUME IndInv PROVE Reachable \subseteq Live
        BY DEF ReachableKept
    <2>1. Roots \subseteq Live /\ Live \in SUBSET Cells
        BY DEF IndInv, LiveInv, TypeOK, Live
    <2>2. Closed(Live) BY DEF IndInv, LiveInv, EntryInv, Closed
    <2> QED BY <2>1, <2>2, ClosureLeast DEF Reachable
<1> QED BY <1>1, Inductive, PTL

\* Weak references and weak map entries never refer to cells that are freed or
\* condemned: MarkWeakRootsAcceptor, markWeakMapEntrySlots and the finalizer of
\* weak maps clear them in time.
THEOREM WeakSafe == Spec => []WeakTargetsKept
<1>1. IndInv => WeakTargetsKept BY DEF IndInv, LiveInv, EntryInv, WeakTargetsKept
<1> QED BY <1>1, Inductive, PTL

\* The worklists hold marked cells of the OG, as the marker asserts.
THEOREM WorklistsSafe == Spec => []WorklistsOld
<1>1. IndInv => WorklistsOld BY DEF IndInv, SetInv, WorklistsOld
<1> QED BY <1>1, Inductive, PTL

\* A collection reclaims all the garbage of its snapshot, cycles through weak
\* maps included.
THEOREM GarbagePrompt == Spec => []GarbageReclaimed
<1>1. IndInv => GarbageReclaimed BY DEF IndInv, DoomedInv, GarbageReclaimed
<1> QED BY <1>1, Inductive, PTL

------------------------------------------------------------------------------
(* HadesMark implements ManagedHeap.                                        *)

\* A weak map entry as ManagedHeap sees it.
AbsEntry(s) == IF entry[s].owner = Null \/ entry[s].key = Null
               THEN [owner |-> Null, key |-> Null, value |-> Null]
               ELSE VisibleEntry(s)

\* A step that changes nothing the program can see is a stutter of ManagedHeap.
LEMMA Stutter ==
    ASSUME Live' = Live, \A c \in Live : field'[c] = field[c], Roots' = Roots,
           weak' = weak, \A s \in EntrySlots : AbsEntry(s)' = AbsEntry(s)
    PROVE  UNCHANGED Heap!hvars
<1>1. [c \in Live |-> field[c]]' = [c \in Live |-> field[c]] OBVIOUS
<1>2. [s \in EntrySlots |-> AbsEntry(s)]' = [s \in EntrySlots |-> AbsEntry(s)]
    OBVIOUS
<1> QED BY <1>1, <1>2 DEF Heap!hvars, AbsEntry

\* Steps that leave the heap, the generations and the entries alone.
LEMMA FrameStutter ==
    ASSUME UNCHANGED <<young, old, field, weak, entry>>, Live' = Live, Roots' = Roots
    PROVE  UNCHANGED Heap!hvars
BY Stutter DEF AbsEntry, VisibleEntry

\* Marking, and the barriers, change nothing the program can see.
LEMMA MarkingStutters ==
    ASSUME IndInv,
           \/ MarkBegin \/ MarkEnd \/ CompleteMarking \/ BeginPass \/ NextPass
           \/ \E c \in Cells : MarkPop(c) \/ MarkCell(c)
           \/ \E f \in Fields : MarkField(f)
           \/ \E s \in EntrySlots : VisitSlot(s)
           \/ DrainFullBarrierChunk \/ OldGenCollection \/ PromoteYoungGen
    PROVE  UNCHANGED Heap!hvars
<1> USE DEF IndInv, ControlInv, SetInv, Live, Roots, genVars, progVars, weakVars,
            scanVars, mutVars, cycleVars, markVars
<1>1. ASSUME PromoteYoungGen PROVE UNCHANGED Heap!hvars
    <2>1. Live' = Live /\ Roots' = Roots /\ UNCHANGED <<field, weak, entry>>
        BY <1>1 DEF PromoteYoungGen
    <2> QED BY <2>1, Stutter DEF AbsEntry, VisibleEntry
<1>2. ASSUME ~PromoteYoungGen
      PROVE  /\ UNCHANGED <<young, old, field, weak, entry>>
             /\ Live' = Live /\ Roots' = Roots
    BY <1>2 DEF MarkBegin, MarkEnd, CompleteMarking, BeginPass, NextPass, MarkPop,
        MarkCell, MarkField, VisitSlot, DrainFullBarrierChunk, OldGenCollection,
        DrainBarrierWorklist, Push, ogMarkingBarriers
<1> QED BY <1>1, <1>2, FrameStutter

\* Allocation, in either generation, is an Allocate of ManagedHeap.
LEMMA AllocRefines ==
    ASSUME IndInv, NEW c \in Cells, NEW init \in [Fields -> regs \cup {Null}],
           AllocYoung(c, init) \/ AllocLongLived(c, init)
    PROVE  Heap!HNext
<1>1. /\ c \notin Live /\ Live' = Live \cup {c} /\ Roots = regs /\ Roots' = regs \cup {c}
      /\ field' = [field EXCEPT ![c] = init] /\ UNCHANGED <<weak, entry>>
    BY DEF AllocYoung, AllocLongLived, NewCell, FinishAlloc, Running, Live, Roots,
           Allocated, IndInv, SetInv, genVars, weakVars, markVars, mutVars, cycleVars
<1>2. Live \subseteq Cells /\ field \in [Cells -> [Fields -> Pointer]]
    BY DEF IndInv, TypeOK, Live
<1>3. [d \in Live |-> field[d]]' =
          [d \in Live \cup {c} |-> IF d = c THEN init
                                   ELSE [e \in Live |-> field[e]][d]]
    BY <1>1, <1>2
<1>4. Heap!Allocate(c, init)
    BY <1>1, <1>3 DEF Heap!Allocate, VisibleEntry
<1> QED BY <1>1, <1>4 DEF Heap!HNext

\* A store into a live cell is a Write of ManagedHeap.
LEMMA WriteRefines ==
    ASSUME IndInv, NEW c \in regs, NEW f \in Fields, NEW v \in regs \cup {Null},
           field' = [field EXCEPT ![c][f] = v], Live' = Live, Roots = regs,
           Roots' = Roots, UNCHANGED <<weak, entry>>
    PROVE  Heap!HNext
<1>1. c \in Live /\ Live \subseteq Cells /\ field \in [Cells -> [Fields -> Pointer]]
    BY DEF IndInv, TypeOK, Live, LiveInv
<1>2. [d \in Live |-> field[d]]' = [[d \in Live |-> field[d]] EXCEPT ![c][f] = v]
    BY <1>1
<1>3. Heap!Write(c, f, v) BY <1>2 DEF Heap!Write, VisibleEntry
<1> QED BY <1>3 DEF Heap!HNext

\* A store is a Write; the barrier before it is a stutter.
LEMMA StoreRefines ==
    ASSUME IndInv,
           Store \/ \E c \in regs, f \in Fields, v \in regs \cup {Null} :
                        WriteBarrier(c, f, v)
    PROVE  Heap!HNext \/ UNCHANGED Heap!hvars
<1>1. CASE Store
    <2>1. /\ pendCell \in regs /\ pendField \in Fields
          /\ pendValue \in regs \cup {Null}
        BY <1>1 DEF Store, IndInv, PendingInv
    <2>2. /\ field' = [field EXCEPT ![pendCell][pendField] = pendValue]
          /\ Live' = Live /\ Roots = regs /\ Roots' = Roots
          /\ UNCHANGED <<weak, entry>>
        BY <1>1 DEF Store, OpDone, Live, Roots, genVars, weakVars, markVars, cycleVars
    <2> QED BY <2>1, <2>2, WriteRefines
<1>2. ASSUME NEW c \in regs, NEW f \in Fields, NEW v \in regs \cup {Null},
             WriteBarrier(c, f, v)
      PROVE  Heap!HNext \/ UNCHANGED Heap!hvars
    <2>1. /\ UNCHANGED <<young, old, regs, weak, entry, marked, phase>>
          /\ Live' = Live /\ pcM = "run" /\ Roots = regs
        BY <1>2 DEF WriteBarrier, Running, Live, Roots, genVars, weakVars, markVars,
                    cycleVars
    <2>2. CASE c \in young
        <3>1. field' = [field EXCEPT ![c][f] = v] /\ Roots' = Roots
            BY <1>2, <2>1, <2>2 DEF WriteBarrier, Roots, mutVars
        <3> QED BY <2>1, <3>1, WriteRefines
    <2>3. CASE c \notin young
        <3>1. field' = field /\ Roots' = Roots
            BY <1>2, <2>1, <2>3 DEF WriteBarrier, Roots
        <3> QED BY <2>1, <3>1, FrameStutter
    <2> QED BY <2>2, <2>3
<1> QED BY <1>1, <1>2

\* Loads, and the registers.
LEMMA RootsRefine ==
    ASSUME IndInv,
           \/ \E c \in regs, f \in Fields : Read(c, f)
           \/ \E c \in regs : Drop(c) \/ \E w \in WeakSlots : MakeWeak(w, c)
           \/ \E w \in WeakSlots : Deref(w)
           \/ \E s \in EntrySlots, m \in regs, k \in regs : MapGet(s, m, k)
           \/ Load
    PROVE  Heap!HNext \/ UNCHANGED Heap!hvars
<1> USE DEF genVars, progVars, weakVars, markVars, mutVars, cycleVars
<1>1. CASE Load
    <2>1. /\ UNCHANGED <<young, old, field, weak, entry>>
          /\ Live' = Live /\ Roots' = Roots
        BY <1>1 DEF Load, OpDone, Live, Roots
    <2> QED BY <2>1, FrameStutter
<1>2. ASSUME NEW c \in regs, NEW f \in Fields, Read(c, f)
      PROVE  Heap!HNext
    <2>1. c \in Live BY DEF IndInv, LiveInv, Roots
    <2>2. /\ Live' = Live /\ Roots = regs /\ Roots' = regs \cup {field[c][f]}
          /\ field[c][f] # Null /\ UNCHANGED <<field, weak, entry>>
        BY <1>2 DEF Read, Running, Live, Roots
    <2>3. Heap!Read(c, f)
        BY <2>1, <2>2 DEF Heap!Read, Heap!Hold, VisibleEntry
    <2> QED BY <2>2, <2>3 DEF Heap!HNext
<1>3. ASSUME NEW c \in regs, Drop(c)
      PROVE  Heap!HNext
    <2>1. /\ Live' = Live /\ Roots = regs /\ Roots' = regs \ {c}
          /\ UNCHANGED <<field, weak, entry>>
        BY <1>3 DEF Drop, Running, Live, Roots
    <2>2. Heap!Drop(c) BY <2>1 DEF Heap!Drop, VisibleEntry
    <2> QED BY <2>1, <2>2 DEF Heap!HNext
<1>4. ASSUME NEW w \in WeakSlots, NEW c \in regs, MakeWeak(w, c)
      PROVE  Heap!HNext
    <2>1. /\ Live' = Live /\ Roots = regs /\ Roots' = Roots
          /\ weak[w] = Null /\ weak' = [weak EXCEPT ![w] = c]
          /\ UNCHANGED <<field, entry>>
        BY <1>4 DEF MakeWeak, Running, Live, Roots
    <2>2. Heap!MakeWeak(w, c) BY <2>1 DEF Heap!MakeWeak, VisibleEntry
    <2> QED BY <2>1, <2>2 DEF Heap!HNext
<1>5. ASSUME NEW w \in WeakSlots, Deref(w)
      PROVE  Heap!HNext
    <2>1. weak[w] # Null /\ pcM = "run" /\ pcM' = "load" /\ pendValue' = weak[w]
        BY <1>5, DerefEffect DEF IndInv
    <2>2. /\ Live' = Live /\ Roots = regs /\ Roots' = regs \cup {weak[w]}
          /\ UNCHANGED <<field, weak, entry>>
        BY <1>5, <2>1 DEF Deref, Live, Roots
    <2>3. Heap!Deref(w) BY <2>1, <2>2 DEF Heap!Deref, Heap!Hold, VisibleEntry
    <2> QED BY <2>3 DEF Heap!HNext
<1>6. ASSUME NEW s \in EntrySlots, NEW m \in regs, NEW k \in regs, MapGet(s, m, k)
      PROVE  Heap!HNext
    <2>1. /\ entry[s].value # Null /\ pcM = "run" /\ pcM' = "load"
          /\ pendValue' = entry[s].value
        BY <1>6, MapGetEffect DEF IndInv
    <2>2. /\ Live' = Live /\ Roots = regs /\ Roots' = regs \cup {entry[s].value}
          /\ UNCHANGED <<field, weak, entry>>
        BY <1>6, <2>1 DEF MapGet, Live, Roots
    <2>3. entry[s].owner = m /\ entry[s].key = k
        BY <1>6, <2>2 DEF MapGet, Found, IndInv, EntryInv, LiveInv
    <2>4. m # Null /\ k # Null BY NullAssumption DEF IndInv, TypeOK
    <2>5. Heap!MapGet(s)
        BY <2>1, <2>2, <2>3, <2>4 DEF Heap!MapGet, Heap!Hold, VisibleEntry
    <2> QED BY <2>5 DEF Heap!HNext
<1> QED BY <1>1, <1>2, <1>3, <1>4, <1>5, <1>6

\* A store in a weak map: the slot it takes was free for ManagedHeap too, also
\* when clearFreeableEntries has just freed it.
LEMMA MapSetRefines ==
    ASSUME IndInv, NEW s \in EntrySlots, NEW m \in regs, NEW k \in regs,
           NEW v \in regs \cup {Null}, MapSet(s, m, k, v)
    PROVE  Heap!HNext
<1>1. /\ Live' = Live /\ Roots = regs /\ Roots' = Roots /\ UNCHANGED <<field, weak>>
    BY DEF MapSet, Running, Live, Roots, genVars, progVars, markVars, mutVars, cycleVars
<1>2. m # Null /\ k # Null BY NullAssumption DEF IndInv, TypeOK
<1>3. \/ AbsEntry(s) = [owner |-> Null, key |-> Null, value |-> Null]
      \/ AbsEntry(s).owner = m /\ AbsEntry(s).key = k
    <2>1. CASE Found(s, m, k)
        BY <1>1, <1>2, <2>1 DEF Found, AbsEntry, VisibleEntry, IndInv, EntryInv, LiveInv
    <2>2. CASE entry[s].map = Null
        BY <2>2 DEF AbsEntry, IndInv, EntryInv
    <2>3. CASE s \in Freeable(m)
        BY <2>3 DEF AbsEntry, Freeable
    <2> QED BY <2>1, <2>2, <2>3 DEF MapSet
<1>4. ASSUME NEW t \in EntrySlots
      PROVE  AbsEntry(t)' = IF t = s THEN [owner |-> m, key |-> k, value |-> v]
                            ELSE AbsEntry(t)
    <2>1. entry[t] \in EntrySet /\ entry[s] \in EntrySet
        BY TypeParts DEF IndInv, EntryOK
    <2>2. CASE Found(s, m, k) /\ entry' = [entry EXCEPT ![s].value = v]
        <3>1. /\ t # s => entry'[t] = entry[t]
              /\ entry'[s].owner = entry[s].owner /\ entry'[s].key = entry[s].key
              /\ entry'[s].value = v
            BY <2>1, <2>2, TypeParts DEF EntrySet, EntryOK, IndInv
        <3>2. entry[s].owner = m /\ entry[s].key = k
            BY <1>1, <2>2 DEF Found, IndInv, EntryInv, LiveInv
        <3> QED BY <1>2, <3>1, <3>2 DEF AbsEntry, VisibleEntry
    <2>3. ASSUME NEW freed \in {{}, Freeable(m)},
                 entry' = [u \in EntrySlots |->
                     IF u = s THEN [map |-> m, owner |-> m, key |-> k, value |-> v]
                     ELSE IF u \in freed THEN FreeSlot ELSE entry[u]]
          PROVE  AbsEntry(t)' = IF t = s THEN [owner |-> m, key |-> k, value |-> v]
                                ELSE AbsEntry(t)
        BY <1>2, <2>3 DEF AbsEntry, VisibleEntry, Freeable, FreeSlot
    <2> QED BY <2>2, <2>3 DEF MapSet
<1>5. [t \in EntrySlots |-> AbsEntry(t)]' =
          [[t \in EntrySlots |-> AbsEntry(t)] EXCEPT
               ![s] = [owner |-> m, key |-> k, value |-> v]]
    BY <1>4
<1>6. Heap!MapSet(s, m, k, v)
    BY <1>1, <1>3, <1>5 DEF Heap!MapSet, Heap!NoEntry, AbsEntry
<1> QED BY <1>1, <1>6 DEF Heap!HNext

\* A deletion from a weak map is a MapDelete of ManagedHeap.
LEMMA MapDeleteRefines ==
    ASSUME IndInv, NEW s \in EntrySlots, NEW m \in regs, NEW k \in regs,
           MapDelete(s, m, k)
    PROVE  Heap!HNext
<1>1. /\ Live' = Live /\ Roots = regs /\ Roots' = Roots /\ UNCHANGED <<field, weak>>
      /\ entry' = [entry EXCEPT ![s] = FreeSlot]
    BY DEF MapDelete, Running, Live, Roots, genVars, progVars, markVars, mutVars,
           cycleVars
<1>2. m # Null /\ k # Null BY NullAssumption DEF IndInv, TypeOK
<1>3. entry[s].owner = m /\ entry[s].key = k
    BY <1>1 DEF MapDelete, Found, IndInv, EntryInv, LiveInv
<1>4. AbsEntry(s).owner \in Roots /\ AbsEntry(s).key \in Roots
    BY <1>1, <1>2, <1>3 DEF AbsEntry, VisibleEntry
<1>5. ASSUME NEW t \in EntrySlots
      PROVE  AbsEntry(t)' = IF t = s THEN [owner |-> Null, key |-> Null, value |-> Null]
                            ELSE AbsEntry(t)
    <2>1. entry'[t] = IF t = s THEN FreeSlot ELSE entry[t]
        BY <1>1, TypeParts DEF EntryOK, IndInv
    <2> QED BY <2>1 DEF AbsEntry, VisibleEntry, FreeSlot
<1>6. [t \in EntrySlots |-> AbsEntry(t)]' =
          [[t \in EntrySlots |-> AbsEntry(t)] EXCEPT
               ![s] = [owner |-> Null, key |-> Null, value |-> Null]]
    BY <1>5
<1>7. Heap!MapDelete(s)
    BY <1>1, <1>4, <1>6 DEF Heap!MapDelete, Heap!NoEntry, AbsEntry
<1> QED BY <1>7 DEF Heap!HNext

\* A collector's step that makes the cells dead disappear is a Reclaim, if what
\* is left is closed and holds the roots.
LEMMA ReclaimRefines ==
    ASSUME Live' \subseteq Live, Roots \subseteq Live', Roots' = Roots, field' = field,
           \A c \in Live' : \A f \in Fields : field[c][f] \in Live' \cup {Null},
           Null \notin Live,
           \A s \in EntrySlots :
              /\ AbsEntry(s)' =
                    IF AbsEntry(s).owner \in Live \ Live'
                         \/ AbsEntry(s).key \in Live \ Live'
                    THEN [owner |-> Null, key |-> Null, value |-> Null]
                    ELSE AbsEntry(s)
              /\ AbsEntry(s)'.value \in Live' \cup {Null}
              /\ AbsEntry(s).owner \in Live \cup {Null}
              /\ AbsEntry(s).key \in Live \cup {Null},
           weak' = [w \in WeakSlots |->
                      IF weak[w] \in Live \ Live' THEN Null ELSE weak[w]]
    PROVE  Heap!HNext
<1>a. PICK dead : dead = Live \ Live' OBVIOUS
<1> DEFINE aField == [c \in Live |-> field[c]]
<1> DEFINE aEntry == [s \in EntrySlots |-> AbsEntry(s)]
<1>1. Live' = Live \ dead /\ dead \in SUBSET Live BY <1>a
<1>2. ASSUME NEW s \in EntrySlots,
             AbsEntry(s).owner \in Live', AbsEntry(s).key \in Live'
      PROVE  AbsEntry(s).value \in Live' \cup {Null}
    BY <1>2
<1>3. Heap!Closed(Live')
    BY <1>2 DEF Heap!Closed, AbsEntry
<1>4. dead \cap Heap!Reachable = {}
    BY <1>1, <1>3, <1>a DEF Heap!Reachable
<1>5. aField' = [c \in Live \ dead |-> aField[c]]
    BY <1>1
<1>6. aEntry' = [s \in EntrySlots |->
                   IF aEntry[s].owner \in dead \/ aEntry[s].key \in dead
                   THEN [owner |-> Null, key |-> Null, value |-> Null]
                   ELSE aEntry[s]]
    BY <1>a
<1>7. \A c \in Live \ dead : \A f \in Fields : aField[c][f] \notin dead
    BY <1>1
<1>8. \A s \in EntrySlots : aEntry'[s].value \notin dead
    BY <1>1
<1>9. Heap!Reclaim(dead)
    BY <1>1, <1>4, <1>5, <1>6, <1>7, <1>8, <1>a
    DEF Heap!Reclaim, Heap!NoEntry, AbsEntry
<1> QED BY <1>1, <1>9 DEF Heap!HNext

\* The atomic disappearance that a YG collection amounts to.
LEMMA YoungGenRefines ==
    ASSUME IndInv, YoungGenCollection
    PROVE  Heap!HNext
<1> DEFINE dead == young \ Evacuated
<1>1. /\ Live' = Live \ dead /\ regs \subseteq Live'
      /\ \A c \in Live' : \A f \in Fields : field[c][f] \in Live' \cup {Null}
      /\ \A s \in EntrySlots : entry[s].value \in Live' \cup {Null}
    BY SurvivorsClosed DEF IndInv
<1>2. /\ Roots = regs /\ Roots' = regs /\ field' = field /\ dead \subseteq Live
      /\ weak' = [w \in WeakSlots |-> IF weak[w] \in dead THEN Null ELSE weak[w]]
    BY DEF YoungGenCollection, ClearWeak, Roots, Live, progVars, mutVars
<1>3. Null \notin Live BY NullAssumption DEF Live, IndInv, TypeOK
<1>4. dead = Live \ Live' BY <1>1, <1>2
<1>5. ASSUME NEW s \in EntrySlots
      PROVE  /\ AbsEntry(s)' =
                    IF AbsEntry(s).owner \in dead \/ AbsEntry(s).key \in dead
                    THEN [owner |-> Null, key |-> Null, value |-> Null]
                    ELSE AbsEntry(s)
             /\ AbsEntry(s)'.value \in Live' \cup {Null}
             /\ AbsEntry(s).owner \in Live \cup {Null}
             /\ AbsEntry(s).key \in Live \cup {Null}
    <2>1. /\ entry[s].owner \in Live \cup {Null}
          /\ entry[s].key \in Live \cup {Null}
          /\ entry[s].owner \in {entry[s].map, Null}
        BY DEF IndInv, EntryInv
    <2>2. \/ entry[s].map \in dead /\ entry'[s] = FreeSlot
          \/ /\ entry[s].map \notin dead
             /\ entry'[s].owner = ClearRoot(entry[s].owner, dead)
             /\ entry'[s].key = ClearRoot(entry[s].key, dead)
             /\ entry'[s].value = entry[s].value
        BY YoungEntries, TypeParts DEF IndInv
    <2> HIDE DEF dead
    <2> QED BY <1>1, <1>2, <1>3, <2>1, <2>2
            DEF AbsEntry, VisibleEntry, ClearRoot, FreeSlot
<1> HIDE DEF dead
<1> QED BY <1>1, <1>2, <1>3, <1>4, <1>5, ReclaimRefines

\* And the one at the end of completeMarking: what is unmarked is gone for the
\* program although it is swept later.
LEMMA FinishRefines ==
    ASSUME IndInv, FinishMarking
    PROVE  Heap!HNext
<1> DEFINE dead == old \ marked
<1>1. /\ Live' = young \cup marked /\ regs \subseteq Live'
      /\ \A c \in Live' : \A f \in Fields : field[c][f] \in Live' \cup {Null}
    BY MarkedClosed DEF IndInv
<1>2. /\ Roots = regs /\ Roots' = regs /\ field' = field /\ Live = Allocated
      /\ weak' = [w \in WeakSlots |-> IF weak[w] \in dead THEN Null ELSE weak[w]]
    BY DEF FinishMarking, MarkWeakRoots, ClearWeak, Roots, Live, Allocated, IndInv,
           ControlInv, progVars
<1>3. Null \notin Live BY NullAssumption DEF Live, IndInv, TypeOK
<1>4. dead = Live \ Live' /\ Live' = Live \ dead
    BY <1>1, <1>2 DEF Allocated, IndInv, SetInv
<1>5. ASSUME NEW s \in EntrySlots
      PROVE  /\ AbsEntry(s)' =
                    IF AbsEntry(s).owner \in dead \/ AbsEntry(s).key \in dead
                    THEN [owner |-> Null, key |-> Null, value |-> Null]
                    ELSE AbsEntry(s)
             /\ AbsEntry(s)'.value \in Live' \cup {Null}
             /\ AbsEntry(s).owner \in Live \cup {Null}
             /\ AbsEntry(s).key \in Live \cup {Null}
    <2>1. /\ entry[s].owner \in Live \cup {Null}
          /\ entry[s].key \in Live \cup {Null}
        BY DEF IndInv, EntryInv
    <2>2. /\ entry'[s].owner = ClearRoot(entry[s].owner, dead)
          /\ entry'[s].key = ClearRoot(entry[s].key, dead)
          /\ entry'[s].value = IF EntryLive(s) THEN entry[s].value ELSE Null
        BY FinishEntries, TypeParts DEF IndInv
    <2>3. EntryLive(s) <=> /\ entry[s].owner \in Live' /\ entry[s].key \in Live'
        BY <1>1, <1>3, <1>4 DEF EntryLive, IsMarked
    <2>4. entry'[s].value \in Live' \cup {Null}
        <3>1. EntryLive(s) => entry[s].value = Null \/ IsMarked(entry[s].value)
            BY DEF IndInv, SlotInv, FinishMarking, NewlyMarked
        <3> QED BY <1>1, <2>2, <3>1 DEF IsMarked
    <2> HIDE DEF dead
    <2> QED BY <1>3, <1>4, <2>1, <2>2, <2>3, <2>4
            DEF AbsEntry, VisibleEntry, ClearRoot
<1> HIDE DEF dead
<1> QED BY <1>1, <1>2, <1>3, <1>4, <1>5, ReclaimRefines

\* Sweeping is invisible: the program has lost those cells already.
LEMMA SweepStutters ==
    ASSUME IndInv, SweepNext
    PROVE  UNCHANGED Heap!hvars
<1>1. Live' = Live BY SweepKeepsLive DEF IndInv
<1>2. /\ phase = "Sweep" /\ UNCHANGED <<field, weak>> /\ Roots' = Roots
    BY DEF SweepNext, Roots, progVars, mutVars
<1>3. ASSUME NEW s \in EntrySlots PROVE AbsEntry(s)' = AbsEntry(s)
    <2>1. PICK dead \in SUBSET (old \ marked) :
             entry' = [t \in EntrySlots |->
                         IF entry[t].map \in dead THEN FreeSlot ELSE entry[t]]
        BY DEF SweepNext
    <2>2. CASE entry[s].map \in dead
        <3>1. entry[s].owner = Null
            BY <1>2, <2>2 DEF Live, IndInv, SetInv, EntryInv
        <3> QED BY <2>1, <2>2, <3>1 DEF AbsEntry, FreeSlot
    <2>3. CASE entry[s].map \notin dead
        BY <2>1, <2>3 DEF AbsEntry, VisibleEntry
    <2> QED BY <2>2, <2>3
<1> QED BY <1>1, <1>2, <1>3, Stutter

\* Every step maps to a step of ManagedHeap or to a stutter ...
LEMMA StepRefines ==
    ASSUME IndInv, [Next]_vars
    PROVE  [Heap!HNext]_(Heap!hvars)
<1>1. CASE UNCHANGED vars
    <2>1. /\ UNCHANGED <<young, old, field, weak, entry>>
          /\ Live' = Live /\ Roots' = Roots
        BY <1>1 DEF vars, Live, Roots, genVars, progVars, weakVars, markVars, mutVars,
                    cycleVars
    <2> QED BY <2>1, FrameStutter
<1>2. CASE Program
    BY <1>2, AllocRefines, StoreRefines, RootsRefine, MapSetRefines, MapDeleteRefines,
       MarkingStutters DEF Program
<1>3. CASE Collector
    BY <1>3, MarkingStutters, YoungGenRefines, FinishRefines, SweepStutters
    DEF Collector
<1> QED BY <1>1, <1>2, <1>3 DEF Next

\* ... and initial states to initial states.
LEMMA InitRefines == Init => Heap!HInit
<1> SUFFICES ASSUME Init PROVE Heap!HInit OBVIOUS
<1>1. IndInv BY InitInv
<1>2. Live = old /\ Roots = regs /\ Null \notin Live
    BY <1>1, NullAssumption DEF Init, Live, Roots, IndInv, TypeOK
<1>3. Live \in SUBSET Cells /\ Roots \in SUBSET Live
    BY <1>1, <1>2 DEF IndInv, TypeOK, LiveInv
<1>4. [c \in Live |-> field[c]] \in [Live -> [Fields -> Live \cup {Null}]]
    BY <1>1, <1>2, <1>3 DEF IndInv, TypeOK, LiveInv
<1>5. weak \in [WeakSlots -> Live \cup {Null}]
    BY <1>1 DEF IndInv, TypeOK, LiveInv
<1>6. ASSUME NEW s \in EntrySlots
      PROVE  AbsEntry(s) \in [owner : Live, key : Live, value : Live \cup {Null}]
                                 \cup {[owner |-> Null, key |-> Null, value |-> Null]}
    BY <1>1, <1>2 DEF IndInv, EntryInv, AbsEntry, VisibleEntry
<1>7. [s \in EntrySlots |-> AbsEntry(s)] \in
          [EntrySlots -> [owner : Live, key : Live, value : Live \cup {Null}]
                             \cup {[owner |-> Null, key |-> Null, value |-> Null]}]
    BY <1>6
<1> QED BY <1>3, <1>4, <1>5, <1>7 DEF Heap!HInit, Heap!NoEntry, AbsEntry

\* Concurrent marking, young generation collections and sweeping implement the
\* atomic heap of ManagedHeap, for every heap and every interleaving.
THEOREM Refinement == Spec => ImplementsManagedHeap
<1>1. Spec => Heap!HInit BY InitRefines DEF Spec
<1>2. IndInv /\ [Next]_vars => [Heap!HNext]_(Heap!hvars) BY StepRefines
<1>3. Spec => [][Heap!HNext]_(Heap!hvars)
    BY <1>2, Inductive, PTL DEF Spec
<1> QED BY <1>1, <1>3 DEF ImplementsManagedHeap, Heap!HSpec

==============================================================================
