------------------------------ MODULE HadesMark ------------------------------
(***************************************************************************)
(* Concurrent marking in Hades: the snapshot-at-the-beginning (SATB)       *)
(* barriers of the mutator against the field by field scan of the marker,  *)
(* the stop-the-world completion with weak references and weak map entries,*)
(* sweeping in steps, and young generation (YG) collections in between     *)
(* (lib/VM/gcs/HadesGC.cpp, include/hermes/VM/HadesGC.h).                  *)
(*                                                                         *)
(* A cell keeps its identity when it moves, so an evacuation is a change   *)
(* from the YG to the old generation (OG).  Compaction, sizes and free     *)
(* lists are left out.  A cell that is not allocated can be allocated      *)
(* again.  HadesThreads has the locking in detail; here gcMutex_ is        *)
(* reduced to bgMarking, the background thread being inside                *)
(* incrementalMark.                                                        *)
(***************************************************************************)
EXTENDS Integers, FiniteSets

CONSTANTS
    Cells, Fields, WeakSlots, EntrySlots, Null,
    Heaps,              \* the heaps the mutator may have built at the start
    kBarrierChunkSize, kMaxBarrierChunks,
    MaxSegments,        \* bound: segments to sweep
    MaxMutations        \* bound: steps of the program

Pointer  == Cells \cup {Null}
FreeSlot == [map |-> Null, owner |-> Null, key |-> Null, value |-> Null]

\* A heap h as the mutator can have built it: cells h.old of the OG, their
\* fields, the registers, weak references and weak map entries.
WellFormed(h) ==
    /\ h.old \in SUBSET Cells /\ h.regs \in SUBSET h.old
    /\ h.field \in [Cells -> [Fields -> Pointer]]
    /\ \A c \in h.old : \A f \in Fields : h.field[c][f] \in h.old \cup {Null}
    /\ h.weak \in [WeakSlots -> h.old \cup {Null}]
    /\ h.entry \in [EntrySlots ->
                      [map : h.old, owner : h.old, key : h.old,
                       value : h.old \cup {Null}] \cup {FreeSlot}]
    /\ \A s \in EntrySlots : h.entry[s].map = h.entry[s].owner

ASSUME NullAssumption == Null \notin Cells
ASSUME HeapsAssumption == \A h \in Heaps : WellFormed(h)
ASSUME ChunkAssumption ==
    kBarrierChunkSize \in Nat \ {0} /\ kMaxBarrierChunks \in Nat \ {0}
ASSUME BoundAssumption == MaxSegments \in Nat /\ MaxMutations \in Nat

VARIABLES
    young, old,           \* allocated cells of the two generations
    field,                \* field[c][f]
    regs,                 \* roots: cells in registers and handles
    weak,                 \* WeakRefSlot's: target or Null
    entry,                \* WeakMapEntrySlot's; map: the set_ that holds it
    promoteYGToOG,
    phase, segNumber,     \* concurrentPhase_, sweepIterator_.segNumber
    marked,               \* mark bits of the OG; those of the YG are all set
    localWorklist,
    pushChunk, barrierChunkIndex,         \* cells and length of the push chunk
    barrierWorklist, barrierWorklistSize, \* cells and length of the worklist
    bgMarking, scanCell, todo,  \* the marker, its cell, the fields left of it
    pcM, draining,        \* the mutator; draining: it waits to drain a full list
    pendCell, pendField, pendValue,       \* its pending store or load
    slotsLeft,            \* weak map entries left in this pass
    doomed,               \* history: garbage of the snapshot, not reclaimed yet
    mutations

genVars     == <<young, old, promoteYGToOG>>
progVars    == <<field, regs>>
weakVars    == <<weak, entry>>
barrierVars == <<pushChunk, barrierChunkIndex, barrierWorklist,
                 barrierWorklistSize>>
markVars    == <<marked, localWorklist>>
scanVars    == <<bgMarking, scanCell, todo>>
mutVars     == <<pcM, draining, pendCell, pendField, pendValue>>
cycleVars   == <<phase, segNumber, slotsLeft, doomed>>
vars == <<genVars, progVars, weakVars, barrierVars, markVars, scanVars, mutVars,
          cycleVars, mutations>>

kMaxBarrierWorklistSize == kMaxBarrierChunks * kBarrierChunkSize

Allocated == young \cup old

\* getCellMarkBit: the YG segment has all its mark bits set.
IsMarked(c) == c \in marked \/ c \in young

\* ogMarkingBarriers_, as far as the mutator sees it.
ogMarkingBarriers == phase \in {"Mark", "CompleteMarking"}

\* What the program holds: its registers and a value it has just loaded.
Roots == regs \cup (IF pcM = "load" THEN {pendValue} ELSE {})

\* The cells that the program may still use.  Once marking is complete, an
\* unmarked cell of the OG is dead although it is not swept yet.
Live == young \cup (IF phase = "Sweep" THEN old \cap marked ELSE old)

\* T is closed under fields and under weak map entries with owner and key in T.
Closed(T) ==
    /\ \A c \in T : \A f \in Fields : field[c][f] \in T \cup {Null}
    /\ \A s \in EntrySlots :
           entry[s].owner \in T /\ entry[s].key \in T
               => entry[s].value \in T \cup {Null}

\* The smallest closed set that contains S: what is reachable from S.
Closure(S) ==
    {c \in Cells : \A T \in SUBSET Cells : S \subseteq T /\ Closed(T) => c \in T}

Reachable == Closure(Roots)

------------------------------------------------------------------------------
(* Barriers.                                                                *)

PushChunkFull == barrierChunkIndex = kBarrierChunkSize

\* The insertion of a full push chunk in handleFullBarrierChunk.
Flush == /\ barrierWorklist' = barrierWorklist \cup pushChunk
         /\ barrierWorklistSize' = barrierWorklistSize + kBarrierChunkSize

\* barrierEnqueue(cell), whose push chunk may be full.  draining' tells whether
\* the worklist reached its limit: the mutator then waits for gcMutex_, drains
\* it and enqueues the cell afterwards.
BarrierEnqueue(cell) ==
    IF PushChunkFull
    THEN /\ Flush
         /\ draining' = (barrierWorklistSize' >= kMaxBarrierWorklistSize)
         /\ pushChunk' = IF draining' THEN {} ELSE {cell}
         /\ barrierChunkIndex' = IF draining' THEN 0 ELSE 1
    ELSE /\ pushChunk' = pushChunk \cup {cell}
         /\ barrierChunkIndex' = barrierChunkIndex + 1
         /\ draining' = FALSE
         /\ UNCHANGED <<barrierWorklist, barrierWorklistSize>>

\* Mutated form: the snapshot barrier ignores its argument.
SnapshotBarrier_Off(value) == UNCHANGED <<barrierVars, draining>>

\* snapshotWriteBarrierInternal(value), called if ogMarkingBarriers_ is set.
SnapshotBarrier(value) ==
    IF ogMarkingBarriers /\ value # Null /\ value \notin young
    THEN BarrierEnqueue(value)
    ELSE UNCHANGED <<barrierVars, draining>>

\* The start of incrementalMark: drain barrierWorklist_ and push what is not
\* marked yet.
DrainBarrierWorklist(cells) ==
    /\ localWorklist' = localWorklist \cup (cells \ marked)
    /\ marked' = marked \cup cells
    /\ barrierWorklist' = {} /\ barrierWorklistSize' = 0

------------------------------------------------------------------------------
(* The program.                                                             *)

Running == pcM = "run" /\ mutations < MaxMutations

\* The operation is over and its locals are gone.
OpDone == /\ pcM' = "run"
          /\ pendCell' = Null /\ pendField' = Null /\ pendValue' = Null

\* A store in a YG cell needs no barrier.  In the OG, writeBarrier comes first
\* and the store is a step of its own, which the marker may run ahead of.
WriteBarrier(c, f, v) ==
    /\ Running /\ mutations' = mutations + 1
    /\ c \in regs /\ v \in regs \cup {Null}
    /\ IF c \in young
       THEN /\ field' = [field EXCEPT ![c][f] = v]
            /\ UNCHANGED <<barrierVars, mutVars>>
       ELSE /\ SnapshotBarrier(field[c][f])
            /\ pcM' = "store"
            /\ pendCell' = c /\ pendField' = f /\ pendValue' = v
            /\ UNCHANGED field
    /\ UNCHANGED <<genVars, regs, weakVars, markVars, scanVars, cycleVars>>

Store ==
    /\ pcM = "store" /\ ~draining
    /\ field' = [field EXCEPT ![pendCell][pendField] = pendValue]
    /\ OpDone
    /\ UNCHANGED <<genVars, regs, weakVars, barrierVars, markVars, scanVars,
                   draining, cycleVars, mutations>>

\* The rest of handleFullBarrierChunk: ensureBackgroundTaskPaused(), then
\* incrementalMark(0), then the cell is enqueued in the empty chunk.
DrainFullBarrierChunk ==
    /\ draining /\ ~bgMarking
    /\ DrainBarrierWorklist(barrierWorklist)
    /\ pushChunk' = {IF pcM = "store" THEN field[pendCell][pendField]
                     ELSE pendValue}
    /\ barrierChunkIndex' = 1
    /\ draining' = FALSE
    /\ UNCHANGED <<genVars, progVars, weakVars, scanVars, pcM, pendCell, pendField,
                   pendValue, cycleVars, mutations>>

\* A load from the heap has no barrier.
Read(c, f) ==
    /\ Running /\ mutations' = mutations + 1
    /\ c \in regs /\ field[c][f] # Null
    /\ regs' = regs \cup {field[c][f]}
    /\ UNCHANGED <<genVars, field, weakVars, barrierVars, markVars, scanVars,
                   mutVars, cycleVars>>

\* Neither has a write to a register.
Drop(c) ==
    /\ Running /\ mutations' = mutations + 1
    /\ c \in regs /\ regs' = regs \ {c}
    /\ UNCHANGED <<genVars, field, weakVars, barrierVars, markVars, scanVars,
                   mutVars, cycleVars>>

\* A new cell, its fields set by constructors, which have no snapshot barrier.
NewCell(c, init) ==
    /\ Running /\ mutations' = mutations + 1
    /\ c \in Cells \ Allocated
    /\ field' = [field EXCEPT ![c] = init]
    /\ regs' = regs \cup {c}

\* The bump allocation of makeAImpl in the YG.
AllocYoung(c, init) ==
    /\ NewCell(c, init)
    /\ young' = young \cup {c}
    /\ UNCHANGED <<old, promoteYGToOG, weakVars, barrierVars, markVars, scanVars,
                   mutVars, cycleVars>>

\* OldGen::finishAlloc sets the mark bit.
FinishAlloc(c) == marked' = marked \cup {c}

\* allocLongLived, and allocLarge: straight into the OG, with gcMutex_ held.
AllocLongLived(c, init) ==
    /\ ~bgMarking
    /\ NewCell(c, init)
    /\ old' = old \cup {c}
    /\ FinishAlloc(c)
    /\ UNCHANGED <<young, promoteYGToOG, weakVars, barrierVars, localWorklist,
                   scanVars, mutVars, cycleVars>>

------------------------------------------------------------------------------
(* Weak references and weak maps.                                           *)

\* allocWeakSlot: a new weak reference to c.
MakeWeak(w, c) ==
    /\ Running /\ mutations' = mutations + 1
    /\ c \in regs /\ weak[w] = Null
    /\ weak' = [weak EXCEPT ![w] = c]
    /\ UNCHANGED <<genVars, progVars, entry, barrierVars, markVars, scanVars,
                   mutVars, cycleVars>>

\* weakRefReadBarrier(v), then v is loaded.
LoadWeak(v) ==
    /\ v # Null
    /\ SnapshotBarrier(v)
    /\ pcM' = "load" /\ pendValue' = v
    /\ UNCHANGED <<pendCell, pendField>>

\* WeakRefSlot::getValue.  The target, and all that is reachable from it, is no
\* longer garbage of the snapshot.
Deref(w) ==
    /\ Running /\ mutations' = mutations + 1
    /\ LoadWeak(weak[w])
    /\ doomed' = doomed \ Closure((Allocated \ doomed) \cup {weak[w]})
    /\ UNCHANGED <<genVars, progVars, weakVars, markVars, scanVars, phase,
                   segNumber, slotsLeft>>

Load ==
    /\ pcM = "load" /\ ~draining
    /\ regs' = regs \cup {pendValue}
    /\ OpDone
    /\ UNCHANGED <<genVars, field, weakVars, barrierVars, markVars, scanVars,
                   draining, cycleVars, mutations>>

\* The entry of map m with key k.
Found(s, m, k) == entry[s].map = m /\ entry[s].key = k

\* clearFreeableEntries: the slots of m whose key died are freed.
Freeable(m) == {s \in EntrySlots : entry[s].map = m /\ entry[s].key = Null}

\* JSWeakMapImplBase::setValue.  The value is stored without a barrier.  A new
\* entry may first clear the freeable ones (targetSize_ reached).
MapSet(s, m, k, v) ==
    /\ Running /\ mutations' = mutations + 1
    /\ m \in regs /\ k \in regs /\ v \in regs \cup {Null}
    /\ \/ /\ Found(s, m, k)
          /\ entry' = [entry EXCEPT ![s].value = v]
       \/ /\ \A t \in EntrySlots : ~Found(t, m, k)
          /\ \E freed \in {{}, Freeable(m)} :
               /\ entry[s].map = Null \/ s \in freed
               /\ entry' = [t \in EntrySlots |->
                     IF t = s THEN [map |-> m, owner |-> m, key |-> k, value |-> v]
                     ELSE IF t \in freed THEN FreeSlot ELSE entry[t]]
    /\ UNCHANGED <<genVars, progVars, weak, barrierVars, markVars, scanVars,
                   mutVars, cycleVars>>

\* Mutated form: getMappedValue has no read barrier.
LoadMapped_NoBarrier(v) ==
    /\ v # Null
    /\ pcM' = "load" /\ pendValue' = v
    /\ UNCHANGED <<barrierVars, draining, pendCell, pendField>>
LoadMapped(v) == LoadWeak(v)

\* JSWeakMapImplBase::getValue, through WeakRefKey::getMappedValue.
MapGet(s, m, k) ==
    /\ Running /\ mutations' = mutations + 1
    /\ m \in regs /\ k \in regs /\ Found(s, m, k)
    /\ LoadMapped(entry[s].value)
    /\ UNCHANGED <<genVars, progVars, weakVars, markVars, scanVars, cycleVars>>

\* JSWeakMapImplBase::deleteValue.
MapDelete(s, m, k) ==
    /\ Running /\ mutations' = mutations + 1
    /\ m \in regs /\ k \in regs /\ Found(s, m, k)
    /\ entry' = [entry EXCEPT ![s] = FreeSlot]
    /\ UNCHANGED <<genVars, progVars, weak, barrierVars, markVars, scanVars,
                   mutVars, cycleVars>>

Program ==
    \/ \E c \in regs : \E f \in Fields :
           Read(c, f) \/ \E v \in regs \cup {Null} : WriteBarrier(c, f, v)
    \/ \E c \in regs : Drop(c) \/ \E w \in WeakSlots : MakeWeak(w, c)
    \/ \E c \in Cells : \E init \in [Fields -> regs \cup {Null}] :
           AllocYoung(c, init) \/ AllocLongLived(c, init)
    \/ \E w \in WeakSlots : Deref(w)
    \/ \E s \in EntrySlots : \E m, k \in regs :
           \/ MapGet(s, m, k) \/ MapDelete(s, m, k)
           \/ \E v \in regs \cup {Null} : MapSet(s, m, k, v)
    \/ Store \/ Load \/ DrainFullBarrierChunk

------------------------------------------------------------------------------
(* Young generation collections.  pcM = "run" and ~bgMarking: the mutator   *)
(* has called into the collector and holds gcMutex_.                        *)

\* The cells of the OG whose dirty cards are scanned: while sweeping, unmarked
\* ones are dead and may point to cells that are gone.
Scanned == IF phase = "Sweep" THEN old \cap marked ELSE old

\* The roots of a YG collection; the values of weak map entries are among them.
YoungRoots ==
    regs \cup {entry[s].value : s \in EntrySlots}
         \cup {field[p[1]][p[2]] : p \in Scanned \X Fields}

\* Evacuation copies what is reachable from the roots inside the YG.
ClosedInYoung(T) ==
    \A d \in T : \A f \in Fields : field[d][f] \in young => field[d][f] \in T

Evacuated ==
    {c \in young : \A T \in SUBSET young :
        YoungRoots \cap young \subseteq T /\ ClosedInYoung(T) => c \in T}

\* Weak references to, and entries keyed or owned by, the cells dead are
\* cleared; finalizers of weak maps in gone free the slots of their entries.
ClearWeak(dead) ==
    weak' = [w \in WeakSlots |-> IF weak[w] \in dead THEN Null ELSE weak[w]]
ClearRoot(p, dead) == IF p \in dead THEN Null ELSE p

YoungGenCollection ==
    /\ pcM = "run" /\ ~bgMarking
    /\ LET dead == young \ Evacuated IN
         /\ old' = old \cup Evacuated
         /\ marked' = marked \cup Evacuated
         /\ ClearWeak(dead)
         /\ entry' = [s \in EntrySlots |->
                IF entry[s].map \in dead THEN FreeSlot
                ELSE [entry[s] EXCEPT !.owner = ClearRoot(@, dead),
                                      !.key = ClearRoot(@, dead)]]
    /\ young' = {}
    /\ promoteYGToOG' = FALSE
    /\ UNCHANGED <<progVars, barrierVars, localWorklist, scanVars, mutVars,
                   cycleVars, mutations>>

\* promoteYoungGenToOldGen: the segment moves as it is, mark bits all set.
PromoteYoungGen ==
    /\ pcM = "run" /\ ~bgMarking /\ promoteYGToOG
    /\ old' = old \cup young /\ marked' = marked \cup young /\ young' = {}
    /\ UNCHANGED <<promoteYGToOG, progVars, weakVars, barrierVars, localWorklist,
                   scanVars, mutVars, cycleVars, mutations>>

------------------------------------------------------------------------------
(* Old generation collections.                                              *)

\* oldGenCollection, called at the end of a YG collection (the YG is empty):
\* mark bits are cleared, the roots marked, barriers switched on.
OldGenCollection ==
    /\ pcM = "run" /\ ~bgMarking /\ phase = "None" /\ young = {}
    /\ marked' = regs /\ localWorklist' = regs
    /\ pushChunk' = {} /\ barrierChunkIndex' = 0
    /\ barrierWorklist' = {} /\ barrierWorklistSize' = 0
    /\ phase' = "Mark"
    /\ segNumber' \in 0 .. MaxSegments
    /\ promoteYGToOG' = FALSE
    /\ doomed' = old \ Reachable
    /\ UNCHANGED <<young, old, progVars, weakVars, scanVars, mutVars, slotsLeft,
                   mutations>>

\* incrementalMark begins: gcMutex_ is held and barrierWorklist_ drained.
MarkBegin ==
    /\ phase = "Mark" /\ ~bgMarking /\ bgMarking' = TRUE
    /\ DrainBarrierWorklist(barrierWorklist)
    /\ UNCHANGED <<genVars, progVars, weakVars, pushChunk, barrierChunkIndex,
                   scanCell, todo, mutVars, cycleVars, mutations>>

\* A cell is popped ...
MarkPop(c) ==
    /\ bgMarking /\ todo = {} /\ c \in localWorklist
    /\ localWorklist' = localWorklist \ {c}
    /\ scanCell' = c /\ todo' = Fields
    /\ UNCHANGED <<genVars, progVars, weakVars, barrierVars, marked, bgMarking,
                   mutVars, cycleVars, mutations>>

\* Cells that MarkAcceptor finds in a set of pointers and pushes.
Unmarked(ps) == {v \in ps : v # Null /\ ~IsMarked(v)}

Push(new) == /\ marked' = marked \cup new
             /\ localWorklist' = localWorklist \cup new

\* ... and its fields are read one at a time, while the mutator stores.
MarkField(f) ==
    /\ bgMarking /\ f \in todo /\ todo' = todo \ {f}
    /\ Push(Unmarked({field[scanCell][f]}))
    /\ scanCell' = IF todo' = {} THEN Null ELSE scanCell
    /\ UNCHANGED <<genVars, progVars, weakVars, barrierVars, bgMarking, mutVars,
                   cycleVars, mutations>>

\* incrementalMark returns after any number of cells (markLimit); an empty
\* local worklist ends the phase, whatever the barriers have enqueued since.
MarkEnd ==
    /\ bgMarking /\ todo = {} /\ bgMarking' = FALSE
    /\ phase' = IF localWorklist = {} THEN "CompleteMarking" ELSE phase
    /\ UNCHANGED <<genVars, progVars, weakVars, barrierVars, markVars, scanCell,
                   todo, mutVars, segNumber, slotsLeft, doomed, mutations>>

\* completeMarking begins: barriers off, the pending chunk is flushed and
\* drained.
Pending == barrierWorklist \cup pushChunk

CompleteMarking ==
    /\ pcM = "run" /\ ~bgMarking /\ phase = "CompleteMarking"
    /\ DrainBarrierWorklist(Pending)
    /\ pushChunk' = {} /\ barrierChunkIndex' = 0
    /\ pcM' = "mark"
    /\ UNCHANGED <<genVars, progVars, weakVars, scanVars, draining, pendCell,
                   pendField, pendValue, cycleVars, mutations>>

\* incrementalMark(max) with the world stopped.
MarkCell(c) ==
    /\ pcM = "mark" /\ c \in localWorklist
    /\ LET new == Unmarked({field[c][f] : f \in Fields}) IN
         /\ marked' = marked \cup new
         /\ localWorklist' = (localWorklist \ {c}) \cup new
    /\ UNCHANGED <<genVars, progVars, weakVars, barrierVars, scanVars, mutVars,
                   cycleVars, mutations>>

\* markWeakMapEntrySlots: a pass over all slots ...
BeginPass ==
    /\ pcM = "mark" /\ localWorklist = {}
    /\ pcM' = "slots" /\ slotsLeft' = EntrySlots
    /\ UNCHANGED <<genVars, progVars, weakVars, barrierVars, markVars, scanVars,
                   draining, pendCell, pendField, pendValue, phase, segNumber,
                   doomed, mutations>>

\* ... marks the value of an entry whose map and key are marked.  Mutated form:
\* the owner is not looked at.
EntryLive_IgnoresOwner(s) ==
    entry[s].owner # Null /\ entry[s].key # Null /\ IsMarked(entry[s].key)
EntryLive(s) ==
    /\ entry[s].owner # Null /\ IsMarked(entry[s].owner)
    /\ entry[s].key # Null /\ IsMarked(entry[s].key)

VisitSlot(s) ==
    /\ pcM = "slots" /\ s \in slotsLeft /\ slotsLeft' = slotsLeft \ {s}
    /\ Push(IF EntryLive(s) THEN Unmarked({entry[s].value}) ELSE {})
    /\ UNCHANGED <<genVars, progVars, weakVars, barrierVars, scanVars, mutVars,
                   phase, segNumber, doomed, mutations>>

\* If the pass marked a value, that is drained and another pass follows.
\* Mutated form: one pass only.
NewlyMarked_OnePass == FALSE
NewlyMarked == localWorklist # {}

NextPass ==
    /\ pcM = "slots" /\ slotsLeft = {} /\ NewlyMarked
    /\ pcM' = "mark"
    /\ UNCHANGED <<genVars, progVars, weakVars, barrierVars, markVars, scanVars,
                   draining, pendCell, pendField, pendValue, cycleVars, mutations>>

\* The end of completeMarking: the values of dead entries become empty, weak
\* roots to unmarked cells are cleared, and sweeping begins.  Mutated form: weak
\* references are not cleared.
MarkWeakRoots_Skipped(dead) == UNCHANGED weak
MarkWeakRoots(dead) == ClearWeak(dead)

FinishMarking ==
    /\ pcM = "slots" /\ slotsLeft = {} /\ ~NewlyMarked
    /\ LET dead == old \ marked IN
         /\ MarkWeakRoots(dead)
         /\ entry' = [s \in EntrySlots |->
                [entry[s] EXCEPT !.value = IF EntryLive(s) THEN @ ELSE Null,
                                 !.owner = ClearRoot(@, dead),
                                 !.key = ClearRoot(@, dead)]]
    /\ pcM' = "run" /\ phase' = "Sweep" /\ localWorklist' = {}
    /\ UNCHANGED <<genVars, progVars, barrierVars, marked, scanVars, draining,
                   pendCell, pendField, pendValue, segNumber, slotsLeft, doomed,
                   mutations>>

\* sweepNext: the unmarked cells of one segment are finalized and freed; which
\* ones lie in it is left open.  The last call also frees what is left (dead
\* cells in jumbo segments) and ends the collection.
SweepNext ==
    /\ phase = "Sweep"
    /\ \E dead \in SUBSET (old \ marked) :
         /\ segNumber <= 1 => dead = old \ marked
         /\ old' = old \ dead /\ doomed' = doomed \ dead
         /\ entry' = [s \in EntrySlots |->
                        IF entry[s].map \in dead THEN FreeSlot ELSE entry[s]]
    /\ IF segNumber <= 1
       THEN phase' = "None" /\ segNumber' = 0
       ELSE segNumber' = segNumber - 1 /\ UNCHANGED phase
    /\ UNCHANGED <<young, promoteYGToOG, progVars, weak, barrierVars, markVars,
                   scanVars, mutVars, slotsLeft, mutations>>

Collector ==
    \/ YoungGenCollection \/ PromoteYoungGen \/ OldGenCollection
    \/ MarkBegin \/ MarkEnd
    \/ \E c \in Cells : MarkPop(c) \/ MarkCell(c)
    \/ \E f \in Fields : MarkField(f)
    \/ CompleteMarking \/ BeginPass \/ NextPass \/ FinishMarking
    \/ \E s \in EntrySlots : VisitSlot(s)
    \/ SweepNext

------------------------------------------------------------------------------
Init ==
    /\ \E h \in Heaps : /\ old = h.old /\ field = h.field /\ regs = h.regs
                        /\ weak = h.weak /\ entry = h.entry
    /\ young = {} /\ marked = old /\ promoteYGToOG \in BOOLEAN
    /\ phase = "None" /\ segNumber = 0
    /\ localWorklist = {}
    /\ pushChunk = {} /\ barrierChunkIndex = 0
    /\ barrierWorklist = {} /\ barrierWorklistSize = 0
    /\ bgMarking = FALSE /\ scanCell = Null /\ todo = {}
    /\ pcM = "run" /\ draining = FALSE
    /\ pendCell = Null /\ pendField = Null /\ pendValue = Null
    /\ slotsLeft = {} /\ doomed = {} /\ mutations = 0

Next == Program \/ Collector

Spec == Init /\ [][Next]_vars

------------------------------------------------------------------------------
(* Properties.                                                              *)

TypeOK ==
    /\ young \subseteq Cells /\ old \subseteq Cells
    /\ field \in [Cells -> [Fields -> Pointer]]
    /\ regs \subseteq Cells
    /\ weak \in [WeakSlots -> Pointer]
    /\ entry \in [EntrySlots -> [map : Pointer, owner : Pointer, key : Pointer,
                                 value : Pointer]]
    /\ promoteYGToOG \in BOOLEAN
    /\ phase \in {"None", "Mark", "CompleteMarking", "Sweep"}
    /\ segNumber \in 0 .. MaxSegments
    /\ marked \subseteq Cells /\ localWorklist \subseteq Cells
    /\ pushChunk \subseteq Cells /\ barrierChunkIndex \in 0 .. kBarrierChunkSize
    /\ barrierWorklist \subseteq Cells /\ barrierWorklistSize \in Nat
    /\ bgMarking \in BOOLEAN /\ scanCell \in Pointer /\ todo \subseteq Fields
    /\ pcM \in {"run", "store", "load", "mark", "slots"} /\ draining \in BOOLEAN
    /\ pendCell \in Pointer /\ pendField \in Fields \cup {Null}
    /\ pendValue \in Pointer
    /\ slotsLeft \subseteq EntrySlots /\ doomed \subseteq Cells
    /\ mutations \in 0 .. MaxMutations

\* No cell that the program can reach, through fields or weak map entries, is
\* ever freed, or condemned to be swept: whatever the mutator overwrites,
\* loads, allocates or drops while the marker is half way through a cell.
ReachableKept == Reachable \subseteq Live

\* No weak reference or weak map entry ever refers to a cell that is freed or
\* about to be swept, so a read through it never revives a dead cell.
WeakTargetsKept ==
    /\ \A w \in WeakSlots : weak[w] \in Live \cup {Null}
    /\ \A s \in EntrySlots :
           {entry[s].owner, entry[s].key, entry[s].value} \subseteq Live \cup {Null}

\* The assertions of incrementalMark and MarkAcceptor::push: worklists hold only
\* cells of the OG, and every cell on the local worklist is marked.
WorklistsOld ==
    /\ pushChunk \cup barrierWorklist \cup localWorklist \subseteq old
    /\ localWorklist \subseteq marked
    /\ todo # {} => scanCell \in old \cap marked

\* A collection is precise with respect to its snapshot: a cell that is
\* unreachable when it starts, and that no weak reference brings back, is
\* reclaimed by the time it ends ("the WeakRoot to the owner is needed to
\* correctly collect cycles").
GarbageReclaimed == phase = "None" => doomed = {}

\* The heap as the program sees it, and the claim that it is a ManagedHeap.
VisibleEntry(s) ==
    [owner |-> entry[s].owner, key |-> entry[s].key, value |-> entry[s].value]

Heap == INSTANCE ManagedHeap WITH
    live  <- Live,
    field <- [c \in Live |-> field[c]],
    roots <- Roots,
    entry <- [s \in EntrySlots |->
                IF entry[s].owner = Null \/ entry[s].key = Null
                THEN [owner |-> Null, key |-> Null, value |-> Null]
                ELSE VisibleEntry(s)]

\* Marking, young collections and sweeping, in all their steps, look to the
\* program like the atomic disappearance of unreachable cells together with the
\* weak references to them.
ImplementsManagedHeap == Heap!HSpec
==============================================================================
