------------------------------ MODULE HadesEvac ------------------------------
(***************************************************************************)
(* Moving collections in Hades: a young generation (YG) collection         *)
(* evacuates the live cells of the YG, and those of the compactee segment  *)
(* when a compaction is due, into the old generation (OG).  It finds the   *)
(* pointers to them in the roots, on the dirty cards and in what it has    *)
(* copied (lib/VM/gcs/HadesGC.cpp).  An OG collection marks and sweeps     *)
(* meanwhile, and when the heap is full an allocation made by the          *)
(* evacuation completes that OG collection on the spot.                    *)
(*                                                                         *)
(* Cells have one size and one pointer field; a cell never straddles two   *)
(* cards.  HadesMark has the marker's barriers and its races in detail:    *)
(* here a cell is marked when it is enqueued.                              *)
(***************************************************************************)
EXTENDS Integers, Sequences, FiniteSets

CONSTANTS
    SegIds,          \* segments the heap limit has room for
    SegmentSize,     \* cells in a segment
    CardSize,        \* cells on a card
    NumRoots,
    Null,
    Heaps,           \* the heaps a program can have built at the start
    MaxMutations     \* bound: steps of the program

NoSegment == 0

ASSUME SegmentAssumption ==
    /\ SegIds \subseteq Nat \ {NoSegment} /\ IsFiniteSet(SegIds)
    /\ SegmentSize \in Nat \ {0} /\ CardSize \in Nat \ {0}
ASSUME BoundAssumption == NumRoots \in Nat /\ MaxMutations \in Nat

Addr   == SegIds \X (1 .. SegmentSize)
Roots  == 1 .. NumRoots
CardOf(a) == <<a[1], (a[2] - 1) \div CardSize>>

ASSUME NullAssumption == Null \notin Addr

Pointer == Addr \cup {Null}

\* A heap at the start: a YG, the segments of the OG, and cells in them that lead
\* to cells.  No card is dirty yet, so no cell of the OG leads into the YG.  Marking
\* may have begun, and its worklist has what was in the roots then: the program
\* has loads and allocations behind it, so its roots may lead to what the marker
\* comes to next.
Snapshotted(h, p) ==
    \/ p = Null \/ p[1] = h.youngGen
    \/ p \in h.worklist \/ \E a \in h.worklist : p = h.field[a]
MarkingHeap(h) ==
    /\ h.worklist \subseteq h.allocated
    /\ \A a \in h.worklist : a[1] # h.youngGen
    /\ \A r \in Roots : Snapshotted(h, h.roots[r])
    /\ \A a \in h.allocated : a[1] = h.youngGen => Snapshotted(h, h.field[a])
WellFormedHeap(h) ==
    /\ h.youngGen \in SegIds /\ h.segments \in Seq(SegIds)
    /\ \A i, j \in 1 .. Len(h.segments) : h.segments[i] = h.segments[j] => i = j
    /\ \A i \in 1 .. Len(h.segments) : h.segments[i] # h.youngGen
    /\ h.allocated \subseteq Addr
    /\ h.field \in [Addr -> Pointer] /\ h.roots \in [Roots -> Pointer]
    /\ \A a \in h.allocated :
          /\ \/ a[1] = h.youngGen
             \/ \E i \in 1 .. Len(h.segments) : a[1] = h.segments[i]
          /\ h.field[a] \in h.allocated \cup {Null}
          /\ a[1] # h.youngGen /\ h.field[a] # Null
                => h.field[a][1] # h.youngGen
    /\ \A r \in Roots : h.roots[r] \in h.allocated \cup {Null}
    /\ \/ h.phase = "None" /\ h.worklist = {}
       \/ h.phase = "Mark" /\ MarkingHeap(h)
ASSUME HeapsAssumption == \A h \in Heaps : WellFormedHeap(h)

VARIABLES
    youngGen,        \* the segment of the YG
    segments,        \* OldGen::segments_, in their order
    compactee,       \* compactee_.segment, or NoSegment
    allocated,       \* cells that are neither free nor beyond a level
    field,           \* the pointer in each cell
    roots, weakRoot,
    promoteYGToOG,
    marked,          \* mark bits of the OG; those of the YG are all set
    worklist,        \* marked cells whose fields the marker has to visit
    dirty,           \* dirty cards
    phase,           \* concurrentPhase_
    segNumber,       \* sweepIterator_.segNumber
    pc,              \* where the mutator is
    doCompaction, visitUnmarked,
    segEnd,          \* segments there were when scanDirtyCards began
    seg, pos,        \* the segment scanned; the root or cell visited
    waited,          \* the allocation under way has waited for the collection
    forwarding,      \* forwarding pointers left in evacuated cells
    copyList,        \* the copy list, first cell first
    mutations

heapVars  == <<youngGen, segments, compactee>>
cellVars  == <<allocated, field, marked, forwarding>>
progVars  == <<roots, weakRoot, mutations>>
cycleVars == <<phase, segNumber, worklist>>
evacVars  == <<doCompaction, visitUnmarked, segEnd, seg, pos, copyList, waited>>
vars == <<heapVars, cellVars, progVars, cycleVars, evacVars, dirty, pc,
          promoteYGToOG>>

Phase  == {"None", "Mark", "CompleteMarking", "Sweep"}
Points == {"mutator", "roots", "cards", "compactee", "copy", "yield", "start",
           "oom"}

------------------------------------------------------------------------------
(* Segments and cells.                                                      *)

InYoungGen(p)  == p # Null /\ p[1] = youngGen
InCompactee(p) == p # Null /\ p[1] = compactee
InOldGen(p)    == p # Null /\ p[1] # youngGen
OldSegments    == {segments[i] : i \in 1 .. Len(segments)}
CellsOf(s)     == {s} \X (1 .. SegmentSize)
Free           == (UNION {CellsOf(s) : s \in OldSegments}) \ allocated
Unused         == SegIds \ (OldSegments \cup {youngGen, compactee})
LowestOf(S)    == CHOOSE s \in S : \A t \in S : s <= t

ogMarkingBarriers == phase \in {"Mark", "CompleteMarking"}

\* OldGen::search, or else createSegment: n becomes the new cell.
OldGenRoom(n) ==
    \/ n \in Free /\ UNCHANGED segments
    \/ /\ Free = {} /\ Unused # {}
       /\ n = <<LowestOf(Unused), 1>>
       /\ segments' = Append(segments, LowestOf(Unused))

HeapFull == Free = {} /\ Unused = {}

------------------------------------------------------------------------------
(* The old generation collection.                                           *)

\* The cells the marker visits when it runs dry: those on the worklist and the
\* unmarked ones that they lead to, the least set that has them all.
LeadsInside(S) ==
    \A a \in S : InOldGen(field[a]) /\ field[a] \notin marked => field[a] \in S
Visited ==
    {a \in Addr : \A S \in SUBSET Addr :
                     worklist \subseteq S /\ LeadsInside(S) => a \in S}

\* MarkAcceptor::acceptHeap: cards with a pointer into the compactee.
CompacteeCards(cells) ==
    {CardOf(a) : a \in {b \in cells : /\ InCompactee(field[b])
                                      /\ ~InCompactee(b)}}

WeakLive(p, live) == p = Null \/ InYoungGen(p) \/ p \in live

\* completeMarking(): marked cells after it.
MarkedAtEnd == IF ogMarkingBarriers THEN marked \cup Visited ELSE marked

CompleteMarking ==
    /\ marked' = MarkedAtEnd
    /\ dirty' = IF ogMarkingBarriers THEN dirty \cup CompacteeCards(Visited)
                                     ELSE dirty
    /\ weakRoot' = IF ~ogMarkingBarriers \/ WeakLive(weakRoot, MarkedAtEnd)
                   THEN weakRoot ELSE Null
    /\ worklist' = {}

\* The dead cells of the segments with these indices.
Dead(indices, live) ==
    {a \in allocated : (\E i \in indices : a[1] = segments[i]) /\ a \notin live}

\* mutant: it sweeps what is not marked yet.
FinishCollection_Early ==
    /\ phase # "None"
    /\ CompleteMarking
    /\ allocated' = allocated \ Dead(1 .. segNumber, marked)
    /\ phase' = "None" /\ segNumber' = 0
    /\ UNCHANGED <<heapVars, field, forwarding, roots>>

\* waitForCollectionToFinish() in any phase but None.
FinishCollection ==
    /\ phase # "None"
    /\ CompleteMarking
    /\ allocated' = allocated \ Dead(1 .. segNumber, MarkedAtEnd)
    /\ phase' = "None" /\ segNumber' = 0
    /\ UNCHANGED <<heapVars, field, forwarding, roots>>

\* mutant: marking finds a pointer into the compactee and dirties no card.
MarkCell_NoCards ==
    /\ pc = "mutator" /\ phase = "Mark"
    /\ \E a \in worklist :
          LET new == {p \in {field[a]} : InOldGen(p) /\ p \notin marked}
          IN  /\ marked' = marked \cup new
              /\ worklist' = (worklist \ {a}) \cup new
    /\ UNCHANGED <<heapVars, allocated, field, forwarding, progVars, phase,
                   segNumber, evacVars, dirty, pc, promoteYGToOG>>

\* incrementalMark: one cell of the worklist.
MarkCell ==
    /\ pc = "mutator" /\ phase = "Mark"
    /\ \E a \in worklist :
          LET new == {p \in {field[a]} : InOldGen(p) /\ p \notin marked}
          IN  /\ marked' = marked \cup new
              /\ worklist' = (worklist \ {a}) \cup new
              /\ dirty' = dirty \cup CompacteeCards({a})
    /\ UNCHANGED <<heapVars, allocated, field, forwarding, progVars, phase,
                   segNumber, evacVars, pc, promoteYGToOG>>

MarkEnd ==
    /\ pc = "mutator" /\ phase = "Mark" /\ worklist = {}
    /\ phase' = "CompleteMarking"
    /\ UNCHANGED <<heapVars, cellVars, progVars, segNumber, worklist, evacVars,
                   dirty, pc, promoteYGToOG>>

\* mutant: one step of sweeping too many.
SweepNext_PastFirst ==
    /\ pc = "mutator" /\ phase = "Sweep"
    /\ segNumber' = segNumber - 1
    /\ phase' = IF segNumber = 0 THEN "None" ELSE "Sweep"
    /\ allocated' = allocated \ Dead({segNumber} \ {0}, marked)
    /\ UNCHANGED <<heapVars, field, marked, forwarding, progVars, worklist,
                   evacVars, dirty, pc, promoteYGToOG>>

\* OldGen::sweepNext: one segment, the last one left.
SweepNext ==
    /\ pc = "mutator" /\ phase = "Sweep"
    /\ segNumber' = IF segNumber = 0 THEN 0 ELSE segNumber - 1
    /\ phase' = IF segNumber' = 0 THEN "None" ELSE "Sweep"
    /\ allocated' = allocated \ Dead({segNumber} \ {0}, marked)
    /\ UNCHANGED <<heapVars, field, marked, forwarding, progVars, worklist,
                   evacVars, dirty, pc, promoteYGToOG>>

\* collect() and createSnapshot() wait for the collection under way.
WaitForCollection ==
    /\ pc = "mutator" /\ FinishCollection
    /\ UNCHANGED <<mutations, evacVars, pc, promoteYGToOG>>

------------------------------------------------------------------------------
(* The program.                                                             *)

Program == pc = "mutator" /\ mutations < MaxMutations /\ mutations' = mutations + 1

\* SATB barrier: p is enqueued, and marked by the drain that follows.
Enqueue(p) ==
    IF ogMarkingBarriers /\ InOldGen(p) /\ p \notin marked
    THEN marked' = marked \cup {p} /\ worklist' = worklist \cup {p}
    ELSE UNCHANGED <<marked, worklist>>

\* relocationWriteBarrier: the card of cell a, which is to hold p.
RelocationBarrier(a, p) ==
    dirty' = IF InYoungGen(p) \/ (InCompactee(p) /\ ~InCompactee(a))
             THEN dirty \cup {CardOf(a)} ELSE dirty

\* A store of a root or null into the cell another root points to.
Store(r, v) ==
    /\ Program /\ roots[r] # Null
    /\ LET a == roots[r] IN
       /\ field' = [field EXCEPT ![a] = v]
       /\ IF InYoungGen(a) THEN UNCHANGED <<marked, worklist, dirty>>
          ELSE Enqueue(field[a]) /\ RelocationBarrier(a, v)
    /\ UNCHANGED <<heapVars, allocated, forwarding, roots, weakRoot, phase,
                   segNumber, evacVars, pc, promoteYGToOG>>

Load(r, q) ==
    /\ Program /\ roots[q] # Null
    /\ roots' = [roots EXCEPT ![r] = field[roots[q]]]
    /\ UNCHANGED <<heapVars, cellVars, weakRoot, cycleVars, evacVars, dirty, pc,
                   promoteYGToOG>>

Drop(r) ==
    /\ Program /\ roots[r] # Null
    /\ roots' = [roots EXCEPT ![r] = Null]
    /\ UNCHANGED <<heapVars, cellVars, weakRoot, cycleVars, evacVars, dirty, pc,
                   promoteYGToOG>>

MakeWeak(r) ==
    /\ Program /\ roots[r] # Null
    /\ weakRoot' = roots[r]
    /\ UNCHANGED <<heapVars, cellVars, roots, cycleVars, evacVars, dirty, pc,
                   promoteYGToOG>>

\* The read barrier of weak references enqueues what is read.
LoadWeak(r) ==
    /\ Program /\ weakRoot # Null
    /\ roots' = [roots EXCEPT ![r] = weakRoot]
    /\ Enqueue(weakRoot)
    /\ UNCHANGED <<heapVars, allocated, field, forwarding, weakRoot, phase,
                   segNumber, evacVars, dirty, pc, promoteYGToOG>>

\* A bump allocation in the YG; v initialises the field.
AllocYoung(r, v) ==
    /\ Program
    /\ \E a \in CellsOf(youngGen) \ allocated :
          /\ \A b \in CellsOf(youngGen) \ allocated : a[2] <= b[2]
          /\ allocated' = allocated \cup {a}
          /\ field' = [field EXCEPT ![a] = v]
          /\ roots' = [roots EXCEPT ![r] = a]
    /\ UNCHANGED <<heapVars, marked, forwarding, weakRoot, cycleVars, evacVars,
                   dirty, pc, promoteYGToOG>>

\* A long-lived allocation goes to the OG; its constructor runs no SATB barrier.
AllocLongLived(r, v) ==
    /\ Program
    /\ \E n \in Addr :
          /\ OldGenRoom(n)
          /\ allocated' = allocated \cup {n}
          /\ marked' = marked \cup {n}
          /\ field' = [field EXCEPT ![n] = v]
          /\ roots' = [roots EXCEPT ![r] = n]
          /\ RelocationBarrier(n, v)
    /\ UNCHANGED <<youngGen, compactee, forwarding, weakRoot, cycleVars,
                   evacVars, pc, promoteYGToOG>>

------------------------------------------------------------------------------
(* The young generation collection.                                         *)

\* promoteYoungGenToOldGen: the segment of the YG joins the OG as it is.
Promote ==
    /\ pc = "mutator" /\ promoteYGToOG /\ Unused # {}
    /\ segments' = Append(segments, youngGen)
    /\ youngGen' = LowestOf(Unused)
    /\ marked' = marked \cup (allocated \cap CellsOf(youngGen))
    /\ pc' = "yield"
    /\ UNCHANGED <<compactee, allocated, field, forwarding, progVars, cycleVars,
                   evacVars, dirty, promoteYGToOG>>

YoungGenCollection ==
    /\ pc = "mutator"
    /\ promoteYGToOG => Unused = {}
    /\ promoteYGToOG' = FALSE
    /\ doCompaction' = (compactee # NoSegment /\ phase \in {"Sweep", "None"})
    /\ pc' = "roots" /\ pos' = 1
    /\ UNCHANGED <<heapVars, cellVars, progVars, cycleVars, visitUnmarked,
                   segEnd, seg, copyList, dirty, waited>>

\* EvacAcceptor::shouldForward
ShouldForward(p) == InYoungGen(p) \/ (doCompaction /\ InCompactee(p))

preparingCompaction == compactee # NoSegment /\ ~doCompaction

\* The segment whose cards are scanned.
Scanned == IF pc = "compactee" THEN compactee ELSE segments[seg]

Scanning == \/ pc = "cards" /\ seg <= segEnd /\ pos <= SegmentSize
            \/ pc = "compactee" /\ pos <= SegmentSize

\* Cells on dirty cards are visited, unmarked ones not while sweeping.
OnDirtyCard(a) ==
    /\ a \in allocated /\ CardOf(a) \in dirty
    /\ visitUnmarked \/ a \in marked

\* The heap cell whose field the acceptor is at, or Null.  The one the scan has
\* come to stays it while the allocation of a copy waits, freed or not.
CurrentCell ==
    IF Scanning /\ (waited \/ OnDirtyCard(<<Scanned, pos>>)) THEN <<Scanned, pos>>
    ELSE IF pc = "copy" /\ copyList # <<>> THEN forwarding[Head(copyList)]
    ELSE Null

AtRoot == pc = "roots" /\ pos <= NumRoots

\* The acceptor is at a pointer, and this is the pointer.
AtPointer == AtRoot \/ CurrentCell # Null
Current   == IF AtRoot THEN roots[pos] ELSE field[CurrentCell]

\* The rest of the copy list after the cell popped from it.
Popped == IF pc = "copy" THEN Tail(copyList) ELSE copyList
Advance == pos' = IF pc = "copy" THEN pos ELSE pos + 1

\* The slot gets the value p; f is the heap it is in.
SetSlot(p, f) ==
    IF AtRoot THEN roots' = [roots EXCEPT ![pos] = p] /\ field' = f
    ELSE field' = [f EXCEPT ![CurrentCell] = p] /\ UNCHANGED roots

\* Not to be forwarded: a pointer into the compactee being prepared gets its
\* card dirtied.
AcceptOther ==
    /\ AtPointer /\ ~ShouldForward(Current)
    /\ dirty' = IF ~AtRoot /\ InCompactee(Current)
                THEN dirty \cup {CardOf(CurrentCell)} ELSE dirty
    /\ Advance /\ copyList' = Popped
    /\ UNCHANGED <<heapVars, cellVars, progVars, cycleVars, doCompaction,
                   visitUnmarked, segEnd, seg, waited, pc, promoteYGToOG>>

AcceptForwarded ==
    /\ AtPointer /\ ShouldForward(Current) /\ forwarding[Current] # Null
    /\ SetSlot(forwarding[Current], field)
    /\ Advance /\ copyList' = Popped
    /\ UNCHANGED <<heapVars, allocated, marked, forwarding, weakRoot, mutations,
                   cycleVars, doCompaction, visitUnmarked, segEnd, seg, waited,
                   dirty, pc, promoteYGToOG>>

MustCopy == AtPointer /\ ShouldForward(Current) /\ forwarding[Current] = Null

\* mutant: the copy gets no mark bit.
AcceptCopy_NoMark ==
    /\ MustCopy
    /\ \E n \in Addr :
          /\ OldGenRoom(n)
          /\ allocated' = allocated \cup {n}
          /\ forwarding' = [forwarding EXCEPT ![Current] = n]
          /\ SetSlot(n, [field EXCEPT ![n] = field[Current]])
          /\ copyList' = <<Current>> \o Popped
    /\ Advance /\ waited' = FALSE
    /\ UNCHANGED <<youngGen, compactee, marked, weakRoot, mutations, cycleVars,
                   doCompaction, visitUnmarked, segEnd, seg, dirty, pc,
                   promoteYGToOG>>

\* forwardCell: copied into the OG and pushed onto the copy list.
AcceptCopy ==
    /\ MustCopy
    /\ \E n \in Addr :
          /\ OldGenRoom(n)
          /\ allocated' = allocated \cup {n}
          /\ marked' = marked \cup {n}
          /\ forwarding' = [forwarding EXCEPT ![Current] = n]
          /\ SetSlot(n, [field EXCEPT ![n] = field[Current]])
          /\ copyList' = <<Current>> \o Popped
    /\ Advance /\ waited' = FALSE
    /\ UNCHANGED <<youngGen, compactee, weakRoot, mutations, cycleVars,
                   doCompaction, visitUnmarked, segEnd, seg, dirty, pc,
                   promoteYGToOG>>

\* The heap is full: the collection under way is completed, then the same
\* allocation is tried again.
AcceptWait ==
    /\ MustCopy /\ HeapFull /\ FinishCollection
    /\ waited' = TRUE
    /\ UNCHANGED <<mutations, doCompaction, visitUnmarked, segEnd, seg, pos,
                   copyList, pc, promoteYGToOG>>

OutOfMemory ==
    /\ MustCopy /\ HeapFull /\ phase = "None"
    /\ pc' = "oom"
    /\ UNCHANGED <<heapVars, cellVars, progVars, cycleVars, evacVars, dirty,
                   promoteYGToOG>>

\* mutant: unmarked cells are visited while sweeping too.
RootsEnd_VisitAll ==
    /\ pc = "roots" /\ pos > NumRoots
    /\ pc' = "cards" /\ seg' = 1 /\ pos' = 1 /\ segEnd' = Len(segments)
    /\ visitUnmarked' = TRUE
    /\ UNCHANGED <<heapVars, cellVars, progVars, cycleVars, doCompaction,
                   copyList, waited, dirty, promoteYGToOG>>

RootsEnd ==
    /\ pc = "roots" /\ pos > NumRoots
    /\ pc' = "cards" /\ seg' = 1 /\ pos' = 1 /\ segEnd' = Len(segments)
    /\ visitUnmarked' = (phase # "Sweep")
    /\ UNCHANGED <<heapVars, cellVars, progVars, cycleVars, doCompaction,
                   copyList, waited, dirty, promoteYGToOG>>

\* Not on a dirty card, or not to be visited.
SkipCell ==
    /\ Scanning /\ ~waited /\ ~OnDirtyCard(<<Scanned, pos>>)
    /\ pos' = pos + 1
    /\ UNCHANGED <<heapVars, cellVars, progVars, cycleVars, doCompaction,
                   visitUnmarked, segEnd, seg, copyList, waited, dirty, pc,
                   promoteYGToOG>>

\* mutant: cards are cleared although a compactee is being prepared.
SegmentEnd_Clears ==
    /\ pc = "cards" /\ seg <= segEnd /\ pos > SegmentSize
    /\ dirty' = {c \in dirty : c[1] # segments[seg]}
    /\ seg' = seg + 1 /\ pos' = 1
    /\ visitUnmarked' = (phase # "Sweep")
    /\ UNCHANGED <<heapVars, cellVars, progVars, cycleVars, doCompaction,
                   segEnd, copyList, waited, pc, promoteYGToOG>>

\* Cards are not cleared while a compactee is prepared: they still have to say
\* where the pointers into it are.
SegmentEnd ==
    /\ pc = "cards" /\ seg <= segEnd /\ pos > SegmentSize
    /\ dirty' = IF preparingCompaction THEN dirty
                ELSE {c \in dirty : c[1] # segments[seg]}
    /\ seg' = seg + 1 /\ pos' = 1
    /\ visitUnmarked' = (phase # "Sweep")
    /\ UNCHANGED <<heapVars, cellVars, progVars, cycleVars, doCompaction,
                   segEnd, copyList, waited, pc, promoteYGToOG>>

CardsEnd ==
    /\ \/ pc = "cards" /\ seg > segEnd
       \/ pc = "compactee" /\ pos > SegmentSize
    /\ pc' = IF pc = "cards" /\ preparingCompaction THEN "compactee" ELSE "copy"
    /\ pos' = 1
    /\ UNCHANGED <<heapVars, cellVars, progVars, cycleVars, doCompaction,
                   visitUnmarked, segEnd, seg, copyList, waited, dirty,
                   promoteYGToOG>>

\* What is forgotten with the YG, and with the compactee when it was evacuated.
Vacated == CellsOf(youngGen) \cup
           IF doCompaction THEN CellsOf(compactee) ELSE {}

\* The copy list is empty: weak roots are updated, the YG is emptied, and
\* finalizeCompactee gives the compactee back.
EvacuationEnd ==
    /\ pc = "copy" /\ copyList = <<>>
    /\ weakRoot' = IF ShouldForward(weakRoot) THEN forwarding[weakRoot]
                   ELSE weakRoot
    /\ allocated' = allocated \ Vacated
    /\ marked' = marked \ Vacated
    /\ forwarding' = [a \in Addr |-> Null]
    /\ field' = [a \in Addr |-> IF a \in Vacated THEN Null ELSE field[a]]
    /\ dirty' = {c \in dirty : doCompaction => c[1] # compactee}
    /\ compactee' = IF doCompaction THEN NoSegment ELSE compactee
    /\ doCompaction' = FALSE
    /\ visitUnmarked' = FALSE /\ segEnd' = 0 /\ seg' = 0 /\ pos' = 0
    /\ pc' = "yield"
    /\ UNCHANGED <<youngGen, segments, roots, mutations, cycleVars, copyList,
                   waited, promoteYGToOG>>

\* yieldToOldGen: marking that has run dry is completed here.
Yield ==
    /\ pc = "yield" /\ pc' = "start"
    /\ IF phase = "CompleteMarking"
       THEN CompleteMarking /\ phase' = "Sweep"
       ELSE UNCHANGED <<marked, dirty, weakRoot, worklist, phase>>
    /\ UNCHANGED <<heapVars, allocated, field, forwarding, roots, mutations,
                   segNumber, evacVars, promoteYGToOG>>

\* No OG collection is started, or none can be.
NoOldGenCollection ==
    /\ pc = "start" /\ pc' = "mutator"
    /\ UNCHANGED <<heapVars, cellVars, progVars, cycleVars, evacVars, dirty,
                   promoteYGToOG>>

\* oldGenCollection with prepareCompactee and initializeSweep.
OldGenCollection(compact) ==
    /\ pc = "start" /\ pc' = "mutator"
    /\ phase = "None" /\ compactee = NoSegment
    /\ compact => Len(segments) > 1
    /\ phase' = "Mark" /\ promoteYGToOG' = FALSE
    /\ marked' = {roots[r] : r \in Roots} \ {Null}
    /\ worklist' = marked'
    /\ compactee' = IF compact THEN segments[Len(segments)] ELSE NoSegment
    /\ segments' = SubSeq(segments, 1, Len(segments) - (IF compact THEN 1 ELSE 0))
    /\ segNumber' = Len(segments')
    /\ UNCHANGED <<youngGen, allocated, field, forwarding, progVars, evacVars,
                   dirty>>

------------------------------------------------------------------------------
Init ==
    /\ \E h \in Heaps :
          /\ youngGen = h.youngGen /\ segments = h.segments
          /\ allocated = h.allocated /\ field = h.field
          /\ roots = h.roots /\ phase = h.phase /\ worklist = h.worklist
          /\ marked = IF h.phase = "Mark" THEN h.worklist ELSE h.allocated
          /\ segNumber = IF h.phase = "Mark" THEN Len(h.segments) ELSE 0
          /\ promoteYGToOG \in {FALSE, h.phase = "None"}
    /\ weakRoot = Null /\ compactee = NoSegment /\ dirty = {}
    /\ pc = "mutator" /\ doCompaction = FALSE /\ visitUnmarked = FALSE
    /\ segEnd = 0 /\ seg = 0 /\ pos = 0 /\ waited = FALSE
    /\ forwarding = [a \in Addr |-> Null] /\ copyList = <<>>
    /\ mutations = 0

RootValues == {roots[r] : r \in Roots} \cup {Null}

ProgramStep ==
    \E r \in Roots :
        \/ \E v \in RootValues :
              Store(r, v) \/ AllocYoung(r, v) \/ AllocLongLived(r, v)
        \/ \E q \in Roots : Load(r, q)
        \/ Drop(r) \/ MakeWeak(r) \/ LoadWeak(r)

CollectorStep == MarkCell \/ MarkEnd \/ SweepNext \/ WaitForCollection

EvacuationStep ==
    \/ Promote \/ YoungGenCollection
    \/ AcceptOther \/ AcceptForwarded \/ AcceptCopy \/ AcceptWait \/ OutOfMemory
    \/ RootsEnd \/ SkipCell \/ SegmentEnd \/ CardsEnd \/ EvacuationEnd
    \/ Yield \/ NoOldGenCollection
    \/ \E compact \in BOOLEAN : OldGenCollection(compact)

Next == ProgramStep \/ CollectorStep \/ EvacuationStep

Spec == Init /\ [][Next]_vars

------------------------------------------------------------------------------
\* The types of the variables; the worklist holds marked cells, and the sweep
\* iterator stays within the segments (CollectionSection, sweepIterator_).
TypeOK ==
    /\ youngGen \in SegIds /\ compactee \in SegIds \cup {NoSegment}
    /\ segments \in Seq(SegIds)
    /\ allocated \subseteq Addr /\ marked \subseteq Addr
    /\ worklist \subseteq marked
    /\ field \in [Addr -> Pointer] /\ forwarding \in [Addr -> Pointer]
    /\ roots \in [Roots -> Pointer] /\ weakRoot \in Pointer
    /\ dirty \subseteq {CardOf(a) : a \in Addr}
    /\ phase \in Phase /\ segNumber \in 0 .. Len(segments)
    /\ pc \in Points

\* Cells that forAllObjs visits.
AllObjs ==
    {a \in allocated :
        \/ a[1] = youngGen
        \/ a[1] \in OldSegments /\ (phase = "Sweep" => a \in marked)
        \/ a[1] = compactee /\ (~ogMarkingBarriers => a \in marked)}

\* A pointer leads to a cell: the heap is well formed whenever the program runs,
\* whatever was moved, completed in the middle of an evacuation or swept
\* (checkWellFormed).
WellFormed ==
    /\ TypeOK
    /\ pc = "mutator" =>
         /\ \A a \in AllObjs : field[a] \in allocated \cup {Null}
         /\ \A r \in Roots : roots[r] \in allocated \cup {Null}
         /\ weakRoot \in allocated \cup {Null}

\* A cell of the OG that points into the YG is on a dirty card, and once marking is
\* over so is one that points into the compactee from outside: the next evacuation
\* finds the pointer there and nowhere else (verifyCardTable).
CardTable ==
    pc \in {"mutator", "yield"} =>
        \A a \in AllObjs :
            ( /\ InOldGen(a)
              /\ \/ InYoungGen(field[a])
                 \/ /\ ~ogMarkingBarriers
                    /\ InCompactee(field[a]) /\ ~InCompactee(a) )
            => CardOf(a) \in dirty

\* The cell whose field the acceptor is updating is not freed under it, though the
\* allocation of the copy may complete the collection and sweep before the field is
\* written: not even a cell that the marker had not come to when it was visited
\* (EvacAcceptor::acceptHeap, OldGen::allocSlow).
VisitedKept == CurrentCell # Null => CurrentCell \in allocated

\* "Should only evacuate marked objects": what is moved out of the compactee was
\* marked, so garbage that still points there revives nothing
\* (EvacAcceptor::forwardCell).
EvacuatesMarked ==
    AtPointer /\ ShouldForward(Current) /\ InCompactee(Current)
        => Current \in marked
==============================================================================
