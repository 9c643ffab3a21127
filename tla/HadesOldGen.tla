----------------------------- MODULE HadesOldGen -----------------------------
(* The allocator of the old generation (HadesGC::OldGen): segments tiled by *)
(* cells, the free cells of a segment in one list per size bucket, the      *)
(* segments that have such a list in one chain per bucket, a bit per bucket *)
(* with a chain, and one free cell, allocChunk, set aside to be carved.     *)
(* Cells become free when a collection sweeps, one segment per step and     *)
(* between the allocations of the mutator, which holds gcMutex_ throughout  *)
(* an allocation and therefore is one step unless it has to wait for the    *)
(* collection.                                                              *)
(*                                                                          *)
(* A size counts units of the heap's alignment; headers, card tables and    *)
(* external memory are left out.  A size above SegmentSize is a large       *)
(* allocation.  Trimming is left out: no VTable has a trim callback.        *)
EXTENDS Integers, Sequences, FiniteSets, SequencesExt, FiniteSetsExt

CONSTANTS
    MinSize,      \* minAllocationSize()
    SegmentSize,  \* FixedSizeHeapSegment::maxSize()
    kNumSmall,    \* kNumSmallFreelistBuckets, a power of two
    AllocSizes,   \* the sizes the program asks for
    MaxHeapSize,  \* the limit of the heap, in segments
    SizeRange     \* the number of values of a size_t

ASSUME SizesAssumption ==
    /\ MinSize \in Nat \ {0} /\ SegmentSize \in Nat /\ MinSize <= SegmentSize
    /\ AllocSizes \subseteq {n \in Nat : n >= MinSize}
    /\ kNumSmall \in Nat \ {0}
    /\ MaxHeapSize \in Nat /\ MaxHeapSize >= 2   \* clampMaxHeapSize
    /\ SizeRange \in Nat /\ SizeRange > MaxHeapSize + 1

VARIABLES
    segments,       \* segments_: offset of a cell |-> its size and mark bit
    freelist,       \* segmentBuckets_, buckets_, freelistBucketBitArray_
    allocChunk,     \* allocChunk_: <<segment, offset>>, or None
    jumbo,          \* jumboSegments_: a number for the segment |-> its state
    compactee,      \* compactee_.segment, a sequence of at most one segment
    allocatedBytes, \* allocatedBytes_
    largeBytes,     \* allocatedLargeObjectBytes_
    phase,          \* concurrentPhase_, and "oom" once the program has died
    segNumber,      \* sweepIterator_.segNumber
    request         \* the allocation that waits for the collection, or 0

vars == <<segments, freelist, allocChunk, jumbo, compactee, allocatedBytes,
          largeBytes, phase, segNumber, request>>

None == <<>>

\* Log2_32: how many of the powers 2, 4, 8, ... are not above n
Log2(n) == Cardinality({k \in 1..n : 2^k <= n})

\* getFreelistBucket
Bucket(size) ==
    IF size < kNumSmall THEN size ELSE kNumSmall + Log2(size) - Log2(kNumSmall)

Buckets == 1..Bucket(SegmentSize)

(* finishAlloc without the mark bit.                                        *)
Object_NoMarkBit(size) ==
    [size |-> size, free |-> FALSE, marked |-> FALSE, fresh |-> phase # "none"]

(* A cell is an object unless it is free.  "fresh" is a history of the      *)
(* model: the object was allocated while a collection was going on.         *)
Object(size) ==
    [size |-> size, free |-> FALSE, marked |-> TRUE, fresh |-> phase # "none"]

FreeCell(size, marked) ==
    [size |-> size, free |-> TRUE, marked |-> marked, fresh |-> FALSE]

Objects(seg) == {a \in DOMAIN seg : ~seg[a].free}

Ends(seg) == {a + seg[a].size : a \in DOMAIN seg}

\* level(), the end of the last cell
Level(seg) == Max(Ends(seg))

(* The units that some of the cells, which do not overlap, take up.         *)
Covered(seg, offsets) == UNION {a..(a + seg[a].size - 1) : a \in offsets}

SizeOf(seg, offsets) == Cardinality(Covered(seg, offsets))

\* computeSegmentSize, in segments
Units(size) == (size + SegmentSize - 1) \div SegmentSize

\* The size of some of the jumbo segments, in segments.
JumboUnits(ids) == Cardinality(UNION {{i} \X (1..jumbo[i].units) : i \in ids})

(* segmentFootprint: the young generation, the old one and the compactee.   *)
HeapFootprint ==
    1 + Len(segments) + Len(compactee) + JumboUnits(DOMAIN jumbo)

(* The limit may be passed by a segment.                                    *)
MaxHeapReached_Over(units) == HeapFootprint > MaxHeapSize - units + 1

(* createSegmentImpl: the new segment would make the heap too large.  The   *)
(* subtraction is one of unsigned numbers.                                  *)
MaxHeapReached(units) ==
    HeapFootprint >= (MaxHeapSize - units + 1) % SizeRange

Init ==
    /\ segments = <<>>
    /\ freelist = [cells |-> <<>>, chain |-> [b \in Buckets |-> <<>>], bits |-> {}]
    /\ allocChunk = None
    /\ jumbo = <<>>
    /\ compactee = <<>>
    /\ allocatedBytes = 0
    /\ largeBytes = 0
    /\ phase = "none"
    /\ segNumber = 0
    /\ request = 0

------------------------------------------------------------------------------
(* Free lists.                                                              *)

\* A list from which one element is unlinked.
Without(list, e) == RemoveAt(list, CHOOSE i \in DOMAIN list : list[i] = e)

\* addCellToFreelist: push the cell, and link and flag a list that was empty
AddCell(fl, s, a, size) ==
    LET b == Bucket(size) IN
    IF fl.cells[s][b] # <<>>
    THEN [fl EXCEPT !.cells[s][b] = <<a>> \o @]
    ELSE [fl EXCEPT !.cells[s][b] = <<a>>,
                    !.chain[b] = <<s>> \o @,
                    !.bits = @ \cup {b}]

(* The bit of a bucket stays set when its last list is gone.                *)
RemoveCell_KeepsBit(fl, s, a, size) ==
    LET b == Bucket(size)
        list == Without(fl.cells[s][b], a)
    IN  [fl EXCEPT !.cells[s][b] = list,
                   !.chain[b] = IF list = <<>> THEN Without(@, s) ELSE @]

\* removeCellFromFreelist
RemoveCell(fl, s, a, size) ==
    LET b == Bucket(size)
        list == Without(fl.cells[s][b], a)
        chain == Without(fl.chain[b], s)
    IN  IF list # <<>>
        THEN [fl EXCEPT !.cells[s][b] = list]
        ELSE [fl EXCEPT !.cells[s][b] = <<>>,
                        !.chain[b] = chain,
                        !.bits = IF chain = <<>> THEN @ \ {b} ELSE @ \cup {b}]

(* Take all lists of segment s out of the chains of their buckets; SetBits  *)
(* makes the bits of the buckets follow.                                    *)
Unlink(fl, s) ==
    [fl EXCEPT !.chain = [b \in Buckets |->
        IF fl.cells[s][b] # <<>> THEN Without(@[b], s) ELSE @[b]]]

SetBits(fl) == [fl EXCEPT !.bits = {b \in Buckets : fl.chain[b] # <<>>}]

(* Any larger cell is split, however little is left.                        *)
Fits_AnyLarger(size, sz) == size >= sz

\* A free cell can serve a request of size sz.
Fits(size, sz) == size = sz \/ size >= sz + MinSize

(* The bucket of exact fits is passed over.                                 *)
FirstBucket_NoExact(sz) == Bucket(sz + MinSize)

\* The bucket at which search begins.
FirstBucket(sz) ==
    IF Bucket(sz) \in freelist.bits THEN Bucket(sz) ELSE Bucket(sz + MinSize)

(* search goes bucket by bucket, in a bucket segment by segment along the   *)
(* chain, and in a segment cell by cell along the list.                     *)
ListAt(b, i) == freelist.cells[freelist.chain[b][i]][b]

FittingCells(sz, b, i) ==
    {k \in DOMAIN ListAt(b, i) :
        Fits(segments[freelist.chain[b][i]][ListAt(b, i)[k]].size, sz)}

FittingLists(sz, b) ==
    {i \in DOMAIN freelist.chain[b] : FittingCells(sz, b, i) # {}}

FittingBuckets(sz) ==
    {b \in freelist.bits : b >= FirstBucket(sz) /\ FittingLists(sz, b) # {}}

(* search: the first cell that fits, as <<segment, offset>>.                *)
Search(sz) ==
    IF FittingBuckets(sz) = {} THEN None
    ELSE LET b == Min(FittingBuckets(sz))
             i == Min(FittingLists(sz, b))
             k == Min(FittingCells(sz, b, i))
         IN  <<freelist.chain[b][i], ListAt(b, i)[k]>>

------------------------------------------------------------------------------
(* Allocation.                                                              *)

\* FreelistCell::carve: the free cell at a keeps its head, the object its tail.
Carved(seg, a, sz) ==
    LET left == seg[a].size - sz
    IN  [o \in DOMAIN seg \cup {a + left} |->
            IF o = a THEN [seg[a] EXCEPT !.size = left]
            ELSE IF o = a + left THEN Object(sz)
            ELSE seg[o]]

\* finishAlloc, the counter; the mark bit is in Object
CountAllocated(bytes) == allocatedBytes' = allocatedBytes + bytes

ChunkServes(sz) ==
    /\ allocChunk # None
    /\ segments[allocChunk[1]][allocChunk[2]].size >= sz + MinSize

\* alloc, the fast path
AllocFromChunk(sz) ==
    /\ phase # "oom" /\ request = 0
    /\ sz <= SegmentSize
    /\ ChunkServes(sz)
    /\ segments' = [segments EXCEPT
            ![allocChunk[1]] = Carved(@, allocChunk[2], sz)]
    /\ CountAllocated(sz)
    /\ UNCHANGED <<freelist, allocChunk, jumbo, compactee, largeBytes, phase,
                   segNumber, request>>

(* search, where it finds a cell: an exact fit is taken; of a larger one    *)
(* the tail is, and the rest takes the place of the chunk, which goes back  *)
(* to the list of its segment.                                              *)
TakeFreeCell(sz) ==
    LET found == Search(sz)
        s == found[1]
        a == found[2]
        size == segments[s][a].size
        without == RemoveCell(freelist, s, a, size)
        chunkSize == segments[allocChunk[1]][allocChunk[2]].size
    IN  /\ found # None
        /\ IF size = sz
           THEN /\ segments' = [segments EXCEPT ![s][a] = Object(sz)]
                /\ freelist' = without
                /\ UNCHANGED allocChunk
           ELSE /\ segments' = [segments EXCEPT ![s] = Carved(@, a, sz)]
                /\ freelist' =
                     IF allocChunk = None THEN without
                     ELSE AddCell(without, allocChunk[1], allocChunk[2], chunkSize)
                /\ allocChunk' = <<s, a>>
        /\ CountAllocated(sz)
        /\ UNCHANGED <<jumbo, compactee, largeBytes>>

(* allocFromNewSegment and addSegment: the object at the start of a segment *)
(* whose mark bits are all set, the rest of it a free cell.                 *)
TakeNewSegment(sz) ==
    LET s == Len(segments) + 1
        rest == SegmentSize - sz
        empty == [freelist EXCEPT !.cells = Append(@, [b \in Buckets |-> <<>>])]
    IN  /\ Search(sz) = None
        /\ ~MaxHeapReached(1)
        /\ IF rest >= MinSize
           THEN /\ segments' = Append(segments,
                       [o \in {0, sz} |->
                            IF o = 0 THEN Object(sz) ELSE FreeCell(rest, TRUE)])
                /\ freelist' = AddCell(empty, s, sz, rest)
           ELSE /\ segments' = Append(segments, [o \in {0} |-> Object(sz)])
                /\ freelist' = empty
        /\ CountAllocated(sz)
        /\ UNCHANGED <<allocChunk, jumbo, compactee, largeBytes>>

\* The number of a segment that is created: one that is not in use.
NewJumbo == CHOOSE i \in 1..(Cardinality(DOMAIN jumbo) + 1) : i \notin DOMAIN jumbo

\* allocLarge, where the segment can be created
TakeJumboSegment(sz) ==
    LET maxSize == Units(sz) * SegmentSize
        segment == [units |-> Units(sz), marked |-> TRUE, fresh |-> phase # "none"]
    IN  /\ ~MaxHeapReached(Units(sz))
        /\ jumbo' = [i \in DOMAIN jumbo \cup {NewJumbo} |->
                        IF i = NewJumbo THEN segment ELSE jumbo[i]]
        /\ largeBytes' = largeBytes + maxSize
        /\ CountAllocated(maxSize)
        /\ UNCHANGED <<segments, freelist, allocChunk, compactee>>

\* Some way to satisfy the request without the chunk.
CanTake(sz) ==
    IF sz > SegmentSize THEN ~MaxHeapReached(Units(sz))
    ELSE Search(sz) # None \/ ~MaxHeapReached(1)

\* allocSlow or allocLarge, in the order in which they try
TakeSlow(sz) ==
    IF sz > SegmentSize THEN TakeJumboSegment(sz)
    ELSE TakeFreeCell(sz) \/ TakeNewSegment(sz)

AllocSlow(sz) ==
    /\ phase # "oom" /\ request = 0
    /\ sz <= SegmentSize => ~ChunkServes(sz)
    /\ TakeSlow(sz)
    /\ UNCHANGED <<phase, segNumber, request>>

(* Neither a cell nor a segment: waitForCollectionToFinish.  The mutator    *)
(* keeps gcMutex_ and drives the collection, if there is one, to its end.   *)
WaitForCollection(sz) ==
    /\ phase # "oom" /\ request = 0
    /\ sz <= SegmentSize => ~ChunkServes(sz)
    /\ ~CanTake(sz)
    /\ request' = sz
    /\ UNCHANGED <<segments, freelist, allocChunk, jumbo, compactee,
                   allocatedBytes, largeBytes, phase, segNumber>>

\* The second attempt, which repeats the search and the creation of a segment.
AllocAfterWait ==
    /\ request # 0
    /\ phase = "none"
    /\ TakeSlow(request)
    /\ request' = 0
    /\ UNCHANGED <<phase, segNumber>>

\* allocLarge, for a caller that can do without (MayFail::Yes): nullptr
LargeAllocationFails ==
    /\ request > SegmentSize
    /\ phase = "none"
    /\ ~CanTake(request)
    /\ request' = 0
    /\ UNCHANGED <<segments, freelist, allocChunk, jumbo, compactee,
                   allocatedBytes, largeBytes, phase, segNumber>>

\* gc_.oom: the program ends
OutOfMemory ==
    /\ request # 0
    /\ phase = "none"
    /\ ~CanTake(request)
    /\ phase' = "oom"
    /\ UNCHANGED <<segments, freelist, allocChunk, jumbo, compactee,
                   allocatedBytes, largeBytes, segNumber, request>>

------------------------------------------------------------------------------
(* Collection.                                                              *)

\* markBitArray().reset() of every segment
Unmarked(cell) == [cell EXCEPT !.marked = FALSE, !.fresh = FALSE]

UnmarkedSegments ==
    [s \in DOMAIN segments |->
        [a \in DOMAIN segments[s] |-> Unmarked(segments[s][a])]]

\* popSegment: the last segment, its lists, and the chunk if it is in it
PopSegment ==
    LET last == Len(segments)
        unlinked == SetBits(Unlink(freelist, last))
    IN  /\ segments' = Front(UnmarkedSegments)
        /\ compactee' = <<Last(UnmarkedSegments)>>
        /\ freelist' = [unlinked EXCEPT !.cells = Front(@)]
        /\ allocChunk' = IF allocChunk # None /\ allocChunk[1] = last
                         THEN None ELSE allocChunk

(* The start of a collection: mark bits are reset, prepareCompactee may     *)
(* take a segment away, initializeSweep notes the segments there are.       *)
StartCollection(compact) ==
    /\ phase = "none" /\ request = 0
    /\ compactee = <<>>
    /\ IF compact
       THEN Len(segments) > 1 /\ PopSegment
       ELSE /\ segments' = UnmarkedSegments
            /\ UNCHANGED <<freelist, allocChunk, compactee>>
    /\ jumbo' = [i \in DOMAIN jumbo |-> Unmarked(jumbo[i])]
    /\ segNumber' = Len(segments')
    /\ phase' = "mark"
    /\ UNCHANGED <<allocatedBytes, largeBytes, request>>

(* The end of marking: some of the objects that were there when it began    *)
(* have been found alive.                                                   *)
CompleteMarking ==
    /\ phase = "mark"
    /\ \E live \in SUBSET UNION {{s} \X Objects(segments[s]) : s \in DOMAIN segments},
          liveJumbo \in SUBSET DOMAIN jumbo :
        /\ segments' = [s \in DOMAIN segments |->
               [a \in DOMAIN segments[s] |->
                   [segments[s][a] EXCEPT !.marked = @ \/ <<s, a>> \in live]]]
        /\ jumbo' = [i \in DOMAIN jumbo |->
               [jumbo[i] EXCEPT !.marked = @ \/ i \in liveJumbo]]
    /\ phase' = "sweep"
    /\ UNCHANGED <<freelist, allocChunk, compactee, allocatedBytes, largeBytes,
                   segNumber, request>>

(* The cells of a segment after it was swept: each run of unmarked          *)
(* neighbours has become one free cell.                                     *)
Swept(seg) ==
    LET dead == {a \in DOMAIN seg : ~seg[a].marked}
        starts == {a \in dead : \A d \in dead : d + seg[d].size # a}
        end(a) == Min({e \in (DOMAIN seg \cup Ends(seg)) \ dead : e > a})
    IN  [a \in (DOMAIN seg \ dead) \cup starts |->
            IF a \in starts THEN FreeCell(end(a) - a, FALSE) ELSE seg[a]]

Descending(S) ==
    CHOOSE list \in [1..Cardinality(S) -> S] :
        \A j, k \in DOMAIN list : j < k => list[j] > list[k]

\* addCellToFreelistFromSweep: pushed in the order of the addresses
SweptLists(seg) ==
    [b \in Buckets |->
        Descending({a \in DOMAIN seg : /\ seg[a].free /\ ~seg[a].marked
                                       /\ Bucket(seg[a].size) = b})]

\* The lists of a swept segment replace those it had.
Relinked(fl, s, lists) ==
    LET unlinked == Unlink(fl, s)
    IN  SetBits([unlinked EXCEPT
            !.cells[s] = lists,
            !.chain = [b \in Buckets |->
                IF lists[b] # <<>> THEN <<s>> \o @[b] ELSE @[b]]])

(* The chunk is kept when its segment is swept.                             *)
SweepSegment_KeepsChunk(s) ==
    LET after == Swept(segments[s])
    IN  /\ segments' = [segments EXCEPT ![s] = after]
        /\ freelist' = Relinked(freelist, s, SweptLists(after))
        /\ UNCHANGED allocChunk

\* sweepNext on segment s
SweepSegment(s) ==
    LET seg == segments[s]
        after == Swept(seg)
    IN  /\ segments' = [segments EXCEPT ![s] = after]
        /\ freelist' = Relinked(freelist, s, SweptLists(after))
        /\ allocChunk' = IF allocChunk # None /\ allocChunk[1] = s
                         THEN None ELSE allocChunk

SweptBytes(seg) == SizeOf(seg, {a \in Objects(seg) : ~seg[a].marked})

\* freeUnusedJumboSegments
DeadJumboBytes ==
    JumboUnits({i \in DOMAIN jumbo : ~jumbo[i].marked}) * SegmentSize

\* endSweep and the return to Phase::None
EndSweep ==
    /\ jumbo' = Restrict(jumbo, {i \in DOMAIN jumbo : jumbo[i].marked})
    /\ largeBytes' = largeBytes - DeadJumboBytes
    /\ phase' = "none"

SweepNext ==
    /\ phase = "sweep"
    /\ segNumber' = IF segNumber = 0 THEN 0 ELSE segNumber - 1
    /\ IF segNumber = 0
       THEN UNCHANGED <<segments, freelist, allocChunk>>
       ELSE SweepSegment(segNumber)
    /\ LET swept == IF segNumber = 0 THEN 0 ELSE SweptBytes(segments[segNumber])
       IN  IF segNumber <= 1
           THEN EndSweep /\ allocatedBytes' = allocatedBytes - swept - DeadJumboBytes
           ELSE /\ allocatedBytes' = allocatedBytes - swept
                /\ UNCHANGED <<jumbo, largeBytes, phase>>
    /\ UNCHANGED <<compactee, request>>

(* Free cells of the compactee are taken off the counter as well.           *)
FinalizeCompactee_FreeCells ==
    /\ compactee # <<>>
    /\ phase \in {"sweep", "none"} /\ request = 0
    /\ allocatedBytes' = allocatedBytes - Level(compactee[1])
    /\ compactee' = <<>>
    /\ UNCHANGED <<segments, freelist, allocChunk, jumbo, largeBytes, phase,
                   segNumber, request>>

(* finalizeCompactee, at the end of the young collection that evacuated the *)
(* live objects of the compactee by ordinary allocations.                   *)
FinalizeCompactee ==
    /\ compactee # <<>>
    /\ phase \in {"sweep", "none"} /\ request = 0
    /\ allocatedBytes' =
         allocatedBytes - SizeOf(compactee[1], Objects(compactee[1]))
    /\ compactee' = <<>>
    /\ UNCHANGED <<segments, freelist, allocChunk, jumbo, largeBytes, phase,
                   segNumber, request>>

Next ==
    \/ \E sz \in AllocSizes :
           AllocFromChunk(sz) \/ AllocSlow(sz) \/ WaitForCollection(sz)
    \/ AllocAfterWait
    \/ LargeAllocationFails
    \/ OutOfMemory
    \/ \E compact \in BOOLEAN : StartCollection(compact)
    \/ CompleteMarking
    \/ SweepNext
    \/ FinalizeCompactee

Spec == Init /\ [][Next]_vars

------------------------------------------------------------------------------
(* Properties.                                                              *)

Offsets == 0..SegmentSize - 1

FreeOffsets(seg) == DOMAIN seg \ Objects(seg)

(* The variables have their types, and the cells tile their segment from    *)
(* its start to its level without gaps or overlaps, none smaller than the   *)
(* smallest allocation: walking a segment with nextCell() meets every cell. *)
Tiled(seg) ==
    /\ DOMAIN seg \subseteq Offsets /\ 0 \in DOMAIN seg
    /\ Level(seg) <= SegmentSize
    /\ \A a \in DOMAIN seg :
          /\ seg[a].size \in MinSize..SegmentSize
          /\ seg[a].free \in BOOLEAN /\ seg[a].marked \in BOOLEAN
          /\ a + seg[a].size \in DOMAIN seg \cup {Level(seg)}
          /\ \A o \in DOMAIN seg : ~(a < o /\ o < a + seg[a].size)

TypeOK ==
    /\ \A s \in DOMAIN segments : Tiled(segments[s])
    /\ \A i \in DOMAIN compactee : Tiled(compactee[i])
    /\ Len(compactee) <= 1
    /\ Len(freelist.cells) = Len(segments)
    /\ freelist.bits \subseteq Buckets
    /\ allocatedBytes \in Nat /\ largeBytes \in Nat
    /\ phase \in {"none", "mark", "sweep", "oom"}
    /\ segNumber \in 0..Len(segments)
    /\ request \in AllocSizes \cup {0}

NoDuplicates(list) == \A i, j \in DOMAIN list : list[i] = list[j] => i = j

(* What verifyFreelists checks, and the chunk: every free cell but the      *)
(* chunk is once in the list of its segment and bucket, which holds nothing *)
(* else; the chain of a bucket links the segments with a list for it; the   *)
(* bits say which chains are not empty.  Carving, exact fits, the exchange  *)
(* of the chunk, coalescing and the removal of segments must all agree.     *)
FreelistsExact ==
    /\ TypeOK
    /\ \A s \in DOMAIN segments, b \in Buckets :
          /\ NoDuplicates(freelist.cells[s][b])
          /\ ToSet(freelist.cells[s][b]) =
               {a \in FreeOffsets(segments[s]) :
                    Bucket(segments[s][a].size) = b /\ <<s, a>> # allocChunk}
    /\ \A b \in Buckets :
          /\ NoDuplicates(freelist.chain[b])
          /\ ToSet(freelist.chain[b]) =
               {s \in DOMAIN segments : freelist.cells[s][b] # <<>>}
    /\ freelist.bits = {b \in Buckets : freelist.chain[b] # <<>>}
    /\ allocChunk # None =>
          /\ allocChunk[1] \in DOMAIN segments
          /\ allocChunk[2] \in FreeOffsets(segments[allocChunk[1]])

ObjectBytes(segs) ==
    Cardinality(UNION {{s} \X Covered(segs[s], Objects(segs[s])) : s \in DOMAIN segs})

(* allocatedBytes_ is the size of all objects, those of a pending compactee *)
(* and the large ones included, and no free cell; the large ones are also   *)
(* counted by themselves.  Thresholds and statistics are computed from it,  *)
(* and decrementAllocatedBytes asserts that it does not wrap.               *)
BytesExact ==
    /\ largeBytes = JumboUnits(DOMAIN jumbo) * SegmentSize
    /\ allocatedBytes = ObjectBytes(segments) + ObjectBytes(compactee) + largeBytes

(* The heap stays within its limit, and the program dies for want of memory *)
(* only if it would not with the request: although search skips buckets by  *)
(* size and by bit, no free cell of any segment fits.  (The chunk is not    *)
(* searched, and one of exactly the requested size is not used.)            *)
OutOfMemoryExact ==
    /\ HeapFootprint <= MaxHeapSize
    /\ phase = "oom" =>
          /\ HeapFootprint + Units(request) > MaxHeapSize
          /\ request <= SegmentSize =>
               /\ ~ChunkServes(request)
               /\ \A s \in DOMAIN segments : \A a \in FreeOffsets(segments[s]) :
                    <<s, a>> # allocChunk => ~Fits(segments[s][a].size, request)

(* An object allocated while a collection is going on survives it, in a     *)
(* segment that the sweep has passed, has yet to reach or will not visit:   *)
(* nobody looked for it when the roots were marked.                         *)
FreshKept ==
    /\ \A s \in DOMAIN segments : \A a \in Objects(segments[s]) :
          segments[s][a].fresh =>
            /\ s \in DOMAIN segments' /\ a \in DOMAIN segments'[s]
            /\ segments'[s][a] = segments[s][a]
    /\ \A i \in DOMAIN jumbo :
          jumbo[i].fresh => i \in DOMAIN jumbo' /\ jumbo'[i] = jumbo[i]

FreshSurvive == [][phase # "none" => FreshKept]_vars
==============================================================================
