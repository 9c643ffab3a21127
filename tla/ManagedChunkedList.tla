-------------------------- MODULE ManagedChunkedList --------------------------
(* The list that keeps the indices of a map's iterators.  The mutator adds    *)
(* elements, collects free ones and visits all; the background thread, in the *)
(* finalizer of an iterator that is garbage, sets an element free at any      *)
(* time, without a lock: free_ is atomic and all that it writes.              *)
(*                                                                            *)
(* The free list is a sequence, which the code links through the elements;    *)
(* the chunks are a set, visited in any order.  When to collect, and how many *)
(* chunks to keep, follow from a moving average of the occupancy in the code  *)
(* and are choices here.                                                      *)
EXTENDS Naturals, Sequences, FiniteSets, SequencesExt

CONSTANTS Chunks, NoChunk, kElementsPerChunk

ASSUME SizeAssumption == kElementsPerChunk \in Nat \ {0}
ASSUME NoChunkAssumption == NoChunk \notin Chunks

Places == 1..kElementsPerChunk
Elements == Chunks \X Places
ElementsOf(c) == {c} \X Places

VARIABLES
    chunks, freeList,
    isFree,             \* the elements whose free_ is set
    held,               \* elements that an iterator still refers to
    pc,                 \* what the mutator does
    todo,               \* chunks that collect() or forEach() has not finished
    chunk, place,       \* the one it has come to, and the element there
    target,             \* collect(): targetChunkCount,
    newFreeList, occupied,
    visited             \* forEach(): the elements that accept() was called for

sharedVars == <<isFree, held>>
listVars == <<chunks, freeList>>
loopVars == <<todo, chunk, place>>
collectVars == <<target, newFreeList, occupied>>
chunksVars == <<sharedVars, listVars, pc, loopVars, collectVars, visited>>

InChunks == chunks \X Places

------------------------------------------------------------------------------
(* Going through the chunks: the loops of collect() and forEach().            *)

StartLoop == todo' = chunks /\ chunk' = NoChunk /\ place' = 0

NextChunk ==
    /\ chunk = NoChunk /\ chunk' \in todo
    /\ todo' = todo \ {chunk'} /\ place' = 0

AtElement == chunk # NoChunk /\ place < kElementsPerChunk
NextElement == place' = place + 1 /\ UNCHANGED <<todo, chunk>>

AtEnd == chunk # NoChunk /\ place = kElementsPerChunk
LeaveChunk == chunk' = NoChunk /\ place' = 0 /\ UNCHANGED todo

LoopOver == chunk = NoChunk /\ todo = {}

\* Is the element in this place free?  Mutated form: the one before it.
FreeAt_Before(n) == <<chunk, n - 1>> \in isFree
FreeAt(n) == <<chunk, n>> \in isFree

------------------------------------------------------------------------------
(* add().                                                                     *)

\* If no free element is left: take a new chunk, or collect and then see.
Add ==
    /\ pc = "idle"
    /\ \/ pc' = "add" /\ UNCHANGED <<freeList, loopVars, collectVars>>
       \/ /\ freeList = <<>>
          /\ pc' = "collect" /\ target' \in 0..Cardinality(chunks) /\ StartLoop
          /\ UNCHANGED <<freeList, newFreeList, occupied>>
    /\ UNCHANGED <<sharedVars, chunks, visited>>

\* The elements of a new chunk are linked from the high address to the low one.
AllocateChunk ==
    /\ pc = "add" /\ freeList = <<>>
    /\ \E c \in Chunks \ chunks :
         /\ chunks' = chunks \cup {c}
         /\ freeList' = [n \in Places |-> <<c, kElementsPerChunk + 1 - n>>]
         /\ isFree' = isFree \cup ElementsOf(c)
    /\ UNCHANGED <<held, pc, loopVars, collectVars, visited>>

Emplace ==
    /\ pc = "add" /\ freeList # <<>>
    /\ freeList' = Tail(freeList)
    /\ isFree' = isFree \ {Head(freeList)}
    /\ held' = held \cup {Head(freeList)}
    /\ pc' = "idle"
    /\ UNCHANGED <<chunks, loopVars, collectVars, visited>>

\* All of the Chunks, a bound, are in use, and nothing is free.
OutOfChunks ==
    /\ pc = "add" /\ freeList = <<>> /\ chunks = Chunks
    /\ pc' = "idle"
    /\ UNCHANGED <<sharedVars, listVars, loopVars, collectVars, visited>>

------------------------------------------------------------------------------
(* collect(), which starts with an empty free list.                           *)

StartCount == occupied' = 0

StartChunk ==
    /\ pc = "collect" /\ NextChunk /\ StartCount
    /\ newFreeList' = freeList
    /\ UNCHANGED <<sharedVars, listVars, pc, target, visited>>

\* An element's flag is read once: it goes to the list, or it is counted.
\* Mutated form: one that is not free is not counted.
Count_Not == UNCHANGED occupied
Count == occupied' = IF FreeAt(place') THEN occupied ELSE occupied + 1

ScanElement ==
    /\ pc = "collect" /\ AtElement /\ NextElement /\ Count
    /\ newFreeList' = IF FreeAt(place') THEN <<<<chunk, place'>>>> \o newFreeList
                                        ELSE newFreeList
    /\ UNCHANGED <<sharedVars, listVars, pc, target, visited>>

\* A chunk is deleted together with what would go on the list for it.
DeleteChunk ==
    /\ chunks' = chunks \ {chunk} /\ isFree' = isFree \ ElementsOf(chunk)
    /\ UNCHANGED freeList

FinishChunk ==
    /\ pc = "collect" /\ AtEnd /\ LeaveChunk
    /\ IF occupied = 0 /\ Cardinality(chunks) > target
       THEN DeleteChunk
       ELSE freeList' = newFreeList /\ UNCHANGED <<chunks, isFree>>
    /\ newFreeList' = <<>>
    /\ UNCHANGED <<held, pc, target, occupied, visited>>

CollectDone ==
    /\ pc = "collect" /\ LoopOver /\ pc' = "add"
    /\ target' = 0 /\ occupied' = 0
    /\ UNCHANGED <<sharedVars, listVars, loopVars, newFreeList, visited>>

------------------------------------------------------------------------------
(* forEach(): the flag of each element is read, then accept() is called.      *)

ForEach ==
    /\ pc = "idle" /\ pc' = "forEach" /\ StartLoop /\ visited' = {}
    /\ UNCHANGED <<sharedVars, listVars, collectVars>>

CheckElement ==
    /\ pc = "forEach"
    /\ \/ (NextChunk \/ (AtEnd /\ LeaveChunk)) /\ UNCHANGED pc
       \/ AtElement /\ NextElement /\ pc' = IF FreeAt(place') THEN pc ELSE "accept"
    /\ UNCHANGED <<sharedVars, listVars, collectVars, visited>>

Accept ==
    /\ pc = "accept" /\ pc' = "forEach"
    /\ visited' = visited \cup {<<chunk, place>>}
    /\ UNCHANGED <<sharedVars, listVars, loopVars, collectVars>>

ForEachDone ==
    /\ pc = "forEach" /\ LoopOver /\ pc' = "idle" /\ visited' = {}
    /\ UNCHANGED <<sharedVars, listVars, loopVars, collectVars>>

------------------------------------------------------------------------------
\* An element is set free, by the destructor of its iterator's context: on the
\* mutator, or in a finalizer at any time.
FreeElement(e) ==
    /\ e \in held
    /\ held' = held \ {e} /\ isFree' = isFree \cup {e}
    /\ UNCHANGED <<listVars, pc, loopVars, collectVars, visited>>

ChunksInit ==
    /\ chunks = {} /\ freeList = <<>> /\ isFree = {} /\ held = {}
    /\ pc = "idle" /\ todo = {} /\ chunk = NoChunk /\ place = 0
    /\ target = 0 /\ newFreeList = <<>> /\ occupied = 0 /\ visited = {}

Mutator ==
    \/ Add \/ AllocateChunk \/ Emplace \/ OutOfChunks
    \/ StartChunk \/ ScanElement \/ FinishChunk \/ CollectDone
    \/ ForEach \/ CheckElement \/ Accept \/ ForEachDone

ChunksNext == Mutator \/ \E e \in Elements : FreeElement(e)
ChunksSpec == ChunksInit /\ [][ChunksNext]_chunksVars

------------------------------------------------------------------------------
(* Properties.                                                                *)

\* Types; a count does not exceed a chunk.
TypeOK ==
    /\ chunks \subseteq Chunks /\ todo \subseteq chunks
    /\ chunk \in chunks \cup {NoChunk}
    /\ freeList \in Seq(Elements) /\ newFreeList \in Seq(Elements)
    /\ isFree \subseteq InChunks /\ held \subseteq Elements /\ visited \subseteq Elements
    /\ pc \in {"idle", "add", "collect", "forEach", "accept"}
    /\ target \in Nat /\ place \in 0..kElementsPerChunk
    /\ occupied \in 0..kElementsPerChunk

\* An element that an iterator still refers to is in a chunk that has not been
\* deleted and is not on offer, at whatever point of a collection the background
\* thread set others free ("Premature element reuse").
HeldSafe == held \subseteq InChunks \ (isFree \cup ToSet(freeList))

\* The free list, at any time, and the one under construction hold free elements
\* of chunks that exist, each of them once.
FreeListExact ==
    /\ IsInjective(freeList) /\ ToSet(freeList) \subseteq isFree
    /\ pc = "collect" /\ chunk # NoChunk =>
         IsInjective(newFreeList) /\ ToSet(newFreeList) \subseteq isFree

\* The elements of iterators that live through all of a forEach() are visited:
\* no index is left unadjusted by a rehash.
AllVisited == pc = "forEach" /\ LoopOver => held \subseteq visited
==============================================================================
