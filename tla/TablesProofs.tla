----------------------------- MODULE TablesProofs -----------------------------
(* Proofs about ManagedChunkedList, for any number and size of chunks, about  *)
(* LimitedStorageProvider, for any limit, and about IdentifierTable, for any  *)
(* strings, hash function, slots and bounds.                                  *)
(*                                                                            *)
(* HeldSafe is inductive only together with what a collection knows of the    *)
(* chunk it is in: a count of zero means that no element scanned so far is    *)
(* held (Scanned), although others may have been set free since they were     *)
(* counted; and what the free list holds already is from chunks that are      *)
(* finished (ListInv), so that no element is put on it twice.                 *)
(*                                                                            *)
(* That every symbol is found rests on the probes of a table of 2^k places,   *)
(* which are all different (ProbesDiffer), so that a lookup ends; on the      *)
(* deleted places, which keep later ones reachable (Reached); and on a        *)
(* quarter of the table that is always empty (NeverFull).  That no symbol in  *)
(* use is freed rests on what the marker will still come to (Kept).           *)
EXTENDS ManagedChunkedList, LimitedStorageProvider, IdentifierTable,
        FiniteSetTheorems, SequenceTheorems, WellFoundedInduction, TLAPS

\* The elements of the current chunk that have been scanned.
Seen == {chunk} \X (1..place)

LoopInv ==
    /\ pc \in {"idle", "add"} => chunk = NoChunk
    /\ chunk \notin todo
    /\ pc = "accept" => chunk # NoChunk /\ place > 0
    /\ chunk = NoChunk => place = 0

Scanned ==
    pc = "collect" /\ chunk # NoChunk =>
        occupied <= place /\ (occupied = 0 => held \cap Seen = {})

ListInv ==
    pc = "collect" =>
        /\ ToSet(freeList) \cap ((todo \cup {chunk}) \X Places) = {}
        /\ chunk # NoChunk => ToSet(newFreeList) \subseteq ToSet(freeList) \cup Seen

ChunksInv == TypeOK /\ HeldSafe /\ FreeListExact /\ LoopInv /\ Scanned /\ ListInv

USE SizeAssumption, NoChunkAssumption

------------------------------------------------------------------------------
(* Free lists.                                                                *)

\* Taking the first element off a list without duplicates.
LEMMA TakeHead ==
    ASSUME NEW S, NEW s \in Seq(S), s # <<>>, IsInjective(s)
    PROVE  /\ Head(s) \in S /\ Tail(s) \in Seq(S) /\ IsInjective(Tail(s))
           /\ ToSet(Tail(s)) = ToSet(s) \ {Head(s)} /\ Head(s) \in ToSet(s)
<1>1. Head(s) = s[1] /\ Head(s) \in S /\ Tail(s) \in Seq(S) /\ 1 \in DOMAIN s
  OBVIOUS
<1>2. /\ DOMAIN Tail(s) = 1..(Len(s) - 1) /\ DOMAIN s = 1..Len(s) /\ Len(s) \in Nat
      /\ \A n \in DOMAIN Tail(s) : Tail(s)[n] = s[n + 1] /\ n + 1 \in DOMAIN s
  OBVIOUS
<1>3. IsInjective(Tail(s))
  BY <1>2 DEF IsInjective
<1>4. ToSet(Tail(s)) \subseteq ToSet(s) \ {Head(s)}
  BY <1>1, <1>2 DEF IsInjective, ToSet
<1>5. ASSUME NEW n \in DOMAIN s, s[n] # Head(s)
      PROVE  s[n] \in ToSet(Tail(s))
  <2>1. n - 1 \in DOMAIN Tail(s)
    BY <1>1, <1>2, <1>5
  <2> QED
    BY <1>2, <2>1 DEF ToSet
<1> QED
  BY <1>1, <1>3, <1>4, <1>5 DEF ToSet

\* Putting an element that is not on a list in front of it.
LEMMA Prepend ==
    ASSUME NEW S, NEW s \in Seq(S), NEW e \in S, IsInjective(s), e \notin ToSet(s)
    PROVE  /\ <<e>> \o s \in Seq(S) /\ IsInjective(<<e>> \o s)
           /\ ToSet(<<e>> \o s) = {e} \cup ToSet(s)
<1> DEFINE t == <<e>> \o s
<1>1. /\ t \in Seq(S) /\ DOMAIN t = 1..(Len(s) + 1) /\ DOMAIN s = 1..Len(s)
      /\ Len(s) \in Nat /\ t[1] = e
  OBVIOUS
<1>2. \A n \in DOMAIN s : n + 1 \in DOMAIN t /\ t[n + 1] = s[n]
  OBVIOUS
<1>3. \A n \in DOMAIN t : n # 1 => n - 1 \in DOMAIN s /\ t[n] = s[n - 1]
  OBVIOUS
<1> HIDE DEF t
<1>4. IsInjective(t)
  BY <1>1, <1>3 DEF IsInjective, ToSet
<1>5. ToSet(t) = {e} \cup ToSet(s)
  <2>1. ToSet(t) \subseteq {e} \cup ToSet(s)
    BY <1>1, <1>3 DEF ToSet
  <2>2. {e} \cup ToSet(s) \subseteq ToSet(t)
    BY <1>1, <1>2 DEF ToSet
  <2> QED
    BY <2>1, <2>2
<1> QED
  BY <1>1, <1>4, <1>5 DEF t

\* The elements of a new chunk, linked from the last one to the first.
LEMMA NewList ==
    ASSUME NEW c \in Chunks
    PROVE  LET list == [n \in Places |-> <<c, kElementsPerChunk + 1 - n>>] IN
           list \in Seq(Elements) /\ IsInjective(list) /\ ToSet(list) \subseteq ElementsOf(c)
<1> DEFINE list == [n \in Places |-> <<c, kElementsPerChunk + 1 - n>>]
<1>1. \A n \in Places : kElementsPerChunk + 1 - n \in Places
  BY DEF Places
<1>2. \A n \in Places : list[n] \in ElementsOf(c) /\ list[n] \in Elements
  BY <1>1 DEF ElementsOf, Elements
<1>3. list \in Seq(Elements)
  BY <1>2 DEF Places
<1>4. IsInjective(list)
  BY DEF IsInjective, Places
<1>5. ToSet(list) \subseteq ElementsOf(c)
  BY <1>2 DEF ToSet
<1> QED
  BY <1>3, <1>4, <1>5

------------------------------------------------------------------------------
(* The inductive invariant.  Each step keeps each part of it.                 *)

\* The empty list.
LEMMA EmptyList == ToSet(<<>>) = {} /\ IsInjective(<<>>)
BY DEF ToSet, IsInjective

USE DEF ChunksInv, TypeOK, HeldSafe, FreeListExact, LoopInv, Scanned, ListInv, Seen,
        InChunks, Elements, Places, sharedVars, listVars, loopVars, collectVars

\* The initial states.
LEMMA InitInd == ChunksInit => ChunksInv
BY EmptyList DEF ChunksInit

\* The free list is empty when a collection starts.
LEMMA AddInd == ChunksInv /\ Add => ChunksInv'
<1> SUFFICES ASSUME ChunksInv, Add PROVE ChunksInv'
  OBVIOUS
<1>1. TypeOK'
  BY EmptyList DEF Add, StartLoop
<1>2. HeldSafe'
  BY EmptyList DEF Add, StartLoop
<1>3. FreeListExact'
  BY EmptyList DEF Add, StartLoop
<1>4. LoopInv'
  BY EmptyList DEF Add, StartLoop
<1>5. Scanned'
  BY EmptyList DEF Add, StartLoop
<1>6. ListInv'
  BY EmptyList DEF Add, StartLoop
<1> QED
  BY <1>1, <1>2, <1>3, <1>4, <1>5, <1>6

\* A new chunk holds no element that is held.
LEMMA AllocateChunkInd == ChunksInv /\ AllocateChunk => ChunksInv'
<1> SUFFICES ASSUME ChunksInv, AllocateChunk PROVE ChunksInv'
  OBVIOUS
<1>0. PICK c \in Chunks \ chunks :
         /\ chunks' = chunks \cup {c}
         /\ freeList' = [n \in Places |-> <<c, kElementsPerChunk + 1 - n>>]
         /\ isFree' = isFree \cup ElementsOf(c)
  BY DEF AllocateChunk
<1>a. /\ freeList' \in Seq(Elements) /\ IsInjective(freeList')
      /\ ToSet(freeList') \subseteq ElementsOf(c)
  BY <1>0, NewList
<1>b. InChunks' = InChunks \cup ElementsOf(c) /\ held \cap ElementsOf(c) = {}
  BY <1>0 DEF ElementsOf
<1>1. TypeOK'
  BY <1>0, <1>a, <1>b DEF AllocateChunk, ElementsOf
<1>2. HeldSafe'
  BY <1>0, <1>a, <1>b DEF AllocateChunk, ElementsOf
<1>3. FreeListExact'
  BY <1>0, <1>a, <1>b DEF AllocateChunk, ElementsOf
<1>4. LoopInv'
  BY <1>0, <1>a, <1>b DEF AllocateChunk, ElementsOf
<1>5. Scanned'
  BY <1>0, <1>a, <1>b DEF AllocateChunk, ElementsOf
<1>6. ListInv'
  BY <1>0, <1>a, <1>b DEF AllocateChunk, ElementsOf
<1> QED
  BY <1>1, <1>2, <1>3, <1>4, <1>5, <1>6

\* The element taken leaves the list and the free elements together.
LEMMA EmplaceInd == ChunksInv /\ Emplace => ChunksInv'
<1> SUFFICES ASSUME ChunksInv, Emplace PROVE ChunksInv'
  OBVIOUS
<1>a. /\ Head(freeList) \in Elements /\ freeList' \in Seq(Elements)
      /\ IsInjective(freeList') /\ ToSet(freeList') = ToSet(freeList) \ {Head(freeList)}
      /\ Head(freeList) \in ToSet(freeList)
  BY TakeHead DEF Emplace
<1>1. TypeOK'
  BY <1>a DEF Emplace
<1>2. HeldSafe'
  BY <1>a DEF Emplace
<1>3. FreeListExact'
  BY <1>a DEF Emplace
<1>4. LoopInv'
  BY <1>a DEF Emplace
<1>5. Scanned'
  BY <1>a DEF Emplace
<1>6. ListInv'
  BY <1>a DEF Emplace
<1> QED
  BY <1>1, <1>2, <1>3, <1>4, <1>5, <1>6

\* Nothing but pc changes.
LEMMA OutOfChunksInd == ChunksInv /\ OutOfChunks => ChunksInv'
<1> SUFFICES ASSUME ChunksInv, OutOfChunks PROVE ChunksInv'
  OBVIOUS
<1>1. TypeOK'
  BY DEF OutOfChunks
<1>2. HeldSafe'
  BY DEF OutOfChunks
<1>3. FreeListExact'
  BY DEF OutOfChunks
<1>4. LoopInv'
  BY DEF OutOfChunks
<1>5. Scanned'
  BY DEF OutOfChunks
<1>6. ListInv'
  BY DEF OutOfChunks
<1> QED
  BY <1>1, <1>2, <1>3, <1>4, <1>5, <1>6

\* The list under construction starts as the free list.
LEMMA StartChunkInd == ChunksInv /\ StartChunk => ChunksInv'
<1> SUFFICES ASSUME ChunksInv, StartChunk PROVE ChunksInv'
  OBVIOUS
<1>1. TypeOK'
  BY DEF StartChunk, NextChunk, StartCount
<1>2. HeldSafe'
  BY DEF StartChunk, NextChunk, StartCount
<1>3. FreeListExact'
  BY DEF StartChunk, NextChunk, StartCount
<1>4. LoopInv'
  BY DEF StartChunk, NextChunk, StartCount
<1>5. Scanned'
  BY DEF StartChunk, NextChunk, StartCount
<1>6. ListInv'
  BY DEF StartChunk, NextChunk, StartCount
<1> QED
  BY <1>1, <1>2, <1>3, <1>4, <1>5, <1>6

\* What is put on the list is free and is not on it yet; a held element is counted.
LEMMA ScanElementInd == ChunksInv /\ ScanElement => ChunksInv'
<1> SUFFICES ASSUME ChunksInv, ScanElement PROVE ChunksInv'
  OBVIOUS
<1> DEFINE e == <<chunk, place + 1>>
<1>0. /\ e \in Elements /\ e \in InChunks /\ place' = place + 1 /\ chunk' = chunk
      /\ chunk # NoChunk /\ place \in Nat /\ pc = "collect"
      /\ IsInjective(newFreeList) /\ newFreeList \in Seq(Elements)
      /\ ToSet(newFreeList) \subseteq isFree /\ UNCHANGED <<isFree, held>>
  BY DEF ScanElement, AtElement, NextElement
<1>a. e \notin ToSet(newFreeList)
  BY <1>0
<1>b. /\ newFreeList' \in Seq(Elements) /\ IsInjective(newFreeList')
      /\ ToSet(newFreeList') \subseteq (ToSet(newFreeList) \cup {e}) \cap isFree
  <2>1. CASE e \in isFree
    <3>1. newFreeList' = <<e>> \o newFreeList
      BY <1>0, <2>1 DEF ScanElement, FreeAt
    <3> HIDE DEF e
    <3>2. /\ <<e>> \o newFreeList \in Seq(Elements) /\ IsInjective(<<e>> \o newFreeList)
          /\ ToSet(<<e>> \o newFreeList) = {e} \cup ToSet(newFreeList)
      BY <1>0, <1>a, Prepend
    <3> QED
      BY <1>0, <2>1, <3>1, <3>2
  <2>2. CASE e \notin isFree
    <3>1. newFreeList' = newFreeList
      BY <1>0, <2>2 DEF ScanElement, FreeAt
    <3> QED
      BY <1>0, <3>1
  <2> QED
    BY <2>1, <2>2
<1>c. Seen' = Seen \cup {e}
  BY <1>0
<1>d. occupied' = (IF e \in isFree THEN occupied ELSE occupied + 1) /\ occupied \in Nat
  BY <1>0 DEF ScanElement, Count, FreeAt
<1>e. e \in isFree => e \notin held
  OBVIOUS
<1>1. TypeOK'
  BY <1>0, <1>b, <1>c, <1>d, <1>e DEF ScanElement, AtElement, NextElement, Count, FreeAt
<1>2. HeldSafe'
  BY <1>0, <1>b, <1>c, <1>d, <1>e DEF ScanElement, AtElement, NextElement, Count, FreeAt
<1>3. FreeListExact'
  BY <1>0, <1>b, <1>c, <1>d, <1>e DEF ScanElement, AtElement, NextElement, Count, FreeAt
<1>4. LoopInv'
  BY <1>0, <1>b, <1>c, <1>d, <1>e DEF ScanElement, AtElement, NextElement, Count, FreeAt
<1>5. Scanned'
  <2> HIDE DEF e, Seen
  <2> QED
    BY <1>0, <1>c, <1>d, <1>e DEF ScanElement
<1>6. ListInv'
  BY <1>0, <1>b, <1>c, <1>d, <1>e DEF ScanElement, AtElement, NextElement, Count, FreeAt
<1> QED
  BY <1>1, <1>2, <1>3, <1>4, <1>5, <1>6

\* A chunk that is deleted has no held element; one that stays leaves its list.
LEMMA FinishChunkInd == ChunksInv /\ FinishChunk => ChunksInv'
<1> SUFFICES ASSUME ChunksInv, FinishChunk PROVE ChunksInv'
  OBVIOUS
<1>1. TypeOK'
  BY EmptyList DEF FinishChunk, AtEnd, LeaveChunk, DeleteChunk, ElementsOf
<1>2. HeldSafe'
  BY EmptyList DEF FinishChunk, AtEnd, LeaveChunk, DeleteChunk, ElementsOf
<1>3. FreeListExact'
  BY EmptyList DEF FinishChunk, AtEnd, LeaveChunk, DeleteChunk, ElementsOf
<1>4. LoopInv'
  BY EmptyList DEF FinishChunk, AtEnd, LeaveChunk, DeleteChunk, ElementsOf
<1>5. Scanned'
  BY EmptyList DEF FinishChunk, AtEnd, LeaveChunk, DeleteChunk, ElementsOf
<1>6. ListInv'
  BY EmptyList DEF FinishChunk, AtEnd, LeaveChunk, DeleteChunk, ElementsOf
<1> QED
  BY <1>1, <1>2, <1>3, <1>4, <1>5, <1>6

\* All chunks are finished.
LEMMA CollectDoneInd == ChunksInv /\ CollectDone => ChunksInv'
<1> SUFFICES ASSUME ChunksInv, CollectDone PROVE ChunksInv'
  OBVIOUS
<1>1. TypeOK'
  BY DEF CollectDone, LoopOver
<1>2. HeldSafe'
  BY DEF CollectDone, LoopOver
<1>3. FreeListExact'
  BY DEF CollectDone, LoopOver
<1>4. LoopInv'
  BY DEF CollectDone, LoopOver
<1>5. Scanned'
  BY DEF CollectDone, LoopOver
<1>6. ListInv'
  BY DEF CollectDone, LoopOver
<1> QED
  BY <1>1, <1>2, <1>3, <1>4, <1>5, <1>6

\* No list is touched.
LEMMA ForEachInd == ChunksInv /\ ForEach => ChunksInv'
<1> SUFFICES ASSUME ChunksInv, ForEach PROVE ChunksInv'
  OBVIOUS
<1>1. TypeOK'
  BY DEF ForEach, StartLoop
<1>2. HeldSafe'
  BY DEF ForEach, StartLoop
<1>3. FreeListExact'
  BY DEF ForEach, StartLoop
<1>4. LoopInv'
  BY DEF ForEach, StartLoop
<1>5. Scanned'
  BY DEF ForEach, StartLoop
<1>6. ListInv'
  BY DEF ForEach, StartLoop
<1> QED
  BY <1>1, <1>2, <1>3, <1>4, <1>5, <1>6

\* No list is touched.
LEMMA CheckElementInd == ChunksInv /\ CheckElement => ChunksInv'
<1> SUFFICES ASSUME ChunksInv, CheckElement PROVE ChunksInv'
  OBVIOUS
<1>1. TypeOK'
  BY DEF CheckElement, NextChunk, AtEnd, LeaveChunk, AtElement, NextElement, FreeAt
<1>2. HeldSafe'
  BY DEF CheckElement, NextChunk, AtEnd, LeaveChunk, AtElement, NextElement, FreeAt
<1>3. FreeListExact'
  BY DEF CheckElement, NextChunk, AtEnd, LeaveChunk, AtElement, NextElement, FreeAt
<1>4. LoopInv'
  BY DEF CheckElement, NextChunk, AtEnd, LeaveChunk, AtElement, NextElement, FreeAt
<1>5. Scanned'
  BY DEF CheckElement, NextChunk, AtEnd, LeaveChunk, AtElement, NextElement, FreeAt
<1>6. ListInv'
  BY DEF CheckElement, NextChunk, AtEnd, LeaveChunk, AtElement, NextElement, FreeAt
<1> QED
  BY <1>1, <1>2, <1>3, <1>4, <1>5, <1>6

\* No list is touched.
LEMMA AcceptInd == ChunksInv /\ Accept => ChunksInv'
<1> SUFFICES ASSUME ChunksInv, Accept PROVE ChunksInv'
  OBVIOUS
<1>1. TypeOK'
  BY DEF Accept
<1>2. HeldSafe'
  BY DEF Accept
<1>3. FreeListExact'
  BY DEF Accept
<1>4. LoopInv'
  BY DEF Accept
<1>5. Scanned'
  BY DEF Accept
<1>6. ListInv'
  BY DEF Accept
<1> QED
  BY <1>1, <1>2, <1>3, <1>4, <1>5, <1>6

\* No list is touched.
LEMMA ForEachDoneInd == ChunksInv /\ ForEachDone => ChunksInv'
<1> SUFFICES ASSUME ChunksInv, ForEachDone PROVE ChunksInv'
  OBVIOUS
<1>1. TypeOK'
  BY DEF ForEachDone, LoopOver
<1>2. HeldSafe'
  BY DEF ForEachDone, LoopOver
<1>3. FreeListExact'
  BY DEF ForEachDone, LoopOver
<1>4. LoopInv'
  BY DEF ForEachDone, LoopOver
<1>5. Scanned'
  BY DEF ForEachDone, LoopOver
<1>6. ListInv'
  BY DEF ForEachDone, LoopOver
<1> QED
  BY <1>1, <1>2, <1>3, <1>4, <1>5, <1>6

\* An element set free by the background thread is on no list.
LEMMA FreeElementInd ==
    ASSUME NEW e \in Elements, ChunksInv, FreeElement(e)
    PROVE  ChunksInv'
<1>1. TypeOK'
  BY DEF FreeElement
<1>2. HeldSafe'
  BY DEF FreeElement
<1>3. FreeListExact'
  BY DEF FreeElement
<1>4. LoopInv'
  BY DEF FreeElement
<1>5. Scanned'
  BY DEF FreeElement
<1>6. ListInv'
  BY DEF FreeElement
<1> QED
  BY <1>1, <1>2, <1>3, <1>4, <1>5, <1>6

\* A step that changes nothing.
LEMMA StutterInd == ChunksInv /\ UNCHANGED chunksVars => ChunksInv'
BY DEF chunksVars

HIDE DEF ChunksInv, TypeOK, HeldSafe, FreeListExact

\* The inductive invariant holds in every behaviour.
THEOREM Inductive == ChunksSpec => []ChunksInv
<1>1. ChunksInv /\ [ChunksNext]_chunksVars => ChunksInv'
  BY AddInd, AllocateChunkInd, EmplaceInd, OutOfChunksInd, StartChunkInd,
     ScanElementInd, FinishChunkInd, CollectDoneInd, ForEachInd, CheckElementInd,
     AcceptInd, ForEachDoneInd, FreeElementInd, StutterInd DEF ChunksNext, Mutator
<1> QED
  BY <1>1, InitInd, PTL DEF ChunksSpec

\* Types; in particular the count of a collection never exceeds a chunk.
THEOREM TypeCorrect == ChunksSpec => []TypeOK
<1>1. ChunksInv => TypeOK
  BY DEF ChunksInv
<1> QED
  BY <1>1, Inductive, PTL

\* No element that an iterator refers to is deleted or offered for reuse.
THEOREM HeldSafety == ChunksSpec => []HeldSafe
<1>1. ChunksInv => HeldSafe
  BY DEF ChunksInv
<1> QED
  BY <1>1, Inductive, PTL

\* The free list holds free elements of existing chunks, each of them once.
THEOREM FreeListSafety == ChunksSpec => []FreeListExact
<1>1. ChunksInv => FreeListExact
  BY DEF ChunksInv
<1> QED
  BY <1>1, Inductive, PTL

------------------------------------------------------------------------------
(* forEach().                                                                 *)

\* forEach() will still come to element e.
ToVisit(e) ==
    \/ e[1] \in todo
    \/ e[1] = chunk /\ (e[2] > place \/ (pc = "accept" /\ e[2] = place))

\* What is still held has been visited or will be.
VisitInv ==
    pc \in {"forEach", "accept"} => \A e \in held : e \in visited \/ ToVisit(e)

\* The invariant makes sure of the types of what is held.
LEMMA HeldType ==
    ASSUME ChunksInv
    PROVE  /\ \A e \in held : /\ e[1] \in chunks /\ e[1] # NoChunk
                              /\ e[2] \in Places /\ e = <<e[1], e[2]>>
                              /\ e \notin isFree
           /\ place \in 0 .. kElementsPerChunk
BY DEF ChunksInv, TypeOK, HeldSafe, InChunks, Elements

\* Every step of forEach() moves on by one element, which it visits unless it
\* is free; what is set free meanwhile is not held any more.
LEMMA VisitStep ==
    ASSUME ChunksInv, VisitInv, [ChunksNext]_chunksVars
    PROVE  VisitInv'
<1> SUFFICES ASSUME pc' \in {"forEach", "accept"}, NEW e \in held'
             PROVE  e \in visited' \/ ToVisit(e)'
  BY DEF VisitInv
<1>1. CASE ForEach
  <2>1. e \in held /\ todo' = chunks
    BY <1>1 DEF ForEach, StartLoop, sharedVars
  <2> QED
    BY <2>1, HeldType DEF ToVisit
<1>2. CASE CheckElement
  <2>1. e \in held /\ visited' = visited /\ pc = "forEach"
    BY <1>2 DEF CheckElement, sharedVars
  <2>2. e \in visited \/ ToVisit(e)
    BY <2>1 DEF VisitInv
  <2>3. /\ e[1] \in chunks /\ e[1] # NoChunk /\ e[2] \in 1 .. kElementsPerChunk
        /\ e = <<e[1], e[2]>> /\ e \notin isFree /\ place \in 0 .. kElementsPerChunk
    BY <2>1, HeldType DEF Places
  <2>4. CASE NextChunk
    <3>1. e[1] = chunk' => e[2] > place'
      BY <2>3, <2>4 DEF NextChunk
    <3> QED
      BY <2>1, <2>2, <2>3, <2>4, <3>1 DEF NextChunk, ToVisit
  <2>5. CASE AtEnd /\ LeaveChunk
    <3>1. ~(e[2] > place)
      BY <2>3, <2>5 DEF AtEnd
    <3> QED
      BY <2>1, <2>2, <2>5, <3>1 DEF LeaveChunk, ToVisit
  <2>6. CASE AtElement /\ NextElement /\ pc' = IF FreeAt(place') THEN pc ELSE "accept"
    <3>1. todo' = todo /\ chunk' = chunk /\ place' = place + 1
      BY <2>6 DEF NextElement
    <3>2. e[2] > place => e[2] > place' \/ e[2] = place'
      BY <2>3, <3>1
    <3>3. e[1] = chunk /\ e[2] = place' => pc' = "accept"
      BY <2>3, <2>6 DEF FreeAt
    <3> QED
      BY <2>1, <2>2, <3>1, <3>2, <3>3 DEF ToVisit
  <2> QED
    BY <1>2, <2>4, <2>5, <2>6 DEF CheckElement
<1>3. CASE Accept
  <2>1. /\ e \in held /\ visited' = visited \cup {<<chunk, place>>} /\ pc = "accept"
        /\ todo' = todo /\ chunk' = chunk /\ place' = place
    BY <1>3 DEF Accept, sharedVars, loopVars
  <2>2. e \in visited \/ ToVisit(e)
    BY <2>1 DEF VisitInv
  <2>3. e = <<e[1], e[2]>>
    BY <2>1, HeldType
  <2> QED
    BY <2>1, <2>2, <2>3 DEF ToVisit
<1>4. CASE \/ \E f \in Elements : FreeElement(f)
           \/ UNCHANGED chunksVars
  <2>1. /\ e \in held /\ visited' = visited /\ pc' = pc
        /\ todo' = todo /\ chunk' = chunk /\ place' = place
    BY <1>4 DEF FreeElement, chunksVars, sharedVars, loopVars
  <2>2. e \in visited \/ ToVisit(e)
    BY <2>1 DEF VisitInv
  <2> QED
    BY <2>1, <2>2 DEF ToVisit
<1>5. CASE \/ Add \/ AllocateChunk \/ Emplace \/ OutOfChunks
           \/ StartChunk \/ ScanElement \/ FinishChunk \/ CollectDone \/ ForEachDone
  BY <1>5 DEF Add, AllocateChunk, Emplace, OutOfChunks, StartChunk, ScanElement,
              FinishChunk, CollectDone, ForEachDone
<1> QED
  BY <1>1, <1>2, <1>3, <1>4, <1>5 DEF ChunksNext, Mutator

\* The elements of iterators that live through a forEach() are visited.
THEOREM VisitsAll == ChunksSpec => []AllVisited
<1>1. ChunksInit => VisitInv
  BY DEF ChunksInit, VisitInv
<1>2. ChunksInv /\ VisitInv /\ [ChunksNext]_chunksVars => VisitInv'
  BY VisitStep
<1>3. ChunksInv /\ VisitInv => AllVisited
  <2> SUFFICES ASSUME ChunksInv, VisitInv, pc = "forEach", LoopOver, NEW e \in held
               PROVE  e \in visited
    BY DEF AllVisited
  <2>1. e \in visited \/ ToVisit(e)
    BY DEF VisitInv
  <2>2. e[1] # NoChunk /\ chunk = NoChunk /\ todo = {}
    BY HeldType DEF LoopOver
  <2> QED
    BY <2>1, <2>2 DEF ToVisit
<1> QED
  BY <1>1, <1>2, <1>3, Inductive, PTL DEF ChunksSpec

------------------------------------------------------------------------------
(* The budget of a LimitedStorageProvider.                                    *)
(*                                                                            *)
(* What is left of the budget, what is asked for and what is in use are never *)
(* more than the limit together; they are less once the delegate has failed.  *)

LimitTypes ==
    /\ limit \in Nat /\ delegated \in {0, 1} /\ sizeOf \in [Storages -> {0, 1}]
    /\ IsFiniteSet(SegmentsInUse)
LimitInv ==
    LimitTypes /\ limit + delegated + Cardinality(SegmentsInUse) <= Limit

\* The segments that are in use, when each storage is one.
LEMMA SegmentsAre ==
    ASSUME NEW sizes \in [Storages -> {0, 1}]
    PROVE  UNION {{p} \X (1..sizes[p]) : p \in Storages}
             = {p \in Storages : sizes[p] = 1} \X {1}
<1>1. ASSUME NEW p \in Storages
      PROVE  1..sizes[p] = IF sizes[p] = 1 THEN {1} ELSE {}
  <2>1. 1..0 = {} /\ 1..1 = {1}
    OBVIOUS
  <2>2. sizes[p] = 0 \/ sizes[p] = 1
    OBVIOUS
  <2> QED
    BY <2>1, <2>2
<1> QED
  BY <1>1

\* The budget is kept, if requests are for one segment each.
LEMMA LimitInductive ==
    ASSUME Sizes \subseteq {1}
    PROVE  LimitInv /\ [LimitNext]_limitVars => LimitInv'
<1> SUFFICES ASSUME LimitInv, [LimitNext]_limitVars PROVE LimitInv'
  OBVIOUS
<1> DEFINE U == SegmentsInUse
<1>1. /\ limit \in Nat /\ delegated \in {0, 1} /\ sizeOf \in [Storages -> {0, 1}]
      /\ IsFiniteSet(U) /\ Cardinality(U) \in Nat
      /\ limit + delegated + Cardinality(U) <= Limit
      /\ Limit \in Nat /\ SizeMax \in Nat /\ Limit < SizeMax
  BY LimitAssumption, FS_CardinalityType DEF LimitInv, LimitTypes
<1>2. U = {p \in Storages : sizeOf[p] = 1} \X {1}
  BY <1>1, SegmentsAre DEF SegmentsInUse
<1>3. sizeOf' \in [Storages -> {0, 1}] =>
        U' = {p \in Storages : sizeOf'[p] = 1} \X {1}
  BY SegmentsAre DEF SegmentsInUse
<1>4. \A x \in Nat : x < SizeMax => x % SizeMax = x /\ (x + SizeMax) % SizeMax = x
  BY <1>1
<1> HIDE DEF U
<1>5. ASSUME NEW sz \in Sizes, RequestStorage(sz)
      PROVE  LimitInv'
  <2>1. sz = 1 /\ delegated = 0 /\ sizeOf' = sizeOf
    BY <1>5 DEF RequestStorage
  <2>2. U' = U
    BY <2>1 DEF U, SegmentsInUse
  <2>3. CASE Exhausted
    <3>1. limit' = limit /\ delegated' = delegated
      BY <1>5, <2>3 DEF RequestStorage
    <3> QED
      BY <1>1, <2>1, <2>2, <3>1 DEF LimitInv, LimitTypes, U
  <2>4. CASE ~Exhausted
    <3>1. limit >= 1 /\ limit' = (limit + SizeMax - sz) % SizeMax /\ delegated' = 1
      BY <1>1, <1>5, <2>1, <2>4 DEF RequestStorage, Exhausted
    <3>2. limit + SizeMax - sz = (limit - 1) + SizeMax /\ limit - 1 \in Nat
          /\ limit - 1 < SizeMax
      BY <1>1, <2>1, <3>1
    <3>3. limit' = limit - 1
      BY <1>4, <3>1, <3>2
    <3>4. limit' + delegated' + Cardinality(U') <= Limit /\ limit' \in Nat
      BY <1>1, <2>1, <2>2, <3>1, <3>2, <3>3
    <3> QED
      BY <1>1, <2>1, <2>2, <3>1, <3>4 DEF LimitInv, LimitTypes, U
  <2> QED
    BY <2>3, <2>4
<1>6. CASE DelegateAnswers
  <2>1. delegated = 1 /\ delegated' = 0 /\ limit' = limit
    BY <1>1, <1>6 DEF DelegateAnswers
  <2>2. CASE sizeOf' = sizeOf
    <3>1. U' = U
      BY <2>2 DEF U, SegmentsInUse
    <3>2. limit' + delegated' + Cardinality(U') <= Limit
      BY <1>1, <2>1, <3>1
    <3> QED
      BY <1>1, <2>1, <2>2, <3>1, <3>2 DEF LimitInv, LimitTypes, U
  <2>3. CASE \E p \in Storages :
               sizeOf[p] = 0 /\ sizeOf' = [sizeOf EXCEPT ![p] = delegated]
    <3>1. PICK p \in Storages :
            sizeOf[p] = 0 /\ sizeOf' = [sizeOf EXCEPT ![p] = delegated]
      BY <2>3
    <3>2. sizeOf' \in [Storages -> {0, 1}]
          /\ \A q \in Storages : sizeOf'[q] = IF q = p THEN 1 ELSE sizeOf[q]
      BY <1>1, <2>1, <3>1
    <3>3. U' = U \cup {<<p, 1>>} /\ <<p, 1>> \notin U
      BY <1>2, <1>3, <3>1, <3>2
    <3>4. IsFiniteSet(U') /\ Cardinality(U') = Cardinality(U) + 1
      BY <1>1, <3>3, FS_AddElement
    <3>5. limit' + delegated' + Cardinality(U') <= Limit
      BY <1>1, <2>1, <3>4
    <3> QED
      BY <1>1, <2>1, <3>2, <3>4, <3>5 DEF LimitInv, LimitTypes, U
  <2> QED
    BY <1>6, <2>2, <2>3 DEF DelegateAnswers
<1>7. ASSUME NEW p \in Storages, DeleteStorage(p)
      PROVE  LimitInv'
  <2>1. /\ delegated = 0 /\ sizeOf[p] = 1 /\ delegated' = 0
        /\ sizeOf' = [sizeOf EXCEPT ![p] = 0] /\ limit' = (limit + 1) % SizeMax
    BY <1>1, <1>7 DEF DeleteStorage
  <2>2. sizeOf' \in [Storages -> {0, 1}]
        /\ \A q \in Storages : sizeOf'[q] = IF q = p THEN 0 ELSE sizeOf[q]
    BY <1>1, <2>1
  <2>3. U' = U \ {<<p, 1>>} /\ <<p, 1>> \in U
    BY <1>2, <1>3, <2>1, <2>2
  <2>4. IsFiniteSet(U') /\ Cardinality(U') = Cardinality(U) - 1
    BY <1>1, <2>3, FS_RemoveElement
  <2>5. Cardinality(U') \in Nat
    BY <2>4, FS_CardinalityType
  <2>6. limit + 1 \in Nat /\ limit + 1 < SizeMax
    BY <1>1, <2>1, <2>4, <2>5
  <2>7. limit' = limit + 1
    BY <1>4, <2>1, <2>6
  <2>8. limit' + delegated' + Cardinality(U') <= Limit /\ limit' \in Nat
    BY <1>1, <2>1, <2>4, <2>7
  <2> QED
    BY <2>1, <2>2, <2>4, <2>8 DEF LimitInv, LimitTypes, U
<1>8. CASE UNCHANGED limitVars
  <2>1. limit' = limit /\ delegated' = delegated /\ sizeOf' = sizeOf
    BY <1>8 DEF limitVars
  <2>2. U' = U
    BY <2>1 DEF U, SegmentsInUse
  <2> QED
    BY <1>1, <2>1, <2>2 DEF LimitInv, LimitTypes, U
<1> QED
  BY <1>5, <1>6, <1>7, <1>8 DEF LimitNext

\* The storage in use is within the limit whatever the delegate fails, as long as
\* nobody asks for a jumbo segment: a request for two gets past the check
\* (newStorageImpl compares the budget with one segment).
THEOREM BudgetKept ==
    ASSUME Sizes \subseteq {1}
    PROVE  LimitSpec => []WithinLimit
<1>1. LimitInit => LimitInv
  <2> SUFFICES ASSUME LimitInit PROVE LimitInv
    OBVIOUS
  <2>1. limit = Limit /\ delegated = 0 /\ sizeOf = [p \in Storages |-> 0]
    BY DEF LimitInit
  <2>2. sizeOf \in [Storages -> {0, 1}] /\ \A p \in Storages : sizeOf[p] # 1
    BY <2>1
  <2>3. SegmentsInUse = {}
    BY <2>2, SegmentsAre DEF SegmentsInUse
  <2> QED
    BY <2>1, <2>2, <2>3, FS_EmptySet, LimitAssumption DEF LimitInv, LimitTypes
<1>2. LimitInv /\ [LimitNext]_limitVars => LimitInv'
  BY LimitInductive
<1>3. LimitInv => WithinLimit
  BY LimitAssumption, FS_CardinalityType DEF LimitInv, LimitTypes, WithinLimit
<1> QED
  BY <1>1, <1>2, <1>3, PTL DEF LimitSpec

------------------------------------------------------------------------------
(* Numbers.                                                                   *)

\* A set of natural numbers has a smallest member.
LEMMA Least ==
    ASSUME NEW S \in SUBSET Nat, S # {}
    PROVE  \E x \in S : \A y \in S : x <= y
<1> DEFINE Less == OpToRel(<, Nat)
<1>1. IsWellFoundedOn(Less, Nat)
  BY NatLessThanWellFounded
<1>2. \A x, y \in Nat : y < x => <<y, x>> \in Less
  BY DEF OpToRel
<1> HIDE DEF Less
<1>3. PICK x \in S : \A y \in S : ~(<<y, x>> \in Less)
  BY <1>1, WFMin
<1>4. \A y \in S : ~(y < x)
  BY <1>2, <1>3
<1> QED
  BY <1>3, <1>4

\* Induction, for the members of a set.
LEMMA UpTo ==
    ASSUME NEW N \in Nat, NEW S, 0 \in S, \A n \in 0..N - 1 : n \in S => n + 1 \in S
    PROVE  \A n \in 0..N : n \in S
<1> DEFINE Out == {n \in 0..N : n \notin S}
<1> SUFFICES ASSUME Out # {} PROVE FALSE
  OBVIOUS
<1>1. Out \in SUBSET Nat
  OBVIOUS
<1> HIDE DEF Out
<1>2. PICK x \in Out : \A y \in Out : x <= y
  BY <1>1, Least
<1>3. x \in 0..N /\ x # 0 /\ x \notin S
  BY <1>2 DEF Out
<1>4. x - 1 \in 0..N - 1 /\ x - 1 \notin Out
  BY <1>2, <1>3
<1>5. x - 1 \in S /\ (x - 1) + 1 = x
  BY <1>3, <1>4 DEF Out
<1> QED
  BY <1>3, <1>4, <1>5

\* Division with a remainder.
LEMMA Divides ==
    ASSUME NEW h \in Nat, NEW c \in Nat, c > 0
    PROVE  \E q, r \in Nat : h = c * q + r /\ r < c
<1> DEFINE R == {r \in Nat : \E q \in Nat : h = c * q + r}
<1>1. h \in R
  <2>1. h = c * 0 + h
    OBVIOUS
  <2> QED
    BY <2>1
<1>2. \A r \in R : r >= c => r - c \in R
  <2> SUFFICES ASSUME NEW r \in R, r >= c PROVE r - c \in R
    OBVIOUS
  <2>1. PICK q \in Nat : h = c * q + r
    OBVIOUS
  <2>2. c * (q + 1) = c * q + c
    OBVIOUS
  <2>3. c * q \in Nat /\ r - c \in Nat /\ q + 1 \in Nat
    OBVIOUS
  <2>4. h = c * (q + 1) + (r - c)
    BY <2>1, <2>2, <2>3
  <2> QED
    BY <2>3, <2>4
<1>3. R \in SUBSET Nat
  OBVIOUS
<1> HIDE DEF R
<1>4. PICK r \in R : \A y \in R : r <= y
  BY <1>1, <1>3, Least
<1>5. r \in Nat /\ r < c
  BY <1>2, <1>3, <1>4
<1> QED
  BY <1>4, <1>5 DEF R

\* A remainder is below the divisor, and it is what remains.
LEMMA Remainder ==
    ASSUME NEW c \in Nat, c > 0, NEW x \in Nat
    PROVE  /\ x % c \in 0..c - 1
           /\ \E q, r \in Nat : x = c * q + r /\ r = x % c /\ r < c
<1>1. PICK q \in Nat, r \in Nat : x = c * q + r /\ r < c
  BY Divides
<1>2. x % c = r
  BY <1>1
<1> QED
  BY <1>1, <1>2

\* What leaves the remainder 0 is a multiple.
LEMMA Multiple ==
    ASSUME NEW c \in Nat, c > 0, NEW x \in Nat
    PROVE  x % c = 0 <=> \E q \in Nat : x = c * q
<1>1. ASSUME NEW q \in Nat, x = c * q PROVE x % c = 0
  <2>1. \A n \in Nat : n = c * q + 0 => n % c = 0
    OBVIOUS
  <2> QED
    BY <1>1, <2>1
<1>2. ASSUME x % c = 0 PROVE \E q \in Nat : x = c * q
  <2>1. PICK q \in Nat, r \in Nat : x = c * q + r /\ r = x % c
    BY Remainder
  <2>2. c * q \in Nat
    OBVIOUS
  <2>3. x = c * q
    BY <1>2, <2>1, <2>2
  <2> QED
    BY <2>3
<1> QED
  BY <1>1, <1>2

\* Numbers with the same remainder differ by a multiple.
LEMMA SameRemainder ==
    ASSUME NEW c \in Nat, c > 0, NEW x \in Nat, NEW y \in Nat, x <= y, x % c = y % c
    PROVE  \E m \in Nat : y = x + c * m
<1>1. PICK p \in Nat, r \in Nat : x = c * p + r /\ r = x % c
  BY Remainder
<1>2. PICK q \in Nat, u \in Nat : y = c * q + u /\ u = y % c
  BY Remainder
<1>3. u = r /\ c * p \in Nat /\ c * q \in Nat
  BY <1>1, <1>2
<1>4. c * p <= c * q
  BY <1>1, <1>2, <1>3
<1>5. CASE q < p
  <2>1. PICK d \in Nat : p = q + d /\ d > 0
    <3>1. p - q \in Nat /\ p = q + (p - q) /\ p - q > 0
      BY <1>5
    <3> QED
      BY <3>1
  <2>2. c * p = c * q + c * d
    BY <2>1
  <2>3. c * d \in Nat /\ c * d > 0
    BY <2>1
  <2> QED
    BY <1>3, <1>4, <2>2, <2>3
<1>6. CASE p <= q
  <2>1. PICK d \in Nat : q = p + d
    <3>1. q - p \in Nat /\ q = p + (q - p)
      BY <1>6
    <3> QED
      BY <3>1
  <2>2. c * q = c * p + c * d /\ c * d \in Nat
    BY <2>1
  <2>3. y = x + c * d
    BY <1>1, <1>2, <1>3, <2>2
  <2> QED
    BY <2>3
<1> QED
  BY <1>5, <1>6

\* A number is even or odd.
LEMMA Parity ==
    ASSUME NEW n \in Nat
    PROVE  /\ (\E p \in Nat : n = 2 * p) \/ (\E p \in Nat : n = 2 * p + 1)
           /\ \A p \in Nat : n = 2 * p => n % 2 = 0
           /\ \A p \in Nat : n = 2 * p + 1 => n % 2 = 1
<1>1. n \div 2 \in Nat /\ (n = 2 * (n \div 2) \/ n = 2 * (n \div 2) + 1)
  OBVIOUS
<1>2. (\E p \in Nat : n = 2 * p) \/ (\E p \in Nat : n = 2 * p + 1)
  BY <1>1
<1>3. \A p \in Nat : n = 2 * p => n % 2 = 0
  OBVIOUS
<1>4. \A p \in Nat : n = 2 * p + 1 => n % 2 = 1
  OBVIOUS
<1> QED
  BY <1>2, <1>3, <1>4

\* A product of odd numbers is odd.
LEMMA OddProduct ==
    ASSUME NEW e \in Nat, NEW p \in Nat, NEW m \in Nat
    PROVE  (2 * e + 1) * (2 * p + 1) # 2 * m
<1>1. (2 * e + 1) * (2 * p + 1) = 2 * (2 * (e * p) + e + p) + 1
  OBVIOUS
<1>2. e * p \in Nat
  OBVIOUS
<1> QED
  BY <1>1, <1>2

------------------------------------------------------------------------------
(* Powers of 2.                                                               *)

\* They are 1 and the doubles of powers of 2.
LEMMA Halves ==
    ASSUME NEW c \in PowersOf2, c # 1
    PROVE  \E h \in PowersOf2 : c = 2 * h /\ h < c
<1>1. c \in Nat /\ c > 0 /\ c \in 2..c /\ c % c = 0
  <2>1. c \in Nat /\ c > 0 /\ c \in 2..c
    BY DEF PowersOf2
  <2>2. c = c * 1
    BY <2>1
  <2> QED
    BY <2>1, <2>2, Multiple
<1>2. c % 2 = 0
  BY <1>1 DEF PowersOf2
<1>3. PICK h \in Nat : c = 2 * h
  BY <1>1, <1>2, Parity
<1>4. h > 0 /\ h < c
  BY <1>1, <1>3
<1>5. ASSUME NEW d \in 2..h, h % d = 0 PROVE d % 2 = 0
  <2>1. PICK q \in Nat : h = d * q
    BY <1>5, Multiple
  <2>2. c = d * (2 * q)
    BY <1>3, <2>1
  <2>3. c % d = 0
    <3>1. 2 * q \in Nat /\ d \in Nat /\ d > 0
      OBVIOUS
    <3> QED
      BY <1>1, <2>2, <3>1, Multiple
  <2>4. d \in 2..c
    BY <1>1, <1>4
  <2> QED
    BY <2>3, <2>4 DEF PowersOf2
<1>6. h \in Nat \ {0}
  BY <1>3, <1>4
<1>7. h \in PowersOf2
  BY <1>5, <1>6 DEF PowersOf2
<1>8. c = 2 * h /\ h < c
  BY <1>3, <1>4
<1> QED
  BY <1>7, <1>8

\* The double of a power of 2 is one.
LEMMA Doubles ==
    ASSUME NEW c \in PowersOf2
    PROVE  c * 2 \in PowersOf2 /\ 2 * c = c * 2
<1>1. c \in Nat /\ c > 0 /\ 2 * c = c * 2 /\ c * 2 \in Nat
  BY DEF PowersOf2
<1>2. ASSUME NEW d \in 2..c * 2, (c * 2) % d = 0, d % 2 # 0 PROVE FALSE
  <2>1. PICK k \in Nat : c * 2 = d * k
    BY <1>1, <1>2, Multiple
  <2>2. PICK e \in Nat : d = 2 * e + 1
    BY <1>2, Parity
  <2>3. PICK p \in Nat : k = 2 * p
    <3>1. ASSUME NEW p \in Nat, k = 2 * p + 1 PROVE FALSE
      BY <1>1, <2>1, <2>2, <3>1, OddProduct
    <3> QED
      BY <3>1, Parity
  <2>4. c = d * p
    <3>1. d * k = 2 * (d * p) /\ d * p \in Nat
      BY <2>3
    <3> QED
      BY <1>1, <2>1, <3>1
  <2>5. d <= c
    <3>1. p > 0
      BY <1>1, <2>4
    <3>2. PICK t \in Nat : p = t + 1
      <4>1. p - 1 \in Nat /\ p = (p - 1) + 1
        BY <3>1
      <4> QED
        BY <4>1
    <3>3. d * p = d * t + d /\ d * t \in Nat
      BY <3>2
    <3> QED
      BY <2>4, <3>3
  <2>6. c % d = 0
    BY <1>1, <2>4, Multiple
  <2> QED
    BY <1>2, <2>5, <2>6 DEF PowersOf2
<1> QED
  BY <1>1, <1>2 DEF PowersOf2

\* If a power of 2 divides a product with an odd number, it divides the other one.
LEMMA OddDivides ==
    ASSUME NEW c \in PowersOf2, NEW e \in Nat, NEW b \in Nat, NEW m \in Nat,
           (2 * e + 1) * b = c * m
    PROVE  \E q \in Nat : b = c * q
<1> DEFINE Bad == {x \in PowersOf2 : \E y, z \in Nat :
                     (2 * e + 1) * y = x * z /\ ~\E q \in Nat : y = x * q}
<1> SUFFICES ASSUME Bad # {} PROVE FALSE
  OBVIOUS
<1>1. Bad \in SUBSET Nat
  BY DEF PowersOf2
<1> HIDE DEF Bad
<1>2. PICK x \in Bad : \A w \in Bad : x <= w
  BY <1>1, Least
<1>3. PICK y \in Nat, z \in Nat :
        (2 * e + 1) * y = x * z /\ ~\E q \in Nat : y = x * q
  BY <1>2 DEF Bad
<1>4. x \in PowersOf2 /\ x \in Nat /\ x > 0
  BY <1>2 DEF Bad, PowersOf2
<1>5. x # 1
  BY <1>3
<1>6. PICK h \in PowersOf2 : x = 2 * h /\ h < x
  BY <1>4, <1>5, Halves
<1>7. h \in Nat /\ h > 0 /\ h \notin Bad
  <2>1. h \in Nat /\ h > 0
    BY DEF PowersOf2
  <2> QED
    BY <1>2, <1>4, <1>6, <2>1
<1>8. (2 * e + 1) * y = h * (2 * z) /\ 2 * z \in Nat
  BY <1>3, <1>6, <1>7
<1>9. PICK q \in Nat : y = h * q
  BY <1>7, <1>8 DEF Bad
<1>10. (2 * e + 1) * q = 2 * z
  <2>1. h * ((2 * e + 1) * q) = h * (2 * z)
    BY <1>7, <1>8, <1>9
  <2>2. \A u, v \in Nat : h * u = h * v => u = v
    BY <1>7
  <2>3. (2 * e + 1) * q \in Nat
    OBVIOUS
  <2> QED
    BY <1>8, <2>1, <2>2, <2>3
<1>11. PICK p \in Nat : q = 2 * p
  <2>1. ASSUME NEW p \in Nat, q = 2 * p + 1 PROVE FALSE
    BY <1>10, <2>1, OddProduct
  <2> QED
    BY <2>1, Parity
<1>12. y = x * p
  BY <1>6, <1>7, <1>9, <1>11
<1> QED
  BY <1>3, <1>12

------------------------------------------------------------------------------
(* Probes.  The one with the number n is n * (n + 1) / 2 places on.           *)

Step(n) == (n * (n + 1)) \div 2

\* Its double.
LEMMA StepTwice == ASSUME NEW n \in Nat PROVE Step(n) \in Nat /\ 2 * Step(n) = n * (n + 1)
<1>1. ASSUME NEW m \in Nat, n * (n + 1) = 2 * m
      PROVE  Step(n) \in Nat /\ 2 * Step(n) = n * (n + 1)
  <2>1. \A x \in Nat : x = 2 * m => x \div 2 = m
    OBVIOUS
  <2>2. n * (n + 1) \in Nat
    OBVIOUS
  <2>3. Step(n) = m
    BY <1>1, <2>1, <2>2 DEF Step
  <2> QED
    BY <1>1, <2>3
<1>2. CASE \E p \in Nat : n = 2 * p
  <2>1. PICK p \in Nat : n = 2 * p
    BY <1>2
  <2>2. n * (n + 1) = 2 * (p * (n + 1)) /\ p * (n + 1) \in Nat
    BY <2>1
  <2> QED
    BY <1>1, <2>2
<1>3. CASE \E p \in Nat : n = 2 * p + 1
  <2>1. PICK p \in Nat : n = 2 * p + 1
    BY <1>3
  <2>2. n * (n + 1) = 2 * (n * (p + 1)) /\ n * (p + 1) \in Nat
    BY <2>1
  <2> QED
    BY <1>1, <2>2
<1> QED
  BY <1>2, <1>3, Parity

\* Two probes at less than c steps differ in a table of c places.
LEMMA ProbesDiffer ==
    ASSUME NEW h \in Nat, NEW c \in PowersOf2,
           NEW i \in 0..c - 1, NEW j \in 0..c - 1, i < j
    PROVE  (h + Step(i)) % c # (h + Step(j)) % c
<1> SUFFICES ASSUME (h + Step(i)) % c = (h + Step(j)) % c PROVE FALSE
  OBVIOUS
<1>1. c \in Nat /\ c > 0 /\ i \in Nat /\ j \in Nat
  BY DEF PowersOf2
<1>2. PICK u \in Nat, v \in Nat : u = Step(i) /\ v = Step(j)
  BY <1>1, StepTwice
<1>3. 2 * u = i * (i + 1) /\ 2 * v = j * (j + 1)
  BY <1>1, <1>2, StepTwice
<1>4. PICK d \in Nat : j = i + d /\ d > 0 /\ d < c
  <2>1. j - i \in Nat /\ j = i + (j - i) /\ j - i > 0 /\ j - i < c
    BY <1>1
  <2> QED
    BY <2>1
<1> DEFINE w == i + j + 1
<1>5. w \in Nat /\ w > 0 /\ w < 2 * c
  BY <1>1
<1>6. 2 * v = 2 * u + d * w
  <2>1. j * (j + 1) = i * (i + 1) + d * w
    BY <1>1, <1>4
  <2> QED
    BY <1>3, <2>1
<1>7. d * w \in Nat
  BY <1>5
<1>8. u <= v
  BY <1>6, <1>7
<1>9. PICK m \in Nat : h + v = h + u + c * m
  <2>1. h + u \in Nat /\ h + v \in Nat /\ h + u <= h + v
    BY <1>8
  <2>2. (h + u) % c = (h + v) % c
    BY <1>2
  <2>3. \E m \in Nat : h + v = (h + u) + c * m
    BY <1>1, <2>1, <2>2, SameRemainder
  <2> QED
    BY <2>3
<1>10. d * w = (2 * c) * m
  <2>1. c * m \in Nat /\ (2 * c) * m = 2 * (c * m)
    BY <1>1
  <2> QED
    BY <1>6, <1>7, <1>9, <2>1
<1>11. 2 * c \in PowersOf2
  BY Doubles
<1> HIDE DEF w
<1>12. \A x, q \in Nat : x > 0 /\ x < 2 * c => x # (2 * c) * q
  <2> SUFFICES ASSUME NEW x \in Nat, NEW q \in Nat, x > 0, x = (2 * c) * q
               PROVE  x >= 2 * c
    BY <1>1
  <2>1. q > 0
    BY <1>1
  <2>2. PICK t \in Nat : q = t + 1
    <3>1. q - 1 \in Nat /\ q = (q - 1) + 1
      BY <2>1
    <3> QED
      BY <3>1
  <2>3. (2 * c) * q = (2 * c) * t + 2 * c /\ (2 * c) * t \in Nat
    BY <1>1, <2>2
  <2> QED
    BY <1>1, <2>3
<1>13. CASE \E e \in Nat : d = 2 * e + 1
  <2>1. PICK e \in Nat : d = 2 * e + 1
    BY <1>13
  <2>2. (2 * e + 1) * w = (2 * c) * m
    BY <1>10, <2>1
  <2>3. \E q \in Nat : w = (2 * c) * q
    BY <1>5, <1>11, <2>2, OddDivides
  <2> QED
    BY <1>5, <1>12, <2>3
<1>14. CASE \E p \in Nat : d = 2 * p
  <2>1. PICK p \in Nat : d = 2 * p
    BY <1>14
  <2>2. w = 2 * (i + p) + 1 /\ i + p \in Nat
    BY <1>1, <1>4, <2>1 DEF w
  <2>3. (2 * (i + p) + 1) * d = (2 * c) * m
    <3>1. w * d = d * w
      BY <1>5
    <3> QED
      BY <1>10, <2>2, <3>1
  <2>4. \E q \in Nat : d = (2 * c) * q
    <3>1. PICK e \in Nat : e = i + p
      BY <2>2
    <3>2. (2 * e + 1) * d = (2 * c) * m
      BY <2>3, <3>1
    <3> QED
      BY <1>11, <3>2, OddDivides
  <2>5. d < 2 * c
    BY <1>1, <1>4
  <2> QED
    BY <1>4, <1>12, <2>4, <2>5
<1> QED
  BY <1>13, <1>14, Parity

\* So the probes for any string come to every place.
LEMMA ProbesCover ==
    ASSUME NEW s \in Strings, NEW c \in PowersOf2, NEW b \in 0..c - 1
    PROVE  \E n \in 0..c - 1 : Probe(s, n, c) = b
<1> DEFINE At == [n \in 0..c - 1 |-> (Hash[s] + Step(n)) % c]
<1>1. Hash[s] \in Nat /\ c \in Nat /\ c > 0
  BY TableAssumption DEF PowersOf2
<1>2. At \in [0..c - 1 -> 0..c - 1]
  <2>1. ASSUME NEW n \in 0..c - 1 PROVE (Hash[s] + Step(n)) % c \in 0..c - 1
    <3>1. Step(n) \in Nat
      BY <1>1, StepTwice
    <3>2. Hash[s] + Step(n) \in Nat
      BY <1>1, <3>1
    <3> QED
      BY <1>1, <3>2, Remainder
  <2> QED
    BY <2>1
<1>3. \A i, j \in 0..c - 1 : At[i] = At[j] => i = j
  <2>1. ASSUME NEW i \in 0..c - 1, NEW j \in 0..c - 1, i < j PROVE At[i] # At[j]
    BY <1>1, <2>1, ProbesDiffer
  <2> HIDE DEF At
  <2> QED
    BY <1>1, <2>1
<1> HIDE DEF At
<1>4. At \in Injection(0..c - 1, 0..c - 1)
  BY <1>2, <1>3 DEF Injection, IsInjective
<1>5. IsFiniteSet(0..c - 1)
  BY <1>1, FS_Interval
<1>6. At \in Surjection(0..c - 1, 0..c - 1)
  BY <1>4, <1>5, FS_Injection
<1>7. PICK n \in 0..c - 1 : At[n] = b
  BY <1>6 DEF Surjection
<1> QED
  BY <1>7 DEF At, Probe, Step

------------------------------------------------------------------------------
(* Hash tables.  T is a table and V the vector that its symbols are in.       *)

Entries == [kind : {"prim", "lazy", "lazyPrim", "free"},
            str : Strings \cup {NoSymbol}, next : Nat]
Vectors == {V \in Seq(Entries) : Len(V) <= MaxSymbols}

\* The symbols with a unique string.
Named(V) == {id \in 0..Len(V) - 1 : V[id + 1].str \in Strings}

Size(T) == Cardinality(DOMAIN T)
IsTable(T) == Size(T) \in PowersOf2 /\ T \in [0..Size(T) - 1 -> Nat]
StrAt(T, V, at) == V[T[at] + 1].str

\* The place is one of the probes for s, and no place before it is empty.
Passes(T, s, n) == \A j \in 0..n - 1 : T[Probe(s, j, Size(T))] # Empty
Reached(T, s, at) ==
    \E n \in 0..Size(T) - 1 : Probe(s, n, Size(T)) = at /\ Passes(T, s, n)

\* Every symbol in the table can be found, and no two have the same string.
Sound(T, V) ==
    /\ IsTable(T)
    /\ \A at \in DOMAIN T : Valid(T, at) =>
         T[at] \in Named(V) /\ Reached(T, StrAt(T, V, at), at)
    /\ \A a, b \in DOMAIN T :
         Valid(T, a) /\ Valid(T, b) /\ StrAt(T, V, a) = StrAt(T, V, b) => a = b
Roomy(T) == \E at \in DOMAIN T : T[at] = Empty
Has(T, V, s) == \E at \in DOMAIN T : Valid(T, at) /\ StrAt(T, V, at) = s

\* Places are numbers, and a probe is a place.
LEMMA ProbePlaces ==
    ASSUME NEW T, IsTable(T)
    PROVE  /\ Size(T) \in Nat /\ Size(T) > 0 /\ DOMAIN T = 0..Size(T) - 1
           /\ \A s \in Strings : \A n \in Nat : Probe(s, n, Size(T)) \in DOMAIN T
<1>1. Size(T) \in Nat /\ Size(T) > 0 /\ DOMAIN T = 0..Size(T) - 1
  BY DEF IsTable, PowersOf2
<1>2. ASSUME NEW s \in Strings, NEW n \in Nat
      PROVE  Probe(s, n, Size(T)) \in DOMAIN T
  <2>1. Hash[s] \in Nat /\ Step(n) \in Nat
    BY TableAssumption, StepTwice
  <2>2. Hash[s] + Step(n) \in Nat
    BY <2>1
  <2>3. (Hash[s] + Step(n)) % Size(T) \in 0..Size(T) - 1
    BY <1>1, <2>2, Remainder
  <2> QED
    BY <1>1, <2>3 DEF Probe, Step
<1> QED
  BY <1>1, <1>2

\* lookupString() comes to an end ...
LEMMA FirstStop ==
    ASSUME NEW T, NEW V, IsTable(T), Roomy(T), NEW s \in Strings
    PROVE  \E n \in 0..Size(T) - 1 :
             /\ StopsAt(T, V, s, Probe(s, n, Size(T)))
             /\ \A j \in 0..n - 1 : ~StopsAt(T, V, s, Probe(s, j, Size(T)))
<1> DEFINE N == {n \in 0..Size(T) - 1 : StopsAt(T, V, s, Probe(s, n, Size(T)))}
<1>1. Size(T) \in Nat /\ DOMAIN T = 0..Size(T) - 1 /\ Size(T) \in PowersOf2
  BY ProbePlaces DEF IsTable
<1>2. PICK at \in 0..Size(T) - 1 : T[at] = Empty
  BY <1>1 DEF Roomy
<1>3. PICK m \in 0..Size(T) - 1 : Probe(s, m, Size(T)) = at
  BY <1>1, ProbesCover
<1>4. m \in N
  BY <1>2, <1>3 DEF StopsAt
<1>5. N \in SUBSET Nat
  BY <1>1
<1>6. PICK n \in N : \A y \in N : n <= y
  <2> HIDE DEF N
  <2> QED
    BY <1>4, <1>5, Least
<1>7. n \in 0..Size(T) - 1 /\ StopsAt(T, V, s, Probe(s, n, Size(T)))
  BY <1>6
<1>8. ASSUME NEW j \in 0..n - 1 PROVE ~StopsAt(T, V, s, Probe(s, j, Size(T)))
  <2>1. j \in 0..Size(T) - 1 /\ ~(n <= j)
    BY <1>1, <1>7
  <2>2. j \notin N
    BY <1>6, <2>1
  <2> QED
    BY <2>1, <2>2
<1> QED
  BY <1>7, <1>8

\* A set of numbers below another one has a largest member.
LEMMA Largest ==
    ASSUME NEW n \in Nat, NEW S \in SUBSET (0..n - 1), S # {}
    PROVE  \E x \in S : \A y \in S : y <= x
<1> DEFINE Up == {m \in Nat : \A y \in S : y <= m}
<1>1. n \in Up
  OBVIOUS
<1>2. Up \in SUBSET Nat
  OBVIOUS
<1>3. PICK m \in Up : \A k \in Up : m <= k
  <2> HIDE DEF Up
  <2> QED
    BY <1>1, <1>2, Least
<1>4. CASE m \in S
  BY <1>3, <1>4
<1>5. CASE m \notin S
  <2>1. PICK x \in S : TRUE
    OBVIOUS
  <2>2. m \in Nat /\ \A y \in S : y <= m
    BY <1>3
  <2>3. \A y \in S : y \in Nat /\ y <= m - 1
    BY <1>5, <2>2
  <2>4. m - 1 \in Nat
    BY <2>1, <2>2, <2>3
  <2>5. m - 1 \in Up
    BY <2>3, <2>4
  <2> QED
    BY <1>3, <2>2, <2>5
<1> QED
  BY <1>4, <1>5

\* ... at a symbol with the string or at an empty place, and returns a place on the
\* way.
LEMMA LookupStops ==
    ASSUME NEW T, NEW V, IsTable(T), Roomy(T), NEW s \in Strings
    PROVE  \E n \in 0..Size(T) - 1 :
             /\ Passes(T, s, n)
             /\ \A j \in 0..n - 1 : ~StopsAt(T, V, s, Probe(s, j, Size(T)))
             /\ \/ /\ Valid(T, Probe(s, n, Size(T)))
                   /\ StrAt(T, V, Probe(s, n, Size(T))) = s
                   /\ LookupString(T, V, s) = Probe(s, n, Size(T))
                \/ /\ T[Probe(s, n, Size(T))] = Empty
                   /\ ~Valid(T, LookupString(T, V, s))
                   /\ \E j \in 0..n : LookupString(T, V, s) = Probe(s, j, Size(T))
<1> DEFINE c == Size(T)
           Is(i) == /\ StopsAt(T, V, s, Probe(s, i, c))
                    /\ \A j \in 0..i - 1 : ~StopsAt(T, V, s, Probe(s, j, c))
           n == CHOOSE i \in 0..c - 1 : Is(i)
           deleted == {j \in 0..n - 1 : T[Probe(s, j, c)] = Deleted}
           L == LookupString(T, V, s)
<1>1. \E i \in 0..c - 1 : Is(i)
  BY FirstStop
<1>2. n \in 0..c - 1 /\ Is(n)
  <2> HIDE DEF Is
  <2> QED
    BY <1>1
<1>3. Passes(T, s, n)
  BY <1>2 DEF Passes, StopsAt
<1>4. L = IF T[Probe(s, n, c)] = Empty /\ deleted # {}
          THEN Probe(s, CHOOSE j \in deleted : \A k \in deleted : k <= j, c)
          ELSE Probe(s, n, c)
  BY DEF LookupString, Size
<1>5. n \in Nat
  BY <1>2, ProbePlaces
<1>6. CASE T[Probe(s, n, c)] # Empty
  <2>1. Valid(T, Probe(s, n, c)) /\ StrAt(T, V, Probe(s, n, c)) = s
    BY <1>2, <1>6 DEF StopsAt, StrAt
  <2>2. L = Probe(s, n, c)
    BY <1>4, <1>6
  <2> HIDE DEF n, L
  <2> QED
    BY <1>2, <1>3, <2>1, <2>2 DEF L
<1>7. CASE T[Probe(s, n, c)] = Empty /\ deleted = {}
  <2>1. L = Probe(s, n, c)
    BY <1>4, <1>7
  <2>2. ~Valid(T, L)
    BY <1>7, <2>1 DEF Valid
  <2>3. n \in 0..n
    BY <1>5
  <2> HIDE DEF n, L
  <2> QED
    BY <1>2, <1>3, <1>7, <2>1, <2>2, <2>3 DEF L
<1>8. CASE T[Probe(s, n, c)] = Empty /\ deleted # {}
  <2> DEFINE d == CHOOSE j \in deleted : \A k \in deleted : k <= j
  <2>1. \E j \in deleted : \A k \in deleted : k <= j
    <3>1. deleted \in SUBSET (0..n - 1) /\ deleted # {}
      BY <1>8
    <3> HIDE DEF deleted, n
    <3> QED
      BY <1>5, <3>1, Largest
  <2>2. d \in deleted
    <3> HIDE DEF deleted
    <3> QED
      BY <2>1
  <2>3. L = Probe(s, d, c)
    BY <1>4, <1>8
  <2>4. d \in 0..n /\ T[Probe(s, d, c)] = Deleted
    <3> HIDE DEF d
    <3>1. d \in 0..n - 1 /\ T[Probe(s, d, c)] = Deleted
      BY <2>2
    <3> HIDE DEF n
    <3> QED
      BY <1>5, <3>1
  <2>5. ~Valid(T, L)
    BY <2>3, <2>4 DEF Valid
  <2> HIDE DEF n, L, d
  <2> QED
    BY <1>2, <1>3, <1>8, <2>3, <2>4, <2>5 DEF L
<1> QED
  BY <1>6, <1>7, <1>8

\* lookupString() finds the symbol of a string, or a place where it can be inserted.
LEMMA LookupFinds ==
    ASSUME NEW T, NEW V, Sound(T, V), Roomy(T), NEW s \in Strings
    PROVE  /\ LookupString(T, V, s) \in DOMAIN T
           /\ Reached(T, s, LookupString(T, V, s))
           /\ IF Has(T, V, s) THEN /\ Valid(T, LookupString(T, V, s))
                                   /\ StrAt(T, V, LookupString(T, V, s)) = s
                              ELSE ~Valid(T, LookupString(T, V, s))
<1> DEFINE c == Size(T)
           L == LookupString(T, V, s)
<1>1. IsTable(T) /\ c \in Nat /\ DOMAIN T = 0..c - 1
  BY ProbePlaces DEF Sound
<1>2. PICK n \in 0..c - 1 :
             /\ Passes(T, s, n)
             /\ \A j \in 0..n - 1 : ~StopsAt(T, V, s, Probe(s, j, c))
             /\ \/ /\ Valid(T, Probe(s, n, c))
                   /\ StrAt(T, V, Probe(s, n, c)) = s
                   /\ L = Probe(s, n, c)
                \/ /\ T[Probe(s, n, c)] = Empty
                   /\ ~Valid(T, L)
                   /\ \E j \in 0..n : L = Probe(s, j, c)
  BY <1>1, LookupStops
<1> HIDE DEF L, c
<1>3. \A j \in 0..n : Passes(T, s, j) /\ j \in 0..c - 1
  BY <1>1, <1>2 DEF Passes
<1>4. \A j \in 0..n : Probe(s, j, c) \in DOMAIN T
  <2>1. \A j \in Nat : Probe(s, j, c) \in DOMAIN T
    BY <1>1, ProbePlaces DEF c
  <2> HIDE DEF c
  <2> QED
    BY <2>1
<1>5. n \in 0..n
  BY <1>1
<1>6. L \in DOMAIN T /\ Reached(T, s, L)
  BY <1>2, <1>3, <1>4, <1>5 DEF Reached, c
<1>7. CASE Valid(T, Probe(s, n, c))
  <2>1. Valid(T, L) /\ StrAt(T, V, L) = s
    BY <1>2, <1>7 DEF Valid
  <2> QED
    BY <1>6, <2>1 DEF Has, L
<1>8. CASE T[Probe(s, n, c)] = Empty
  <2>1. ~Valid(T, L)
    BY <1>2, <1>8 DEF Valid
  <2>2. ASSUME NEW at \in DOMAIN T, Valid(T, at), StrAt(T, V, at) = s
        PROVE  FALSE
    <3>1. PICK m \in 0..c - 1 : Probe(s, m, c) = at /\ Passes(T, s, m)
      BY <2>2 DEF Sound, Reached, c
    <3>2. CASE m < n
      <4>1. StopsAt(T, V, s, at) /\ m \in 0..n - 1
        BY <1>1, <2>2, <3>2 DEF StopsAt, StrAt
      <4> QED
        BY <1>2, <3>1, <4>1
    <3>3. CASE m = n
      BY <1>8, <2>2, <3>1, <3>3 DEF Valid
    <3>4. CASE m > n
      BY <1>1, <1>8, <3>1, <3>4 DEF Passes, c
    <3> QED
      BY <1>1, <3>2, <3>3, <3>4
  <2> QED
    BY <1>6, <2>1, <2>2 DEF Has, L
<1> QED
  BY <1>2, <1>7, <1>8

------------------------------------------------------------------------------
(* Inserting and rehashing.                                                   *)

Complete(T, V) == \A id \in Named(V) : \E at \in DOMAIN T : T[at] = id
ValidIn(T) == {at \in DOMAIN T : Valid(T, at)}
Filled(T) == {at \in DOMAIN T : T[at] # Empty}

\* W has the same unique strings as V, and perhaps more.
Extends(W, V) == \A id \in Named(V) : id \in Named(W) /\ W[id + 1].str = V[id + 1].str

\* T with v in one place.
Put(T, at, v) == [T EXCEPT ![at] = v]

\* A table in which one place is set is one of the same size.
LEMMA SetPlace ==
    ASSUME NEW T, IsTable(T), NEW at \in DOMAIN T, NEW v \in Nat,
           NEW U, U = Put(T, at, v)
    PROVE  /\ IsTable(U) /\ DOMAIN U = DOMAIN T /\ Size(U) = Size(T)
           /\ U[at] = v /\ \A b \in DOMAIN T : b # at => U[b] = T[b]
<1>1. DOMAIN U = DOMAIN T
  BY DEF Put
<1>2. Size(U) = Size(T)
  BY <1>1 DEF Size
<1>3. U \in [0..Size(T) - 1 -> Nat]
  BY DEF IsTable, Put
<1>4. U[at] = v /\ \A b \in DOMAIN T : b # at => U[b] = T[b]
  BY DEF Put
<1> HIDE DEF Size
<1> QED
  BY <1>1, <1>2, <1>3, <1>4 DEF IsTable

\* ProbePlaces that can be reached can be so when more of them are taken.
LEMMA StillReached ==
    ASSUME NEW T, NEW U, Size(U) = Size(T), IsTable(T),
           \A b \in DOMAIN T : T[b] # Empty => U[b] # Empty,
           NEW s \in Strings, NEW at, Reached(T, s, at)
    PROVE  Reached(U, s, at)
<1> DEFINE c == Size(T)
<1>1. PICK n \in 0..c - 1 : Probe(s, n, c) = at /\ Passes(T, s, n)
  BY DEF Reached
<1>2. ASSUME NEW j \in 0..n - 1 PROVE U[Probe(s, j, c)] # Empty
  <2>1. j \in Nat
    BY ProbePlaces
  <2>2. Probe(s, j, c) \in DOMAIN T
    BY <2>1, ProbePlaces
  <2> QED
    BY <1>1, <2>2 DEF Passes
<1> QED
  BY <1>1, <1>2 DEF Reached, Passes

\* A new symbol that is put into a place where its string is looked up is found.
LEMMA InsertKeeps ==
    ASSUME NEW T, NEW V, NEW W, Sound(T, V), Extends(W, V),
           NEW s \in Strings, ~Has(T, V, s),
           NEW at \in DOMAIN T, ~Valid(T, at), Reached(T, s, at),
           NEW id \in Named(W), W[id + 1].str = s, id < MaxSymbols,
           NEW U, U = Put(T, at, id)
    PROVE  /\ Sound(U, W) /\ Size(U) = Size(T) /\ DOMAIN U = DOMAIN T
           /\ U[at] = id /\ \A b \in DOMAIN T : b # at => U[b] = T[b]
           /\ ValidIn(U) = ValidIn(T) \cup {at} /\ Filled(U) = Filled(T) \cup {at}
<1>1. IsTable(T) /\ id \in Nat /\ MaxSymbols \in Nat
  BY SymbolBoundsAssumption DEF Sound, Named
<1>2. /\ IsTable(U) /\ DOMAIN U = DOMAIN T /\ Size(U) = Size(T)
      /\ U[at] = id /\ \A b \in DOMAIN T : b # at => U[b] = T[b]
  BY <1>1, SetPlace
<1>3. id # Empty /\ id # Deleted
  BY <1>1 DEF Empty, Deleted
<1>4. ValidIn(U) = ValidIn(T) \cup {at} /\ Filled(U) = Filled(T) \cup {at}
  BY <1>2, <1>3 DEF ValidIn, Filled, Valid
<1>5. ASSUME NEW b \in DOMAIN U, Valid(U, b)
      PROVE  /\ U[b] \in Named(W)
             /\ b # at => Valid(T, b) /\ StrAt(U, W, b) = StrAt(T, V, b)
             /\ b = at => StrAt(U, W, b) = s
  <2>1. b # at => /\ U[b] = T[b] /\ Valid(T, b) /\ T[b] \in Named(V)
                  /\ T[b] \in Named(W) /\ W[T[b] + 1].str = V[T[b] + 1].str
    BY <1>2, <1>5 DEF Valid, Sound, Extends
  <2>2. b = at => U[b] = id
    BY <1>2
  <2> QED
    BY <2>1, <2>2 DEF StrAt
<1>6. \A b \in DOMAIN T : T[b] # Empty => U[b] # Empty
  BY <1>2, <1>3
<1>7. ASSUME NEW b \in DOMAIN U, Valid(U, b)
      PROVE  Reached(U, StrAt(U, W, b), b)
  <2>1. CASE b = at
    <3>1. Reached(U, s, at)
      BY <1>1, <1>2, <1>6, StillReached
    <3> QED
      BY <1>5, <1>7, <2>1, <3>1
  <2>2. CASE b # at
    <3>1. StrAt(U, W, b) = StrAt(T, V, b) /\ Valid(T, b) /\ b \in DOMAIN T
      BY <1>2, <1>5, <1>7, <2>2
    <3>2. PICK t : t = StrAt(T, V, b)
      OBVIOUS
    <3>3. Reached(T, t, b)
      BY <3>1, <3>2 DEF Sound
    <3>4. t \in Strings
      BY <3>1, <3>2 DEF Sound, Named, StrAt
    <3> QED
      BY <1>1, <1>2, <1>6, <3>1, <3>2, <3>3, <3>4, StillReached
  <2> QED
    BY <2>1, <2>2
<1>8. ASSUME NEW a \in DOMAIN U, NEW b \in DOMAIN U, Valid(U, a), Valid(U, b),
             StrAt(U, W, a) = StrAt(U, W, b)
      PROVE  a = b
  <2>1. CASE a # at /\ b # at
    BY <1>2, <1>5, <1>8, <2>1 DEF Sound
  <2>2. CASE a = at /\ b # at
    BY <1>2, <1>5, <1>8, <2>2 DEF Has
  <2>3. CASE a # at /\ b = at
    BY <1>2, <1>5, <1>8, <2>3 DEF Has
  <2> QED
    BY <2>1, <2>2, <2>3
<1>9. Sound(U, W)
  BY <1>2, <1>5, <1>7, <1>8 DEF Sound
<1> QED
  BY <1>2, <1>4, <1>9

\* No more symbols are in a table than there are, and all of them if it is complete.
LEMMA CountSymbols ==
    ASSUME NEW T, NEW V \in Vectors, Sound(T, V)
    PROVE  /\ IsFiniteSet(ValidIn(T)) /\ IsFiniteSet(Named(V)) /\ IsFiniteSet(Filled(T))
           /\ Cardinality(ValidIn(T)) \in Nat /\ Cardinality(Named(V)) \in Nat
           /\ Cardinality(ValidIn(T)) <= Cardinality(Named(V))
           /\ Complete(T, V) => Cardinality(ValidIn(T)) = Cardinality(Named(V))
           /\ Cardinality(ValidIn(T)) <= Size(T)
<1>1. Size(T) \in Nat /\ DOMAIN T = 0..Size(T) - 1 /\ Len(V) \in Nat
  BY ProbePlaces DEF Sound, Vectors
<1>2. IsFiniteSet(DOMAIN T) /\ IsFiniteSet(0..Len(V) - 1)
  BY <1>1, FS_Interval
<1>3. ValidIn(T) \subseteq DOMAIN T /\ Filled(T) \subseteq DOMAIN T
      /\ Named(V) \subseteq 0..Len(V) - 1
  BY DEF ValidIn, Filled, Named
<1>4. /\ IsFiniteSet(ValidIn(T)) /\ IsFiniteSet(Named(V)) /\ IsFiniteSet(Filled(T))
      /\ Cardinality(ValidIn(T)) <= Cardinality(DOMAIN T)
  BY <1>2, <1>3, FS_Subset
<1>5. Cardinality(ValidIn(T)) \in Nat /\ Cardinality(Named(V)) \in Nat
  BY <1>4, FS_CardinalityType
<1> DEFINE IdAt == [at \in ValidIn(T) |-> T[at]]
<1>6. IdAt \in [ValidIn(T) -> Named(V)]
  BY DEF ValidIn, Sound
<1>7. \A a, b \in ValidIn(T) : IdAt[a] = IdAt[b] => a = b
  BY DEF ValidIn, Sound, StrAt
<1>8. IdAt \in Injection(ValidIn(T), Named(V))
  <2> HIDE DEF IdAt
  <2> QED
    BY <1>6, <1>7 DEF Injection, IsInjective
<1>9. /\ Cardinality(ValidIn(T)) <= Cardinality(Named(V))
      /\ Cardinality(ValidIn(T)) = Cardinality(Named(V))
           <=> IdAt \in Surjection(ValidIn(T), Named(V))
  BY <1>4, <1>8, FS_Injection
<1>10. ASSUME Complete(T, V) PROVE IdAt \in Surjection(ValidIn(T), Named(V))
  <2>1. ASSUME NEW id \in Named(V) PROVE \E at \in ValidIn(T) : IdAt[at] = id
    <3>1. PICK at \in DOMAIN T : T[at] = id
      BY <1>10 DEF Complete
    <3>2. id \in Nat /\ id < MaxSymbols
      BY <1>1, SymbolBoundsAssumption DEF Named, Vectors
    <3>3. at \in ValidIn(T)
      BY <3>1, <3>2, SymbolBoundsAssumption DEF ValidIn, Valid, Empty, Deleted
    <3> QED
      BY <3>1, <3>3
  <2> HIDE DEF IdAt
  <2> QED
    BY <1>6, <2>1 DEF Surjection
<1> QED
  BY <1>4, <1>5, <1>9, <1>10 DEF Size

\* The tables on the way of a rehash.
IsRehash(u, T, V, c, N) ==
    u = [n \in 0..N |->
          IF n = 0 THEN [at \in 0..c - 1 |-> Empty]
          ELSE IF Valid(T, n - 1) THEN Place(u[n - 1], V, T[n - 1]) ELSE u[n - 1]]

\* They exist.
LEMMA RehashRecursion ==
    ASSUME NEW T, NEW V, NEW c, Size(T) \in Nat
    PROVE  \E u : IsRehash(u, T, V, c, Size(T)) /\ Rehash(T, V, c) = u[Size(T)]
<1> DEFINE S == {m \in 0..Size(T) : \E u : IsRehash(u, T, V, c, m)}
<1>1. 0 \in S
  <2>1. IsRehash([n \in 0..0 |-> [at \in 0..c - 1 |-> Empty]], T, V, c, 0)
    BY DEF IsRehash
  <2> QED
    BY <2>1
<1>2. ASSUME NEW m \in 0..Size(T) - 1, m \in S
      PROVE  m + 1 \in S
  <2>1. PICK u : IsRehash(u, T, V, c, m)
    BY <1>2
  <2> DEFINE e == IF Valid(T, m) THEN Place(u[m], V, T[m]) ELSE u[m]
             w == [n \in 0..m + 1 |-> IF n = m + 1 THEN e ELSE u[n]]
             Entry0(f, n) ==
               IF n = 0 THEN [at \in 0..c - 1 |-> Empty]
               ELSE IF Valid(T, n - 1) THEN Place(f[n - 1], V, T[n - 1]) ELSE f[n - 1]
  <2>2. \A n \in 0..m + 1 : w[n] = Entry0(w, n)
    <3> SUFFICES ASSUME NEW n \in 0..m + 1 PROVE w[n] = Entry0(w, n)
      OBVIOUS
    <3>1. CASE n = m + 1
      <4>1. w[n] = e /\ n - 1 = m /\ n # 0 /\ m # m + 1 /\ m \in 0..m + 1
        BY <3>1
      <4>2. w[n - 1] = u[m]
        BY <4>1
      <4> HIDE DEF w
      <4> QED
        BY <3>1, <4>1, <4>2
    <3>2. CASE n # m + 1
      <4>1. n \in 0..m /\ w[n] = u[n]
        BY <3>2
      <4>2. n # 0 => w[n - 1] = u[n - 1]
        BY <3>2
      <4>3. u[n] = Entry0(u, n)
        BY <2>1, <4>1 DEF IsRehash
      <4> HIDE DEF w
      <4> QED
        BY <4>1, <4>2, <4>3
    <3> QED
      BY <3>1, <3>2
  <2>3. w = [n \in 0..m + 1 |-> w[n]]
    OBVIOUS
  <2> HIDE DEF w
  <2>4. IsRehash(w, T, V, c, m + 1)
    BY <2>2, <2>3 DEF IsRehash
  <2>5. m + 1 \in 0..Size(T)
    OBVIOUS
  <2> QED
    BY <2>4, <2>5
<1>3. Size(T) \in S
  <2> HIDE DEF S
  <2>1. \A m \in 0..Size(T) - 1 : m \in S => m + 1 \in S
    BY <1>2
  <2>2. \A m \in 0..Size(T) : m \in S
    BY <1>1, <2>1, UpTo
  <2> QED
    BY <2>2
<1>4. \E u : IsRehash(u, T, V, c, Size(T))
  BY <1>3
<1>5. Rehash(T, V, c) = (CHOOSE u : IsRehash(u, T, V, c, Size(T)))[Size(T)]
  BY DEF Rehash, IsRehash, Size
<1> QED
  BY <1>4, <1>5

\* Table U has the symbols of the first n places of T.
Moved(U, T, n) ==
    /\ \A at \in DOMAIN U :
         U[at] = Empty \/ \E p \in 0..n - 1 : Valid(T, p) /\ U[at] = T[p]
    /\ \A p \in 0..n - 1 : Valid(T, p) => \E at \in DOMAIN U : U[at] = T[p]

\* Moving one more symbol.
LEMMA MoveOne ==
    ASSUME NEW T, NEW V \in Vectors, Sound(T, V), NEW n \in 0..Size(T) - 1,
           NEW U, Sound(U, V), Moved(U, T, n), Size(U) > Size(T), Valid(T, n)
    PROVE  /\ Sound(Place(U, V, T[n]), V) /\ Moved(Place(U, V, T[n]), T, n + 1)
           /\ Size(Place(U, V, T[n])) = Size(U)
<1>1. /\ Size(T) \in Nat /\ DOMAIN T = 0..Size(T) - 1
      /\ Size(U) \in Nat /\ DOMAIN U = 0..Size(U) - 1 /\ n \in DOMAIN T
  BY ProbePlaces DEF Sound
<1>2. PICK id, s : id = T[n] /\ s = V[id + 1].str
  OBVIOUS
<1>3. id \in Named(V) /\ s \in Strings /\ id < MaxSymbols /\ id \in Nat
  <2>1. T[n] \in Named(V)
    BY <1>1 DEF Sound
  <2> QED
    BY <1>2, <2>1, SymbolBoundsAssumption DEF Named, Vectors
<1>4. \A at \in DOMAIN U : U[at] = Empty \/ Valid(U, at)
  BY <1>1 DEF Moved, Valid
<1>5. Roomy(U)
  <2> SUFFICES ASSUME ~Roomy(U) PROVE FALSE
    OBVIOUS
  <2>1. ValidIn(U) = DOMAIN U
    BY <1>4 DEF Roomy, ValidIn
  <2> DEFINE From == [at \in DOMAIN U |->
                        CHOOSE p \in 0..n - 1 : Valid(T, p) /\ U[at] = T[p]]
  <2>2. ASSUME NEW at \in DOMAIN U
        PROVE  From[at] \in DOMAIN T /\ Valid(T, From[at]) /\ U[at] = T[From[at]]
    <3>1. \E p \in 0..n - 1 : Valid(T, p) /\ U[at] = T[p]
      BY DEF Moved, Roomy
    <3>2. From[at] \in 0..n - 1 /\ Valid(T, From[at]) /\ U[at] = T[From[at]]
      BY <3>1
    <3> QED
      BY <1>1, <3>2
  <2>3. From \in [DOMAIN U -> DOMAIN T]
    BY <2>2
  <2>4. \A a, b \in DOMAIN U : From[a] = From[b] => a = b
    <3> HIDE DEF From
    <3>1. \A a, b \in DOMAIN U : From[a] = From[b] => U[a] = U[b]
      BY <2>2
    <3>2. \A a, b \in DOMAIN U : U[a] = U[b] => a = b
      BY <2>1 DEF ValidIn, Sound, StrAt
    <3> QED
      BY <3>1, <3>2
  <2>5. From \in Injection(DOMAIN U, DOMAIN T)
    <3> HIDE DEF From
    <3> QED
      BY <2>3, <2>4 DEF Injection, IsInjective
  <2>6. IsFiniteSet(DOMAIN T)
    BY <1>1, FS_Interval
  <2>7. Cardinality(DOMAIN U) <= Cardinality(DOMAIN T)
    BY <2>5, <2>6, FS_Injection
  <2>8. Size(U) <= Size(T)
    BY <2>7 DEF Size
  <2> QED
    BY <1>1, <2>8
<1>6. ~Has(U, V, s)
  <2> SUFFICES ASSUME NEW at \in DOMAIN U, Valid(U, at), StrAt(U, V, at) = s
               PROVE  FALSE
    BY DEF Has
  <2>1. PICK p \in 0..n - 1 : Valid(T, p) /\ U[at] = T[p]
    BY DEF Moved, Valid
  <2>2. p \in DOMAIN T /\ p # n
    BY <1>1
  <2>3. StrAt(T, V, p) = StrAt(T, V, n)
    BY <1>2, <2>1 DEF StrAt
  <2> QED
    BY <1>1, <2>1, <2>2, <2>3 DEF Sound
<1>7. PICK at : at = LookupString(U, V, s)
  OBVIOUS
<1>8. at \in DOMAIN U /\ ~Valid(U, at) /\ Reached(U, s, at)
  BY <1>3, <1>5, <1>6, <1>7, LookupFinds
<1>9. U[at] = Empty
  BY <1>4, <1>8
<1>10. PICK W : W = Put(U, at, id)
  OBVIOUS
<1>11. Place(U, V, T[n]) = W
  BY <1>2, <1>7, <1>10 DEF Place, Put
<1>12. Extends(V, V)
  BY DEF Extends
<1>13. /\ Sound(W, V) /\ Size(W) = Size(U) /\ DOMAIN W = DOMAIN U
       /\ W[at] = id /\ \A b \in DOMAIN U : b # at => W[b] = U[b]
  BY <1>2, <1>3, <1>6, <1>8, <1>10, <1>12, InsertKeeps
<1>14. n \in 0..(n + 1) - 1 /\ 0..n - 1 \subseteq 0..(n + 1) - 1
       /\ \A p \in 0..(n + 1) - 1 : p \in 0..n - 1 \/ p = n
  BY <1>1
<1>15. \A b \in DOMAIN W :
         W[b] = Empty \/ \E p \in 0..(n + 1) - 1 : Valid(T, p) /\ W[b] = T[p]
  <2> SUFFICES ASSUME NEW b \in DOMAIN W, W[b] # Empty
               PROVE  \E p \in 0..(n + 1) - 1 : Valid(T, p) /\ W[b] = T[p]
    OBVIOUS
  <2>1. CASE b = at
    BY <1>2, <1>13, <1>14, <2>1
  <2>2. CASE b # at
    <3>1. PICK p \in 0..n - 1 : Valid(T, p) /\ W[b] = T[p]
      BY <1>13, <2>2 DEF Moved
    <3> QED
      BY <1>14, <3>1
  <2> QED
    BY <2>1, <2>2
<1>16. ASSUME NEW p \in 0..(n + 1) - 1, Valid(T, p)
       PROVE  \E b \in DOMAIN W : W[b] = T[p]
  <2>1. CASE p = n
    BY <1>2, <1>8, <1>13, <2>1
  <2>2. CASE p # n
    <3>1. PICK b \in DOMAIN U : U[b] = T[p]
      BY <1>14, <1>16, <2>2 DEF Moved
    <3>2. b # at
      BY <1>9, <1>16, <3>1 DEF Valid
    <3> QED
      BY <1>13, <3>1, <3>2
  <2> QED
    BY <2>1, <2>2
<1> QED
  BY <1>11, <1>13, <1>15, <1>16 DEF Moved

\* growAndRehash() moves all symbols, and leaves the deleted places behind.
LEMMA RehashKeeps ==
    ASSUME NEW T, NEW V \in Vectors, Sound(T, V), Complete(T, V),
           NEW c \in PowersOf2, c > Size(T)
    PROVE  LET R == Rehash(T, V, c) IN
           /\ Sound(R, V) /\ Complete(R, V) /\ Size(R) = c /\ ValidIn(R) = Filled(R)
<1>1. /\ Size(T) \in Nat /\ DOMAIN T = 0..Size(T) - 1 /\ Size(T) > 0
      /\ c \in Nat /\ c > 0 /\ MaxSymbols \in Nat
  BY ProbePlaces, SymbolBoundsAssumption DEF Sound, PowersOf2
<1>2. PICK u : IsRehash(u, T, V, c, Size(T)) /\ Rehash(T, V, c) = u[Size(T)]
  BY <1>1, RehashRecursion
<1>3. \A n \in 0..Size(T) :
        u[n] = IF n = 0 THEN [at \in 0..c - 1 |-> Empty]
               ELSE IF Valid(T, n - 1) THEN Place(u[n - 1], V, T[n - 1]) ELSE u[n - 1]
  BY <1>2 DEF IsRehash
<1> DEFINE Good(n) == Sound(u[n], V) /\ Moved(u[n], T, n) /\ Size(u[n]) = c
           S == {n \in 0..Size(T) : Good(n)}
<1>4. 0 \in S
  <2>1. PICK E : E = [at \in 0..c - 1 |-> Empty]
    OBVIOUS
  <2>2. DOMAIN E = 0..c - 1 /\ (\A at \in DOMAIN E : E[at] = Empty) /\ Empty \in Nat
    BY <1>1, <2>1 DEF Empty
  <2>3. Size(E) = c
    BY <1>1, <2>2, FS_Interval DEF Size
  <2>4. IsTable(E)
    BY <2>1, <2>2, <2>3 DEF IsTable
  <2>5. \A at \in DOMAIN E : ~Valid(E, at)
    BY <2>2 DEF Valid
  <2>6. Sound(E, V)
    BY <2>4, <2>5 DEF Sound
  <2>7. Moved(E, T, 0)
    BY <2>2 DEF Moved
  <2>8. u[0] = E
    BY <1>1, <1>3, <2>1
  <2> QED
    BY <1>1, <2>3, <2>6, <2>7, <2>8
<1>5. ASSUME NEW n \in 0..Size(T) - 1, n \in S PROVE n + 1 \in S
  <2>1. /\ n + 1 \in 0..Size(T) /\ n + 1 # 0 /\ (n + 1) - 1 = n
        /\ Sound(u[n], V) /\ Moved(u[n], T, n) /\ Size(u[n]) = c
    BY <1>1, <1>5
  <2>2. PICK U, W : U = u[n] /\ W = u[n + 1]
    OBVIOUS
  <2>3. W = IF Valid(T, n) THEN Place(U, V, T[n]) ELSE U
    BY <1>3, <2>1, <2>2
  <2>4. CASE Valid(T, n)
    <3>1. W = Place(U, V, T[n])
      BY <2>3, <2>4
    <3>2. Sound(U, V) /\ Moved(U, T, n) /\ Size(U) = c
      BY <2>1, <2>2
    <3>3. Sound(W, V) /\ Moved(W, T, n + 1) /\ Size(W) = Size(U)
      BY <2>4, <3>1, <3>2, MoveOne
    <3> QED
      BY <2>1, <2>2, <3>2, <3>3
  <2>5. CASE ~Valid(T, n)
    <3>1. \A p \in 0..(n + 1) - 1 : Valid(T, p) => p \in 0..n - 1
      BY <2>5
    <3>2. 0..n - 1 \subseteq 0..(n + 1) - 1
      OBVIOUS
    <3>3. Moved(U, T, n + 1)
      BY <2>1, <2>2, <3>1, <3>2 DEF Moved
    <3> QED
      BY <2>1, <2>2, <2>3, <2>5, <3>3
  <2> QED
    BY <2>4, <2>5
<1>6. Size(T) \in S
  <2> HIDE DEF S
  <2>1. \A m \in 0..Size(T) - 1 : m \in S => m + 1 \in S
    BY <1>5
  <2>2. \A m \in 0..Size(T) : m \in S
    BY <1>1, <1>4, <2>1, UpTo
  <2> QED
    BY <1>1, <2>2
<1>7. PICK R : R = Rehash(T, V, c)
  OBVIOUS
<1>8. Sound(R, V) /\ Moved(R, T, Size(T)) /\ Size(R) = c
  BY <1>2, <1>6, <1>7
<1>9. Complete(R, V)
  <2> SUFFICES ASSUME NEW id \in Named(V) PROVE \E at \in DOMAIN R : R[at] = id
    BY DEF Complete
  <2>1. PICK p \in DOMAIN T : T[p] = id
    BY DEF Complete
  <2>2. id \in Nat /\ id < MaxSymbols
    BY SymbolBoundsAssumption DEF Named, Vectors
  <2>3. Valid(T, p)
    BY <2>1, <2>2, <1>1 DEF Valid, Empty, Deleted
  <2> QED
    BY <1>1, <1>8, <2>1, <2>3 DEF Moved
<1>10. ValidIn(R) = Filled(R)
  BY <1>8 DEF ValidIn, Filled, Moved, Valid
<1> QED
  BY <1>7, <1>8, <1>9, <1>10

------------------------------------------------------------------------------
(* Freeing.                                                                   *)

\* W is V with the entry of one symbol made free, before the list from first on.
Released(V, id, first) ==
    [V EXCEPT ![id + 1] = [kind |-> "free", str |-> NoSymbol, next |-> first]]

SameBut(W, V, id) == \A i \in 0..Len(V) - 1 : i # id => W[i + 1] = V[i + 1]

\* The other entries stay.
LEMMA Releases ==
    ASSUME NEW V \in Vectors, NEW id \in 0..Len(V) - 1, NEW first \in Nat,
           NEW W, W = Released(V, id, first)
    PROVE  /\ W \in Vectors /\ Len(W) = Len(V)
           /\ W[id + 1] = [kind |-> "free", str |-> NoSymbol, next |-> first]
           /\ SameBut(W, V, id)
           /\ Named(W) = Named(V) \ {id}
<1>1. Len(V) \in Nat /\ V \in Seq(Entries) /\ Len(V) <= MaxSymbols
  BY DEF Vectors
<1>2. PICK e : e = [kind |-> "free", str |-> NoSymbol, next |-> first]
  OBVIOUS
<1>3. e \in Entries /\ e.str = NoSymbol
  BY <1>2 DEF Entries
<1>4. W = [V EXCEPT ![id + 1] = e]
  BY <1>2 DEF Released
<1>5. id + 1 \in 1..Len(V)
  BY <1>1
<1>6. W \in Seq(Entries) /\ Len(W) = Len(V)
  BY <1>1, <1>3, <1>4, <1>5
<1>7. W[id + 1] = e
  BY <1>1, <1>4, <1>5
<1>8. ASSUME NEW i \in 0..Len(V) - 1, i # id PROVE W[i + 1] = V[i + 1]
  <2>1. i + 1 \in 1..Len(V) /\ i + 1 # id + 1
    BY <1>1, <1>8
  <2> QED
    BY <1>1, <1>4, <2>1
<1>9. Named(W) = Named(V) \ {id}
  <2>1. id \notin Named(W)
    BY <1>3, <1>7, NoSymbolAssumption DEF Named
  <2>2. \A i \in 0..Len(V) - 1 : i # id => (i \in Named(W) <=> i \in Named(V))
    BY <1>6, <1>8 DEF Named
  <2>3. Named(W) \subseteq 0..Len(V) - 1 /\ Named(V) \subseteq 0..Len(V) - 1
    BY <1>6 DEF Named
  <2> QED
    BY <2>1, <2>2, <2>3
<1> QED
  BY <1>1, <1>2, <1>6, <1>7, <1>8, <1>9 DEF Vectors, SameBut

\* freeSymbol() takes the symbol out of the table; the others are still found.
LEMMA RemoveKeeps ==
    ASSUME NEW S, NEW id \in 0..Len(S.vector) - 1, S.vector \in Vectors, S.first \in Nat,
           Sound(S.table, S.vector), Complete(S.table, S.vector), Roomy(S.table)
    PROVE  LET U == FreeSymbol(S, id) IN
           /\ Sound(U.table, U.vector) /\ Complete(U.table, U.vector)
           /\ Roomy(U.table) /\ Size(U.table) = Size(S.table)
           /\ U.vector = Released(S.vector, id, S.first)
           /\ Filled(U.table) = Filled(S.table)
           /\ ValidIn(U.table) \subseteq ValidIn(S.table)
<1>1. PICK T, V, W, U : /\ T = S.table /\ V = S.vector /\ W = Released(V, id, S.first)
                        /\ U = Removed(S, id)
  OBVIOUS
<1>2. FreeSymbol(S, id).table = U /\ FreeSymbol(S, id).vector = W
  BY <1>1 DEF FreeSymbol, Released
<1>3. /\ V \in Vectors /\ S.first \in Nat /\ id \in 0..Len(V) - 1
      /\ Sound(T, V) /\ Complete(T, V) /\ Roomy(T)
  BY <1>1
<1>4. /\ W \in Vectors /\ Len(W) = Len(V) /\ Named(W) = Named(V) \ {id}
      /\ \A i \in 0..Len(V) - 1 : i # id => W[i + 1] = V[i + 1]
  <2>1. PICK f \in Nat : f = S.first
    BY <1>3
  <2>2. W = Released(V, id, f)
    BY <1>1, <2>1
  <2>3. W \in Vectors /\ Len(W) = Len(V) /\ Named(W) = Named(V) \ {id} /\ SameBut(W, V, id)
    BY <1>3, <2>2, Releases
  <2> QED
    BY <2>3 DEF SameBut
<1>5. IsTable(T) /\ MaxSymbols \in Nat /\ Named(V) \subseteq 0..Len(V) - 1
  BY <1>3, SymbolBoundsAssumption DEF Sound, Named
<1>6. SUFFICES /\ Sound(U, W) /\ Complete(U, W) /\ Roomy(U) /\ Size(U) = Size(T)
               /\ Filled(U) = Filled(T) /\ ValidIn(U) \subseteq ValidIn(T)
  BY <1>1, <1>2
<1>7. CASE V[id + 1].str = NoSymbol
  <2>1. U = T
    BY <1>1, <1>7 DEF Removed
  <2>2. id \notin Named(V)
    BY <1>7, NoSymbolAssumption DEF Named
  <2>3. Named(W) = Named(V) /\ \A i \in Named(V) : W[i + 1] = V[i + 1]
    BY <1>4, <1>5, <2>2
  <2>4. \A at \in DOMAIN T : Valid(T, at) => StrAt(T, W, at) = StrAt(T, V, at)
    BY <1>3, <2>3 DEF Sound, StrAt
  <2>5. Sound(T, W)
    BY <1>3, <2>3, <2>4 DEF Sound
  <2>6. Complete(T, W)
    BY <1>3, <2>3 DEF Complete
  <2> QED
    BY <1>3, <2>1, <2>5, <2>6
<1>8. CASE V[id + 1].str # NoSymbol
  <2>1. PICK s, at : s = V[id + 1].str /\ at = LookupString(T, V, s)
    OBVIOUS
  <2>2. id \in Named(V) /\ s \in Strings
    <3>1. V[id + 1] \in Entries
      <4>1. id + 1 \in 1..Len(V) /\ V \in Seq(Entries)
        BY <1>3 DEF Vectors
      <4> QED
        BY <4>1
    <3> QED
      BY <1>3, <1>8, <2>1, <3>1 DEF Named, Entries
  <2>3. PICK p \in DOMAIN T : T[p] = id
    BY <1>3, <2>2 DEF Complete
  <2>4. id < MaxSymbols /\ id \in Nat
    BY <1>3, <1>5 DEF Vectors
  <2>5. Valid(T, p) /\ StrAt(T, V, p) = s
    BY <1>5, <2>1, <2>3, <2>4 DEF Valid, StrAt, Empty, Deleted
  <2>6. at \in DOMAIN T /\ Valid(T, at) /\ StrAt(T, V, at) = s
    <3>1. Has(T, V, s)
      BY <2>5 DEF Has
    <3> QED
      BY <1>3, <2>1, <2>2, <3>1, LookupFinds
  <2>7. at = p /\ T[at] = id
    BY <1>3, <2>3, <2>5, <2>6 DEF Sound
  <2>8. U = Put(T, at, Deleted)
    BY <1>1, <1>8, <2>1 DEF Removed, Put
  <2>9. Deleted \in Nat /\ Deleted # Empty
    BY <1>5 DEF Deleted, Empty
  <2>10. /\ IsTable(U) /\ DOMAIN U = DOMAIN T /\ Size(U) = Size(T)
         /\ U[at] = Deleted /\ \A b \in DOMAIN T : b # at => U[b] = T[b]
    BY <1>5, <2>6, <2>8, <2>9, SetPlace
  <2>11. T[at] # Empty
    BY <2>6 DEF Valid
  <2>12. Filled(U) = Filled(T)
    BY <2>9, <2>10, <2>11 DEF Filled
  <2>13. Roomy(U)
    BY <1>3, <2>10, <2>11 DEF Roomy
  <2>14. ASSUME NEW b \in DOMAIN T, Valid(U, b)
         PROVE  /\ b # at /\ Valid(T, b) /\ U[b] = T[b] /\ U[b] \in Named(W)
                /\ StrAt(U, W, b) = StrAt(T, V, b)
    <3>1. b # at /\ U[b] = T[b] /\ Valid(T, b)
      BY <2>10, <2>14 DEF Valid
    <3>2. T[b] \in Named(V) /\ T[b] # id
      <4>1. T[b] = id => StrAt(T, V, b) = StrAt(T, V, at)
        BY <2>7 DEF StrAt
      <4> QED
        BY <1>3, <2>6, <3>1, <4>1 DEF Sound
    <3>3. W[T[b] + 1] = V[T[b] + 1]
      BY <1>4, <1>5, <3>2
    <3> QED
      BY <1>4, <3>1, <3>2, <3>3 DEF StrAt
  <2>15. ASSUME NEW b \in DOMAIN U, Valid(U, b) PROVE Reached(U, StrAt(U, W, b), b)
    <3>1. PICK t : t = StrAt(T, V, b) /\ t = StrAt(U, W, b)
      BY <2>10, <2>14, <2>15
    <3>2. t \in Strings /\ Reached(T, t, b)
      BY <1>3, <2>10, <2>14, <2>15, <3>1 DEF Sound, Named, StrAt
    <3>3. \A q \in DOMAIN T : T[q] # Empty => U[q] # Empty
      BY <2>9, <2>10
    <3>4. Reached(U, t, b)
      BY <1>5, <2>10, <3>2, <3>3, StillReached
    <3> QED
      BY <3>1, <3>4
  <2>16. Sound(U, W)
    <3>1. \A a, b \in DOMAIN U :
            Valid(U, a) /\ Valid(U, b) /\ StrAt(U, W, a) = StrAt(U, W, b) => a = b
      BY <1>3, <2>10, <2>14 DEF Sound
    <3> QED
      BY <2>10, <2>14, <2>15, <3>1 DEF Sound
  <2>17. Complete(U, W)
    <3> SUFFICES ASSUME NEW i \in Named(W) PROVE \E b \in DOMAIN U : U[b] = i
      BY DEF Complete
    <3>1. i \in Named(V) /\ i # id
      BY <1>4
    <3>2. PICK b \in DOMAIN T : T[b] = i
      BY <1>3, <3>1 DEF Complete
    <3>3. b # at
      BY <2>7, <3>1, <3>2
    <3> QED
      BY <2>10, <3>2, <3>3
  <2>18. ValidIn(U) \subseteq ValidIn(T)
    BY <2>10, <2>14 DEF ValidIn
  <2> QED
    BY <2>10, <2>12, <2>13, <2>16, <2>17, <2>18
<1> QED
  BY <1>7, <1>8

------------------------------------------------------------------------------
(* The list of free indices.                                                  *)

FreeIds(V) == {id \in 0..Len(V) - 1 : V[id + 1].kind = "free"}

\* The list that begins with first, backwards: its end is G[0].
Chain(G, k, V, first) ==
    /\ k \in Nat /\ G[0] = End /\ G[k] = first
    /\ \A i \in 1..k : G[i] \in FreeIds(V) /\ V[G[i] + 1].next = G[i - 1]
    /\ \A i, j \in 1..k : G[i] = G[j] => i = j
    /\ \A id \in FreeIds(V) : \E i \in 1..k : G[i] = id
Chained(V, first) == \E G, k : Chain(G, k, V, first)

\* An entry that is freed goes before the others.
LEMMA ChainGrows ==
    ASSUME NEW V \in Vectors, NEW id \in 0..Len(V) - 1, id \notin FreeIds(V),
           NEW first \in Nat, Chained(V, first), NEW W, W = Released(V, id, first)
    PROVE  Chained(W, id) /\ FreeIds(W) = FreeIds(V) \cup {id}
<1>1. /\ Len(W) = Len(V) /\ SameBut(W, V, id)
      /\ W[id + 1] = [kind |-> "free", str |-> NoSymbol, next |-> first]
  BY Releases
<1>2. W[id + 1].kind = "free" /\ W[id + 1].next = first
  BY <1>1
<1>3. FreeIds(W) = FreeIds(V) \cup {id}
  BY <1>1, <1>2 DEF FreeIds, SameBut
<1>4. PICK G, k : Chain(G, k, V, first)
  BY DEF Chained
<1> DEFINE H == [i \in 0..k + 1 |-> IF i = k + 1 THEN id ELSE G[i]]
<1>5. k \in Nat /\ H[k + 1] = id /\ \A i \in 0..k : H[i] = G[i]
  BY <1>4 DEF Chain
<1> HIDE DEF H
<1>6. ASSUME NEW i \in 1..k + 1
      PROVE  H[i] \in FreeIds(W) /\ W[H[i] + 1].next = H[i - 1]
  <2>1. CASE i = k + 1
    <3>1. H[i - 1] = G[k]
      BY <1>5, <2>1
    <3> QED
      BY <1>2, <1>3, <1>4, <1>5, <2>1, <3>1 DEF Chain
  <2>2. CASE i # k + 1
    <3>1. i \in 1..k /\ i - 1 \in 0..k /\ i \in 0..k
      BY <1>5, <2>2
    <3>2. H[i] = G[i] /\ H[i - 1] = G[i - 1]
      BY <1>5, <3>1
    <3>3. G[i] \in FreeIds(V) /\ V[G[i] + 1].next = G[i - 1]
      BY <1>4, <3>1 DEF Chain
    <3>4. W[G[i] + 1] = V[G[i] + 1]
      BY <1>1, <3>3 DEF SameBut, FreeIds
    <3> QED
      BY <1>3, <3>2, <3>3, <3>4
  <2> QED
    BY <2>1, <2>2
<1>7. ASSUME NEW i \in 1..k + 1, NEW j \in 1..k + 1, H[i] = H[j] PROVE i = j
  <2>1. \A m \in 1..k : H[m] = G[m] /\ G[m] # id
    BY <1>4, <1>5 DEF Chain
  <2>2. (i = k + 1 \/ i \in 1..k) /\ (j = k + 1 \/ j \in 1..k)
    BY <1>5
  <2> QED
    BY <1>4, <1>5, <1>7, <2>1, <2>2 DEF Chain
<1>8. ASSUME NEW f \in FreeIds(W) PROVE \E i \in 1..k + 1 : H[i] = f
  <2>1. CASE f = id
    BY <1>5, <2>1
  <2>2. CASE f # id
    <3>1. PICK i \in 1..k : G[i] = f
      BY <1>3, <1>4, <2>2 DEF Chain
    <3>2. i \in 1..k + 1 /\ i \in 0..k
      BY <1>5
    <3> QED
      BY <1>5, <3>1, <3>2
  <2> QED
    BY <2>1, <2>2
<1>9. H[0] = End
  BY <1>4, <1>5 DEF Chain
<1>10. Chain(H, k + 1, W, id)
  BY <1>5, <1>6, <1>7, <1>8, <1>9 DEF Chain
<1> QED
  BY <1>3, <1>10 DEF Chained

\* The first of the list is free, and the list goes on without it when it is used.
LEMMA ChainShrinks ==
    ASSUME NEW V \in Vectors, NEW first, Chained(V, first), first # End,
           NEW W, Len(W) = Len(V), SameBut(W, V, first), W[first + 1].kind # "free"
    PROVE  /\ first \in FreeIds(V) /\ Chained(W, V[first + 1].next)
           /\ V[first + 1].next \in Nat
<1>1. PICK G, k : Chain(G, k, V, first)
  BY DEF Chained
<1>2. k \in Nat /\ k # 0
  BY <1>1 DEF Chain
<1>3. k \in 1..k /\ k - 1 \in Nat /\ 1..k - 1 \subseteq 1..k
  BY <1>2
<1>4. first \in FreeIds(V) /\ V[first + 1].next = G[k - 1]
  BY <1>1, <1>3 DEF Chain
<1>5. V[first + 1].next \in Nat
  <2>1. first + 1 \in 1..Len(V) /\ V \in Seq(Entries)
    BY <1>4 DEF FreeIds, Vectors
  <2>2. V[first + 1] \in Entries
    BY <2>1
  <2> QED
    BY <2>2 DEF Entries
<1>6. FreeIds(W) = FreeIds(V) \ {first}
  BY <1>4 DEF FreeIds, SameBut
<1>7. ASSUME NEW i \in 1..k - 1
      PROVE  G[i] \in FreeIds(W) /\ W[G[i] + 1].next = G[i - 1]
  <2>1. i \in 1..k /\ i # k
    BY <1>2
  <2>2. G[i] \in FreeIds(V) /\ V[G[i] + 1].next = G[i - 1] /\ G[i] # first
    BY <1>1, <1>3, <2>1 DEF Chain
  <2>3. W[G[i] + 1] = V[G[i] + 1]
    BY <2>2 DEF SameBut, FreeIds
  <2> QED
    BY <1>6, <2>2, <2>3
<1>8. ASSUME NEW f \in FreeIds(W) PROVE \E i \in 1..k - 1 : G[i] = f
  <2>1. PICK i \in 1..k : G[i] = f
    BY <1>1, <1>6 DEF Chain
  <2>2. i # k
    BY <1>1, <1>6, <2>1 DEF Chain
  <2>3. i \in 1..k - 1
    BY <1>2, <2>2
  <2> QED
    BY <2>1, <2>3
<1>9. Chain(G, k - 1, W, G[k - 1])
  BY <1>1, <1>3, <1>7, <1>8 DEF Chain
<1> QED
  BY <1>4, <1>5, <1>9 DEF Chained

\* A vector with the same free entries has the same list.
LEMMA ChainStays ==
    ASSUME NEW V, NEW W, NEW first, Chained(V, first), FreeIds(W) = FreeIds(V),
           \A id \in FreeIds(V) : W[id + 1].next = V[id + 1].next
    PROVE  Chained(W, first)
<1>1. PICK G, k : Chain(G, k, V, first)
  BY DEF Chained
<1>2. Chain(G, k, W, first)
  BY <1>1 DEF Chain
<1> QED
  BY <1>2 DEF Chained

\* The first of the list, which IndicesAccounted follows.
IsList(u, N) ==
    u = [n \in 0..N |->
          IF n = 0 THEN firstFreeID ELSE IF u[n - 1] = End THEN End ELSE Entry(u[n - 1]).next]

\* The list has each free index, and it ends.
LEMMA ListAccounted ==
    ASSUME lookupVector \in Vectors, Chained(lookupVector, firstFreeID),
           symbolCount = Cardinality({at \in DOMAIN table : Valid(table, at)})
    PROVE  IndicesAccounted
<1> DEFINE free == {id \in Ids : IsFree(id)}
<1>1. free = FreeIds(lookupVector)
  BY DEF Ids, IsFree, Entry, FreeIds
<1>2. PICK G, k : Chain(G, k, lookupVector, firstFreeID)
  BY DEF Chained
<1>3. k \in Nat /\ IsFiniteSet(1..k) /\ Cardinality(1..k) = k
  <2>1. k \in Nat
    BY <1>2 DEF Chain
  <2> QED
    BY <2>1, FS_Interval
<1>4. Cardinality(free) = k
  <2> DEFINE g == [i \in 1..k |-> G[i]]
  <2>1. g \in [1..k -> free]
    BY <1>1, <1>2 DEF Chain
  <2>2. \A i, j \in 1..k : g[i] = g[j] => i = j
    BY <1>2 DEF Chain
  <2>3. \A id \in free : \E i \in 1..k : g[i] = id
    BY <1>1, <1>2 DEF Chain
  <2> HIDE DEF g, free
  <2>4. g \in Injection(1..k, free)
    BY <2>1, <2>2 DEF Injection, IsInjective
  <2>5. g \in Surjection(1..k, free)
    BY <2>1, <2>3 DEF Surjection
  <2>6. g \in Injection(1..k, free) <=> Cardinality(free) = Cardinality(1..k)
    BY <1>3, <2>5, FS_Surjection
  <2> QED
    BY <1>3, <2>4, <2>6
<1>5. \A i \in 1..k : G[i] # End
  <2>1. MaxSymbols \in Nat /\ Len(lookupVector) \in Nat /\ Len(lookupVector) <= MaxSymbols
    BY SymbolBoundsAssumption DEF Vectors
  <2>2. \A id \in FreeIds(lookupVector) : id < MaxSymbols /\ id \in Nat
    BY <2>1 DEF FreeIds
  <2> QED
    BY <1>2, <2>1, <2>2 DEF Chain, End
<1>6. \A i \in 1..k : Entry(G[i]).next = G[i - 1]
  BY <1>2 DEF Chain, Entry
<1>7. G[k] = firstFreeID /\ G[0] = End
  BY <1>2 DEF Chain
<1> DEFINE back == [n \in 0..k |-> G[k - n]]
<1>8. IsList(back, k)
  <2>1. ASSUME NEW n \in 0..k
        PROVE  back[n] = IF n = 0 THEN firstFreeID
                         ELSE IF back[n - 1] = End THEN End ELSE Entry(back[n - 1]).next
    <3>1. CASE n = 0
      BY <1>3, <1>7, <3>1
    <3>2. CASE n # 0
      <4>1. n - 1 \in 0..k /\ k - (n - 1) \in 1..k /\ (k - (n - 1)) - 1 = k - n
        BY <1>3, <3>2
      <4>2. back[n - 1] = G[k - (n - 1)] /\ back[n] = G[k - n]
        BY <4>1
      <4>3. PICK i \in 1..k : i = k - (n - 1) /\ i - 1 = k - n
        BY <4>1
      <4>4. G[i] # End /\ Entry(G[i]).next = G[i - 1]
        BY <1>5, <1>6
      <4> HIDE DEF back
      <4> QED
        BY <3>2, <4>2, <4>3, <4>4
    <3> QED
      BY <3>1, <3>2
  <2>2. back = [n \in 0..k |-> back[n]]
    OBVIOUS
  <2> HIDE DEF back
  <2> QED
    BY <2>1, <2>2 DEF IsList
<1>9. PICK u : IsList(u, k) /\ u = CHOOSE v : IsList(v, k)
  BY <1>8
<1>10. \A n \in 0..k :
         u[n] = IF n = 0 THEN firstFreeID
                ELSE IF u[n - 1] = End THEN End ELSE Entry(u[n - 1]).next
  BY <1>9 DEF IsList
<1> DEFINE S == {n \in 0..k : u[n] = G[k - n]}
<1>11. 0 \in S
  BY <1>3, <1>7, <1>10
<1>12. ASSUME NEW n \in 0..k - 1, n \in S PROVE n + 1 \in S
  <2>1. n + 1 \in 0..k /\ n + 1 # 0 /\ (n + 1) - 1 = n /\ k - n \in 1..k
    BY <1>3
  <2>2. PICK i \in 1..k : i = k - n /\ i - 1 = k - (n + 1)
    BY <1>3, <2>1
  <2>3. u[n] = G[i] /\ G[i] # End /\ Entry(G[i]).next = G[i - 1]
    BY <1>5, <1>6, <1>12, <2>2
  <2>4. u[n + 1] = IF u[n] = End THEN End ELSE Entry(u[n]).next
    BY <1>10, <2>1
  <2>5. u[n + 1] = G[k - (n + 1)]
    BY <2>2, <2>3, <2>4
  <2> QED
    BY <2>1, <2>5
<1>13. \A n \in 0..k : u[n] = G[k - n]
  <2> HIDE DEF S
  <2>1. \A n \in 0..k - 1 : n \in S => n + 1 \in S
    BY <1>12
  <2>2. \A n \in 0..k : n \in S
    BY <1>3, <1>11, <2>1, UpTo
  <2> QED
    BY <2>2 DEF S
<1>14. {u[n] : n \in 0..k} = free \cup {End}
  <2>1. ASSUME NEW n \in 0..k PROVE u[n] \in free \cup {End}
    <3>1. CASE n = k
      <4>1. u[n] = G[0]
        BY <1>3, <1>13, <3>1
      <4> QED
        BY <1>7, <4>1
    <3>2. CASE n # k
      <4>1. k - n \in 1..k
        BY <1>3, <3>2
      <4>2. G[k - n] \in FreeIds(lookupVector)
        BY <1>2, <4>1 DEF Chain
      <4> QED
        BY <1>1, <1>13, <4>2
    <3> QED
      BY <3>1, <3>2
  <2>2. ASSUME NEW id \in free PROVE \E n \in 0..k : u[n] = id
    <3>1. PICK i \in 1..k : G[i] = id
      BY <1>1, <1>2 DEF Chain
    <3>2. k - i \in 0..k /\ k - (k - i) = i
      BY <1>3
    <3>3. u[k - i] = G[i]
      BY <1>13, <3>2
    <3> QED
      BY <3>1, <3>2, <3>3
  <2>3. k \in 0..k /\ u[k] = End
    <3>1. u[k] = G[0]
      BY <1>3, <1>13
    <3> QED
      BY <1>3, <1>7, <3>1
  <2> HIDE DEF free
  <2> QED
    BY <2>1, <2>2, <2>3
<1>15. IndicesAccounted <=>
         /\ {(CHOOSE v : IsList(v, Cardinality(free)))[n] : n \in 0..Cardinality(free)}
              = free \cup {End}
         /\ symbolCount = Cardinality({at \in DOMAIN table : Valid(table, at)})
  BY DEF IndicesAccounted, IsList
<1> HIDE DEF free
<1> QED
  BY <1>4, <1>9, <1>14, <1>15

------------------------------------------------------------------------------
(* The inductive invariant of IdentifierTable.                                *)

SymbolTypes ==
    /\ lookupVector \in Vectors
    /\ firstFreeID \in Nat
    /\ \A id \in FreeIds(lookupVector) : lookupVector[id + 1].str = NoSymbol
    /\ symbolCount \in Nat /\ nonEmptyCount \in Nat
    /\ uniqueID \in [Strings -> Nat \cup {NoSymbol}]
    /\ roots \subseteq Nat
    /\ slot \in [Slots -> Nat \cup {NoSymbol}]
    /\ weakSym \in Nat \cup {NoSymbol}
    /\ marking \in BOOLEAN
    /\ symbolsEnd \in Nat /\ symbolsEnd <= Len(lookupVector)

\* growAndRehash() keeps a quarter of the table empty, deleted places included.
TableKept ==
    /\ Sound(table, lookupVector) /\ Complete(table, lookupVector)
    /\ Capacity >= 4
    /\ Cardinality(Filled(table)) <= nonEmptyCount
    /\ nonEmptyCount <= Capacity - Capacity \div 4
    /\ symbolCount = Cardinality(Named(lookupVector))

\* The place that was looked up stays one where the new symbol will be found.
CreatingKept ==
    creating # NoSymbol =>
      /\ creating.str \in Strings /\ creating.at \in DOMAIN table
      /\ ~Valid(table, creating.at) /\ Reached(table, creating.str, creating.at)
      /\ ~Has(table, lookupVector, creating.str)

FreeKept == Chained(lookupVector, firstFreeID)

\* A symbol that is not freed when marking is completed, whatever happens before.
Kept(id) ==
    \/ id = NoSymbol
    \/ id >= symbolsEnd
    \/ id \in markedSymbols \cup writeBarrierMarkedSymbols
    \/ Entry(id).kind # "prim"
    \/ \E o \in Slots \ scanned : slot[o] = id
Held == roots \cup {slot[o] : o \in Slots}
MarkKept == marking => \A id \in Held : Kept(id)

SymbolInv ==
    /\ SymbolTypes /\ TableKept /\ CreatingKept /\ FreeKept /\ MarkKept /\ SymbolsLive

\* The table is never full.
LEMMA NeverFull ==
    ASSUME NEW T, NEW n \in Nat, IsTable(T), Size(T) >= 4,
           Cardinality(Filled(T)) <= n, n <= Size(T) - Size(T) \div 4
    PROVE  Roomy(T)
<1> SUFFICES ASSUME ~Roomy(T) PROVE FALSE
  OBVIOUS
<1>1. Filled(T) = DOMAIN T
  BY DEF Filled, Roomy
<1>2. Size(T) \in Nat /\ Cardinality(Filled(T)) = Size(T)
  BY <1>1, ProbePlaces DEF Size
<1>3. Size(T) - Size(T) \div 4 < Size(T)
  <2>1. PICK c \in Nat : c = Size(T)
    BY <1>2
  <2>2. c - c \div 4 < c
    BY <2>1
  <2> QED
    BY <2>1, <2>2
<1>4. Size(T) \div 4 \in Nat
  BY <1>2
<1> QED
  BY <1>2, <1>3, <1>4

\* A string has a symbol in the table if it has one at all.
LEMMA HasNamed ==
    ASSUME NEW T, NEW V \in Vectors, Sound(T, V), Complete(T, V), NEW s \in Strings
    PROVE  Has(T, V, s) <=> \E id \in Named(V) : V[id + 1].str = s
<1>1. ASSUME Has(T, V, s) PROVE \E id \in Named(V) : V[id + 1].str = s
  BY <1>1 DEF Has, Sound, StrAt
<1>2. ASSUME NEW id \in Named(V), V[id + 1].str = s PROVE Has(T, V, s)
  <2>1. PICK at \in DOMAIN T : T[at] = id
    BY DEF Complete
  <2>2. id \in Nat /\ id < MaxSymbols
    BY SymbolBoundsAssumption DEF Named, Vectors
  <2>3. Valid(T, at) /\ StrAt(T, V, at) = s
    BY <1>2, <2>1, <2>2, SymbolBoundsAssumption DEF Valid, Empty, Deleted, StrAt
  <2> QED
    BY <2>3 DEF Has
<1> QED
  BY <1>1, <1>2

\* The states on the way of freeUnmarkedSymbols().
IsFreeing(u, N) ==
    u = [n \in 0..N |->
          IF n = 0 THEN Symbols
          ELSE IF n - 1 \in Freed THEN FreeSymbol(u[n - 1], n - 1) ELSE u[n - 1]]

\* They exist.
LEMMA FreeingRecursion ==
    ASSUME symbolsEnd \in Nat
    PROVE  \E u : IsFreeing(u, symbolsEnd) /\ FreeUnmarkedSymbols = u[symbolsEnd]
<1> DEFINE S == {m \in 0..symbolsEnd : \E u : IsFreeing(u, m)}
<1>1. 0 \in S
  <2>1. IsFreeing([n \in 0..0 |-> Symbols], 0)
    BY DEF IsFreeing
  <2> QED
    BY <2>1
<1>2. ASSUME NEW m \in 0..symbolsEnd - 1, m \in S
      PROVE  m + 1 \in S
  <2>1. PICK u : IsFreeing(u, m)
    BY <1>2
  <2> DEFINE e == IF m \in Freed THEN FreeSymbol(u[m], m) ELSE u[m]
             w == [n \in 0..m + 1 |-> IF n = m + 1 THEN e ELSE u[n]]
             Entry0(f, n) ==
               IF n = 0 THEN Symbols
               ELSE IF n - 1 \in Freed THEN FreeSymbol(f[n - 1], n - 1) ELSE f[n - 1]
  <2>2. \A n \in 0..m + 1 : w[n] = Entry0(w, n)
    <3> SUFFICES ASSUME NEW n \in 0..m + 1 PROVE w[n] = Entry0(w, n)
      OBVIOUS
    <3>1. CASE n = m + 1
      <4>1. w[n] = e /\ n - 1 = m /\ n # 0 /\ m # m + 1 /\ m \in 0..m + 1
        BY <3>1
      <4>2. w[n - 1] = u[m]
        BY <4>1
      <4> HIDE DEF w
      <4> QED
        BY <3>1, <4>1, <4>2
    <3>2. CASE n # m + 1
      <4>1. n \in 0..m /\ w[n] = u[n]
        BY <3>2
      <4>2. n # 0 => w[n - 1] = u[n - 1]
        BY <3>2
      <4>3. u[n] = Entry0(u, n)
        BY <2>1, <4>1 DEF IsFreeing
      <4> HIDE DEF w
      <4> QED
        BY <4>1, <4>2, <4>3
    <3> QED
      BY <3>1, <3>2
  <2>3. w = [n \in 0..m + 1 |-> w[n]]
    OBVIOUS
  <2> HIDE DEF w
  <2>4. IsFreeing(w, m + 1)
    BY <2>2, <2>3 DEF IsFreeing
  <2>5. m + 1 \in 0..symbolsEnd
    OBVIOUS
  <2> QED
    BY <2>4, <2>5
<1>3. symbolsEnd \in S
  <2> HIDE DEF S
  <2>1. \A m \in 0..symbolsEnd - 1 : m \in S => m + 1 \in S
    BY <1>2
  <2>2. \A m \in 0..symbolsEnd : m \in S
    BY <1>1, <2>1, UpTo
  <2> QED
    BY <2>2
<1>4. \E u : IsFreeing(u, symbolsEnd)
  BY <1>3
<1>5. FreeUnmarkedSymbols = (CHOOSE u : IsFreeing(u, symbolsEnd))[symbolsEnd]
  BY DEF FreeUnmarkedSymbols, IsFreeing
<1> QED
  BY <1>4, <1>5

FreedBefore(n) == {id \in Freed : id < n}

\* What the vector and uniqueID are after the symbols below n have been freed.
EntriesFreed(S, n) ==
    \A id \in Ids :
      IF id \in FreedBefore(n)
      THEN S.vector[id + 1].kind = "free" /\ S.vector[id + 1].str = NoSymbol
      ELSE S.vector[id + 1] = lookupVector[id + 1]
UniqueFreed(S, n) ==
    /\ S.unique \in [Strings -> Nat \cup {NoSymbol}]
    /\ \A s \in Strings :
         S.unique[s] = IF uniqueID[s] \in FreedBefore(n) THEN NoSymbol ELSE uniqueID[s]
TableFreed(S) ==
    /\ Sound(S.table, S.vector) /\ Complete(S.table, S.vector) /\ Roomy(S.table)
    /\ Size(S.table) = Size(table) /\ Filled(S.table) = Filled(table)
    /\ ValidIn(S.table) \subseteq ValidIn(table)
FreedUpTo(S, n) ==
    /\ S.vector \in Vectors /\ Len(S.vector) = Len(lookupVector) /\ S.first \in Nat
    /\ Chained(S.vector, S.first)
    /\ TableFreed(S) /\ EntriesFreed(S, n) /\ UniqueFreed(S, n)

\* One more symbol is freed.
LEMMA FreeOne ==
    ASSUME SymbolTypes, NEW n \in Freed, NEW S, FreedUpTo(S, n)
    PROVE  FreedUpTo(FreeSymbol(S, n), n + 1)
<1>1. /\ n \in 0..symbolsEnd - 1 /\ n \in Ids /\ n \in Nat
      /\ Entry(n).kind = "prim" /\ Len(lookupVector) \in Nat
      /\ \A id \in Ids : id \in Nat
  BY DEF SymbolTypes, Freed, UnmarkedSymbols, Ids, Vectors
<1>2. PICK V, f, U, W : V = S.vector /\ f = S.first /\ U = FreeSymbol(S, n)
                        /\ W = U.vector
  OBVIOUS
<1>3. /\ Sound(U.table, W) /\ Complete(U.table, W) /\ Roomy(U.table)
      /\ Size(U.table) = Size(S.table) /\ W = Released(V, n, f)
      /\ Filled(U.table) = Filled(S.table) /\ ValidIn(U.table) \subseteq ValidIn(S.table)
  <2>1. n \in 0..Len(S.vector) - 1
    BY <1>1 DEF FreedUpTo, Ids
  <2> QED
    BY <1>2, <2>1, RemoveKeeps DEF FreedUpTo, TableFreed
<1>4. V \in Vectors /\ Len(V) = Len(lookupVector) /\ f \in Nat /\ Chained(V, f)
      /\ n \in 0..Len(V) - 1
  BY <1>1, <1>2 DEF FreedUpTo, Ids
<1>5. n \notin FreedBefore(n) /\ FreedBefore(n + 1) = FreedBefore(n) \cup {n}
  <2>1. \A id \in Freed : id \in Nat
    BY DEF Freed, UnmarkedSymbols
  <2>2. ~(n < n) /\ n < n + 1 /\ \A id \in Nat : id < n + 1 <=> id < n \/ id = n
    BY <1>1
  <2>3. \A id \in Freed : id < n + 1 <=> id < n \/ id = n
    BY <2>1, <2>2
  <2> QED
    BY <2>2, <2>3 DEF FreedBefore
<1>6. V[n + 1] = lookupVector[n + 1]
  BY <1>1, <1>2, <1>5 DEF FreedUpTo, EntriesFreed
<1>7. n \notin FreeIds(V)
  BY <1>1, <1>6 DEF FreeIds, Entry
<1>8. /\ W \in Vectors /\ Len(W) = Len(V) /\ SameBut(W, V, n)
      /\ W[n + 1] = [kind |-> "free", str |-> NoSymbol, next |-> f]
  BY <1>3, <1>4, Releases
<1>9. Chained(W, n)
  BY <1>3, <1>4, <1>7, ChainGrows
<1>10. EntriesFreed(U, n + 1)
  <2> SUFFICES ASSUME NEW id \in Ids
               PROVE  IF id \in FreedBefore(n + 1)
                      THEN W[id + 1].kind = "free" /\ W[id + 1].str = NoSymbol
                      ELSE W[id + 1] = lookupVector[id + 1]
    BY <1>2 DEF EntriesFreed
  <2>1. CASE id = n
    BY <1>5, <1>8, <2>1
  <2>2. CASE id # n
    <3>1. W[id + 1] = V[id + 1]
      BY <1>4, <1>8, <2>2 DEF SameBut, Ids
    <3>2. IF id \in FreedBefore(n)
          THEN V[id + 1].kind = "free" /\ V[id + 1].str = NoSymbol
          ELSE V[id + 1] = lookupVector[id + 1]
      BY <1>2 DEF FreedUpTo, EntriesFreed
    <3> QED
      BY <1>5, <2>2, <3>1, <3>2
  <2> QED
    BY <2>1, <2>2
<1>11. UniqueFreed(U, n + 1)
  <2>1. U.unique = [s \in Strings |-> IF S.unique[s] = n THEN NoSymbol ELSE S.unique[s]]
    BY <1>2 DEF FreeSymbol
  <2>2. UniqueFreed(S, n)
    BY DEF FreedUpTo
  <2>3. U.unique \in [Strings -> Nat \cup {NoSymbol}]
    BY <2>1, <2>2 DEF UniqueFreed
  <2>4. ASSUME NEW s \in Strings
        PROVE  U.unique[s] =
                 IF uniqueID[s] \in FreedBefore(n + 1) THEN NoSymbol ELSE uniqueID[s]
    <3>1. U.unique[s] = IF S.unique[s] = n THEN NoSymbol ELSE S.unique[s]
      BY <2>1
    <3>2. S.unique[s] = IF uniqueID[s] \in FreedBefore(n) THEN NoSymbol ELSE uniqueID[s]
      BY <2>2 DEF UniqueFreed
    <3>3. NoSymbol # n
      BY <1>1, NoSymbolAssumption
    <3> QED
      BY <1>5, <3>1, <3>2, <3>3
  <2> QED
    BY <2>3, <2>4 DEF UniqueFreed
<1>12. TableFreed(U)
  <2>1. TableFreed(S)
    BY DEF FreedUpTo
  <2> QED
    BY <1>2, <1>3, <2>1 DEF TableFreed
<1>13. U.first = n
  BY <1>2 DEF FreeSymbol
<1> QED
  BY <1>1, <1>2, <1>4, <1>8, <1>9, <1>10, <1>11, <1>12, <1>13 DEF FreedUpTo

\* freeUnmarkedSymbols() frees those symbols and no others.
LEMMA FreeingKeeps ==
    ASSUME SymbolTypes, TableKept, FreeKept
    PROVE  FreedUpTo(FreeUnmarkedSymbols, symbolsEnd)
<1>1. symbolsEnd \in Nat /\ IsTable(table) /\ Roomy(table)
  <2>1. symbolsEnd \in Nat /\ nonEmptyCount \in Nat /\ IsTable(table)
    BY DEF SymbolTypes, TableKept, Sound
  <2>2. Roomy(table)
    BY <2>1, NeverFull DEF TableKept, Capacity, Size
  <2> QED
    BY <2>1, <2>2
<1>2. PICK u : IsFreeing(u, symbolsEnd) /\ FreeUnmarkedSymbols = u[symbolsEnd]
  BY <1>1, FreeingRecursion
<1>3. \A n \in 0..symbolsEnd :
        u[n] = IF n = 0 THEN Symbols
               ELSE IF n - 1 \in Freed THEN FreeSymbol(u[n - 1], n - 1) ELSE u[n - 1]
  BY <1>2 DEF IsFreeing
<1> DEFINE Done == {n \in 0..symbolsEnd : FreedUpTo(u[n], n)}
<1>4. 0 \in Done
  <2>1. /\ Symbols.table = table /\ Symbols.vector = lookupVector
        /\ Symbols.first = firstFreeID /\ Symbols.unique = uniqueID
    BY DEF Symbols
  <2>2. FreedBefore(0) = {}
    BY DEF FreedBefore, Freed, UnmarkedSymbols
  <2>3. TableFreed(Symbols)
    BY <1>1, <2>1 DEF TableFreed, TableKept
  <2>4. EntriesFreed(Symbols, 0) /\ UniqueFreed(Symbols, 0)
    BY <2>1, <2>2 DEF EntriesFreed, UniqueFreed, SymbolTypes
  <2>5. FreedUpTo(Symbols, 0)
    BY <2>1, <2>3, <2>4 DEF FreedUpTo, SymbolTypes, FreeKept
  <2>6. u[0] = Symbols
    BY <1>1, <1>3
  <2> QED
    BY <1>1, <2>5, <2>6
<1>5. ASSUME NEW n \in 0..symbolsEnd - 1, n \in Done PROVE n + 1 \in Done
  <2>1. n + 1 \in 0..symbolsEnd /\ n + 1 # 0 /\ (n + 1) - 1 = n /\ FreedUpTo(u[n], n)
    BY <1>1, <1>5
  <2>2. u[n + 1] = IF n \in Freed THEN FreeSymbol(u[n], n) ELSE u[n]
    BY <1>3, <2>1
  <2>3. CASE n \in Freed
    <3>1. FreedUpTo(FreeSymbol(u[n], n), n + 1)
      BY <2>1, <2>3, FreeOne
    <3> QED
      BY <2>1, <2>2, <2>3, <3>1
  <2>4. CASE n \notin Freed
    <3>1. FreedBefore(n + 1) = FreedBefore(n)
      <4>1. \A id \in Freed : id \in Nat
        BY DEF Freed, UnmarkedSymbols
      <4> QED
        BY <2>4, <4>1 DEF FreedBefore
    <3>2. FreedUpTo(u[n], n + 1)
      BY <2>1, <3>1 DEF FreedUpTo, EntriesFreed, UniqueFreed
    <3> QED
      BY <2>1, <2>2, <2>4, <3>2
  <2> QED
    BY <2>3, <2>4
<1>6. symbolsEnd \in Done
  <2> HIDE DEF Done
  <2>1. \A n \in 0..symbolsEnd - 1 : n \in Done => n + 1 \in Done
    BY <1>5
  <2>2. \A n \in 0..symbolsEnd : n \in Done
    BY <1>1, <1>4, <2>1, UpTo
  <2> QED
    BY <1>1, <2>2
<1> QED
  BY <1>2, <1>6

------------------------------------------------------------------------------
(* The steps.                                                                 *)

Live(id) == id # NoSymbol => id \in Ids /\ ~IsFree(id)

HoldersLive ==
    /\ \A id \in roots : Live(id)
    /\ \A o \in Slots : Live(slot[o])
    /\ Live(weakSym)
    /\ \A s \in Strings : Live(uniqueID[s])

\* What SymbolsLive says of each kind of holder.
LEMMA LiveParts == SymbolsLive <=> HoldersLive
  BY DEF SymbolsLive, HoldersLive, Live

\* The program cannot have a symbol that is not in the vector or is free.
LEMMA FreeIsNotLive ==
    ASSUME NEW id \in Nat, Live(id) PROVE id \in Ids /\ id \notin FreeIds(lookupVector)
  BY NoSymbolAssumption DEF Live, IsFree, Entry, Ids, FreeIds

\* Steps that leave the vector and the table alone.
LEMMA VectorSame ==
    ASSUME SymbolInv, UNCHANGED <<hashVars, vectorVars>>
    PROVE  /\ TableKept' /\ FreeKept'
           /\ creating' = creating => CreatingKept'
           /\ \A id : Live(id) => Live(id)'
           /\ \A id : Entry(id)' = Entry(id)
           /\ Ids' = Ids
           /\ \A s \in Strings : Live(uniqueID[s])'
<1>1. /\ lookupVector' = lookupVector /\ firstFreeID' = firstFreeID /\ table' = table
      /\ symbolCount' = symbolCount /\ nonEmptyCount' = nonEmptyCount
      /\ uniqueID' = uniqueID
  BY DEF hashVars, vectorVars
<1>2. TableKept' /\ FreeKept'
  BY <1>1 DEF SymbolInv, TableKept, FreeKept, Capacity
<1>3. creating' = creating => CreatingKept'
  BY <1>1 DEF SymbolInv, CreatingKept
<1>4. /\ \A id : Entry(id)' = Entry(id)
      /\ Ids' = Ids
  BY <1>1 DEF Entry, Ids
<1>5. \A id : Live(id) => Live(id)'
  BY <1>1 DEF Live, Ids, IsFree, Entry
<1>6. \A s \in Strings : Live(uniqueID[s])'
  <2>1. SymbolsLive
    BY DEF SymbolInv
  <2>2. \A s \in Strings : Live(uniqueID[s])
    BY <2>1, LiveParts DEF HoldersLive
  <2> QED
    BY <1>1, <2>2 DEF Live, Ids, IsFree, Entry
<1> QED
  BY <1>2, <1>3, <1>4, <1>5, <1>6

\* What a barrier adds.
LEMMA BarrierMarks ==
    ASSUME NEW id, Barrier(id)
    PROVE  /\ writeBarrierMarkedSymbols \subseteq writeBarrierMarkedSymbols'
           /\ marking => \/ id = NoSymbol \/ ~(id < symbolsEnd)
                         \/ id \in writeBarrierMarkedSymbols'
  BY DEF Barrier

\* A lookup that finds a symbol finds one that is live.
LEMMA KnownLive ==
    ASSUME SymbolInv, NEW s \in Strings, IsKnown(s)
    PROVE  IdOf(s) \in Nat /\ Live(IdOf(s))
<1>1. PICK at : at = LookupString(table, lookupVector, s)
  OBVIOUS
<1>2. /\ Sound(table, lookupVector) /\ IsTable(table) /\ nonEmptyCount \in Nat
      /\ lookupVector \in Vectors
  BY DEF SymbolInv, TableKept, Sound, SymbolTypes
<1>3. Roomy(table)
  BY <1>2, NeverFull DEF SymbolInv, TableKept, Capacity, Size
<1>4. at \in DOMAIN table /\ Valid(table, at) /\ IdOf(s) = table[at]
  BY <1>1, <1>2, <1>3, LookupFinds DEF IsKnown, IdOf
<1>5. table[at] \in Named(lookupVector) /\ table[at] \in Nat
  BY <1>2, <1>4 DEF Sound, IsTable
<1>6. table[at] \in Ids /\ table[at] \notin FreeIds(lookupVector)
  BY <1>5, NoSymbolAssumption DEF Named, Ids, SymbolInv, SymbolTypes
<1> QED
  BY <1>4, <1>5, <1>6 DEF Live, FreeIds, IsFree, Entry, Ids

\* A string that is not found has no symbol, and the place is one to insert it at.
LEMMA UnknownPlace ==
    ASSUME SymbolInv, NEW s \in Strings, ~IsKnown(s),
           NEW at, at = LookupString(table, lookupVector, s)
    PROVE  /\ at \in DOMAIN table /\ ~Valid(table, at) /\ Reached(table, s, at)
           /\ ~Has(table, lookupVector, s)
<1>1. Sound(table, lookupVector) /\ IsTable(table) /\ nonEmptyCount \in Nat
  BY DEF SymbolInv, TableKept, Sound, SymbolTypes
<1>2. Roomy(table)
  BY <1>1, NeverFull DEF SymbolInv, TableKept, Capacity, Size
<1>3. ~Valid(table, at)
  BY DEF IsKnown
<1> QED
  BY <1>1, <1>2, <1>3, LookupFinds

\* What is kept stays so while no slot changes.
LEMMA KeptStays ==
    ASSUME UNCHANGED <<lookupVector, slot, markVars>>,
           writeBarrierMarkedSymbols \subseteq writeBarrierMarkedSymbols'
    PROVE  \A id : Kept(id) => Kept(id)'
<1>1. /\ lookupVector' = lookupVector /\ slot' = slot /\ marking' = marking
      /\ markedSymbols' = markedSymbols /\ symbolsEnd' = symbolsEnd /\ scanned' = scanned
  BY DEF markVars
<1> SUFFICES ASSUME NEW id, Kept(id) PROVE Kept(id)'
  OBVIOUS
<1> QED
  BY <1>1 DEF Kept, Entry

\* A symbol that comes to the roots and is kept.
LEMMA GainRoot ==
    ASSUME SymbolInv, UNCHANGED <<hashVars, vectorVars, creating, slot, weakSym, markVars>>,
           NEW id \in Nat, Live(id), roots' = roots \cup {id}, marking => Kept(id)',
           writeBarrierMarkedSymbols \subseteq writeBarrierMarkedSymbols'
    PROVE  SymbolInv'
<1>1. /\ lookupVector' = lookupVector /\ firstFreeID' = firstFreeID /\ slot' = slot
      /\ symbolCount' = symbolCount /\ nonEmptyCount' = nonEmptyCount
      /\ uniqueID' = uniqueID /\ weakSym' = weakSym
      /\ marking' = marking /\ symbolsEnd' = symbolsEnd
  BY DEF hashVars, vectorVars, markVars
<1>2. SymbolTypes'
  BY <1>1 DEF SymbolInv, SymbolTypes
<1>3. /\ TableKept' /\ FreeKept' /\ CreatingKept'
      /\ \A i : Live(i) => Live(i)'
      /\ \A s \in Strings : Live(uniqueID[s])'
  BY VectorSame
<1>4. MarkKept'
  <2> SUFFICES ASSUME marking, NEW i \in Held' PROVE Kept(i)'
    BY <1>1 DEF MarkKept
  <2>1. i \in Held \/ i = id
    BY <1>1 DEF Held
  <2>2. i \in Held => Kept(i)
    BY DEF SymbolInv, MarkKept
  <2>3. \A j : Kept(j) => Kept(j)'
    BY <1>1, KeptStays
  <2> QED
    BY <2>1, <2>2, <2>3
<1>5. SymbolsLive'
  <2>1. /\ \A i \in roots : Live(i)
        /\ \A o \in Slots : Live(slot[o])
        /\ Live(weakSym)
    BY LiveParts DEF HoldersLive, SymbolInv
  <2>2. \A i \in roots' : Live(i)'
    BY <1>3, <2>1
  <2>3. (\A o \in Slots : Live(slot[o])')
    BY <1>1, <1>3, <2>1 DEF Live, Ids, IsFree, Entry
  <2>4. Live(weakSym)'
    BY <1>1, <1>3, <2>1 DEF Live, Ids, IsFree, Entry
  <2>5. HoldersLive'
    BY <1>3, <2>2, <2>3, <2>4 DEF HoldersLive
  <2> QED
    BY <2>5, LiveParts, PTL
<1> QED
  BY <1>2, <1>3, <1>4, <1>5 DEF SymbolInv

\* GetSymbol.
LEMMA GetSymbolStep ==
    ASSUME SymbolInv, NEW s \in Strings, GetSymbol(s)
    PROVE  SymbolInv'
<1>1. PICK id \in (IF IsKnown(s) THEN {IdOf(s)} ELSE {}) \cup ({uniqueID[s]} \ {NoSymbol}) :
        roots' = roots \cup {id} /\ Barrier(id)
  BY DEF GetSymbol
<1>2. UNCHANGED <<hashVars, vectorVars, creating, slot, weakSym, markVars>>
  BY DEF GetSymbol
<1>3. id \in Nat /\ Live(id)
  <2>1. CASE IsKnown(s) /\ id = IdOf(s)
    BY <2>1, KnownLive
  <2>2. CASE id = uniqueID[s] /\ id # NoSymbol
    <3>1. Live(uniqueID[s])
      BY LiveParts DEF HoldersLive, SymbolInv
    <3>2. uniqueID[s] \in Nat \cup {NoSymbol}
      BY DEF SymbolInv, SymbolTypes
    <3> QED
      BY <2>2, <3>1, <3>2
  <2> QED
    BY <1>1, <2>1, <2>2
<1>4. /\ writeBarrierMarkedSymbols \subseteq writeBarrierMarkedSymbols'
      /\ marking => \/ id = NoSymbol \/ ~(id < symbolsEnd)
                    \/ id \in writeBarrierMarkedSymbols'
  BY <1>1, BarrierMarks
<1>5. marking => Kept(id)'
  <2>1. symbolsEnd' = symbolsEnd /\ symbolsEnd \in Nat
    BY <1>2 DEF markVars, SymbolInv, SymbolTypes
  <2> QED
    BY <1>3, <1>4, <2>1 DEF Kept
<1> QED
  BY <1>1, <1>2, <1>3, <1>4, <1>5, GainRoot

\* LoadWeak.
LEMMA LoadWeakStep ==
    ASSUME SymbolInv, LoadWeak
    PROVE  SymbolInv'
<1>1. UNCHANGED <<hashVars, vectorVars, creating, slot, weakSym, markVars>>
  BY DEF LoadWeak
<1>2. roots' = roots \cup {weakSym} /\ Barrier(weakSym) /\ weakSym # NoSymbol
  BY DEF LoadWeak, ReadBarrier
<1>3. weakSym \in Nat /\ Live(weakSym)
  BY <1>2, LiveParts DEF HoldersLive, SymbolInv, SymbolTypes
<1>4. PICK id \in Nat : id = weakSym
  BY <1>3
<1>5. /\ writeBarrierMarkedSymbols \subseteq writeBarrierMarkedSymbols'
      /\ marking => \/ id = NoSymbol \/ ~(id < symbolsEnd)
                    \/ id \in writeBarrierMarkedSymbols'
  BY <1>2, <1>4, BarrierMarks
<1>6. marking => Kept(id)'
  <2>1. symbolsEnd' = symbolsEnd /\ symbolsEnd \in Nat
    BY <1>1 DEF markVars, SymbolInv, SymbolTypes
  <2> QED
    BY <1>5, <2>1 DEF Kept
<1>7. Live(id) /\ roots' = roots \cup {id}
  BY <1>2, <1>3, <1>4
<1> QED
  BY <1>1, <1>5, <1>6, <1>7, GainRoot

\* LoadSlot.
LEMMA LoadSlotStep ==
    ASSUME SymbolInv, NEW o \in Slots, LoadSlot(o)
    PROVE  SymbolInv'
<1>1. UNCHANGED <<hashVars, vectorVars, creating, slot, weakSym, markVars,
                  writeBarrierMarkedSymbols>>
  BY DEF LoadSlot
<1>2. slot[o] # NoSymbol /\ roots' = roots \cup {slot[o]}
  BY DEF LoadSlot
<1>3. slot[o] \in Nat /\ Live(slot[o])
  <2>1. slot[o] \in Nat \cup {NoSymbol}
    BY DEF SymbolInv, SymbolTypes
  <2> QED
    BY <1>2, <2>1, LiveParts DEF HoldersLive, SymbolInv
<1>4. PICK id \in Nat : id = slot[o]
  BY <1>3
<1>5. marking => Kept(id)'
  <2>1. marking => Kept(id)
    BY <1>4 DEF SymbolInv, MarkKept, Held
  <2>2. \A j : Kept(j) => Kept(j)'
    <3>1. UNCHANGED <<lookupVector, slot, markVars>>
      BY <1>1 DEF vectorVars
    <3> QED
      BY <1>1, <3>1, KeptStays
  <2> QED
    BY <2>1, <2>2
<1>6. Live(id) /\ roots' = roots \cup {id}
  BY <1>2, <1>3, <1>4
<1> QED
  BY <1>1, <1>5, <1>6, GainRoot

\* LookupMisses.
LEMMA LookupMissesStep ==
    ASSUME SymbolInv, NEW s \in Strings, LookupMisses(s)
    PROVE  SymbolInv'
<1>1. /\ UNCHANGED <<hashVars, vectorVars, roots, slot, weakSym, markVars,
                     writeBarrierMarkedSymbols>>
      /\ creating' = [str |-> s, at |-> LookupString(table, lookupVector, s)]
      /\ ~IsKnown(s)
  BY DEF LookupMisses
<1>2. /\ TableKept' /\ FreeKept'
      /\ \A i : Live(i) => Live(i)'
      /\ \A t \in Strings : Live(uniqueID[t])'
  BY <1>1, VectorSame
<1>3. /\ lookupVector' = lookupVector /\ firstFreeID' = firstFreeID /\ slot' = slot
      /\ symbolCount' = symbolCount /\ nonEmptyCount' = nonEmptyCount
      /\ uniqueID' = uniqueID /\ weakSym' = weakSym /\ roots' = roots /\ table' = table
      /\ marking' = marking /\ symbolsEnd' = symbolsEnd
  BY <1>1 DEF hashVars, vectorVars, markVars
<1>4. SymbolTypes'
  BY <1>3 DEF SymbolInv, SymbolTypes
<1>5. CreatingKept'
  <2>1. PICK at : at = LookupString(table, lookupVector, s)
    OBVIOUS
  <2>2. /\ at \in DOMAIN table /\ ~Valid(table, at) /\ Reached(table, s, at)
        /\ ~Has(table, lookupVector, s)
    BY <1>1, <2>1, UnknownPlace
  <2>3. creating'.str = s /\ creating'.at = at
    BY <1>1, <2>1
  <2> QED
    BY <1>3, <2>2, <2>3 DEF CreatingKept
<1>6. MarkKept'
  <2>1. \A j : Kept(j) => Kept(j)'
    <3>1. UNCHANGED <<lookupVector, slot, markVars>>
      BY <1>1 DEF vectorVars
    <3> QED
      BY <1>1, <3>1, KeptStays
  <2> QED
    BY <1>3, <2>1 DEF SymbolInv, MarkKept, Held
<1>7. SymbolsLive'
  <2>1. HoldersLive
    BY LiveParts DEF SymbolInv
  <2>2. HoldersLive'
    BY <1>3, <2>1 DEF HoldersLive, Live, Ids, IsFree, Entry
  <2> QED
    BY <2>2, LiveParts, PTL
<1> QED
  BY <1>2, <1>4, <1>5, <1>6, <1>7 DEF SymbolInv

\* StoreWeak.
LEMMA StoreWeakStep ==
    ASSUME SymbolInv, NEW id \in roots, StoreWeak(id)
    PROVE  SymbolInv'
<1>1. /\ UNCHANGED <<hashVars, vectorVars, creating, roots, slot, markVars,
                     writeBarrierMarkedSymbols>>
      /\ weakSym' = id
  BY DEF StoreWeak
<1>2. TableKept' /\ FreeKept' /\ CreatingKept'
  BY <1>1, VectorSame
<1>3. /\ lookupVector' = lookupVector /\ firstFreeID' = firstFreeID /\ slot' = slot
      /\ symbolCount' = symbolCount /\ nonEmptyCount' = nonEmptyCount
      /\ uniqueID' = uniqueID /\ roots' = roots
      /\ marking' = marking /\ symbolsEnd' = symbolsEnd
  BY <1>1 DEF hashVars, vectorVars, markVars
<1>4. SymbolTypes'
  BY <1>1, <1>3 DEF SymbolInv, SymbolTypes
<1>5. MarkKept'
  <2>1. \A j : Kept(j) => Kept(j)'
    <3>1. UNCHANGED <<lookupVector, slot, markVars>>
      BY <1>1 DEF vectorVars
    <3> QED
      BY <1>1, <3>1, KeptStays
  <2> QED
    BY <1>3, <2>1 DEF SymbolInv, MarkKept, Held
<1>6. SymbolsLive'
  <2>1. HoldersLive
    BY LiveParts DEF SymbolInv
  <2>2. HoldersLive'
    BY <1>1, <1>3, <2>1 DEF HoldersLive, Live, Ids, IsFree, Entry
  <2> QED
    BY <2>2, LiveParts, PTL
<1> QED
  BY <1>2, <1>4, <1>5, <1>6 DEF SymbolInv

\* DropRoots.
LEMMA DropRootsStep ==
    ASSUME SymbolInv, DropRoots
    PROVE  SymbolInv'
<1>1. /\ UNCHANGED <<hashVars, vectorVars, creating, slot, weakSym, markVars,
                     writeBarrierMarkedSymbols>>
      /\ roots' = {}
  BY DEF DropRoots
<1>2. TableKept' /\ FreeKept' /\ CreatingKept'
  BY <1>1, VectorSame
<1>3. /\ lookupVector' = lookupVector /\ firstFreeID' = firstFreeID /\ slot' = slot
      /\ symbolCount' = symbolCount /\ nonEmptyCount' = nonEmptyCount
      /\ uniqueID' = uniqueID /\ weakSym' = weakSym
      /\ marking' = marking /\ symbolsEnd' = symbolsEnd
  BY <1>1 DEF hashVars, vectorVars, markVars
<1>4. SymbolTypes'
  BY <1>1, <1>3 DEF SymbolInv, SymbolTypes
<1>5. MarkKept'
  <2>1. \A j : Kept(j) => Kept(j)'
    <3>1. UNCHANGED <<lookupVector, slot, markVars>>
      BY <1>1 DEF vectorVars
    <3> QED
      BY <1>1, <3>1, KeptStays
  <2> QED
    BY <1>1, <1>3, <2>1 DEF SymbolInv, MarkKept, Held
<1>6. SymbolsLive'
  <2>1. HoldersLive
    BY LiveParts DEF SymbolInv
  <2>2. HoldersLive'
    BY <1>1, <1>3, <2>1 DEF HoldersLive, Live, Ids, IsFree, Entry
  <2> QED
    BY <2>2, LiveParts, PTL
<1> QED
  BY <1>2, <1>4, <1>5, <1>6 DEF SymbolInv

\* StoreSlot: the old symbol is marked, and the new one is kept already.
LEMMA StoreSlotStep ==
    ASSUME SymbolInv, NEW o \in Slots, NEW id \in roots \cup {NoSymbol}, StoreSlot(o, id)
    PROVE  SymbolInv'
<1>1. /\ UNCHANGED <<hashVars, vectorVars, creating, roots, weakSym, markVars>>
      /\ slot' = [slot EXCEPT ![o] = id] /\ Barrier(slot[o])
  BY DEF StoreSlot
<1>2. TableKept' /\ FreeKept' /\ CreatingKept'
  BY <1>1, VectorSame
<1>3. /\ lookupVector' = lookupVector /\ firstFreeID' = firstFreeID
      /\ symbolCount' = symbolCount /\ nonEmptyCount' = nonEmptyCount
      /\ uniqueID' = uniqueID /\ roots' = roots /\ weakSym' = weakSym
      /\ marking' = marking /\ symbolsEnd' = symbolsEnd
      /\ markedSymbols' = markedSymbols /\ scanned' = scanned
  BY <1>1 DEF hashVars, vectorVars, markVars
<1>4. slot \in [Slots -> Nat \cup {NoSymbol}] /\ id \in Nat \cup {NoSymbol}
      /\ symbolsEnd \in Nat
  BY DEF SymbolInv, SymbolTypes
<1>5. slot'[o] = id /\ \A p \in Slots : p # o => slot'[p] = slot[p]
  BY <1>1, <1>4
<1>6. SymbolTypes'
  <2>1. slot' \in [Slots -> Nat \cup {NoSymbol}]
    BY <1>1, <1>4
  <2> QED
    BY <1>3, <2>1 DEF SymbolInv, SymbolTypes
<1>7. MarkKept'
  <2> SUFFICES ASSUME marking, NEW i \in Held' PROVE Kept(i)'
    BY <1>3 DEF MarkKept
  <2>1. PICK old : old = slot[o]
    OBVIOUS
  <2>2. /\ writeBarrierMarkedSymbols \subseteq writeBarrierMarkedSymbols'
        /\ marking => \/ old = NoSymbol \/ ~(old < symbolsEnd)
                      \/ old \in writeBarrierMarkedSymbols'
    BY <1>1, <2>1, BarrierMarks
  <2>3. Kept(old)'
    <3>1. old \in Nat \cup {NoSymbol}
      BY <1>4, <2>1
    <3> QED
      BY <1>3, <1>4, <2>2, <3>1 DEF Kept
  <2>4. i \in Held \/ i = NoSymbol
    <3>1. i \in roots \/ \E p \in Slots : i = slot'[p]
      BY <1>3 DEF Held
    <3> QED
      BY <1>5, <3>1 DEF Held
  <2>5. i = NoSymbol \/ Kept(i)
    BY <2>4 DEF SymbolInv, MarkKept
  <2>6. ASSUME Kept(i), i # old PROVE Kept(i)'
    <3>1. ASSUME NEW p \in Slots \ scanned, slot[p] = i
          PROVE  \E q \in Slots \ scanned : slot'[q] = i
      <4>1. p # o
        BY <2>1, <2>6, <3>1
      <4> QED
        BY <1>5, <3>1, <4>1
    <3> QED
      BY <1>3, <2>2, <2>6, <3>1 DEF Kept, Entry
  <2>7. i = NoSymbol => Kept(i)'
    BY DEF Kept
  <2> QED
    BY <2>3, <2>5, <2>6, <2>7
<1>8. SymbolsLive'
  <2>1. HoldersLive
    BY LiveParts DEF SymbolInv
  <2>2. Live(id)
    BY <2>1 DEF HoldersLive, Live
  <2>3. \A p \in Slots : Live(slot'[p])
    BY <1>5, <2>1, <2>2 DEF HoldersLive
  <2>4. HoldersLive'
    BY <1>3, <2>1, <2>3 DEF HoldersLive, Live, Ids, IsFree, Entry
  <2> QED
    BY <2>4, LiveParts, PTL
<1> QED
  BY <1>2, <1>6, <1>7, <1>8 DEF SymbolInv

\* StartMarking: the roots are marked, and no slot is scanned yet.
LEMMA StartMarkingStep ==
    ASSUME SymbolInv, StartMarking
    PROVE  SymbolInv'
<1>1. /\ UNCHANGED <<hashVars, vectorVars, programVars>> /\ marking' = TRUE
      /\ symbolsEnd' = Len(lookupVector) /\ markedSymbols' = roots /\ scanned' = {}
  BY DEF StartMarking
<1>2. /\ lookupVector' = lookupVector /\ firstFreeID' = firstFreeID /\ slot' = slot
      /\ symbolCount' = symbolCount /\ nonEmptyCount' = nonEmptyCount
      /\ uniqueID' = uniqueID /\ weakSym' = weakSym /\ roots' = roots
      /\ creating' = creating
  BY <1>1 DEF hashVars, vectorVars, programVars
<1>3. TableKept' /\ FreeKept' /\ CreatingKept'
  BY <1>1, <1>2, VectorSame
<1>4. SymbolTypes'
  <2>1. Len(lookupVector) \in Nat
    BY DEF SymbolInv, SymbolTypes, Vectors
  <2> QED
    BY <1>1, <1>2, <2>1 DEF SymbolInv, SymbolTypes
<1>5. MarkKept'
  <2> SUFFICES ASSUME NEW i \in Held PROVE Kept(i)'
    BY <1>2 DEF MarkKept, Held
  <2>1. i \in roots \/ \E o \in Slots : slot[o] = i
    BY DEF Held
  <2> QED
    BY <1>1, <1>2, <2>1 DEF Kept
<1>6. SymbolsLive'
  <2>1. HoldersLive
    BY LiveParts DEF SymbolInv
  <2>2. HoldersLive'
    BY <1>2, <2>1 DEF HoldersLive, Live, Ids, IsFree, Entry
  <2> QED
    BY <2>2, LiveParts, PTL
<1> QED
  BY <1>3, <1>4, <1>5, <1>6 DEF SymbolInv

\* ScanSlot: the symbol of the slot is marked instead.
LEMMA ScanSlotStep ==
    ASSUME SymbolInv, NEW o \in Slots, ScanSlot(o)
    PROVE  SymbolInv'
<1>1. /\ UNCHANGED <<hashVars, vectorVars, programVars, marking, symbolsEnd,
                     writeBarrierMarkedSymbols>>
      /\ scanned' = scanned \cup {o}
      /\ markedSymbols' = IF slot[o] # NoSymbol /\ slot[o] < symbolsEnd
                          THEN markedSymbols \cup {slot[o]} ELSE markedSymbols
  BY DEF ScanSlot
<1>2. /\ lookupVector' = lookupVector /\ firstFreeID' = firstFreeID /\ slot' = slot
      /\ symbolCount' = symbolCount /\ nonEmptyCount' = nonEmptyCount
      /\ uniqueID' = uniqueID /\ weakSym' = weakSym /\ roots' = roots
      /\ creating' = creating /\ marking' = marking /\ symbolsEnd' = symbolsEnd
      /\ writeBarrierMarkedSymbols' = writeBarrierMarkedSymbols
  BY <1>1 DEF hashVars, vectorVars, programVars
<1>3. TableKept' /\ FreeKept' /\ CreatingKept'
  BY <1>1, <1>2, VectorSame
<1>4. SymbolTypes'
  BY <1>2 DEF SymbolInv, SymbolTypes
<1>5. MarkKept'
  <2> SUFFICES ASSUME marking, NEW i \in Held PROVE Kept(i)'
    BY <1>2 DEF MarkKept, Held
  <2>1. Kept(i)
    BY DEF SymbolInv, MarkKept
  <2>2. CASE \E p \in Slots \ scanned : slot[p] = i
    <3>1. PICK p \in Slots \ scanned : slot[p] = i
      BY <2>2
    <3>2. CASE p = o
      <4>1. i \in Nat \cup {NoSymbol} /\ symbolsEnd \in Nat
        BY <3>1 DEF SymbolInv, SymbolTypes
      <4>2. i = NoSymbol \/ i >= symbolsEnd \/ i \in markedSymbols'
        BY <1>1, <3>1, <3>2, <4>1
      <4> QED
        BY <1>2, <4>2 DEF Kept
    <3>3. CASE p # o
      <4>1. p \in Slots \ scanned' /\ slot'[p] = i
        BY <1>1, <1>2, <3>1, <3>3
      <4> QED
        BY <4>1 DEF Kept
    <3> QED
      BY <3>2, <3>3
  <2>3. CASE ~\E p \in Slots \ scanned : slot[p] = i
    <3>1. markedSymbols \subseteq markedSymbols'
      BY <1>1
    <3> QED
      BY <1>2, <2>1, <2>3, <3>1 DEF Kept, Entry
  <2> QED
    BY <2>2, <2>3
<1>6. SymbolsLive'
  <2>1. HoldersLive
    BY LiveParts DEF SymbolInv
  <2>2. HoldersLive'
    BY <1>2, <2>1 DEF HoldersLive, Live, Ids, IsFree, Entry
  <2> QED
    BY <2>2, LiveParts, PTL
<1> QED
  BY <1>3, <1>4, <1>5, <1>6 DEF SymbolInv

\* Vector W is the one that V becomes when e is put at index id.
Allocated(W, V, id, e) ==
    /\ W \in Vectors /\ id \in 0..Len(W) - 1 /\ W[id + 1] = e
    /\ Len(V) <= Len(W) /\ \A i \in 0..Len(W) - 1 : i \in 0..Len(V) - 1 \/ i = id
    /\ SameBut(W, V, id)
    /\ id \in 0..Len(V) - 1 => id \in FreeIds(V)

\* allocNextID() takes an index from the list or a new one at the end.
LEMMA Allocates ==
    ASSUME SymbolInv, NEW e \in Entries, e.kind # "free", AllocNextID(e)
    PROVE  /\ Allocated(lookupVector', lookupVector, NextID, e)
           /\ lookupVector' = With(e) /\ roots' = roots \cup {NextID}
           /\ NextID \in Nat /\ NextID < MaxSymbols
           /\ NextID >= Len(lookupVector) \/ NextID \in FreeIds(lookupVector)
           /\ FreeKept' /\ firstFreeID' \in Nat
<1>1. /\ lookupVector' = With(e) /\ NextID < MaxSymbols /\ roots' = roots \cup {NextID}
      /\ firstFreeID' = IF firstFreeID = End THEN End ELSE Entry(firstFreeID).next
  BY DEF AllocNextID
<1>2. PICK V, W, f : V = lookupVector /\ W = lookupVector' /\ f = firstFreeID
  OBVIOUS
<1>3. /\ V \in Vectors /\ V \in Seq(Entries) /\ Len(V) \in Nat /\ f \in Nat
      /\ Chained(V, f) /\ MaxSymbols \in Nat
  BY <1>2, SymbolBoundsAssumption DEF SymbolInv, SymbolTypes, FreeKept, Vectors
<1>4. CASE f = End
  <2>1. W = Append(V, e) /\ NextID = Len(V) /\ firstFreeID' = f
    BY <1>1, <1>2, <1>4 DEF With, NextID
  <2>2. W \in Seq(Entries) /\ Len(W) = Len(V) + 1
    BY <1>3, <2>1
  <2>3. W[Len(V) + 1] = e /\ \A i \in 1..Len(V) : W[i] = V[i]
    BY <1>3, <2>1
  <2>4. W \in Vectors
    BY <1>1, <1>3, <2>1, <2>2 DEF Vectors
  <2>5. SameBut(W, V, Len(V))
    <3>1. \A i \in 0..Len(V) - 1 : i + 1 \in 1..Len(V)
      BY <1>3
    <3> QED
      BY <2>3, <3>1 DEF SameBut
  <2>6. Allocated(W, V, NextID, e)
    <3>1. Len(V) \in 0..Len(W) - 1 /\ Len(V) <= Len(W)
          /\ \A i \in 0..Len(W) - 1 : i \in 0..Len(V) - 1 \/ i = Len(V)
      BY <1>3, <2>2
    <3>2. ~(Len(V) \in 0..Len(V) - 1)
      BY <1>3
    <3> QED
      BY <2>1, <2>3, <2>4, <2>5, <3>1, <3>2 DEF Allocated
  <2>7. Chained(W, f)
    <3>1. \A i \in 0..Len(V) - 1 : i # Len(V)
      BY <1>3
    <3>2. \A i \in 0..Len(V) - 1 : W[i + 1] = V[i + 1]
      BY <2>5, <3>1 DEF SameBut
    <3>3. FreeIds(W) = FreeIds(V)
      <4>1. 0..Len(W) - 1 = 0..Len(V) - 1 \cup {Len(V)}
        BY <1>3, <2>2
      <4> QED
        BY <2>3, <3>2, <4>1 DEF FreeIds
    <3>4. \A i \in FreeIds(V) : W[i + 1].next = V[i + 1].next
      BY <3>2 DEF FreeIds
    <3> QED
      BY <1>3, <3>3, <3>4, ChainStays
  <2> QED
    BY <1>1, <1>2, <1>3, <2>1, <2>6, <2>7 DEF FreeKept
<1>5. CASE f # End
  <2>1. /\ W = [V EXCEPT ![f + 1] = e] /\ NextID = f
        /\ firstFreeID' = V[f + 1].next
    BY <1>1, <1>2, <1>5 DEF With, NextID, Entry
  <2>2. f \in FreeIds(V)
    <3>1. PICK G, k : Chain(G, k, V, f)
      BY <1>3 DEF Chained
    <3>2. k \in 1..k
      BY <1>5, <3>1 DEF Chain
    <3> QED
      BY <3>1, <3>2 DEF Chain
  <2>3. f \in 0..Len(V) - 1 /\ f + 1 \in 1..Len(V)
    BY <1>3, <2>2 DEF FreeIds
  <2>4. W \in Seq(Entries) /\ Len(W) = Len(V) /\ W[f + 1] = e
    BY <1>3, <2>1, <2>3
  <2>5. SameBut(W, V, f)
    <3>1. \A i \in 0..Len(V) - 1 : i # f => i + 1 \in 1..Len(V) /\ i + 1 # f + 1
      BY <1>3
    <3> QED
      BY <1>3, <2>1, <3>1 DEF SameBut
  <2>6. Allocated(W, V, NextID, e)
    <3>1. W \in Vectors
      BY <1>3, <2>4 DEF Vectors
    <3> QED
      BY <1>3, <2>1, <2>2, <2>3, <2>4, <2>5, <3>1 DEF Allocated
  <2>7. Chained(W, V[f + 1].next) /\ V[f + 1].next \in Nat
    BY <1>3, <1>5, <2>4, <2>5, ChainShrinks
  <2> QED
    BY <1>1, <1>2, <1>3, <2>1, <2>2, <2>6, <2>7 DEF FreeKept
<1> QED
  BY <1>4, <1>5

\* What this does to the unique strings.
LEMMA AllocatedNames ==
    ASSUME NEW V \in Vectors, NEW W, NEW id, NEW e \in Entries, Allocated(W, V, id, e),
           \A i \in FreeIds(V) : V[i + 1].str = NoSymbol
    PROVE  /\ id \notin Named(V) /\ Extends(W, V)
           /\ e.str \in Strings => Named(W) = Named(V) \cup {id}
           /\ e.str = NoSymbol => Named(W) = Named(V)
<1>1. id \notin Named(V)
  BY NoSymbolAssumption DEF Allocated, Named
<1>2. Len(V) \in Nat /\ Len(W) \in Nat /\ Len(V) <= Len(W) /\ W[id + 1] = e
      /\ id \in 0..Len(W) - 1
  BY DEF Allocated, Vectors
<1>3. \A i \in 0..Len(V) - 1 : i \in 0..Len(W) - 1 /\ (i # id => W[i + 1] = V[i + 1])
  <2>1. \A i \in 0..Len(V) - 1 : i \in 0..Len(W) - 1
    BY <1>2
  <2> QED
    BY <2>1 DEF Allocated, SameBut
<1>4. \A i \in Named(V) : i \in Named(W) /\ W[i + 1].str = V[i + 1].str
  BY <1>1, <1>3 DEF Named
<1>5. \A i \in Named(W) : i # id => i \in Named(V)
  BY <1>3 DEF Named, Allocated
<1>6. id \in Named(W) <=> e.str \in Strings
  BY <1>2 DEF Named
<1> QED
  BY <1>1, <1>4, <1>5, <1>6, NoSymbolAssumption DEF Extends

\* What insert() leaves behind.
TableFits(T, V, n) ==
    /\ Sound(T, V) /\ Complete(T, V) /\ Size(T) >= 4
    /\ n \in Nat /\ Cardinality(Filled(T)) <= n /\ n <= Size(T) - Size(T) \div 4

\* insert() of a new symbol in a place where its string is looked up.
LEMMA Inserts ==
    ASSUME SymbolInv, NEW W, NEW id, NEW e \in Entries, e.str \in Strings,
           Allocated(W, lookupVector, id, e), id < MaxSymbols,
           NEW at \in DOMAIN table, ~Valid(table, at), Reached(table, e.str, at),
           ~Has(table, lookupVector, e.str), Insert(at, id, W)
    PROVE  /\ TableFits(table', W, nonEmptyCount')
           /\ symbolCount' = Cardinality(Named(W)) /\ symbolCount' \in Nat
<1>1. PICK T, V, n, c, s : T = table /\ V = lookupVector /\ n = nonEmptyCount
                           /\ c = Size(T) /\ s = e.str
  OBVIOUS
<1>2. PICK U, m : U = Put(T, at, id) /\ m = symbolCount
  OBVIOUS
<1>3. /\ Sound(T, V) /\ Complete(T, V) /\ V \in Vectors /\ n \in Nat /\ m \in Nat
      /\ c >= 4 /\ Cardinality(Filled(T)) <= n /\ n <= c - c \div 4
      /\ m = Cardinality(Named(V)) /\ IsTable(T) /\ Capacity = c
  BY <1>1, <1>2 DEF SymbolInv, SymbolTypes, TableKept, Sound, Capacity, Size
<1>4. c \in Nat /\ c \in PowersOf2 /\ c * 2 \in PowersOf2 /\ c > 0
  BY <1>1, <1>3, ProbePlaces, Doubles DEF IsTable
<1>5. /\ symbolCount' = m + 1
      /\ IF c - c \div 4 < n + 1
         THEN table' = Rehash(U, W, c * 2) /\ nonEmptyCount' = m + 1
         ELSE table' = U /\ nonEmptyCount' = n + 1
  BY <1>1, <1>2, <1>3 DEF Insert, ShouldGrow, Put
<1>6. id \notin Named(V) /\ Extends(W, V) /\ Named(W) = Named(V) \cup {id}
  <2>1. \A i \in FreeIds(V) : V[i + 1].str = NoSymbol
    BY <1>1 DEF SymbolInv, SymbolTypes
  <2>2. Allocated(W, V, id, e)
    BY <1>1
  <2> QED
    BY <1>3, <2>1, <2>2, AllocatedNames
<1>7. W \in Vectors /\ id \in Named(W) /\ W[id + 1].str = s
  BY <1>1, <1>6 DEF Allocated
<1>8. /\ Sound(U, W) /\ Size(U) = c /\ DOMAIN U = DOMAIN T
      /\ U[at] = id /\ \A b \in DOMAIN T : b # at => U[b] = T[b]
      /\ ValidIn(U) = ValidIn(T) \cup {at} /\ Filled(U) = Filled(T) \cup {at}
  <2>1. /\ at \in DOMAIN T /\ ~Valid(T, at) /\ Reached(T, s, at) /\ ~Has(T, V, s)
        /\ s \in Strings
    BY <1>1
  <2> QED
    BY <1>1, <1>2, <1>3, <1>6, <1>7, <2>1, InsertKeeps
<1>9. Complete(U, W)
  <2> SUFFICES ASSUME NEW i \in Named(W) PROVE \E b \in DOMAIN U : U[b] = i
    BY DEF Complete
  <2>1. CASE i = id
    BY <1>1, <1>8, <2>1
  <2>2. CASE i # id
    <3>0. i \in Named(V)
      BY <1>6, <2>2
    <3>1. i < MaxSymbols /\ i \in Nat
      BY <1>3, <3>0, SymbolBoundsAssumption DEF Named, Vectors
    <3>2. PICK b \in DOMAIN T : T[b] = i
      BY <1>3, <3>0 DEF Complete
    <3>3. Valid(T, b)
      BY <3>1, <3>2, SymbolBoundsAssumption DEF Valid, Empty, Deleted
    <3>4. b # at
      BY <1>1, <3>3
    <3> QED
      BY <1>8, <3>2, <3>4
  <2> QED
    BY <2>1, <2>2
<1>10. /\ Cardinality(Named(W)) = m + 1
       /\ Cardinality(ValidIn(U)) = m + 1 /\ m + 1 <= c
       /\ Cardinality(Filled(U)) <= n + 1
  <2>1. IsFiniteSet(Named(V)) /\ IsFiniteSet(Filled(T))
    BY <1>3, CountSymbols
  <2>2. Cardinality(Named(W)) = m + 1
    BY <1>3, <1>6, <2>1, FS_AddElement
  <2>3. Cardinality(ValidIn(U)) = Cardinality(Named(W))
        /\ Cardinality(ValidIn(U)) <= c
    BY <1>7, <1>8, <1>9, CountSymbols
  <2>4. Cardinality(Filled(U)) <= n + 1
    <3>1. Cardinality(Filled(U)) = IF at \in Filled(T) THEN Cardinality(Filled(T))
                                   ELSE Cardinality(Filled(T)) + 1
      BY <1>8, <2>1, FS_AddElement
    <3>2. Cardinality(Filled(T)) \in Nat
      BY <2>1, FS_CardinalityType
    <3> QED
      BY <1>3, <3>1, <3>2
  <2> QED
    BY <2>2, <2>3, <2>4
<1>11. CASE ~(c - c \div 4 < n + 1)
  <2>1. n + 1 <= c - c \div 4
    <3>1. c \div 4 \in Nat
      BY <1>4
    <3> QED
      BY <1>3, <1>4, <1>11, <3>1
  <2>2. TableFits(U, W, n + 1)
    BY <1>3, <1>8, <1>9, <1>10, <2>1 DEF TableFits
  <2> QED
    BY <1>3, <1>5, <1>10, <1>11, <2>2
<1>12. CASE c - c \div 4 < n + 1
  <2>1. PICK R : R = Rehash(U, W, c * 2)
    OBVIOUS
  <2>2. /\ Sound(R, W) /\ Complete(R, W) /\ Size(R) = c * 2 /\ ValidIn(R) = Filled(R)
    <3>1. c * 2 > Size(U)
      BY <1>4, <1>8
    <3> QED
      BY <1>4, <1>7, <1>8, <1>9, <2>1, <3>1, RehashKeeps
  <2>3. Cardinality(Filled(R)) = m + 1
    BY <1>7, <1>10, <2>2, CountSymbols
  <2>4. m + 1 <= c * 2 - (c * 2) \div 4 /\ c * 2 >= 4
    <3>1. (c * 2) \div 4 <= c /\ (c * 2) \div 4 \in Nat
      BY <1>4
    <3> QED
      BY <1>3, <1>4, <1>10, <3>1
  <2>5. TableFits(R, W, m + 1)
    BY <1>3, <2>2, <2>3, <2>4 DEF TableFits
  <2> QED
    BY <1>3, <1>5, <1>10, <1>12, <2>1, <2>5
<1> QED
  BY <1>11, <1>12

\* A new symbol is live and kept, and the others are what they were.
LEMMA AllocateStep ==
    ASSUME SymbolInv, NEW e \in Entries, e.kind # "free", AllocNextID(e), NEW s,
           UNCHANGED <<slot, weakSym, markVars>>,
           uniqueID' = uniqueID \/ uniqueID' = [uniqueID EXCEPT ![s] = NextID],
           writeBarrierMarkedSymbols \subseteq writeBarrierMarkedSymbols',
           \/ e.kind # "prim"
           \/ marking => \/ NextID = NoSymbol \/ ~(NextID < symbolsEnd)
                         \/ NextID \in writeBarrierMarkedSymbols',
           e.str \in Strings \cup {NoSymbol},
           symbolCount' \in Nat, nonEmptyCount' \in Nat
    PROVE  SymbolTypes' /\ FreeKept' /\ MarkKept' /\ SymbolsLive'
<1>1. PICK id, V, W : id = NextID /\ V = lookupVector /\ W = lookupVector'
  OBVIOUS
<1>2. /\ Allocated(W, V, id, e) /\ roots' = roots \cup {id} /\ id \in Nat
      /\ id >= Len(V) \/ id \in FreeIds(V)
      /\ FreeKept' /\ firstFreeID' \in Nat
  BY <1>1, Allocates
<1>3. /\ slot' = slot /\ weakSym' = weakSym /\ marking' = marking
      /\ markedSymbols' = markedSymbols /\ symbolsEnd' = symbolsEnd /\ scanned' = scanned
  BY DEF markVars
<1>4. /\ V \in Vectors /\ Len(V) \in Nat /\ W \in Vectors /\ Len(W) \in Nat
      /\ Len(V) <= Len(W) /\ id \in 0..Len(W) - 1 /\ W[id + 1] = e
      /\ SameBut(W, V, id)
  BY <1>1, <1>2 DEF SymbolInv, SymbolTypes, Vectors, Allocated
<1>5. Ids = 0..Len(V) - 1 /\ Ids' = 0..Len(W) - 1 /\ Ids \subseteq Ids'
  <2>1. Ids = 0..Len(V) - 1 /\ Ids' = 0..Len(W) - 1
    BY <1>1 DEF Ids
  <2> QED
    BY <1>4, <2>1
<1>6. Entry(id)' = e /\ \A i \in Ids : i # id => Entry(i)' = Entry(i)
  <2>1. Entry(id)' = e
    BY <1>1, <1>4 DEF Entry
  <2> QED
    BY <1>1, <1>4, <1>5, <2>1 DEF Entry, SameBut
<1>7. \A i \in Nat : Live(i) => i \in Ids /\ i # id /\ Live(i)'
  <2> SUFFICES ASSUME NEW i \in Nat, Live(i) PROVE i \in Ids /\ i # id /\ Live(i)'
    OBVIOUS
  <2>1. i \in Ids /\ i \notin FreeIds(V)
    BY <1>1, FreeIsNotLive
  <2>2. i # id
    BY <1>2, <1>4, <1>5, <2>1
  <2>3. Entry(i)' = Entry(i) /\ i \in Ids' /\ ~IsFree(i)
    BY <1>5, <1>6, <2>1, <2>2, NoSymbolAssumption DEF Live
  <2> QED
    BY <2>1, <2>2, <2>3 DEF Live, IsFree
<1>8. Live(id)'
  BY <1>4, <1>5, <1>6 DEF Live, IsFree
<1>9. Live(NoSymbol)'
  BY DEF Live
<1>10. uniqueID \in [Strings -> Nat \cup {NoSymbol}]
       /\ slot \in [Slots -> Nat \cup {NoSymbol}]
       /\ weakSym \in Nat \cup {NoSymbol} /\ roots \subseteq Nat
  BY DEF SymbolInv, SymbolTypes
<1>11. HoldersLive
  BY LiveParts DEF SymbolInv
<1>12. uniqueID' \in [Strings -> Nat \cup {NoSymbol}]
       /\ \A t \in Strings : uniqueID'[t] = uniqueID[t] \/ uniqueID'[t] = id
  BY <1>1, <1>2, <1>10
<1>13. SymbolsLive'
  <2>1. \A i \in Nat \cup {NoSymbol} : Live(i) => Live(i)'
    BY <1>7, <1>9
  <2>2. \A i \in roots' : Live(i)'
    BY <1>2, <1>8, <1>10, <1>11, <2>1 DEF HoldersLive
  <2>3. \A i : i = weakSym => Live(i)'
    BY <1>10, <1>11, <2>1 DEF HoldersLive
  <2>4. \A o \in Slots : \A i : i = slot[o] => Live(i)'
    BY <1>10, <1>11, <2>1 DEF HoldersLive
  <2>5. \A t \in Strings : \A i : i = uniqueID'[t] => Live(i)'
    <3> SUFFICES ASSUME NEW t \in Strings, NEW i, i = uniqueID'[t] PROVE Live(i)'
      OBVIOUS
    <3>1. CASE i = uniqueID[t]
      <4>1. i \in Nat \cup {NoSymbol} /\ Live(i)
        BY <1>10, <1>11, <3>1 DEF HoldersLive
      <4> QED
        BY <2>1, <4>1
    <3>2. CASE i = id
      BY <1>8, <3>2
    <3> QED
      BY <1>12, <3>1, <3>2
  <2>6. HoldersLive'
    BY <1>3, <2>2, <2>3, <2>4, <2>5 DEF HoldersLive, Live, Ids, IsFree, Entry
  <2> QED
    BY <2>6, LiveParts, PTL
<1>14. MarkKept'
  <2> SUFFICES ASSUME marking, NEW i \in Held' PROVE Kept(i)'
    BY <1>3 DEF MarkKept
  <2>1. i \in Held \/ i = id
    BY <1>2, <1>3 DEF Held
  <2>2. CASE i = id
    <3>1. e.kind # "prim" => Kept(i)'
      BY <1>6, <2>2 DEF Kept
    <3>2. symbolsEnd \in Nat
      BY DEF SymbolInv, SymbolTypes
    <3> QED
      BY <1>1, <1>2, <1>3, <2>2, <3>1, <3>2 DEF Kept
  <2>3. CASE i \in Held /\ i # id
    <3>1. Kept(i)
      BY <2>3 DEF SymbolInv, MarkKept
    <3>2. i = NoSymbol => Kept(i)'
      BY DEF Kept
    <3>3. i # NoSymbol => i \in Ids
      BY <1>11, <2>3 DEF Held, HoldersLive, Live
    <3>4. i # NoSymbol => Entry(i)' = Entry(i)
      BY <1>6, <2>3, <3>3
    <3> QED
      BY <1>3, <3>1, <3>2, <3>4 DEF Kept
  <2> QED
    BY <2>1, <2>2, <2>3
<1>15. SymbolTypes'
  <2>1. \A i \in FreeIds(W) : W[i + 1].str = NoSymbol
    <3> SUFFICES ASSUME NEW i \in FreeIds(W) PROVE W[i + 1].str = NoSymbol
      OBVIOUS
    <3>1. i # id
      BY <1>4 DEF FreeIds
    <3>2. i \in 0..Len(V) - 1
      BY <1>2, <3>1 DEF FreeIds, Allocated
    <3>3. W[i + 1] = V[i + 1]
      BY <1>4, <3>1, <3>2 DEF SameBut
    <3> QED
      BY <1>1, <3>2, <3>3 DEF FreeIds, SymbolInv, SymbolTypes
  <2>2. symbolsEnd <= Len(W)
    BY <1>1, <1>4 DEF SymbolInv, SymbolTypes
  <2> QED
    BY <1>1, <1>2, <1>3, <1>4, <1>12, <2>1, <2>2 DEF SymbolInv, SymbolTypes
<1> QED
  BY <1>2, <1>13, <1>14, <1>15

\* A new entry.
LEMMA NewEntry ==
    ASSUME NEW kind \in {"prim", "lazy"}, NEW s \in Strings \cup {NoSymbol}
    PROVE  /\ New(kind, s) \in Entries /\ New(kind, s).kind = kind
           /\ New(kind, s).str = s
  BY SymbolBoundsAssumption DEF New, Entries, End

\* CreateNotUniqued.
LEMMA CreateNotUniquedStep ==
    ASSUME SymbolInv, CreateNotUniqued
    PROVE  SymbolInv'
<1>1. PICK e \in Entries : e = New("prim", NoSymbol) /\ e.kind = "prim" /\ e.str = NoSymbol
  BY NewEntry
<1>2. /\ AllocNextID(e) /\ Barrier(NextID) /\ creating = NoSymbol
      /\ UNCHANGED <<hashVars, uniqueID, creating, slot, weakSym, markVars>>
  BY <1>1 DEF CreateNotUniqued, AllocationBarrier
<1>3. /\ table' = table /\ symbolCount' = symbolCount /\ nonEmptyCount' = nonEmptyCount
      /\ uniqueID' = uniqueID /\ creating' = creating
  BY <1>2 DEF hashVars
<1>4. symbolCount' \in Nat /\ nonEmptyCount' \in Nat
  BY <1>3 DEF SymbolInv, SymbolTypes
<1>5. PICK id : id = NextID
  OBVIOUS
<1>6. /\ writeBarrierMarkedSymbols \subseteq writeBarrierMarkedSymbols'
      /\ marking => \/ id = NoSymbol \/ ~(id < symbolsEnd)
                    \/ id \in writeBarrierMarkedSymbols'
  BY <1>2, <1>5, BarrierMarks
<1>7. SymbolTypes' /\ FreeKept' /\ MarkKept' /\ SymbolsLive'
  BY <1>1, <1>2, <1>4, <1>5, <1>6, AllocateStep
<1>8. TableKept'
  <2>1. PICK V, W : V = lookupVector /\ W = lookupVector'
    OBVIOUS
  <2>2. Allocated(W, V, id, e)
    BY <1>1, <1>2, <1>5, <2>1, Allocates
  <2>3. Extends(W, V) /\ Named(W) = Named(V)
    <3>1. V \in Vectors /\ \A i \in FreeIds(V) : V[i + 1].str = NoSymbol
      BY <2>1 DEF SymbolInv, SymbolTypes
    <3> QED
      BY <1>1, <2>2, <3>1, AllocatedNames
  <2>4. Sound(table, V) /\ Complete(table, V)
    BY <2>1 DEF SymbolInv, TableKept
  <2>5. \A at \in DOMAIN table : Valid(table, at) => StrAt(table, W, at) = StrAt(table, V, at)
    BY <2>3, <2>4 DEF Sound, StrAt, Extends
  <2>6. Sound(table, W)
    BY <2>3, <2>4, <2>5 DEF Sound
  <2>7. Complete(table, W)
    BY <2>3, <2>4 DEF Complete
  <2> QED
    BY <1>3, <2>1, <2>3, <2>6, <2>7 DEF SymbolInv, TableKept, Capacity
<1>9. CreatingKept'
  BY <1>2, <1>3 DEF CreatingKept
<1> QED
  BY <1>7, <1>8, <1>9 DEF SymbolInv

\* A string is looked up, and its symbol is inserted.
LEMMA RegisterLazyStep ==
    ASSUME SymbolInv, NEW s \in Strings, RegisterLazy(s)
    PROVE  SymbolInv'
<1>1. PICK e \in Entries : e = New("lazy", s) /\ e.kind = "lazy" /\ e.str = s
  BY NewEntry
<1>2. PICK at, id, W : at = LookupString(table, lookupVector, s) /\ id = NextID
                       /\ W = lookupVector'
  OBVIOUS
<1>3. /\ AllocNextID(e) /\ Insert(at, id, With(e)) /\ ~IsKnown(s) /\ creating = NoSymbol
      /\ UNCHANGED <<uniqueID, creating, slot, weakSym, markVars,
                     writeBarrierMarkedSymbols>>
  BY <1>1, <1>2 DEF RegisterLazy
<1>4. Allocated(W, lookupVector, id, e) /\ W = With(e) /\ id < MaxSymbols
  BY <1>1, <1>2, <1>3, Allocates
<1>5. /\ at \in DOMAIN table /\ ~Valid(table, at) /\ Reached(table, s, at)
      /\ ~Has(table, lookupVector, s)
  BY <1>2, <1>3, UnknownPlace
<1>6. /\ TableFits(table', W, nonEmptyCount')
      /\ symbolCount' = Cardinality(Named(W)) /\ symbolCount' \in Nat
  BY <1>1, <1>3, <1>4, <1>5, Inserts
<1>7. TableKept' /\ nonEmptyCount' \in Nat
  BY <1>2, <1>6 DEF TableKept, TableFits, Capacity, Size
<1>8. SymbolTypes' /\ FreeKept' /\ MarkKept' /\ SymbolsLive'
  BY <1>1, <1>3, <1>6, <1>7, AllocateStep
<1>9. CreatingKept'
  BY <1>3 DEF CreatingKept
<1> QED
  BY <1>7, <1>8, <1>9 DEF SymbolInv

\* The symbol of the string that was looked up is inserted.
LEMMA AllocIDAndInsertStep ==
    ASSUME SymbolInv, AllocIDAndInsert
    PROVE  SymbolInv'
<1>1. PICK s, at, id, W : s = creating.str /\ at = creating.at /\ id = NextID
                          /\ W = lookupVector'
  OBVIOUS
<1>2. creating # NoSymbol /\ creating' = NoSymbol
  BY DEF AllocIDAndInsert
<1>3. /\ s \in Strings /\ at \in DOMAIN table /\ ~Valid(table, at) /\ Reached(table, s, at)
      /\ ~Has(table, lookupVector, s)
  BY <1>1, <1>2 DEF SymbolInv, CreatingKept
<1>4. PICK e \in Entries : e = New("prim", s) /\ e.kind = "prim" /\ e.str = s
  BY <1>3, NewEntry
<1>5. /\ AllocNextID(e) /\ Insert(at, id, With(e)) /\ Barrier(id)
      /\ uniqueID' = [uniqueID EXCEPT ![s] = id]
      /\ UNCHANGED <<slot, weakSym, markVars>>
  BY <1>1, <1>4 DEF AllocIDAndInsert, AllocationBarrier
<1>6. Allocated(W, lookupVector, id, e) /\ W = With(e) /\ id < MaxSymbols
  BY <1>1, <1>4, <1>5, Allocates
<1>7. /\ TableFits(table', W, nonEmptyCount')
      /\ symbolCount' = Cardinality(Named(W)) /\ symbolCount' \in Nat
  BY <1>3, <1>4, <1>5, <1>6, Inserts
<1>8. TableKept' /\ nonEmptyCount' \in Nat
  BY <1>1, <1>7 DEF TableKept, TableFits, Capacity, Size
<1>9. /\ writeBarrierMarkedSymbols \subseteq writeBarrierMarkedSymbols'
      /\ marking => \/ id = NoSymbol \/ ~(id < symbolsEnd)
                    \/ id \in writeBarrierMarkedSymbols'
  BY <1>5, BarrierMarks
<1>10. SymbolTypes' /\ FreeKept' /\ MarkKept' /\ SymbolsLive'
  BY <1>1, <1>3, <1>4, <1>5, <1>7, <1>8, <1>9, AllocateStep
<1>11. CreatingKept'
  BY <1>2 DEF CreatingKept
<1> QED
  BY <1>8, <1>10, <1>11 DEF SymbolInv

\* Materialize: only the kind of an entry changes, to another that is not free.
LEMMA MaterializeStep ==
    ASSUME SymbolInv, NEW id \in roots, Materialize(id)
    PROVE  SymbolInv'
<1>1. PICK V, W, d : /\ V = lookupVector /\ W = lookupVector' /\ d = V[id + 1]
  OBVIOUS
<1>2. PICK e : e = [d EXCEPT !.kind = "lazyPrim"]
  OBVIOUS
<1>3. /\ d.kind = "lazy" /\ W = [V EXCEPT ![id + 1] = e]
      /\ uniqueID' = [uniqueID EXCEPT ![d.str] = id]
      /\ UNCHANGED <<hashVars, firstFreeID, programVars, markVars,
                     writeBarrierMarkedSymbols>>
      /\ creating = NoSymbol
  BY <1>1, <1>2 DEF Materialize, Entry
<1>4. /\ table' = table /\ symbolCount' = symbolCount /\ nonEmptyCount' = nonEmptyCount
      /\ firstFreeID' = firstFreeID /\ creating' = creating /\ roots' = roots
      /\ slot' = slot /\ weakSym' = weakSym /\ marking' = marking
      /\ markedSymbols' = markedSymbols /\ symbolsEnd' = symbolsEnd /\ scanned' = scanned
      /\ writeBarrierMarkedSymbols' = writeBarrierMarkedSymbols
  BY <1>3 DEF hashVars, programVars, markVars
<1>5. HoldersLive
  BY LiveParts DEF SymbolInv
<1>6. id \in Nat /\ id \in Ids
  <2>1. id \in Nat /\ Live(id)
    BY <1>5 DEF HoldersLive, SymbolInv, SymbolTypes
  <2> QED
    BY <2>1, FreeIsNotLive
<1>7. /\ V \in Vectors /\ V \in Seq(Entries) /\ Len(V) \in Nat /\ Len(V) <= MaxSymbols
      /\ id \in 0..Len(V) - 1 /\ id + 1 \in 1..Len(V)
  BY <1>1, <1>6 DEF SymbolInv, SymbolTypes, Vectors, Ids
<1>8. d \in Entries
  BY <1>1, <1>7
<1>9. e \in Entries /\ e.kind = "lazyPrim" /\ e.str = d.str /\ e.next = d.next
  BY <1>2, <1>8 DEF Entries
<1>10. /\ W \in Vectors /\ Len(W) = Len(V) /\ W[id + 1] = e
       /\ \A i \in 0..Len(V) - 1 : i # id => W[i + 1] = V[i + 1]
  <2>1. W \in Seq(Entries) /\ Len(W) = Len(V) /\ W[id + 1] = e
    BY <1>3, <1>7, <1>9
  <2>2. \A i \in 0..Len(V) - 1 : i # id => i + 1 \in 1..Len(V) /\ i + 1 # id + 1
    BY <1>7
  <2> QED
    BY <1>3, <1>7, <2>1, <2>2 DEF Vectors
<1>11. /\ \A i \in 0..Len(V) - 1 : W[i + 1].str = V[i + 1].str
       /\ FreeIds(W) = FreeIds(V) /\ Named(W) = Named(V)
       /\ \A i \in FreeIds(V) : W[i + 1].next = V[i + 1].next
  <2>1. \A i \in 0..Len(V) - 1 : W[i + 1].str = V[i + 1].str
    BY <1>1, <1>9, <1>10
  <2>2. Named(W) = Named(V)
    BY <1>10, <2>1 DEF Named
  <2>3. \A i \in 0..Len(V) - 1 :
          W[i + 1].kind = "free" <=> V[i + 1].kind = "free"
    BY <1>1, <1>3, <1>9, <1>10
  <2>4. FreeIds(W) = FreeIds(V)
    BY <1>10, <2>3 DEF FreeIds
  <2>5. \A i \in FreeIds(V) : W[i + 1].next = V[i + 1].next
    <3>1. id \notin FreeIds(V)
      BY <1>1, <1>3 DEF FreeIds
    <3> QED
      BY <1>10, <3>1 DEF FreeIds
  <2> QED
    BY <2>1, <2>2, <2>4, <2>5
<1>12. TableKept'
  <2>1. Sound(table, V) /\ Complete(table, V)
    BY <1>1 DEF SymbolInv, TableKept
  <2>2. \A at \in DOMAIN table : Valid(table, at) => StrAt(table, W, at) = StrAt(table, V, at)
    BY <1>11, <2>1 DEF Sound, StrAt, Named
  <2>3. Sound(table, W)
    BY <1>11, <2>1, <2>2 DEF Sound
  <2>4. Complete(table, W)
    BY <1>11, <2>1 DEF Complete
  <2> QED
    BY <1>1, <1>4, <1>11, <2>3, <2>4 DEF SymbolInv, TableKept, Capacity
<1>13. FreeKept'
  BY <1>1, <1>4, <1>11, ChainStays DEF SymbolInv, FreeKept
<1>14. CreatingKept'
  BY <1>3, <1>4 DEF CreatingKept
<1>15. Ids' = Ids
  BY <1>1, <1>10 DEF Ids
<1>16. \A i \in Ids : /\ Entry(i).kind # "prim" => (Entry(i).kind # "prim")'
                      /\ ~IsFree(i) => ~IsFree(i)'
  <2> SUFFICES ASSUME NEW i \in Ids
               PROVE  /\ V[i + 1].kind # "prim" => W[i + 1].kind # "prim"
                      /\ V[i + 1].kind # "free" => W[i + 1].kind # "free"
    BY <1>1 DEF Entry, IsFree
  <2>1. i \in 0..Len(V) - 1
    BY <1>1 DEF Ids
  <2> QED
    BY <1>9, <1>10, <2>1
<1>17. MarkKept'
  <2> SUFFICES ASSUME marking, NEW i \in Held PROVE Kept(i)'
    BY <1>4 DEF MarkKept, Held
  <2>1. Kept(i)
    BY DEF SymbolInv, MarkKept
  <2>2. i # NoSymbol => i \in Ids
    BY <1>5 DEF Held, HoldersLive, Live
  <2> QED
    BY <1>4, <1>16, <2>1, <2>2 DEF Kept
<1>18. uniqueID' \in [Strings -> Nat \cup {NoSymbol}]
       /\ \A s \in Strings : uniqueID'[s] = uniqueID[s] \/ uniqueID'[s] = id
  <2>1. uniqueID \in [Strings -> Nat \cup {NoSymbol}]
    BY DEF SymbolInv, SymbolTypes
  <2> QED
    BY <1>3, <1>6, <2>1
<1>19. SymbolsLive'
  <2>1. \A i : Live(i) => Live(i)'
    BY <1>15, <1>16 DEF Live
  <2>2. \A s \in Strings : Live(uniqueID'[s])
    BY <1>5, <1>18 DEF HoldersLive
  <2>3. \A s \in Strings : \A i : i = uniqueID'[s] => Live(i)'
    BY <2>1, <2>2
  <2>4. \A i : (\/ i \in roots \/ i = weakSym \/ \E o \in Slots : i = slot[o]) => Live(i)'
    BY <1>5, <2>1 DEF HoldersLive
  <2>5. HoldersLive'
    BY <1>4, <2>3, <2>4 DEF HoldersLive, Live, Ids, IsFree, Entry
  <2> QED
    BY <2>5, LiveParts, PTL
<1>20. SymbolTypes'
  <2>1. \A i \in FreeIds(W) : W[i + 1].str = NoSymbol
    BY <1>1, <1>11 DEF FreeIds, SymbolInv, SymbolTypes
  <2> QED
    BY <1>1, <1>4, <1>10, <1>18, <2>1 DEF SymbolInv, SymbolTypes
<1> QED
  BY <1>12, <1>13, <1>14, <1>17, <1>19, <1>20 DEF SymbolInv

\* The symbols that are freed have a unique string or not.
LEMMA NamesFreed ==
    ASSUME SymbolInv, marking, NEW S, FreedUpTo(S, symbolsEnd)
    PROVE  /\ Named(S.vector) = Named(lookupVector) \ Freed
           /\ Freed \cap Named(lookupVector) = {id \in Freed : Entry(id).str # NoSymbol}
           /\ \A id \in Freed : id \in Ids /\ id \in Nat /\ id \in FreedBefore(symbolsEnd)
<1>1. /\ lookupVector \in Vectors /\ Len(lookupVector) \in Nat
      /\ symbolsEnd \in Nat /\ symbolsEnd <= Len(lookupVector)
  BY DEF SymbolInv, SymbolTypes, Vectors
<1>2. \A id \in Freed : id \in Ids /\ id \in Nat /\ id < symbolsEnd
  BY <1>1 DEF Freed, UnmarkedSymbols, Ids
<1>3. \A id \in Freed : id \in FreedBefore(symbolsEnd)
  BY <1>2 DEF FreedBefore
<1>4. \A id \in Ids : IF id \in Freed THEN S.vector[id + 1].str = NoSymbol
                      ELSE S.vector[id + 1] = lookupVector[id + 1]
  BY <1>3 DEF FreedUpTo, EntriesFreed, FreedBefore
<1>5. Len(S.vector) = Len(lookupVector)
  BY DEF FreedUpTo
<1>6. Named(S.vector) = Named(lookupVector) \ Freed
  BY <1>4, <1>5, NoSymbolAssumption DEF Named, Ids
<1>7. ASSUME NEW id \in Freed PROVE id \in Named(lookupVector) <=> Entry(id).str # NoSymbol
  <2>1. id \in 0..Len(lookupVector) - 1 /\ id + 1 \in 1..Len(lookupVector)
    BY <1>1, <1>2 DEF Ids
  <2>2. lookupVector[id + 1] \in Entries
    BY <1>1, <2>1 DEF Vectors
  <2> QED
    BY <2>1, <2>2, NoSymbolAssumption DEF Named, Entry, Entries
<1> QED
  BY <1>2, <1>3, <1>6, <1>7

\* CompleteSymbolMarking: what is kept is not freed.
LEMMA CompleteSymbolMarkingStep ==
    ASSUME SymbolInv, CompleteSymbolMarking
    PROVE  SymbolInv'
<1>1. /\ marking /\ scanned = Slots /\ marking' = FALSE
      /\ symbolCount' =
           symbolCount - Cardinality({id \in Freed : Entry(id).str # NoSymbol})
      /\ weakSym' = IF weakSym # NoSymbol /\ weakSym \in Freed THEN NoSymbol ELSE weakSym
      /\ symbolsEnd' = 0 /\ nonEmptyCount' = nonEmptyCount /\ creating' = creating
      /\ roots' = roots /\ slot' = slot
  BY DEF CompleteSymbolMarking
<1>2. PICK S : S = FreeUnmarkedSymbols
  OBVIOUS
<1>3. /\ table' = S.table /\ lookupVector' = S.vector
      /\ firstFreeID' = S.first /\ uniqueID' = S.unique
  BY <1>2 DEF CompleteSymbolMarking
<1>4. FreedUpTo(S, symbolsEnd)
  BY <1>2, FreeingKeeps DEF SymbolInv
<1>5. /\ Named(S.vector) = Named(lookupVector) \ Freed
      /\ Freed \cap Named(lookupVector) = {id \in Freed : Entry(id).str # NoSymbol}
      /\ \A id \in Freed : id \in Ids /\ id \in Nat /\ id \in FreedBefore(symbolsEnd)
  BY <1>1, <1>4, NamesFreed
<1>6. /\ S.vector \in Vectors /\ Len(S.vector) = Len(lookupVector) /\ S.first \in Nat
      /\ Chained(S.vector, S.first) /\ TableFreed(S)
  BY <1>4 DEF FreedUpTo
<1>7. /\ \A id \in Ids : IF id \in Freed
                         THEN S.vector[id + 1].kind = "free" /\ S.vector[id + 1].str = NoSymbol
                         ELSE S.vector[id + 1] = lookupVector[id + 1]
      /\ S.unique \in [Strings -> Nat \cup {NoSymbol}]
      /\ \A s \in Strings :
           S.unique[s] = IF uniqueID[s] \in Freed THEN NoSymbol ELSE uniqueID[s]
  BY <1>4, <1>5 DEF FreedUpTo, EntriesFreed, UniqueFreed, FreedBefore
<1>8. Ids' = Ids /\ \A id \in Ids \ Freed : Entry(id)' = Entry(id)
  <2>1. Ids' = Ids
    BY <1>3, <1>6 DEF Ids
  <2> QED
    BY <1>3, <1>7, <2>1 DEF Entry
<1>9. \A id : id \notin Freed /\ Live(id) => Live(id)'
  BY <1>8 DEF Live, IsFree
<1>10. Live(NoSymbol)'
  BY DEF Live
<1>11. HoldersLive
  BY LiveParts DEF SymbolInv
<1>12. \A id \in Held : id \notin Freed
  <2> SUFFICES ASSUME NEW id \in Held, id \in Freed PROVE FALSE
    OBVIOUS
  <2>1. Kept(id)
    BY <1>1 DEF SymbolInv, MarkKept
  <2>2. /\ id \in Nat /\ id \in 0..symbolsEnd - 1 /\ Entry(id).kind = "prim"
        /\ id \notin markedSymbols \cup writeBarrierMarkedSymbols /\ symbolsEnd \in Nat
    BY <1>5 DEF Freed, UnmarkedSymbols, SymbolInv, SymbolTypes
  <2>3. id # NoSymbol /\ ~(id >= symbolsEnd)
    BY <2>2, NoSymbolAssumption
  <2> QED
    BY <1>1, <2>1, <2>2, <2>3 DEF Kept
<1>13. SymbolsLive'
  <2>1. \A i : i \in roots \/ (\E o \in Slots : i = slot[o]) => Live(i)'
    BY <1>9, <1>11, <1>12 DEF Held, HoldersLive
  <2>2. \A i : i = weakSym' => Live(i)'
    BY <1>1, <1>9, <1>10, <1>11 DEF HoldersLive
  <2>3. \A s \in Strings : \A i : i = uniqueID'[s] => Live(i)'
    BY <1>3, <1>7, <1>9, <1>10, <1>11 DEF HoldersLive
  <2>4. HoldersLive'
    BY <1>1, <2>1, <2>2, <2>3 DEF HoldersLive, Live, Ids, IsFree, Entry
  <2> QED
    BY <2>4, LiveParts, PTL
<1>14. /\ lookupVector \in Vectors /\ Sound(table, lookupVector)
       /\ Complete(table, lookupVector) /\ IsTable(table)
       /\ symbolCount = Cardinality(Named(lookupVector))
  BY DEF SymbolInv, SymbolTypes, TableKept, Sound
<1>15. symbolCount' = Cardinality(Named(S.vector)) /\ symbolCount' \in Nat
  <2>1. IsFiniteSet(Named(lookupVector)) /\ IsFiniteSet(Named(S.vector))
        /\ Cardinality(Named(S.vector)) \in Nat
    BY <1>6, <1>14, CountSymbols DEF TableFreed
  <2>2. Cardinality(Named(lookupVector) \ Freed) =
          Cardinality(Named(lookupVector)) - Cardinality(Named(lookupVector) \cap Freed)
    BY <2>1, FS_Difference
  <2>3. Named(lookupVector) \cap Freed = {id \in Freed : Entry(id).str # NoSymbol}
    BY <1>5
  <2> QED
    BY <1>1, <1>5, <1>14, <2>1, <2>2, <2>3
<1>16. TableKept'
  BY <1>1, <1>3, <1>6, <1>15 DEF SymbolInv, TableKept, TableFreed, Capacity, Size
<1>17. FreeKept'
  BY <1>3, <1>6 DEF FreeKept
<1>18. MarkKept'
  BY <1>1 DEF MarkKept
<1>19. CreatingKept'
  <2> SUFFICES ASSUME creating # NoSymbol PROVE CreatingKept'
    BY <1>1 DEF CreatingKept
  <2>1. PICK s, at : s = creating.str /\ at = creating.at
    OBVIOUS
  <2>2. PICK T : T = S.table
    OBVIOUS
  <2>3. /\ s \in Strings /\ at \in DOMAIN table /\ ~Valid(table, at)
        /\ Reached(table, s, at) /\ ~Has(table, lookupVector, s)
    BY <2>1 DEF SymbolInv, CreatingKept
  <2>4. /\ Sound(T, S.vector) /\ Complete(T, S.vector) /\ Size(T) = Size(table)
        /\ Filled(T) = Filled(table) /\ ValidIn(T) \subseteq ValidIn(table)
    BY <1>6, <2>2 DEF TableFreed
  <2>5. DOMAIN T = DOMAIN table
    <3>1. DOMAIN T = 0..Size(T) - 1 /\ DOMAIN table = 0..Size(table) - 1
      BY <1>14, <2>4, ProbePlaces DEF Sound
    <3> QED
      BY <2>4, <3>1
  <2>6. ~Valid(T, at)
    BY <2>3, <2>4, <2>5 DEF ValidIn
  <2>7. Reached(T, s, at)
    <3>1. \A b \in DOMAIN table : table[b] # Empty => T[b] # Empty
      BY <2>4, <2>5 DEF Filled
    <3> QED
      BY <1>14, <2>3, <2>4, <3>1, StillReached
  <2>8. ~Has(T, S.vector, s)
    <3>1. ASSUME NEW id \in Named(S.vector), S.vector[id + 1].str = s PROVE FALSE
      <4>1. id \in Named(lookupVector) /\ id \notin Freed
        BY <1>5
      <4>2. S.vector[id + 1] = lookupVector[id + 1]
        BY <1>7, <4>1 DEF Named, Ids
      <4>3. Has(table, lookupVector, s)
        BY <1>14, <2>3, <3>1, <4>1, <4>2, HasNamed
      <4> QED
        BY <2>3, <4>3
    <3> QED
      BY <1>6, <2>3, <2>4, <3>1, HasNamed
  <2> QED
    BY <1>1, <1>3, <2>1, <2>2, <2>3, <2>5, <2>6, <2>7, <2>8 DEF CreatingKept
<1>20. SymbolTypes'
  <2>1. \A i \in FreeIds(S.vector) : S.vector[i + 1].str = NoSymbol
    <3> SUFFICES ASSUME NEW i \in FreeIds(S.vector) PROVE S.vector[i + 1].str = NoSymbol
      OBVIOUS
    <3>1. i \in Ids
      BY <1>6 DEF FreeIds, Ids
    <3>2. CASE i \in Freed
      BY <1>7, <3>1, <3>2
    <3>3. CASE i \notin Freed
      <4>1. S.vector[i + 1] = lookupVector[i + 1]
        BY <1>7, <3>1, <3>3
      <4>2. i \in FreeIds(lookupVector)
        BY <3>1, <4>1 DEF FreeIds, Ids
      <4> QED
        BY <4>1, <4>2 DEF SymbolInv, SymbolTypes
    <3> QED
      BY <3>2, <3>3
  <2>2. 0 <= Len(S.vector)
    BY <1>6 DEF Vectors
  <2>3. weakSym' \in Nat \cup {NoSymbol}
    BY <1>1 DEF SymbolInv, SymbolTypes
  <2> QED
    BY <1>1, <1>3, <1>6, <1>7, <1>15, <2>1, <2>2, <2>3 DEF SymbolInv, SymbolTypes
<1> QED
  BY <1>13, <1>16, <1>17, <1>18, <1>19, <1>20 DEF SymbolInv

\* Nothing is in the table at first.
LEMMA SymbolInitInv == SymbolInit => SymbolInv
<1> SUFFICES ASSUME SymbolInit PROVE SymbolInv
  OBVIOUS
<1>1. PICK T : T = [at \in 0..kInitialCapacity - 1 |-> Empty]
  OBVIOUS
<1>2. /\ lookupVector = <<>> /\ firstFreeID = End /\ table = T
      /\ symbolCount = 0 /\ nonEmptyCount = 0
      /\ uniqueID = [s \in Strings |-> NoSymbol]
      /\ creating = NoSymbol /\ roots = {}
      /\ slot = [o \in Slots |-> NoSymbol] /\ weakSym = NoSymbol
      /\ marking = FALSE /\ symbolsEnd = 0
  BY <1>1 DEF SymbolInit
<1>3. /\ MaxSymbols \in Nat /\ kInitialCapacity \in Nat /\ kInitialCapacity >= 4
      /\ kInitialCapacity \in PowersOf2
  BY SymbolBoundsAssumption, TableAssumption DEF PowersOf2
<1>4. /\ DOMAIN T = 0..kInitialCapacity - 1 /\ \A at \in DOMAIN T : T[at] = Empty
      /\ Empty \in Nat
  BY <1>1, <1>3 DEF Empty
<1>5. Size(T) = kInitialCapacity
  BY <1>3, <1>4, FS_Interval DEF Size
<1>6. IsTable(T)
  BY <1>1, <1>3, <1>4, <1>5 DEF IsTable
<1>7. lookupVector \in Vectors /\ FreeIds(lookupVector) = {} /\ Named(lookupVector) = {}
  BY <1>2, <1>3 DEF Vectors, FreeIds, Named
<1>8. SymbolTypes
  <2>1. uniqueID \in [Strings -> Nat \cup {NoSymbol}]
        /\ slot \in [Slots -> Nat \cup {NoSymbol}]
    BY <1>2
  <2>2. Len(lookupVector) = 0
    BY <1>2
  <2>3. firstFreeID \in Nat /\ symbolsEnd \in Nat /\ symbolsEnd <= Len(lookupVector)
    BY <1>2, <1>3, <2>2 DEF End
  <2> QED
    BY <1>2, <1>7, <2>1, <2>3 DEF SymbolTypes
<1>9. TableKept
  <2>1. \A at \in DOMAIN T : ~Valid(T, at)
    BY <1>4 DEF Valid
  <2>2. Sound(T, lookupVector) /\ Complete(T, lookupVector)
    BY <1>6, <1>7, <2>1 DEF Sound, Complete
  <2>3. Filled(T) = {}
    BY <1>4 DEF Filled
  <2>4. Cardinality(Filled(T)) = 0 /\ Cardinality(Named(lookupVector)) = 0
    BY <1>7, <2>3, FS_EmptySet
  <2>5. 0 <= Size(T) - Size(T) \div 4
    <3>1. PICK c \in Nat : c = kInitialCapacity
      BY <1>3
    <3>2. 0 <= c - c \div 4
      BY <3>1
    <3> QED
      BY <1>5, <3>1, <3>2
  <2> QED
    BY <1>2, <1>3, <1>5, <2>2, <2>4, <2>5 DEF TableKept, Capacity, Size
<1>10. CreatingKept /\ MarkKept
  BY <1>2 DEF CreatingKept, MarkKept
<1>11. FreeKept
  <2>1. Chain([i \in 0..0 |-> End], 0, lookupVector, firstFreeID)
    BY <1>2, <1>7 DEF Chain
  <2> QED
    BY <2>1 DEF FreeKept, Chained
<1>12. SymbolsLive
  BY <1>2, LiveParts DEF HoldersLive, Live
<1> QED
  BY <1>8, <1>9, <1>10, <1>11, <1>12 DEF SymbolInv

\* No step breaks the invariant.
LEMMA SymbolInductive == SymbolInv /\ [SymbolNext]_symbolVars => SymbolInv'
<1> SUFFICES ASSUME SymbolInv, [SymbolNext]_symbolVars PROVE SymbolInv'
  OBVIOUS
<1>1. ASSUME NEW s \in Strings, GetSymbol(s) \/ LookupMisses(s) \/ RegisterLazy(s)
      PROVE  SymbolInv'
  BY <1>1, GetSymbolStep, LookupMissesStep, RegisterLazyStep
<1>2. ASSUME AllocIDAndInsert \/ CreateNotUniqued PROVE SymbolInv'
  BY <1>2, AllocIDAndInsertStep, CreateNotUniquedStep
<1>3. ASSUME NEW id \in roots, Materialize(id) \/ StoreWeak(id) PROVE SymbolInv'
  BY <1>3, MaterializeStep, StoreWeakStep
<1>4. ASSUME NEW o \in Slots,
             LoadSlot(o) \/ \E id \in roots \cup {NoSymbol} : StoreSlot(o, id)
      PROVE  SymbolInv'
  BY <1>4, LoadSlotStep, StoreSlotStep
<1>5. ASSUME LoadWeak \/ DropRoots PROVE SymbolInv'
  BY <1>5, LoadWeakStep, DropRootsStep
<1>6. ASSUME StartMarking \/ (\E o \in Slots : ScanSlot(o)) \/ CompleteSymbolMarking
      PROVE  SymbolInv'
  BY <1>6, StartMarkingStep, ScanSlotStep, CompleteSymbolMarkingStep
<1>7. ASSUME UNCHANGED symbolVars PROVE SymbolInv'
  <2>1. /\ UNCHANGED <<hashVars, vectorVars>> /\ creating' = creating /\ roots' = roots
        /\ slot' = slot /\ weakSym' = weakSym /\ marking' = marking
        /\ UNCHANGED markVars /\ symbolsEnd' = symbolsEnd
        /\ writeBarrierMarkedSymbols' = writeBarrierMarkedSymbols
    BY <1>7 DEF symbolVars, programVars, markVars
  <2>2. /\ lookupVector' = lookupVector /\ firstFreeID' = firstFreeID
        /\ symbolCount' = symbolCount /\ nonEmptyCount' = nonEmptyCount
        /\ uniqueID' = uniqueID
    BY <2>1 DEF hashVars, vectorVars
  <2>3. TableKept' /\ FreeKept' /\ CreatingKept'
    BY <2>1, VectorSame
  <2>4. SymbolTypes'
    BY <2>1, <2>2 DEF SymbolInv, SymbolTypes
  <2>5. MarkKept'
    <3>1. \A j : Kept(j) => Kept(j)'
      BY <2>1, <2>2, KeptStays
    <3> QED
      BY <2>1, <3>1 DEF SymbolInv, MarkKept, Held
  <2>6. SymbolsLive'
    <3>1. HoldersLive
      BY LiveParts DEF SymbolInv
    <3>2. HoldersLive'
      BY <2>1, <2>2, <3>1 DEF HoldersLive, Live, Ids, IsFree, Entry
    <3> QED
      BY <3>2, LiveParts, PTL
  <2> QED
    BY <2>3, <2>4, <2>5, <2>6 DEF SymbolInv
<1> QED
  BY <1>1, <1>2, <1>3, <1>4, <1>5, <1>6, <1>7 DEF SymbolNext

\* Where the invariant holds, the table finds each symbol.
LEMMA InvFound == SymbolInv => SymbolFound
<1> SUFFICES ASSUME SymbolInv PROVE SymbolFound
  OBVIOUS
<1>1. PICK T, V : T = table /\ V = lookupVector
  OBVIOUS
<1>2. /\ V \in Vectors /\ Sound(T, V) /\ Complete(T, V) /\ IsTable(T)
      /\ symbolCount = Cardinality(Named(V)) /\ Chained(V, firstFreeID)
  BY <1>1 DEF SymbolInv, SymbolTypes, TableKept, FreeKept, Sound
<1>3. Roomy(T)
  <2>1. nonEmptyCount \in Nat
    BY DEF SymbolInv, SymbolTypes
  <2> QED
    BY <1>1, <1>2, <2>1, NeverFull DEF SymbolInv, TableKept, Capacity, Size
<1>4. IndicesAccounted
  <2>1. ValidIn(T) = {at \in DOMAIN table : Valid(table, at)}
    BY <1>1 DEF ValidIn
  <2>2. symbolCount = Cardinality({at \in DOMAIN table : Valid(table, at)})
    BY <1>2, <2>1, CountSymbols
  <2> QED
    BY <1>1, <1>2, <2>2, ListAccounted
<1>5. ASSUME NEW s \in Strings, NEW ids, ids = {id \in Ids : Entry(id).str = s}
      PROVE  /\ Cardinality(ids) <= 1
             /\ IF ids = {} THEN ~IsKnown(s) ELSE IsKnown(s) /\ IdOf(s) \in ids
  <2>1. ids = {id \in Named(V) : V[id + 1].str = s}
    BY <1>1, <1>5 DEF Ids, Entry, Named
  <2>2. PICK at : at = LookupString(T, V, s)
    OBVIOUS
  <2>3. (IsKnown(s) <=> Valid(T, at)) /\ IdOf(s) = T[at]
    BY <1>1, <2>2 DEF IsKnown, IdOf
  <2>4. CASE ids = {}
    <3>1. ~Has(T, V, s)
      BY <1>2, <2>1, <2>4, HasNamed
    <3>2. ~Valid(T, at)
      BY <1>2, <1>3, <2>2, <3>1, LookupFinds
    <3>3. Cardinality(ids) = 0
      BY <2>4, FS_EmptySet
    <3> QED
      BY <2>3, <2>4, <3>2, <3>3
  <2>5. CASE ids # {}
    <3>1. Has(T, V, s)
      BY <1>2, <2>1, <2>5, HasNamed
    <3>2. at \in DOMAIN T /\ Valid(T, at) /\ StrAt(T, V, at) = s
      BY <1>2, <1>3, <2>2, <3>1, LookupFinds
    <3>3. T[at] \in ids
      BY <1>2, <2>1, <3>2 DEF Sound, StrAt
    <3>4. ASSUME NEW id \in ids PROVE id = T[at]
      <4>1. PICK b \in DOMAIN T : T[b] = id
        BY <1>2, <2>1 DEF Complete
      <4>2. id \in Nat /\ id < MaxSymbols
        BY <1>2, <2>1, SymbolBoundsAssumption DEF Named, Vectors
      <4>3. Valid(T, b)
        BY <4>1, <4>2, SymbolBoundsAssumption DEF Valid, Empty, Deleted
      <4>4. StrAt(T, V, b) = s
        BY <2>1, <4>1 DEF StrAt
      <4> QED
        BY <1>2, <3>2, <4>1, <4>3, <4>4 DEF Sound
    <3>5. ids = {T[at]}
      BY <3>3, <3>4
    <3>6. Cardinality(ids) = 1
      BY <3>5, FS_Singleton
    <3> QED
      BY <2>3, <2>5, <3>2, <3>3, <3>6
  <2> QED
    BY <2>4, <2>5
<1>6. creating # NoSymbol => ~Valid(table, creating.at)
  BY DEF SymbolInv, CreatingKept
<1> QED
  BY <1>1, <1>3, <1>4, <1>5, <1>6 DEF SymbolFound, Roomy

\* A symbol that the program has, or can come by, is not freed: the barriers of
\* getOrCreateIdentifier(), of slots and of weak roots keep what the marker does not
\* see (freeUnmarkedSymbols, completeMarking).
THEOREM SymbolsStayLive == SymbolSpec => []SymbolsLive
<1>1. SymbolInv => SymbolsLive
  BY DEF SymbolInv
<1> QED
  BY <1>1, SymbolInitInv, SymbolInductive, PTL DEF SymbolSpec

\* Every unique string has one symbol, which the hash table finds, and the table is
\* never full, whatever was freed between lookups and insertions (lookupString,
\* insert, growAndRehash, freeSymbol).
THEOREM SymbolsFound == SymbolSpec => []SymbolFound
<1> QED
  BY SymbolInitInv, SymbolInductive, InvFound, PTL DEF SymbolSpec
==============================================================================
