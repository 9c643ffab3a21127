--------------------------- MODULE IdentifierTable ---------------------------
(* IdentifierTable and its IdentifierHashTable: the vector of the symbols,    *)
(* whose free entries form a list, and the hash table of those with a unique  *)
(* string; and how HadesGC marks symbols while the program runs and frees the *)
(* others when it completes marking.                                          *)
(*                                                                            *)
(* A string has one StringPrimitive here that is or was made unique.  Symbols *)
(* are their indices.  The heap is what holds them: handles and other roots,  *)
(* slots of old cells, weak roots.                                            *)
EXTENDS Naturals, Sequences, FiniteSets

CONSTANTS
    Strings,
    Hash,             \* the hash of each string
    Slots,            \* slots of cells that stay reachable
    NoSymbol,
    kInitialCapacity, \* of the hash table, 4 or more
    MaxNonEmpty,      \* bound: no symbol is put into a table with more entries
    MaxSymbols        \* bound: entries in the vector

\* A power of 2: no odd number divides it but 1.
PowersOf2 == {c \in Nat \ {0} : \A d \in 2..c : c % d = 0 => d % 2 = 0}

ASSUME TableAssumption ==
    /\ kInitialCapacity \in PowersOf2 /\ kInitialCapacity >= 4
    /\ Hash \in [Strings -> Nat]
ASSUME NoSymbolAssumption == NoSymbol \notin Nat /\ NoSymbol \notin Strings
ASSUME SymbolBoundsAssumption == MaxSymbols \in Nat /\ MaxNonEmpty \in Nat

VARIABLES
    lookupVector,     \* entries, the first one has the index 0
    firstFreeID,
    table,            \* hashTable_: Empty, Deleted or an index, from 0 on
    symbolCount,      \* its size_
    nonEmptyCount,    \* its nonEmptyEntryCount_
    uniqueID,         \* of each StringPrimitive that is uniqued, else NoSymbol
    creating,         \* a string that has been looked up, and where it will go
    roots,            \* the symbols that the program has
    slot, weakSym,    \* the symbol in each slot, and a WeakRootSymbolID
    marking,          \* ogMarkingBarriers_
    markedSymbols, writeBarrierMarkedSymbols,
    symbolsEnd,       \* their size
    scanned           \* the slots that the marker has visited

hashVars == <<table, symbolCount, nonEmptyCount>>
vectorVars == <<lookupVector, firstFreeID, uniqueID>>
programVars == <<creating, roots, slot, weakSym>>
markVars == <<marking, markedSymbols, symbolsEnd, scanned>>
symbolVars == <<hashVars, vectorVars, programVars, markVars,
                writeBarrierMarkedSymbols>>

\* Numbers that are no index.
Empty == MaxSymbols
Deleted == MaxSymbols + 1
End == MaxSymbols     \* FREE_LIST_END

Entry(id) == lookupVector[id + 1]
Ids == 0 .. Len(lookupVector) - 1
IsFree(id) == Entry(id).kind = "free"

------------------------------------------------------------------------------
(* IdentifierHashTable.                                                       *)

\* The i-th place to look at for s, in a table of c entries.
Probe(s, i, c) == (Hash[s] + (i * (i + 1)) \div 2) % c

Valid(T, at) == T[at] \notin {Empty, Deleted}

\* Does lookupString(s) stop at this place of table T, in vector V?
StopsAt(T, V, s, at) ==
    T[at] = Empty \/ (Valid(T, at) /\ V[T[at] + 1].str = s)

\* Mutant: the place of a symbol that was freed ends the chain.
LookupString_StopsAtDeleted(T, V, s) ==
    LET c == Cardinality(DOMAIN T)
        n == CHOOSE i \in 0..c - 1 :
               /\ StopsAt(T, V, s, Probe(s, i, c)) \/ T[Probe(s, i, c)] = Deleted
               /\ \A j \in 0..i - 1 : ~StopsAt(T, V, s, Probe(s, j, c))
                                        /\ T[Probe(s, j, c)] # Deleted
    IN Probe(s, n, c)

\* lookupString(): the place of s, or where to insert it, which is the last
\* deleted place on the way if there is one.
LookupString(T, V, s) ==
    LET c == Cardinality(DOMAIN T)
        n == CHOOSE i \in 0..c - 1 :
               /\ StopsAt(T, V, s, Probe(s, i, c))
               /\ \A j \in 0..i - 1 : ~StopsAt(T, V, s, Probe(s, j, c))
        deleted == {j \in 0..n - 1 : T[Probe(s, j, c)] = Deleted}
    IN IF T[Probe(s, n, c)] = Empty /\ deleted # {}
       THEN Probe(s, CHOOSE j \in deleted : \A k \in deleted : k <= j, c)
       ELSE Probe(s, n, c)

IdOf(s) == table[LookupString(table, lookupVector, s)]
IsKnown(s) == Valid(table, LookupString(table, lookupVector, s))

\* growAndRehash(): the valid entries in the order of the old table.
Place(T, V, id) == [T EXCEPT ![LookupString(T, V, V[id + 1].str)] = id]
Rehash(T, V, c) ==
    LET after[n \in 0..Cardinality(DOMAIN T)] ==
          IF n = 0 THEN [at \in 0..c - 1 |-> Empty]
          ELSE IF Valid(T, n - 1) THEN Place(after[n - 1], V, T[n - 1])
          ELSE after[n - 1]
    IN after[Cardinality(DOMAIN T)]

Capacity == Cardinality(DOMAIN table)

ShouldGrow(n) == Capacity - Capacity \div 4 < n

\* insert() of symbol id, whose entry is in V.  An entry in a deleted place counts
\* as one more that is not empty.
Insert(at, id, V) ==
    LET T == [table EXCEPT ![at] = id] IN
    /\ nonEmptyCount <= MaxNonEmpty
    /\ symbolCount' = symbolCount + 1
    /\ IF ShouldGrow(nonEmptyCount + 1)
       THEN /\ table' = Rehash(T, V, Capacity * 2)
            /\ nonEmptyCount' = symbolCount + 1
       ELSE table' = T /\ nonEmptyCount' = nonEmptyCount + 1

------------------------------------------------------------------------------
(* Creating symbols.                                                          *)

\* weakRefReadBarrier(), symbolAllocationBarrier() and, for a slot's old value,
\* snapshotWriteBarrier().
Barrier(id) ==
    writeBarrierMarkedSymbols' =
        IF marking /\ id # NoSymbol /\ id < symbolsEnd
        THEN writeBarrierMarkedSymbols \cup {id} ELSE writeBarrierMarkedSymbols

\* allocNextID(), and the entry e that the caller puts there.
NextID == IF firstFreeID = End THEN Len(lookupVector) ELSE firstFreeID
With(e) == IF firstFreeID = End THEN Append(lookupVector, e)
           ELSE [lookupVector EXCEPT ![firstFreeID + 1] = e]
AllocNextID(e) ==
    /\ NextID < MaxSymbols
    /\ lookupVector' = With(e)
    /\ firstFreeID' = IF firstFreeID = End THEN End ELSE Entry(firstFreeID).next
    /\ roots' = roots \cup {NextID}

New(kind, s) == [kind |-> kind, str |-> s, next |-> End]

\* getOrCreateIdentifier() and registerLazyIdentifier() of a string that has a
\* symbol, getUniqueID() of a string that is uniqued.
GetSymbol(s) ==
    /\ creating = NoSymbol
    /\ \E id \in (IF IsKnown(s) THEN {IdOf(s)} ELSE {}) \cup ({uniqueID[s]} \ {NoSymbol}) :
         roots' = roots \cup {id} /\ Barrier(id)
    /\ UNCHANGED <<hashVars, vectorVars, creating, slot, weakSym, markVars>>

\* getOrCreateIdentifier() of another string allocates a StringPrimitive, during
\* which a collection may begin and complete ...
LookupMisses(s) ==
    /\ creating = NoSymbol /\ ~IsKnown(s)
    /\ creating' = [str |-> s, at |-> LookupString(table, lookupVector, s)]
    /\ UNCHANGED <<hashVars, vectorVars, roots, slot, weakSym, markVars,
                   writeBarrierMarkedSymbols>>

\* Mutant: a symbol that is created during marking is not marked.
AllocationBarrier_None(id) == UNCHANGED writeBarrierMarkedSymbols
AllocationBarrier(id) == Barrier(id)

\* ... and inserts it in the place found before: allocIDAndInsert().
AllocIDAndInsert ==
    /\ creating # NoSymbol /\ creating' = NoSymbol
    /\ LET e == New("prim", creating.str) IN
         AllocNextID(e) /\ Insert(creating.at, NextID, With(e))
    /\ AllocationBarrier(NextID)
    /\ uniqueID' = [uniqueID EXCEPT ![creating.str] = NextID]
    /\ UNCHANGED <<slot, weakSym, markVars>>

\* registerLazyIdentifierImpl() of another string.
RegisterLazy(s) ==
    /\ creating = NoSymbol /\ ~IsKnown(s)
    /\ LET e == New("lazy", s) IN
         AllocNextID(e) /\ Insert(LookupString(table, lookupVector, s), NextID, With(e))
    /\ UNCHANGED <<uniqueID, creating, slot, weakSym, markVars,
                   writeBarrierMarkedSymbols>>

\* createNotUniquedSymbol(); its string is no unique one.
CreateNotUniqued ==
    /\ creating = NoSymbol
    /\ AllocNextID(New("prim", NoSymbol)) /\ AllocationBarrier(NextID)
    /\ UNCHANGED <<hashVars, uniqueID, creating, slot, weakSym, markVars>>

\* materializeLazyIdentifier().
Materialize(id) ==
    /\ creating = NoSymbol /\ Entry(id).kind = "lazy"
    /\ lookupVector' = [lookupVector EXCEPT ![id + 1].kind = "lazyPrim"]
    /\ uniqueID' = [uniqueID EXCEPT ![Entry(id).str] = id]
    /\ UNCHANGED <<hashVars, firstFreeID, programVars, markVars,
                   writeBarrierMarkedSymbols>>

------------------------------------------------------------------------------
(* What the program does with symbols.                                        *)

StoreSlot(o, id) ==
    /\ creating = NoSymbol
    /\ slot' = [slot EXCEPT ![o] = id] /\ Barrier(slot[o])
    /\ UNCHANGED <<hashVars, vectorVars, creating, roots, weakSym, markVars>>
LoadSlot(o) ==
    /\ creating = NoSymbol /\ slot[o] # NoSymbol
    /\ roots' = roots \cup {slot[o]}
    /\ UNCHANGED <<hashVars, vectorVars, creating, slot, weakSym, markVars,
                   writeBarrierMarkedSymbols>>
StoreWeak(id) ==
    /\ creating = NoSymbol /\ weakSym' = id
    /\ UNCHANGED <<hashVars, vectorVars, creating, roots, slot, markVars,
                   writeBarrierMarkedSymbols>>

\* Mutant: WeakRootSymbolID::get() has no barrier.
ReadBarrier_None(id) == UNCHANGED writeBarrierMarkedSymbols
ReadBarrier(id) == Barrier(id)
LoadWeak ==
    /\ creating = NoSymbol /\ weakSym # NoSymbol
    /\ roots' = roots \cup {weakSym} /\ ReadBarrier(weakSym)
    /\ UNCHANGED <<hashVars, vectorVars, creating, slot, weakSym, markVars>>
DropRoots ==
    /\ creating = NoSymbol /\ roots' = {}
    /\ UNCHANGED <<hashVars, vectorVars, creating, slot, weakSym, markVars,
                   writeBarrierMarkedSymbols>>

------------------------------------------------------------------------------
(* The collector.                                                             *)

\* oldGenCollection(): the roots are marked at once, and the size is that of now.
StartMarking ==
    /\ ~marking /\ marking' = TRUE
    /\ symbolsEnd' = Len(lookupVector) /\ markedSymbols' = roots
    /\ writeBarrierMarkedSymbols' = {} /\ scanned' = {}
    /\ UNCHANGED <<hashVars, vectorVars, programVars>>

\* The marker comes to a slot: acceptSym().
ScanSlot(o) ==
    /\ marking /\ o \notin scanned /\ scanned' = scanned \cup {o}
    /\ markedSymbols' = IF slot[o] # NoSymbol /\ slot[o] < symbolsEnd
                        THEN markedSymbols \cup {slot[o]} ELSE markedSymbols
    /\ UNCHANGED <<hashVars, vectorVars, programVars, marking, symbolsEnd,
                   writeBarrierMarkedSymbols>>

\* freeSymbol(): the string is not uniqued any more and the entry is on the list.
\* Mutant: it stays in the hash table.
Removed_Not(S, id) == S.table
Removed(S, id) ==
    LET s == S.vector[id + 1].str
    IN IF s = NoSymbol THEN S.table
       ELSE [S.table EXCEPT ![LookupString(S.table, S.vector, s)] = Deleted]
FreeSymbol(S, id) ==
    [table  |-> Removed(S, id),
     vector |-> [S.vector EXCEPT ![id + 1] =
                   [kind |-> "free", str |-> NoSymbol, next |-> S.first]],
     first  |-> id,
     unique |-> [s \in Strings |-> IF S.unique[s] = id THEN NoSymbol ELSE S.unique[s]]]

\* freeUnmarkedSymbols(): in the order of the vector, but never a lazy one.
UnmarkedSymbols ==
    {id \in 0..symbolsEnd - 1 : id \notin markedSymbols \cup writeBarrierMarkedSymbols}
Freed == {id \in UnmarkedSymbols : Entry(id).kind = "prim"}
Symbols == [table |-> table, vector |-> lookupVector,
            first |-> firstFreeID, unique |-> uniqueID]
FreeUnmarkedSymbols ==
    LET after[n \in 0..symbolsEnd] ==
          IF n = 0 THEN Symbols
          ELSE IF n - 1 \in Freed THEN FreeSymbol(after[n - 1], n - 1)
          ELSE after[n - 1]
    IN after[symbolsEnd]

\* completeMarking(): the symbols are freed, and the weak root is emptied if its
\* symbol was; one that is kept though unmarked, a lazy one, stays there.
CompleteSymbolMarking ==
    /\ marking /\ scanned = Slots /\ marking' = FALSE
    /\ LET S == FreeUnmarkedSymbols IN
         /\ table' = S.table /\ lookupVector' = S.vector
         /\ firstFreeID' = S.first /\ uniqueID' = S.unique
    /\ symbolCount' =
         symbolCount - Cardinality({id \in Freed : Entry(id).str # NoSymbol})
    /\ weakSym' = IF weakSym # NoSymbol /\ weakSym \in Freed THEN NoSymbol ELSE weakSym
    /\ markedSymbols' = {} /\ writeBarrierMarkedSymbols' = {}
    /\ symbolsEnd' = 0 /\ scanned' = {}
    /\ UNCHANGED <<nonEmptyCount, creating, roots, slot>>

------------------------------------------------------------------------------
SymbolInit ==
    /\ lookupVector = <<>> /\ firstFreeID = End
    /\ table = [at \in 0..kInitialCapacity - 1 |-> Empty]
    /\ symbolCount = 0 /\ nonEmptyCount = 0
    /\ uniqueID = [s \in Strings |-> NoSymbol]
    /\ creating = NoSymbol /\ roots = {}
    /\ slot = [o \in Slots |-> NoSymbol] /\ weakSym = NoSymbol
    /\ marking = FALSE /\ markedSymbols = {} /\ writeBarrierMarkedSymbols = {}
    /\ symbolsEnd = 0 /\ scanned = {}

SymbolNext ==
    \/ \E s \in Strings : GetSymbol(s) \/ LookupMisses(s) \/ RegisterLazy(s)
    \/ AllocIDAndInsert \/ CreateNotUniqued
    \/ \E id \in roots : Materialize(id) \/ StoreWeak(id)
    \/ \E o \in Slots : LoadSlot(o) \/ \E id \in roots \cup {NoSymbol} : StoreSlot(o, id)
    \/ LoadWeak \/ DropRoots
    \/ StartMarking \/ (\E o \in Slots : ScanSlot(o)) \/ CompleteSymbolMarking

SymbolSpec == SymbolInit /\ [][SymbolNext]_symbolVars

------------------------------------------------------------------------------
\* A symbol that the program has, or can get from a slot, a weak root or a uniqued
\* string, is not freed, however looking it up, creating it and storing it are
\* interleaved with marking (getOrCreateIdentifier, acceptSym, completeMarking).
SymbolsLive ==
    \A id \in roots \cup {slot[o] : o \in Slots} \cup {weakSym}
                \cup {uniqueID[s] : s \in Strings} :
        id # NoSymbol => id \in Ids /\ ~IsFree(id)

\* The list of free indices has each free entry once and ends, and size_ is the
\* number of uniqued symbols (allocNextID, freeID, freeSymbol).
IndicesAccounted ==
    LET free == {id \in Ids : IsFree(id)}
        list[n \in 0..Cardinality(free)] ==
            IF n = 0 THEN firstFreeID
            ELSE IF list[n - 1] = End THEN End ELSE Entry(list[n - 1]).next
    IN /\ {list[n] : n \in 0..Cardinality(free)} = free \cup {End}
       /\ symbolCount = Cardinality({at \in DOMAIN table : Valid(table, at)})

\* Equal strings have one symbol, and the hash table finds it: also when symbols
\* were freed on its chain of probes, and when they were freed between the lookup
\* and the insertion of a new one.  Probing ends, as "the hash table can never be
\* full" (lookupString, insert, freeSymbol, growAndRehash).
SymbolFound ==
    /\ IndicesAccounted
    /\ \E at \in DOMAIN table : table[at] = Empty
    /\ \A s \in Strings :
         LET ids == {id \in Ids : Entry(id).str = s} IN
         /\ Cardinality(ids) <= 1
         /\ IF ids = {} THEN ~IsKnown(s) ELSE IsKnown(s) /\ IdOf(s) \in ids
    /\ creating # NoSymbol => ~Valid(table, creating.at)
==============================================================================
