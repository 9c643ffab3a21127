---------------------------- MODULE OrderedHashMap ----------------------------
(* OrderedHashMapBase, the table behind Map and Set: a hash table of indices  *)
(* into a data table in insertion order, whose deleted entries stay until a   *)
(* rehash, and the indices of the iterators, which rehash and clear update.   *)
(*                                                                            *)
(* Each operation is one step: JavaScript runs between the steps of an        *)
(* iteration (the callback of forEach, the body of a for-of loop) but not     *)
(* inside of them.  An entry takes one place in the data table here whether   *)
(* it has one element (Set) or two (Map).                                     *)
EXTENDS Naturals, Sequences, FiniteSets

CONSTANTS
    Keys, Values, Iterators,
    Free, Done,             \* an index that is free, and one whose iterator ended
    Hash,                   \* gcStableHashHermesValue of each key
    kInitialCapacity,       \* 2 or more
    kMaxCapacity,
    StorageMayFail,         \* may a data table be refused, as a large object can be?
    MaxCredited             \* bound: no clear() when more memory than this is credited

Empty == <<>>               \* a deleted entry
Indices == [value : Nat, first : BOOLEAN]

ASSUME CapacityAssumption ==
    /\ kInitialCapacity \in Nat /\ kInitialCapacity > 1
    /\ kMaxCapacity \in Nat /\ kInitialCapacity <= kMaxCapacity
ASSUME StorageAssumption == StorageMayFail \in BOOLEAN
ASSUME HashAssumption == Hash \in [Keys -> Nat]
ASSUME IndexAssumption ==
    Free # Done /\ \A x \in {Free, Done} : x \notin Indices /\ x \notin Nat

VARIABLES
    hashTable, dataTable, capacity, size, deletedCount,
    iteratorIndices,        \* each Free, Done or [value, first]
    credited                \* external memory, in elements of the hash table

tableVars == <<hashTable, dataTable, capacity, size, deletedCount, credited>>
vars == <<tableVars, iteratorIndices>>

kHashTableElementUnused == kMaxCapacity + 1
kHashTableElementDeleted == kMaxCapacity + 2

shouldShrink(c, n) == n <= c \div 8 /\ c > kInitialCapacity

\* Mutated form: one entry too late.
rehashThreshold_Late(c) == c \div 2 + 1
rehashThreshold(c) == c \div 2

Active(i) == iteratorIndices[i] \notin {Free, Done}

------------------------------------------------------------------------------
(* Tables.                                                                    *)

Table == [hash |-> hashTable, data |-> dataTable, capacity |-> capacity]

\* "Inconsistent capacity" is the assertion of every lookup: after a rehash that
\* failed, the next operation on a key does not begin.
Consistent == DOMAIN hashTable = 0..(capacity - 1)

EmptyTable(c) ==
    [hash |-> [b \in 0..(c - 1) |-> kHashTableElementUnused],
     data |-> <<>>, capacity |-> c]

\* Does probing for k stop at bucket b?  Mutated form: at a deleted one as well.
StopsAt_Deleted(T, k, b) ==
    \/ T.hash[b] \in {kHashTableElementUnused, kHashTableElementDeleted}
    \/ T.data[T.hash[b] + 1][1] = k
StopsAt(T, k, b) ==
    \/ T.hash[b] = kHashTableElementUnused
    \/ T.hash[b] # kHashTableElementDeleted /\ T.data[T.hash[b] + 1][1] = k

\* The bucket at which lookupInBucket() stops; it must not wrap around.
Probed(T, k, n) == (Hash[k] + n) % T.capacity
Stops(T, k) == {n \in 0..(T.capacity - 1) : StopsAt(T, k, Probed(T, k, n))}
LookupInBucket(T, k) ==
    Probed(T, k, CHOOSE n \in Stops(T, k) : \A m \in Stops(T, k) : n <= m)

Has(k) == hashTable[LookupInBucket(Table, k)] # kHashTableElementUnused

\* A new entry behind the others.
Push(T, e) ==
    [T EXCEPT !.hash[LookupInBucket(T, e[1])] = Len(T.data), !.data = Append(@, e)]

\* The entry of k has become empty.
DeleteBucket(k) ==
    LET b == LookupInBucket(Table, k) IN
    [Table EXCEPT !.hash[b] = kHashTableElementDeleted,
                  !.data[hashTable[b] + 1] = Empty]

\* A table of capacity c with the entries of T that are not deleted, one by one.
Rehashed(T, c) ==
    LET after[n \in 0..Len(T.data)] ==
          IF n = 0 THEN EmptyTable(c)
          ELSE IF T.data[n] = Empty THEN after[n - 1]
          ELSE Push(after[n - 1], T.data[n])
    IN after[Len(T.data)]

\* Deleted entries at or before an iterator's (std::upper_bound).  Mutated form:
\* only those before it (std::lower_bound).
NumDeleted_Before(data, value) ==
    Cardinality({j \in DOMAIN data : j <= value /\ data[j] = Empty})
NumDeleted(data, value) ==
    Cardinality({j \in DOMAIN data : j <= value + 1 /\ data[j] = Empty})

UpdateIndex(data, index) ==
    LET d == NumDeleted(data, index.value) IN
    IF d = index.value + 1 THEN [value |-> 0, first |-> TRUE]
    ELSE [index EXCEPT !.value = @ - d]

------------------------------------------------------------------------------
(* Operations.                                                                *)

checkedNextCapacity(n) ==
    IF shouldShrink(capacity, n) THEN capacity \div 2 ELSE capacity * 2

Install(T) ==
    hashTable' = T.hash /\ dataTable' = T.data /\ capacity' = T.capacity

\* What a rehash of a table with these entries does besides: the iterators are
\* adjusted and the external memory changes with the hash table.
UpdateForRehash(data, c) ==
    /\ iteratorIndices' = [i \in Iterators |->
         IF Active(i) THEN UpdateIndex(data, iteratorIndices[i])
                      ELSE iteratorIndices[i]]
    /\ deletedCount' = 0
    /\ credited' = credited + c - Cardinality(DOMAIN hashTable)

\* A rehash whose data table cannot be allocated has set the capacity and
\* credited the memory of the new hash table, which is thrown away.
FailedRehash(c) ==
    /\ StorageMayFail
    /\ capacity' = c /\ credited' = credited + c
    /\ UNCHANGED iteratorIndices

\* insert() of a key that is there.
InsertExisting(k, v) ==
    /\ Consistent /\ Has(k)
    /\ dataTable' = [dataTable EXCEPT
                       ![hashTable[LookupInBucket(Table, k)] + 1] = <<k, v>>]
    /\ UNCHANGED <<hashTable, capacity, size, deletedCount, credited,
                   iteratorIndices>>

\* insert() of a new key, with room for it, or after a rehash; it raises a
\* RangeError and changes nothing if the map is full.
HasRoom == size + deletedCount < rehashThreshold(capacity)
Insert(k, v) ==
    /\ Consistent /\ ~Has(k)
    /\ size' = size + 1
    /\ IF HasRoom
       THEN /\ Install(Push(Table, <<k, v>>))
            /\ UNCHANGED <<deletedCount, credited, iteratorIndices>>
       ELSE LET c == checkedNextCapacity(size + 1) IN
            /\ c <= kMaxCapacity
            /\ Install(Push(Rehashed(Table, c), <<k, v>>))
            /\ UpdateForRehash(dataTable, c)

\* The rehash fails, and the insertion with it.
InsertFails(k) ==
    /\ Consistent /\ ~Has(k) /\ ~HasRoom
    /\ checkedNextCapacity(size + 1) <= kMaxCapacity
    /\ FailedRehash(checkedNextCapacity(size + 1))
    /\ UNCHANGED <<hashTable, dataTable, size, deletedCount>>

\* Mutated form: a rehash does not know of the entry just deleted.
EraseAndShrink_OldData(T, c) ==
    Install(Rehashed(T, c)) /\ UpdateForRehash(dataTable, c)
EraseAndShrink(T, c) == Install(Rehashed(T, c)) /\ UpdateForRehash(T.data, c)

\* The result of the rehash is ignored: the entry is deleted in the old tables.
EraseOnly(T, c) ==
    /\ hashTable' = T.hash /\ dataTable' = T.data /\ deletedCount' = deletedCount + 1
    /\ FailedRehash(c)

Erase(k) ==
    /\ Consistent /\ Has(k)
    /\ size' = size - 1
    /\ LET T == DeleteBucket(k)
           c == checkedNextCapacity(size - 1) IN
         IF shouldShrink(capacity, size - 1)
         THEN EraseAndShrink(T, c) \/ EraseOnly(T, c)
         ELSE /\ Install(T) /\ deletedCount' = deletedCount + 1
              /\ UNCHANGED <<credited, iteratorIndices>>

ResetIndices ==
    iteratorIndices' = [i \in Iterators |->
        IF Active(i) THEN [value |-> 0, first |-> TRUE] ELSE iteratorIndices[i]]

\* clear(): the hash table is replaced by one of the initial size.
Clear ==
    /\ credited <= MaxCredited /\ size + deletedCount > 0
    /\ Install(EmptyTable(kInitialCapacity)) /\ ResetIndices
    /\ size' = 0 /\ deletedCount' = 0
    /\ UNCHANGED credited

------------------------------------------------------------------------------
(* Iterators.                                                                 *)

NewIterator(i) ==
    /\ ~Active(i)
    /\ iteratorIndices' = [iteratorIndices EXCEPT ![i] = [value |-> 0, first |-> TRUE]]
    /\ UNCHANGED tableVars

\* advanceIterator() to the next entry that is not deleted; at the end forEach()
\* and nextElement() free the index.
AdvanceIterator(i) ==
    /\ Active(i)
    /\ LET index == iteratorIndices[i]
           from == IF index.first THEN 0 ELSE index.value + 1
           found == {j \in from..(size + deletedCount - 1) : dataTable[j + 1] # Empty}
       IN iteratorIndices' = [iteratorIndices EXCEPT ![i] =
            IF found = {} THEN Done
            ELSE [value |-> CHOOSE j \in found : \A m \in found : j <= m,
                  first |-> FALSE]]
    /\ UNCHANGED tableVars

\* The index of an iterator that is given up is freed by a destructor or, when
\* the iterator object is garbage, by its finalizer.
FreeIterator(i) ==
    /\ Active(i) /\ iteratorIndices' = [iteratorIndices EXCEPT ![i] = Free]
    /\ UNCHANGED tableVars

------------------------------------------------------------------------------
Init ==
    /\ hashTable = [b \in 0..(kInitialCapacity - 1) |-> kHashTableElementUnused]
    /\ dataTable = <<>> /\ capacity = kInitialCapacity
    /\ size = 0 /\ deletedCount = 0 /\ credited = kInitialCapacity
    /\ iteratorIndices = [i \in Iterators |-> Free]

Next ==
    \/ \E k \in Keys, v \in Values : InsertExisting(k, v) \/ Insert(k, v)
    \/ \E k \in Keys : InsertFails(k) \/ Erase(k)
    \/ Clear
    \/ \E i \in Iterators : NewIterator(i) \/ AdvanceIterator(i) \/ FreeIterator(i)

Spec == Init /\ [][Next]_vars

------------------------------------------------------------------------------
(* Properties.                                                                *)

Live == {j \in DOMAIN dataTable : dataTable[j] # Empty}

\* The counters are what they count, and the index of an iterator that has
\* visited an entry is inside the data table.
CountersExact ==
    /\ dataTable \in Seq((Keys \X Values) \cup {Empty})
    /\ size = Cardinality(Live) /\ size + deletedCount = Len(dataTable)
    /\ \A i \in Iterators : Active(i) =>
         /\ iteratorIndices[i] \in Indices
         /\ iteratorIndices[i].first \/ iteratorIndices[i].value < Len(dataTable)

\* "Data table should always have enough capacity", and probing for any key,
\* past deleted buckets and those of other keys, ends before it wraps around.
RoomLeft ==
    /\ capacity \in kInitialCapacity..kMaxCapacity
    /\ Len(dataTable) <= rehashThreshold(capacity)
    /\ \A k \in Keys : Stops(Table, k) # {}

\* has() and get() find a key exactly if there is an entry for it, and that
\* entry: the hash table and the data table agree, no key has two entries, and
\* probing ends (lookupInBucket, insert, erase, rehash).  When a rehash has
\* failed, which no lookup survives, the counters and the iterators are still
\* right, and clear() puts the rest right again.
FoundExactly(k) ==
    LET found == {j \in Live : dataTable[j][1] = k} IN
    IF Has(k) THEN found = {hashTable[LookupInBucket(Table, k)] + 1}
              ELSE found = {}
LookupExact ==
    /\ CountersExact
    /\ Consistent => RoomLeft /\ \A k \in Keys : FoundExactly(k)

\* "Inconsistent capacity", the assertion of lookupInBucket().  A rehash that
\* fails breaks it, so no run checks it (README, 13).
ConsistentCapacity == Consistent

\* For every iterator, and through every rehash, shrinking and clearing: each
\* entry is visited in the order of insertion, none twice, and none is left out.
Entries(data) ==
    LET upTo[n \in 0..Len(data)] ==
          IF n = 0 THEN <<>>
          ELSE IF data[n] = Empty THEN upTo[n - 1] ELSE Append(upTo[n - 1], data[n])
    IN upTo[Len(data)]
Behind(i) ==
    IF ~Active(i) THEN iteratorIndices[i]
    ELSE IF iteratorIndices[i].first THEN 0
    ELSE Cardinality({j \in Live : j <= iteratorIndices[i].value + 1})
Map == INSTANCE OrderedMap WITH
         entries <- Entries(dataTable),
         pos <- [i \in Iterators |-> Behind(i)]
ImplementsOrderedMap == Map!Spec

\* The collector is told of exactly the external memory that the map owns: what
\* is credited now is what cleanUp() debits when the map dies.  clear() breaks it,
\* so no run checks it (README, 13).
ExternalMemoryExact == credited = Cardinality(DOMAIN hashTable)
==============================================================================
