------------------------ MODULE FinalizationRegistry ------------------------
(* One FinalizationRegistry of the program: the array of records with the     *)
(* free list embedded in it, and cleanup(), which calls back into the         *)
(* program, which may register and unregister in the middle of the loop.      *)
(* lib/VM/JSFinalizationRegistry.cpp.                                         *)
(*                                                                            *)
(* An array is a sequence, so indices start at 1; 0 stands for no index.      *)
(* There are as many registrations as there are Records.                      *)
EXTENDS Integers, Sequences, FiniteSets, FiniteSetsExt

CONSTANTS
    Records,            \* registrations, each with its target
    Tokens,             \* objects used as unregister tokens
    None,               \* no token, or one that has been collected
    kInitCapacity,
    IndexRange,         \* StorageIndex is unsigned and wraps around here
    UnregistersDetached, \* may a callback unregister when the array was replaced
                         \* since the loop began?
    GrowthMayFail        \* may a larger array be refused?

ASSUME RecordsAssumption ==
    /\ IsFiniteSet(Records) /\ \A r \in Records : r \notin Nat
    /\ None \notin Tokens
ASSUME SizeAssumption ==
    /\ kInitCapacity \in Nat \ {0}
    /\ IndexRange \in Nat /\ Cardinality(Records) < IndexRange
ASSUME CallbackAssumption == UnregistersDetached \in BOOLEAN
ASSUME GrowthAssumption == GrowthMayFail \in BOOLEAN

VARIABLES
    cells, capacity,    \* cells_; it is null while capacity is 0
    nextFree,           \* nextFree_, 0 if there is none
    numUsedCells,       \* numUsedCells_
    pc,                 \* where cleanup() is: "idle", "loop" or "callback"
    i,                  \* its loop index
    detached,           \* has cells_ been replaced since the loop began?
    lvCells,            \* then, lv.cells: the array that the loop still reads
    token,              \* the unregisterToken of each record
    dead,               \* records whose target has been collected
    registered, unregistered,   \* history: records that have been ...
    called,             \* ... and how often the callback got a record's value
    failed,             \* registrations that ended with an exception
    due                 \* records that the running cleanup has to call back

arrayVars == <<cells, capacity, nextFree, numUsedCells>>
loopVars == <<pc, i, detached, lvCells, due>>
historyVars == <<registered, unregistered, called, failed>>
vars == <<arrayVars, loopVars, token, dead, historyVars>>

\* The program runs outside of cleanup() and in its callbacks.
ProgramRuns == pc \in {"idle", "callback"}

------------------------------------------------------------------------------
(* The free list: a free slot holds the index of the next one, the last one   *)
(* its own.                                                                   *)

UsedSlots == {j \in 1 .. Len(cells) : cells[j] \in Records}

\* free() of the slots J in ascending order.  Mutated form: the end of the list
\* is not marked.
FreedSlot_NoEndMark(j, J) ==
    IF \E k \in J : k < j THEN Max({k \in J : k < j}) ELSE nextFree
FreedSlot(j, J) ==
    IF \E k \in J : k < j THEN Max({k \in J : k < j})
    ELSE IF nextFree # 0 THEN nextFree ELSE j

\* Mutated form: one call frees several slots but counts one.
Free_CountsOnce(J) ==
    /\ cells' = [j \in 1 .. Len(cells) |->
                    IF j \in J THEN FreedSlot(j, J) ELSE cells[j]]
    /\ nextFree' = IF J = {} THEN nextFree ELSE Max(J)
    /\ numUsedCells' = (numUsedCells - Min({1, Cardinality(J)})) % IndexRange
    /\ UNCHANGED capacity
Free(J) ==
    /\ cells' = [j \in 1 .. Len(cells) |->
                    IF j \in J THEN FreedSlot(j, J) ELSE cells[j]]
    /\ nextFree' = IF J = {} THEN nextFree ELSE Max(J)
    /\ numUsedCells' = (numUsedCells - Cardinality(J)) % IndexRange
    /\ UNCHANGED capacity

\* useFreeIndex() and the store into the slot it returns.
UseFreeIndex(r) ==
    /\ nextFree # 0
    /\ nextFree' = IF cells[nextFree] = nextFree THEN 0 ELSE cells[nextFree]
    /\ cells' = [cells EXCEPT ![nextFree] = r]
    /\ UNCHANGED <<capacity, detached, lvCells>>

\* push_back while there is capacity; the first registration creates the array.
PushWithinCapacity(r) ==
    /\ nextFree = 0 /\ (capacity = 0 \/ Len(cells) < capacity)
    /\ capacity' = IF capacity = 0 THEN kInitCapacity ELSE capacity
    /\ cells' = Append(cells, r)
    /\ UNCHANGED <<nextFree, detached, lvCells>>

\* push_back into a new array of twice the capacity.  A cleanup that is under
\* way keeps the old one, whose contents do not change any more.
PushGrowing(r) ==
    /\ nextFree = 0 /\ capacity # 0 /\ Len(cells) = capacity
    /\ capacity' = 2 * capacity
    /\ cells' = Append(cells, r)
    /\ IF pc = "callback" /\ ~detached
       THEN detached' = TRUE /\ lvCells' = cells
       ELSE UNCHANGED <<detached, lvCells>>
    /\ UNCHANGED nextFree

------------------------------------------------------------------------------
(* The program.                                                               *)

\* register(target, heldValue, token); the target is alive.
RegisterCell(r, t) ==
    /\ ProgramRuns /\ r \notin registered \cup failed
    /\ registered' = registered \cup {r}
    /\ token' = [token EXCEPT ![r] = t]
    /\ numUsedCells' = (numUsedCells + 1) % IndexRange
    /\ UseFreeIndex(r) \/ PushWithinCapacity(r) \/ PushGrowing(r)
    /\ UNCHANGED <<pc, i, due, dead, unregistered, called, failed>>

\* Or the array cannot grow: register() throws, the record is nowhere, but it
\* has been counted.
RegisterFails(r) ==
    /\ GrowthMayFail /\ ProgramRuns /\ r \notin registered \cup failed
    /\ nextFree = 0 /\ capacity # 0 /\ Len(cells) = capacity
    /\ numUsedCells' = (numUsedCells + 1) % IndexRange
    /\ failed' = failed \cup {r}
    /\ UNCHANGED <<cells, capacity, nextFree, loopVars, token, dead,
                   registered, unregistered, called>>

\* unregister(token) frees all slots whose record has the token.
Matching(t) == {j \in UsedSlots : token[cells[j]] = t}
UnregisterCells(t) ==
    /\ ProgramRuns /\ (detached => UnregistersDetached)
    /\ Free(Matching(t))
    /\ unregistered' = unregistered \cup {cells[j] : j \in Matching(t)}
    /\ UNCHANGED <<loopVars, token, dead, registered, called, failed>>

\* Garbage collections while the program runs: a target dies ...
TargetDies(r) ==
    /\ ProgramRuns /\ r \in registered \ dead
    /\ dead' = dead \cup {r}
    /\ UNCHANGED <<arrayVars, loopVars, token, historyVars>>

\* ... or a token does; a later object may be the same token to compare with.
TokenDies(t) ==
    /\ ProgramRuns /\ \E r \in Records : token[r] = t
    /\ token' = [r \in Records |-> IF token[r] = t THEN None ELSE token[r]]
    /\ UNCHANGED <<arrayVars, loopVars, dead, historyVars>>

------------------------------------------------------------------------------
(* cleanup().                                                                 *)

\* A microtask checkpoint calls cleanup(); lv.cells = cells_.
StartCleanup ==
    /\ pc = "idle" /\ capacity # 0
    /\ pc' = "loop" /\ i' = 1
    /\ detached' = FALSE /\ lvCells' = <<>>
    /\ due' = {r \in registered \cap dead : r \notin unregistered /\ called[r] = 0}
    /\ UNCHANGED <<arrayVars, token, dead, historyVars>>

LoopCells == IF detached THEN lvCells ELSE cells

\* ++i.  Mutated form: the index moves on twice after a callback.
NextIndex_SkipsOne == IF pc = "callback" THEN i + 2 ELSE i + 1
NextIndex == i + 1

IsDue(slot) == slot \in Records /\ slot \in dead

\* "This element may be unregistered or cleaned up before."
SkipElement ==
    /\ pc = "loop" /\ i <= Len(LoopCells) /\ ~IsDue(LoopCells[i])
    /\ i' = NextIndex
    /\ UNCHANGED <<arrayVars, pc, detached, lvCells, due, token, dead, historyVars>>

\* Free the record, then call back with its held value.  Mutated form: the
\* slot keeps the record.
FreeDead_Not == UNCHANGED arrayVars
FreeDead == Free({i})

CallBack ==
    /\ pc = "loop" /\ i <= Len(LoopCells) /\ IsDue(LoopCells[i])
    /\ FreeDead
    /\ called' = [called EXCEPT ![LoopCells[i]] = @ + 1]
    /\ pc' = "callback"
    /\ UNCHANGED <<i, detached, lvCells, due, token, dead,
                   registered, unregistered, failed>>

CallbackReturns ==
    /\ pc = "callback" /\ pc' = "loop" /\ i' = NextIndex
    /\ UNCHANGED <<arrayVars, detached, lvCells, due, token, dead, historyVars>>

\* cleanup() is over, with an exception or not.
LeaveCleanup ==
    /\ pc' = "idle" /\ i' = 0 /\ due' = {}
    /\ detached' = FALSE /\ lvCells' = <<>>
    /\ UNCHANGED <<token, dead, historyVars>>

CallbackThrows == pc = "callback" /\ LeaveCleanup /\ UNCHANGED arrayVars

\* tryShrink(): if fewer than a quarter (kOccupancyRatio) of the elements are
\* records, copy them to a smaller array without free slots.  The quotient of
\* an empty array is infinite, or not a number, which does not stop it.
NewSize == Max({(2 * numUsedCells) % IndexRange, kInitCapacity})
WorthShrinking ==
    /\ (Len(cells) = 0 /\ numUsedCells = 0) \/ 4 * numUsedCells < Len(cells)
    /\ NewSize # Len(cells)

\* Mutated forms: the array is cut off; the free list survives the copy.
Shrink_Truncates ==
    /\ cells' = SubSeq(cells, 1, numUsedCells) /\ capacity' = NewSize
    /\ nextFree' = 0 /\ UNCHANGED numUsedCells

\* The records in the order of their slots.
CopiedRecords ==
    LET order == {p \in [1 .. Cardinality(UsedSlots) -> UsedSlots] :
                    \A j, k \in DOMAIN p : j < k => p[j] < p[k]}
    IN  {[k \in DOMAIN p |-> cells[p[k]]] : p \in order}

Shrink_KeepsFreeList ==
    /\ cells' \in CopiedRecords /\ capacity' = NewSize
    /\ UNCHANGED <<nextFree, numUsedCells>>
Shrink ==
    /\ cells' \in CopiedRecords /\ capacity' = NewSize /\ nextFree' = 0
    /\ UNCHANGED numUsedCells

LoopOver == pc = "loop" /\ i > Len(LoopCells)

\* If the allocation of the new array fails, shrinking is skipped.
TryShrink ==
    /\ LoopOver /\ LeaveCleanup
    /\ \/ WorthShrinking /\ Shrink
       \/ UNCHANGED arrayVars

------------------------------------------------------------------------------
Init ==
    /\ cells = <<>> /\ capacity = 0 /\ nextFree = 0 /\ numUsedCells = 0
    /\ pc = "idle" /\ i = 0 /\ detached = FALSE /\ lvCells = <<>> /\ due = {}
    /\ token = [r \in Records |-> None] /\ dead = {}
    /\ registered = {} /\ unregistered = {} /\ called = [r \in Records |-> 0]
    /\ failed = {}

Program ==
    \/ \E r \in Records : \/ \E t \in Tokens \cup {None} : RegisterCell(r, t)
                          \/ RegisterFails(r) \/ TargetDies(r)
    \/ \E t \in Tokens : UnregisterCells(t) \/ TokenDies(t)

Cleanup ==
    \/ StartCleanup \/ SkipElement \/ CallBack
    \/ CallbackReturns \/ CallbackThrows \/ TryShrink

Next == Program \/ Cleanup
Spec == Init /\ [][Next]_vars

------------------------------------------------------------------------------
(* Properties.                                                                *)

Slot == Records \cup (Nat \ {0})
TypeOK ==
    /\ cells \in Seq(Slot) /\ lvCells \in Seq(Slot)
    /\ capacity \in Nat /\ Len(cells) <= capacity
    /\ nextFree \in 0 .. Len(cells)
    /\ numUsedCells \in 0 .. IndexRange - 1
    /\ pc \in {"idle", "loop", "callback"} /\ i \in Nat /\ detached \in BOOLEAN
    /\ token \in [Records -> Tokens \cup {None}]
    /\ dead \subseteq registered /\ registered \subseteq Records
    /\ unregistered \subseteq Records /\ due \subseteq Records
    /\ called \in [Records -> Nat] /\ failed \subseteq Records \ registered

\* Every registration has exactly one fate, whatever the callbacks do: it is in
\* exactly one slot, or it was unregistered and will never be called back, or
\* it was called back, once and after its target had died.  One whose
\* registration failed has none.
Fates(r) ==
    Cardinality({j \in UsedSlots : cells[j] = r})
        + (IF r \in unregistered THEN 1 ELSE 0) + called[r]
RecordsAccounted ==
    /\ TypeOK
    /\ \A r \in Records : Fates(r) = (IF r \in registered THEN 1 ELSE 0)
    /\ \A r \in Records : called[r] > 0 => r \in dead

\* The free list runs through all free slots, each of them once, and ends at
\* the one that holds its own index: no slot leaks and none is handed out twice.
\* numUsedCells_ is the number of records in the other slots and of those that
\* were counted before the array failed to grow; it never wraps around.
FreeSlots == (1 .. Len(cells)) \ UsedSlots
IsFreeList(p) ==
    /\ {p[k] : k \in 1 .. Len(p)} = FreeSlots
    /\ \A k \in 1 .. Len(p) : cells[p[k]] = (IF k = 1 THEN p[1] ELSE p[k - 1])
FreeListExact ==
    /\ IF FreeSlots = {} THEN nextFree = 0
       ELSE \E p \in [1 .. Cardinality(FreeSlots) - 1 -> FreeSlots \ {nextFree}] :
                IsFreeList(Append(p, nextFree))
    /\ numUsedCells = Cardinality(UsedSlots) + Cardinality(failed)

\* When the loop is over, every record that was dead when it began has been
\* called back, unless a callback unregistered it: reuse of slots before the
\* index and the growth of the array hide none of them.
CleanupComplete ==
    LoopOver => \A r \in due : called[r] > 0 \/ r \in unregistered

\* "Must copy exactly numUsedCells_ elements": what tryShrink() asserts when it
\* has copied the records, at the end of cleanup().
MustCopyExactly ==
    LoopOver /\ WorthShrinking => numUsedCells = Cardinality(UsedSlots)
==============================================================================
