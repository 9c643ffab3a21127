# Verification of Hermes

TLA+ models of the Hermes JavaScript engine (this repository), their model
checking with TLC and machine-checked proofs with TLAPS. The models are read
from the C++ sources; every definition that models code is listed with its
lines in `PROJECT.json` under `map`.

## Contents

1. [The system](#1-the-system)
2. [The plan](#2-the-plan)
3. [HadesThreads](#3-hadesthreads-who-runs-when)
4. [HadesMark and ManagedHeap](#4-hadesmark-and-managedheap-what-is-kept)
5. [HadesEvac](#5-hadesevac-what-moves)
6. [HadesOldGen](#6-hadesoldgen-where-cells-come-from)
7. [IdentifierTable](#7-identifiertable)
8. [FinalizationRegistry and FinalizationCheckpoint](#8-finalizationregistry-and-finalizationcheckpoint)
9. [OrderedHashMap, ManagedChunkedList and LimitedStorageProvider](#9-orderedhashmap-managedchunkedlist-and-limitedstorageprovider)
10. [Helper threads](#10-helper-threads-asyncdebugger-serialexecutor-timelimitmonitor-samplingprofiler)
11. [Runs](#11-runs-bounds-and-fairness)
12. [Proofs](#12-proofs)
13. [What disagrees](#13-where-code-and-comments-disagree)
14. [What is not modelled](#14-what-is-not-modelled)

## 1. The system

Hermes compiles JavaScript to bytecode and interprets it. A *runtime* is used by
one thread at a time, the *mutator*. What makes the engine hard to test is what
happens around that thread: a garbage collector that marks and sweeps in the
background, a profiler that interrupts it, a debugger that pauses it, a watchdog
that breaks into it, finalizers and callbacks that reenter data structures.

| Component | State | Operations | Interacts with | Hard behaviour | Correct when |
|---|---|---|---|---|---|
| Hades threads and phases (`lib/VM/gcs/HadesGC.cpp`) | `gcMutex_`, `ogPauseCondVar_`, `ogPaused_`, `backgroundTaskActive_`, `concurrentPhase_`, the `Executor`'s queue | young and old collections, `collect`, pausing, waiting, accounting, `finalizeAll`, destruction | mutator and background thread share all of it | handing over the mutex, lingering tasks, two uses of one condition variable, incremental mode | phases in order, one task, no lost wake-up, `collect()` is full |
| Hades marking | mark bits, `localWorklist`, `barrierWorklist_`, push chunk, weak slots | write and read barriers, `incrementalMark`, `completeMarking`, `sweepNext` | called by the mutator on every store; runs concurrently with stores | a store between barrier and write, cells enqueued after marking has ended, chains of weak map entries | nothing reachable is freed, weak references never dangle, garbage is reclaimed |
| Hades old generation | segments, free list buckets, `allocChunk_`, sizes, threshold | `alloc`, `search`, `carve`, `allocLarge`, sweeping with coalescing | evacuation, marking, storage provider | full heap in the middle of an evacuation, remainders too small for a cell, lists that change while segments are swept one by one | cells tile each segment, lists match the segment, counters match the cells |
| Hades cards and compaction | card tables, forwarding pointers, compactee | `relocationWriteBarrier`, `scanDirtyCards`, `EvacAcceptor`, `prepareCompactee`, `finalizeCompactee` | barriers, marking (dirties cards into the compactee) | cards cleaned while a compactee is prepared | every old-to-young and into-compactee pointer lies on a dirty card |
| Weak maps (`JSWeakMapImpl.cpp`) | `set_`, `WeakMapEntrySlot`s | set, get, delete, clear freeable entries | marker reads the slots with the world stopped; finalizers free them | value read, stored elsewhere, entry deleted, all during marking | as for marking |
| Finalization registries (`JSFinalizationRegistry.cpp`) | array of records with an embedded free list | register, unregister, cleanup, shrink | cleanup calls back into JavaScript, which registers and unregisters | the array is replaced during the loop | each dead record is called back once, an unregistered one never |
| Ordered hash map (`OrderedHashMap.cpp`) | hash table, data table, iterator indices | insert, erase, clear, rehash, advance | callbacks mutate the table during iteration; background finalizers free iterators | rehash under iterators, background finalizers | iterators neither skip nor repeat, capacities agree |
| Identifier table (`IdentifierTable.cpp`) | lookup vector, hash table, free ids | intern, create symbols, free unmarked ones | marker's symbol bit vectors, barriers | a symbol found while it is being condemned | a symbol in use keeps its id |
| Managed chunked list | chunks, free list | add, collect, free from another thread | weak slots, iterators | free and collect race | an element is reused only when free |
| Limited storage provider | remaining bytes | new and delete storage | heap growth | jumbo requests at the limit | the budget never wraps around |
| Serial executor, time limit monitor | thread state, task queue; watched runtimes | add, run, time out, destroy; watch, unwatch, fire | mutator and helper thread | time-out against a late task, late deadline | no task lost, no spurious break |
| Sampling profiler | samples, domains, suspend count, enabled flag | sample, suspend, resume, enable, disable | timer thread, signal handler, mutator, two locks | locks held while waiting for a signal handler | no deadlock, samples consistent |
| Asynchronous debugger API, task runner | callbacks queue, `isWaitingForCommand_`, event callback | pause, resume, eval, interrupt, set and clear callback | any thread, runtime thread | commands, interrupts and removal in any order | no lost command, every task once, pauses end |
| Debugger core | breakpoints, patched opcodes, step state | set, delete, step, restore | interpreter | a breakpoint deleted while stepping over it | patched bytecode matches the breakpoints |
| Compiler (`Parser`, `Sema`, `IR`, `IRGen`, `Optimizer`, `BCGen`), `Regex` | syntax trees, IR | translation | none | unbounded inputs | semantics preserved |
| Embedding (`API`), library (`JSLib`, `InternalJavaScript`), `Support` | handles, references | adapters and conversions | VM | lifetimes of references | as their specifications say |

How they meet in the modelled part: the mutator stores through
`HadesGC::writeBarrier`, which calls `snapshotWriteBarrierInternal` and
`barrierEnqueue`; a full push chunk goes to `barrierWorklist_`, which
`incrementalMark` drains, on the background thread (`collectOGInBackground`) or
on the mutator (`yieldToOldGen`, `waitForCollectionToFinish`). When the marker
runs out of work it sets the phase to CompleteMarking and leaves;
`completeMarking` runs on the mutator at the end of a young collection, and the
background task then sweeps.

`PROJECT.json` lists all components with their status, and under `hazards`
what in this code is hard to test, each at its line with the properties that
cover it.

## 2. The plan

In this order, the behaviour that matters most first:

| Module | Models | Abstract specification | State |
|---|---|---|---|
| `HadesThreads` | mutator, background task, phases | the phase machine (`PhaseOrder`) | checked, proved |
| `ManagedHeap` | the promise of a collector | is one | done |
| `HadesMark` | barriers, marking, weak references, sweeping | `ManagedHeap` | checked, proved with the refinement |
| `HadesEvac` | cards, forwarding, copy list, compactee, allocation that fails half way | - | checked, proved |
| `HadesOldGen` | segments, free lists, carving, coalescing, large objects, limit | - | checked, proved |
| `IdentifierTable` | symbols against marking | - | checked, proved |
| `FinalizationRegistry` | one registry, cleanup with reentrant callbacks | each registration has one fate (`RecordsAccounted`) | checked, proved |
| `FinalizationCheckpoint` | the runtime's list of registries, one cleanup as a call | every registry visited once | checked, proved |
| `OrderedMap` | the promise of a Map with iterators | is one | done |
| `OrderedHashMap` | table, rehash, iterators' indices | `OrderedMap` | checked, proved with the refinement |
| `ManagedChunkedList` | slots freed from another thread | - | checked, proved |
| `LimitedStorageProvider` | the byte budget | - | proved for single segments |
| `AsyncDebugger` | pausing, interrupts, commands, tasks, requests the interpreter drops | - | checked, proved |
| `SerialExecutor` | worker that times out and is restarted | a queue served in order (`SerialOrder`) | checked, proved |
| `TimeLimitMonitor` | deadlines and the thread that answers them | - | checked, proved |
| `SamplingProfiler` | timer, signal, suspend, two locks | - | checked, proved |
| `Debugger` (breakpoints and patched opcodes) | | | left |

Most components that share no state are checked side by side in one run: an MC module
(`MCHadesThreads`, `MCHadesOldGen`, `MCFinalizationRegistry`, `MCHelperThreads`,
whose constant `Parts` picks the components of a run, `MCTables`) has a variable `part` (or `concurrent`, for the two builds) that is
chosen at the start and never changes, and a behaviour is one of that part; the
variables of the others keep their initial values. Nothing is interleaved that
does not interact, and each property is that of its component.

Runs use two or three cells, slots, keys or records, one or two threads, and
limits small enough (chunks of one cell, worklists of one or two chunks, tables
of two or four buckets) that every limit is hit. RECURSIVE operators are kept
out of all modules; recursion is written as functions or folds.

## 3. HadesThreads: who runs when

`HadesThreads.tla` has one action for each stretch of code between two points
that the other thread can observe: taking or releasing `gcMutex_`, waiting,
notifying, and unlocked accesses. State and code:

- `gcMutex`, `waiters`: `gcMutex_` and the threads in `ogPauseCondVar_.wait`.
  Waiting releases the mutex; a notified thread must take it again. Spurious
  wake-ups happen up to `MaxSpurious` times.
- `ogPaused`, `backgroundTaskActive`, `concurrentPhase`, `ogMarkingBarriers`,
  `markState`, `compactee`, `promoteYGToOG`, `segNumber`: the members of the
  same names (`markState` and `compactee`: whether they hold a value).
- `unmarked`, `localWorklist`, `barrierWorklist`, `barrierChunkIndex`: cells
  are only counted. A barrier can enqueue a cell at any time the barriers are on.
- `queue`, `shutdown`, `notified`, `pcB`: the `Executor` and its worker, from
  the task queue to the loop of `collectOGInBackground`.
- `pcM`, `op`, `ret`: what the mutator is executing: `collect`, a young
  generation collection from the allocator, `createSnapshot`, long lived
  allocation, external memory accounting, the TTI notification, a full barrier
  chunk, `finalizeAll`, the destructor. `waitForCollectionToFinish` can be
  entered from three places (`ret`), among them a full heap in the middle of
  an evacuation.

What only depends on sizes (is the heap full, is there budget left to mark) is
a nondeterministic choice. `kConcurrentGC` selects the build: with FALSE there
is no worker and `yieldToOldGen` makes the collection advance on the mutator.

Checked: `OneBackgroundTask` (no collection starts while the task of another one
is active), `CollectIsFull`, `CompactionExclusive`, `BarriersWhileMarking`,
`PhaseOrder`, and the
liveness properties `CallsReturn` and `BackgroundFinishes`. `TypeOK`,
`YieldAssertions` and `WorklistBounded` are proved
([12](#12-proofs)) and no run repeats them. `MCHadesThreads` checks the build
with a background thread and the incremental one.

## 4. HadesMark and ManagedHeap: what is kept

`ManagedHeap.tla` is the abstract specification: a graph of cells with roots,
weak references and weak map entries. The program allocates, reads, writes,
drops, and uses weak references; the collector's only step lets unreachable
cells and all weak references to them disappear together.

`HadesMark.tla` is the collector with its barriers. Cells keep their identity
when they are moved, so an evacuation only changes their generation. One action
per program operation and per step of the marker:

- `WriteBarrier` and `Store` are two steps: the marker may run between them.
  `DrainFullBarrierChunk` is the path of `handleFullBarrierChunk` that waits for
  the mutex and drains the worklist on the mutator.
- `MarkPop` and `MarkField` read one pointer of a cell at a time, while the
  mutator stores in the same cell. `MarkBegin` and `MarkEnd` delimit a call of
  `incrementalMark`, with any limit.
- `CompleteMarking`, `MarkCell`, `BeginPass`, `VisitSlot`, `NextPass`,
  `FinishMarking` are `completeMarking` with the fixed point of
  `markWeakMapEntrySlots`, one slot at a time and in any order.
- `YoungGenCollection` (evacuation), `PromoteYoungGen`, `OldGenCollection`,
  `SweepNext`.
- `Deref`, `MapGet`, `MapSet`, `MapDelete`, `MakeWeak`: weak references and weak
  maps with their read barriers. Weak map slots are freed when an entry is
  deleted, when its map is finalized, and by `clearFreeableEntries`.

The refinement mapping shows the program the cells that are not condemned: once
marking is complete an unmarked cell is gone although its memory is not swept.
The entries whose owner or key died are shown as empty. All of the marker's and
the sweeper's steps stutter, `FinishMarking` and `YoungGenCollection` are the
abstract collection.

Abstractions that a reader should know:

- An old collection starts in a state with an empty young generation, which
  stands for "at the end of a young collection", its only call site.
- `completeMarking` and young collections hold `gcMutex_` throughout; splitting
  the former into steps adds behaviours, none of which the properties exclude.
- Which unmarked cells lie in the segment swept next is left open.
- `gcMutex_` appears only as `bgMarking`: HadesThreads has the locking.
- `markRootsForCompleteMarking` marks domains recorded by the sampling profiler
  and is left out, as are range barriers; symbols are in `IdentifierTable`, cards and
  compaction in `HadesEvac`.

Checked: `ReachableKept`, `WeakTargetsKept`, `GarbageReclaimed` and
`ImplementsManagedHeap`; `TypeOK` and `WorklistsOld` (the assertions on
worklists) are proved only.

## 5. HadesEvac: what moves

`HadesEvac.tla` is the young generation collection pointer by pointer, between
the steps of an old generation collection. A cell is an address: a segment and a
place in it. `youngGen`, `segments`, `compactee` are the segments, `dirty` the
dirty cards, `forwarding` the forwarding pointers left in cells that were copied,
`copyList` the list of copies to visit; `visitUnmarked` and `segEnd` are what
`scanDirtyCards` reads before it starts. `pc` says which stage the mutator is in:
`roots`, `cards` (the cells of each segment in turn), `compactee` (the cards of a
compactee that is being prepared), `copy`, then `yield` and `start`
(`yieldToOldGen`, and maybe a new collection that may choose a compactee).

At a pointer, `AcceptOther` leaves it (and dirties its card if it leads into a
compactee that is being prepared), `AcceptForwarded` replaces it, `AcceptCopy`
allocates the copy, and if the heap is full `AcceptWait` completes the
collection under way, marking, weak roots and sweeping included, before the same
allocation is tried again, or `OutOfMemory` ends the process. `SegmentEnd`
clears the cards unless a compactee is being prepared. `EvacuationEnd` updates
the weak root and gives up the young generation and the compactee. `Promote` is
`promoteYoungGenToOldGen`. Outside of a collection the program stores with both
barriers, loads, allocates in either generation, and uses a weak root.

`WellFormed` is `checkWellFormed` (every pointer of a cell that `forAllObjs`
visits leads to a cell) with the types, `CardTable` is `verifyCardTable`,
`VisitedKept` that the cell whose field is written is not freed by the collection
that the allocation of the copy had to complete, `EvacuatesMarked` the assertion of
`forwardCell`.

The scan of the cards does not look at its cell again after the allocation: the code
writes the slot whether or not the cell is still there. `waited` says that an
allocation under way has waited, and as long as it does the scanned cell stays
`CurrentCell` although it may be neither allocated nor marked nor on a dirty card.
A scanned cell can be unmarked when the wait begins, since the cards of a dead cell
are scanned like any others while marking. `VisitedKept` holds
all the same: the young generation is empty when marking begins, so that a cell which
leads into it was stored into later, by a program that had it; what the program has
after the snapshot the completion of marking comes to before anything is swept. One of
the heaps the run starts from is full and being marked, so that this happens.

Simplified: cells have one size and one pointer field and none straddles two
cards (`CardBoundaryTable` is what finds the first cell of a card); marking moves
a cell to the worklist in one step (`HadesMark` has the races of the marker, and
`HadesThreads` shows that the background thread waits during a young
collection). Jumbo segments, weak map slots, finalizers and external memory are
left out.

## 6. HadesOldGen: where cells come from

`HadesOldGen.tla` is the allocator of the old generation. A segment is a function
from the offsets of its cells to their sizes and mark bits; sizes count units of
the heap's alignment. `freelist` holds `segmentBuckets_` (`cells`, a list per
segment and bucket, pushed and popped at its head), the chains of `buckets_`
(`chain`) and `freelistBucketBitArray_` (`bits`); `allocChunk`, `jumbo`,
`compactee`, `allocatedBytes`, `largeBytes` and `segNumber` are the members. The
mutator holds `gcMutex_` for the whole of an allocation, so each is one step:
`AllocFromChunk` (carve the tail of the chunk), `AllocSlow` (`search`, then a new
segment; or a jumbo segment), unless it has to wait for the collection
(`WaitForCollection`, then only steps of the collector, then `AllocAfterWait`,
`OutOfMemory` or, for a large object whose caller can do without it,
`LargeAllocationFails`). A collection is `StartCollection` (mark bits are reset, a
compactee may be popped, the sweep iterator is set), `CompleteMarking` (any
objects that existed at the start are found alive) and `SweepNext`, one segment
at a time with allocations in between; the last one frees dead jumbo segments.
`FinalizeCompactee` is the end of the young collection that evacuated the
compactee; the copies are ordinary allocations before it.

`search` visits the cells in a definite order, bucket by bucket, along the chain of a
bucket and along the list of a segment; `Search` takes the first of each with a cell
that fits. Which bits let it skip a bucket, and from which bucket it resumes when
there is no exact one, is in `FirstBucket`. Sums of sizes (`SizeOf`, `JumboUnits`,
`ObjectBytes`) are the numbers of units covered, which do not overlap; jumbo segments
are told apart by a number, since two may be alike.

`FreelistsExact` says that the cells tile each segment and what
`verifyFreelists` asserts in slow debug builds, `BytesExact` relates the counters to
the objects, compactee and jumbo segments included, `OutOfMemoryExact` says that
the heap keeps its limit and that the program dies only if no free cell fits and
no segment may be added, `FreshSurvive` that what is allocated during a
collection is not freed by it (`fresh` is a history variable).

Left out: trimming (no `VTable` of the VM has a trim callback; `ArrayStorage`
passes none), promotion of a whole young generation (see `HadesEvac`), external
memory in the footprint, and failures of the storage provider.

## 7. IdentifierTable

`IdentifierTable.tla` is the table of symbols with the part of the collector that
frees them; it is checked beside `HadesOldGen`. `lookupVector` with
`firstFreeID` is the vector and its free list, `table`, `symbolCount` and
`nonEmptyCount` the `IdentifierHashTable`, `uniqueID` the index that a uniqued
`StringPrimitive` holds. The program has symbols in `roots`, in slots of old
cells, and in a `WeakRootSymbolID`. `getOrCreateIdentifier` is two steps,
`LookupMisses` and `AllocIDAndInsert`, because the string is allocated in
between and the allocation may run a collection; registering lazy identifiers,
materialising them and creating symbols that are not uniqued are one step each.
`StartMarking`, `ScanSlot` and `CompleteSymbolMarking` are the marker; `Barrier` is
what allocation, weak reads and overwritten slots do while it runs.

`LookupString` follows the probes and returns the last deleted place on the way
as the place to insert, `Rehash` reinserts in the order of the old table (`Place`
says where each entry comes to lie), and `FreeUnmarkedSymbols` frees in the order of
the vector. Capacities are powers of 2 and at least 4, as in the code. An
entry that goes into a deleted place is counted in `nonEmptyCount` once more, as
in the code, so that the table grows earlier than it has to.

`SymbolsLive` says that no symbol in use is freed, `SymbolFound` that equal
strings have one symbol which the hash table finds, also if symbols were freed on
its chain of probes or between the lookup and the insertion, that probing ends,
and that the free list and the size are exact.

## 8. FinalizationRegistry and FinalizationCheckpoint

`FinalizationRegistry.tla` is one registry (`JSFinalizationRegistry.cpp`).
`cells`, `capacity`, `nextFree` and `numUsedCells` are the array and the members
of those names; a free slot holds the index of the next free one, the last one
its own. `cleanup()` is a loop of steps: `StartCleanup`, then for each element
`SkipElement` or `CallBack` with `CallbackReturns` or `CallbackThrows`, and at
the end `TryShrink`. The program's steps (`RegisterCell`, `UnregisterCells`, and
targets and tokens that are collected) happen outside of cleanup and in its
callbacks. `registerCell` takes a free slot, pushes within the capacity, or
replaces the array; in the last case a running loop keeps the old one
(`detached`, `lvCells`). `numUsedCells` wraps around at `IndexRange` as
`StorageIndex` does at 2^32. `registered`, `failed`, `unregistered`, `called` and
`due` are history variables.

The array may fail to grow (`RegisterFails`, if `GrowthMayFail`): `registerCell` has
then counted a record that is nowhere, and nothing takes the count back.
`ArrayStorage` raises an exception only for an array that is a large object or
exceeds the maximal capacity, and ends the process otherwise; the small capacities of
the runs stand for arrays of such a size.

When `TryShrink` copies the records, `CopiedRecords` is the sequence of those in the
slots in use, in the order of the slots.

`RecordsAccounted` says that every registration has exactly one fate (in one
slot, unregistered, or called back once after its target died; one that failed has
none), `FreeListExact` that the embedded list runs through all free slots and that
`numUsedCells` is the number of records in slots and of the failed registrations,
`CleanupComplete` that a loop that ends has called back all records it
had to. They hold as long as no callback unregisters anything once the array was
replaced under the loop (`UnregistersDetached = FALSE`). `MustCopyExactly`, the
assertion of `tryShrink`, fails without that restriction, and it fails with it after
a registration that could not grow the array
(see [13](#13-where-code-and-comments-disagree)).

`FinalizationCheckpoint.tla` is `Runtime::cleanUpFinalizationCallbacks`, the loop
over the runtime's registries: `Visit` is the call of one cleanup, during which
the program creates registries (`AddFinalizationRegistry`) and a collection
empties the weak roots of others (`Collect`); empty ones are removed by
`SwapRemove`, which moves the last one to their place and looks at it again. A
callback that throws ends the checkpoint. `VisitedInOrder`: every living registry is on the
list once, those before the index have been visited and those behind it have
not, so that a checkpoint that ends has visited all that are alive, the new ones
included.

## 9. OrderedHashMap, ManagedChunkedList and LimitedStorageProvider

`OrderedMap.tla` says what a JavaScript Map promises: entries in the order of
insertion, and iterators that visit what is behind the entry visited last.
`OrderedHashMap.tla` is the implementation: `hashTable` (buckets with an index,
*unused* or *deleted*), `dataTable` (entries in order, deleted ones empty),
`capacity`, `size`, `deletedCount`, and one index for each iterator. Each C++
operation is a step, since JavaScript runs between them but not inside:
`InsertExisting`, `Insert` (with the rehash before it), `Erase` (with the
shrinking after it), `Clear`, `NewIterator`, `AdvanceIterator`, `FreeIterator`.
An insertion that would exceed `kMaxCapacity` raises a RangeError and changes
nothing, so it is no step. A rehash whose table cannot be allocated
(`StorageMayFail`; in the code a large object, as for the registry) has already set
`capacity` and credited the memory: the insertion fails (`InsertFails`), the erase
ignores the result (`EraseOnly`), and the hash table keeps its size. Every operation
on a key begins with the assertion that capacity and size agree (`Consistent`), which
ends the program; iterators and `clear()` do not look at the hash table and go on, and
`clear()` makes the two agree again. What builds without assertions look up
with the wrong capacity is not modelled. `LookupExact` therefore says: the
counters and the iterators are always exact, and while `Consistent` holds every key
is found exactly. The refinement mapping drops the deleted entries and
counts, for each iterator, the living entries up to its index. One iterator is
enough for the check: iterators change neither the map nor each other.
`credited` is what the collector was told of the hash table's memory; `Clear` is
not taken above `MaxCredited`, because the code never debits what it drops there,
nor what a failed rehash has credited.

`ManagedChunkedList.tla` is the list that holds the iterators' indices and the
slots of weak references. The mutator adds elements, collects (`StartChunk`,
`ScanElement`, `FinishChunk`) and visits (`CheckElement`, `Accept`), reading the
flag of one element per step; `FreeElement` is the finalizer on the background
thread, which may set a flag between any two of them. `HeldSafe` says that an
element in use is never deleted nor offered, `FreeListExact`, which is proved, that
the free list (also the one under construction) has only free elements, each once,
and `AllVisited` that `forEach()` leaves none out that is in use all the time.
When to collect and how many chunks to keep depend on a moving average in the
code and are choices in the model.

`LimitedStorageProvider.tla` counts in segments: `RequestStorage` is the check of
the budget and the subtraction, modulo the size of `size_t` (`SizeMax`),
`DelegateAnswers` the other provider's storage or error, after which the budget
is not given back, `DeleteStorage` the return. `WithinLimit` is proved for clients
that ask for single segments only, and no run checks it; with jumbo segments it does not (see
[13](#13-where-code-and-comments-disagree)). Only tests construct this provider.

## 10. Helper threads: AsyncDebugger, SerialExecutor, TimeLimitMonitor, SamplingProfiler

### AsyncDebugger

`AsyncDebugger.tla` is `AsyncDebuggerAPI` with `RuntimeTaskRunner`. Calls with
the suffix `_TS` hold `mutex_` from beginning to end and are one step each;
`didPause()` on the runtime thread is a sequence of steps (`pc`), because it
releases the mutex before every callback and when it waits. `signaled` says
whether `signal_` was notified since the thread last looked at its condition.
Interrupts and tasks are the same here: `enqueueTask` puts a task first in the
integrator's queue, then in `interruptCallbacks_`, and the copies share a flag
(`alreadyRan`; `ran` counts what really ran). Client code in a callback matters
only by the command that it gives.

The interpreter clears a request for an implicit break before it calls the debugger.
`AsyncBreak` is that check while the program runs: the debugger pauses, or puts the
pause off until the program is at a source location (`deferred`, `DeferredPause`;
if the function is about to return it steps out of it first), or drops the request
while stepping. `DropBreak` is the same check in JavaScript that runs during a pause,
in a callback or an evaluation: the debugger is debugging already and does nothing.
`dropped` says that a request was cleared and that no pause has answered it yet.

Clients set and clear the event callback at any time, from any thread. With
`EvalMayChain = FALSE` an eval callback does not ask for another evaluation
(see [13](#13-where-code-and-comments-disagree)). `ExactlyOnce` and `CommandKept` hold
without condition. `ExitsWithCommand`: what `didPause()` returns was given in this
pause, and it is without a command in one case only, a callback cleared and set again
in this pause; there the code's own assertion `ReturnAsserted` fails, which ends the
program (`async_return`). `TasksRun`: a submitted task
runs, unless its request was cleared without a pause and the program goes on
(`Stranded`), or the assertion has failed; and if JavaScript ends again and again, so
that the integrator gets to its queue, every task runs without exception.

### SerialExecutor

`threadState`, `taskQueue`, `wakeUp` and `tid` are the executor's members,
`workerAt` says where each worker that was ever started is. `add()` is `AddLock`
and `AddEnd`: in between it joins a worker that has timed out, holding `mutex_`,
and starts another. `TimeOut` may come whenever the worker waits, also when it
was notified and has not got the mutex yet. The destructor (`Terminate`, `Join`)
runs when no other thread is in `add()`; tasks may still add tasks. `SerialOrder`:
tasks are begun in the order of their `add()` and there is never more than one
worker; `TasksExecuted`: what is in the queue is run, although nothing but the
notification that was given before may wake the worker up, and the destructor
returns with the queue empty.

### TimeLimitMonitor

With a clock (`now`, up to `MaxTime`): `WatchRuntime` sets a deadline under
`lock_`, the notification follows without it. `TimerWakes` starts a round with
the time it reads, `LookAt` answers or remembers one deadline, `TimerWaits` sleeps
until the earliest. Runtimes stop being watched and are destroyed meanwhile, and
the last one destroys the monitor (`DisableMonitor`, `TickleTimer`, `JoinTimer`).
`SleepBounded`: the thread never sleeps past a deadline it has not been or is not
about to be notified of, and never holds a runtime that is gone;
`DeadlinesAnswered`: a deadline that has passed is answered and the destructor
returns. That a break request may stay pending after `unwatchRuntime()`
(`timeoutBit`) is modelled; no comment promises otherwise, and no property forbids
it. A monitor that is created after the first one is gone is not followed.

### SamplingProfiler

The timer thread (`SamplerLoop`) holds `profilerLock_` and the runtime's
`runtimeDataLock_` while it waits for the signal handler, which runs on the
runtime thread wherever that is, waiting for a lock included
(`ProfilingSignalHandler`). `suspend()` is two steps, as it asks whether the
profiler is enabled under one lock and then takes the other (`AskEnabled`,
`Suspend`). A client enables, disables and dumps. `WalkSafe` is the assertions of
`walkRuntimeStack` with the storage that handler and `suspend()` share;
`SamplesRooted` says that all that is or will be sampled is a root of the
collector, which needs that no dump is made while sampling is suspended
(`DumpsWhileSuspended = FALSE`, see
[13](#13-where-code-and-comments-disagree)); `SamplerReturns`: `suspend()` gets its
second lock, `disable()` returns and the timer thread's wait for the handler ends.
One runtime, one client and the POSIX implementation; `disable()` releases
`profilerLock_` before it joins the thread, so that another client's `enable()` could
come in between, which is not modelled, nor is the failure of a semaphore.

## 11. Runs, bounds and fairness

| Run | Question | Bounds | Result |
|---|---|---|---|
| `threads` | Do all interleavings of the mutator's calls with the background task, and those of the build without threads, keep one task, the phase order and the contract of `collect()`; does every call return, and does the task end when it is left alone? | chunk 1 (2 without threads), 2 chunks, cells 2, segments 2, one spurious wake-up | holds |
| `mark` | Is any reachable cell freed, do weak references ever see a dead cell, do chains and cycles of weak map entries keep no more than they must; is the collector a `ManagedHeap`? | 3 cells, 1 field, 1 weak reference, 2 entries, 2 program steps | holds |
| `evacuation` | Is a pointer left to a cell that moved or was freed, does a card lie, whatever happens in the middle of an evacuation? Is the cell of a card scan freed, if the marker has not come to it when its copy has to wait? | 3 segments of 2 cells, 2 roots, 2 program steps | holds |
| `old_gen` | Do free lists, counters and the heap limit stay exact through allocation, sweeping and compaction? Is a symbol in use freed or not found? | segments of 7 units, cells of 2 and 3, jumbo objects of 2 segments, limit 3 segments; 2 strings, 2 symbols, a hash table of 4 that grows to 8 | holds |
| `registry` | Does each registration have exactly one fate, whatever callbacks do, through growing, failing to grow and shrinking? Does the checkpoint visit every registry? | 5 records, 1 token, initial capacity 1; 4 registries | holds |
| `registry_grow` | And if a callback unregisters after it made the array grow? | 4 records, 1 token, initial capacity 2 | violated |
| `tables` | Is the table a Map, through all rehashes, those that fail included? Is an element of the chunked list in use ever reused, deleted or left out? | 4 keys, 2 values, 1 iterator, capacities 2 to 8; 3 chunks of 2 elements; 3 storages, limit 2 | holds |
| `async_debugger` | Is every task of the debugger's API run once, does a pause end by a command given in it, which task may be left waiting? | 2 tasks, all commands, callbacks set and cleared at any time | holds |
| `helper_threads` | Is every task of the executor run once and in order, is a deadline answered, is the stack walked only when it may be; does anybody wait for ever? | 2 adders, 3 workers, 5 tasks; 2 runtimes, a clock up to 2; 2 modules, 3 nested suspensions | holds |
| `async_return` | Does `didPause()` always have a command to return? | 1 task | violated |
| `async_chain` | What if evaluations are chained? | 1 task | violated |
| `profiler_samples` | What if samples are dumped while sampling is suspended? | 2 modules | violated |

Every property of a passing run has a mutant in `PROJECT.json`: a plausible bug
in a mapped definition under which TLC finds the property violated.

Bounds. In HadesThreads chunks of one cell and worklists of one or two chunks
make every store a candidate for the blocking path; two unmarked cells let the
marker be interrupted and resumed; two segments distinguish the first, a middle
and the last sweep step. In HadesMark three
cells are the smallest number with a holder, an overwritten target and an
unrelated cell, and enough for a chain of two weak map entries (the map is its own
first key); `MaxMutations` is 2 steps of the program on every initial graph with such
a chain and every choice of roots: longer histories reach graphs that are initial
states of their own. The proofs remove all of these
bounds.

In HadesOldGen a segment of 7 units holds three cells; sizes 2 and 3 with a
smallest cell of 2 give exact fits, cells that are one unit too large to use and
one too small to split, and a chunk that is carved more than once; with four
small buckets, one of them is skipped by `search`, and sizes 4 to 7 share a
large one. The limit of three segments (one is the young generation) is reached by
two segments, by one and a compactee, or by one jumbo object; a jumbo object
next to an ordinary segment is met by the proofs only, which hold for every limit.

In HadesEvac two segments of two cells and a young generation of two fill the
heap, so that a copy has to wait; the five heaps of `MCHeaps` are a full one with
pointers across segments, one with a hole, one with dead cells that
point into the segment a compaction takes, one with a live cell in the young
generation, and one that is full and being marked. Two steps of the program suffice to make an old cell point to a young
one, or a root disappear in the middle of marking. In the heap that is being marked the
program has loaded a cell from behind one that the marker has not come to, and half of
the old generation is dead: storing the young cell into the loaded one and dropping
it make the card scan meet a cell that is still unmarked when its copy has to wait,
and completing the collection makes room for the copy. Two strings that collide in
the small hash table only, and two symbols, are enough for a deleted place on a
chain of probes, a recycled index, and a growth (`MaxNonEmpty` 3).

A registry of five records with a capacity of one grows three times, and its five
slots are worth shrinking when one record is left. In the hash map a
capacity of 2 makes every insertion rehash, 8 is enough to grow twice and to
shrink, and the hash function makes keys collide in every table, in small ones
only, and at the last bucket. Three chunks of two elements give a first, a middle
and a last one, each partly or wholly free. A clock up
to 2 with time-outs of 1 and 2 has deadlines in either order; five tasks and
three workers let a worker time out twice; three suspensions are one more than
a collection in a pause. Two tasks of the debugger suffice
because what a task meets is one other: in front of it in a queue, giving the
command, or run by it.

Fairness. In HadesThreads, `WF_vars(Background)`: the
operating system runs the worker thread when it can run, and the worker's loop
has no other way to wait than its condition variables. `WF_vars(InCollector)`:
a mutator inside the collector keeps running. Nothing is assumed of a mutator
outside of it: it may never call again. The mutex is not assumed to be fair;
`gcMutex_` is handed over because the task waits for `ogPaused_` to be reset.
In AsyncDebugger, `WF_vars(RuntimeThread)`: the runtime thread executes what it
has to do, without choosing to enter, leave or pause JavaScript;
`SF_vars(AsyncBreak)`: checks for interrupts are compiled into function entries
and loops, so that JavaScript that runs again and again meets one, even if it
pauses in between; `SF_vars(RunIntegratorTask)`: an integrator that has the thread to itself again and
again, because no JavaScript runs, gets to its queue;
`WF_vars(TriggerInterrupt(t))`: a thread inside `enqueueTask`
finishes the call. Nothing is assumed of clients: a command may never be given. In SerialExecutor the
threads go on, but a time-out need never come (the default is the longest there
is). In TimeLimitMonitor the timer thread, the destructor and a thread that is
about to notify go on; the clock may stop. In SamplingProfiler signals are
delivered, and `SF` says that a thread waiting for a mutex that is released again
and again gets it: `suspend()` and `disable()` compete with a timer thread that
takes `profilerLock_` for a short while in every period.

## 12. Proofs

The modules `HadesThreadsProofs`, `HadesMarkProofs`, `HadesEvacProofs`,
`HadesOldGenProofs`, `FinalizationProofs` (the registry and the checkpoint),
`OrderedHashMapProofs`, `TablesProofs` (ManagedChunkedList, LimitedStorageProvider,
IdentifierTable) and `HelperThreadsProofs` (AsyncDebugger, SerialExecutor,
TimeLimitMonitor, SamplingProfiler) hold the theorems; every leaf is checked by
tlapm. They hold for every value of the constants under these assumptions, which TLC
evaluates in the runs: `ConcurrencyAssumption`,
`ChunkAssumption` (chunks and the worklist have room for at least one cell),
`BoundAssumption` (bounds are natural numbers), `NullAssumption` (`Null` is no
cell, or no registry), `HeapsAssumption` (the heaps a history may start from are well formed:
roots and pointers lead to allocated cells, and if one is being marked, what the program
has is on the worklist or one field behind it, as it is soon after the snapshot),
`SizeAssumption` and
`NoChunkAssumption` (a chunk has at least one element, `NoChunk` is no chunk),
`SizesAssumption` (sizes are natural numbers, cells are not larger than a segment and
requests not smaller than the smallest cell, the limit is at least two segments, as
`clampMaxHeapSize` makes it, and a `size_t` can hold it),
`ClientAssumption` (the commands are those there are), `ExecutorAssumption` (the
destructor is not called by a thread that adds tasks), `TimesAssumption` (times
are natural numbers), `GrowthAssumption` and `StorageAssumption` (whether allocations fail is a
Boolean), `CapacityAssumption`, `HashAssumption` and `IndexAssumption` (a
hash table of a Map begins with at least two buckets, hashes are natural numbers,
the marks of an unused index are none), `TableAssumption`, `NoSymbolAssumption` and
`SymbolBoundsAssumption` (the table of symbols begins with a power of 2 that is at
least 4, hashes are natural numbers, `NoSymbol` is none), and `LimitAssumption` (a
`size_t` can hold the limit). Four hypotheses are part of the theorems that need them:
`Addressable` (no request is larger than the limit of the heap by more than a unit),
`Sizes \subseteq {1}` (nobody asks the limited provider for a jumbo segment), and
two about the client, `~DumpsWhileSuspended` and
`UnregistersDetached = FALSE` (no callback of a registry unregisters a record after
one of them made the array grow). What happens without the last three is a subject
of 13: runs `profiler_samples` and `registry_grow` show it for the two about the
client, and the end of 13 says it of `Sizes \subseteq {1}`. Without `Addressable` the
limit can be passed (13, at the end).

**HadesThreads.** The properties are not inductive: they follow from what
every thread knows at each of its program points. `IndInv` is the conjunction of

- `Ownership`: who holds `gcMutex_` at which program point, and who waits;
- `TaskInv`: `OneBackgroundTask` with what the task's program points say of
  `backgroundTaskActive` and the executor's queue;
- `MarkInv`: barriers, mark state and phase agree, except inside the steps that
  change them under the mutex;
- `WorkInv` and `WorklistInv`: worklists are empty outside of marking, and the
  chunk being flushed fits, which needs the product of chunk size and chunk count
  (`ChunkArithmetic` is the only lemma with nonlinear arithmetic);
- `CompactionExclusive`, `ControlInv`: phase and compactee at the mutator's
  program points;
- `CollectInv`: what `collect()` still owes at each of its program points, the
  strengthening of `CollectIsFull`.

`StepInv` has one lemma per conjunct and in it one step per action;
`CollectEffect` summarises a call of `incrementalCollect`, which both threads
make. Theorems: `TypeCorrect`, `YieldSafe`, `SingleTask`, `BarriersOn`,
`WorklistSafe`, `CollectContract`, `CompactionSafe`, and the action property
`PhasesInOrder` (`PhaseKept`: six actions change the phase, and each holds the mutex).

**HadesMark.** Reachability is a quantification over closed sets, so no theorem
needs induction: a cell is unreachable if some set that contains the roots and is
closed under pointers and weak map entries leaves it out. `IndInv` consists of
`TypeOK`, `SetInv` (worklists hold old, marked cells), `ControlInv` and
`PendingInv` (program points, and what is known of the pointer between barrier
and store), `LiveInv` (pointers of live cells lead to live cells), `EntryInv`
and `SlotInv` (the slots of weak map entries), and

- `SnapshotInv`, the heart: while marking, every set of cells that contains the
  marked cells and the cells on the worklists and in the push chunk, and that is
  closed under the pointers of cells not yet scanned, contains every reachable
  cell. It is what the snapshot barriers maintain: the overwritten pointer is in
  the chunk before the store can happen.
- `DoomedInv`, its counterpart for garbage: cells that were unreachable when the
  collection began are marked only if a weak reference brought them back.

When the worklists are empty `SnapshotInv` says that the marked cells are
closed, which is why `FinishMarking` may condemn the rest. Theorems:
`ReachableSafe`, `WeakSafe`, `WorklistsSafe`, `GarbagePrompt`, `TypeCorrect`,
and `Refinement`: `Spec => ImplementsManagedHeap`, with one lemma per kind of
step (`AllocRefines`, `WriteRefines`, ..., `ReclaimRefines` for the two steps at
which cells die, `Stutter` and `MarkingStutters` for all others).

**HadesEvac.** `IInv` has ten conjuncts, each named in `HadesEvacProofs`. The ones
that carry the argument:

- `Evacuation`: a pointer to a cell that is to move is in a root not yet visited, on
  a dirty card that the scan has not reached, or in a copy on the copy list
  (`Pending`). When the stages are over nothing is pending, so that no pointer leads
  into what is given up. `SegmentEnd` may clear cards only because a scanned card
  has no such pointer left (`ToScan` says what the scan will still come to).
- `YoungCards` and `CompacteeDirty`: what the cards promise between evacuations. For
  a compactee the promise covers scanned cells only, since the marker dirties the
  card when it scans a pointer into it; choosing a compactee (`OldGenCollection`)
  is sound because no cell has been scanned then.
- `Snapshot`: while marking is on, what a root, a cell of the young generation or a
  scanned cell points to has been marked or is reachable from the worklist
  (`Visited`, defined as the least closed set and used only through its closure
  properties). It is needed because `AcceptWait` completes the OG collection in the
  middle of an evacuation: the cell being visited and the cell it points to must
  survive that, and `Pointers` must hold of the marked cells afterwards. Its last
  conjunct is what `VisitedKept` needs of a card scan: a cell that leads into the
  young generation, marked or not, is one the marker has come to or will
  (`AcceptWaitKeepsCell`).
- `Cycle`: what the sweep has passed is marked; `Forwards`: forwarding pointers lead
  from live cells that move to marked cells of the old generation.

`Waiting` stands beside `IInv`: once an allocation has waited no collection is under
way, the acceptor is still at a pointer to be copied, and the scanned cell is
allocated, marked or to be visited, and on its dirty card, so that going on is the
same as having found it (`WaitingKeeps`). `Inductive` proves `[](IInv /\ Waiting)`.

There is one lemma per action and, for the actions at a pointer, one per conjunct.
Theorems: `WellFormedHolds`, `CardTableHolds`, `VisitedKeptHolds`,
`EvacuatesMarkedHolds`.

**HadesOldGen.** The free lists cannot be shown exact without the cells, nor the
counters without both, so there is one invariant, `Memory`:

- `Exact`: `Tidy` segments (every cell ends where the next one begins or at the level,
  and a fresh cell is marked), `Linked` lists (what `FreelistsExact` says of lists,
  chains and bits alone), every list holds the free cells of its segment and bucket
  but the chunk, and the chunk is a free cell;
- `Counted`: `BytesExact`, as sums over sets of units that do not overlap, so that a
  cell that comes or goes is a disjoint union (`SizeSplit`, `ObjectAdded`, `SweptSize`,
  `BytesReplaced`);
- `Unswept`: the free cells of the segments that the sweep has yet to visit carry no
  mark. Without it a free cell could end a run of dead ones and stay in the segment
  with no list.

Below it lie the facts about each operation: `CarveEffect` and `SweptEffect` (the cells
of a segment still tile it), `AddCellIs`, `RemoveCellIs`, `PoppedIs`, `RelinkedIs`
(lists), and one `Exact...` lemma for each way in which segments and lists change
together. `SearchMisses` is why the program does not die early: the bucket of a size
grows with it (`BucketGrows`), so that every cell that fits lies in a bucket that
`search` visits. `Requests` adds that the chunk of a waiting request stays too small,
and `LimitIs` that the unsigned comparison is the one intended when nothing wraps,
which is the hypothesis `Addressable`. Theorems: `FreelistsHold`, `BytesHold`,
`FreshHold`, `OutOfMemoryHolds`.

**ManagedChunkedList.** `HeldSafe` needs what a collection knows in the middle of
a chunk: `Scanned`, a count of zero means that none of the elements seen so far
is held (they may have been freed since they were counted, but cannot be taken
again while the mutator collects), and `ListInv`, the free list built so far
comes from finished chunks, so that no element gets on it twice. `TakeHead`,
`Prepend` and `NewList` are the facts about sequences without duplicates;
there is one lemma for each action. `VisitInv` says that during `forEach()` a held
element has been visited or is ahead of the loop; it needs only steps that the first
invariant already constrains. Theorems: `TypeCorrect`, `HeldSafety`,
`FreeListSafety`, `VisitsAll`.

**LimitedStorageProvider.** The budget left, the segment that the delegate is asked for
and the segments in use are together no more than the limit (`LimitInv`); it is an
inequality, because a failing delegate loses a segment. Theorem: `BudgetKept`.

**Induction over data.** The next two components compute their tables by recursive
functions. The library's induction theorems cannot be used (they take an operator
as a parameter), but a set of natural numbers can stand for the predicate: a set with
an element has a least one (`Least`), and a set that contains 0 and with `i` also
`i + 1`, below `n`, contains all numbers up to `n` (`UpTo`). `RehashRecursion`,
`EntriesRecursion` and `FreeingRecursion` say that the recursive functions are what
their equations say, and `UpTo` carries an invariant through their steps.

**OrderedHashMap.** `TableOK` says of a hash table and its entries: each bucket in use
tells a living entry and no two the same, probing for the key of an entry comes to its
bucket before an unused one (`Reachable`), keys are distinct, and as many buckets are
used or deleted as there are entries, the deleted ones included. The last part, with
the threshold of half the capacity, is why every lookup ends (`RoomToStop`).
`MapInv` says that of the table only while `Consistent` holds, and always of the counters,
that the capacity is one of those got by doubling, and that no iterator is beyond its
entries; a failed rehash leaves the part that does not look at the hash
table (`NotConsistent`). `PushOK`, `RemovedOK` and `ReplacedOK`
keep `TableOK`, `RehashedOK` by induction over the entries moved.

For the refinement `Rank` counts the living entries up to an index, and
`EntriesUnique` says that a sequence which has each living entry at its rank is what
the mapping computes; so there is one lemma for each change of the data table
(`EntriesAppend`, `EntriesReplace`, `EntriesRemove`, `EntriesCompact`) and one for each
action of `OrderedMap`. Iterators keep their place when a rehash compacts the
entries, since `UpdatedIndex` computes the rank. Theorems: `LookupAlwaysExact` and
`RefinesOrderedMap`: `Spec => ImplementsOrderedMap`.

**IdentifierTable.** Probing goes by triangular numbers. Two of the first `c` probes
modulo `c` differ if `c` is a power of 2 (`ProbesDiffer`, by the parity of the factors
of their difference), so that they come to every place (`ProbesCover`) and a lookup in
a table with an empty place ends with the symbol or a place for it (`LookupFinds`).
`SymbolInv` consists of

- `TableKept`: the hash table is `Sound` (each symbol in it is `Reached` by the
  probes for its string before an empty place, no two have the same string) and
  `Complete` (each symbol with a unique string is in it), and a quarter of it is empty
  (`NeverFull`), because `nonEmptyCount` is no less than the places in use. A freed symbol
  leaves a deleted place, which keeps those behind it reached (`RemoveKeeps`);
- `CreatingKept`: the place that was looked up before the string was allocated is still
  one where the symbol will be found, whatever a collection in between freed;
- `FreeKept`: there is an enumeration of the free entries, each once, from the end of
  their list to its head (`Chained`); `ListAccounted` gets the length of the list from it;
- `MarkKept`: while marking, every symbol that a root or a slot holds is marked by the
  marker or a barrier, is newer than the marking, is not a plain string, or is in
  a slot that the marker has not scanned yet. When the slots are scanned it says
  that what is freed is held by nobody, weak roots being cleared with it.

`RehashKeeps` and `FreeingKeeps` are the inductions over the old table and the vector.
Theorems: `SymbolsStayLive`, `SymbolsFound`.

**FinalizationRegistry.** `FreeInv`: there is an enumeration of the free slots, each
once, in which every slot holds the index of the one before it; `FreeListExact`
says the same with a sequence whose length is computed, and follows by counting.
`CountInv`: `numUsedCells` is the number of slots in use and of the registrations that
failed, and no record is in two slots (`OneSlot`), without which unregistering and calling back would not agree.
`FateInv` strengthens `RecordsAccounted` by where each record is. `CleanupInv` is
about the loop: a record that is due has been called back, or unregistered, or is in
a slot that the loop will come to (`Pending`); and if the array was replaced under
the loop, the old and the new one agree behind the loop's index. The last part is
where the hypothesis is needed. Theorems: `AccountsForRecords`, `FreeListIsExact`,
`CleanupMissesNone`. The assertion of `tryShrink`, that it copies exactly `numUsedCells_`
elements, is what `FreeListExact` says while no registration has failed.

**FinalizationCheckpoint.** `ListInv`: two places of the list hold the same only
if they are empty, so that a registry has one place. `LoopInv`: what lies before
the loop's index has been visited and what lies behind has not, and the registry
being cleaned up is still there. The step that needs work is `RemoveKeeps`, where
the last place moves to the index. Theorem: `VisitsInOrder`.

**AsyncDebugger.** `RanInv`: a task's flag counts its runs. `InterruptInv`: a task
that was submitted has run or is in the queue of interrupts, and nobody is inside
`enqueueTask` when the API is destroyed. `PauseInv`: inside `didPause()` a command
is waited for or has been given, the loop ends without one only if the callback
is gone, and no interrupt runs once there is one. Theorems: `RunsOnce`,
`CommandReturned`, and the action property `NoneTakenAfterCommand`.

**SerialExecutor.** `QueueInv`: what was begun followed by what is queued is what
was added. `WorkerInv`: every worker but the last one has ended, and the last one
too before it is replaced, since `threadState_` says that it timed out and `add`
joins it; `add` is over when the destructor begins. Theorem: `SerialExecution`.

**TimeLimitMonitor.** `RoundInv`: while the timer thread holds `lock_`, the time it
will wait for is no later than the deadlines it has looked at. Together with the
fact that a deadline set later comes with a notification it makes `SleepBounded`
inductive. Theorem: `NeverOversleeps`.

**SamplingProfiler.** `SuspendInv`: `suspendCount_` is the number of nested
suspensions, none of them overlaps a signal, and the captured stack is empty
without any. Theorems: `WalkIsSafe`, `SamplesAreRooted`.

Every invariant, action property and refinement of the passing runs is stated by a theorem.

Out of the prover's reach and left to TLC: liveness under fairness and ENABLED
(`CallsReturn`, `BackgroundFinishes`, `TasksRun`, `TasksExecuted`,
`DeadlinesAnswered`, `SamplerReturns`).

## 13. Where code and comments disagree

Run `registry_grow`: `cleanup()` iterates over the array that it read before the
loop (`lib/VM/JSFinalizationRegistry.cpp:154`). If one callback registers enough
cells to replace the array and then unregisters a record that is dead and lies
ahead, the record is called back all the same and its slot freed twice:
`numUsedCells_` wraps around and the assertion of `tryShrink`, "Must copy exactly
numUsedCells_ elements", fails.

Run `async_chain`: the callback of an evaluation may ask for another one, but the
callback for that one is then cleared (`API/hermes/AsyncDebuggerAPI.cpp:141`):
the assertion "There should always be a non-empty callback to receive the
EvalResult" fails when it ends.

Run `profiler_samples`: `clear()`, with which every dump ends, empties the roots but
not the stack captured by `suspend()` (`lib/VM/Profiler/SamplingProfiler.cpp:230`).
While sampling is suspended the timer thread goes on copying that stack, so that
the samples after the dump refer to domains that are no roots any more and to
places in the emptied list of native functions.

Run `async_return`: a client may set and clear the event callback at any time, and a
callback that is cleared ends a pause. If it is cleared and another is set before
`didPause()` has left its loop, `didPause()` returns without a command although there
is a callback, and the assertion "Should only exit didPause with a debugger::Command" fails
(`API/hermes/AsyncDebuggerAPI.cpp:195`); without assertions the program is announced
to be resumed and gets what is left of an earlier command.

Met while modelling, and not given a run of their own:

- `registerCell()` counts the record (`lib/VM/JSFinalizationRegistry.cpp:221`) before it
  pushes it, and does not take that back when the array cannot grow
  (`lib/VM/ArrayStorage.cpp:93`): the count stays one too high, and the assertion of
  `tryShrink` fails at its next copy; without assertions the array only shrinks later
  than it should. `RegisterFails` does this, `failed` has those records, and `FreeListExact` says
  that nothing else goes wrong. With 6 records, `kInitCapacity = 4` and
  `MustCopyExactly` as the invariant of `Registry.cfg`, TLC finds it violated.
- `rehash()` sets `capacity_` and credits the memory of the new table
  (`lib/VM/OrderedHashMap.cpp:213`, `:218`) before it creates it, and leaves both
  when that fails; `erase()` ignores the failure. The next lookup begins with the
  assertion "Inconsistent capacity" (`:167`), which fails; without it, the lookup masks
  with the wrong capacity. Creating an array storage fails as an exception only for an
  array that is a large object or longer than the maximal capacity. `InsertFails` and
  `EraseOnly` leave such a table, `LookupExact` and the refinement are about the
  tables that the assertion lets pass. With the invariant `ConsistentCapacity` in
  `Tables.cfg` TLC finds it violated.
- `clear()` replaces a grown hash table without debiting its memory
  (`lib/VM/OrderedHashMap.cpp:601`), and `cleanUp()` debits what the table has at the
  end (`include/hermes/VM/OrderedHashMap.h:206`): the collector's account of external
  memory, and with it the threshold of collections, drifts with every `clear()`. With
  `StorageMayFail = FALSE` and the invariant `ExternalMemoryExact` in `Tables.cfg` TLC
  finds it violated.
- `newStorageImpl()` compares the budget with the size of one segment and subtracts the
  size that was asked for (`lib/VM/LimitedStorageProvider.cpp:19`): a jumbo segment is
  granted beyond the limit, and the budget, an unsigned number, wraps around. With
  `Sizes = {1, 2}`, `Limit = 3` and the invariant `WithinLimit` in `Tables.cfg` TLC finds
  it violated.
- `createSegmentImpl` (`lib/VM/gcs/HadesGC.cpp:3256`) compares the footprint with
  `maxHeapSize_ - segmentSize + kSegmentUnitSize`, in unsigned arithmetic. For a
  jumbo segment larger than the limit plus one unit the difference wraps around and
  the segment is created, although the comment above it says that an allocation
  which "will make the heap footprint larger than the max heap size plus one unit
  segment size" is an out of memory error. `MaxHeapReached` has the wrap; with
  `MaxHeapSize = 2` and a request of four segments TLC finds `OutOfMemoryExact`
  violated by the first allocation.
- The second attempt of `OldGen::allocSlow` searches the lists but not
  `allocChunk_`, and the fast path does not use a chunk of exactly the requested
  size: the program can run out of memory with a chunk that would do.
  `OutOfMemoryExact` therefore leaves the chunk out.
- `Debugger::runDebugger` drops an implicit break that arrives during a step
  (`lib/VM/Debugger/Debugger.cpp:148`), although the interpreter has already
  cleared the request, and nothing raises it again: a program that runs on for ever
  after the step does not run the queued interrupts. The same happens to a break that
  arrives in JavaScript of a pause (`include/hermes/VM/Interpreter.h:224`). `TasksRun`
  says which tasks that can leave waiting (`Stranded`).
- Comments at `lib/VM/gcs/HadesGC.cpp:1306` ("finalizeAll calls
  waitForCollectionToFinish, so there should be no ongoing collection.") and
  `:1610` are out of date: `finalizeAll` (`:1966`) only takes `gcMutex_` and sets
  the phase to None, and the destructor may start with `backgroundTaskActive_`
  set. The task sees the phase and leaves, and `~Executor` joins its thread
  (`CallsReturn` covers it).
- Between the check in `ManagedChunkedList::forEach()` and the access to the
  element a finalizer may free it (the step from `accept` in the model), so that
  the assertion "Value not present" (`lib/VM/OrderedHashMap.cpp:37`) can fail in
  builds that have it although nothing is wrong.

A comment at `include/hermes/VM/HadesGC.h:1220` says that `markState_` and its
contents are only accessed with `gcMutex_` held; `barrierEnqueue` writes the push
chunk and its index without it. This is sound, and `BarriersWhileMarking` is the
reason: the chunk belongs to the mutator, and the object exists while barriers
are on.

## 14. What is not modelled

`PROJECT.json` gives the reason for each component. In short: the debugger's
breakpoints, hidden classes and the API adapters are sequential; the compiler, the interpreter's object
semantics and the regular expression engine are functions of unbounded input
whose correctness is not a question of interleaving or state; conversions,
statistics, tracing and adapters are input and output; `MallocGC` is a
sequential collector for debugging; `external/` and generated code are left
aside. In the modelled components, ID tracking, heap snapshots, statistics, the
handle sanitizer and the pause time heuristics are left out.
