----------------------------- MODULE ManagedHeap -----------------------------
(***************************************************************************)
(* What the garbage collector promises the program, without a collector:   *)
(* a graph of cells that the program reads and writes through its roots,   *)
(* weak references and weak map entries, from which cells disappear only   *)
(* when they are unreachable, together with every weak reference to them.  *)
(*                                                                         *)
(* HadesMark is shown to implement this specification.                     *)
(***************************************************************************)
CONSTANTS
    Cells,       \* identities of cells
    Fields,      \* pointer fields of a cell
    WeakSlots,   \* WeakRefSlot's
    EntrySlots,  \* WeakMapEntrySlot's
    Null         \* no pointer

VARIABLES
    live,        \* the cells that exist
    field,       \* field[c][f]: a cell or Null, for live c
    roots,       \* cells the program holds in registers and handles
    weak,        \* weak[w]: the target of a weak reference, or Null
    entry        \* entry[s]: [owner, key, value], or NoEntry

hvars == <<live, field, roots, weak, entry>>

Pointer == Cells \cup {Null}
NoEntry == [owner |-> Null, key |-> Null, value |-> Null]

\* T is closed under the pointers the program can follow: fields, and the value
\* of a weak map entry whose map and key it holds.
Closed(T) ==
    /\ \A c \in T : \A f \in Fields : field[c][f] \in T \cup {Null}
    /\ \A s \in EntrySlots :
           entry[s].owner \in T /\ entry[s].key \in T
               => entry[s].value \in T \cup {Null}

\* The smallest such set that contains the roots.
Reachable ==
    {c \in live : \A T \in SUBSET live : roots \subseteq T /\ Closed(T) => c \in T}

------------------------------------------------------------------------------
Allocate(c, init) ==
    /\ c \notin live
    /\ live' = live \cup {c}
    /\ field' = [d \in live \cup {c} |-> IF d = c THEN init ELSE field[d]]
    /\ roots' = roots \cup {c}
    /\ UNCHANGED <<weak, entry>>

Write(c, f, v) ==
    /\ field' = [field EXCEPT ![c][f] = v]
    /\ UNCHANGED <<live, roots, weak, entry>>

Hold(c) ==
    /\ roots' = roots \cup {c}
    /\ UNCHANGED <<live, field, weak, entry>>

Read(c, f) == field[c][f] # Null /\ Hold(field[c][f])

Drop(c) ==
    /\ roots' = roots \ {c}
    /\ UNCHANGED <<live, field, weak, entry>>

MakeWeak(w, c) ==
    /\ weak[w] = Null
    /\ weak' = [weak EXCEPT ![w] = c]
    /\ UNCHANGED <<live, field, roots, entry>>

Deref(w) == weak[w] # Null /\ Hold(weak[w])

MapSet(s, m, k, v) ==
    /\ \/ entry[s] = NoEntry
       \/ entry[s].owner = m /\ entry[s].key = k
    /\ entry' = [entry EXCEPT ![s] = [owner |-> m, key |-> k, value |-> v]]
    /\ UNCHANGED <<live, field, roots, weak>>

MapGet(s) ==
    /\ entry[s].owner \in roots /\ entry[s].key \in roots
    /\ entry[s].value # Null
    /\ Hold(entry[s].value)

MapDelete(s) ==
    /\ entry[s].owner \in roots /\ entry[s].key \in roots
    /\ entry' = [entry EXCEPT ![s] = NoEntry]
    /\ UNCHANGED <<live, field, roots, weak>>

\* The collector's step: unreachable cells disappear, at once with the weak
\* references to them and the entries they own or are the key of, and no cell
\* that remains refers to them.
Reclaim(dead) ==
    /\ dead \cap Reachable = {}
    /\ live' = live \ dead
    /\ field' = [c \in live \ dead |-> field[c]]
    /\ \A c \in live \ dead : \A f \in Fields : field[c][f] \notin dead
    /\ weak' = [w \in WeakSlots |-> IF weak[w] \in dead THEN Null ELSE weak[w]]
    /\ entry' = [s \in EntrySlots |->
                   IF entry[s].owner \in dead \/ entry[s].key \in dead
                   THEN NoEntry ELSE entry[s]]
    /\ \A s \in EntrySlots : entry'[s].value \notin dead
    /\ UNCHANGED roots

------------------------------------------------------------------------------
HInit ==
    /\ live \in SUBSET Cells
    /\ field \in [live -> [Fields -> live \cup {Null}]]
    /\ roots \in SUBSET live
    /\ weak \in [WeakSlots -> live \cup {Null}]
    /\ entry \in [EntrySlots ->
                    [owner : live, key : live, value : live \cup {Null}]
                        \cup {NoEntry}]

HNext ==
    \/ \E c \in Cells : \E init \in [Fields -> roots \cup {Null}] :
           Allocate(c, init)
    \/ \E c \in roots : \E f \in Fields :
           Read(c, f) \/ \E v \in roots \cup {Null} : Write(c, f, v)
    \/ \E c \in roots : Drop(c) \/ \E w \in WeakSlots : MakeWeak(w, c)
    \/ \E w \in WeakSlots : Deref(w)
    \/ \E s \in EntrySlots :
           \/ MapGet(s) \/ MapDelete(s)
           \/ \E m, k \in roots : \E v \in roots \cup {Null} : MapSet(s, m, k, v)
    \/ \E dead \in SUBSET live : Reclaim(dead)

HSpec == HInit /\ [][HNext]_hvars
==============================================================================
