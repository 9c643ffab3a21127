----------------------- MODULE FinalizationCheckpoint -----------------------
(* Runtime::cleanUpFinalizationCallbacks: at a microtask checkpoint every     *)
(* finalization registry of the runtime is cleaned up.  The callbacks of one  *)
(* registry create others, and garbage collections in them empty the weak     *)
(* roots of the list, which the loop removes by moving the last one there.    *)
(* What one cleanup does is FinalizationRegistry's.  lib/VM/Runtime.cpp.      *)
EXTENDS Integers, Sequences, FiniteSets

CONSTANTS
    Registries,
    Null        \* not a registry: an empty weak root

ASSUME NullAssumption == Null \notin Registries

VARIABLES
    list,       \* finalizationRegistries_; Null is an empty weak root
    created, alive,     \* registries of the program
    stage,      \* "idle", "loop", or "cleanup" while callbacks run
    index,      \* the loop's index (from 1)
    visited     \* registries cleaned up in this checkpoint

checkpointVars == <<list, created, alive, stage, index, visited>>

JSRuns == stage \in {"idle", "cleanup"}

\* new FinalizationRegistry(callback)
AddFinalizationRegistry(r) ==
    /\ JSRuns /\ r \notin created
    /\ created' = created \cup {r} /\ alive' = alive \cup {r}
    /\ list' = Append(list, r)
    /\ UNCHANGED <<stage, index, visited>>

\* A garbage collection clears the weak roots of the registries that died; the
\* one that is being cleaned up is pinned (lv.registry).
Pinned == IF stage = "cleanup" THEN {list[index]} ELSE {}
Collect(r) ==
    /\ JSRuns /\ r \in alive \ Pinned
    /\ alive' = alive \ {r}
    /\ list' = [k \in 1 .. Len(list) |-> IF list[k] = r THEN Null ELSE list[k]]
    /\ UNCHANGED <<created, stage, index, visited>>

StartCheckpoint ==
    /\ stage = "idle" /\ stage' = "loop" /\ index' = 1 /\ visited' = {}
    /\ UNCHANGED <<list, created, alive>>

\* cleanup() of the registry at the index begins, ...
Visit ==
    /\ stage = "loop" /\ index <= Len(list) /\ list[index] # Null
    /\ stage' = "cleanup" /\ visited' = visited \cup {list[index]}
    /\ UNCHANGED <<list, created, alive, index>>

\* ... returns, ...
CleanupReturns ==
    /\ stage = "cleanup" /\ stage' = "loop" /\ index' = index + 1
    /\ UNCHANGED <<list, created, alive, visited>>

\* ... or throws, which ends the checkpoint.
CleanupThrows ==
    /\ stage = "cleanup" /\ stage' = "idle" /\ index' = 0
    /\ UNCHANGED <<list, created, alive, visited>>

\* mutant: the index moves on past the registry put there.
SwapRemove_MovesOn ==
    /\ list' = SubSeq([list EXCEPT ![index] = list[Len(list)]], 1, Len(list) - 1)
    /\ index' = index + 1

\* An empty root is overwritten by the last one.
SwapRemove ==
    /\ list' = SubSeq([list EXCEPT ![index] = list[Len(list)]], 1, Len(list) - 1)
    /\ UNCHANGED index

RemoveDead ==
    /\ stage = "loop" /\ index <= Len(list) /\ list[index] = Null
    /\ SwapRemove
    /\ UNCHANGED <<created, alive, stage, visited>>

CheckpointOver == stage = "loop" /\ index > Len(list)
EndCheckpoint ==
    /\ CheckpointOver /\ stage' = "idle" /\ index' = 0
    /\ UNCHANGED <<list, created, alive, visited>>

CheckpointInit ==
    /\ list = <<>> /\ created = {} /\ alive = {}
    /\ stage = "idle" /\ index = 0 /\ visited = {}

CheckpointNext ==
    \/ \E r \in Registries : AddFinalizationRegistry(r) \/ Collect(r)
    \/ StartCheckpoint \/ Visit \/ CleanupReturns \/ CleanupThrows
    \/ RemoveDead \/ EndCheckpoint
CheckpointSpec == CheckpointInit /\ [][CheckpointNext]_checkpointVars

------------------------------------------------------------------------------
\* Every registry that is alive stays in the list, exactly once, and no root
\* refers to a dead one (cleanUpFinalizationCallbacks).
Places(r) == {k \in 1 .. Len(list) : list[k] = r}
ListExact ==
    /\ \A r \in alive : Cardinality(Places(r)) = 1
    /\ \A k \in 1 .. Len(list) : list[k] \in alive \cup {Null}

\* The loop neither skips nor repeats a registry although the list is reordered
\* and extended under it: what lies before the index has been visited, what
\* lies behind has not, so that a checkpoint that ends has visited all that are
\* alive, those created in its callbacks included (cleanUpFinalizationCallbacks).
VisitedInOrder ==
    /\ ListExact
    /\ stage \in {"loop", "cleanup"} =>
         \A r \in alive : \A k \in Places(r) :
             r \in visited <=> k < index \/ (k = index /\ stage = "cleanup")
==============================================================================
