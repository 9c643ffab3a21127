------------------------ MODULE LimitedStorageProvider ------------------------
(* LimitedStorageProvider, which hands requests for storage on to another     *)
(* provider as long as a budget lasts.  Calls do not overlap: the collector's *)
(* mutex is held by whoever creates or frees a segment.                       *)
(*                                                                            *)
(* The unit is the size of a FixedSizeHeapSegment.                            *)
EXTENDS Naturals, FiniteSets

CONSTANTS
    Storages,       \* pointers that the delegate may return
    Sizes,          \* in segments, that are asked for
    Limit,
    SizeMax         \* of limit_, a size_t, in segments

ASSUME LimitAssumption == Limit \in Nat /\ SizeMax \in Nat /\ Limit < SizeMax

VARIABLES
    limit,          \* limit_
    delegated,      \* a request that the delegate has not answered yet, or 0
    sizeOf          \* of the storages that the delegate has handed out, else 0

limitVars == <<limit, delegated, sizeOf>>

Exhausted == limit < 1

\* newStorageImpl(): an error, or the budget is reduced and the delegate asked.
RequestStorage(sz) ==
    /\ delegated = 0
    /\ IF Exhausted THEN UNCHANGED <<limit, delegated>>
       ELSE limit' = (limit + SizeMax - sz) % SizeMax /\ delegated' = sz
    /\ UNCHANGED sizeOf

\* The answer is the caller's; nothing is given back if the delegate fails.
DelegateAnswers ==
    /\ delegated # 0 /\ delegated' = 0
    /\ \/ \E p \in Storages :
            sizeOf[p] = 0 /\ sizeOf' = [sizeOf EXCEPT ![p] = delegated]
       \/ UNCHANGED sizeOf
    /\ UNCHANGED limit

\* deleteStorageImpl(); of a null pointer, which is no step here, nothing.
DeleteStorage(p) ==
    /\ delegated = 0 /\ sizeOf[p] # 0
    /\ sizeOf' = [sizeOf EXCEPT ![p] = 0]
    /\ limit' = (limit + sizeOf[p]) % SizeMax
    /\ UNCHANGED delegated

LimitInit ==
    /\ limit = Limit /\ delegated = 0 /\ sizeOf = [p \in Storages |-> 0]
LimitNext ==
    \/ \E sz \in Sizes : RequestStorage(sz)
    \/ DelegateAnswers
    \/ \E p \in Storages : DeleteStorage(p)

LimitSpec == LimitInit /\ [][LimitNext]_limitVars

\* The storage that is in use never exceeds the limit, whatever requests the
\* delegate fails and in whatever order storages are deleted ("imposes an extra
\* limit on requests for new storage").
SegmentsInUse == UNION {{p} \X (1..sizeOf[p]) : p \in Storages}
WithinLimit == Cardinality(SegmentsInUse) <= Limit
==============================================================================
