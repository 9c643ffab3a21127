------------------------------- MODULE MCTables -------------------------------
(* Small instances for TLC of ManagedChunkedList, OrderedHashMap and the      *)
(* budget of a LimitedStorageProvider.  They share nothing, so a behaviour is *)
(* one of one of them; the bounds are in the .cfg files.                      *)
EXTENDS ManagedChunkedList, OrderedHashMap, LimitedStorageProvider

CONSTANTS
    Parts,                                          \* of the three, which ones
    k1, k2, k3, k4

\* Keys that collide in every table, in small ones only, and at the last bucket.
CollidingKeys == [k \in Keys |->
    IF k = k1 THEN 7 ELSE IF k = k2 THEN 3 ELSE IF k = k3 THEN 7 ELSE 0]

VARIABLE part                                       \* it never changes

TablesInit == part \in Parts /\ ChunksInit /\ Init /\ LimitInit

ListStep ==
    /\ part = "list" /\ ChunksNext
    /\ UNCHANGED <<vars, limitVars, part>>
MapStep ==
    /\ part = "map" /\ Next
    /\ UNCHANGED <<chunksVars, limitVars, part>>
StorageStep ==
    /\ part = "storage" /\ LimitNext
    /\ UNCHANGED <<vars, chunksVars, part>>

TablesNext == ListStep \/ MapStep \/ StorageStep
TablesSpec ==
    TablesInit /\ [][TablesNext]_<<vars, chunksVars, limitVars, part>>
==============================================================================
