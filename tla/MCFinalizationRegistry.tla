----------------------- MODULE MCFinalizationRegistry -----------------------
(* Small instances of FinalizationRegistry, one registry with its records,    *)
(* and of FinalizationCheckpoint, the runtime's list of registries, for TLC.  *)
(* A behaviour is one of one of them.                                         *)
EXTENDS FinalizationRegistry, FinalizationCheckpoint, TLC

VARIABLE part      \* it never changes

partVars == <<vars, checkpointVars, part>>

PartInit ==
    /\ part \in {"registry", "checkpoint"}
    /\ Init /\ CheckpointInit

RegistryNext ==
    /\ part = "registry" /\ Next
    /\ UNCHANGED <<checkpointVars, part>>

ListNext ==
    /\ part = "checkpoint" /\ CheckpointNext
    /\ UNCHANGED <<vars, part>>

PartSpec == PartInit /\ [][RegistryNext \/ ListNext]_partVars

Symmetry == Permutations(Records) \cup Permutations(Tokens)
==============================================================================
