--------------------------- MODULE MCHadesThreads ---------------------------
(* The two builds of Hades for TLC: the concurrent one, whose constants are   *)
(* in the .cfg, and the incremental one, which has no background thread and   *)
(* here a larger barrier chunk.  A behaviour is one of one of the builds.     *)
EXTENDS HadesThreads

Incremental == INSTANCE HadesThreads WITH kConcurrentGC <- FALSE,
                                          kBarrierChunkSize <- 2

VARIABLE concurrent    \* the build that runs; it never changes
buildVars == <<vars, concurrent>>

ConcurrentNext  == concurrent /\ Next /\ UNCHANGED concurrent
IncrementalNext == ~concurrent /\ Incremental!Next /\ UNCHANGED concurrent

BuildSpec ==
    /\ \/ concurrent = TRUE /\ Init
       \/ concurrent = FALSE /\ Incremental!Init
    /\ [][ConcurrentNext \/ IncrementalNext]_buildVars
    /\ WF_buildVars(concurrent /\ Background /\ UNCHANGED concurrent)
    /\ WF_buildVars(concurrent /\ InCollector /\ UNCHANGED concurrent)
    /\ WF_buildVars(~concurrent /\ Incremental!InCollector /\ UNCHANGED concurrent)
==============================================================================
