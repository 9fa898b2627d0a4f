-------------------------- MODULE MCPacketStorage --------------------------
(* What packets wait in: the observation queue with more threads than slots  *)
(* (no capacity, one slot, two), callers of a buffer pool, the backpressure   *)
(* controller, and the metadata workers behind the processing thread.  They   *)
(* share no state, so a behaviour exercises one.                              *)
EXTENDS ObservationQueue, BufferPool, Backpressure, Enrichment

VARIABLE scenario

storageVars == <<vars, poolVars, pressureVars, enrichmentVars, scenario>>

SmallCapacities == 0 .. 2

\* Valid configurations, and ones the default replaces: no elevated level, an
\* elevated one above the critical one.
MCWatermarks == [elevated : {0, 1, 50, 75, 99}, critical : {2, 50, 95, 100}]

\* Sizes whose percentages fit the word of the instance, and one that saturates.
MCQueueSizes == (0 .. 13) \cup {20}

StorageInit ==
    /\ Init /\ PoolInit /\ PressureInit /\ EnrichmentInit
    /\ scenario \in {"queue", "pool", "pressure", "enrichment"}
    /\ scenario # "queue" => capacity = 0
    /\ scenario # "pressure" => marks = DefaultMarks

\* Once stop_all has begun nobody else has to move: it ends by itself, which is
\* what PipelineDrains says.
Stopping == stage # "open" /\ UNCHANGED enrichmentVars

StorageNext ==
    /\ \/ scenario = "queue" /\ Next /\ UNCHANGED <<poolVars, pressureVars, enrichmentVars>>
       \/ scenario = "pool" /\ PoolNext /\ UNCHANGED <<vars, pressureVars, enrichmentVars>>
       \/ scenario = "pressure" /\ Ask /\ UNCHANGED <<vars, poolVars, enrichmentVars>>
       \/ /\ scenario = "enrichment" /\ (EnrichmentNext \/ Stopping)
          /\ UNCHANGED <<vars, poolVars, pressureVars>>
    /\ UNCHANGED scenario

StorageSpec == StorageInit /\ [][StorageNext]_storageVars /\ Fairness /\ EnrichmentFairness
=============================================================================
