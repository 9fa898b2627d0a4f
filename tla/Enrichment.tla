----------------------------- MODULE Enrichment -----------------------------
(***************************************************************************)
(* The second half of the processing pipeline (ffi/src/processing.rs): an  *)
(* observation's metadata is stored, its addresses are handed to the       *)
(* metadata workers, and the results that are ready are taken.  The store  *)
(* and the pool have a lock each, so workers run in between; shutdown      *)
(* stops the pool once the processing thread has been joined.              *)
(***************************************************************************)
EXTENDS WorkerPool

CONSTANT MaxEnriched     \* bound: observations processed

\* A lookup: the observation and which of its addresses.
Items == Nat \X {"source", "destination"}

ASSUME EnrichmentAssumption ==
    MaxEnriched \in Nat /\ Idle \notin Items /\ Exited \notin Items

VARIABLES
    doing,          \* "rest", "annotate", "enqueue", "drain"
    id,          \* the observation in hand: they are numbered from 1
    todo,        \* its addresses still to be handed to the workers
    store,       \* observations with metadata
    offered,     \* addresses handed over so far
    processed, failures, saturated   \* the statistics: processed, errors, queue saturation

enrichVars == <<doing, id, todo, store, offered, processed, failures, saturated>>

enrichmentVars == <<workerVars, enrichVars>>

EnrichmentInit ==
    /\ WorkerInit
    /\ doing = "rest" /\ id = 0 /\ todo = <<>> /\ store = {} /\ offered = 0
    /\ processed = 0 /\ failures = 0 /\ saturated = 0

\* The next observation: one that did not parse is an error and has no
\* addresses, ARP has none either.
TakeNext(addresses, parsed) ==
    /\ doing = "rest" /\ id < MaxEnriched /\ stage = "open"
    /\ addresses # <<>> => parsed
    /\ id' = id + 1
    /\ failures' = IF parsed THEN failures ELSE failures + 1
    /\ todo' = addresses
    /\ doing' = "annotate"
    /\ UNCHANGED <<workerVars, store, offered, processed, saturated>>

\* The backend's metadata and the provenance.
Annotate ==
    /\ doing = "annotate"
    /\ store' = store \cup {id}
    /\ doing' = "enqueue"
    /\ UNCHANGED <<workerVars, id, todo, offered, processed, failures, saturated>>

EnqueueOne ==
    /\ doing = "enqueue" /\ todo # <<>>
    /\ Enqueue(<<id, Head(todo)>>)
    /\ saturated' = IF Saturated THEN saturated + 1 ELSE saturated
    /\ failures' = IF Disconnected THEN failures + 1 ELSE failures
    /\ offered' = offered + 1
    /\ todo' = Tail(todo)
    /\ UNCHANGED <<doing, id, store, processed>>

EnqueueDone ==
    /\ doing = "enqueue" /\ todo = <<>>
    /\ doing' = "drain"
    /\ UNCHANGED <<workerVars, id, todo, store, offered, processed, failures, saturated>>

\* One ready result, recorded as metadata of the observation it is about.
DrainOne ==
    /\ doing = "drain"
    /\ Deliver
    /\ store' = store \cup {Head(results)[1]}
    /\ UNCHANGED <<doing, id, todo, offered, processed, failures, saturated>>

DrainDone ==
    /\ doing = "drain" /\ results = <<>>
    /\ processed' = processed + 1
    /\ doing' = "rest"
    /\ UNCHANGED <<workerVars, id, todo, store, offered, failures, saturated>>

\* Shutdown, with the processing thread gone ...
Stop ==
    /\ doing = "rest"
    /\ StopAll
    /\ UNCHANGED enrichVars

\* ... empties the store once the workers have been joined.
Finish ==
    /\ StopJoin
    /\ store' = {}
    /\ UNCHANGED <<doing, id, todo, offered, processed, failures, saturated>>

Process ==
    \/ \E addresses \in {<<>>, <<"source", "destination">>}, parsed \in BOOLEAN : TakeNext(addresses, parsed)
    \/ Annotate \/ EnqueueOne \/ EnqueueDone \/ DrainOne \/ DrainDone

WorkerStep(w) == Worker(w) /\ UNCHANGED enrichVars

Drain == StopDrain /\ UNCHANGED enrichVars

EnrichmentNext == Process \/ (\E w \in Workers : WorkerStep(w)) \/ Stop \/ Drain \/ Finish

\* Threads are scheduled: the processing thread goes on with the observation
\* it has, every worker with its item, and stop_all with its loop.
EnrichmentFairness ==
    /\ WF_enrichmentVars(Annotate \/ EnqueueOne \/ EnqueueDone \/ DrainOne \/ DrainDone)
    /\ \A w \in Workers : WF_enrichmentVars(WorkerStep(w))
    /\ WF_enrichmentVars(Drain)
    /\ WF_enrichmentVars(Finish)

EnrichmentSpec == EnrichmentInit /\ [][EnrichmentNext]_enrichmentVars /\ EnrichmentFairness

-----------------------------------------------------------------------------
(* Properties *)

\* Every address handed over is accounted for: accepted, or counted as queue
\* saturation, or as an error; every observation is counted once.
CountersAgree ==
    /\ offered <= Cardinality(accepted) + saturated + failures
    /\ Cardinality(accepted) + saturated <= offered
    /\ processed = IF doing = "rest" THEN id ELSE id - 1

\* The bookkeeping of the enrichment: no accepted lookup is lost or answered
\* twice, every refused one shows in the statistics, and metadata is kept for
\* observations that were taken only (processing.rs:274-341).
EnrichmentInv ==
    /\ NoLookupLost
    /\ CountersAgree
    /\ store \subseteq 1 .. id

\* stop_all returns although workers may be blocked on a full result channel
\* (workers.rs:138-166), and an observation taken is processed to its end
\* although workers keep publishing results.
PipelineDrains ==
    /\ stage = "draining" ~> stage = "joined"
    /\ doing # "rest" ~> doing = "rest"
=============================================================================
