----------------------------- MODULE WorkerPool -----------------------------
(***************************************************************************)
(* The metadata worker pool (metadata-engine/src/workers.rs): one bounded  *)
(* queue per worker, filled round robin, and one bounded channel for the   *)
(* results, on which a worker blocks.  Stopping the pool closes the        *)
(* queues and drains the channel until the last worker has gone.           *)
(*                                                                         *)
(* mpsc channels are modelled as sequences: a send to a full one blocks,   *)
(* a receive from an empty one whose senders are gone ends the receiver.   *)
(***************************************************************************)
EXTENDS Integers, FiniteSets, SequencesExt

CONSTANTS
    WorkerCount,     \* worker_count
    QueueCapacity,   \* capacity of each worker's queue
    Idle, Exited     \* a worker without an item, a worker that has ended

ASSUME WorkerAssumption ==
    WorkerCount \in Nat \ {0} /\ QueueCapacity \in Nat \ {0} /\ Idle # Exited

VARIABLES
    queues,      \* queues[w]: items accepted for worker w
    working,     \* working[w]: the item worker w is at, Idle or Exited
    results,     \* the result channel
    nextWorker,  \* next_worker, modulo the number of workers
    stage,       \* stop_all: "open", "draining", "joined"
    accepted,    \* items enqueue has accepted
    delivered,   \* results the Engine has received
    discarded    \* results stop_all has thrown away

workerVars == <<queues, working, results, nextWorker, stage, accepted, delivered, discarded>>

Workers == 0 .. WorkerCount - 1

ResultCapacity == QueueCapacity * WorkerCount

WorkerInit ==
    /\ queues = [w \in Workers |-> <<>>]
    /\ working = [w \in Workers |-> Idle]
    /\ results = <<>>
    /\ nextWorker = 0
    /\ stage = "open"
    /\ accepted = {} /\ delivered = {} /\ discarded = {}

\* The workers in the order enqueue tries them.
Probe(offset) == (nextWorker + offset) % WorkerCount

HasRoom(w) == Len(queues[w]) < QueueCapacity

Saturated == stage = "open" /\ \A w \in Workers : ~HasRoom(w)

Disconnected == stage # "open"

\* The queue enqueue chooses: the first with room, from the next worker on.
Chosen ==
    CHOOSE w \in Workers :
        \E offset \in Workers :
            /\ w = Probe(offset) /\ HasRoom(w)
            /\ \A before \in 0 .. offset - 1 : ~HasRoom(Probe(before))

\* enqueue: with every queue full the item comes back, and after stop_all
\* there is no sender left to try.
Enqueue(item) ==
    /\ IF Saturated \/ Disconnected
       THEN UNCHANGED <<queues, accepted>>
       ELSE /\ queues' = [queues EXCEPT ![Chosen] = Append(@, item)]
            /\ accepted' = accepted \cup {item}
    /\ nextWorker' = IF Disconnected THEN nextWorker ELSE (nextWorker + 1) % WorkerCount
    /\ UNCHANGED <<working, results, stage, delivered, discarded>>

\* A worker takes its next item; the lookup itself answers at once.
Receive(w) ==
    /\ working[w] = Idle /\ queues[w] # <<>>
    /\ working' = [working EXCEPT ![w] = Head(queues[w])]
    /\ queues' = [queues EXCEPT ![w] = Tail(@)]
    /\ UNCHANGED <<results, nextWorker, stage, accepted, delivered, discarded>>

\* It publishes the result, and waits while the channel is full.
Publish(w) ==
    /\ working[w] \notin {Idle, Exited}
    /\ Len(results) < ResultCapacity
    /\ results' = Append(results, working[w])
    /\ working' = [working EXCEPT ![w] = Idle]
    /\ UNCHANGED <<queues, nextWorker, stage, accepted, delivered, discarded>>

\* Bug: a worker that leaves as soon as it is told to stop.
Exit_Abandons(w) ==
    /\ working[w] = Idle /\ stage # "open"
    /\ working' = [working EXCEPT ![w] = Exited]
    /\ UNCHANGED <<queues, results, nextWorker, stage, accepted, delivered, discarded>>

\* A worker leaves when its queue is empty and its sender is gone.
Exit(w) ==
    /\ working[w] = Idle /\ queues[w] = <<>> /\ stage # "open"
    /\ working' = [working EXCEPT ![w] = Exited]
    /\ UNCHANGED <<queues, results, nextWorker, stage, accepted, delivered, discarded>>

Worker(w) == Receive(w) \/ Publish(w) \/ Exit(w)

\* try_recv_result
Deliver ==
    /\ results # <<>>
    /\ delivered' = delivered \cup {Head(results)}
    /\ results' = Tail(results)
    /\ UNCHANGED <<queues, working, nextWorker, stage, accepted, discarded>>

\* stop_all: admission ends, ...
StopAll ==
    /\ stage = "open"
    /\ stage' = "draining"
    /\ UNCHANGED <<queues, working, results, nextWorker, accepted, delivered, discarded>>

\* Bug: joining without draining first.
StopDrain_JoinOnly ==
    /\ stage = "joined"
    /\ UNCHANGED workerVars

\* ... results are thrown away while a worker still runs, ...
StopDrain ==
    /\ stage = "draining"
    /\ \E w \in Workers : working[w] # Exited
    /\ results # <<>>
    /\ results' = <<>>
    /\ discarded' = discarded \cup Range(results)
    /\ UNCHANGED <<queues, working, nextWorker, stage, accepted, delivered>>

\* ... and the threads are joined, with a last drain.
StopJoin ==
    /\ stage = "draining"
    /\ \A w \in Workers : working[w] = Exited
    /\ stage' = "joined"
    /\ results' = <<>>
    /\ discarded' = discarded \cup Range(results)
    /\ UNCHANGED <<queues, working, nextWorker, accepted, delivered>>

-----------------------------------------------------------------------------

InQueues == UNION {Range(queues[w]) : w \in Workers}

InHands == {working[w] : w \in Workers} \ {Idle, Exited}

InChannel == Range(results)

Places == <<InQueues, InHands, InChannel, delivered, discarded>>

\* An item that was accepted is always in exactly one place: queued, in a
\* worker's hands, in the result channel, delivered, or thrown away by
\* stop_all; nothing is lost, and nothing is looked up twice
\* (workers.rs:84-108, 138-199).
NoLookupLost ==
    /\ UNION Range(Places) = accepted
    /\ \A i, j \in DOMAIN Places : i # j => Places[i] \cap Places[j] = {}
    /\ stage = "open" => discarded = {}
    /\ stage = "joined" => accepted = delivered \cup discarded
=============================================================================
