-------------------------- MODULE ObservationQueue --------------------------
(***************************************************************************)
(* The bounded queue under the Packet Bus (crates/packet-bus/src/queue.rs):*)
(* one mutex, a condition variable `available` for blocked consumers and   *)
(* one `space` for blocked producers.                                      *)
(*                                                                         *)
(* A critical section is one action.  A thread inside `enqueue` or         *)
(* `dequeue` either is about to take the mutex and look at the queue       *)
(* ("enqueue", "dequeue") or sleeps on its condition variable              *)
(* ("wait_space", "wait_available").  What is queued does not matter here, *)
(* only how much.                                                          *)
(***************************************************************************)
EXTENDS Integers, FiniteSets

CONSTANTS Threads,      \* threads that share the queue
          Capacities    \* the capacities it may be created with

ASSUME QueueAssumption == IsFiniteSet(Threads) /\ Capacities \subseteq Nat

VARIABLES
    capacity,   \* fixed by `new`
    items,      \* number of queued observations
    closed,
    pc          \* where each thread is

vars == <<capacity, items, closed, pc>>

PCs == {"idle", "enqueue", "wait_space", "dequeue", "wait_available"}

At(label) == {t \in Threads : pc[t] = label}

Init ==
    /\ capacity \in Capacities
    /\ items = 0
    /\ closed = FALSE
    /\ pc = [t \in Threads |-> "idle"]

\* Condvar::notify_one and notify_all, on the threads' places q.  The woken
\* thread still has to take the mutex and test its condition again.
NotifyOne(q, waiting, woken) ==
    IF \E t \in Threads : q[t] = waiting
    THEN {[q EXCEPT ![t] = woken] : t \in {u \in Threads : q[u] = waiting}}
    ELSE {q}

NotifyAll(q, waiting, woken) == [t \in Threads |-> IF q[t] = waiting THEN woken ELSE q[t]]

NotifyAvailable(q) == NotifyOne(q, "wait_available", "dequeue")
NotifySpace(q)     == NotifyOne(q, "wait_space", "enqueue")

Moved(t, label) == [pc EXCEPT ![t] = label]

-----------------------------------------------------------------------------
\* try_enqueue that is accepted; refused (Closed, Full) it changes nothing.
TryEnqueue(t) ==
    /\ pc[t] = "idle" /\ ~closed
    /\ capacity # 0 /\ items < capacity
    /\ items' = items + 1
    /\ pc' \in NotifyAvailable(pc)
    /\ UNCHANGED <<capacity, closed>>

\* Bug: a consumer that did not block tells no producer about the free slot.
TryDequeue_NoNotify(t) ==
    /\ pc[t] = "idle" /\ items > 0
    /\ items' = items - 1
    /\ UNCHANGED <<capacity, closed, pc>>

\* try_dequeue that finds an item; also after close, until the queue is drained.
TryDequeue(t) ==
    /\ pc[t] = "idle" /\ items > 0
    /\ items' = items - 1
    /\ pc' \in NotifySpace(pc)
    /\ UNCHANGED <<capacity, closed>>

\* A thread calls `enqueue` or `dequeue`.
Call(t) ==
    /\ pc[t] = "idle"
    /\ \E call \in {"enqueue", "dequeue"} : pc' = Moved(t, call)
    /\ UNCHANGED <<capacity, items, closed>>

\* Bug: no special case for a queue that can never have space.
EnqueueLoop_NoZeroTest(t) ==
    /\ pc[t] = "enqueue"
    /\ \/ /\ closed
          /\ pc' = Moved(t, "idle") /\ UNCHANGED items
       \/ /\ ~closed /\ items < capacity
          /\ items' = items + 1
          /\ pc' \in NotifyAvailable(Moved(t, "idle"))
       \/ /\ ~closed /\ items >= capacity
          /\ pc' = Moved(t, "wait_space") /\ UNCHANGED items
    /\ UNCHANGED <<capacity, closed>>

\* One turn of the loop in `enqueue`.
EnqueueLoop(t) ==
    /\ pc[t] = "enqueue"
    /\ \/ /\ closed \/ capacity = 0         \* Err(Closed), Err(Full)
          /\ pc' = Moved(t, "idle") /\ UNCHANGED items
       \/ /\ ~closed /\ capacity # 0 /\ items < capacity
          /\ items' = items + 1
          /\ pc' \in NotifyAvailable(Moved(t, "idle"))
       \/ /\ ~closed /\ capacity # 0 /\ items >= capacity
          /\ pc' = Moved(t, "wait_space") /\ UNCHANGED items
    /\ UNCHANGED <<capacity, closed>>

\* Bug: a consumer that finds the queue closed and empty looks again.
DequeueLoop_RetriesWhenClosed(t) ==
    /\ pc[t] = "dequeue"
    /\ \/ /\ items > 0
          /\ items' = items - 1
          /\ pc' \in NotifySpace(Moved(t, "idle"))
       \/ /\ items = 0
          /\ pc' = Moved(t, IF closed THEN "dequeue" ELSE "wait_available")
          /\ UNCHANGED items
    /\ UNCHANGED <<capacity, closed>>

\* One turn of the loop in `dequeue`: items are handed out even when closed.
DequeueLoop(t) ==
    /\ pc[t] = "dequeue"
    /\ \/ /\ items > 0
          /\ items' = items - 1
          /\ pc' \in NotifySpace(Moved(t, "idle"))
       \/ /\ items = 0
          /\ pc' = Moved(t, IF closed THEN "idle" ELSE "wait_available")
          /\ UNCHANGED items
    /\ UNCHANGED <<capacity, closed>>

\* Condvar::wait may return without a notification.
SpuriousWakeup(t) ==
    /\ \/ pc[t] = "wait_space" /\ pc' = Moved(t, "enqueue")
       \/ pc[t] = "wait_available" /\ pc' = Moved(t, "dequeue")
    /\ UNCHANGED <<capacity, items, closed>>

Close ==
    /\ closed' = TRUE
    /\ pc' = NotifyAll(NotifyAll(pc, "wait_available", "dequeue"), "wait_space", "enqueue")
    /\ UNCHANGED <<capacity, items>>

Clear ==
    /\ items' = 0
    /\ pc' = NotifyAll(pc, "wait_space", "enqueue")
    /\ UNCHANGED <<capacity, closed>>

-----------------------------------------------------------------------------
Loop(t) == EnqueueLoop(t) \/ DequeueLoop(t)

Next ==
    \/ \E t \in Threads : TryEnqueue(t)
    \/ \E t \in Threads : TryDequeue(t)
    \/ \E t \in Threads : Call(t)
    \/ \E t \in Threads : EnqueueLoop(t)
    \/ \E t \in Threads : DequeueLoop(t)
    \/ \E t \in Threads : SpuriousWakeup(t)
    \/ Close
    \/ Clear

\* A thread that is awake inside the queue eventually gets the mutex: critical
\* sections are short and never block while they hold it.  Nothing is assumed
\* about callers, about wake-ups without a notification, or about close.
Fairness == \A t \in Threads : WF_vars(Loop(t))

Spec == Init /\ [][Next]_vars /\ Fairness

-----------------------------------------------------------------------------
(* Properties *)

TypeOK ==
    /\ capacity \in Capacities
    /\ items \in 0..capacity
    /\ closed \in BOOLEAN
    /\ pc \in [Threads -> PCs]

ConsumersCovered == At("wait_available") # {} => items <= Cardinality(At("dequeue"))

ProducersCovered == At("wait_space") # {} => capacity - items <= Cardinality(At("enqueue"))

\* No lost wake-up, whatever mix of blocking and non-blocking calls, clear and
\* stray wake-ups: while a consumer sleeps every queued item has an awake
\* consumer on its way to it, and while a producer sleeps every free slot has an
\* awake producer (enqueue, dequeue, try_enqueue, try_dequeue, clear).
NoLostWakeup == ConsumersCovered /\ ProducersCovered

\* Nobody sleeps on a condition that can never come true: not on a closed queue,
\* and no producer on a queue without capacity (the zero-capacity test in
\* enqueue, the two notify_all in close).
NoHopelessWait ==
    /\ closed => At("wait_space") = {} /\ At("wait_available") = {}
    /\ capacity = 0 => At("wait_space") = {}

\* "shutdown while producers are blocked on a full queue", "shutdown while
\* consumers wait on an empty queue" (docs/SECURITY.md): once the queue is
\* closed every thread inside enqueue or dequeue returns.
CloseReleasesAll == \A t \in Threads : closed /\ pc[t] # "idle" ~> pc[t] = "idle"
=============================================================================
