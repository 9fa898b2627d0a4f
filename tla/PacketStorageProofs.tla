------------------------ MODULE PacketStorageProofs ------------------------
(***************************************************************************)
(* Proofs about what the Packet Bus is built on, for every finite set of   *)
(* threads.                                                                *)
(*                                                                         *)
(* ObservationQueue, for every capacity, zero included, by counting        *)
(* threads: N(q, label) is how many threads the places q put at label.  A  *)
(* push wakes a sleeping consumer if there is one, so items and awake      *)
(* consumers grow together; a thread goes to sleep only when there is      *)
(* nothing left for it.                                                    *)
(*                                                                         *)
(* BufferPool, for every limit and any mix of calls, and that it           *)
(* implements BoundedPool, by counting the callers that hold a buffer      *)
(* against the two atomics.                                                *)
(*                                                                         *)
(* Backpressure, for every configuration and every queue.                  *)
(***************************************************************************)
EXTENDS ObservationQueue, BufferPool, Backpressure, FiniteSetTheorems, SequenceTheorems, TLAPS

Where(q, label) == {t \in Threads : q[t] = label}
N(q, label)     == Cardinality(Where(q, label))

\* The places of the threads are counted by finite sets.
LEMMA CountType ==
    ASSUME NEW q, NEW label
    PROVE  IsFiniteSet(Where(q, label)) /\ N(q, label) \in Nat
<1>1. IsFiniteSet(Where(q, label))
  BY QueueAssumption, FS_Subset DEF Where
<1> QED
  BY <1>1, FS_CardinalityType DEF N

\* r is q with thread t moved to label.
IsMove(q, r, t, label) ==
    /\ q \in [Threads -> PCs] /\ r \in [Threads -> PCs]
    /\ q[t] # label /\ r[t] = label
    /\ \A u \in Threads : u # t => r[u] = q[u]

\* Moving one thread moves one unit of the count and touches no other place.
LEMMA MoveCounts ==
    ASSUME NEW q, NEW r, NEW t \in Threads, NEW label, IsMove(q, r, t, label)
    PROVE  /\ N(r, label) = N(q, label) + 1
           /\ N(r, q[t]) = N(q, q[t]) - 1
           /\ \A k : k \notin {label, q[t]} => Where(r, k) = Where(q, k)
<1>2. Where(r, label) = Where(q, label) \cup {t} /\ t \notin Where(q, label)
  BY DEF Where, IsMove
<1>3. Where(r, q[t]) = Where(q, q[t]) \ {t} /\ t \in Where(q, q[t])
  BY DEF Where, IsMove
<1>4. \A k : k \notin {label, q[t]} => Where(r, k) = Where(q, k)
  BY DEF Where, IsMove
<1>5. N(r, label) = N(q, label) + 1
  BY <1>2, CountType, FS_AddElement DEF N
<1>6. N(r, q[t]) = N(q, q[t]) - 1
  BY <1>3, CountType, FS_RemoveElement DEF N
<1> QED
  BY <1>4, <1>5, <1>6

\* notify_one wakes exactly one of the sleepers, if there is one.
LEMMA NotifyOneEffect ==
    ASSUME NEW q \in [Threads -> PCs], NEW waiting \in PCs, NEW woken \in PCs,
           waiting # woken, NEW r \in NotifyOne(q, waiting, woken)
    PROVE  /\ r \in [Threads -> PCs]
           /\ Where(r, waiting) \subseteq Where(q, waiting)
           /\ N(r, woken) >= N(q, woken)
           /\ Where(q, waiting) # {} => N(r, woken) = N(q, woken) + 1
           /\ \A k : k \notin {waiting, woken} => Where(r, k) = Where(q, k)
<1>0. N(q, woken) \in Nat
  BY CountType
<1>1. CASE \E t \in Threads : q[t] = waiting
  <2>1. PICK t \in Threads : q[t] = waiting /\ r = [q EXCEPT ![t] = woken]
    BY <1>1 DEF NotifyOne
  <2>2. Where(r, waiting) \subseteq Where(q, waiting)
    BY <2>1 DEF Where
  <2>3. r \in [Threads -> PCs] /\ IsMove(q, r, t, woken)
    BY <2>1 DEF IsMove
  <2>4. /\ N(r, woken) = N(q, woken) + 1
        /\ \A k : k \notin {woken, q[t]} => Where(r, k) = Where(q, k)
    BY <2>3, MoveCounts
  <2>5. N(r, woken) >= N(q, woken)
    BY <1>0, <2>4
  <2>6. \A k : k \notin {waiting, woken} => Where(r, k) = Where(q, k)
    BY <2>1, <2>4, Zenon
  <2> QED
    BY <2>2, <2>3, <2>4, <2>5, <2>6, Zenon
<1>2. CASE ~\E t \in Threads : q[t] = waiting
  <2>1. r = q /\ Where(q, waiting) = {}
    BY <1>2 DEF NotifyOne, Where
  <2> QED
    BY <1>0, <2>1
<1> QED
  BY <1>1, <1>2

\* notify_all leaves nobody asleep.
LEMMA NotifyAllEffect ==
    ASSUME NEW q \in [Threads -> PCs], NEW waiting \in PCs, NEW woken \in PCs,
           waiting # woken, NEW r, r = NotifyAll(q, waiting, woken)
    PROVE  /\ r \in [Threads -> PCs]
           /\ Where(r, waiting) = {}
           /\ N(r, woken) >= N(q, woken)
           /\ \A k : k \notin {waiting, woken} => Where(r, k) = Where(q, k)
<1>1. r \in [Threads -> PCs]
  BY DEF NotifyAll
<1>2. Where(r, waiting) = {} /\ Where(q, woken) \subseteq Where(r, woken)
  BY DEF NotifyAll, Where
<1>3. \A k : k \notin {waiting, woken} => Where(r, k) = Where(q, k)
  BY DEF NotifyAll, Where
<1>4. N(q, woken) <= N(r, woken)
  BY <1>2, CountType, FS_Subset DEF N
<1> QED
  BY <1>1, <1>2, <1>3, <1>4, CountType

-----------------------------------------------------------------------------
\* NoLostWakeup and NoHopelessWait of the places q, i items, capacity c.
Consumers(q, i) == Where(q, "wait_available") # {} => i <= N(q, "dequeue")
Producers(q, s) == Where(q, "wait_space") # {} => s <= N(q, "enqueue")
Hopeful(q, cl, c) ==
    /\ cl => Where(q, "wait_space") = {} /\ Where(q, "wait_available") = {}
    /\ c = 0 => Where(q, "wait_space") = {}

\* The inductive invariant: typing and the two properties support each other.  A
\* thread that goes to sleep relies on NoHopelessWait's guards, the counts on
\* nobody sleeping while the queue is closed.
QInv ==
    /\ TypeOK
    /\ Consumers(pc, items) /\ Producers(pc, capacity - items)
    /\ Hopeful(pc, closed, capacity)

\* The inductive invariant contains what the runs check.
LEMMA QInvImplies == QInv => TypeOK /\ NoLostWakeup /\ NoHopelessWait
BY DEF QInv, Consumers, Producers, Hopeful, Where, N, At, NoLostWakeup, ConsumersCovered,
       ProducersCovered, NoHopelessWait

\* The three kinds of wake-up, with the labels of this queue.
LEMMA AvailableEffect ==
    ASSUME NEW q \in [Threads -> PCs], NEW r \in NotifyAvailable(q),
           NEW i \in Int, NEW s \in Int, NEW cl \in BOOLEAN, NEW c,
           Consumers(q, i), Producers(q, s), Hopeful(q, cl, c)
    PROVE  r \in [Threads -> PCs] /\ Consumers(r, i + 1) /\ Producers(r, s) /\ Hopeful(r, cl, c)
<1>1. /\ r \in [Threads -> PCs]
      /\ Where(r, "wait_available") \subseteq Where(q, "wait_available")
      /\ Where(q, "wait_available") # {} => N(r, "dequeue") = N(q, "dequeue") + 1
      /\ Where(r, "wait_space") = Where(q, "wait_space")
      /\ Where(r, "enqueue") = Where(q, "enqueue")
  BY NotifyOneEffect DEF NotifyAvailable, PCs
<1>2. N(q, "dequeue") \in Nat /\ N(r, "enqueue") = N(q, "enqueue")
  BY <1>1, CountType DEF N
<1> QED
  BY <1>1, <1>2 DEF Consumers, Producers, Hopeful

\* A notify_one for a freed slot keeps the count of wake-ups owed.
LEMMA SpaceEffect ==
    ASSUME NEW q \in [Threads -> PCs], NEW r \in NotifySpace(q),
           NEW i \in Int, NEW s \in Int, NEW cl \in BOOLEAN, NEW c,
           Consumers(q, i), Producers(q, s), Hopeful(q, cl, c)
    PROVE  r \in [Threads -> PCs] /\ Consumers(r, i) /\ Producers(r, s + 1) /\ Hopeful(r, cl, c)
<1>1. /\ r \in [Threads -> PCs]
      /\ Where(r, "wait_space") \subseteq Where(q, "wait_space")
      /\ Where(q, "wait_space") # {} => N(r, "enqueue") = N(q, "enqueue") + 1
      /\ Where(r, "wait_available") = Where(q, "wait_available")
      /\ Where(r, "dequeue") = Where(q, "dequeue")
  BY NotifyOneEffect DEF NotifySpace, PCs
<1>2. N(q, "enqueue") \in Nat /\ N(r, "dequeue") = N(q, "dequeue")
  BY <1>1, CountType DEF N
<1> QED
  BY <1>1, <1>2 DEF Consumers, Producers, Hopeful

\* A thread leaving the loop takes one awake producer or consumer with it.
LEMMA LeaveEffect ==
    ASSUME NEW q, NEW r, NEW t \in Threads, NEW from \in {"enqueue", "dequeue"},
           q[t] = from, IsMove(q, r, t, "idle"),
           NEW i \in Int, NEW s \in Int, NEW cl \in BOOLEAN, NEW c,
           Consumers(q, i), Producers(q, s), Hopeful(q, cl, c)
    PROVE  /\ Hopeful(r, cl, c)
           /\ Consumers(r, IF from = "dequeue" THEN i - 1 ELSE i)
           /\ Producers(r, IF from = "enqueue" THEN s - 1 ELSE s)
<1>1. /\ N(r, from) = N(q, from) - 1
      /\ \A k : k \notin {"idle", from} => Where(r, k) = Where(q, k)
  BY MoveCounts
<1>2. N(q, "enqueue") \in Nat /\ N(q, "dequeue") \in Nat
  BY CountType
<1>3. /\ Where(r, "wait_space") = Where(q, "wait_space")
      /\ Where(r, "wait_available") = Where(q, "wait_available")
  BY <1>1
<1>4. Hopeful(r, cl, c)
  BY <1>3 DEF Hopeful
<1>5. CASE from = "enqueue"
  <2>1. N(r, "dequeue") = N(q, "dequeue")
    BY <1>1, <1>5 DEF N
  <2>2. Producers(r, s - 1) /\ Consumers(r, i)
    BY <1>1, <1>2, <1>3, <1>5, <2>1 DEF Producers, Consumers
  <2> QED
    BY <1>4, <1>5, <2>2
<1>6. CASE from = "dequeue"
  <2>1. N(r, "enqueue") = N(q, "enqueue")
    BY <1>1, <1>6 DEF N
  <2>2. Producers(r, s) /\ Consumers(r, i - 1)
    BY <1>1, <1>2, <1>3, <1>6, <2>1 DEF Producers, Consumers
  <2> QED
    BY <1>4, <1>6, <2>2
<1> QED
  BY <1>5, <1>6

\* A caller, or a sleeper that wakes up by itself, only adds to the awake.
LEMMA EnterEffect ==
    ASSUME NEW q, NEW r, NEW t \in Threads, NEW to \in {"enqueue", "dequeue"},
           q[t] \in {"idle", "wait_space", "wait_available"}, IsMove(q, r, t, to),
           NEW i \in Int, NEW s \in Int, NEW cl \in BOOLEAN, NEW c,
           Consumers(q, i), Producers(q, s), Hopeful(q, cl, c)
    PROVE  Hopeful(r, cl, c) /\ Consumers(r, i) /\ Producers(r, s)
<1>1. N(r, to) = N(q, to) + 1 /\ \A k : k \notin {to, q[t]} => Where(r, k) = Where(q, k)
  BY MoveCounts
<1>2. N(q, "enqueue") \in Nat /\ N(q, "dequeue") \in Nat
  BY CountType
<1>3. /\ Where(r, "wait_space") \subseteq Where(q, "wait_space")
      /\ Where(r, "wait_available") \subseteq Where(q, "wait_available")
  BY DEF Where, IsMove
<1>4. Hopeful(r, cl, c)
  BY <1>3 DEF Hopeful
<1>5. N(r, "enqueue") >= N(q, "enqueue") /\ N(r, "dequeue") >= N(q, "dequeue")
  <2>1. CASE to = "enqueue"
    <3>1. N(r, "dequeue") = N(q, "dequeue")
      BY <1>1, <2>1 DEF N
    <3> QED
      BY <1>1, <1>2, <2>1, <3>1
  <2>2. CASE to = "dequeue"
    <3>1. N(r, "enqueue") = N(q, "enqueue")
      BY <1>1, <2>2 DEF N
    <3> QED
      BY <1>1, <1>2, <2>2, <3>1
  <2> QED
    BY <2>1, <2>2
<1>6. N(r, "enqueue") \in Nat /\ N(r, "dequeue") \in Nat
  BY CountType
<1> QED
  BY <1>2, <1>3, <1>4, <1>5, <1>6 DEF Consumers, Producers

\* What the type invariant gives every step.
LEMMA QTypes ==
    ASSUME QInv
    PROVE  /\ capacity \in Nat /\ items \in Nat /\ items <= capacity
           /\ closed \in BOOLEAN /\ pc \in [Threads -> PCs]
           /\ N(pc, "enqueue") \in Nat /\ N(pc, "dequeue") \in Nat
<1>1. capacity \in Nat
  BY QueueAssumption DEF QInv, TypeOK
<1> QED
  BY <1>1, CountType DEF QInv, TypeOK

-----------------------------------------------------------------------------
(* One lemma per operation: it preserves the invariant.                     *)

\* try_enqueue notifies a consumer for the item it adds.
LEMMA TryEnqueueInv == ASSUME QInv, NEW t \in Threads, TryEnqueue(t) PROVE QInv'
<1>1. Producers(pc, capacity - items - 1)
  BY QTypes DEF QInv, Producers
<1>2. /\ pc' \in [Threads -> PCs] /\ Consumers(pc', items + 1)
      /\ Producers(pc', capacity - items - 1) /\ Hopeful(pc', closed, capacity)
  BY <1>1, QTypes, AvailableEffect DEF QInv, TryEnqueue
<1>3. capacity' = capacity /\ closed' = closed /\ items' = items + 1 /\ items < capacity
  BY DEF TryEnqueue
<1>4. capacity' - items' = capacity - items - 1 /\ items' \in 0..capacity'
  BY <1>3, QTypes
<1> QED
  BY <1>2, <1>3, <1>4 DEF QInv, TypeOK

\* try_dequeue notifies a producer for the slot it frees.
LEMMA TryDequeueInv == ASSUME QInv, NEW t \in Threads, TryDequeue(t) PROVE QInv'
<1>1. Consumers(pc, items - 1)
  BY QTypes DEF QInv, Consumers
<1>2. /\ pc' \in [Threads -> PCs] /\ Consumers(pc', items - 1)
      /\ Producers(pc', capacity - items + 1) /\ Hopeful(pc', closed, capacity)
  BY <1>1, QTypes, SpaceEffect DEF QInv, TryDequeue
<1>3. capacity' = capacity /\ closed' = closed /\ items' = items - 1 /\ items > 0
  BY DEF TryDequeue
<1>4. capacity' - items' = capacity - items + 1 /\ items' \in 0..capacity'
  BY <1>3, QTypes
<1> QED
  BY <1>2, <1>3, <1>4 DEF QInv, TypeOK

\* Entering a blocking call, or waking for no reason, loses no wake-up.
LEMMA CallInv == ASSUME QInv, NEW t \in Threads, Call(t) \/ SpuriousWakeup(t) PROVE QInv'
<1>1. PICK to \in {"enqueue", "dequeue"} :
        pc' = [pc EXCEPT ![t] = to] /\ pc[t] \in {"idle", "wait_space", "wait_available"}
  BY DEF Call, SpuriousWakeup, Moved
<1>2. IsMove(pc, pc', t, to)
  BY <1>1, QTypes DEF IsMove, PCs
<1>3. capacity' = capacity /\ items' = items /\ closed' = closed
  BY DEF Call, SpuriousWakeup
<1>4. capacity - items \in Int /\ items \in Int
  BY QTypes
<1>5. Hopeful(pc', closed, capacity) /\ Consumers(pc', items) /\ Producers(pc', capacity - items)
  BY <1>1, <1>2, <1>4, QTypes, EnterEffect DEF QInv
<1> QED
  BY <1>2, <1>3, <1>5 DEF QInv, TypeOK, IsMove

\* An enqueuer sleeps only while the queue is open and full.
LEMMA EnqueueLoopInv == ASSUME QInv, NEW t \in Threads, EnqueueLoop(t) PROVE QInv'
<1>1. capacity' = capacity /\ closed' = closed /\ pc[t] = "enqueue"
  BY DEF EnqueueLoop
<1>2. capacity - items \in Int /\ items \in Int
  BY QTypes
<1> DEFINE q == [pc EXCEPT ![t] = "idle"]
<1>3. IsMove(pc, q, t, "idle") /\ q \in [Threads -> PCs]
  BY <1>1, QTypes DEF IsMove, PCs
<1>4. CASE (closed \/ capacity = 0) /\ pc' = q /\ items' = items
  <2> HIDE DEF q
  <2>1. Hopeful(q, closed, capacity) /\ Consumers(q, items)
    BY <1>1, <1>2, <1>3, QTypes, LeaveEffect DEF QInv
  <2>2. Producers(q, capacity - items)
    BY <1>4, <2>1 DEF Hopeful, Producers
  <2> QED
    BY <1>1, <1>3, <1>4, <2>1, <2>2 DEF QInv, TypeOK
<1>5. CASE items < capacity /\ items' = items + 1 /\ pc' \in NotifyAvailable(q)
  <2> HIDE DEF q
  <2>1. Hopeful(q, closed, capacity) /\ Consumers(q, items) /\ Producers(q, capacity - items - 1)
    BY <1>1, <1>2, <1>3, QTypes, LeaveEffect DEF QInv
  <2>2. capacity - items - 1 \in Int
    BY <1>2
  <2>3. /\ pc' \in [Threads -> PCs] /\ Consumers(pc', items + 1)
        /\ Producers(pc', capacity - items - 1) /\ Hopeful(pc', closed, capacity)
    BY <1>2, <1>3, <1>5, <2>1, <2>2, QTypes, AvailableEffect
  <2>4. capacity' - items' = capacity - items - 1 /\ items' \in 0..capacity'
    BY <1>1, <1>5, QTypes
  <2> QED
    BY <1>1, <1>5, <2>3, <2>4 DEF QInv, TypeOK
<1>6. CASE /\ ~closed /\ capacity # 0 /\ items >= capacity
           /\ pc' = [pc EXCEPT ![t] = "wait_space"] /\ items' = items
  <2>1. IsMove(pc, pc', t, "wait_space")
    BY <1>1, <1>6, QTypes DEF IsMove, PCs
  <2>2. /\ Where(pc', "wait_available") = Where(pc, "wait_available")
        /\ Where(pc', "dequeue") = Where(pc, "dequeue")
    BY <1>1, <2>1 DEF Where, IsMove
  <2>3. Consumers(pc', items)
    BY <2>2 DEF QInv, Consumers, N
  <2>4. capacity - items = 0 /\ N(pc', "enqueue") \in Nat
    BY <1>6, QTypes, CountType
  <2>5. Producers(pc', capacity - items) /\ Hopeful(pc', closed, capacity)
    BY <1>6, <2>4 DEF Producers, Hopeful
  <2> QED
    BY <1>1, <1>6, <2>1, <2>3, <2>5 DEF QInv, TypeOK, IsMove
<1> QED
  BY <1>4, <1>5, <1>6 DEF EnqueueLoop, Moved

\* A dequeuer sleeps only while the queue is open and empty.
LEMMA DequeueLoopInv == ASSUME QInv, NEW t \in Threads, DequeueLoop(t) PROVE QInv'
<1>1. capacity' = capacity /\ closed' = closed /\ pc[t] = "dequeue"
  BY DEF DequeueLoop
<1>2. capacity - items \in Int /\ items \in Int
  BY QTypes
<1> DEFINE q == [pc EXCEPT ![t] = "idle"]
<1>3. IsMove(pc, q, t, "idle") /\ q \in [Threads -> PCs]
  BY <1>1, QTypes DEF IsMove, PCs
<1>4. CASE items = 0 /\ closed /\ pc' = q /\ items' = items
  <2> HIDE DEF q
  <2>1. Hopeful(q, closed, capacity) /\ Producers(q, capacity - items)
    BY <1>1, <1>2, <1>3, QTypes, LeaveEffect DEF QInv
  <2>2. Consumers(q, items)
    BY <1>4, <2>1 DEF Hopeful, Consumers
  <2> QED
    BY <1>1, <1>3, <1>4, <2>1, <2>2 DEF QInv, TypeOK
<1>5. CASE items > 0 /\ items' = items - 1 /\ pc' \in NotifySpace(q)
  <2> HIDE DEF q
  <2>1. Hopeful(q, closed, capacity) /\ Consumers(q, items - 1) /\ Producers(q, capacity - items)
    BY <1>1, <1>2, <1>3, QTypes, LeaveEffect DEF QInv
  <2>2. items - 1 \in Int
    BY <1>2
  <2>3. /\ pc' \in [Threads -> PCs] /\ Consumers(pc', items - 1)
        /\ Producers(pc', capacity - items + 1) /\ Hopeful(pc', closed, capacity)
    BY <1>2, <1>3, <1>5, <2>1, <2>2, QTypes, SpaceEffect
  <2>4. capacity' - items' = capacity - items + 1 /\ items' \in 0..capacity'
    BY <1>1, <1>5, QTypes
  <2> QED
    BY <1>1, <1>5, <2>3, <2>4 DEF QInv, TypeOK
<1>6. CASE items = 0 /\ ~closed /\ pc' = [pc EXCEPT ![t] = "wait_available"] /\ items' = items
  <2>1. IsMove(pc, pc', t, "wait_available")
    BY <1>1, <1>6, QTypes DEF IsMove, PCs
  <2>2. /\ Where(pc', "wait_space") = Where(pc, "wait_space")
        /\ Where(pc', "enqueue") = Where(pc, "enqueue")
    BY <1>1, <2>1 DEF Where, IsMove
  <2>3. Producers(pc', capacity - items)
    BY <2>2 DEF QInv, Producers, N
  <2>4. N(pc', "dequeue") \in Nat
    BY CountType
  <2>5. Consumers(pc', items)
    BY <1>6, <2>4 DEF Consumers
  <2>6. Hopeful(pc', closed, capacity)
    <3>1. Hopeful(pc, closed, capacity)
      BY DEF QInv
    <3> QED
      BY <1>6, <2>2, <3>1, Zenon DEF Hopeful
  <2> QED
    BY <1>1, <1>6, <2>1, <2>3, <2>5, <2>6 DEF QInv, TypeOK, IsMove
<1> QED
  BY <1>4, <1>5, <1>6 DEF DequeueLoop, Moved

\* close wakes every sleeper.
LEMMA CloseInv == ASSUME QInv, Close PROVE QInv'
<1> DEFINE q == NotifyAll(pc, "wait_available", "dequeue")
<1>1. q \in [Threads -> PCs] /\ Where(q, "wait_available") = {}
  BY QTypes, NotifyAllEffect DEF PCs
<1>2. pc' = NotifyAll(q, "wait_space", "enqueue")
  BY DEF Close
<1> HIDE DEF q
<1>3. /\ pc' \in [Threads -> PCs] /\ Where(pc', "wait_space") = {}
      /\ Where(pc', "wait_available") = Where(q, "wait_available")
  BY <1>1, <1>2, NotifyAllEffect DEF PCs
<1>4. capacity' = capacity /\ items' = items /\ closed' = TRUE
  BY DEF Close
<1> QED
  BY <1>1, <1>3, <1>4 DEF QInv, TypeOK, Consumers, Producers, Hopeful

\* clear wakes every waiting producer.
LEMMA ClearInv == ASSUME QInv, Clear PROVE QInv'
<1>1. pc' = NotifyAll(pc, "wait_space", "enqueue")
  BY DEF Clear
<1>2. /\ pc' \in [Threads -> PCs] /\ Where(pc', "wait_space") = {}
      /\ Where(pc', "wait_available") = Where(pc, "wait_available")
  BY <1>1, QTypes, NotifyAllEffect DEF PCs
<1>3. capacity' = capacity /\ items' = 0 /\ closed' = closed
  BY DEF Clear
<1>4. Consumers(pc', 0)
  BY CountType DEF Consumers
<1>5. Hopeful(pc', closed, capacity)
  <2>1. Hopeful(pc, closed, capacity)
    BY DEF QInv
  <2> QED
    BY <1>2, <2>1, Zenon DEF Hopeful
<1>6. 0 \in 0..capacity
  BY QTypes
<1> QED
  BY <1>2, <1>3, <1>4, <1>5, <1>6 DEF QInv, TypeOK, Producers

\* Every step of the queue keeps the inductive invariant.
LEMMA QueueStepInv == QInv /\ [Next]_vars => QInv'
<1> SUFFICES ASSUME QInv, [Next]_vars PROVE QInv'
  OBVIOUS
<1>1. CASE UNCHANGED vars
  BY <1>1 DEF vars, QInv, TypeOK, Consumers, Producers, Hopeful, Where, N
<1> QED
  BY <1>1, TryEnqueueInv, TryDequeueInv, CallInv, EnqueueLoopInv, DequeueLoopInv, CloseInv,
     ClearInv DEF Next

\* QInv holds in every reachable state of the queue.
THEOREM QueueInvariant == Spec => []QInv
<1>1. Init => QInv
  <2> SUFFICES ASSUME Init PROVE QInv
    OBVIOUS
  <2>1. Where(pc, "wait_space") = {} /\ Where(pc, "wait_available") = {}
    BY DEF Init, Where
  <2>2. TypeOK
    <3>1. capacity \in Nat /\ capacity \in Capacities
      BY QueueAssumption DEF Init
    <3>2. items \in 0..capacity
      BY <3>1 DEF Init
    <3>3. pc \in [Threads -> PCs] /\ closed \in BOOLEAN
      BY DEF Init, PCs
    <3> QED
      BY <3>1, <3>2, <3>3 DEF TypeOK
  <2> QED
    BY <2>1, <2>2 DEF QInv, Consumers, Producers, Hopeful
<1> QED
  BY <1>1, QueueStepInv, PTL DEF Spec

\* The queue never holds more than its capacity (try_enqueue, enqueue).
THEOREM QueueTypeOK == Spec => []TypeOK
BY QueueInvariant, QInvImplies, PTL

\* No wake-up is lost, for any number of producers and consumers: a sleeping
\* thread never misses an item or a free slot nobody else is about to take.
THEOREM WakeupsAreNotLost == Spec => []NoLostWakeup
BY QueueInvariant, QInvImplies, PTL

\* Nobody sleeps on a closed queue, and no producer on one without capacity.
THEOREM NobodySleepsForever == Spec => []NoHopelessWait
BY QueueInvariant, QInvImplies, PTL

-----------------------------------------------------------------------------
(* The buffer pool.  Until a clear meets another call or a foreign buffer is   *)
(* released, the idle buffers, the held ones and the dropped ones add up to    *)
(* the two counters; so the vector is never full when a buffer comes back, no  *)
(* release drops one and neither counter wraps.                                *)

AllocatedSum == allocated = Len(idle) + Cardinality(Holders) + lost + escaped

\* What a caller inside the pool relies on.
CallFits(t) ==
    /\ at[t] # "shrink"
    /\ at[t] = "uncount" => cur[t] = 0
    /\ at[t] = "count" => hold[t] = NewBuffer
    /\ at[t] \in {"load", "cas", "uncount"} => hold[t] = None
    /\ at[t] = "trim" => cur[t] = inUse
    /\ Clearing(t) => idle = <<>> /\ \A u \in Callers : u # t => at[u] = "rest"

\* The books of a pool that was never upset.
Balanced ==
    /\ PoolTypeOK
    /\ AllocatedSum
    /\ InUseAccounted
    /\ WithinLimit
    /\ \A t \in Callers : CallFits(t)

\* The inductive invariant of the pool.
CountInv ==
    /\ PoolTypeOK
    /\ HandedOutEmpty
    /\ upsets = 0 => Balanced

\* Only caller t moves in this step.
Only(t) == \A u \in Callers : u # t => at'[u] = at[u] /\ hold'[u] = hold[u] /\ cur'[u] = cur[u]

One(b) == IF b THEN 1 ELSE 0

\* Two sets that differ at most in x.
LEMMA OneMember ==
    ASSUME NEW S, NEW T, NEW x, IsFiniteSet(S), \A u : u # x => (u \in S <=> u \in T)
    PROVE  /\ Cardinality(S) \in Nat
           /\ Cardinality(T) = Cardinality(S) + (One(x \in T) - One(x \in S))
<1>0. Cardinality(S) \in Nat BY FS_CardinalityType
<1>1. CASE x \in T
  <2>1. T = S \cup {x} BY <1>1
  <2>2. Cardinality(T) = IF x \in S THEN Cardinality(S) ELSE Cardinality(S) + 1
    BY <2>1, FS_AddElement
  <2> QED BY <1>0, <1>1, <2>2 DEF One
<1>2. CASE x \notin T
  <2>1. T = S \ {x} BY <1>2
  <2>2. IsFiniteSet(T) /\ Cardinality(T) = IF x \in S THEN Cardinality(S) - 1 ELSE Cardinality(S)
    BY <2>1, FS_RemoveElement
  <2>3. Cardinality(T) \in Nat BY <2>2, FS_CardinalityType
  <2> QED BY <1>0, <1>2, <2>2, <2>3 DEF One
<1> QED BY <1>1, <1>2

\* The sets of callers are finite, so they can be counted.
LEMMA CallersCounted ==
    /\ IsFiniteSet(Holders) /\ Cardinality(Holders) \in Nat
    /\ \A w : IsFiniteSet(CallersAt(w)) /\ Cardinality(CallersAt(w)) \in Nat
<1>1. IsFiniteSet(Holders) BY PoolAssumption, FS_Subset DEF Holders
<1>2. ASSUME NEW w PROVE IsFiniteSet(CallersAt(w)) /\ Cardinality(CallersAt(w)) \in Nat
  <2>1. CallersAt(w) \subseteq Callers BY DEF CallersAt
  <2>2. IsFiniteSet(CallersAt(w)) BY <2>1, PoolAssumption, FS_Subset
  <2> QED BY <2>2, FS_CardinalityType
<1> QED BY <1>1, <1>2, FS_CardinalityType

\* The two counts follow the caller that moves.
LEMMA CallerCounts ==
    ASSUME NEW t \in Callers, Only(t)
    PROVE  /\ Cardinality(Holders') = Cardinality(Holders) + (One(hold'[t] # None) - One(hold[t] # None))
           /\ \A w : Cardinality(CallersAt(w)') = Cardinality(CallersAt(w)) + (One(at'[t] = w) - One(at[t] = w))
<1>1. /\ \A u : u # t => (u \in Holders <=> u \in Holders')
      /\ t \in Holders <=> hold[t] # None
      /\ t \in Holders' <=> hold'[t] # None
  BY DEF Only, Holders
<1>2. Cardinality(Holders') = Cardinality(Holders) + (One(t \in Holders') - One(t \in Holders))
  BY <1>1, CallersCounted, OneMember
<1>3. ASSUME NEW w
      PROVE  Cardinality(CallersAt(w)') = Cardinality(CallersAt(w)) + (One(at'[t] = w) - One(at[t] = w))
  <2>1. /\ \A u : u # t => (u \in CallersAt(w) <=> u \in CallersAt(w)')
        /\ t \in CallersAt(w) <=> at[t] = w
        /\ t \in CallersAt(w)' <=> at'[t] = w
    BY DEF Only, CallersAt
  <2>2. Cardinality(CallersAt(w)') = Cardinality(CallersAt(w)) + (One(t \in CallersAt(w)') - One(t \in CallersAt(w)))
    BY <2>1, CallersCounted, OneMember
  <2> QED BY <2>1, <2>2 DEF One
<1> QED BY <1>1, <1>2, <1>3 DEF One

\* How a step of t changes the books: allocated, in_use, the vector, the held
\* buffers, the callers about to count and to uncount, the buffers dropped.
Shift(t, a, n, f, h, c, u, l, e) ==
    /\ allocated' = allocated + a /\ inUse' = inUse + n /\ Len(idle') = Len(idle) + f
    /\ One(hold'[t] # None) - One(hold[t] # None) = h
    /\ One(at'[t] = "count") - One(at[t] = "count") = c
    /\ One(at'[t] = "uncount") - One(at[t] = "uncount") = u
    /\ lost' = lost + l /\ escaped' = escaped + e

\* The numbers of a state of the pool.
LEMMA PoolNumbers ==
    ASSUME Balanced
    PROVE  /\ allocated \in Nat /\ inUse \in Nat /\ Len(idle) \in Nat /\ lost \in Nat /\ escaped \in Nat
           /\ Out \in Nat /\ Len(idle) + Out <= allocated /\ allocated <= MaxSize
<1>1. /\ allocated \in Nat /\ inUse \in Nat /\ idle \in Seq(Buffer) /\ lost \in Nat /\ escaped \in Nat
      /\ allocated <= MaxSize
  BY PoolAssumption DEF Balanced, PoolTypeOK, WithinLimit
<1>2. Len(idle) \in Nat BY <1>1
<1>3. Out \in Nat BY <1>1, CallersCounted DEF Out
<1>4. allocated = Len(idle) + Cardinality(Holders) + lost + escaped BY DEF Balanced, AllocatedSum
<1> QED BY <1>1, <1>2, <1>3, <1>4, CallersCounted DEF Out

\* A step whose changes balance keeps the sums.
LEMMA PoolMoves ==
    ASSUME Balanced, NEW t \in Callers, Only(t),
           NEW a \in Int, NEW n \in Int, NEW f \in Int, NEW h \in Int, NEW c \in Int, NEW u \in Int,
           NEW l \in Int, NEW e \in Int, Shift(t, a, n, f, h, c, u, l, e),
           a = f + h + l + e, n + c = h + u + e
    PROVE  /\ AllocatedSum' /\ InUseAccounted'
           /\ Out' = Out + (h + e)
<1> DEFINE H == Cardinality(Holders) C == Cardinality(CallersAt("count")) N0 == Cardinality(CallersAt("uncount"))
           H1 == Cardinality(Holders') C1 == Cardinality(CallersAt("count")') N1 == Cardinality(CallersAt("uncount")')
           L == Len(idle) L1 == Len(idle')
           a0 == allocated a1 == allocated' i0 == inUse i1 == inUse' l0 == lost l1 == lost' e0 == escaped e1 == escaped'
<1>1. H \in Nat /\ C \in Nat /\ N0 \in Nat BY CallersCounted
<1>2. a0 \in Nat /\ i0 \in Int /\ L \in Nat /\ l0 \in Nat /\ e0 \in Nat BY PoolNumbers
<1>3. H1 = H + h /\ C1 = C + c /\ N1 = N0 + u
  BY CallerCounts DEF Shift
<1>4. a1 = a0 + a /\ i1 = i0 + n /\ L1 = L + f /\ l1 = l0 + l /\ e1 = e0 + e BY DEF Shift
<1>5. a0 = L + H + l0 + e0 /\ i0 + C = H + N0 + e0 BY DEF Balanced, AllocatedSum, InUseAccounted
<1> HIDE DEF H, C, N0, H1, C1, N1, L, L1, a0, a1, i0, i1, l0, l1, e0, e1
<1>6. a1 = L1 + H1 + l1 + e1 BY <1>1, <1>2, <1>3, <1>4, <1>5
<1>7. i1 + C1 = H1 + N1 + e1 BY <1>1, <1>2, <1>3, <1>4, <1>5
<1>8. H1 + e1 = (H + e0) + (h + e) BY <1>1, <1>2, <1>3, <1>4
<1> QED BY <1>4, <1>6, <1>7, <1>8
        DEF AllocatedSum, InUseAccounted, Out, H, C, N0, H1, C1, N1, L, L1, a1, i1, l1, e0, e1

\* The other callers are where they were, unless one of them is clearing while
\* the vector or in_use changes.
LEMMA OthersFit ==
    ASSUME Balanced, NEW t \in Callers, Only(t),
           \/ \A u \in Callers : u # t => ~Clearing(u)
           \/ UNCHANGED <<idle, inUse, at>>
    PROVE  \A u \in Callers : u # t => CallFits(u)'
<1> SUFFICES ASSUME NEW u \in Callers, u # t PROVE CallFits(u)'
  OBVIOUS
<1>1. at'[u] = at[u] /\ hold'[u] = hold[u] /\ cur'[u] = cur[u] /\ CallFits(u) BY DEF Only, Balanced
<1> QED BY <1>1 DEF CallFits, Clearing

\* The operations on a buffer give buffers.
LEMMA BufferValues ==
    /\ NewBuffer \in Buffer
    /\ \A b \in Buffer : [b EXCEPT !.released = TRUE] \in Buffer
    /\ \A b \in Buffer, n \in 0 .. Capacity : [b EXCEPT !.length = n] \in Buffer
    /\ \A b \in Buffer : b.length \in 0 .. Capacity
<1>1. NewBuffer \in Buffer BY PoolAssumption DEF NewBuffer, Buffer
<1>2. ASSUME NEW b \in Buffer
      PROVE  /\ [b EXCEPT !.released = TRUE] \in Buffer
             /\ b.length \in 0 .. Capacity
             /\ \A n \in 0 .. Capacity : [b EXCEPT !.length = n] \in Buffer
  <2>1. b \in [released : BOOLEAN, length : 0 .. Capacity] BY DEF Buffer
  <2>2. [b EXCEPT !.released = TRUE] \in [released : BOOLEAN, length : 0 .. Capacity] BY <2>1
  <2>3. ASSUME NEW n \in 0 .. Capacity PROVE [b EXCEPT !.length = n] \in [released : BOOLEAN, length : 0 .. Capacity]
    BY <2>1
  <2> QED BY <2>1, <2>2, <2>3 DEF Buffer
<1> QED BY <1>1, <1>2

\* Popping the last buffer of the vector.
LEMMA PopEffect ==
    ASSUME idle \in Seq(Buffer), idle # <<>>
    PROVE  /\ Last(idle) \in Buffer /\ Front(idle) \in Seq(Buffer)
           /\ Len(idle) \in Nat /\ Len(idle) > 0 /\ Len(Front(idle)) = Len(idle) + (0 - 1)
<1>1. Len(idle) \in Nat /\ Len(idle) > 0 OBVIOUS
<1>2. \A i \in 1 .. Len(idle) : idle[i] \in Buffer OBVIOUS
<1>3. Last(idle) \in Buffer BY <1>1, <1>2 DEF Last
<1> DEFINE n == Len(idle) - 1
<1>4. n \in Nat /\ n + 1 = Len(idle) /\ \A i \in 1 .. n : idle[i] \in Buffer BY <1>1, <1>2
<1>5. Front(idle) = SubSeq(idle, 1, n) BY DEF Front
<1> HIDE DEF n
<1>6. SubSeq(idle, 1, n) \in Seq(Buffer) /\ Len(SubSeq(idle, 1, n)) = IF 1 <= n THEN n - 1 + 1 ELSE 0
  BY <1>4, SubSeqProperties
<1>7. Len(SubSeq(idle, 1, n)) = n BY <1>4, <1>6
<1> QED BY <1>1, <1>3, <1>4, <1>5, <1>6, <1>7

\* The atomics wrap at the word, and do not within it.
LEMMA WrappedValues ==
    /\ Word \in Nat /\ Word > MaxSize /\ MaxSize \in Nat \ {0} /\ Cardinality(Callers) \in Nat
    /\ \A n \in Int : Wrapped(n) \in 0 .. Word - 1
    /\ \A n \in 0 .. Word - 1 : Wrapped(n) = n
<1>1. Cardinality(Callers) \in Nat BY PoolAssumption, FS_CardinalityType
<1>2. Word \in Nat /\ Word > MaxSize /\ MaxSize \in Nat \ {0} BY <1>1, PoolAssumption
<1>3. ASSUME NEW n \in Int
      PROVE  Wrapped(n) \in 0 .. Word - 1 /\ (n \in 0 .. Word - 1 => Wrapped(n) = n)
  <2> DEFINE q == n \div Word
             r == n % Word
  <2>1. q \in Int /\ r \in Int /\ 0 <= r /\ r < Word /\ n = Word * q + r BY <1>2, SMT
  <2>2. ASSUME n \in 0 .. Word - 1 PROVE r = n
    <3> HIDE DEF q, r
    <3>1. q = 0 \/ q >= 1 \/ q <= 0 - 1 BY <2>1
    <3>2. q >= 1 => Word * q >= Word BY <1>2, <2>1, SMT
    <3>3. q <= 0 - 1 => Word * q <= 0 - Word BY <1>2, <2>1, SMT
    <3>4. q = 0 => Word * q = 0 BY <1>2
    <3> DEFINE p == Word * q
    <3>5. p \in Int BY <1>2, <2>1
    <3> HIDE DEF p
    <3> QED BY <1>2, <2>1, <2>2, <3>1, <3>2, <3>3, <3>4, <3>5 DEF p
  <2> QED BY <1>2, <2>1, <2>2 DEF Wrapped
<1> QED BY <1>1, <1>2, <1>3

\* A caller about to count its buffer holds it, and one about to uncount its
\* buffer was counted: in_use has room for both.
LEMMA InUseFits ==
    ASSUME Balanced, NEW t \in Callers
    PROVE  /\ at[t] = "count" => Wrapped(inUse + 1) = inUse + 1
           /\ at[t] = "uncount" => Wrapped(inUse - 1) = inUse - 1
<1> DEFINE H == Cardinality(Holders) C == Cardinality(CallersAt("count")) U == Cardinality(CallersAt("uncount"))
           A == Cardinality(Callers)
<1>1. H \in Nat /\ C \in Nat /\ U \in Nat /\ A \in Nat BY CallersCounted, WrappedValues
<1>2. C <= H
  <2>1. CallersAt("count") \subseteq Holders
    <3>1. NewBuffer # None BY PoolAssumption, BufferValues
    <3> QED BY <3>1 DEF Balanced, CallFits, CallersAt, Holders
  <2> QED BY <2>1, CallersCounted, FS_Subset
<1>3. U <= A
  <2>1. CallersAt("uncount") \subseteq Callers BY DEF CallersAt
  <2> QED BY <2>1, PoolAssumption, FS_Subset
<1>4. (at[t] = "count" => C > 0) /\ (at[t] = "uncount" => U > 0)
  <2>1. ASSUME NEW w, at[t] = w PROVE Cardinality(CallersAt(w)) > 0
    <3>1. CallersAt(w) # {} BY <2>1 DEF CallersAt
    <3> QED BY <3>1, CallersCounted, FS_EmptySet
  <2> QED BY <2>1
<1>5. inUse + C = H + U + escaped /\ H + escaped <= MaxSize
      /\ inUse \in 0 .. Word - 1 /\ escaped \in Nat
  <2>1. Out = H + escaped BY DEF Out
  <2>2. inUse + C = H + U + escaped BY DEF Balanced, InUseAccounted
  <2>3. inUse \in 0 .. Word - 1 BY DEF Balanced, PoolTypeOK
  <2>4. Out \in Nat /\ Len(idle) \in Nat /\ Len(idle) + Out <= allocated /\ allocated <= MaxSize /\ allocated \in Nat
        /\ escaped \in Nat /\ MaxSize \in Nat
    BY PoolNumbers, PoolAssumption
  <2>5. Out <= MaxSize BY <2>4
  <2> HIDE DEF H, C, U
  <2> QED BY <2>1, <2>2, <2>3, <2>4, <2>5
<1>6. Word \in Nat /\ Word > MaxSize + A /\ MaxSize \in Nat BY PoolAssumption
<1> HIDE DEF H, C, U, A
<1>7. at[t] = "count" => inUse + 1 \in 0 .. Word - 1 BY <1>1, <1>2, <1>3, <1>4, <1>5, <1>6
<1>8. at[t] = "uncount" => inUse - 1 \in 0 .. Word - 1 BY <1>1, <1>2, <1>3, <1>4, <1>5, <1>6
<1> QED BY <1>7, <1>8, WrappedValues

\* What Book leaves: the pool stays upset, and in one that is not, what the
\* action wrote.
LEMMA BookEffect ==
    ASSUME NEW l \in Nat, NEW e \in Nat, NEW n \in Nat, upsets \in Nat, Book(l, e, n)
    PROVE  /\ lost' \in Nat /\ escaped' \in Nat /\ upsets' \in Nat /\ upsets' >= upsets
           /\ upsets' = 0 => lost' = l /\ escaped' = e /\ n = 0
BY DEF Book

LEMMA OverlapEffect == Overlap \in Nat /\ (Overlap = 0 => \A u \in Callers : ~Clearing(u))
BY DEF Overlap

\* What the store does while its promise is kept.
Moves == Store!Take \/ Store!Grow \/ Store!Return \/ Store!Stock \/ Store!Trim

\* Every step that does not upset the pool keeps its books, and is a step of
\* BoundedPool or the refusal of an idle buffer.
LEMMA BalancedStep ==
    ASSUME Balanced, [PoolNext]_poolVars, PoolTypeOK', upsets' = 0
    PROVE  Balanced' /\ (Moves \/ UNCHANGED <<Len(idle), Out>> \/ refused')
<1> DEFINE Goal == Balanced' /\ (Moves \/ UNCHANGED <<Len(idle), Out>> \/ refused')
<1>t. /\ idle \in Seq(Buffer) /\ lock \in Callers \cup {None} /\ allocated \in Nat /\ inUse \in Nat
      /\ hold \in [Callers -> Buffer \cup {None}] /\ cur \in [Callers -> 0 .. Word - 1]
      /\ lost \in Nat /\ escaped \in Nat /\ upsets \in Nat
      /\ at \in [Callers -> {"rest", "load", "cas", "count", "uncount", "shrink", "prealloc", "fill", "cleared", "trim"}]
      /\ \A t \in Callers : CallFits(t)
  BY PoolAssumption DEF Balanced, PoolTypeOK
<1>n. /\ Len(idle) \in Nat /\ Out \in Nat /\ Len(idle) + Out <= allocated /\ allocated <= MaxSize
  BY PoolNumbers
<1>b. NewBuffer \in Buffer /\ NewBuffer # None /\ MaxSize \in Nat /\ \A b \in Buffer : b # None /\ Released(b) \in Buffer
  BY PoolAssumption, BufferValues DEF Released
<1> USE <1>t DEF history
<1>0. ASSUME NEW t \in Callers, WithinLimit', AllocatedSum', InUseAccounted', CallFits(t)',
             \A u \in Callers : u # t => CallFits(u)',
             Moves \/ UNCHANGED <<Len(idle), Out>> \/ refused'
      PROVE  Goal
  BY <1>0 DEF Balanced
<1>q. ASSUME idle' = idle, Out' = Out + (0 + 0)
      PROVE  UNCHANGED <<Len(idle), Out>>
  BY <1>n, <1>q
<1>e. ASSUME NEW l \in Nat, NEW k \in Nat, NEW n \in Nat, Book(l, k, n)
      PROVE  lost' = l /\ escaped' = k /\ n = 0
  BY <1>e, BookEffect
<1>o. ASSUME Book(lost, escaped, Overlap)
      PROVE  lost' = lost /\ escaped' = escaped /\ \A u \in Callers : ~Clearing(u)
  BY <1>o, <1>e, OverlapEffect
<1>1. ASSUME NEW t \in Callers, Acquire(t) PROVE Goal
  <2>1. CASE AcquirePop(t)
    <3>0. /\ Last(idle) \in Buffer /\ Front(idle) \in Seq(Buffer) /\ Len(Front(idle)) = Len(idle) + (0 - 1)
          /\ Len(idle) > 0
      BY <2>1, PopEffect DEF AcquirePop
    <3>a. /\ at[t] = "rest" /\ hold[t] = None /\ idle' = Front(idle) /\ \A u \in Callers : ~Clearing(u)
          /\ UNCHANGED <<lock, allocated, inUse, cur>>
      <4>1. \E l \in Nat : Book(l, escaped, Overlap) BY <2>1 DEF AcquirePop
      <4> QED BY <2>1, <4>1, <1>e, OverlapEffect DEF AcquirePop
    <3>b. CASE CanReset(Last(idle))
      <4>1. /\ hold'[t] = NewBuffer /\ at'[t] = "count" /\ Only(t) /\ UNCHANGED <<lost, escaped>>
        BY <2>1, <3>b, <1>o DEF AcquirePop, Only, Reset, NewBuffer
      <4>3. Shift(t, 0, 0, 0 - 1, 1, 1, 0, 0, 0)
        BY <3>0, <3>a, <4>1, <1>b DEF Shift, One
      <4>4. /\ AllocatedSum' /\ InUseAccounted'
            /\ Out' = Out + (1 + 0)
        <5>1. Only(t) BY <4>1
        <5> QED BY <5>1, <4>3, PoolMoves
      <4>5. WithinLimit' BY <3>a, <1>n DEF WithinLimit
      <4>6. \A u \in Callers : u # t => CallFits(u)' BY <3>a, <4>1, OthersFit
      <4>7. CallFits(t)' BY <4>1 DEF CallFits, Clearing
      <4>8. Moves BY <1>n, <3>0, <3>a, <4>4 DEF Moves, Store!Take
      <4> QED BY <1>0, <4>4, <4>5, <4>6, <4>7, <4>8
    <3>c. CASE ~CanReset(Last(idle))
      <4>1. /\ UNCHANGED <<hold, at, escaped>> /\ Only(t) /\ lost' = lost + 1 /\ refused'
        <5>1. Book(lost + 1, escaped, Overlap) /\ lost + 1 \in Nat BY <2>1, <3>c DEF AcquirePop
        <5>2. lost' = lost + 1 /\ escaped' = escaped BY <5>1, <1>e, OverlapEffect
        <5> QED BY <2>1, <3>a, <3>c, <5>2 DEF AcquirePop, Only
      <4>3. Shift(t, 0, 0, 0 - 1, 0, 0, 0, 1, 0)
        BY <3>0, <3>a, <4>1 DEF Shift, One
      <4>4. /\ AllocatedSum' /\ InUseAccounted'
            /\ Out' = Out + (0 + 0)
        BY <4>1, <4>3, PoolMoves
      <4>5. WithinLimit' BY <3>a, <1>n DEF WithinLimit
      <4>6. \A u \in Callers : u # t => CallFits(u)' BY <3>a, <4>1, OthersFit
      <4>7. CallFits(t)' BY <3>a, <4>1 DEF CallFits, Clearing
      <4> QED BY <1>0, <4>1, <4>4, <4>5, <4>6, <4>7
    <3> QED BY <3>b, <3>c
  <2>2. CASE AcquireEmpty(t)
    <3>1. /\ at[t] = "rest" /\ hold[t] = None /\ at'[t] = "load" /\ \A u \in Callers : ~Clearing(u)
          /\ UNCHANGED <<idle, lock, allocated, inUse, hold, cur, lost, escaped>>
          /\ Only(t)
      BY <2>2, <1>o DEF AcquireEmpty, Only
    <3>3. Shift(t, 0, 0, 0, 0, 0, 0, 0, 0)
      BY <3>1, <1>b DEF Shift, One
    <3>4. /\ AllocatedSum' /\ InUseAccounted'
          /\ Out' = Out + (0 + 0)
      BY <3>1, <3>3, PoolMoves
    <3>5. WithinLimit'
      BY <3>1, <1>n DEF WithinLimit
    <3>6. \A u \in Callers : u # t => CallFits(u)'
      BY <3>1, OthersFit DEF CallFits, Clearing
    <3>7. CallFits(t)'
      BY <3>1, <1>b DEF CallFits, Clearing
    <3>8. UNCHANGED <<Len(idle), Out>>
      BY <3>1, <3>4, <1>q
    <3> QED BY <1>0, <3>4, <3>5, <3>6, <3>7, <3>8
  <2>3. CASE AcquireLoad(t)
    <3>1. /\ at[t] = "load" /\ at'[t] = "cas"
          /\ UNCHANGED <<idle, lock, allocated, inUse, hold, lost, escaped>>
          /\ Only(t)
      BY <2>3, <1>e DEF AcquireLoad, Only
    <3>3. Shift(t, 0, 0, 0, 0, 0, 0, 0, 0)
      BY <3>1, <1>b DEF Shift, One
    <3>4. /\ AllocatedSum' /\ InUseAccounted'
          /\ Out' = Out + (0 + 0)
      BY <3>1, <3>3, PoolMoves
    <3>5. WithinLimit'
      BY <3>1, <1>n DEF WithinLimit
    <3>6. \A u \in Callers : u # t => CallFits(u)'
      BY <3>1, OthersFit DEF CallFits, Clearing
    <3>7. CallFits(t)'
      BY <3>1, <1>b DEF CallFits, Clearing
    <3>8. UNCHANGED <<Len(idle), Out>>
      BY <3>1, <3>4, <1>q
    <3> QED BY <1>0, <3>4, <3>5, <3>6, <3>7, <3>8
  <2>4. CASE AcquireExhausted(t)
    <3>1. /\ at[t] = "cas" /\ at'[t] = "rest"
          /\ UNCHANGED <<idle, lock, allocated, inUse, hold, lost, escaped>>
          /\ Only(t)
      BY <2>4, <1>e DEF AcquireExhausted, Only
    <3>3. Shift(t, 0, 0, 0, 0, 0, 0, 0, 0)
      BY <3>1, <1>b DEF Shift, One
    <3>4. /\ AllocatedSum' /\ InUseAccounted'
          /\ Out' = Out + (0 + 0)
      BY <3>1, <3>3, PoolMoves
    <3>5. WithinLimit'
      BY <3>1, <1>n DEF WithinLimit
    <3>6. \A u \in Callers : u # t => CallFits(u)'
      BY <3>1, OthersFit DEF CallFits, Clearing
    <3>7. CallFits(t)'
      BY <3>1, <1>b DEF CallFits, Clearing
    <3>8. UNCHANGED <<Len(idle), Out>>
      BY <3>1, <3>4, <1>q
    <3> QED BY <1>0, <3>4, <3>5, <3>6, <3>7, <3>8
  <2>5. CASE AcquireGrow(t)
    <3>1. /\ at[t] = "cas" /\ at'[t] = "count" /\ hold[t] = None /\ hold'[t] = NewBuffer
          /\ allocated < MaxSize /\ allocated' = allocated + 1
          /\ UNCHANGED <<idle, lock, inUse, lost, escaped>>
          /\ Only(t)
      BY <2>5, <1>e DEF AcquireGrow, CallFits, Only
    <3>3. Shift(t, 1, 0, 0, 1, 1, 0, 0, 0)
      BY <3>1, <1>b, <1>n DEF Shift, One
    <3>4. /\ AllocatedSum' /\ InUseAccounted'
          /\ Out' = Out + (1 + 0)
      BY <3>1, <3>3, PoolMoves
    <3>5. WithinLimit'
      BY <3>1, <1>n, <1>b DEF WithinLimit
    <3>6. \A u \in Callers : u # t => CallFits(u)'
      BY <3>1, OthersFit DEF CallFits, Clearing
    <3>7. CallFits(t)'
      BY <3>1, <1>b DEF CallFits, Clearing
    <3>9. Len(idle) + Out < MaxSize BY <1>n, <1>b, <3>1
    <3>8. Moves
      BY <1>n, <3>1, <3>4, <3>9 DEF Moves, Store!Grow
    <3> QED BY <1>0, <3>4, <3>5, <3>6, <3>7, <3>8
  <2>6. CASE AcquireRetry(t)
    <3>1. /\ at[t] = "cas"
          /\ UNCHANGED <<idle, lock, allocated, inUse, hold, at, lost, escaped>>
          /\ Only(t)
      BY <2>6, <1>e DEF AcquireRetry, Only
    <3>3. Shift(t, 0, 0, 0, 0, 0, 0, 0, 0)
      BY <3>1, <1>b DEF Shift, One
    <3>4. /\ AllocatedSum' /\ InUseAccounted'
          /\ Out' = Out + (0 + 0)
      BY <3>1, <3>3, PoolMoves
    <3>5. WithinLimit'
      BY <3>1, <1>n DEF WithinLimit
    <3>6. \A u \in Callers : u # t => CallFits(u)'
      BY <3>1, OthersFit DEF CallFits, Clearing
    <3>7. CallFits(t)'
      BY <3>1, <1>b DEF CallFits, Clearing
    <3>8. UNCHANGED <<Len(idle), Out>>
      BY <3>1, <3>4, <1>q
    <3> QED BY <1>0, <3>4, <3>5, <3>6, <3>7, <3>8
  <2>7. CASE AcquireCount(t)
    <3>1. /\ at[t] = "count" /\ at'[t] = "rest" /\ inUse' = inUse + 1
          /\ UNCHANGED <<idle, lock, allocated, hold, cur, lost, escaped>>
          /\ Only(t)
      <4>1. at[t] = "count" /\ Wrapped(inUse + 1) = inUse + 1
        BY <2>7, InUseFits DEF AcquireCount
      <4> QED BY <2>7, <4>1 DEF AcquireCount, Only
    <3>3. Shift(t, 0, 1, 0, 0, 0 - 1, 0, 0, 0)
      BY <3>1, <1>b DEF Shift, One
    <3>4. /\ AllocatedSum' /\ InUseAccounted'
          /\ Out' = Out + (0 + 0)
      BY <3>1, <3>3, PoolMoves
    <3>5. WithinLimit'
      BY <3>1, <1>n DEF WithinLimit
    <3>6. \A u \in Callers : u # t => CallFits(u)'
      BY <3>1, OthersFit DEF CallFits, Clearing
    <3>7. CallFits(t)'
      BY <3>1, <1>b DEF CallFits, Clearing
    <3>8. UNCHANGED <<Len(idle), Out>>
      BY <3>1, <3>4, <1>q
    <3> QED BY <1>0, <3>4, <3>5, <3>6, <3>7, <3>8
  <2> QED BY <1>1, <2>1, <2>2, <2>3, <2>4, <2>5, <2>6, <2>7 DEF Acquire
<1>m. ASSUME NEW t \in Callers, NEW b \in Buffer, hold[t] # None, Modify(t, b) PROVE Goal
  <2>1. /\ at[t] = "rest" /\ at'[t] = "rest" /\ hold'[t] = b /\ b # None /\ Only(t)
        /\ UNCHANGED <<idle, lock, allocated, inUse, at, cur, lost, escaped>>
    BY <1>m, <1>b DEF Modify, Only
  <2>3. Shift(t, 0, 0, 0, 0, 0, 0, 0, 0) BY <1>m, <1>n, <2>1 DEF Shift, One
  <2>4. AllocatedSum' /\ InUseAccounted' /\ Out' = Out + (0 + 0)
    BY <2>1, <2>3, PoolMoves
  <2>5. WithinLimit' BY <1>n, <2>1 DEF WithinLimit
  <2>6. \A u \in Callers : u # t => CallFits(u)' BY <2>1, OthersFit
  <2>7. CallFits(t)' BY <2>1 DEF CallFits, Clearing
  <2>8. UNCHANGED <<Len(idle), Out>> BY <2>1, <2>4, <1>q
  <2> QED BY <1>0, <2>4, <2>5, <2>6, <2>7, <2>8
<1>2. ASSUME NEW t \in Callers, BufferUse(t) PROVE Goal
  <2>1. CASE BufferWrite(t)
    <3>1. PICK n \in 1 .. Capacity + 1 : hold[t] # None /\ Modify(t, Written(hold[t], n)) BY <2>1 DEF BufferWrite
    <3>2. hold[t] \in Buffer BY <3>1
    <3>4. ~(n > Capacity) => n \in 0 .. Capacity BY PoolAssumption
    <3>3. Written(hold[t], n) \in Buffer BY <3>2, <3>4, BufferValues DEF Written
    <3> QED BY <1>m, <3>1, <3>3
  <2>2. CASE Extend(t)
    <3>1. PICK n \in 1 .. Capacity : hold[t] # None /\ Modify(t, Appended(hold[t], n)) BY <2>2 DEF Extend
    <3>2. hold[t] \in Buffer BY <3>1
    <3>5. hold[t].length \in 0 .. Capacity BY <3>2, BufferValues
    <3>4. ~(hold[t].length + n > Capacity) => hold[t].length + n \in 0 .. Capacity BY <3>5, PoolAssumption
    <3>3. Appended(hold[t], n) \in Buffer BY <3>2, <3>4, BufferValues DEF Appended
    <3> QED BY <1>m, <3>1, <3>3
  <2>3. CASE Empty(t)
    <3>1. hold[t] \in Buffer /\ Emptied(hold[t]) \in Buffer BY <2>3, BufferValues, PoolAssumption DEF Empty, Emptied
    <3> QED BY <1>m, <2>3, <3>1 DEF Empty
  <2>4. CASE MarkReleased(t)
    <3>1. hold[t] \in Buffer /\ Released(hold[t]) \in Buffer BY <2>4, <1>b DEF MarkReleased
    <3> QED BY <1>m, <2>4, <3>1 DEF MarkReleased
  <2>5. CASE Escape(t)
    <3>1. /\ at[t] = "rest" /\ hold[t] # None /\ hold'[t] = None /\ escaped' = escaped + 1
          /\ UNCHANGED <<idle, lock, allocated, inUse, at, cur, lost>>
          /\ Only(t)
      <4>1. Book(lost, escaped + 1, 0) /\ escaped + 1 \in Nat BY <2>5 DEF Escape
      <4>2. lost' = lost /\ escaped' = escaped + 1 BY <4>1, <1>e
      <4> QED BY <2>5, <4>2 DEF Escape, Only
    <3>3. Shift(t, 0, 0, 0, 0 - 1, 0, 0, 0, 1)
      BY <3>1, <1>b, <1>n DEF Shift, One
    <3>9. 0 = 0 + (0 - 1) + 0 + 1 /\ 0 + 0 = (0 - 1) + 0 + 1 OBVIOUS
    <3>4. /\ AllocatedSum' /\ InUseAccounted'
          /\ Out' = Out + ((0 - 1) + 1)
      BY <3>1, <3>3, <3>9, PoolMoves
    <3>5. WithinLimit'
      BY <3>1, <1>n DEF WithinLimit
    <3>6. \A u \in Callers : u # t => CallFits(u)'
      BY <3>1, OthersFit DEF CallFits, Clearing
    <3>7. CallFits(t)'
      BY <3>1, <1>b DEF CallFits, Clearing
    <3>8. UNCHANGED <<Len(idle), Out>>
      BY <3>1, <3>4, <1>n
    <3> QED BY <1>0, <3>4, <3>5, <3>6, <3>7, <3>8
  <2> QED BY <1>2, <2>1, <2>2, <2>3, <2>4, <2>5 DEF BufferUse
<1>3. ASSUME NEW t \in Callers, Release(t) PROVE Goal
  <2>0. hold[t] # None BY <1>3 DEF Release
  <2>1. Len(idle) < MaxSize /\ Out > 0
    <3>1. t \in Holders BY <2>0 DEF Holders
    <3>2. Cardinality(Holders) # 0 BY <3>1, CallersCounted, FS_EmptySet
    <3>3. Out > 0 BY <3>2, CallersCounted DEF Out
    <3> QED BY <3>3, <1>n, <1>b
  <2>2. Released(hold[t]) \in Buffer BY <2>0, <1>b
  <2>3. /\ at[t] = "rest" /\ hold'[t] = None /\ at'[t] = "uncount" /\ cur'[t] = 0 /\ Only(t)
        /\ idle' = Append(idle, Released(hold[t])) /\ \A u \in Callers : ~Clearing(u)
        /\ UNCHANGED <<lock, allocated, inUse, lost, escaped>>
    BY <1>o, <1>3, <2>1, <1>n, <1>b DEF Release, GiveBack, Only
  <2>4. idle' \in Seq(Buffer) /\ Len(idle') = Len(idle) + 1 BY <2>2, <2>3
  <2>6. Shift(t, 0, 0, 1, 0 - 1, 0, 1, 0, 0) BY <2>0, <2>3, <2>4, <1>n DEF Shift, One
  <2>12. 0 = 1 + (0 - 1) + 0 + 0 /\ 0 + 0 = (0 - 1) + 1 + 0 OBVIOUS
  <2>7. AllocatedSum' /\ InUseAccounted' /\ Out' = Out + ((0 - 1) + 0)
    BY <2>3, <2>6, <2>12, PoolMoves
  <2>8. WithinLimit' BY <1>n, <2>3 DEF WithinLimit
  <2>9. \A u \in Callers : u # t => CallFits(u)' BY <2>3, OthersFit
  <2>10. CallFits(t)' BY <2>3 DEF CallFits, Clearing
  <2>11. Moves BY <1>n, <2>1, <2>4, <2>7 DEF Moves, Store!Return
  <2> QED BY <1>0, <2>7, <2>8, <2>9, <2>10, <2>11
<1>4. ASSUME NEW t \in Callers, ReleaseUncount(t) PROVE Goal
  <2>0. at[t] = "uncount" /\ cur[t] = 0 BY <1>4 DEF ReleaseUncount, CallFits
  <2>1. CASE ReleaseUncount(t)
    <3>1. /\ at'[t] = "rest" /\ inUse' = inUse - 1
          /\ UNCHANGED <<idle, lock, allocated, hold, cur, lost, escaped>>
          /\ Only(t)
      <4>1. Wrapped(inUse - 1) = inUse - 1 BY <2>0, InUseFits
      <4> QED BY <2>1, <2>0, <4>1 DEF ReleaseUncount, Only
    <3>3. Shift(t, 0, 0 - 1, 0, 0, 0, 0 - 1, 0, 0)
      BY <3>1, <1>b, <2>0, <1>n DEF Shift, One
    <3>4. /\ AllocatedSum' /\ InUseAccounted'
          /\ Out' = Out + (0 + 0)
      BY <3>1, <3>3, PoolMoves
    <3>5. WithinLimit'
      BY <3>1, <1>n DEF WithinLimit
    <3>6. \A u \in Callers : u # t => CallFits(u)'
      BY <2>0, <3>1, OthersFit DEF CallFits, Clearing
    <3>7. CallFits(t)'
      BY <3>1, <1>b, <2>0 DEF CallFits, Clearing
    <3>8. UNCHANGED <<Len(idle), Out>>
      BY <3>1, <3>4, <1>q
    <3> QED BY <1>0, <3>4, <3>5, <3>6, <3>7, <3>8
  <2> QED BY <1>4, <2>1
<1>5. ASSUME NEW t \in Callers, Manage(t) PROVE Goal
  <2>1. CASE PoolClear(t)
    <3>1. /\ at'[t] = "cleared" /\ idle' = <<>> /\ lost' = lost + Len(idle)
          /\ \A u \in Callers : at[u] = "rest"
          /\ Only(t) /\ UNCHANGED <<lock, allocated, inUse, hold, cur, escaped>>
      BY <2>1, <1>e DEF PoolClear, Only
    <3>2. Len(idle') = 0 /\ idle' \in Seq(Buffer) BY <3>1
    <3>4. AllocatedSum' /\ InUseAccounted' /\ Out' = Out + (0 + 0)
      <4> DEFINE k == Len(idle)
      <4>1. k \in Nat /\ Len(idle') = 0 /\ lost' = lost + k BY <1>n, <3>1, <3>2
      <4> HIDE DEF k
      <4>2. 0 = k + (0 - k) /\ 0 - k \in Int /\ k \in Int /\ 0 = (0 - k) + 0 + k + 0 BY <4>1
      <4>3. Len(idle') = Len(idle) + (0 - k) BY <4>1, <4>2 DEF k
      <4>5. /\ One(hold'[t] # None) - One(hold[t] # None) = 0 /\ One(at'[t] = "count") - One(at[t] = "count") = 0
            /\ One(at'[t] = "uncount") - One(at[t] = "uncount") = 0
        <5>1. hold'[t] = hold[t] /\ at[t] = "rest" /\ at'[t] = "cleared" BY <3>1
        <5>2. "rest" # "count" /\ "rest" # "uncount" /\ "cleared" # "count" /\ "cleared" # "uncount" OBVIOUS
        <5> QED BY <5>1, <5>2 DEF One
      <4>6. allocated' = allocated + 0 /\ inUse' = inUse + 0 /\ escaped' = escaped + 0 BY <3>1
      <4>4. Shift(t, 0, 0, 0 - k, 0, 0, 0, k, 0) BY <4>1, <4>3, <4>5, <4>6 DEF Shift
      <4> QED BY <3>1, <4>2, <4>4, PoolMoves
    <3>5. Out' = Out BY <1>n, <3>4
    <3>6. WithinLimit' BY <1>n, <3>1 DEF WithinLimit
    <3>7. \A u \in Callers : u # t => CallFits(u)' BY <3>1 DEF Only, CallFits, Clearing
    <3>8. CallFits(t)' BY <3>1 DEF Only, CallFits, Clearing
    <3>9. Moves BY <1>n, <3>2, <3>5 DEF Moves, Store!Trim
    <3> QED BY <1>0, <3>4, <3>6, <3>7, <3>8, <3>9
  <2>2. CASE ClearLoad(t)
    <3>0. Clearing(t) /\ idle = <<>> /\ \A u \in Callers : u # t => at[u] = "rest"
      BY <2>2 DEF ClearLoad, Clearing, CallFits
    <3>9. Cardinality(CallersAt("count")) = 0 /\ Cardinality(CallersAt("uncount")) = 0
      <4>1. CallersAt("count") = {} /\ CallersAt("uncount") = {} BY <3>0 DEF CallersAt, Clearing
      <4> QED BY <4>1, FS_EmptySet
    <3>10. inUse = Cardinality(Holders) + escaped
      BY <3>9, CallersCounted DEF Balanced, InUseAccounted
    <3>11. inUse \in Nat BY <3>10, CallersCounted
    <3>1. /\ at[t] = "cleared" /\ at'[t] = "trim" /\ cur'[t] = inUse
          /\ UNCHANGED <<idle, lock, allocated, inUse, hold, lost, escaped>>
          /\ Only(t)
      BY <2>2, <1>e DEF ClearLoad, Only
    <3>3. Shift(t, 0, 0, 0, 0, 0, 0, 0, 0)
      BY <3>1, <1>b DEF Shift, One
    <3>4. /\ AllocatedSum' /\ InUseAccounted'
          /\ Out' = Out + (0 + 0)
      BY <3>1, <3>3, PoolMoves
    <3>5. WithinLimit'
      BY <3>1, <1>n DEF WithinLimit
    <3>12. \A u \in Callers : u # t => at'[u] = "rest" BY <3>0, <3>1 DEF Only
    <3>6. \A u \in Callers : u # t => CallFits(u)'
      BY <3>0, <3>1, OthersFit DEF CallFits, Clearing
    <3>7. CallFits(t)'
      BY <3>1, <3>12, <1>b, <3>0 DEF CallFits, Clearing
    <3>8. UNCHANGED <<Len(idle), Out>>
      BY <3>1, <3>4, <1>q
    <3> QED BY <1>0, <3>4, <3>5, <3>6, <3>7, <3>8
  <2>3. CASE ClearStore(t)
    <3>0. Clearing(t) /\ idle = <<>> /\ \A u \in Callers : u # t => at[u] = "rest"
      BY <2>3 DEF ClearStore, Clearing, CallFits
    <3>9. Cardinality(CallersAt("count")) = 0 /\ Cardinality(CallersAt("uncount")) = 0
      <4>1. CallersAt("count") = {} /\ CallersAt("uncount") = {} BY <3>0 DEF CallersAt, Clearing
      <4> QED BY <4>1, FS_EmptySet
    <3>10. inUse = Cardinality(Holders) + escaped
      BY <3>9, CallersCounted DEF Balanced, InUseAccounted
    <3>1. /\ at'[t] = "rest" /\ allocated' = inUse /\ lost' = 0 /\ Only(t)
          /\ UNCHANGED <<idle, lock, inUse, hold, escaped>>
      <4>1. Book(0, escaped, 0) BY <2>3 DEF ClearStore
      <4>2. lost' = 0 /\ escaped' = escaped BY <4>1, <1>e
      <4> QED BY <2>3, <4>2 DEF ClearStore, CallFits, Only
    <3>2. inUse \in Nat /\ inUse = Out BY <3>10, CallersCounted DEF Out
    <3>4. Holders' = Holders /\ CallersAt("count")' = CallersAt("count") /\ CallersAt("uncount")' = CallersAt("uncount")
      <4>1. at[t] = "trim" BY <2>3 DEF ClearStore
      <4> QED BY <3>1, <4>1 DEF Only, Holders, CallersAt
    <3>5. Len(idle) = 0 BY <3>0
    <3>6. AllocatedSum' BY <3>1, <3>4, <3>5, <3>10, CallersCounted DEF AllocatedSum
    <3>7. InUseAccounted' BY <3>1, <3>4 DEF Balanced, InUseAccounted
    <3>8. WithinLimit' BY <1>n, <1>b, <3>1, <3>2 DEF WithinLimit
    <3>11. \A u \in Callers : u # t => CallFits(u)'
      BY <3>0, <3>1, OthersFit DEF Clearing
    <3>12. CallFits(t)' BY <3>1 DEF CallFits, Clearing
    <3>13. UNCHANGED <<Len(idle), Out>> BY <3>1, <3>4 DEF Out
    <3> QED BY <1>0, <3>6, <3>7, <3>8, <3>11, <3>12, <3>13
  <2>4. CASE \E count \in 1 .. MaxSize + 1 : Preallocate(t, count)
    <3>1. /\ at[t] = "rest" /\ at'[t] = "prealloc"
          /\ \A u \in Callers : ~Clearing(u)
          /\ UNCHANGED <<idle, allocated, inUse, hold, lost, escaped>>
          /\ Only(t)
      <4>1. PICK count \in 1 .. MaxSize + 1 : Preallocate(t, count) BY <2>4
      <4> QED BY <4>1, <1>o DEF Preallocate, Only
    <3>3. Shift(t, 0, 0, 0, 0, 0, 0, 0, 0)
      BY <3>1, <1>b DEF Shift, One
    <3>4. /\ AllocatedSum' /\ InUseAccounted'
          /\ Out' = Out + (0 + 0)
      BY <3>1, <3>3, PoolMoves
    <3>5. WithinLimit'
      BY <3>1, <1>n DEF WithinLimit
    <3>6. \A u \in Callers : u # t => CallFits(u)'
      BY <3>1, OthersFit DEF CallFits, Clearing
    <3>7. CallFits(t)'
      BY <3>1, <1>b DEF CallFits, Clearing
    <3>8. UNCHANGED <<Len(idle), Out>>
      BY <3>1, <3>4, <1>q
    <3> QED BY <1>0, <3>4, <3>5, <3>6, <3>7, <3>8
  <2>5. CASE PreallocateOne(t)
    <3>1. /\ at[t] = "fill" /\ at'[t] = "prealloc" /\ allocated < MaxSize /\ allocated' = allocated + 1
          /\ idle' = Append(idle, NewBuffer)
          /\ UNCHANGED <<lock, inUse, hold, cur, lost, escaped>>
          /\ Only(t)
      BY <2>5 DEF PreallocateOne, Only
    <3>9. idle' \in Seq(Buffer) /\ Len(idle') = Len(idle) + 1 BY <3>1, <1>b
    <3>3. Shift(t, 1, 0, 1, 0, 0, 0, 0, 0)
      BY <3>1, <1>b, <1>n, <3>9 DEF Shift, One
    <3>4. /\ AllocatedSum' /\ InUseAccounted'
          /\ Out' = Out + (0 + 0)
      BY <3>1, <3>3, PoolMoves
    <3>5. WithinLimit'
      BY <3>1, <1>n, <1>b DEF WithinLimit
    <3>6. \A u \in Callers : u # t => CallFits(u)'
      BY <3>1, OthersFit DEF CallFits, Clearing
    <3>7. CallFits(t)'
      BY <3>1, <1>b DEF CallFits, Clearing
    <3>8. Moves
      BY <1>n, <3>1, <3>4, <1>b DEF Moves, Store!Stock
    <3> QED BY <1>0, <3>4, <3>5, <3>6, <3>7, <3>8
  <2>6. CASE PreallocateDone(t)
    <3>1. /\ at[t] \in {"prealloc", "fill"} /\ at'[t] = "rest"
          /\ UNCHANGED <<idle, allocated, inUse, hold, lost, escaped>>
          /\ Only(t)
      BY <2>6, <1>t DEF PreallocateDone, Only
    <3>3. Shift(t, 0, 0, 0, 0, 0, 0, 0, 0)
      <4>1. at[t] # "count" /\ at'[t] # "count" /\ at[t] # "uncount" /\ at'[t] # "uncount" BY <3>1
      <4>2. hold'[t] = hold[t] /\ One(hold'[t] # None) - One(hold[t] # None) = 0 BY <3>1 DEF One
      <4>3. /\ One(at'[t] = "count") - One(at[t] = "count") = 0
            /\ One(at'[t] = "uncount") - One(at[t] = "uncount") = 0
        BY <4>1 DEF One
      <4>4. /\ allocated' = allocated + 0 /\ inUse' = inUse + 0 /\ Len(idle') = Len(idle) + 0
            /\ lost' = lost + 0 /\ escaped' = escaped + 0
        BY <3>1, <1>n
      <4> QED BY <4>2, <4>3, <4>4 DEF Shift
    <3>4. /\ AllocatedSum' /\ InUseAccounted'
          /\ Out' = Out + (0 + 0)
      BY <3>1, <3>3, PoolMoves
    <3>5. WithinLimit'
      BY <3>1, <1>n DEF WithinLimit
    <3>6. \A u \in Callers : u # t => CallFits(u)'
      BY <3>1, OthersFit DEF CallFits, Clearing
    <3>7. CallFits(t)'
      BY <3>1, <1>b DEF CallFits, Clearing
    <3>8. UNCHANGED <<Len(idle), Out>>
      BY <3>1, <3>4, <1>q
    <3> QED BY <1>0, <3>4, <3>5, <3>6, <3>7, <3>8
  <2>7. CASE PreallocateMore(t) \/ PreallocateRetry(t)
    <3>1. /\ at[t] \in {"prealloc", "fill"} /\ at'[t] \in {"prealloc", "fill"}
          /\ UNCHANGED <<idle, allocated, inUse, hold, lost, escaped>>
          /\ Only(t)
      BY <2>7, <1>t DEF PreallocateMore, PreallocateRetry, Only
    <3>3. Shift(t, 0, 0, 0, 0, 0, 0, 0, 0)
      <4>1. at[t] # "count" /\ at'[t] # "count" /\ at[t] # "uncount" /\ at'[t] # "uncount" BY <3>1
      <4>2. hold'[t] = hold[t] /\ One(hold'[t] # None) - One(hold[t] # None) = 0 BY <3>1 DEF One
      <4> QED BY <3>1, <4>1, <4>2, <1>n DEF Shift, One
    <3>4. /\ AllocatedSum' /\ InUseAccounted'
          /\ Out' = Out + (0 + 0)
      BY <3>1, <3>3, PoolMoves
    <3>5. WithinLimit'
      BY <3>1, <1>n DEF WithinLimit
    <3>6. \A u \in Callers : u # t => CallFits(u)'
      BY <3>1, OthersFit DEF CallFits, Clearing
    <3>7. CallFits(t)'
      BY <3>1, <1>b DEF CallFits, Clearing
    <3>8. UNCHANGED <<Len(idle), Out>>
      BY <3>1, <3>4, <1>q
    <3> QED BY <1>0, <3>4, <3>5, <3>6, <3>7, <3>8
  <2> QED BY <1>5, <2>1, <2>2, <2>3, <2>4, <2>5, <2>6, <2>7 DEF Manage
<1>6. CASE UNCHANGED poolVars
  <2>1. Holders' = Holders /\ \A w : CallersAt(w)' = CallersAt(w) BY <1>6 DEF poolVars, Holders, CallersAt
  <2>3. AllocatedSum' /\ InUseAccounted' /\ WithinLimit'
    BY <1>6, <2>1 DEF poolVars, Balanced, AllocatedSum, InUseAccounted, WithinLimit
  <2>4. \A u \in Callers : CallFits(u)' BY <1>6 DEF poolVars, CallFits, Clearing
  <2>5. UNCHANGED <<Len(idle), Out>> BY <1>6, <2>1 DEF poolVars, Out
  <2> QED BY <2>3, <2>4, <2>5 DEF Balanced
<1>7. ASSUME NEW t \in Callers, ReleaseForeign(t) PROVE Goal
  <2>1. Overlap + 1 \in Nat /\ Overlap + 1 # 0 BY OverlapEffect
  <2>2. Book(lost, escaped, Overlap + 1) BY <1>7 DEF ReleaseForeign
  <2> QED BY <2>1, <2>2, <1>e
<1> QED BY <1>1, <1>2, <1>3, <1>4, <1>5, <1>6, <1>7 DEF PoolNext

\* The types, and that a buffer is handed out empty, whatever has happened.
LEMMA PoolTypes ==
    ASSUME PoolTypeOK, HandedOutEmpty, [PoolNext]_poolVars
    PROVE  /\ PoolTypeOK' /\ HandedOutEmpty'
           /\ upsets' >= upsets /\ (refused => refused')
<1>t. /\ idle \in Seq(Buffer) /\ lock \in Callers \cup {None} /\ allocated \in 0 .. Word - 1 /\ inUse \in 0 .. Word - 1
      /\ hold \in [Callers -> Buffer \cup {None}] /\ cur \in [Callers -> 0 .. Word - 1]
      /\ lost \in Nat /\ escaped \in Nat /\ upsets \in Nat /\ refused \in BOOLEAN
      /\ at \in [Callers -> {"rest", "load", "cas", "count", "uncount", "shrink", "prealloc", "fill", "cleared", "trim"}]
  BY DEF PoolTypeOK
<1>e. \A u \in Callers : at[u] = "count" => hold[u] = NewBuffer BY DEF HandedOutEmpty, CallersAt
<1>b. NewBuffer \in Buffer /\ \A b \in Buffer : Released(b) \in Buffer BY BufferValues DEF Released
<1>w. 0 \in 0 .. Word - 1 /\ 1 \in 0 .. Word - 1 /\ Word \in Nat /\ MaxSize \in Nat /\ MaxSize < Word BY WrappedValues
<1> DEFINE Goal == PoolTypeOK' /\ HandedOutEmpty' /\ upsets' >= upsets /\ (refused => refused')
<1> USE <1>t DEF history
<1>h. ASSUME UNCHANGED history
      PROVE  /\ lost' \in Nat /\ escaped' \in Nat /\ upsets' \in Nat /\ refused' \in BOOLEAN
             /\ upsets' >= upsets /\ (refused => refused')
  BY <1>h
<1>g. ASSUME NEW l \in Nat, NEW k \in Nat, NEW n \in Nat, Book(l, k, n), refused' = refused \/ refused' = TRUE
      PROVE  /\ lost' \in Nat /\ escaped' \in Nat /\ upsets' \in Nat /\ refused' \in BOOLEAN
             /\ upsets' >= upsets /\ (refused => refused')
  <2>1. lost' \in Nat /\ escaped' \in Nat /\ upsets' \in Nat /\ upsets' >= upsets BY <1>g, BookEffect
  <2>2. refused' \in BOOLEAN /\ (refused => refused')
    <3>1. CASE refused' = TRUE BY <3>1
    <3>2. CASE refused' = refused BY <3>2
    <3> QED BY <1>g, <3>1, <3>2
  <2> QED BY <2>1, <2>2
\* A step of one caller, and what is left to show of it.
<1>0. ASSUME NEW t \in Callers, Only(t), at'[t] = "count" => hold'[t] = NewBuffer,
             idle' \in Seq(Buffer), lock' \in Callers \cup {None}, allocated' \in 0 .. Word - 1, inUse' \in 0 .. Word - 1,
             hold' \in [Callers -> Buffer \cup {None}], cur' \in [Callers -> 0 .. Word - 1],
             at' \in [Callers -> {"rest", "load", "cas", "count", "uncount", "shrink", "prealloc", "fill", "cleared", "trim"}],
             /\ lost' \in Nat /\ escaped' \in Nat /\ upsets' \in Nat /\ refused' \in BOOLEAN
             /\ upsets' >= upsets /\ (refused => refused')
      PROVE  Goal
  <2>1. PoolTypeOK' BY <1>0 DEF PoolTypeOK
  <2>2. \A u \in Callers : at'[u] = "count" => hold'[u] = NewBuffer BY <1>0, <1>e DEF Only
  <2>3. HandedOutEmpty' BY <2>2 DEF HandedOutEmpty, CallersAt
  <2> QED BY <1>0, <2>1, <2>3
<1>1. ASSUME NEW t \in Callers, Acquire(t) PROVE Goal
  <2>1. CASE AcquirePop(t)
    <3>1. Last(idle) \in Buffer /\ Front(idle) \in Seq(Buffer) BY <2>1, PopEffect DEF AcquirePop
    <3>2. lost + 1 \in Nat /\ Overlap \in Nat BY OverlapEffect
    <3>3. CASE CanReset(Last(idle))
      <4>1. /\ Book(lost, escaped, Overlap) /\ refused' = refused /\ idle' = Front(idle)
            /\ hold' = [hold EXCEPT ![t] = NewBuffer] /\ at' = [at EXCEPT ![t] = "count"]
            /\ UNCHANGED <<lock, allocated, inUse, cur>>
        BY <2>1, <3>3 DEF AcquirePop, Reset, NewBuffer
      <4> QED BY <4>1, <3>1, <3>2, <1>0, <1>g, <1>b DEF Only
    <3>4. CASE ~CanReset(Last(idle))
      <4>1. /\ Book(lost + 1, escaped, Overlap) /\ refused' = TRUE /\ idle' = Front(idle)
            /\ UNCHANGED <<lock, allocated, inUse, cur, hold, at>>
        BY <2>1, <3>4 DEF AcquirePop
      <4> QED BY <4>1, <3>1, <3>2, <1>0, <1>g, <1>e DEF Only
    <3> QED BY <3>3, <3>4
  <2>2. CASE AcquireEmpty(t)
    BY <2>2, <1>0, <1>g, OverlapEffect DEF AcquireEmpty, Only
  <2>3. CASE AcquireLoad(t)
    BY <2>3, <1>0, <1>h DEF AcquireLoad, Only
  <2>4. CASE AcquireExhausted(t)
    BY <2>4, <1>0, <1>h, <1>w DEF AcquireExhausted, Only
  <2>5. CASE AcquireGrow(t)
    <3>1. allocated' \in 0 .. Word - 1 BY <2>5, <1>w DEF AcquireGrow
    <3> QED BY <2>5, <3>1, <1>0, <1>h, <1>w, <1>b DEF AcquireGrow, Only
  <2>6. CASE AcquireRetry(t)
    BY <2>6, <1>0, <1>h DEF AcquireRetry, Only
  <2>7. CASE AcquireCount(t)
    <3>1. inUse' \in 0 .. Word - 1 BY <2>7, WrappedValues DEF AcquireCount
    <3> QED BY <2>7, <3>1, <1>0, <1>h DEF AcquireCount, Only
  <2> QED BY <1>1, <2>1, <2>2, <2>3, <2>4, <2>5, <2>6, <2>7 DEF Acquire
<1>m. ASSUME NEW t \in Callers, NEW b \in Buffer, Modify(t, b) PROVE Goal
  BY <1>m, <1>0, <1>h DEF Modify, Only
<1>2. ASSUME NEW t \in Callers, BufferUse(t) PROVE Goal
  <2>0. hold[t] # None => hold[t] \in Buffer OBVIOUS
  <2>1. CASE BufferWrite(t)
    <3>1. PICK n \in 1 .. Capacity + 1 : hold[t] # None /\ Modify(t, Written(hold[t], n)) BY <2>1 DEF BufferWrite
    <3>2. ~(n > Capacity) => n \in 0 .. Capacity BY PoolAssumption
    <3>3. Written(hold[t], n) \in Buffer BY <2>0, <3>1, <3>2, BufferValues DEF Written
    <3> QED BY <1>m, <3>1, <3>3
  <2>2. CASE Extend(t)
    <3>1. PICK n \in 1 .. Capacity : hold[t] # None /\ Modify(t, Appended(hold[t], n)) BY <2>2 DEF Extend
    <3>2. hold[t].length \in 0 .. Capacity BY <2>0, <3>1, BufferValues
    <3>3. ~(hold[t].length + n > Capacity) => hold[t].length + n \in 0 .. Capacity BY <3>2, PoolAssumption
    <3>4. Appended(hold[t], n) \in Buffer BY <2>0, <3>1, <3>3, BufferValues DEF Appended
    <3> QED BY <1>m, <3>1, <3>4
  <2>3. CASE Empty(t)
    <3>1. Emptied(hold[t]) \in Buffer BY <2>0, <2>3, BufferValues, PoolAssumption DEF Empty, Emptied
    <3> QED BY <1>m, <2>3, <3>1 DEF Empty
  <2>4. CASE MarkReleased(t)
    <3>1. Released(hold[t]) \in Buffer BY <2>0, <2>4, <1>b DEF MarkReleased
    <3> QED BY <1>m, <2>4, <3>1 DEF MarkReleased
  <2>5. CASE Escape(t)
    <3>1. escaped + 1 \in Nat OBVIOUS
    <3>2. /\ lost' \in Nat /\ escaped' \in Nat /\ upsets' \in Nat /\ refused' \in BOOLEAN
          /\ upsets' >= upsets /\ (refused => refused')
      BY <2>5, <3>1, <1>g DEF Escape
    <3>3. /\ hold' \in [Callers -> Buffer \cup {None}] /\ Only(t) /\ at'[t] # "count"
          /\ UNCHANGED <<idle, lock, allocated, inUse, at, cur>>
      BY <2>5 DEF Escape, Only
    <3> QED BY <3>2, <3>3, <1>0
  <2> QED BY <1>2, <2>1, <2>2, <2>3, <2>4, <2>5 DEF BufferUse
<1>v. ASSUME NEW t \in Callers, NEW b \in Buffer, GiveBack(t, b), NEW n \in Nat, Book(lost, escaped, n) PROVE Goal
  <2>1. idle' \in Seq(Buffer)
    <3>1. Append(idle, Released(b)) \in Seq(Buffer) BY <1>b
    <3>2. idle' = idle \/ idle' = Append(idle, Released(b)) BY <1>v DEF GiveBack
    <3> QED BY <3>1, <3>2
  <2>2. cur' = [cur EXCEPT ![t] = 1] \/ cur' = [cur EXCEPT ![t] = 0] BY <1>v DEF GiveBack
  <2>3. cur' \in [Callers -> 0 .. Word - 1] /\ \A u \in Callers : u # t => cur'[u] = cur[u] BY <2>2, <1>w
  <2> QED BY <1>v, <2>1, <2>3, <1>0, <1>g DEF GiveBack, Only
<1>3. ASSUME NEW t \in Callers, Release(t) PROVE Goal
  BY <1>3, <1>v, OverlapEffect DEF Release
<1>4. ASSUME NEW t \in Callers, ReleaseForeign(t) PROVE Goal
  <2>1. Overlap + 1 \in Nat BY OverlapEffect
  <2> QED BY <1>4, <2>1, <1>v, <1>b DEF ReleaseForeign
<1>5. ASSUME NEW t \in Callers, ReleaseUncount(t) PROVE Goal
  <2>1. inUse' \in 0 .. Word - 1 /\ allocated' \in 0 .. Word - 1
    BY <1>5, WrappedValues DEF ReleaseUncount
  <2>2. /\ at' \in [Callers -> {"rest", "load", "cas", "count", "uncount", "shrink", "prealloc", "fill", "cleared", "trim"}]
        /\ at'[t] # "count" /\ Only(t) /\ UNCHANGED <<idle, lock, hold, cur, history>>
    BY <1>5 DEF ReleaseUncount, Only
  <2> QED BY <2>1, <2>2, <1>0, <1>h
<1>6. ASSUME NEW t \in Callers, Manage(t) PROVE Goal
  <2>1. CASE PoolClear(t)
    <3>1. /\ lost + Len(idle) \in Nat /\ (IF \E u \in Callers : at[u] # "rest" THEN 1 ELSE 0) \in Nat
          /\ <<>> \in Seq(Buffer)
      OBVIOUS
    <3> QED BY <2>1, <3>1, <1>0, <1>g DEF PoolClear, Only
  <2>2. CASE ClearLoad(t)
    BY <2>2, <1>0, <1>h DEF ClearLoad, Only
  <2>3. CASE ClearStore(t)
    BY <2>3, <1>0, <1>g, <1>w DEF ClearStore, Only
  <2>4. CASE \E count \in 1 .. MaxSize + 1 : Preallocate(t, count)
    <3>1. PICK count \in 1 .. MaxSize + 1 : Preallocate(t, count) BY <2>4
    <3>2. (IF count < MaxSize THEN count ELSE MaxSize) \in 0 .. Word - 1 BY <1>w
    <3> QED BY <3>1, <3>2, <1>0, <1>g, OverlapEffect DEF Preallocate, Only
  <2>5. CASE PreallocateOne(t)
    <3>1. allocated' \in 0 .. Word - 1 BY <2>5, <1>w DEF PreallocateOne
    <3>2. idle' \in Seq(Buffer) BY <2>5, <1>b DEF PreallocateOne
    <3>3. Only(t) /\ at'[t] = "prealloc" /\ UNCHANGED <<lock, inUse, hold, cur, history>>
      BY <2>5 DEF PreallocateOne, Only
    <3>4. at' \in [Callers -> {"rest", "load", "cas", "count", "uncount", "shrink", "prealloc", "fill", "cleared", "trim"}]
      BY <2>5 DEF PreallocateOne
    <3> QED BY <3>1, <3>2, <3>3, <3>4, <1>0, <1>h
  <2>6. CASE PreallocateDone(t)
    BY <2>6, <1>0, <1>h, <1>w DEF PreallocateDone, Only
  <2>7. CASE PreallocateMore(t) \/ PreallocateRetry(t)
    BY <2>7, <1>0, <1>h DEF PreallocateMore, PreallocateRetry, Only
  <2> QED BY <1>6, <2>1, <2>2, <2>3, <2>4, <2>5, <2>6, <2>7 DEF Manage
<1>7. CASE UNCHANGED poolVars
  BY <1>7 DEF poolVars, PoolTypeOK, HandedOutEmpty, CallersAt
<1> QED BY <1>1, <1>2, <1>3, <1>4, <1>5, <1>6, <1>7 DEF PoolNext

\* Every step keeps the invariant, and is a step of BoundedPool.
LEMMA PoolStep ==
    ASSUME CountInv, [PoolNext]_poolVars
    PROVE  CountInv' /\ [Store!Next]_(Store!storeVars)
<1>1. PoolTypeOK' /\ HandedOutEmpty' /\ upsets' >= upsets /\ (refused => refused') BY PoolTypes DEF CountInv
<1>2. upsets \in Nat /\ upsets' \in Nat /\ refused \in BOOLEAN /\ refused' \in BOOLEAN BY <1>1 DEF CountInv, PoolTypeOK
<1>3. CASE upsets' = 0
  <2>1. upsets = 0 BY <1>1, <1>2, <1>3
  <2>2. Balanced' /\ (Moves \/ UNCHANGED <<Len(idle), Out>> \/ refused')
    BY <1>1, <1>3, <2>1, BalancedStep DEF CountInv
  <2>3. CASE refused'
    BY <1>1, <2>2, <2>3 DEF CountInv, Store!Next
  <2>4. CASE ~refused'
    BY <1>1, <1>3, <2>1, <2>2, <2>4 DEF CountInv, Store!Next, Store!storeVars, Moves
  <2> QED BY <2>3, <2>4
<1>4. CASE upsets' # 0
  BY <1>1, <1>4 DEF CountInv, Store!Next
<1> QED BY <1>3, <1>4

LEMMA PoolStart == PoolInit => CountInv /\ Store!Init
<1> SUFFICES ASSUME PoolInit PROVE CountInv /\ Store!Init
  OBVIOUS
<1>1. Holders = {} /\ CallersAt("count") = {} /\ CallersAt("uncount") = {}
  BY DEF PoolInit, Holders, CallersAt
<1>8. 0 \in 0 .. Word - 1 BY WrappedValues
<1>2. PoolTypeOK
  <2>1. <<>> \in Seq(Buffer) OBVIOUS
  <2>2. [t \in Callers |-> 0] \in [Callers -> 0 .. Word - 1] BY <1>8
  <2> QED BY <1>8, <2>1, <2>2 DEF PoolInit, PoolTypeOK
<1>3. Len(idle) = 0 BY DEF PoolInit
<1>0. Cardinality(Holders) = 0 /\ Cardinality(CallersAt("count")) = 0 /\ Cardinality(CallersAt("uncount")) = 0
  BY <1>1, FS_EmptySet
<1>4. AllocatedSum /\ InUseAccounted /\ Out = 0
  BY <1>0, <1>3 DEF PoolInit, AllocatedSum, InUseAccounted, Out
<1>5. WithinLimit /\ \A t \in Callers : CallFits(t)
  BY PoolAssumption DEF PoolInit, WithinLimit, CallFits, Clearing
<1>6. HandedOutEmpty BY <1>1 DEF HandedOutEmpty
<1>7. (upsets = 0 /\ ~refused) = TRUE BY DEF PoolInit
<1> QED BY <1>2, <1>3, <1>4, <1>5, <1>6, <1>7 DEF CountInv, Balanced, Store!Init

\* CountInv holds in every reachable state of the pool.
THEOREM PoolInvariant == PoolSpec => []CountInv
<1>1. PoolInit => CountInv BY PoolStart
<1>2. CountInv /\ [PoolNext]_poolVars => CountInv' BY PoolStep
<1> QED BY <1>1, <1>2, PTL DEF PoolSpec

\* However many callers acquire, release, preallocate and clear at once: until a
\* clear meets another call or a buffer comes back that the pool did not hand
\* out, both atomics are explained by the buffers that exist and max_size holds;
\* and a buffer is always handed out empty (pool.rs:63-152).
THEOREM PoolKeepsCount == PoolSpec => []PoolInv
<1>1. CountInv => PoolInv
  <2> SUFFICES ASSUME CountInv PROVE PoolInv
    OBVIOUS
  <2>0. PoolTypeOK /\ HandedOutEmpty BY DEF CountInv
  <2>1. ASSUME upsets = 0 PROVE AllocatedAccounted /\ InUseAccounted /\ WithinLimit
    <3>1. Balanced BY <2>1 DEF CountInv
    <3>2. InUseAccounted /\ WithinLimit BY <3>1 DEF Balanced
    <3>3. CallersAt("shrink") = {} /\ {t \in CallersAt("uncount") : cur[t] = 1} = {}
      BY <3>1 DEF Balanced, CallFits, CallersAt
    <3>4. Cardinality(CallersAt("shrink")) = 0 /\ Cardinality({t \in CallersAt("uncount") : cur[t] = 1}) = 0
      BY <3>3, FS_EmptySet
    <3>5. allocated = Len(idle) + Cardinality(Holders) + lost + escaped /\ allocated \in Nat
      BY <3>1, PoolNumbers DEF Balanced, AllocatedSum
    <3>6. AllocatedAccounted BY <3>4, <3>5 DEF AllocatedAccounted
    <3> QED BY <3>2, <3>6
  <2> QED BY <2>0, <2>1 DEF PoolInv
<1> QED BY <1>1, PoolInvariant, PTL

\* Until the pool is upset or refuses an idle buffer, every acquire, release,
\* preallocate and clear takes effect at one instant, as on a store of at most
\* max_size buffers: the pool implements BoundedPool.
THEOREM PoolImplementsStore == PoolSpec => RefinesBoundedPool
<1>1. PoolInit => Store!Init BY PoolStart
<1>2. CountInv /\ [PoolNext]_poolVars => [Store!Next]_(Store!storeVars) BY PoolStep
<1> QED BY <1>1, <1>2, PoolInvariant, PTL DEF PoolSpec, RefinesBoundedPool, Store!Spec

-----------------------------------------------------------------------------
(* The backpressure controller.  A percentage that is rounded down still       *)
(* passes a watermark exactly when the exact share does.                       *)

\* Rounding the quotient down does not change a comparison with an integer.
LEMMA QuotientPasses ==
    ASSUME NEW x \in Nat, NEW c \in Nat \ {0}, NEW m \in Nat
    PROVE  x \div c >= m <=> x >= m * c
<1> DEFINE q == x \div c
           r == x % c
<1>1. q \in Int /\ r \in Int /\ 0 <= r /\ r < c /\ x = c * q + r BY SMT
<1> HIDE DEF q, r
<1>2. CASE q >= m
  <2>1. c * q >= c * m BY <1>1, <1>2, SMT
  <2>2. x >= c * m BY <1>1, <2>1
  <2> QED BY <1>2, <2>2 DEF q
<1>3. CASE ~(q >= m)
  <2>1. q + 1 <= m BY <1>1, <1>3
  <2>2. c * (q + 1) <= c * m BY <1>1, <2>1, SMT
  <2>3. x < c * (q + 1) BY <1>1, SMT
  <2>4. x < c * m BY <1>1, <2>2, <2>3
  <2> QED BY <1>3, <2>4 DEF q
<1> QED BY <1>2, <1>3

\* The controller works with watermarks in range, and what it last answered is
\* what evaluate says of the queue it was asked about.
PressureInv ==
    /\ ValidMarks(marks)
    /\ asked # Unasked => \E size \in Nat, occupancy \in Nat :
           asked = [occupancy |-> occupancy, capacity |-> size, level |-> Evaluate(marks, occupancy, size)]

\* What evaluate answers, by exact arithmetic.
LEMMA EvaluateIsExact ==
    ASSUME NEW m, ValidMarks(m), NEW o \in Nat, NEW c \in Nat, 100 * c <= MaxWord
    PROVE  Evaluate(m, o, c) = CASE 100 * o >= m.critical * c -> 2
                                 [] 100 * o < m.elevated * c -> 0
                                 [] OTHER -> 1
<1> DEFINE hi == m.critical
           lo == m.elevated
<1>1. hi \in Nat /\ lo \in Nat /\ lo < hi /\ hi <= 100 BY DEF ValidMarks
<1>2. CASE c = 0
  <2>1. Evaluate(m, o, c) = 2 BY <1>2 DEF Evaluate
  <2>2. hi * c = 0 /\ lo * c = 0 BY <1>1, <1>2
  <2>3. 100 * o >= hi * c /\ ~(100 * o < lo * c) BY <2>2
  <2> QED BY <2>1, <2>3
<1>3. CASE c # 0
  <2> DEFINE b == IF o < c THEN o ELSE c
             x == b * 100
  <2>1. b \in Nat /\ b <= c /\ x \in Nat BY <1>3
  <2>2. x <= MaxWord BY <2>1, WordAssumption
  <2>3. Evaluate(m, o, c) = IF x \div c >= hi THEN 2 ELSE IF x \div c >= lo THEN 1 ELSE 0
    BY <1>3, <2>1, <2>2, WordAssumption DEF Evaluate, EvaluateMarks, Saturate
  <2>4. (x \div c >= hi <=> x >= hi * c) /\ (x \div c >= lo <=> x >= lo * c)
    BY <1>1, <1>3, <2>1, QuotientPasses
  <2>5. lo * c < hi * c /\ hi * c <= 100 * c /\ lo * c \in Nat /\ hi * c \in Nat BY <1>1, <1>3, SMT
  <2>6. (x >= hi * c <=> 100 * o >= hi * c) /\ (x >= lo * c <=> ~(100 * o < lo * c))
    BY <1>3, <2>1, <2>5
  <2>7. ~(100 * o >= hi * c /\ 100 * o < lo * c) BY <2>5
  <2> HIDE DEF x
  <2> QED BY <2>3, <2>4, <2>6, <2>7
<1> QED BY <1>2, <1>3

\* The answer is as strict as exact arithmetic, whatever is configured and
\* however large the queue, as long as its percentage fits the machine word
\* (evaluate).
THEOREM AnswersAreExact == PressureSpec => []BackpressureIsExact
<1>1. PressureInit => PressureInv
  <2>1. ASSUME NEW m PROVE ValidMarks(Marks(m)) BY DEF Marks, ValidMarks, DefaultMarks
  <2> QED BY <2>1 DEF PressureInit, PressureInv
<1>2. PressureInv /\ [Ask]_pressureVars => PressureInv'
  <2> SUFFICES ASSUME PressureInv, [Ask]_pressureVars PROVE PressureInv'
    OBVIOUS
  <2>1. marks' = marks BY DEF Ask, pressureVars
  <2>2. CASE Ask
    <3>1. PICK size \in QueueSizes : \E o \in 0 .. size + 1 :
            asked' = [occupancy |-> o, capacity |-> size, level |-> Evaluate(marks, o, size)]
      BY <2>2 DEF Ask
    <3>2. size \in Nat BY WordAssumption
    <3>3. PICK o \in 0 .. size + 1 : asked' = [occupancy |-> o, capacity |-> size, level |-> Evaluate(marks, o, size)]
      BY <3>1
    <3>4. o \in Nat BY <3>2
    <3> QED BY <2>1, <3>2, <3>3, <3>4 DEF PressureInv
  <2>3. CASE UNCHANGED pressureVars BY <2>3 DEF PressureInv, pressureVars
  <2> QED BY <2>2, <2>3
<1>3. PressureInv => BackpressureIsExact
  <2> SUFFICES ASSUME PressureInv, asked # Unasked, 100 * asked.capacity <= MaxWord
               PROVE  asked.level = CASE 100 * asked.occupancy >= marks.critical * asked.capacity -> 2
                                      [] 100 * asked.occupancy < marks.elevated * asked.capacity -> 0
                                      [] OTHER -> 1
    BY DEF BackpressureIsExact
  <2>1. PICK size \in Nat, o \in Nat :
          asked = [occupancy |-> o, capacity |-> size, level |-> Evaluate(marks, o, size)]
    BY DEF PressureInv
  <2>2. asked.occupancy = o /\ asked.capacity = size /\ asked.level = Evaluate(marks, o, size) BY <2>1
  <2> QED BY <2>2, EvaluateIsExact DEF PressureInv
<1> QED BY <1>1, <1>2, <1>3, PTL DEF PressureSpec

=============================================================================
