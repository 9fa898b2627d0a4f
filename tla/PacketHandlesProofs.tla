------------------------ MODULE PacketHandlesProofs ------------------------
(***************************************************************************)
(* The Packet Bus keeps at most one live copy of every observation, keeps  *)
(* the ownership record in step with it and moves records only along the   *)
(* authoritative table, for any number of threads, observations and any    *)
(* queue capacity (the first two until some caller uses `clear`).          *)
(*                                                                         *)
(* On top of it the data path keeps exactly one handle per Host-owned      *)
(* packet and sends every packet at most once; it accounts for every       *)
(* packet, and a shutdown leaves none but the Host's.  For any number of   *)
(* Host threads, packets and handles and any queue capacity.               *)
(***************************************************************************)
EXTENDS PacketHandles, FiniteSetTheorems, TLAPS

(* The Packet Bus.                                                          *)

\* What appending to the queue does to its elements.
LEMMA AppendFacts ==
    ASSUME NEW S, NEW s \in Seq(S), NEW e \in S
    PROVE  /\ Append(s, e) \in Seq(S)
           /\ Len(Append(s, e)) = Len(s) + 1
           /\ \A i \in 1..Len(s) : Append(s, e)[i] = s[i]
           /\ Append(s, e)[Len(s) + 1] = e
  OBVIOUS

\* What removing the head does to the queue's elements.
LEMMA TailFacts ==
    ASSUME NEW S, NEW s \in Seq(S), s # <<>>
    PROVE  /\ Head(s) \in S /\ Head(s) = s[1]
           /\ Tail(s) \in Seq(S)
           /\ Len(s) \in Nat /\ Len(s) > 0
           /\ Len(Tail(s)) = Len(s) - 1
           /\ \A i \in 1..Len(Tail(s)) : Tail(s)[i] = s[i + 1]
  OBVIOUS

\* An accepted enqueue adds exactly its observation to the queued ones and
\* stays within the capacity.
LEMMA EnqueueFacts ==
    ASSUME TypeOK, NEW e \in Ids, Accepts, queue' = Append(queue, e)
    PROVE  /\ queue' \in Seq(Ids) /\ Len(queue') <= Capacity
           /\ \A id \in Ids : Queued(id)' <=> Queued(id) \/ id = e
           /\ ~Queued(e) /\ (\A i, j \in 1..Len(queue) : queue[i] = queue[j] => i = j)
                => \A i, j \in 1..Len(queue') : queue'[i] = queue'[j] => i = j
<1> DEFINE n == Len(queue)
<1>1. n \in Nat /\ n < Capacity /\ Len(queue') = n + 1 /\ queue' \in Seq(Ids)
  BY AppendFacts, BusAssumption DEF TypeOK, Accepts
<1>2. /\ \A i \in 1..n : queue'[i] = queue[i]
      /\ queue'[n + 1] = e
  BY AppendFacts DEF TypeOK
<1>3. \A id \in Ids : Queued(id)' <=> Queued(id) \/ id = e
  <2> HIDE DEF n
  <2>1. 1..(n + 1) = 1..n \cup {n + 1} BY <1>1
  <2> QED BY <1>1, <1>2, <2>1 DEF Queued, n
<1>4. ASSUME ~Queued(e), \A i, j \in 1..n : queue[i] = queue[j] => i = j,
             NEW i \in 1..(n + 1), NEW j \in 1..(n + 1), queue'[i] = queue'[j]
      PROVE  i = j
  <2> HIDE DEF n
  <2>1. CASE i \in 1..n /\ j \in 1..n BY <2>1, <1>2, <1>4
  <2>2. CASE i = n + 1 \/ j = n + 1
    <3>1. \A k \in 1..n : queue[k] # e BY <1>4 DEF Queued, n
    <3> QED BY <2>2, <3>1, <1>1, <1>2, <1>4
  <2> QED BY <2>1, <2>2, <1>1
<1> QED BY <1>1, <1>3, <1>4, BusAssumption

\* publish takes the ownership mutex only for an id without a record.
LEMMA PublishLockInv ==
    ASSUME LiveInv, NEW t \in Threads, NEW id \in Ids, PublishLock(t, id)
    PROVE  LiveInv'
<1> USE BusAssumption DEF LiveInv, TypeOK, Goto, Queued, NoRecord, PublishLock, Transferred, ReleasedFrom,
        CanMove, TransitionOwnership, Handoffs, Owners, IsActive, PCs
<1>1. TypeOK' BY AppendFacts, TailFacts DEF Accepts
<1>2. (\A u \in Threads : pc[u] # "clearing")' OBVIOUS
<1>3. LockInv' BY DEF LockInv
<1>4. BusSideInv'
  BY SMTT(20), AppendFacts, TailFacts
  DEF BusSideInv, BusSide, LockInv, EngineSideInv, EngineSide, OwnerMatches, OneCopy, HasValue
<1>5. EngineSideInv' BY DEF EngineSideInv, EngineSide, OwnerMatches, OneCopy, HasValue, LockInv
<1>6. OwnerMatches' BY DEF OwnerMatches, EngineSideInv, EngineSide, OneCopy, HasValue, LockInv
<1>7. OneCopy' BY AppendFacts, TailFacts DEF OneCopy, HasValue, BusSideInv, BusSide, LockInv, EngineSideInv, EngineSide, OwnerMatches
<1> QED BY <1>1, <1>2, <1>3, <1>4, <1>5, <1>6, <1>7

\* publish queues a packet that is nowhere else.
LEMMA PublishEnqueueInv ==
    ASSUME LiveInv, NEW t \in Threads, PublishEnqueue(t)
    PROVE  LiveInv'
<1> USE BusAssumption DEF LiveInv, Goto, NoRecord, PublishEnqueue, Owners
<1>1. CASE Accepts
  <2>0. held[t] \in Ids /\ queue' = Append(queue, held[t]) BY <1>1 DEF TypeOK
  <2>1. /\ queue' \in Seq(Ids) /\ Len(queue') <= Capacity
        /\ \A id \in Ids : Queued(id)' <=> Queued(id) \/ id = held[t]
    BY <1>1, <2>0, EnqueueFacts
  <2>2. /\ ~Queued(held[t]) /\ held[t] \notin host
        /\ \A u \in Threads \ {t} : pc[u] \in HasValue => held[u] # held[t]
    BY <1>1 DEF TypeOK, BusSideInv, BusSide, LockInv, EngineSideInv, EngineSide, OwnerMatches, HasValue
  <2>3. \A i, j \in 1..Len(queue') : queue'[i] = queue'[j] => i = j
    BY <1>1, <2>0, <2>2, EnqueueFacts DEF OneCopy
  <2>4. TypeOK' BY <1>1, <2>1 DEF TypeOK, PCs
  <2>5. (\A u \in Threads : pc[u] # "clearing")' BY <1>1 DEF TypeOK
  <2>6. LockInv' BY <1>1 DEF TypeOK, LockInv
  <2>7. BusSideInv' BY <1>1, <2>1 DEF TypeOK, BusSideInv, BusSide, LockInv, EngineSideInv, EngineSide
  <2>8. EngineSideInv' BY <1>1 DEF TypeOK, EngineSideInv, EngineSide
  <2>9. OwnerMatches' BY <1>1 DEF TypeOK, OwnerMatches
  <2>10. OneCopy'
    <3>1. /\ UNCHANGED <<held, host>>
          /\ \A u \in Threads : pc'[u] \in HasValue => u # t /\ pc[u] \in HasValue
      BY <1>1 DEF TypeOK, HasValue
    <3>2. \A u \in Threads : held[u] \in Ids BY DEF TypeOK
    <3>3. \A u \in Threads : pc'[u] \in HasValue => ~Queued(held[u])' /\ held[u] \notin host
      BY <2>1, <2>2, <3>1, <3>2 DEF OneCopy
    <3>4. \A id \in host : ~Queued(id)' BY <2>1, <2>2 DEF OneCopy, TypeOK
    <3>5. \A u, v \in Threads :
             pc'[u] \in HasValue /\ pc'[v] \in HasValue /\ held[u] = held[v] => u = v
      BY <3>1 DEF OneCopy
    <3> QED BY <2>3, <3>1, <3>3, <3>4, <3>5 DEF OneCopy
  <2> QED BY <2>4, <2>5, <2>6, <2>7, <2>8, <2>9, <2>10
<1>2. CASE ~Accepts
  <2>1. TypeOK' BY <1>2 DEF TypeOK, PCs
  <2>2. (\A u \in Threads : pc[u] # "clearing")' BY <1>2 DEF TypeOK
  <2>3. LockInv' BY <1>2 DEF TypeOK, LockInv
  <2>4. BusSideInv' BY <1>2 DEF TypeOK, BusSideInv, BusSide, Queued, LockInv
  <2>5. EngineSideInv' BY <1>2 DEF TypeOK, EngineSideInv, EngineSide
  <2>6. OwnerMatches' BY <1>2 DEF TypeOK, OwnerMatches
  <2>7. OneCopy' BY ZenonT(40), <1>2 DEF TypeOK, OneCopy, HasValue, Queued
  <2> QED BY <2>1, <2>2, <2>3, <2>4, <2>5, <2>6, <2>7
<1> QED BY <1>1, <1>2

\* publish records the Bus as owner before it gives the mutex back.
LEMMA PublishInsertInv ==
    ASSUME LiveInv, NEW t \in Threads, PublishInsert(t)
    PROVE  LiveInv'
<1> USE BusAssumption DEF LiveInv, TypeOK, Goto, Queued, NoRecord, PublishInsert, Transferred, ReleasedFrom,
        CanMove, TransitionOwnership, Handoffs, Owners, IsActive, PCs
<1>1. TypeOK' BY AppendFacts, TailFacts DEF Accepts
<1>2. (\A u \in Threads : pc[u] # "clearing")' OBVIOUS
<1>3. LockInv' BY DEF LockInv
<1>4. BusSideInv'
  BY SMTT(20), AppendFacts, TailFacts
  DEF BusSideInv, BusSide, LockInv, EngineSideInv, EngineSide, OwnerMatches, OneCopy, HasValue
<1>5. EngineSideInv' BY DEF EngineSideInv, EngineSide, OwnerMatches, OneCopy, HasValue, LockInv
<1>6. OwnerMatches' BY DEF OwnerMatches, EngineSideInv, EngineSide, OneCopy, HasValue, LockInv
<1>7. OneCopy' BY AppendFacts, TailFacts DEF OneCopy, HasValue, BusSideInv, BusSide, LockInv, EngineSideInv, EngineSide, OwnerMatches
<1> QED BY <1>1, <1>2, <1>3, <1>4, <1>5, <1>6, <1>7

\* A dequeue keeps the types.
LEMMA DequeueTypes ==
    ASSUME TypeOK, NEW t \in Threads, Dequeue(t)
    PROVE  TypeOK'
<1>1. queue' \in Seq(Ids) /\ Len(queue') <= Capacity /\ Head(queue) \in Ids
  BY TailFacts, BusAssumption DEF TypeOK, Dequeue
<1> QED BY <1>1 DEF TypeOK, Dequeue, Goto, PCs

\* try_read moves the one copy from the queue to the reader.
LEMMA DequeueInv ==
    ASSUME LiveInv, NEW t \in Threads, Dequeue(t)
    PROVE  LiveInv'
<1>1. TypeOK' BY DequeueTypes DEF LiveInv
<1>4. BusSideInv'
  <2> DEFINE e == Head(queue)
  <2>1. \A id \in Ids : Queued(id)' => Queued(id)
    BY TailFacts DEF LiveInv, TypeOK, Queued, Dequeue
  <2>2. e \in Ids /\ Queued(e)
    BY TailFacts DEF LiveInv, TypeOK, Queued, Dequeue
  <2>3. \A id \in Ids : BusSide(id) => BusSide(id)'
    BY DEF LiveInv, TypeOK, BusSide, Dequeue, Goto
  <2>4. \A u \in Threads : pc'[u] = "dequeued" =>
          held'[u] = e \/ (pc[u] = "dequeued" /\ held'[u] = held[u] /\ held[u] \in Ids)
    BY DEF LiveInv, TypeOK, Dequeue, Goto
  <2> QED BY <2>1, <2>2, <2>3, <2>4 DEF LiveInv, BusSideInv
<1> USE BusAssumption DEF LiveInv, TypeOK, Goto, Queued, NoRecord, Dequeue, PCs
<1>2. (\A u \in Threads : pc[u] # "clearing")' OBVIOUS
<1>3. LockInv' BY DEF LockInv
<1>5. EngineSideInv' BY DEF EngineSideInv, EngineSide, OwnerMatches, OneCopy, HasValue, LockInv
<1>6. OwnerMatches' BY DEF OwnerMatches, EngineSideInv, EngineSide, OneCopy, HasValue, LockInv
<1>7. OneCopy' BY AppendFacts, TailFacts DEF OneCopy, HasValue, BusSideInv, BusSide, LockInv, EngineSideInv, EngineSide, OwnerMatches
<1> QED BY <1>1, <1>2, <1>3, <1>4, <1>5, <1>6, <1>7

\* try_read records Processing for the packet it holds.
LEMMA TakeProcessingInv ==
    ASSUME LiveInv, NEW t \in Threads, TakeProcessing(t)
    PROVE  LiveInv'
<1> USE BusAssumption DEF LiveInv, TypeOK, Goto, Queued, NoRecord, TakeProcessing, Transferred, ReleasedFrom,
        CanMove, TransitionOwnership, Handoffs, Owners, IsActive, PCs
<1>1. TypeOK' BY AppendFacts, TailFacts DEF Accepts
<1>2. (\A u \in Threads : pc[u] # "clearing")' OBVIOUS
<1>3. LockInv' BY DEF LockInv
<1>4. BusSideInv'
  BY SMTT(20), AppendFacts, TailFacts
  DEF BusSideInv, BusSide, LockInv, EngineSideInv, EngineSide, OwnerMatches, OneCopy, HasValue
<1>5. EngineSideInv' BY DEF EngineSideInv, EngineSide, OwnerMatches, OneCopy, HasValue, LockInv
<1>6. OwnerMatches' BY DEF OwnerMatches, EngineSideInv, EngineSide, OneCopy, HasValue, LockInv
<1>7. OneCopy' BY AppendFacts, TailFacts DEF OneCopy, HasValue, BusSideInv, BusSide, LockInv, EngineSideInv, EngineSide, OwnerMatches
<1> QED BY <1>1, <1>2, <1>3, <1>4, <1>5, <1>6, <1>7

\* release_processing ends the packet together with its record.
LEMMA ReleaseProcessingInv ==
    ASSUME LiveInv, NEW t \in Threads, ReleaseProcessing(t)
    PROVE  LiveInv'
<1> USE BusAssumption DEF LiveInv, TypeOK, Goto, Queued, NoRecord, ReleaseProcessing, Transferred, ReleasedFrom,
        CanMove, TransitionOwnership, Handoffs, Owners, IsActive, PCs
<1>1. TypeOK' BY AppendFacts, TailFacts DEF Accepts
<1>2. (\A u \in Threads : pc[u] # "clearing")' OBVIOUS
<1>3. LockInv' BY DEF LockInv
<1>4. BusSideInv'
  BY SMTT(20), AppendFacts, TailFacts
  DEF BusSideInv, BusSide, LockInv, EngineSideInv, EngineSide, OwnerMatches, OneCopy, HasValue
<1>5. EngineSideInv' BY DEF EngineSideInv, EngineSide, OwnerMatches, OneCopy, HasValue, LockInv
<1>6. OwnerMatches' BY DEF OwnerMatches, EngineSideInv, EngineSide, OneCopy, HasValue, LockInv
<1>7. OneCopy' BY AppendFacts, TailFacts DEF OneCopy, HasValue, BusSideInv, BusSide, LockInv, EngineSideInv, EngineSide, OwnerMatches
<1> QED BY <1>1, <1>2, <1>3, <1>4, <1>5, <1>6, <1>7

\* transfer_to_host parks the packet with the Host and records it.
LEMMA TransferToHostInv ==
    ASSUME LiveInv, NEW t \in Threads, TransferToHost(t)
    PROVE  LiveInv'
<1> USE BusAssumption DEF LiveInv, TypeOK, Goto, Queued, NoRecord, TransferToHost, Transferred, ReleasedFrom,
        CanMove, TransitionOwnership, Handoffs, Owners, IsActive, PCs
<1>1. TypeOK' BY AppendFacts, TailFacts DEF Accepts
<1>2. (\A u \in Threads : pc[u] # "clearing")' OBVIOUS
<1>3. LockInv' BY DEF LockInv
<1>4. BusSideInv'
  BY SMTT(20), AppendFacts, TailFacts
  DEF BusSideInv, BusSide, LockInv, EngineSideInv, EngineSide, OwnerMatches, OneCopy, HasValue
<1>5. EngineSideInv' BY DEF EngineSideInv, EngineSide, OwnerMatches, OneCopy, HasValue, LockInv
<1>6. OwnerMatches' BY DEF OwnerMatches, EngineSideInv, EngineSide, OneCopy, HasValue, LockInv
<1>7. OneCopy' BY AppendFacts, TailFacts DEF OneCopy, HasValue, BusSideInv, BusSide, LockInv, EngineSideInv, EngineSide, OwnerMatches
<1> QED BY <1>1, <1>2, <1>3, <1>4, <1>5, <1>6, <1>7

\* A requeue starts by recording the Engine as owner.
LEMMA RequeueToEngineInv ==
    ASSUME LiveInv, NEW t \in Threads, RequeueToEngine(t)
    PROVE  LiveInv'
<1> USE BusAssumption DEF LiveInv, TypeOK, Goto, Queued, NoRecord, RequeueToEngine, Transferred, ReleasedFrom,
        CanMove, TransitionOwnership, Handoffs, Owners, IsActive, PCs
<1>1. TypeOK' BY AppendFacts, TailFacts DEF Accepts
<1>2. (\A u \in Threads : pc[u] # "clearing")' OBVIOUS
<1>3. LockInv' BY DEF LockInv
<1>4. BusSideInv'
  BY SMTT(20), AppendFacts, TailFacts
  DEF BusSideInv, BusSide, LockInv, EngineSideInv, EngineSide, OwnerMatches, OneCopy, HasValue
<1>5. EngineSideInv' BY DEF EngineSideInv, EngineSide, OwnerMatches, OneCopy, HasValue, LockInv
<1>6. OwnerMatches' BY DEF OwnerMatches, EngineSideInv, EngineSide, OneCopy, HasValue, LockInv
<1>7. OneCopy' BY AppendFacts, TailFacts DEF OneCopy, HasValue, BusSideInv, BusSide, LockInv, EngineSideInv, EngineSide, OwnerMatches
<1> QED BY <1>1, <1>2, <1>3, <1>4, <1>5, <1>6, <1>7

\* A requeue makes its packet readable before its record says Bus.
LEMMA RequeueEnqueueInv ==
    ASSUME LiveInv, NEW t \in Threads, RequeueEnqueue(t)
    PROVE  LiveInv'
<1> USE BusAssumption DEF LiveInv, Goto, NoRecord, RequeueEnqueue, Owners
<1>1. CASE Accepts
  <2>0. held[t] \in Ids /\ queue' = Append(queue, held[t]) BY <1>1 DEF TypeOK
  <2>1. /\ queue' \in Seq(Ids) /\ Len(queue') <= Capacity
        /\ \A id \in Ids : Queued(id)' <=> Queued(id) \/ id = held[t]
    BY <1>1, <2>0, EnqueueFacts
  <2>2. /\ ~Queued(held[t]) /\ held[t] \notin host
        /\ \A u \in Threads \ {t} : pc[u] \in HasValue => held[u] # held[t]
    BY <1>1 DEF TypeOK, BusSideInv, BusSide, LockInv, EngineSideInv, EngineSide, OwnerMatches, HasValue
  <2>3. \A i, j \in 1..Len(queue') : queue'[i] = queue'[j] => i = j
    BY <1>1, <2>0, <2>2, EnqueueFacts DEF OneCopy
  <2>4. TypeOK' BY <1>1, <2>1 DEF TypeOK, PCs
  <2>5. (\A u \in Threads : pc[u] # "clearing")' BY <1>1 DEF TypeOK
  <2>6. LockInv' BY <1>1 DEF TypeOK, LockInv
  <2>7. BusSideInv' BY <1>1, <2>1 DEF TypeOK, BusSideInv, BusSide, LockInv, EngineSideInv, EngineSide
  <2>8. EngineSideInv' BY <1>1 DEF TypeOK, EngineSideInv, EngineSide
  <2>9. OwnerMatches' BY <1>1 DEF TypeOK, OwnerMatches
  <2>10. OneCopy'
    <3>1. /\ UNCHANGED <<held, host>>
          /\ \A u \in Threads : pc'[u] \in HasValue => u # t /\ pc[u] \in HasValue
      BY <1>1 DEF TypeOK, HasValue
    <3>2. \A u \in Threads : held[u] \in Ids BY DEF TypeOK
    <3>3. \A u \in Threads : pc'[u] \in HasValue => ~Queued(held[u])' /\ held[u] \notin host
      BY <2>1, <2>2, <3>1, <3>2 DEF OneCopy
    <3>4. \A id \in host : ~Queued(id)' BY <2>1, <2>2 DEF OneCopy, TypeOK
    <3>5. \A u, v \in Threads :
             pc'[u] \in HasValue /\ pc'[v] \in HasValue /\ held[u] = held[v] => u = v
      BY <3>1 DEF OneCopy
    <3> QED BY <2>3, <3>1, <3>3, <3>4, <3>5 DEF OneCopy
  <2> QED BY <2>4, <2>5, <2>6, <2>7, <2>8, <2>9, <2>10
<1>2. CASE ~Accepts
  <2>1. TypeOK' BY <1>2 DEF TypeOK, PCs
  <2>2. (\A u \in Threads : pc[u] # "clearing")' BY <1>2 DEF TypeOK
  <2>3. LockInv' BY <1>2 DEF TypeOK, LockInv
  <2>4. BusSideInv' BY <1>2 DEF TypeOK, BusSideInv, BusSide, Queued, LockInv
  <2>5. EngineSideInv' BY <1>2 DEF TypeOK, EngineSideInv, EngineSide
  <2>6. OwnerMatches' BY <1>2 DEF TypeOK, OwnerMatches
  <2>7. OneCopy' BY ZenonT(40), <1>2 DEF TypeOK, OneCopy, HasValue, Queued
  <2> QED BY <2>1, <2>2, <2>3, <2>4, <2>5, <2>6, <2>7
<1> QED BY <1>1, <1>2

\* The last transfer of a requeue succeeds or changes nothing.
LEMMA RequeueToBusInv ==
    ASSUME LiveInv, NEW t \in Threads, RequeueToBus(t)
    PROVE  LiveInv'
<1> USE BusAssumption DEF LiveInv, TypeOK, Goto, Queued, NoRecord, RequeueToBus, Transferred, ReleasedFrom,
        CanMove, TransitionOwnership, Handoffs, Owners, IsActive, PCs
<1>1. TypeOK' BY AppendFacts, TailFacts DEF Accepts
<1>2. (\A u \in Threads : pc[u] # "clearing")' OBVIOUS
<1>3. LockInv' BY DEF LockInv
<1>4. BusSideInv'
  BY SMTT(20), AppendFacts, TailFacts
  DEF BusSideInv, BusSide, LockInv, EngineSideInv, EngineSide, OwnerMatches, OneCopy, HasValue
<1>5. EngineSideInv' BY DEF EngineSideInv, EngineSide, OwnerMatches, OneCopy, HasValue, LockInv
<1>6. OwnerMatches' BY DEF OwnerMatches, EngineSideInv, EngineSide, OneCopy, HasValue, LockInv
<1>7. OneCopy' BY AppendFacts, TailFacts DEF OneCopy, HasValue, BusSideInv, BusSide, LockInv, EngineSideInv, EngineSide, OwnerMatches
<1> QED BY <1>1, <1>2, <1>3, <1>4, <1>5, <1>6, <1>7

\* The rollback of a requeue is refused and changes nothing.
LEMMA RequeueUndoInv ==
    ASSUME LiveInv, NEW t \in Threads, RequeueUndo(t)
    PROVE  LiveInv'
<1> USE BusAssumption DEF LiveInv, TypeOK, Goto, Queued, NoRecord, RequeueUndo, Transferred, ReleasedFrom,
        CanMove, TransitionOwnership, Handoffs, Owners, IsActive, PCs
<1>1. TypeOK' BY AppendFacts, TailFacts DEF Accepts
<1>2. (\A u \in Threads : pc[u] # "clearing")' OBVIOUS
<1>3. LockInv' BY DEF LockInv
<1>4. BusSideInv'
  BY SMTT(20), AppendFacts, TailFacts
  DEF BusSideInv, BusSide, LockInv, EngineSideInv, EngineSide, OwnerMatches, OneCopy, HasValue
<1>5. EngineSideInv' BY DEF EngineSideInv, EngineSide, OwnerMatches, OneCopy, HasValue, LockInv
<1>6. OwnerMatches' BY DEF OwnerMatches, EngineSideInv, EngineSide, OneCopy, HasValue, LockInv
<1>7. OneCopy' BY AppendFacts, TailFacts DEF OneCopy, HasValue, BusSideInv, BusSide, LockInv, EngineSideInv, EngineSide, OwnerMatches
<1> QED BY <1>1, <1>2, <1>3, <1>4, <1>5, <1>6, <1>7

\* try_read_into records the Engine for the packet it copies.
LEMMA IntoEngineInv ==
    ASSUME LiveInv, NEW t \in Threads, IntoEngine(t)
    PROVE  LiveInv'
<1> USE BusAssumption DEF LiveInv, TypeOK, Goto, Queued, NoRecord, IntoEngine, Transferred, ReleasedFrom,
        CanMove, TransitionOwnership, Handoffs, Owners, IsActive, PCs
<1>1. TypeOK' BY AppendFacts, TailFacts DEF Accepts
<1>2. (\A u \in Threads : pc[u] # "clearing")' OBVIOUS
<1>3. LockInv' BY DEF LockInv
<1>4. BusSideInv'
  BY SMTT(20), AppendFacts, TailFacts
  DEF BusSideInv, BusSide, LockInv, EngineSideInv, EngineSide, OwnerMatches, OneCopy, HasValue
<1>5. EngineSideInv' BY DEF EngineSideInv, EngineSide, OwnerMatches, OneCopy, HasValue, LockInv
<1>6. OwnerMatches' BY DEF OwnerMatches, EngineSideInv, EngineSide, OneCopy, HasValue, LockInv
<1>7. OneCopy' BY AppendFacts, TailFacts DEF OneCopy, HasValue, BusSideInv, BusSide, LockInv, EngineSideInv, EngineSide, OwnerMatches
<1> QED BY <1>1, <1>2, <1>3, <1>4, <1>5, <1>6, <1>7

\* try_read_into ends the packet it copied.
LEMMA IntoReleaseInv ==
    ASSUME LiveInv, NEW t \in Threads, IntoRelease(t)
    PROVE  LiveInv'
<1> USE BusAssumption DEF LiveInv, TypeOK, Goto, Queued, NoRecord, IntoRelease, Transferred, ReleasedFrom,
        CanMove, TransitionOwnership, Handoffs, Owners, IsActive, PCs
<1>1. TypeOK' BY AppendFacts, TailFacts DEF Accepts
<1>2. (\A u \in Threads : pc[u] # "clearing")' OBVIOUS
<1>3. LockInv' BY DEF LockInv
<1>4. BusSideInv'
  BY SMTT(20), AppendFacts, TailFacts
  DEF BusSideInv, BusSide, LockInv, EngineSideInv, EngineSide, OwnerMatches, OneCopy, HasValue
<1>5. EngineSideInv' BY DEF EngineSideInv, EngineSide, OwnerMatches, OneCopy, HasValue, LockInv
<1>6. OwnerMatches' BY DEF OwnerMatches, EngineSideInv, EngineSide, OneCopy, HasValue, LockInv
<1>7. OneCopy' BY AppendFacts, TailFacts DEF OneCopy, HasValue, BusSideInv, BusSide, LockInv, EngineSideInv, EngineSide, OwnerMatches
<1> QED BY <1>1, <1>2, <1>3, <1>4, <1>5, <1>6, <1>7

\* release_host ends a parked packet.
LEMMA ReleaseHostInv ==
    ASSUME LiveInv, NEW id \in Ids, ReleaseHost(id)
    PROVE  LiveInv'
<1> USE DEF LiveInv, TypeOK, Queued, NoRecord, ReleaseHost, ReleasedFrom,
        CanMove, TransitionOwnership, Handoffs, Owners, IsActive
<1>1. TypeOK' OBVIOUS
<1>2. (\A u \in Threads : pc[u] # "clearing")' OBVIOUS
<1>3. LockInv' BY DEF LockInv
<1>4. BusSideInv' BY DEF BusSideInv, BusSide, OwnerMatches, OneCopy, HasValue
<1>5. EngineSideInv' BY DEF EngineSideInv, EngineSide, OwnerMatches
<1>6. OwnerMatches' BY DEF OwnerMatches
<1>7. OneCopy' BY DEF OneCopy
<1> QED BY <1>1, <1>2, <1>3, <1>4, <1>5, <1>6, <1>7

\* A new bus is empty.
LEMMA InitInv == Init => BusInv
<1> SUFFICES ASSUME Init PROVE BusInv
  OBVIOUS
<1> USE DEF Init
<1>1. queue \in Seq(Ids) /\ Len(queue) = 0 OBVIOUS
<1>2. Len(queue) <= Capacity BY <1>1, BusAssumption
<1>3. own \in [Ids -> Owners \cup {NoRecord}] BY DEF NoRecord
<1>4. pc \in [Threads -> PCs] BY DEF PCs
<1>5. TypeOK BY <1>1, <1>2, <1>3, <1>4 DEF TypeOK
<1>6. LockInv BY BusAssumption DEF LockInv
<1>7. BusSideInv /\ EngineSideInv /\ OwnerMatches /\ OneCopy
  BY <1>1 DEF BusSideInv, EngineSideInv, EngineSide, OwnerMatches, OneCopy, Queued, HasValue
<1>8. \A t \in Threads : pc[t] # "clearing" OBVIOUS
<1> QED BY <1>5, <1>6, <1>7, <1>8 DEF BusInv, LiveInv

\* Types and the discipline of the ownership mutex survive every step, `clear`
\* included.
LEMMA StepTypes ==
    ASSUME TypeOK, LockInv, [Next]_vars
    PROVE  TypeOK' /\ LockInv'
<1> USE BusAssumption DEF TypeOK, LockInv, Goto, PCs, NoRecord, Transferred, ReleasedFrom, Owners
<1>1. ASSUME NEW t \in Threads, Step(t) PROVE TypeOK' /\ LockInv'
  <2>1. CASE \E id \in Ids : PublishLock(t, id) BY <2>1 DEF PublishLock
  <2>2. CASE PublishEnqueue(t) \/ RequeueEnqueue(t)
    <3>1. Accepts /\ queue' = Append(queue, held[t])
            => queue' \in Seq(Ids) /\ Len(queue') <= Capacity
      BY EnqueueFacts
    <3>2. queue' \in Seq(Ids) /\ Len(queue') <= Capacity
      BY <2>2, <3>1 DEF PublishEnqueue, RequeueEnqueue
    <3>3. TypeOK' BY <2>2, <3>2 DEF PublishEnqueue, RequeueEnqueue
    <3>4. LockInv' BY <2>2 DEF PublishEnqueue, RequeueEnqueue
    <3> QED BY <3>3, <3>4
  <2>3. CASE PublishInsert(t) BY <2>3 DEF PublishInsert
  <2>4. CASE Dequeue(t)
    <3>2. TypeOK' BY <2>4, DequeueTypes
    <3>3. LockInv' BY <2>4 DEF Dequeue
    <3> QED BY <3>2, <3>3
  <2>5. CASE TakeProcessing(t) BY <2>5 DEF TakeProcessing
  <2>6. CASE ReleaseProcessing(t) BY <2>6 DEF ReleaseProcessing
  <2>7. CASE TransferToHost(t) BY <2>7 DEF TransferToHost
  <2>8. CASE RequeueToEngine(t) BY <2>8 DEF RequeueToEngine
  <2>9. CASE RequeueToBus(t) BY <2>9 DEF RequeueToBus
  <2>10. CASE RequeueUndo(t) BY <2>10 DEF RequeueUndo
  <2>11. CASE IntoEngine(t) BY <2>11 DEF IntoEngine
  <2>12. CASE IntoRelease(t) BY <2>12 DEF IntoRelease
  <2>13. CASE ClearQueue(t)
    <3>1. <<>> \in Seq(Ids) /\ Len(<<>>) = 0 OBVIOUS
    <3> QED BY <2>13, <3>1 DEF ClearQueue
  <2>14. CASE ClearOwnership(t) BY <2>14 DEF ClearOwnership
  <2> QED
    BY <1>1, <2>1, <2>2, <2>3, <2>4, <2>5, <2>6, <2>7, <2>8, <2>9, <2>10, <2>11, <2>12,
       <2>13, <2>14 DEF Step
<1>2. ASSUME NEW id \in Ids, ReleaseHost(id) PROVE TypeOK' /\ LockInv'
  BY <1>2 DEF ReleaseHost
<1>3. CASE Close BY <1>3 DEF Close
<1>4. CASE UNCHANGED vars BY <1>4 DEF vars
<1> QED BY <1>1, <1>2, <1>3, <1>4 DEF Next

\* Until `clear` is used, every step preserves the consistency of queue, records
\* and callers.
LEMMA StepLive ==
    ASSUME LiveInv, ~cleared, ~cleared', [Next]_vars
    PROVE  LiveInv'
<1>1. ASSUME NEW t \in Threads, Step(t) PROVE LiveInv'
  <2>1. CASE \E id \in Ids : PublishLock(t, id) BY <2>1, PublishLockInv
  <2>2. CASE PublishEnqueue(t) BY <2>2, PublishEnqueueInv
  <2>3. CASE PublishInsert(t) BY <2>3, PublishInsertInv
  <2>4. CASE Dequeue(t) BY <2>4, DequeueInv
  <2>5. CASE TakeProcessing(t) BY <2>5, TakeProcessingInv
  <2>6. CASE ReleaseProcessing(t) BY <2>6, ReleaseProcessingInv
  <2>7. CASE TransferToHost(t) BY <2>7, TransferToHostInv
  <2>8. CASE RequeueToEngine(t) BY <2>8, RequeueToEngineInv
  <2>9. CASE RequeueEnqueue(t) BY <2>9, RequeueEnqueueInv
  <2>10. CASE RequeueToBus(t) BY <2>10, RequeueToBusInv
  <2>11. CASE RequeueUndo(t) BY <2>11, RequeueUndoInv
  <2>12. CASE IntoEngine(t) BY <2>12, IntoEngineInv
  <2>13. CASE IntoRelease(t) BY <2>13, IntoReleaseInv
  <2>14. CASE ClearQueue(t) BY <2>14 DEF ClearQueue
  <2>15. CASE ClearOwnership(t) BY <2>15 DEF ClearOwnership, LiveInv
  <2> QED
    BY <1>1, <2>1, <2>2, <2>3, <2>4, <2>5, <2>6, <2>7, <2>8, <2>9, <2>10, <2>11, <2>12,
       <2>13, <2>14, <2>15 DEF Step
<1>2. ASSUME NEW id \in Ids, ReleaseHost(id) PROVE LiveInv'
  BY <1>2, ReleaseHostInv
<1>3. CASE Close
  BY <1>3 DEF Close, LiveInv, TypeOK, LockInv, BusSideInv, BusSide, EngineSideInv, OwnerMatches,
              OneCopy, Queued
<1>4. CASE UNCHANGED vars
  BY <1>4 DEF vars, LiveInv, TypeOK, LockInv, BusSideInv, BusSide, EngineSideInv, OwnerMatches,
              OneCopy, Queued
<1> QED BY <1>1, <1>2, <1>3, <1>4 DEF Next

\* Every step of the bus keeps the inductive invariant.
LEMMA StepInv == BusInv /\ [Next]_vars => BusInv'
<1> SUFFICES ASSUME BusInv, [Next]_vars PROVE BusInv'
  OBVIOUS
<1>1. TypeOK' /\ LockInv' BY StepTypes DEF BusInv
<1>2. cleared => cleared'
  BY DEF Next, vars, Step, PublishLock, PublishEnqueue, PublishInsert, Dequeue, TakeProcessing,
         ReleaseProcessing, TransferToHost, RequeueToEngine, RequeueEnqueue, RequeueToBus,
         RequeueUndo, IntoEngine, IntoRelease, ClearQueue, ClearOwnership, ReleaseHost, Close
<1>3. ASSUME ~cleared' PROVE LiveInv' BY <1>2, <1>3, StepLive DEF BusInv
<1> QED BY <1>1, <1>3 DEF BusInv

\* One step moves a record only along the table.
LEMMA StepFollowsTable ==
    ASSUME BusInv, [Next]_vars
    PROVE  [\A id \in Ids : own'[id] # own[id] => FollowsTable(own[id], own'[id])]_vars
<1> USE DEF BusInv, TypeOK, FollowsTable, Transferred, ReleasedFrom, CanMove,
        TransitionOwnership, Handoffs, Owners, IsActive, NoRecord
<1>1. ASSUME NEW t \in Threads, Step(t), NEW id \in Ids, own'[id] # own[id]
      PROVE  FollowsTable(own[id], own'[id])
  <2>1. CASE PublishInsert(t) BY <1>1, <2>1 DEF PublishInsert, LockInv
  <2>2. CASE TakeProcessing(t) BY <1>1, <2>2 DEF TakeProcessing
  <2>3. CASE ReleaseProcessing(t) BY <1>1, <2>3 DEF ReleaseProcessing
  <2>4. CASE TransferToHost(t) BY <1>1, <2>4 DEF TransferToHost
  <2>5. CASE RequeueToEngine(t) BY <1>1, <2>5 DEF RequeueToEngine
  <2>6. CASE RequeueToBus(t) BY <1>1, <2>6 DEF RequeueToBus
  <2>7. CASE RequeueUndo(t) BY <1>1, <2>7 DEF RequeueUndo
  <2>8. CASE IntoEngine(t) BY <1>1, <2>8 DEF IntoEngine
  <2>9. CASE IntoRelease(t) BY <1>1, <2>9 DEF IntoRelease
  <2>10. CASE ClearOwnership(t) BY <1>1, <2>10 DEF ClearOwnership
  <2>11. CASE \/ \E x \in Ids : PublishLock(t, x)
              \/ PublishEnqueue(t) \/ Dequeue(t) \/ RequeueEnqueue(t) \/ ClearQueue(t)
    BY <1>1, <2>11 DEF PublishLock, PublishEnqueue, Dequeue, RequeueEnqueue, ClearQueue
  <2> QED BY <1>1, <2>1, <2>2, <2>3, <2>4, <2>5, <2>6, <2>7, <2>8, <2>9, <2>10, <2>11 DEF Step
<1>2. ASSUME NEW x \in Ids, ReleaseHost(x), NEW id \in Ids, own'[id] # own[id]
      PROVE  FollowsTable(own[id], own'[id])
  BY <1>2 DEF ReleaseHost
<1>3. CASE Close BY <1>3 DEF Close
<1>4. CASE UNCHANGED vars BY <1>4
<1> QED BY <1>1, <1>2, <1>3, <1>4 DEF Next

\* A step leaves no Processing or Host record behind: the record's consumer is
\* the one thread that moves it, and it moves it as it leaves.
LEMMA StepRecordsLive ==
    ASSUME BusInv, ConsumerRecordsAreLive, [Next]_vars
    PROVE  ConsumerRecordsAreLive'
<1> SUFFICES ASSUME ~cleared', NEW id \in Ids
             PROVE  /\ own'[id] = "Processing" => \E t \in Threads : pc'[t] = "processing" /\ held'[t] = id
                    /\ own'[id] = "Host" => id \in host'
  BY DEF ConsumerRecordsAreLive
<1>0. ~cleared
  BY DEF Next, vars, Step, PublishLock, PublishEnqueue, PublishInsert, Dequeue, TakeProcessing,
         ReleaseProcessing, TransferToHost, RequeueToEngine, RequeueEnqueue, RequeueToBus,
         RequeueUndo, IntoEngine, IntoRelease, ClearQueue, ClearOwnership, ReleaseHost, Close
<1>a. /\ own[id] = "Processing" => \E t \in Threads : pc[t] = "processing" /\ held[t] = id
      /\ own[id] = "Host" => id \in host
  BY <1>0 DEF ConsumerRecordsAreLive
<1>b. /\ TypeOK /\ OwnerMatches /\ EngineSideInv
      /\ \A t, u \in Threads :
           pc[t] = "processing" /\ pc[u] = "processing" /\ held[t] = held[u] => t = u
  BY <1>0 DEF BusInv, LiveInv, OneCopy, HasValue
<1> USE <1>a, <1>b DEF TypeOK, Goto, Transferred, ReleasedFrom, CanMove, TransitionOwnership,
        Handoffs, Owners, IsActive, NoRecord
<1>1. ASSUME NEW t \in Threads, Step(t)
      PROVE  /\ own'[id] = "Processing" => \E u \in Threads : pc'[u] = "processing" /\ held'[u] = id
             /\ own'[id] = "Host" => id \in host'
  <2>1. CASE PublishInsert(t) BY <2>1 DEF PublishInsert
  <2>2. CASE TakeProcessing(t) BY <2>2 DEF TakeProcessing
  <2>3. CASE ReleaseProcessing(t) BY <2>3 DEF ReleaseProcessing, OwnerMatches
  <2>4. CASE TransferToHost(t) BY <2>4 DEF TransferToHost, OwnerMatches
  <2>5. CASE RequeueToEngine(t) BY <2>5 DEF RequeueToEngine, OwnerMatches
  <2>6. CASE RequeueToBus(t) BY <2>6 DEF RequeueToBus
  <2>7. CASE RequeueUndo(t) BY <2>7 DEF RequeueUndo
  <2>8. CASE IntoEngine(t) BY <2>8 DEF IntoEngine, OwnerMatches
  <2>9. CASE IntoRelease(t) BY <2>9 DEF IntoRelease
  <2>10. CASE ClearOwnership(t) BY <2>10 DEF ClearOwnership
  <2>11. CASE \E x \in Ids : PublishLock(t, x) BY <2>11 DEF PublishLock
  <2>12. CASE PublishEnqueue(t) BY <2>12 DEF PublishEnqueue
  <2>13. CASE Dequeue(t) BY <2>13 DEF Dequeue
  <2>14. CASE RequeueEnqueue(t) BY <2>14 DEF RequeueEnqueue
  <2>15. CASE ClearQueue(t) BY <2>15 DEF ClearQueue
  <2> QED BY <1>1, <2>1, <2>2, <2>3, <2>4, <2>5, <2>6, <2>7, <2>8, <2>9, <2>10, <2>11, <2>12,
             <2>13, <2>14, <2>15 DEF Step
<1>2. ASSUME NEW x \in Ids, ReleaseHost(x)
      PROVE  /\ own'[id] = "Processing" => \E u \in Threads : pc'[u] = "processing" /\ held'[u] = id
             /\ own'[id] = "Host" => id \in host'
  BY <1>2 DEF ReleaseHost
<1>3. CASE Close BY <1>3 DEF Close
<1>4. CASE UNCHANGED vars BY <1>4 DEF vars
<1> QED BY <1>1, <1>2, <1>3, <1>4 DEF Next

-----------------------------------------------------------------------------
\* The Packet Bus satisfies its inductive invariant in every reachable state:
\* records, queue, ownership mutex and callers stay consistent.
THEOREM BusInvariant == Spec => []BusInv
<1>1. Init => BusInv BY InitInv
<1>2. BusInv /\ [Next]_vars => BusInv' BY StepInv
<1> QED BY <1>1, <1>2, PTL DEF Spec

\* Type correctness of the bus, with the queue never above its capacity.
THEOREM BusTypeOK == Spec => []TypeOK
<1>1. BusInv => TypeOK BY DEF BusInv
<1> QED BY <1>1, BusInvariant, PTL

\* Duplicate ownership is impossible: an observation value is never in two
\* places at once (publish_engine_owned, try_read, requeue_processing).
THEOREM NoDuplicateOwnership == Spec => []SingleLiveCopy
<1>1. BusInv => SingleLiveCopy BY DEF BusInv, LiveInv, SingleLiveCopy
<1> QED BY <1>1, BusInvariant, PTL

\* Whoever works on an observation is its recorded owner.
THEOREM HoldersAreOwners == Spec => []HolderIsOwner
<1>1. BusInv => HolderIsOwner
  <2>1. SUFFICES ASSUME BusInv, ~cleared PROVE PoppedIsOnBus
    BY DEF BusInv, LiveInv, HolderIsOwner
  <2>2. SUFFICES ASSUME NEW t \in Threads, pc[t] = "dequeued", olock = None
                 PROVE  \/ CanMove(held[t], "Bus", "Processing")
                        \/ \E u \in Threads : pc[u] = "rq_enqueued" /\ held[u] = held[t]
    BY DEF PoppedIsOnBus
  <2>3. \A u \in Threads : pc[u] # "pub_enqueued"
    BY <2>1, <2>2, BusAssumption DEF BusInv, LockInv
  <2>4. BusSide(held[t]) BY <2>1, <2>2 DEF BusInv, LiveInv, BusSideInv
  <2> QED BY <2>3, <2>4 DEF BusSide, CanMove, TransitionOwnership, Handoffs
<1> QED BY <1>1, BusInvariant, PTL

\* Whoever is recorded as processing an observation, or as the Host that has it,
\* really has it: consumers leave no such record behind (release_processing,
\* transfer_to_host, requeue_processing, try_read_into).
THEOREM ConsumersCleanUp == Spec => []ConsumerRecordsAreLive
<1>1. Init => ConsumerRecordsAreLive BY DEF Init, ConsumerRecordsAreLive, NoRecord
<1>2. BusInv /\ ConsumerRecordsAreLive /\ [Next]_vars => ConsumerRecordsAreLive'
  BY StepRecordsLive
<1> QED BY <1>1, <1>2, BusInvariant, PTL DEF Spec

\* No interleaving moves a record off the authoritative transition table.
THEOREM RecordsFollowTable == Spec => OwnershipFollowsTable
<1>1. BusInv /\ [Next]_vars
        => [\A id \in Ids : own'[id] # own[id] => FollowsTable(own[id], own'[id])]_vars
  BY StepFollowsTable
<1> QED BY <1>1, BusInvariant, PTL DEF Spec, OwnershipFollowsTable

-----------------------------------------------------------------------------
(* The data path.                                                           *)

\* A handle that an action has taken stands for a packet the Host owns.
LEMMA TakenInHost ==
    ASSUME DataInv, NEW t \in Hosts, taken[t] # 0
    PROVE  obs[taken[t]] \in host /\ obs[taken[t]] \in Ids
  BY DEF DataInv, OneHandlePerPacket, Outstanding, InFlight, LiveInv, TypeOK

\* Outstanding handles are handles, and they stand for packets.
LEMMA OutstandingTypes ==
    ASSUME DataTypeOK
    PROVE  Outstanding \subseteq HandleIds
  BY DEF DataTypeOK, HandleTypes, Outstanding, InFlight

\* Every step of the data path is a step of the Packet Bus or leaves it alone.
LEMMA StepsAreBusSteps ==
    ASSUME DataInv, [DataNext]_dataVars
    PROVE  [Next]_vars
<1> USE BusAssumption, HandlesAssumption DEF DataInv, CallInv, Next
<1>0. /\ \A t \in Hosts : t \in Threads /\ t # Capturer /\ t # Processor
      /\ Capturer \in Threads /\ Processor \in Threads
  OBVIOUS
<1>1. ASSUME NEW t \in Threads, Proceed(t) PROVE [Next]_vars
  <2>1. CASE Publish(t)
    BY <1>0, <2>1 DEF Publish, Publishing, Step
  <2>2. CASE PublishQueue(t)
    BY <1>0, <2>2 DEF PublishQueue, Step
  <2>3. CASE PublishRecord(t)
    BY <1>0, <2>3 DEF PublishRecord, Step
  <2>4. CASE CountReceived(t)
    BY <1>0, <2>4 DEF CountReceived
  <2>5. CASE TakeForProcessing(t)
    BY <1>0, <2>5 DEF TakeForProcessing, Step
  <2>6. CASE Process(t)
    BY <1>0, <2>6 DEF Process
  <2>7. CASE Consume(t)
    BY <1>0, <2>7 DEF Consume, Step
  <2> QED BY <1>1, <2>1, <2>2, <2>3, <2>4, <2>5, <2>6, <2>7 DEF Proceed
<1>2. ASSUME NEW t \in Hosts, ProceedHost(t) PROVE [Next]_vars
  <2>1. CASE IngestObservation(t)
    BY <1>0, <2>1 DEF IngestObservation
  <2>2. CASE HandToHost(t)
    BY <1>0, <2>2 DEF HandToHost, Step
  <2>3. CASE RefuseAction(t)
    BY <1>0, <2>3 DEF RefuseAction
  <2>4. CASE Act(t)
    BY <1>0, <2>4 DEF Act
  <2>5. CASE Release(t)
    <3>1. CASE UNCHANGED vars BY <3>1
    <3>2. CASE ReleaseHost(obs[taken[t]])
      <4>1. obs[taken[t]] \in Ids BY <3>2 DEF ReleaseHost, LiveInv, TypeOK
      <4> QED BY <3>2, <4>1
    <3> QED BY <2>5, <3>1, <3>2 DEF Release
  <2>6. CASE CaptureJoined(t)
    BY <1>0, <2>6 DEF CaptureJoined
  <2>7. CASE ShutdownCapture(t)
    BY <1>0, <2>7 DEF ShutdownCapture
  <2>8. CASE ShutdownWorker(t)
    BY <1>0, <2>8 DEF ShutdownWorker, Step
  <2>9. CASE DrainRead(t)
    BY <1>0, <2>9 DEF DrainRead, Step
  <2>10. CASE DrainDone(t)
    BY <1>0, <2>10 DEF DrainDone
  <2> QED BY <1>0, <1>1, <1>2, <2>1, <2>2, <2>3, <2>4, <2>5, <2>6, <2>7, <2>8, <2>9, <2>10 DEF ProceedHost
<1>3. ASSUME NEW t \in Hosts, Request(t) PROVE [Next]_vars
  <2>1. CASE Inject(t)
    BY <1>0, <2>1 DEF Inject
  <2>2. CASE \E c \in {"read", "process"} : Read(t, c)
    BY <1>0, <2>2 DEF Read, Step
  <2>3. CASE \E h \in HandleIds, a \in Actions : Take(t, h, a)
    BY <1>0, <2>3 DEF Take
  <2>4. CASE CaptureStart(t)
    BY <1>0, <2>4 DEF CaptureStart
  <2>5. CASE CaptureStop(t)
    BY <1>0, <2>5 DEF CaptureStop
  <2>6. CASE StartProcessingWorker(t)
    BY <1>0, <2>6 DEF StartProcessingWorker
  <2>7. CASE Shutdown(t)
    BY <1>0, <2>7 DEF Shutdown
  <2> QED BY <1>3, <2>1, <2>2, <2>3, <2>4, <2>5, <2>6, <2>7 DEF Request
<1>4. ASSUME CaptureLoop \/ WorkerLoop PROVE [Next]_vars
  <2>1. CASE CaptureRecv
    BY <1>0, <2>1 DEF CaptureRecv
  <2>2. CASE CaptureRecvError
    BY <1>0, <2>2 DEF CaptureRecvError
  <2>3. CASE CaptureTest
    BY <1>0, <2>3 DEF CaptureTest
  <2>4. CASE WorkerRead
    BY <1>0, <2>4 DEF WorkerRead, Step
  <2>5. CASE WorkerTest
    BY <1>0, <2>5 DEF WorkerTest
  <2> QED BY <1>0, <1>1, <1>4, <2>1, <2>2, <2>3, <2>4, <2>5 DEF CaptureLoop, CaptureWorks, WorkerLoop
<1>5. CASE UNCHANGED dataVars BY <1>5 DEF dataVars
<1> QED BY <1>1, <1>2, <1>3, <1>4, <1>5 DEF DataNext

\* Every step keeps the types of the calls and of GLOBAL_ENGINE.
LEMMA StepCallTypes ==
    ASSUME DataInv, [DataNext]_dataVars
    PROVE  CallTypes'
<1> USE BusAssumption, HandlesAssumption DEF DataInv, DataTypeOK, CallTypes, Calls, Loops, Actions, Stages, MoveTo, engineVars
<1>0. /\ \A t \in Hosts : t \in Threads /\ t # Capturer /\ t # Processor
      /\ Capturer \in Threads /\ Processor \in Threads
  OBVIOUS
<1>1. ASSUME NEW t \in Threads, Proceed(t) PROVE CallTypes'
  <2>1. CASE Publish(t)
    BY <1>0, <2>1 DEF Publish, Return, Publishing
  <2>2. CASE PublishQueue(t)
    BY <1>0, <2>2 DEF PublishQueue, Return, Publishing
  <2>3. CASE PublishRecord(t)
    BY <1>0, <2>3 DEF PublishRecord
  <2>4. CASE CountReceived(t)
    BY <1>0, <2>4 DEF CountReceived, Return
  <2>5. CASE TakeForProcessing(t)
    BY <1>0, <2>5 DEF TakeForProcessing, Return
  <2>6. CASE Process(t)
    BY <1>0, <2>6 DEF Process
  <2>7. CASE Consume(t)
    BY <1>0, <2>7 DEF Consume, Return
  <2> QED BY <1>1, <2>1, <2>2, <2>3, <2>4, <2>5, <2>6, <2>7 DEF Proceed
<1>2. ASSUME NEW t \in Hosts, ProceedHost(t) PROVE CallTypes'
  <2>1. CASE IngestObservation(t)
    BY <1>0, <2>1 DEF IngestObservation
  <2>2. CASE HandToHost(t)
    BY <1>0, <2>2 DEF HandToHost, Return
  <2>3. CASE RefuseAction(t)
    BY <1>0, <2>3 DEF RefuseAction, Restore
  <2>4. CASE Act(t)
    BY <1>0, <2>4 DEF Act
  <2>5. CASE Release(t)
    BY <1>0, <2>5 DEF Release, Restore
  <2>6. CASE CaptureJoined(t)
    BY <1>0, <2>6 DEF CaptureJoined, Return
  <2>7. CASE ShutdownCapture(t)
    BY <1>0, <2>7 DEF ShutdownCapture
  <2>8. CASE ShutdownWorker(t)
    BY <1>0, <2>8 DEF ShutdownWorker
  <2>9. CASE DrainRead(t)
    BY <1>0, <2>9 DEF DrainRead
  <2>10. CASE DrainDone(t)
    BY <1>0, <2>10 DEF DrainDone, Return
  <2> QED BY <1>0, <1>1, <1>2, <2>1, <2>2, <2>3, <2>4, <2>5, <2>6, <2>7, <2>8, <2>9, <2>10 DEF ProceedHost
<1>3. ASSUME NEW t \in Hosts, Request(t) PROVE CallTypes'
  <2>1. CASE Inject(t)
    BY <1>0, <2>1 DEF Inject
  <2>2. CASE \E c \in {"read", "process"} : Read(t, c)
    BY <1>0, <2>2 DEF Read, Enter
  <2>3. CASE \E h \in HandleIds, a \in Actions : Take(t, h, a)
    BY <1>0, <2>3 DEF Take
  <2>4. CASE CaptureStart(t)
    BY <1>0, <2>4 DEF CaptureStart
  <2>5. CASE CaptureStop(t)
    BY <1>0, <2>5 DEF CaptureStop, Enter
  <2>6. CASE StartProcessingWorker(t)
    BY <1>0, <2>6 DEF StartProcessingWorker
  <2>7. CASE Shutdown(t)
    BY <1>0, <2>7 DEF Shutdown, Enter
  <2> QED BY <1>3, <2>1, <2>2, <2>3, <2>4, <2>5, <2>6, <2>7 DEF Request
<1>4. ASSUME CaptureLoop \/ WorkerLoop PROVE CallTypes'
  <2>1. CASE CaptureRecv
    BY <1>0, <2>1 DEF CaptureRecv
  <2>2. CASE CaptureRecvError
    BY <1>0, <2>2 DEF CaptureRecvError
  <2>3. CASE CaptureTest
    BY <1>0, <2>3 DEF CaptureTest
  <2>4. CASE WorkerRead
    BY <1>0, <2>4 DEF WorkerRead
  <2>5. CASE WorkerTest
    BY <1>0, <2>5 DEF WorkerTest
  <2> QED BY <1>0, <1>1, <1>4, <2>1, <2>2, <2>3, <2>4, <2>5 DEF CaptureLoop, CaptureWorks, WorkerLoop
<1>5. CASE UNCHANGED dataVars BY <1>5 DEF dataVars
<1> QED BY <1>1, <1>2, <1>3, <1>4, <1>5 DEF DataNext

\* Every step keeps the types of the Engine state, stop flags and join handles.
LEMMA StepFlagTypes ==
    ASSUME DataInv, [DataNext]_dataVars
    PROVE  FlagTypes'
<1> USE BusAssumption, HandlesAssumption DEF DataInv, DataTypeOK, FlagTypes, engineVars, slotVars
<1>0. /\ \A t \in Hosts : t \in Threads /\ t # Capturer /\ t # Processor
      /\ Capturer \in Threads /\ Processor \in Threads
  OBVIOUS
<1>1. ASSUME NEW t \in Threads, Proceed(t) PROVE FlagTypes'
  <2>1. CASE Publish(t)
    BY <1>0, <2>1 DEF Publish
  <2>2. CASE PublishQueue(t)
    BY <1>0, <2>2 DEF PublishQueue
  <2>3. CASE PublishRecord(t)
    BY <1>0, <2>3 DEF PublishRecord
  <2>4. CASE CountReceived(t)
    BY <1>0, <2>4 DEF CountReceived
  <2>5. CASE TakeForProcessing(t)
    BY <1>0, <2>5 DEF TakeForProcessing
  <2>6. CASE Process(t)
    BY <1>0, <2>6 DEF Process
  <2>7. CASE Consume(t)
    BY <1>0, <2>7 DEF Consume
  <2> QED BY <1>1, <2>1, <2>2, <2>3, <2>4, <2>5, <2>6, <2>7 DEF Proceed
<1>2. ASSUME NEW t \in Hosts, ProceedHost(t) PROVE FlagTypes'
  <2>1. CASE IngestObservation(t)
    BY <1>0, <2>1 DEF IngestObservation
  <2>2. CASE HandToHost(t)
    BY <1>0, <2>2 DEF HandToHost
  <2>3. CASE RefuseAction(t)
    BY <1>0, <2>3 DEF RefuseAction
  <2>4. CASE Act(t)
    BY <1>0, <2>4 DEF Act
  <2>5. CASE Release(t)
    BY <1>0, <2>5 DEF Release
  <2>6. CASE CaptureJoined(t)
    BY <1>0, <2>6 DEF CaptureJoined
  <2>7. CASE ShutdownCapture(t)
    BY <1>0, <2>7 DEF ShutdownCapture
  <2>8. CASE ShutdownWorker(t)
    BY <1>0, <2>8 DEF ShutdownWorker
  <2>9. CASE DrainRead(t)
    BY <1>0, <2>9 DEF DrainRead
  <2>10. CASE DrainDone(t)
    BY <1>0, <2>10 DEF DrainDone
  <2> QED BY <1>0, <1>1, <1>2, <2>1, <2>2, <2>3, <2>4, <2>5, <2>6, <2>7, <2>8, <2>9, <2>10 DEF ProceedHost
<1>3. ASSUME NEW t \in Hosts, Request(t) PROVE FlagTypes'
  <2>1. CASE Inject(t)
    BY <1>0, <2>1 DEF Inject
  <2>2. CASE \E c \in {"read", "process"} : Read(t, c)
    BY <1>0, <2>2 DEF Read
  <2>3. CASE \E h \in HandleIds, a \in Actions : Take(t, h, a)
    BY <1>0, <2>3 DEF Take
  <2>4. CASE CaptureStart(t)
    BY <1>0, <2>4 DEF CaptureStart
  <2>5. CASE CaptureStop(t)
    BY <1>0, <2>5 DEF CaptureStop
  <2>6. CASE StartProcessingWorker(t)
    BY <1>0, <2>6 DEF StartProcessingWorker
  <2>7. CASE Shutdown(t)
    BY <1>0, <2>7 DEF Shutdown
  <2> QED BY <1>3, <2>1, <2>2, <2>3, <2>4, <2>5, <2>6, <2>7 DEF Request
<1>4. ASSUME CaptureLoop \/ WorkerLoop PROVE FlagTypes'
  <2>1. CASE CaptureRecv
    BY <1>0, <2>1 DEF CaptureRecv
  <2>2. CASE CaptureRecvError
    BY <1>0, <2>2 DEF CaptureRecvError
  <2>3. CASE CaptureTest
    BY <1>0, <2>3 DEF CaptureTest
  <2>4. CASE WorkerRead
    BY <1>0, <2>4 DEF WorkerRead
  <2>5. CASE WorkerTest
    BY <1>0, <2>5 DEF WorkerTest
  <2> QED BY <1>0, <1>1, <1>4, <2>1, <2>2, <2>3, <2>4, <2>5 DEF CaptureLoop, CaptureWorks, WorkerLoop
<1>5. CASE UNCHANGED dataVars BY <1>5 DEF dataVars
<1> QED BY <1>1, <1>2, <1>3, <1>4, <1>5 DEF DataNext

\* Every step keeps the types of the handle table and its counter.
LEMMA StepHandleTypes ==
    ASSUME DataInv, [DataNext]_dataVars
    PROVE  HandleTypes'
<1> USE BusAssumption, HandlesAssumption DEF DataInv, DataTypeOK, HandleTypes, HandleIds, handleVars
<1>0. /\ \A t \in Hosts : t \in Threads /\ t # Capturer /\ t # Processor
      /\ Capturer \in Threads /\ Processor \in Threads
  OBVIOUS
<1>1. ASSUME NEW t \in Threads, Proceed(t) PROVE HandleTypes'
  <2>1. CASE Publish(t)
    BY <1>0, <2>1 DEF Publish
  <2>2. CASE PublishQueue(t)
    <3>1. held[t] \in Ids BY DEF LiveInv, TypeOK
    <3>2. sent' = sent \/ sent' = [sent EXCEPT ![held[t]] = 0] BY <2>2 DEF PublishQueue
    <3>3. UNCHANGED <<table, obs, taken, nextHandle>> BY <2>2 DEF PublishQueue
    <3>4. sent \in [Ids -> Nat] OBVIOUS
    <3>5. [sent EXCEPT ![held[t]] = 0] \in [Ids -> Nat] BY <3>1, <3>4
    <3> QED BY <3>2, <3>3, <3>4, <3>5
  <2>3. CASE PublishRecord(t)
    BY <1>0, <2>3 DEF PublishRecord
  <2>4. CASE CountReceived(t)
    BY <1>0, <2>4 DEF CountReceived
  <2>5. CASE TakeForProcessing(t)
    BY <1>0, <2>5 DEF TakeForProcessing
  <2>6. CASE Process(t)
    BY <1>0, <2>6 DEF Process
  <2>7. CASE Consume(t)
    BY <1>0, <2>7 DEF Consume
  <2> QED BY <1>1, <2>1, <2>2, <2>3, <2>4, <2>5, <2>6, <2>7 DEF Proceed
<1>2. ASSUME NEW t \in Hosts, ProceedHost(t) PROVE HandleTypes'
  <2>1. CASE IngestObservation(t)
    BY <1>0, <2>1 DEF IngestObservation
  <2>2. CASE HandToHost(t)
    <3>1. held[t] \in Ids BY <1>0 DEF LiveInv, TypeOK
    <3>2. nextHandle \in HandleIds BY <2>2 DEF HandToHost, At, CallInv
    <3>3. /\ table' = table \/ table' = table \cup {nextHandle}
          /\ obs' = obs \/ obs' = [obs EXCEPT ![nextHandle] = held[t]]
          /\ nextHandle' = nextHandle + 1 /\ UNCHANGED <<taken, sent>>
      BY <2>2 DEF HandToHost
    <3>4. obs' \in [HandleIds -> Ids \cup {0}] BY <3>1, <3>2, <3>3
    <3>5. nextHandle' \in Nat \ {0} /\ nextHandle' <= MaxHandle + 1 BY <3>2, <3>3
    <3> QED BY <3>2, <3>3, <3>4, <3>5
  <2>3. CASE RefuseAction(t)
    <3>1. taken[t] \in HandleIds BY <2>3 DEF RefuseAction, At, CallInv, Actions
    <3> QED BY <2>3, <3>1 DEF RefuseAction, Restore
  <2>4. CASE Act(t)
    <3>1. taken[t] \in HandleIds BY <2>4 DEF Act, CallInv
    <3>2. obs[taken[t]] \in Ids BY <2>4, TakenInHost DEF Act, CallInv
    <3>3. sent' = sent \/ sent' = [sent EXCEPT ![obs[taken[t]]] = @ + 1] BY <2>4 DEF Act
    <3> QED BY SMTT(20), <2>4, <3>1, <3>2, <3>3 DEF Act
  <2>5. CASE Release(t)
    <3>1. taken[t] \in HandleIds BY <2>5 DEF Release, CallInv
    <3>2. CASE UNCHANGED obs BY <2>5, <3>1, <3>2 DEF Release, Restore
    <3>3. CASE obs' = [obs EXCEPT ![taken[t]] = 0] BY <2>5, <3>1, <3>3 DEF Release, Restore
    <3> QED BY <2>5, <3>2, <3>3 DEF Release
  <2>6. CASE CaptureJoined(t)
    BY <1>0, <2>6 DEF CaptureJoined
  <2>7. CASE ShutdownCapture(t)
    BY <1>0, <2>7 DEF ShutdownCapture
  <2>8. CASE ShutdownWorker(t)
    BY <1>0, <2>8 DEF ShutdownWorker
  <2>9. CASE DrainRead(t)
    BY <1>0, <2>9 DEF DrainRead
  <2>10. CASE DrainDone(t)
    BY <1>0, <2>10 DEF DrainDone
  <2> QED BY <1>0, <1>1, <1>2, <2>1, <2>2, <2>3, <2>4, <2>5, <2>6, <2>7, <2>8, <2>9, <2>10 DEF ProceedHost
<1>3. ASSUME NEW t \in Hosts, Request(t) PROVE HandleTypes'
  <2>1. CASE Inject(t)
    BY <1>0, <2>1 DEF Inject
  <2>2. CASE \E c \in {"read", "process"} : Read(t, c)
    BY <1>0, <2>2 DEF Read
  <2>3. CASE \E h \in HandleIds, a \in Actions : Take(t, h, a)
    BY <1>0, <2>3 DEF Take
  <2>4. CASE CaptureStart(t)
    BY <1>0, <2>4 DEF CaptureStart
  <2>5. CASE CaptureStop(t)
    BY <1>0, <2>5 DEF CaptureStop
  <2>6. CASE StartProcessingWorker(t)
    BY <1>0, <2>6 DEF StartProcessingWorker
  <2>7. CASE Shutdown(t)
    BY <1>0, <2>7 DEF Shutdown
  <2> QED BY <1>3, <2>1, <2>2, <2>3, <2>4, <2>5, <2>6, <2>7 DEF Request
<1>4. ASSUME CaptureLoop \/ WorkerLoop PROVE HandleTypes'
  <2>1. CASE CaptureRecv
    BY <1>0, <2>1 DEF CaptureRecv
  <2>2. CASE CaptureRecvError
    BY <1>0, <2>2 DEF CaptureRecvError
  <2>3. CASE CaptureTest
    BY <1>0, <2>3 DEF CaptureTest
  <2>4. CASE WorkerRead
    BY <1>0, <2>4 DEF WorkerRead
  <2>5. CASE WorkerTest
    BY <1>0, <2>5 DEF WorkerTest
  <2> QED BY <1>0, <1>1, <1>4, <2>1, <2>2, <2>3, <2>4, <2>5 DEF CaptureLoop, CaptureWorks, WorkerLoop
<1>5. CASE UNCHANGED dataVars BY <1>5 DEF dataVars
<1> QED BY <1>1, <1>2, <1>3, <1>4, <1>5 DEF DataNext

\* Every step keeps the types of the id counters and of what publishers offer.
LEMMA StepSourceTypes ==
    ASSUME DataInv, [DataNext]_dataVars
    PROVE  SourceTypes'
<1> USE BusAssumption, HandlesAssumption DEF DataInv, DataTypeOK, SourceTypes, sourceVars
<1>0. /\ \A t \in Hosts : t \in Threads /\ t # Capturer /\ t # Processor
      /\ Capturer \in Threads /\ Processor \in Threads
  OBVIOUS
<1>1. ASSUME NEW t \in Threads, Proceed(t) PROVE SourceTypes'
  <2>1. CASE Publish(t)
    BY <1>0, <2>1 DEF Publish
  <2>2. CASE PublishQueue(t)
    <3>1. held[t] \in Ids BY DEF LiveInv, TypeOK
    <3>2. captured' \in {captured, captured \cup {held[t]}, captured \ {held[t]}} BY <2>2 DEF PublishQueue
    <3> QED BY <2>2, <3>1, <3>2 DEF PublishQueue
  <2>3. CASE PublishRecord(t)
    BY <1>0, <2>3 DEF PublishRecord
  <2>4. CASE CountReceived(t)
    BY <1>0, <2>4 DEF CountReceived
  <2>5. CASE TakeForProcessing(t)
    BY <1>0, <2>5 DEF TakeForProcessing
  <2>6. CASE Process(t)
    BY <1>0, <2>6 DEF Process
  <2>7. CASE Consume(t)
    BY <1>0, <2>7 DEF Consume
  <2> QED BY <1>1, <2>1, <2>2, <2>3, <2>4, <2>5, <2>6, <2>7 DEF Proceed
<1>2. ASSUME NEW t \in Hosts, ProceedHost(t) PROVE SourceTypes'
  <2>1. CASE IngestObservation(t)
    BY <1>0, <2>1 DEF IngestObservation
  <2>2. CASE HandToHost(t)
    BY <1>0, <2>2 DEF HandToHost
  <2>3. CASE RefuseAction(t)
    BY <1>0, <2>3 DEF RefuseAction
  <2>4. CASE Act(t)
    BY <1>0, <2>4 DEF Act
  <2>5. CASE Release(t)
    BY <1>0, <2>5 DEF Release
  <2>6. CASE CaptureJoined(t)
    BY <1>0, <2>6 DEF CaptureJoined
  <2>7. CASE ShutdownCapture(t)
    BY <1>0, <2>7 DEF ShutdownCapture
  <2>8. CASE ShutdownWorker(t)
    BY <1>0, <2>8 DEF ShutdownWorker
  <2>9. CASE DrainRead(t)
    BY <1>0, <2>9 DEF DrainRead
  <2>10. CASE DrainDone(t)
    BY <1>0, <2>10 DEF DrainDone
  <2> QED BY <1>0, <1>1, <1>2, <2>1, <2>2, <2>3, <2>4, <2>5, <2>6, <2>7, <2>8, <2>9, <2>10 DEF ProceedHost
<1>3. ASSUME NEW t \in Hosts, Request(t) PROVE SourceTypes'
  <2>1. CASE Inject(t)
    BY <1>0, <2>1 DEF Inject
  <2>2. CASE \E c \in {"read", "process"} : Read(t, c)
    BY <1>0, <2>2 DEF Read
  <2>3. CASE \E h \in HandleIds, a \in Actions : Take(t, h, a)
    BY <1>0, <2>3 DEF Take
  <2>4. CASE CaptureStart(t)
    BY <1>0, <2>4 DEF CaptureStart
  <2>5. CASE CaptureStop(t)
    BY <1>0, <2>5 DEF CaptureStop
  <2>6. CASE StartProcessingWorker(t)
    BY <1>0, <2>6 DEF StartProcessingWorker
  <2>7. CASE Shutdown(t)
    BY <1>0, <2>7 DEF Shutdown
  <2> QED BY <1>3, <2>1, <2>2, <2>3, <2>4, <2>5, <2>6, <2>7 DEF Request
<1>4. ASSUME CaptureLoop \/ WorkerLoop PROVE SourceTypes'
  <2>1. CASE CaptureRecv
    BY <1>0, <2>1 DEF CaptureRecv
  <2>2. CASE CaptureRecvError
    BY <1>0, <2>2 DEF CaptureRecvError
  <2>3. CASE CaptureTest
    BY <1>0, <2>3 DEF CaptureTest
  <2>4. CASE WorkerRead
    BY <1>0, <2>4 DEF WorkerRead
  <2>5. CASE WorkerTest
    BY <1>0, <2>5 DEF WorkerTest
  <2> QED BY <1>0, <1>1, <1>4, <2>1, <2>2, <2>3, <2>4, <2>5 DEF CaptureLoop, CaptureWorks, WorkerLoop
<1>5. CASE UNCHANGED dataVars BY <1>5 DEF dataVars
<1> QED BY <1>1, <1>2, <1>3, <1>4, <1>5 DEF DataNext

\* Every step keeps the types of the statistics.
LEMMA StepCountTypes ==
    ASSUME DataInv, [DataNext]_dataVars
    PROVE  CountTypes'
<1> USE BusAssumption, HandlesAssumption DEF DataInv, DataTypeOK, CountTypes, countVars
<1>0. /\ \A t \in Hosts : t \in Threads /\ t # Capturer /\ t # Processor
      /\ Capturer \in Threads /\ Processor \in Threads
  OBVIOUS
<1>1. ASSUME NEW t \in Threads, Proceed(t) PROVE CountTypes'
  <2>1. CASE Publish(t)
    BY <1>0, <2>1 DEF Publish, Count
  <2>2. CASE PublishQueue(t)
    BY <1>0, <2>2 DEF PublishQueue, Count
  <2>3. CASE PublishRecord(t)
    BY <1>0, <2>3 DEF PublishRecord
  <2>4. CASE CountReceived(t)
    BY <1>0, <2>4 DEF CountReceived, Count
  <2>5. CASE TakeForProcessing(t)
    BY <1>0, <2>5 DEF TakeForProcessing
  <2>6. CASE Process(t)
    BY <1>0, <2>6 DEF Process, Count
  <2>7. CASE Consume(t)
    BY <1>0, <2>7 DEF Consume
  <2> QED BY <1>1, <2>1, <2>2, <2>3, <2>4, <2>5, <2>6, <2>7 DEF Proceed
<1>2. ASSUME NEW t \in Hosts, ProceedHost(t) PROVE CountTypes'
  <2>1. CASE IngestObservation(t)
    BY <1>0, <2>1 DEF IngestObservation
  <2>2. CASE HandToHost(t)
    BY <1>0, <2>2 DEF HandToHost
  <2>3. CASE RefuseAction(t)
    BY <1>0, <2>3 DEF RefuseAction
  <2>4. CASE Act(t)
    BY <1>0, <2>4 DEF Act
  <2>5. CASE Release(t)
    <3>1. CASE UNCHANGED countVars BY <3>1
    <3>2. CASE \E cs : Count(cs) /\ ended' \in {ended, ended + 1} BY <3>2 DEF Count
    <3> QED BY <2>5, <3>1, <3>2 DEF Release
  <2>6. CASE CaptureJoined(t)
    BY <1>0, <2>6 DEF CaptureJoined
  <2>7. CASE ShutdownCapture(t)
    BY <1>0, <2>7 DEF ShutdownCapture
  <2>8. CASE ShutdownWorker(t)
    BY <1>0, <2>8 DEF ShutdownWorker
  <2>9. CASE DrainRead(t)
    BY <1>0, <2>9 DEF DrainRead
  <2>10. CASE DrainDone(t)
    BY <1>0, <2>10 DEF DrainDone
  <2> QED BY <1>0, <1>1, <1>2, <2>1, <2>2, <2>3, <2>4, <2>5, <2>6, <2>7, <2>8, <2>9, <2>10 DEF ProceedHost
<1>3. ASSUME NEW t \in Hosts, Request(t) PROVE CountTypes'
  <2>1. CASE Inject(t)
    BY <1>0, <2>1 DEF Inject
  <2>2. CASE \E c \in {"read", "process"} : Read(t, c)
    BY <1>0, <2>2 DEF Read
  <2>3. CASE \E h \in HandleIds, a \in Actions : Take(t, h, a)
    BY <1>0, <2>3 DEF Take
  <2>4. CASE CaptureStart(t)
    BY <1>0, <2>4 DEF CaptureStart
  <2>5. CASE CaptureStop(t)
    BY <1>0, <2>5 DEF CaptureStop
  <2>6. CASE StartProcessingWorker(t)
    BY <1>0, <2>6 DEF StartProcessingWorker
  <2>7. CASE Shutdown(t)
    BY <1>0, <2>7 DEF Shutdown
  <2> QED BY <1>3, <2>1, <2>2, <2>3, <2>4, <2>5, <2>6, <2>7 DEF Request
<1>4. ASSUME CaptureLoop \/ WorkerLoop PROVE CountTypes'
  <2>1. CASE CaptureRecv
    BY <1>0, <2>1 DEF CaptureRecv
  <2>2. CASE CaptureRecvError
    BY <1>0, <2>2 DEF CaptureRecvError
  <2>3. CASE CaptureTest
    BY <1>0, <2>3 DEF CaptureTest
  <2>4. CASE WorkerRead
    BY <1>0, <2>4 DEF WorkerRead
  <2>5. CASE WorkerTest
    BY <1>0, <2>5 DEF WorkerTest
  <2> QED BY <1>0, <1>1, <1>4, <2>1, <2>2, <2>3, <2>4, <2>5 DEF CaptureLoop, CaptureWorks, WorkerLoop
<1>5. CASE UNCHANGED dataVars BY <1>5 DEF dataVars
<1> QED BY <1>1, <1>2, <1>3, <1>4, <1>5 DEF DataNext

\* The end of a call, or of an iteration of a loop, gives GLOBAL_ENGINE back.
LEMMA ReturnKeepsCall ==
    ASSUME DataInv, NEW t \in Threads, Return(t), UNCHANGED taken,
           t \in Hosts => call[t] \in {"inject", "read", "process", "stop", "shutdown"},
           t \notin Hosts => call[t] # "none",
           \A u \in Threads \ {t} : wanted'[u] = wanted[u],
           nextHandle' = nextHandle \/ \A u \in Hosts \ {t} : call[u] # "read"
    PROVE  CallInv'
<1> USE BusAssumption, HandlesAssumption DEF DataInv, DataTypeOK, CallTypes, HandleTypes, CallInv, Locked, Publishing, Calls, Actions,
        Stages, HandleIds, MoveTo, engineVars, handleVars, sourceVars
<1>1. CASE t \in Hosts
  <2>1. /\ glock' = None /\ call' = [call EXCEPT ![t] = "none"]
        /\ stage' = [stage EXCEPT ![t] = "start"]
    BY <1>1 DEF Return
  <2>2. glock = t /\ t # Capturer /\ t # Processor BY <1>1
  <2> QED BY SMTT(20), <1>1, <2>1, <2>2
<1>2. CASE t \notin Hosts
  <2>1. UNCHANGED <<glock, call>> /\ stage' = [stage EXCEPT ![t] = "test"]
    BY <1>2 DEF Return
  <2> QED BY ZenonT(40), <1>2, <2>1
<1> QED BY <1>1, <1>2

\* Every step keeps GLOBAL_ENGINE with the calls that run under it.
LEMMA StepCall ==
    ASSUME DataInv, [DataNext]_dataVars
    PROVE  CallInv'
<1> USE BusAssumption, HandlesAssumption DEF DataInv, DataTypeOK, CallTypes, HandleTypes, CallInv, Locked, Publishing, Calls, Actions,
        Stages, HandleIds, MoveTo, engineVars, handleVars, sourceVars
<1>0. /\ \A t \in Hosts : t \in Threads /\ t # Capturer /\ t # Processor
      /\ Capturer \in Threads /\ Processor \in Threads
  OBVIOUS
<1>1. ASSUME NEW t \in Threads, Proceed(t) PROVE CallInv'
  <2>1. CASE Publish(t)
    <3>1. CASE Return(t)
      <4>1. UNCHANGED <<taken, nextHandle>> /\ \A u \in Threads \ {t} : wanted'[u] = wanted[u]
        BY <2>1 DEF Publish, SourceTypes
      <4>2. call[t] \in {"inject", "capture"} BY <2>1 DEF Publish
      <4>3. t \in Hosts => call[t] = "inject" BY <4>2
      <4> QED BY <3>1, <4>1, <4>2, <4>3, ReturnKeepsCall
    <3>2. CASE MoveTo(t, "publishing") /\ UNCHANGED glock BY <1>0, <2>1, <3>2 DEF Publish
    <3> QED BY <2>1, <3>1, <3>2 DEF Publish
  <2>2. CASE PublishQueue(t)
    <3>1. CASE Return(t)
      <4>1. UNCHANGED <<taken, nextHandle>> /\ \A u \in Threads \ {t} : wanted'[u] = wanted[u]
        BY <2>2 DEF PublishQueue, SourceTypes
      <4>2. call[t] \in {"inject", "capture"} BY <2>2 DEF PublishQueue
      <4>3. t \in Hosts => call[t] = "inject" BY <4>2
      <4> QED BY <3>1, <4>1, <4>2, <4>3, ReturnKeepsCall
    <3>2. CASE MoveTo(t, "counting") /\ UNCHANGED glock BY <1>0, <2>2, <3>2 DEF PublishQueue
    <3> QED BY <2>2, <3>1, <3>2 DEF PublishQueue
  <2>3. CASE PublishRecord(t)
    BY <1>0, <2>3 DEF PublishRecord, At
  <2>4. CASE CountReceived(t)
    BY <1>0, <2>4, ReturnKeepsCall DEF CountReceived
  <2>5. CASE TakeForProcessing(t)
    <3>1. CASE Return(t) BY <1>0, <2>5, <3>1, ReturnKeepsCall DEF TakeForProcessing
    <3>2. CASE UNCHANGED <<glock, call, stage>> BY <2>5, <3>2 DEF TakeForProcessing
    <3> QED BY <2>5, <3>1, <3>2 DEF TakeForProcessing
  <2>6. CASE Process(t)
    BY <1>0, <2>6 DEF Process, At
  <2>7. CASE Consume(t)
    <3>1. CASE Return(t) BY <1>0, <2>7, <3>1, ReturnKeepsCall DEF Consume, At
    <3>2. CASE At(t, "shutdown", "busy") /\ MoveTo(t, "draining") /\ UNCHANGED glock
      BY <1>0, <2>7, <3>2 DEF Consume, At
    <3> QED BY <2>7, <3>1, <3>2 DEF Consume, At
  <2> QED BY <1>1, <2>1, <2>2, <2>3, <2>4, <2>5, <2>6, <2>7 DEF Proceed
<1>2. ASSUME NEW t \in Hosts, ProceedHost(t) PROVE CallInv'
  <2>1. CASE IngestObservation(t)
    <3>1. call[t] = "draw" /\ stage[t] = "start" /\ glock = None /\ wanted[t] \in Ids
      BY <1>0, <2>1 DEF IngestObservation, At
    <3>2. UNCHANGED <<stage, taken, nextHandle>> BY <2>1 DEF IngestObservation
    <3>3. CASE running
      <4>1. glock' = t /\ call' = [call EXCEPT ![t] = "inject"] /\ UNCHANGED wanted
        BY <2>1, <3>3 DEF IngestObservation
      <4> QED BY <1>0, <3>1, <3>2, <4>1
    <3>4. CASE ~running
      <4>1. /\ call' = [call EXCEPT ![t] = "none"] /\ wanted' = [wanted EXCEPT ![t] = 0]
            /\ UNCHANGED glock
        BY <2>1, <3>4 DEF IngestObservation
      <4> QED BY <1>0, <3>1, <3>2, <4>1 DEF SourceTypes
    <3> QED BY <3>3, <3>4
  <2>2. CASE HandToHost(t)
    <3>1. \A u \in Hosts \ {t} : call[u] # "read" BY <2>2 DEF HandToHost, At
    <3> QED BY <1>0, <2>2, <3>1, ReturnKeepsCall DEF HandToHost, At
  <2>3. CASE RefuseAction(t)
    BY <1>0, <2>3 DEF RefuseAction, Restore, At
  <2>4. CASE Act(t)
    BY <1>0, <2>4 DEF Act, At
  <2>5. CASE Release(t)
    <3>1. /\ call' = [call EXCEPT ![t] = "none"] /\ stage' = [stage EXCEPT ![t] = "start"]
          /\ taken' = [taken EXCEPT ![t] = 0] /\ glock' = None
          /\ UNCHANGED <<nextHandle, wanted>>
      BY <2>5 DEF Release, Restore
    <3>2. call[t] \in Actions /\ stage[t] = "acting" BY <2>5 DEF Release
    <3> QED BY <1>0, <3>1, <3>2
  <2>6. CASE CaptureJoined(t)
    BY <1>0, <2>6, ReturnKeepsCall DEF CaptureJoined, At
  <2>7. CASE ShutdownCapture(t)
    BY <1>0, <2>7 DEF ShutdownCapture, At
  <2>8. CASE ShutdownWorker(t)
    BY <1>0, <2>8 DEF ShutdownWorker, At
  <2>9. CASE DrainRead(t)
    BY <1>0, <2>9 DEF DrainRead, At
  <2>10. CASE DrainDone(t)
    BY <1>0, <2>10, ReturnKeepsCall DEF DrainDone, At
  <2> QED BY <1>0, <1>1, <1>2, <2>1, <2>2, <2>3, <2>4, <2>5, <2>6, <2>7, <2>8, <2>9, <2>10 DEF ProceedHost
<1>3. ASSUME NEW t \in Hosts, Request(t) PROVE CallInv'
  <2>1. CASE Inject(t)
    <3>1. nextInject \in Ids BY <2>1 DEF Inject, SourceTypes
    <3>2. /\ wanted' = [wanted EXCEPT ![t] = nextInject] /\ call[t] = "none"
          /\ call' = [call EXCEPT ![t] = "draw"] /\ UNCHANGED <<stage, glock, taken, nextHandle>>
      BY <2>1 DEF Inject
    <3> QED BY <1>0, <3>1, <3>2 DEF SourceTypes
  <2>2. CASE \E c \in {"read", "process"} : Read(t, c)
    BY <1>0, <2>2 DEF Read, Enter, At
  <2>3. CASE \E h \in HandleIds, a \in Actions : Take(t, h, a)
    BY <1>0, <2>3 DEF Take, At
  <2>4. CASE CaptureStart(t)
    BY <1>0, <2>4 DEF CaptureStart, At
  <2>5. CASE CaptureStop(t)
    BY <1>0, <2>5 DEF CaptureStop, Enter, At
  <2>6. CASE StartProcessingWorker(t)
    BY <1>0, <2>6 DEF StartProcessingWorker, At
  <2>7. CASE Shutdown(t)
    BY <1>0, <2>7 DEF Shutdown, Enter, At
  <2> QED BY <1>3, <2>1, <2>2, <2>3, <2>4, <2>5, <2>6, <2>7 DEF Request
<1>4. ASSUME CaptureLoop \/ WorkerLoop PROVE CallInv'
  <2>1. CASE CaptureRecv
    <3>1. nextCapture \in Ids BY <2>1 DEF CaptureRecv, SourceTypes
    <3>2. /\ wanted' = [wanted EXCEPT ![Capturer] = nextCapture] /\ MoveTo(Capturer, "start")
          /\ At(Capturer, "capture", "recv") /\ UNCHANGED <<taken, nextHandle, glock>>
      BY <2>1 DEF CaptureRecv
    <3> QED BY <1>0, <3>1, <3>2 DEF At, SourceTypes
  <2>2. CASE CaptureRecvError
    BY <1>0, <2>2 DEF CaptureRecvError, At
  <2>3. CASE CaptureTest
    BY <1>0, <2>3 DEF CaptureTest, At
  <2>4. CASE WorkerRead
    BY <1>0, <2>4 DEF WorkerRead, At
  <2>5. CASE WorkerTest
    BY <1>0, <2>5 DEF WorkerTest, At
  <2> QED BY <1>0, <1>1, <1>4, <2>1, <2>2, <2>3, <2>4, <2>5 DEF CaptureLoop, CaptureWorks, WorkerLoop
<1>5. CASE UNCHANGED dataVars BY <1>5 DEF dataVars
<1> QED BY <1>1, <1>2, <1>3, <1>4, <1>5 DEF DataNext

\* Steps that touch neither the table, nor a taken handle, nor the Host's packets.
LEMMA HandlesKept ==
    ASSUME OneHandlePerPacket, FreshHandles, UNCHANGED <<table, obs, taken, host, nextHandle>>
    PROVE  (OneHandlePerPacket /\ FreshHandles)'
  BY DEF OneHandlePerPacket, FreshHandles, Outstanding, InFlight

\* Putting a handle back leaves the same handles outstanding.
LEMMA RestoreKeepsHandles ==
    ASSUME DataInv, NEW t \in Hosts, taken[t] # 0, Restore(t), UNCHANGED <<obs, host, nextHandle>>
    PROVE  (OneHandlePerPacket /\ FreshHandles)'
<1> USE DEF DataInv, DataTypeOK, HandleTypes
<1>1. table' = table \cup {taken[t]} /\ taken' = [taken EXCEPT ![t] = 0] BY DEF Restore
<1>2. InFlight' = InFlight \ {t} BY <1>1 DEF InFlight
<1>3. \A u \in InFlight' : taken'[u] = taken[u] /\ taken[u] # taken[t] /\ taken[u] \notin table
  BY <1>1, <1>2 DEF OneHandlePerPacket, InFlight
<1>4. Outstanding' = Outstanding BY <1>1, <1>2, <1>3 DEF Outstanding, InFlight
<1> QED BY <1>1, <1>2, <1>3, <1>4 DEF OneHandlePerPacket, FreshHandles

\* Every step keeps one handle per Host-owned packet, and new handles fresh.
LEMMA StepHandles ==
    ASSUME DataInv, [DataNext]_dataVars
    PROVE  (OneHandlePerPacket /\ FreshHandles)'
<1> USE BusAssumption, HandlesAssumption DEF DataInv, DataTypeOK, HandleTypes, HandleIds, vars, handleVars
<1>0. /\ \A t \in Hosts : t \in Threads /\ t # Capturer /\ t # Processor
      /\ Capturer \in Threads /\ Processor \in Threads
  OBVIOUS
<1>1. ASSUME NEW t \in Threads, Proceed(t) PROVE (OneHandlePerPacket /\ FreshHandles)'
  <2>1. CASE Publish(t)
    BY <2>1, HandlesKept DEF Publish, PublishLock
  <2>2. CASE PublishQueue(t)
    BY <2>2, HandlesKept DEF PublishQueue, PublishEnqueue
  <2>3. CASE PublishRecord(t)
    BY <2>3, HandlesKept DEF PublishRecord, PublishInsert
  <2>4. CASE CountReceived(t)
    BY <2>4, HandlesKept DEF CountReceived
  <2>5. CASE TakeForProcessing(t)
    BY <2>5, HandlesKept DEF TakeForProcessing, TakeProcessing
  <2>6. CASE Process(t)
    BY <2>6, HandlesKept DEF Process
  <2>7. CASE Consume(t)
    BY <2>7, HandlesKept DEF Consume, ReleaseProcessing
  <2> QED BY <1>1, <2>1, <2>2, <2>3, <2>4, <2>5, <2>6, <2>7 DEF Proceed
<1>2. ASSUME NEW t \in Hosts, ProceedHost(t) PROVE (OneHandlePerPacket /\ FreshHandles)'
  <2>1. CASE IngestObservation(t)
    BY <2>1, HandlesKept DEF IngestObservation
  <2>2. CASE HandToHost(t)
    <3>1. /\ At(t, "read", "done") /\ TransferToHost(t)
          /\ nextHandle \in HandleIds /\ nextHandle \notin Outstanding
      BY <2>2 DEF HandToHost, At, CallInv, FreshHandles
    <3>2. held[t] \in Ids /\ held[t] \notin host
      BY <1>0, <3>1 DEF TransferToHost, LiveInv, TypeOK, OneCopy, HasValue
    <3>3. CASE CanMove(held[t], "Processing", "Host")
      <4>1. /\ host' = host \cup {held[t]} /\ table' = table \cup {nextHandle}
            /\ obs' = [obs EXCEPT ![nextHandle] = held[t]]
            /\ nextHandle' = nextHandle + 1 /\ UNCHANGED taken
        BY <2>2, <3>3 DEF HandToHost, TransferToHost
      <4>2. InFlight' = InFlight /\ Outstanding' = Outstanding \cup {nextHandle}
        BY <4>1 DEF Outstanding, InFlight
      <4>3. \A h \in Outstanding : obs'[h] = obs[h] /\ obs[h] # held[t]
        BY <3>1, <3>2, <4>1 DEF OneHandlePerPacket
      <4>4. obs'[nextHandle] = held[t] BY <3>1, <4>1
      <4>0. Outstanding \subseteq HandleIds BY OutstandingTypes
      <4>5. FreshHandles'
        <5> SUFFICES ASSUME NEW h \in Outstanding' PROVE h < nextHandle'
          BY DEF FreshHandles
        <5>1. nextHandle \in Nat /\ nextHandle' = nextHandle + 1 BY <4>1
        <5>2. CASE h = nextHandle BY <5>1, <5>2
        <5>3. CASE h \in Outstanding
          <6>1. h \in Nat /\ h < nextHandle BY <4>0, <5>3 DEF FreshHandles
          <6> QED BY <5>1, <6>1
        <5> QED BY <4>2, <5>2, <5>3
      <4>6. \A u \in InFlight : taken[u] \in Outstanding BY DEF Outstanding
      <4>7. {obs'[h] : h \in Outstanding'} = {obs[h] : h \in Outstanding} \cup {held[t]}
        BY <4>2, <4>3, <4>4
      <4> QED
        BY <3>1, <4>1, <4>2, <4>3, <4>4, <4>5, <4>6, <4>7 DEF OneHandlePerPacket
    <3>4. CASE ~CanMove(held[t], "Processing", "Host")
      <4>1. nextHandle' = nextHandle + 1 /\ UNCHANGED <<table, obs, taken, host>>
        BY <2>2, <3>4 DEF HandToHost, TransferToHost
      <4> QED BY <4>1 DEF OneHandlePerPacket, FreshHandles, Outstanding, InFlight
    <3> QED BY <3>3, <3>4
  <2>3. CASE RefuseAction(t)
    <3>1. taken[t] # 0 BY <2>3 DEF RefuseAction, At, CallInv, Actions
    <3> QED BY <2>3, <3>1, RestoreKeepsHandles DEF RefuseAction
  <2>4. CASE Act(t)
    BY <2>4, HandlesKept DEF Act
  <2>5. CASE Release(t)
    <3> DEFINE g == taken[t]
    <3>1. g # 0 /\ g \in HandleIds /\ t \in InFlight BY <2>5 DEF Release, CallInv, InFlight
    <3>2. CASE ~CanMove(obs[g], "Host", "Released")
      <4>1. Restore(t) /\ UNCHANGED <<obs, host, nextHandle>> BY <2>5, <3>2 DEF Release
      <4> QED BY <3>1, <4>1, RestoreKeepsHandles
    <3>3. CASE CanMove(obs[g], "Host", "Released")
      <4>1. /\ host' = host \ {obs[g]} /\ obs' = [obs EXCEPT ![g] = 0]
            /\ taken' = [taken EXCEPT ![t] = 0] /\ UNCHANGED <<table, nextHandle>>
        BY <2>5, <3>3 DEF Release, ReleaseHost
      <4> HIDE DEF g
      <4>2. InFlight' = InFlight \ {t} BY <4>1 DEF InFlight
      <4>3. \A u \in InFlight' : taken'[u] = taken[u] /\ taken[u] # g /\ taken[u] \notin table
        BY <3>1, <4>1, <4>2 DEF OneHandlePerPacket, g
      <4>4. g \in Outstanding /\ g \notin table
        BY <3>1 DEF Outstanding, OneHandlePerPacket, g
      <4>5. Outstanding' = Outstanding \ {g}
        BY <3>1, <4>1, <4>2, <4>3, <4>4 DEF Outstanding, g
      <4>6. \A h \in Outstanding' : obs'[h] = obs[h] /\ obs[h] # obs[g]
        BY <4>1, <4>4, <4>5 DEF OneHandlePerPacket
      <4>7. host' = {obs'[h] : h \in Outstanding'}
        BY <4>1, <4>4, <4>5, <4>6 DEF OneHandlePerPacket
      <4>8. FreshHandles' BY <4>1, <4>5 DEF FreshHandles
      <4> QED BY <4>1, <4>2, <4>3, <4>5, <4>6, <4>7, <4>8 DEF OneHandlePerPacket
    <3> QED BY <3>2, <3>3
  <2>6. CASE CaptureJoined(t)
    BY <2>6, HandlesKept DEF CaptureJoined
  <2>7. CASE ShutdownCapture(t)
    BY <2>7, HandlesKept DEF ShutdownCapture
  <2>8. CASE ShutdownWorker(t)
    BY <2>8, HandlesKept DEF ShutdownWorker, Close
  <2>9. CASE DrainRead(t)
    BY <2>9, HandlesKept DEF DrainRead, Dequeue
  <2>10. CASE DrainDone(t)
    BY <2>10, HandlesKept DEF DrainDone
  <2> QED BY <1>0, <1>1, <1>2, <2>1, <2>2, <2>3, <2>4, <2>5, <2>6, <2>7, <2>8, <2>9, <2>10 DEF ProceedHost
<1>3. ASSUME NEW t \in Hosts, Request(t) PROVE (OneHandlePerPacket /\ FreshHandles)'
  <2>1. CASE Inject(t)
    BY <2>1, HandlesKept DEF Inject
  <2>2. CASE \E c \in {"read", "process"} : Read(t, c)
    BY <2>2, HandlesKept DEF Read, Dequeue
  <2>3. CASE \E h \in HandleIds, a \in Actions : Take(t, h, a)
    <3> PICK h \in HandleIds, a \in Actions : Take(t, h, a) BY <2>3
    <3>0. call[t] = "none" /\ "none" \notin Actions BY DEF Take, Actions
    <3>6. taken[t] = 0 BY <3>0 DEF CallInv
    <3>1. /\ h \in table /\ table' = table \ {h} /\ taken' = [taken EXCEPT ![t] = h]
          /\ taken[t] = 0 /\ h # 0 /\ UNCHANGED <<obs, host, nextHandle>>
      BY <3>6 DEF Take
    <3>2. InFlight' = InFlight \cup {t} /\ t \notin InFlight BY <3>1 DEF InFlight
    <3>3. \A u \in InFlight : taken'[u] = taken[u] /\ taken[u] # h
      BY <3>1, <3>2 DEF OneHandlePerPacket, InFlight
    <3>4. taken'[t] = h BY <3>1
    <3>5. Outstanding' = Outstanding BY <3>1, <3>2, <3>3, <3>4 DEF Outstanding
    <3> QED BY <3>1, <3>2, <3>3, <3>4, <3>5 DEF OneHandlePerPacket, FreshHandles
  <2>4. CASE CaptureStart(t)
    BY <2>4, HandlesKept DEF CaptureStart
  <2>5. CASE CaptureStop(t)
    BY <2>5, HandlesKept DEF CaptureStop
  <2>6. CASE StartProcessingWorker(t)
    BY <2>6, HandlesKept DEF StartProcessingWorker
  <2>7. CASE Shutdown(t)
    BY <2>7, HandlesKept DEF Shutdown
  <2> QED BY <1>3, <2>1, <2>2, <2>3, <2>4, <2>5, <2>6, <2>7 DEF Request
<1>4. ASSUME CaptureLoop \/ WorkerLoop PROVE (OneHandlePerPacket /\ FreshHandles)'
  <2>1. CASE CaptureRecv
    BY <2>1, HandlesKept DEF CaptureRecv
  <2>2. CASE CaptureRecvError
    BY <2>2, HandlesKept DEF CaptureRecvError
  <2>3. CASE CaptureTest
    BY <2>3, HandlesKept DEF CaptureTest
  <2>4. CASE WorkerRead
    BY <2>4, HandlesKept DEF WorkerRead, Dequeue
  <2>5. CASE WorkerTest
    BY <2>5, HandlesKept DEF WorkerTest
  <2> QED BY <1>0, <1>1, <1>4, <2>1, <2>2, <2>3, <2>4, <2>5 DEF CaptureLoop, CaptureWorks, WorkerLoop
<1>5. CASE UNCHANGED dataVars BY <1>5 DEF dataVars, OneHandlePerPacket, FreshHandles, Outstanding, InFlight
<1> QED BY <1>1, <1>2, <1>3, <1>4, <1>5 DEF DataNext

\* The bus never refuses to release what a handle stands for, so a packet that
\* was sent is never restored to the table.
LEMMA ReleaseNotRefused ==
    ASSUME DataInv, NEW t \in Hosts, taken[t] # 0
    PROVE  CanMove(obs[taken[t]], "Host", "Released")
<1>1. obs[taken[t]] \in host BY TakenInHost
<1>2. own[obs[taken[t]]] = "Host" BY <1>1 DEF DataInv, LiveInv, OwnerMatches
<1> QED BY <1>2 DEF CanMove, TransitionOwnership, Handoffs

\* A dequeue takes a queued packet and queues none.
LEMMA DequeueQueued ==
    ASSUME TypeOK, NEW t \in Threads, Dequeue(t)
    PROVE  /\ \A id \in Ids : Queued(id)' => Queued(id)
           /\ held' = [held EXCEPT ![t] = Head(queue)] /\ pc' = [pc EXCEPT ![t] = "dequeued"]
           /\ Head(queue) \in Ids /\ Queued(Head(queue))
<1>1. queue # <<>> /\ queue \in Seq(Ids) /\ queue' = Tail(queue) BY DEF TypeOK, Dequeue
<1>2. /\ Head(queue) \in Ids /\ Head(queue) = queue[1]
      /\ Len(queue) \in Nat /\ Len(queue) > 0 /\ Len(Tail(queue)) = Len(queue) - 1
      /\ \A i \in 1..Len(Tail(queue)) : Tail(queue)[i] = queue[i + 1]
  BY <1>1, TailFacts
<1>3. Queued(Head(queue)) BY <1>2 DEF Queued
<1>4. ASSUME NEW id \in Ids, Queued(id)' PROVE Queued(id)
  <2>1. PICK i \in 1..Len(queue') : queue'[i] = id BY <1>4 DEF Queued
  <2>2. i + 1 \in 1..Len(queue) /\ queue[i + 1] = id BY <1>1, <1>2, <2>1
  <2> QED BY <2>2 DEF Queued
<1> QED BY <1>2, <1>3, <1>4 DEF Dequeue, Goto

\* What a dequeue hands to its reader has not been sent.
LEMMA DequeueUnsent ==
    ASSUME DataInv, NEW t \in Threads, Dequeue(t)
    PROVE  \A u \in Threads : pc'[u] \in {"dequeued", "processing"} => sent[held'[u]] = 0
<1>1. sent[Head(queue)] = 0 BY DequeueQueued DEF DataInv, LiveInv, UnsentInv
<1>2. held \in [Threads -> Ids] /\ pc \in [Threads -> PCs] BY DEF DataInv, LiveInv, TypeOK
<1>3. held' = [held EXCEPT ![t] = Head(queue)] /\ pc' = [pc EXCEPT ![t] = "dequeued"]
  BY DequeueQueued DEF DataInv, LiveInv
<1> QED BY <1>1, <1>2, <1>3 DEF DataInv, UnsentInv

\* Steps after which every packet that must not have been sent was one before.
LEMMA SentKept ==
    ASSUME DataInv, UNCHANGED <<table, obs, taken, sent>>,
           \A id \in Ids : Queued(id)' => Queued(id),
           \A u \in Threads : pc'[u] \in {"dequeued", "processing"} => sent[held'[u]] = 0,
           \A u \in Hosts : stage'[u] = "taken" => stage[u] = "taken"
    PROVE  (SentAtMostOnce /\ UnsentInv)'
  BY DEF DataInv, SentAtMostOnce, UnsentInv

\* Steps that leave the bus, the handles and the sends alone.
LEMMA SentKeptQuietly ==
    ASSUME DataInv, UNCHANGED <<table, obs, taken, sent, vars>>,
           \A u \in Hosts : stage'[u] = "taken" => stage[u] = "taken"
    PROVE  (SentAtMostOnce /\ UnsentInv)'
  BY DEF DataInv, SentAtMostOnce, UnsentInv, vars, Queued

\* No step sends a packet twice, or leaves a sent one with a usable handle.
LEMMA StepSent ==
    ASSUME DataInv, [DataNext]_dataVars
    PROVE  (SentAtMostOnce /\ UnsentInv)'
<1> USE BusAssumption, HandlesAssumption DEF DataInv, DataTypeOK, CallTypes, HandleTypes, HandleIds, LiveInv, TypeOK, MoveTo,
        vars, handleVars
<1>0. /\ \A t \in Hosts : t \in Threads /\ t # Capturer /\ t # Processor
      /\ Capturer \in Threads /\ Processor \in Threads
  OBVIOUS
<1>1. ASSUME NEW t \in Threads, Proceed(t) PROVE (SentAtMostOnce /\ UnsentInv)'
  <2>1. CASE Publish(t)
    <3>S. \A u \in Hosts : stage'[u] = "taken" => stage[u] = "taken"
      BY <1>0, <2>1 DEF Publish, Return
    <3>1. /\ UNCHANGED <<table, obs, taken, sent, queue>>
          /\ \A u \in Threads : pc'[u] \in {"dequeued", "processing"}
                                 => pc[u] = pc'[u] /\ held'[u] = held[u]
      BY <2>1 DEF Publish, PublishLock, Goto
    <3>2. \A id \in Ids : Queued(id)' => Queued(id) BY <3>1 DEF Queued
    <3>3. \A u \in Threads : pc'[u] \in {"dequeued", "processing"} => sent[held'[u]] = 0
      BY <3>1 DEF UnsentInv
    <3> QED BY <3>S, <3>1, <3>2, <3>3, SentKept
  <2>2. CASE PublishQueue(t)
    <3>S. \A u \in Hosts : stage'[u] = "taken" => stage[u] = "taken"
      BY <1>0, <2>2 DEF PublishQueue, Return
    <3>1. /\ held[t] \in Ids /\ UNCHANGED <<table, obs, taken, held>>
          /\ \A u \in Threads : pc'[u] \in {"dequeued", "processing"} => pc[u] = pc'[u]
      BY <2>2 DEF PublishQueue, PublishEnqueue, Goto
    <3>2. CASE ~Accepts
      <4>1. UNCHANGED <<sent, queue>> BY <2>2, <3>2 DEF PublishQueue, PublishEnqueue
      <4> QED BY <3>S, <3>1, <4>1, SentKept DEF UnsentInv, Queued
    <3>3. CASE Accepts
      <4>1. queue' = Append(queue, held[t]) /\ sent' = [sent EXCEPT ![held[t]] = 0]
        BY <2>2, <3>3 DEF PublishQueue, PublishEnqueue
      <4>2. \A id \in Ids : Queued(id)' => Queued(id) \/ id = held[t]
        BY <3>1, <3>3, <4>1, EnqueueFacts
      <4>3. \A id \in Ids : sent'[id] = 0 \/ sent'[id] = sent[id] BY <3>1, <4>1
      <4>4. sent'[held[t]] = 0 BY <3>1, <4>1
      <4>5. \A h \in table : obs[h] \in Ids BY DEF OneHandlePerPacket, Outstanding
      <4>6. \A u \in Hosts : stage[u] = "taken" => obs[taken[u]] \in Ids
        BY TakenInHost DEF CallInv
      <4>7. SentAtMostOnce'
        <5>1. ASSUME NEW id \in Ids PROVE sent'[id] <= 1
          <6>1. CASE sent'[id] = 0 BY <6>1
          <6>2. CASE sent'[id] = sent[id] BY <6>2 DEF SentAtMostOnce
          <6> QED BY <4>3, <6>1, <6>2
        <5>2. \A h \in table : sent'[obs[h]] = 0 BY <4>3, <4>5 DEF SentAtMostOnce
        <5> QED BY <3>1, <5>1, <5>2 DEF SentAtMostOnce
      <4>8. UnsentInv' BY <3>S, <3>1, <4>2, <4>3, <4>4, <4>6 DEF UnsentInv
      <4> QED BY <4>7, <4>8
    <3> QED BY <3>2, <3>3
  <2>3. CASE PublishRecord(t)
    <3>1. /\ UNCHANGED <<table, obs, taken, sent, queue, stage, held>>
          /\ \A u \in Threads : pc'[u] \in {"dequeued", "processing"} => pc[u] = pc'[u]
      BY <2>3 DEF PublishRecord, PublishInsert, Goto
    <3> QED BY <3>1, SentKept DEF UnsentInv, Queued
  <2>4. CASE CountReceived(t)
    BY <1>0, <2>4, SentKeptQuietly DEF CountReceived, Return
  <2>5. CASE TakeForProcessing(t)
    <3>S. \A u \in Hosts : stage'[u] = "taken" => stage[u] = "taken"
      BY <1>0, <2>5 DEF TakeForProcessing, Return
    <3>1. /\ UNCHANGED <<table, obs, taken, sent, queue, held>>
          /\ \A u \in Threads : pc'[u] \in {"dequeued", "processing"}
                                 => pc[u] \in {"dequeued", "processing"}
      BY <2>5 DEF TakeForProcessing, TakeProcessing, Goto
    <3> QED BY <3>S, <3>1, SentKept DEF UnsentInv, Queued
  <2>6. CASE Process(t)
    BY <1>0, <2>6, SentKeptQuietly DEF Process
  <2>7. CASE Consume(t)
    <3>S. \A u \in Hosts : stage'[u] = "taken" => stage[u] = "taken"
      BY <1>0, <2>7 DEF Consume, Return
    <3>1. /\ UNCHANGED <<table, obs, taken, sent, queue, held>>
          /\ \A u \in Threads : pc'[u] \in {"dequeued", "processing"} => pc[u] = pc'[u]
      BY <2>7 DEF Consume, ReleaseProcessing, Goto
    <3> QED BY <3>S, <3>1, SentKept DEF UnsentInv, Queued
  <2> QED BY <1>1, <2>1, <2>2, <2>3, <2>4, <2>5, <2>6, <2>7 DEF Proceed
<1>2. ASSUME NEW t \in Hosts, ProceedHost(t) PROVE (SentAtMostOnce /\ UnsentInv)'
  <2>1. CASE IngestObservation(t)
    BY <1>0, <2>1, SentKeptQuietly DEF IngestObservation
  <2>2. CASE HandToHost(t)
    <3>S. \A u \in Hosts : stage'[u] = "taken" => stage[u] = "taken"
      BY <1>0, <2>2 DEF HandToHost, Return
    <3>1. /\ At(t, "read", "done") /\ TransferToHost(t)
          /\ nextHandle \in HandleIds /\ nextHandle \notin Outstanding
      BY <2>2 DEF HandToHost, At, CallInv, FreshHandles
    <3>2. pc[t] = "processing" /\ sent[held[t]] = 0
      BY <1>0, <3>1 DEF TransferToHost, UnsentInv
    <3>3. /\ UNCHANGED <<sent, taken, queue, held>>
          /\ \A u \in Threads : pc'[u] \in {"dequeued", "processing"} => pc[u] = pc'[u]
      BY <1>0, <2>2 DEF HandToHost, TransferToHost, Goto
    <3>4. /\ table' \subseteq table \cup {nextHandle}
          /\ \A h \in Outstanding : obs'[h] = obs[h]
          /\ nextHandle \in table' => obs'[nextHandle] = held[t]
      <4>1. Outstanding \subseteq HandleIds BY OutstandingTypes
      <4>2. CASE table' = table /\ obs' = obs BY <3>1, <4>2 DEF Outstanding
      <4>3. CASE table' = table \cup {nextHandle} /\ obs' = [obs EXCEPT ![nextHandle] = held[t]]
        BY <3>1, <4>1, <4>3
      <4> QED BY <2>2, <4>2, <4>3 DEF HandToHost
    <3>5. SentAtMostOnce'
      <4>1. \A h \in table' : sent'[obs'[h]] = 0
        BY SMTT(20), <3>2, <3>3, <3>4 DEF SentAtMostOnce, Outstanding
      <4> QED BY <3>3, <4>1 DEF SentAtMostOnce
    <3>6. \A u \in Hosts : stage[u] = "taken" => taken[u] \in Outstanding
      BY DEF CallInv, Outstanding, InFlight
    <3>7. UnsentInv' BY ZenonT(40), <3>S, <3>3, <3>4, <3>6 DEF UnsentInv, Queued
    <3> QED BY <3>5, <3>7
  <2>3. CASE RefuseAction(t)
    <3>1. sent[obs[taken[t]]] = 0 BY <2>3 DEF RefuseAction, At, UnsentInv
    <3>2. /\ table' = table \cup {taken[t]} /\ taken' = [taken EXCEPT ![t] = 0]
          /\ stage' = [stage EXCEPT ![t] = "start"] /\ UNCHANGED <<obs, sent, queue, pc, held>>
      BY <2>3 DEF RefuseAction, Restore
    <3>3. SentAtMostOnce' BY <3>1, <3>2 DEF SentAtMostOnce
    <3>4. UnsentInv' BY <1>0, <3>2 DEF UnsentInv, Queued
    <3> QED BY <3>3, <3>4
  <2>4. CASE Act(t)
    <3> DEFINE id == obs[taken[t]]
    <3>1. /\ UNCHANGED <<table, obs, taken, queue, pc, held>>
          /\ stage' = [stage EXCEPT ![t] = "acting"]
          /\ sent' = sent \/ sent' = [sent EXCEPT ![id] = @ + 1]
      BY <2>4 DEF Act
    <3>2. taken[t] # 0 /\ stage[t] = "taken" BY <2>4 DEF Act, CallInv
    <3>3. id \in host /\ id \in Ids BY <3>2, TakenInHost
    <3>4. sent[id] = 0 BY <3>2 DEF UnsentInv
    <3>5. t \in InFlight /\ taken[t] \in Outstanding BY <3>2 DEF InFlight, Outstanding
    <3>6. \A h \in Outstanding : h # taken[t] => obs[h] # id /\ obs[h] \in Ids
      BY <3>5 DEF OneHandlePerPacket
    <3>7. taken[t] \notin table /\ \A u \in Hosts \ {t} : stage[u] = "taken"
                                    => taken[u] \in Outstanding /\ taken[u] # taken[t]
      BY <3>5 DEF OneHandlePerPacket, CallInv, InFlight, Outstanding
    <3>8. ~Queued(id) /\ \A u \in Threads : pc[u] \in {"dequeued", "processing"} => held[u] # id
      BY <3>3 DEF LiveInv, OneCopy, HasValue
    <3> HIDE DEF id
    <3>9. /\ \A x \in Ids : x # id => sent'[x] = sent[x]
          /\ sent'[id] <= 1
      <4>1. CASE sent' = sent BY <3>4, <4>1
      <4>2. CASE sent' = [sent EXCEPT ![id] = @ + 1] BY <3>3, <3>4, <4>2
      <4> QED BY <3>1, <4>1, <4>2
    <3>10. SentAtMostOnce' BY <3>1, <3>6, <3>7, <3>9 DEF SentAtMostOnce, Outstanding
    <3>11. UnsentInv' BY <1>0, <3>1, <3>6, <3>7, <3>8, <3>9 DEF UnsentInv, Queued
    <3> QED BY <3>10, <3>11
  <2>5. CASE Release(t)
    <3>1. taken[t] # 0 /\ t \in InFlight BY <2>5 DEF Release, CallInv, InFlight
    <3>2. CanMove(obs[taken[t]], "Host", "Released") BY <3>1, ReleaseNotRefused
    <3>3. /\ obs' = [obs EXCEPT ![taken[t]] = 0] /\ taken' = [taken EXCEPT ![t] = 0]
          /\ stage' = [stage EXCEPT ![t] = "start"] /\ UNCHANGED <<table, sent, queue, pc, held>>
      BY <2>5, <3>2 DEF Release, ReleaseHost
    <3>4. \A h \in table : h # taken[t] BY <3>1 DEF OneHandlePerPacket
    <3>5. \A u \in Hosts \ {t} : stage[u] = "taken" => taken[u] # taken[t] /\ taken[u] \in HandleIds
      BY <3>1 DEF OneHandlePerPacket, CallInv, InFlight
    <3>6. SentAtMostOnce' BY <3>3, <3>4 DEF SentAtMostOnce
    <3>7. UnsentInv' BY <1>0, <3>3, <3>5 DEF UnsentInv, Queued
    <3> QED BY <3>6, <3>7
  <2>6. CASE CaptureJoined(t)
    BY <1>0, <2>6, SentKeptQuietly DEF CaptureJoined, Return
  <2>7. CASE ShutdownCapture(t)
    BY <1>0, <2>7, SentKeptQuietly DEF ShutdownCapture
  <2>8. CASE ShutdownWorker(t)
    <3>S. \A u \in Hosts : stage'[u] = "taken" => stage[u] = "taken"
      BY <1>0, <2>8 DEF ShutdownWorker
    <3>1. UNCHANGED <<table, obs, taken, sent, queue, pc, held>>
      BY <2>8 DEF ShutdownWorker, Close
    <3> QED BY <3>S, <3>1, SentKept DEF UnsentInv, Queued
  <2>9. CASE DrainRead(t)
    <3>S. \A u \in Hosts : stage'[u] = "taken" => stage[u] = "taken"
      BY <1>0, <2>9 DEF DrainRead
    <3>1. UNCHANGED <<table, obs, taken, sent>> BY <2>9 DEF DrainRead
    <3>2. Dequeue(t) BY <2>9 DEF DrainRead
    <3>3. \A u \in Threads : pc'[u] \in {"dequeued", "processing"} => sent[held'[u]] = 0
      BY <1>0, <3>2, DequeueUnsent
    <3> QED BY <1>0, <3>S, <3>1, <3>2, <3>3, DequeueQueued, SentKept
  <2>10. CASE DrainDone(t)
    BY <1>0, <2>10, SentKeptQuietly DEF DrainDone, Return
  <2> QED BY <1>0, <1>1, <1>2, <2>1, <2>2, <2>3, <2>4, <2>5, <2>6, <2>7, <2>8, <2>9, <2>10 DEF ProceedHost
<1>3. ASSUME NEW t \in Hosts, Request(t) PROVE (SentAtMostOnce /\ UnsentInv)'
  <2>1. CASE Inject(t)
    BY <1>0, <2>1, SentKeptQuietly DEF Inject
  <2>2. CASE \E c \in {"read", "process"} : Read(t, c)
    <3>S. \A u \in Hosts : stage'[u] = "taken" => stage[u] = "taken"
      BY <1>0, <2>2 DEF Read, Enter
    <3>1. UNCHANGED <<table, obs, taken, sent>> BY <2>2 DEF Read
    <3>2. Dequeue(t) BY <2>2 DEF Read
    <3>3. \A u \in Threads : pc'[u] \in {"dequeued", "processing"} => sent[held'[u]] = 0
      BY <1>0, <3>2, DequeueUnsent
    <3> QED BY <1>0, <3>S, <3>1, <3>2, <3>3, DequeueQueued, SentKept
  <2>3. CASE \E h \in HandleIds, a \in Actions : Take(t, h, a)
    <3> PICK h \in HandleIds, a \in Actions : Take(t, h, a) BY <2>3
    <3>1. /\ h \in table /\ table' = table \ {h} /\ taken' = [taken EXCEPT ![t] = h]
          /\ stage' = [stage EXCEPT ![t] = "taken"] /\ UNCHANGED <<obs, sent, queue, pc, held>>
      BY DEF Take
    <3>2. sent[obs[h]] = 0 BY <3>1 DEF SentAtMostOnce
    <3>3. SentAtMostOnce' BY <3>1 DEF SentAtMostOnce
    <3>4. UnsentInv' BY <1>0, <3>1, <3>2 DEF UnsentInv, Queued
    <3> QED BY <3>3, <3>4
  <2>4. CASE CaptureStart(t)
    BY <1>0, <2>4, SentKeptQuietly DEF CaptureStart
  <2>5. CASE CaptureStop(t)
    BY <1>0, <2>5, SentKeptQuietly DEF CaptureStop, Enter
  <2>6. CASE StartProcessingWorker(t)
    BY <1>0, <2>6, SentKeptQuietly DEF StartProcessingWorker
  <2>7. CASE Shutdown(t)
    BY <1>0, <2>7, SentKeptQuietly DEF Shutdown, Enter
  <2> QED BY <1>3, <2>1, <2>2, <2>3, <2>4, <2>5, <2>6, <2>7 DEF Request
<1>4. ASSUME CaptureLoop \/ WorkerLoop PROVE (SentAtMostOnce /\ UnsentInv)'
  <2>1. CASE CaptureRecv
    BY <1>0, <2>1, SentKeptQuietly DEF CaptureRecv
  <2>2. CASE CaptureRecvError
    BY <1>0, <2>2, SentKeptQuietly DEF CaptureRecvError
  <2>3. CASE CaptureTest
    BY <1>0, <2>3, SentKeptQuietly DEF CaptureTest
  <2>4. CASE WorkerRead
    <3>S. \A u \in Hosts : stage'[u] = "taken" => stage[u] = "taken"
      BY <1>0, <2>4 DEF WorkerRead
    <3>1. UNCHANGED <<table, obs, taken, sent>> BY <2>4 DEF WorkerRead
    <3>2. CASE UNCHANGED vars BY <3>S, <3>1, <3>2, SentKeptQuietly
    <3>3. CASE Dequeue(Processor)
      <4>1. \A u \in Threads : pc'[u] \in {"dequeued", "processing"} => sent[held'[u]] = 0
        BY <1>0, <3>3, DequeueUnsent
      <4> QED BY <1>0, <3>S, <3>1, <3>3, <4>1, DequeueQueued, SentKept
    <3> QED BY <2>4, <3>2, <3>3 DEF WorkerRead
  <2>5. CASE WorkerTest
    BY <1>0, <2>5, SentKeptQuietly DEF WorkerTest
  <2> QED BY <1>0, <1>1, <1>4, <2>1, <2>2, <2>3, <2>4, <2>5 DEF CaptureLoop, CaptureWorks, WorkerLoop
<1>5. CASE UNCHANGED dataVars BY <1>5 DEF dataVars, SentAtMostOnce, UnsentInv, Queued
<1> QED BY <1>1, <1>2, <1>3, <1>4, <1>5 DEF DataNext

\* Nothing has happened yet: no call, no handle, nothing sent.
LEMMA DataInitInv == DataInit => DataInv
<1> SUFFICES ASSUME DataInit PROVE DataInv
  OBVIOUS
<1> USE BusAssumption, HandlesAssumption DEF DataInit
<1>1. Init BY DEF DataInit
<1>2. LiveInv /\ ~cleared BY <1>1, InitInv DEF BusInv, Init
<1>3. DataTypeOK
  <2>1. CallTypes BY DEF CallTypes, Calls, Loops, Stages
  <2>2. FlagTypes BY DEF FlagTypes
  <2>3. HandleTypes BY DEF HandleTypes, HandleIds
  <2>4. SourceTypes BY DEF SourceTypes
  <2>5. CountTypes BY DEF CountTypes
  <2> QED BY <2>1, <2>2, <2>3, <2>4, <2>5 DEF DataTypeOK
<1>4. CallInv BY DEF CallInv, Locked, Publishing, Calls, Actions
<1>5. InFlight = {} /\ Outstanding = {} BY DEF InFlight, Outstanding
<1>6. OneHandlePerPacket /\ FreshHandles
  BY <1>1, <1>5 DEF OneHandlePerPacket, FreshHandles, Init
<1>7. SentAtMostOnce BY DEF SentAtMostOnce
<1>8. UnsentInv BY <1>1 DEF UnsentInv, Init, Queued
<1> QED BY <1>2, <1>3, <1>4, <1>6, <1>7, <1>8 DEF DataInv

\* Every step of the data path keeps the inductive invariant.
LEMMA DataStepInv == DataInv /\ [DataNext]_dataVars => DataInv'
<1> SUFFICES ASSUME DataInv, [DataNext]_dataVars PROVE DataInv'
  OBVIOUS
<1>1. [Next]_vars BY StepsAreBusSteps
<1>2. ~cleared'
  BY <1>1, HandlesAssumption
  DEF DataInv, DataOps, Next, vars, Step, PublishLock, PublishEnqueue, PublishInsert, Dequeue,
      TakeProcessing, ReleaseProcessing, TransferToHost, RequeueToEngine, RequeueEnqueue,
      RequeueToBus, RequeueUndo, IntoEngine, IntoRelease, ClearQueue, ClearOwnership,
      ReleaseHost, Close
<1>3. LiveInv' BY <1>1, <1>2, StepLive DEF DataInv
<1>4. DataTypeOK'
  BY StepCallTypes, StepFlagTypes, StepHandleTypes, StepSourceTypes, StepCountTypes
  DEF DataTypeOK
<1> QED BY <1>2, <1>3, <1>4, StepCall, StepHandles, StepSent DEF DataInv

-----------------------------------------------------------------------------
\* The data path satisfies its inductive invariant in every reachable state.
THEOREM DataInvariant == DataSpec => []DataInv
<1>1. DataInit => DataInv BY DataInitInv
<1>2. DataInv /\ [DataNext]_dataVars => DataInv' BY DataStepInv
<1> QED BY <1>1, <1>2, PTL DEF DataSpec

\* Type correctness of the data path's own state.
THEOREM DataTypesCorrect == DataSpec => []DataTypeOK
<1>1. DataInv => DataTypeOK BY DEF DataInv
<1> QED BY <1>1, DataInvariant, PTL

\* The data path uses the Packet Bus only through its operations: whatever the
\* bus guarantees for every caller it guarantees here (publish, try_read,
\* transfer_to_host, release_host as called from api.rs and capture.rs).
THEOREM DataPathUsesBus == DataSpec => Spec
<1>1. DataInit => Init BY DEF DataInit
<1>2. DataInv /\ [DataNext]_dataVars => [Next]_vars BY StepsAreBusSteps
<1> QED BY <1>1, <1>2, DataInvariant, PTL DEF DataSpec, Spec

\* Every Host-owned packet has exactly one handle, and every handle a packet,
\* whatever the interleaving of actions, reads and shutdown.
THEOREM HandlesMatchPackets == DataSpec => []OneHandlePerPacket
<1>1. DataInv => OneHandlePerPacket BY DEF DataInv
<1> QED BY <1>1, DataInvariant, PTL

\* A packet is sent back to the network at most once, and never again once its
\* handle is in the table (packet_pass, packet_modify, packet_reinject).
THEOREM NoDoubleSend == DataSpec => []SentAtMostOnce
<1>1. DataInv => SentAtMostOnce BY DEF DataInv
<1> QED BY <1>1, DataInvariant, PTL

-----------------------------------------------------------------------------
(* Shutdown and reads.                                                     *)

\* What the bus operation a thread is in, its call and its stage say together.
Fits(p, c, s) ==
    /\ p \in {"idle", "pub_locked", "pub_enqueued", "dequeued", "processing"}
    /\ p = "pub_locked" <=> s = "publishing"
    /\ p = "pub_enqueued" => s = "counting"
    /\ p \in {"dequeued", "processing"} <=> s \in {"busy", "done"}
    /\ s = "done" => p = "processing" /\ c # "shutdown"
    /\ s \in {"publishing", "counting"} => c \in {"inject", "capture"}
    /\ s \in {"busy", "done"} => c \in {"read", "process", "worker", "shutdown"}
    /\ c = "inject" => s \in {"start", "publishing", "counting"}
    /\ c \in {"read", "process"} => s \in {"busy", "done"}

\* A worker thread that runs has a join handle.
StageInv ==
    /\ \A t \in Threads : Fits(pc[t], call[t], stage[t])
    /\ call[Capturer] # "none" => capThread
    /\ call[Processor] # "none" => procThread

\* The observation is in the queue, or a reader has just popped it.
InTransit(id) == Queued(id) \/ \E t \in Threads : pc[t] = "dequeued" /\ held[t] = id

\* The data path never requeues, so a Bus record, too, belongs to a live value.
BusRecords ==
    /\ \A id \in Ids : own[id] \in {NoRecord, "Bus", "Processing", "Host"}
    /\ \A id \in Ids : own[id] = "Bus" => InTransit(id)
    /\ \A t \in Threads : pc[t] = "pub_enqueued" => InTransit(held[t])

\* How far a shutdown has got: after begin_shutdown the workers are joined and
\* the bus is closed, and until the drain is over its caller keeps GLOBAL_ENGINE.
DownInv ==
    /\ ~running => closed /\ call[Capturer] = "none" /\ call[Processor] = "none"
    /\ ~running => queue = <<>> \/ \E t \in Hosts : call[t] = "shutdown"
    /\ \A t \in Hosts : At(t, "shutdown", "join_worker") => call[Capturer] = "none"
    /\ ReadsWhileRunning

ResolveInv == StageInv /\ BusRecords /\ ConsumerRecordsAreLive /\ DownInv

\* With the ownership mutex free, the transfer after a dequeue is never refused.
LEMMA TakeNotRefused ==
    ASSUME DataInv, StageInv, NEW t \in Threads, pc[t] = "dequeued", olock = None
    PROVE  CanMove(held[t], "Bus", "Processing")
<1>1. BusSide(held[t]) BY DEF DataInv, LiveInv, BusSideInv
<1>2. \A u \in Threads : pc[u] \notin {"pub_enqueued", "rq_enqueued"}
  BY BusAssumption DEF DataInv, LiveInv, LockInv, StageInv, Fits
<1>3. own[held[t]] = "Bus" BY <1>1, <1>2 DEF BusSide
<1> QED BY <1>3 DEF CanMove, TransitionOwnership, Handoffs

\* Nor is any transfer by the thread that is processing.
LEMMA ProcessingNotRefused ==
    ASSUME DataInv, NEW t \in Threads, pc[t] = "processing"
    PROVE  CanMove(held[t], "Processing", "Host") /\ CanMove(held[t], "Processing", "Released")
<1>1. own[held[t]] = "Processing" BY DEF DataInv, LiveInv, OwnerMatches
<1> QED BY <1>1 DEF CanMove, TransitionOwnership, Handoffs, IsActive

\* A step that moves one thread.
LEMMA OneThreadMoves ==
    ASSUME StageInv, NEW t \in Threads, Fits(pc'[t], call'[t], stage'[t]),
           \A u \in Threads \ {t} : pc'[u] = pc[u] /\ call'[u] = call[u] /\ stage'[u] = stage[u],
           call'[Capturer] # "none" => capThread',
           call'[Processor] # "none" => procThread'
    PROVE  StageInv'
  BY DEF StageInv

\* A call that returns, or a loop that goes round, has left the bus.
LEMMA ReturnMoves ==
    ASSUME DataInv, StageInv, NEW t \in Threads, Return(t), UNCHANGED slotVars,
           pc'[t] = "idle", \A u \in Threads \ {t} : pc'[u] = pc[u]
    PROVE  StageInv'
<1> USE HandlesAssumption DEF DataInv, DataTypeOK, CallTypes, CallInv, slotVars
<1>1. CASE t \in Hosts
  <2>1. call' = [call EXCEPT ![t] = "none"] /\ stage' = [stage EXCEPT ![t] = "start"]
        /\ t # Capturer /\ t # Processor
    BY <1>1 DEF Return
  <2> QED BY <2>1, OneThreadMoves DEF StageInv, Fits
<1>2. CASE t \notin Hosts
  <2>1. UNCHANGED call /\ stage' = [stage EXCEPT ![t] = "test"] /\ call[t] \in {"none", "capture", "worker"}
    BY <1>2 DEF Return, MoveTo
  <2> QED BY <2>1, OneThreadMoves DEF StageInv, Fits
<1> QED BY <1>1, <1>2

\* Every step keeps a thread's place in the bus and the stage of its call together.
LEMMA StepStage ==
    ASSUME DataInv, StageInv, [DataNext]_dataVars
    PROVE  StageInv'
<1> USE DEF DataInv, DataTypeOK, CallTypes, CallInv, StageInv, Fits, LiveInv, TypeOK, Goto, MoveTo, At, Actions, slotVars, vars
<1>0. /\ \A t \in Hosts : t \in Threads /\ t # Capturer /\ t # Processor
      /\ Capturer \in Threads /\ Processor \in Threads
  BY HandlesAssumption
<1>1. ASSUME NEW t \in Threads, Proceed(t) PROVE StageInv'
  <2>1. CASE Publish(t)
    <3>0. pc[t] = "idle" /\ Publishing(t) /\ UNCHANGED slotVars BY <2>1 DEF Publish, Publishing
    <3>1. CASE Return(t) /\ UNCHANGED vars BY <3>0, <3>1, ReturnMoves
    <3>2. CASE PublishLock(t, wanted[t]) /\ MoveTo(t, "publishing")
      BY <3>0, <3>2, OneThreadMoves DEF PublishLock, Publishing
    <3> QED BY <2>1, <3>1, <3>2 DEF Publish
  <2>2. CASE PublishQueue(t)
    <3>0. pc[t] = "pub_locked" /\ Publishing(t) /\ UNCHANGED slotVars BY <2>2 DEF PublishQueue, PublishEnqueue
    <3>1. CASE ~Accepts
      <4>1. Return(t) /\ pc' = [pc EXCEPT ![t] = "idle"]
        BY <2>2, <3>1 DEF PublishQueue, PublishEnqueue
      <4> QED BY <3>0, <4>1, ReturnMoves
    <3>2. CASE Accepts
      <4>1. MoveTo(t, "counting") /\ pc' = [pc EXCEPT ![t] = "pub_enqueued"]
        BY <2>2, <3>2 DEF PublishQueue, PublishEnqueue
      <4> QED BY <3>0, <4>1, OneThreadMoves DEF Publishing
    <3> QED BY <3>1, <3>2
  <2>3. CASE PublishRecord(t)
    BY <1>0, <2>3, OneThreadMoves DEF PublishRecord, Publishing, PublishInsert
  <2>4. CASE CountReceived(t)
    BY <2>4, ReturnMoves DEF CountReceived
  <2>5. CASE TakeForProcessing(t)
    <3>1. pc[t] = "dequeued" /\ olock = None /\ TakeProcessing(t)
      BY <2>5 DEF TakeForProcessing, TakeProcessing
    <3>2. CanMove(held[t], "Bus", "Processing") BY <3>1, TakeNotRefused
    <3>3. pc' = [pc EXCEPT ![t] = "processing"] /\ UNCHANGED <<call, stage, capThread, procThread>>
      BY <2>5, <3>1, <3>2 DEF TakeForProcessing, TakeProcessing
    <3> QED BY <3>1, <3>3, OneThreadMoves
  <2>6. CASE Process(t)
    BY <1>0, <2>6, OneThreadMoves DEF Process
  <2>7. CASE Consume(t)
    <3>0. pc[t] = "processing" /\ pc' = [pc EXCEPT ![t] = "idle"] /\ UNCHANGED slotVars
      BY <2>7 DEF Consume, ReleaseProcessing
    <3>1. CASE call[t] = "shutdown"
      <4>1. MoveTo(t, "draining") BY <2>7, <3>1 DEF Consume
      <4> QED BY <3>0, <3>1, <4>1, OneThreadMoves
    <3>2. CASE call[t] # "shutdown"
      <4>1. Return(t) BY <2>7, <3>2 DEF Consume
      <4> QED BY <3>0, <4>1, ReturnMoves
    <3> QED BY <3>1, <3>2
  <2> QED BY <1>1, <2>1, <2>2, <2>3, <2>4, <2>5, <2>6, <2>7 DEF Proceed
<1>2. ASSUME NEW t \in Hosts, ProceedHost(t) PROVE StageInv'
  <2>1. CASE IngestObservation(t)
    BY <1>0, <2>1, OneThreadMoves DEF IngestObservation
  <2>2. CASE HandToHost(t)
    BY <1>0, <2>2, OneThreadMoves DEF HandToHost, Return, TransferToHost
  <2>3. CASE RefuseAction(t)
    BY <1>0, <2>3, OneThreadMoves DEF RefuseAction, Restore
  <2>4. CASE Act(t)
    BY <1>0, <2>4, OneThreadMoves DEF Act
  <2>5. CASE Release(t)
    BY <1>0, <2>5, OneThreadMoves DEF Release, Restore, ReleaseHost
  <2>6. CASE CaptureJoined(t)
    BY <1>0, <2>6, OneThreadMoves DEF CaptureJoined, Return
  <2>7. CASE ShutdownCapture(t)
    BY <1>0, <2>7, OneThreadMoves DEF ShutdownCapture
  <2>8. CASE ShutdownWorker(t)
    BY <1>0, <2>8, OneThreadMoves DEF ShutdownWorker, Close
  <2>9. CASE DrainRead(t)
    BY <1>0, <2>9, OneThreadMoves DEF DrainRead, Dequeue
  <2>10. CASE DrainDone(t)
    BY <1>0, <2>10, OneThreadMoves DEF DrainDone, Return
  <2> QED BY <1>0, <1>1, <1>2, <2>1, <2>2, <2>3, <2>4, <2>5, <2>6, <2>7, <2>8, <2>9, <2>10 DEF ProceedHost
<1>3. ASSUME NEW t \in Hosts, Request(t) PROVE StageInv'
  <2>1. CASE Inject(t)
    BY <1>0, <2>1, OneThreadMoves DEF Inject
  <2>2. CASE \E c \in {"read", "process"} : Read(t, c)
    BY <1>0, <2>2, OneThreadMoves DEF Read, Enter, Dequeue
  <2>3. CASE \E h \in HandleIds, a \in Actions : Take(t, h, a)
    BY <1>0, <2>3, OneThreadMoves DEF Take
  <2>4. CASE CaptureStart(t)
    <3>1. /\ ~capThread /\ capThread' /\ UNCHANGED <<pc, procThread>>
          /\ call' = [call EXCEPT ![Capturer] = "capture"] /\ stage' = [stage EXCEPT ![Capturer] = "test"]
      BY <2>4 DEF CaptureStart
    <3>2. call[Capturer] = "none" /\ stage[Capturer] = "start" BY <1>0, <3>1
    <3>3. pc[Capturer] = "idle" BY <1>0, <3>2
    <3> HIDE DEF CallInv
    <3> QED BY <1>0, <3>1, <3>3, HandlesAssumption, OneThreadMoves
  <2>5. CASE CaptureStop(t)
    BY <1>0, <2>5, OneThreadMoves DEF CaptureStop, Enter
  <2>6. CASE StartProcessingWorker(t)
    <3>1. /\ ~procThread /\ procThread' /\ UNCHANGED <<pc, capThread>>
          /\ call' = [call EXCEPT ![Processor] = "worker"] /\ stage' = [stage EXCEPT ![Processor] = "test"]
      BY <2>6 DEF StartProcessingWorker
    <3>2. call[Processor] = "none" /\ stage[Processor] = "start" BY <1>0, <3>1
    <3>3. pc[Processor] = "idle" BY <1>0, <3>2
    <3> HIDE DEF CallInv
    <3> QED BY <1>0, <3>1, <3>3, HandlesAssumption, OneThreadMoves
  <2>7. CASE Shutdown(t)
    BY <1>0, <2>7, OneThreadMoves DEF Shutdown, Enter
  <2> QED BY <1>3, <2>1, <2>2, <2>3, <2>4, <2>5, <2>6, <2>7 DEF Request
<1>4. ASSUME CaptureLoop \/ WorkerLoop PROVE StageInv'
  <2>1. CASE CaptureRecv
    BY <1>0, <2>1, OneThreadMoves DEF CaptureRecv
  <2>2. CASE CaptureRecvError
    BY <1>0, <2>2, OneThreadMoves DEF CaptureRecvError
  <2>3. CASE CaptureTest
    BY <1>0, <2>3, OneThreadMoves DEF CaptureTest
  <2>4. CASE WorkerRead
    BY <1>0, <2>4, OneThreadMoves DEF WorkerRead, Dequeue
  <2>5. CASE WorkerTest
    BY <1>0, <2>5, OneThreadMoves DEF WorkerTest
  <2> QED BY <1>0, <1>1, <1>4, <2>1, <2>2, <2>3, <2>4, <2>5 DEF CaptureLoop, CaptureWorks, WorkerLoop
<1>5. CASE UNCHANGED dataVars BY <1>5 DEF dataVars
<1> QED BY <1>1, <1>2, <1>3, <1>4, <1>5 DEF DataNext

\* Every bus step of the data path keeps its records with live values.
LEMMA StepBusRecords ==
    ASSUME DataInv, StageInv, BusRecords, [DataNext]_dataVars
    PROVE  BusRecords'
<1>0. [Next]_vars /\ StageInv' BY StepsAreBusSteps, StepStage
<1>a. TypeOK /\ LockInv /\ OwnerMatches BY DEF DataInv, LiveInv
<1>b. \A t \in Threads : pc'[t] \in {"idle", "pub_locked", "pub_enqueued", "dequeued", "processing"}
  BY <1>0 DEF StageInv, Fits
<1>c. \A t \in Threads : pc[t] \in {"idle", "pub_locked", "pub_enqueued", "dequeued", "processing"}
  BY DEF StageInv, Fits
<1> USE BusAssumption, <1>a, <1>c DEF TypeOK, Goto, Transferred, ReleasedFrom, CanMove, TransitionOwnership,
        Handoffs, Owners, IsActive, NoRecord
<1>k. ASSUME \A id \in Ids : InTransit(id) => InTransit(id)',
             \A id \in Ids : own'[id] # own[id] => own'[id] \in {NoRecord, "Processing", "Host"},
             \A t \in Threads : pc'[t] = "pub_enqueued" => pc[t] = "pub_enqueued" /\ held'[t] = held[t]
      PROVE  BusRecords'
  BY <1>k DEF BusRecords
<1>1. ASSUME NEW t \in Threads, Step(t) PROVE BusRecords'
  <2>1. CASE \E x \in Ids : PublishLock(t, x)
    <3>1. UNCHANGED <<queue, own>> /\ pc[t] = "idle" /\ pc' = [pc EXCEPT ![t] = "pub_locked"]
          /\ \A u \in Threads \ {t} : held'[u] = held[u]
      BY <2>1 DEF PublishLock
    <3>2. \A id \in Ids : InTransit(id) => InTransit(id)' BY <3>1 DEF InTransit, Queued
    <3> QED BY <1>k, <3>1, <3>2
  <2>2. CASE PublishEnqueue(t)
    <3>0. UNCHANGED <<own, held>> /\ pc[t] = "pub_locked" /\ held[t] \in Ids BY <2>2 DEF PublishEnqueue
    <3>1. CASE ~Accepts
      <4>1. UNCHANGED queue /\ pc' = [pc EXCEPT ![t] = "idle"] BY <2>2, <3>1 DEF PublishEnqueue
      <4>2. \A id \in Ids : InTransit(id) => InTransit(id)' BY <3>0, <4>1 DEF InTransit, Queued
      <4> QED BY <1>k, <3>0, <4>1, <4>2
    <3>2. CASE Accepts
      <4>1. queue' = Append(queue, held[t]) /\ pc' = [pc EXCEPT ![t] = "pub_enqueued"]
        BY <2>2, <3>2 DEF PublishEnqueue
      <4>2. \A id \in Ids : Queued(id)' <=> Queued(id) \/ id = held[t]
        BY <3>0, <3>2, <4>1, EnqueueFacts
      <4>3. \A id \in Ids : InTransit(id) => InTransit(id)' BY <3>0, <4>1, <4>2 DEF InTransit
      <4>4. InTransit(held[t])' BY <3>0, <4>2 DEF InTransit
      <4>5. \A u \in Threads \ {t} : pc'[u] = pc[u] BY <4>1
      <4> QED BY <3>0, <4>3, <4>4, <4>5 DEF BusRecords
    <3> QED BY <3>1, <3>2
  <2>3. CASE PublishInsert(t)
    <3>1. /\ UNCHANGED <<queue, held>> /\ own' = [own EXCEPT ![held[t]] = "Bus"]
          /\ pc' = [pc EXCEPT ![t] = "idle"] /\ pc[t] = "pub_enqueued"
      BY <2>3 DEF PublishInsert
    <3>2. \A id \in Ids : InTransit(id) => InTransit(id)' BY <3>1 DEF InTransit, Queued
    <3>3. InTransit(held[t]) BY <3>1 DEF BusRecords
    <3> QED BY <3>1, <3>2, <3>3 DEF BusRecords
  <2>4. CASE Dequeue(t)
    <3>1. /\ held' = [held EXCEPT ![t] = Head(queue)] /\ pc' = [pc EXCEPT ![t] = "dequeued"]
          /\ UNCHANGED own /\ pc[t] = "idle" /\ Head(queue) \in Ids
      BY <2>4, DequeueQueued DEF Dequeue
    <3>2. \A id \in Ids : Queued(id) => Queued(id)' \/ id = Head(queue)
      <4> SUFFICES ASSUME NEW id \in Ids, Queued(id) PROVE Queued(id)' \/ id = Head(queue)
        OBVIOUS
      <4>1. PICK j \in 1..Len(queue) : queue[j] = id BY DEF Queued
      <4>2. queue # <<>> /\ queue' = Tail(queue) BY <2>4 DEF Dequeue
      <4>3. /\ Head(queue) = queue[1] /\ Len(queue) \in Nat /\ Len(queue') = Len(queue) - 1
            /\ \A i \in 1..Len(queue') : queue'[i] = queue[i + 1]
        BY <4>2, TailFacts
      <4>4. CASE j = 1 BY <4>1, <4>3, <4>4
      <4>5. CASE j # 1
        <5>1. j - 1 \in 1..Len(queue') /\ queue'[j - 1] = id BY <4>1, <4>3, <4>5
        <5> QED BY <5>1 DEF Queued
      <4> QED BY <4>4, <4>5
    <3>3. \A id \in Ids : InTransit(id) => InTransit(id)' BY <3>1, <3>2 DEF InTransit
    <3> QED BY <1>k, <3>1, <3>3
  <2>5. CASE TakeProcessing(t)
    <3>1. pc[t] = "dequeued" /\ olock = None /\ UNCHANGED <<queue, held>> BY <2>5 DEF TakeProcessing
    <3>2. CanMove(held[t], "Bus", "Processing") BY <3>1, TakeNotRefused
    <3>3. pc' = [pc EXCEPT ![t] = "processing"] /\ own' = [own EXCEPT ![held[t]] = "Processing"]
      BY <2>5, <3>2 DEF TakeProcessing
    <3>4. \A u \in Threads : pc[u] # "pub_enqueued" BY <3>1 DEF LockInv
    <3>5. \A id \in Ids \ {held[t]} : InTransit(id) => InTransit(id)'
      BY <3>1, <3>3 DEF InTransit, Queued
    <3> QED BY <3>3, <3>4, <3>5 DEF BusRecords
  <2>6. CASE ReleaseProcessing(t) \/ TransferToHost(t)
    <3>1. UNCHANGED <<queue, held>> /\ pc[t] = "processing" /\ pc' = [pc EXCEPT ![t] = "idle"]
      BY <2>6 DEF ReleaseProcessing, TransferToHost
    <3>2. \A id \in Ids : own'[id] # own[id] => own'[id] \in {NoRecord, "Processing", "Host"}
      BY <2>6 DEF ReleaseProcessing, TransferToHost
    <3>3. \A id \in Ids : InTransit(id) => InTransit(id)' BY <3>1 DEF InTransit, Queued
    <3> QED BY <1>k, <3>1, <3>2, <3>3
  <2>7. ~RequeueToEngine(t) /\ ~IntoEngine(t) /\ ~ClearQueue(t)
    BY HandlesAssumption DEF DataOps, RequeueToEngine, IntoEngine, ClearQueue
  <2>8. ~RequeueEnqueue(t) /\ ~RequeueToBus(t) /\ ~RequeueUndo(t) /\ ~IntoRelease(t) /\ ~ClearOwnership(t)
    BY DEF RequeueEnqueue, RequeueToBus, RequeueUndo, IntoRelease, ClearOwnership
  <2> QED BY <1>1, <2>1, <2>2, <2>3, <2>4, <2>5, <2>6, <2>7, <2>8 DEF Step
<1>2. ASSUME NEW x \in Ids, ReleaseHost(x) PROVE BusRecords'
  <2>1. UNCHANGED <<queue, held, pc>> BY <1>2 DEF ReleaseHost
  <2>2. \A id \in Ids : own'[id] # own[id] => own'[id] \in {NoRecord, "Processing", "Host"}
    BY <1>2 DEF ReleaseHost
  <2>3. \A id \in Ids : InTransit(id) => InTransit(id)' BY <2>1 DEF InTransit, Queued
  <2> QED BY <1>k, <2>1, <2>2, <2>3
<1>3. CASE Close \/ UNCHANGED vars
  <2>1. UNCHANGED <<queue, held, pc, own>> BY <1>3 DEF Close, vars
  <2>3. \A id \in Ids : InTransit(id) => InTransit(id)' BY <2>1 DEF InTransit, Queued
  <2> QED BY <1>k, <2>1, <2>3
<1> QED BY <1>0, <1>1, <1>2, <1>3 DEF Next

\* Steps that end no shutdown, stop no Engine and start no worker keep DownInv.
LEMMA DownKept ==
    ASSUME DownInv, running' = running, closed => closed',
           queue' = queue \/ (queue # <<>> /\ \E t \in Hosts : call'[t] = "shutdown") \/ running,
           call'[Capturer] \in {call[Capturer], "none"}, call'[Processor] \in {call[Processor], "none"},
           \A t \in Hosts : call[t] = "shutdown" => call'[t] = "shutdown",
           \A t \in Hosts : call'[t] = "shutdown" /\ stage'[t] = "join_worker"
                              => call[t] = "shutdown" /\ stage[t] = "join_worker",
           \A t \in Hosts : call'[t] \in {"read", "process"} => running \/ call[t] \in {"read", "process"}
    PROVE  DownInv'
  BY DEF DownInv, At, ReadsWhileRunning

\* Every step keeps what a shutdown has already reached.
LEMMA StepDown ==
    ASSUME DataInv, StageInv, DownInv, [DataNext]_dataVars
    PROVE  DownInv'
<1> USE DEF DataInv, DataTypeOK, CallTypes, CallInv, Locked, MoveTo, At, Actions, engineVars, vars
<1>0. /\ \A t \in Hosts : t \in Threads /\ t # Capturer /\ t # Processor
      /\ Capturer \in Threads /\ Processor \in Threads
  BY HandlesAssumption
<1>1. ASSUME NEW t \in Threads, Proceed(t) PROVE DownInv'
  <2>1. CASE Publish(t)
    BY <1>0, <2>1, DownKept DEF Publish, Return, Publishing, PublishLock
  <2>2. CASE PublishQueue(t)
    <3>1. UNCHANGED <<running, closed>> /\ call[t] \in {"inject", "capture"}
          /\ (UNCHANGED queue \/ ~closed)
      BY <2>2 DEF PublishQueue, PublishEnqueue, Accepts, Publishing
    <3>2. UNCHANGED queue \/ running BY <3>1 DEF DownInv
    <3>3. Return(t) \/ MoveTo(t, "counting") BY <2>2 DEF PublishQueue
    <3> QED BY <1>0, <3>1, <3>2, <3>3, DownKept DEF Return
  <2>3. CASE PublishRecord(t)
    BY <1>0, <2>3, DownKept DEF PublishRecord, Publishing, PublishInsert
  <2>4. CASE CountReceived(t)
    BY <1>0, <2>4, DownKept DEF CountReceived, Return, Publishing
  <2>5. CASE TakeForProcessing(t)
    <3>1. pc[t] = "dequeued" /\ olock = None /\ UNCHANGED <<running, queue, closed>>
      BY <2>5 DEF TakeForProcessing, TakeProcessing
    <3>2. UNCHANGED <<call, stage>> BY <2>5, <3>1, TakeNotRefused DEF TakeForProcessing
    <3> QED BY <3>1, <3>2, DownKept
  <2>6. CASE Process(t)
    BY <1>0, <2>6, DownKept DEF Process
  <2>7. CASE Consume(t)
    <3>1. UNCHANGED <<running, closed, queue>> BY <2>7 DEF Consume, ReleaseProcessing
    <3>2. CASE call[t] = "shutdown"
      <4>1. MoveTo(t, "draining") BY <2>7, <3>2 DEF Consume
      <4> QED BY <1>0, <3>1, <4>1, DownKept
    <3>3. CASE call[t] # "shutdown"
      <4>1. Return(t) BY <2>7, <3>3 DEF Consume
      <4> QED BY <1>0, <3>1, <3>3, <4>1, DownKept DEF Return
    <3> QED BY <3>2, <3>3
  <2> QED BY <1>1, <2>1, <2>2, <2>3, <2>4, <2>5, <2>6, <2>7 DEF Proceed
<1>2. ASSUME NEW t \in Hosts, ProceedHost(t) PROVE DownInv'
  <2>1. CASE IngestObservation(t)
    BY <1>0, <2>1, DownKept DEF IngestObservation
  <2>2. CASE HandToHost(t)
    BY <1>0, <2>2, DownKept DEF HandToHost, Return, TransferToHost
  <2>3. CASE RefuseAction(t)
    BY <1>0, <2>3, DownKept DEF RefuseAction, Restore
  <2>4. CASE Act(t)
    BY <1>0, <2>4, DownKept DEF Act
  <2>5. CASE Release(t)
    BY <1>0, <2>5, DownKept DEF Release, Restore, ReleaseHost
  <2>6. CASE CaptureJoined(t)
    BY <1>0, <2>6, DownKept DEF CaptureJoined, Return
  <2>7. CASE ShutdownCapture(t)
    <3>1. /\ call[Capturer] = "none" /\ UNCHANGED <<running, closed, queue, call>>
          /\ stage' = [stage EXCEPT ![t] = "join_worker"]
      BY <2>7 DEF ShutdownCapture
    <3> QED BY <3>1 DEF DownInv, ReadsWhileRunning
  <2>8. CASE ShutdownWorker(t)
    <3>1. /\ call[t] = "shutdown" /\ stage[t] = "join_worker" /\ call[Processor] = "none" /\ closed'
          /\ UNCHANGED call /\ stage' = [stage EXCEPT ![t] = "draining"]
      BY <2>8 DEF ShutdownWorker, Close
    <3>2. \A u \in Hosts \ {t} : call[u] \notin {"shutdown", "read", "process"} BY <3>1
    <3>3. call[Capturer] = "none" BY <3>1 DEF DownInv
    <3> QED BY <1>0, <3>1, <3>2, <3>3 DEF DownInv, ReadsWhileRunning
  <2>9. CASE DrainRead(t)
    <3>1. /\ call[t] = "shutdown" /\ queue # <<>> /\ UNCHANGED <<running, closed, call>>
          /\ stage' = [stage EXCEPT ![t] = "busy"]
      BY <2>9 DEF DrainRead, Dequeue
    <3> QED BY <1>0, <3>1, DownKept
  <2>10. CASE DrainDone(t)
    <3>1. /\ call[t] = "shutdown" /\ queue = <<>> /\ UNCHANGED <<running, closed, queue>>
          /\ call' = [call EXCEPT ![t] = "none"] /\ stage' = [stage EXCEPT ![t] = "start"]
      BY <2>10 DEF DrainDone, Return
    <3> QED BY <1>0, <3>1 DEF DownInv, ReadsWhileRunning
  <2> QED BY <1>0, <1>1, <1>2, <2>1, <2>2, <2>3, <2>4, <2>5, <2>6, <2>7, <2>8, <2>9, <2>10 DEF ProceedHost
<1>3. ASSUME NEW t \in Hosts, Request(t) PROVE DownInv'
  <2>1. CASE Inject(t)
    BY <1>0, <2>1, DownKept DEF Inject
  <2>2. CASE \E c \in {"read", "process"} : Read(t, c)
    <3>1. /\ glock = None /\ queue # <<>> /\ call[t] = "none" /\ UNCHANGED <<running, closed>>
          /\ \E c \in {"read", "process"} : call' = [call EXCEPT ![t] = c]
          /\ stage' = [stage EXCEPT ![t] = "busy"]
      BY <2>2 DEF Read, Enter, Dequeue
    <3>2. \A u \in Hosts : call[u] # "shutdown" BY <1>0, <3>1, BusAssumption
    <3>3. running BY <3>1, <3>2 DEF DownInv
    <3> QED BY <1>0, <3>1, <3>3, DownKept
  <2>3. CASE \E h \in HandleIds, a \in Actions : Take(t, h, a)
    BY <1>0, <2>3, DownKept DEF Take
  <2>4. CASE CaptureStart(t)
    <3>1. /\ glock = None /\ running /\ UNCHANGED <<running, closed, queue>>
          /\ \A u \in Hosts : call'[u] = call[u] /\ stage'[u] = stage[u]
      BY <1>0, <2>4 DEF CaptureStart
    <3>2. \A u \in Hosts : call[u] # "shutdown" BY <1>0, <3>1, BusAssumption
    <3> QED BY <3>1, <3>2 DEF DownInv, ReadsWhileRunning
  <2>5. CASE CaptureStop(t)
    BY <1>0, <2>5, DownKept DEF CaptureStop, Enter
  <2>6. CASE StartProcessingWorker(t)
    <3>1. /\ glock = None /\ running /\ UNCHANGED <<running, closed, queue>>
          /\ \A u \in Hosts : call'[u] = call[u] /\ stage'[u] = stage[u]
      BY <1>0, <2>6 DEF StartProcessingWorker
    <3>2. \A u \in Hosts : call[u] # "shutdown" BY <1>0, <3>1, BusAssumption
    <3> QED BY <3>1, <3>2 DEF DownInv, ReadsWhileRunning
  <2>7. CASE Shutdown(t)
    BY <1>0, <2>7, DownKept DEF Shutdown, Enter
  <2> QED BY <1>3, <2>1, <2>2, <2>3, <2>4, <2>5, <2>6, <2>7 DEF Request
<1>4. ASSUME CaptureLoop \/ WorkerLoop PROVE DownInv'
  <2>1. CASE CaptureRecv
    BY <1>0, <2>1, DownKept DEF CaptureRecv
  <2>2. CASE CaptureRecvError
    BY <1>0, <2>2, DownKept DEF CaptureRecvError
  <2>3. CASE CaptureTest
    BY <1>0, <2>3, DownKept DEF CaptureTest
  <2>4. CASE WorkerRead
    <3>1. UNCHANGED <<running, closed, call>> /\ call[Processor] = "worker"
          /\ \A u \in Hosts : stage'[u] = stage[u]
      BY <1>0, <2>4 DEF WorkerRead, Dequeue
    <3>2. running BY <3>1 DEF DownInv
    <3> QED BY <3>1, <3>2, DownKept
  <2>5. CASE WorkerTest
    BY <1>0, <2>5, DownKept DEF WorkerTest
  <2> QED BY <1>0, <1>1, <1>4, <2>1, <2>2, <2>3, <2>4, <2>5 DEF CaptureLoop, CaptureWorks, WorkerLoop
<1>5. CASE UNCHANGED dataVars BY <1>5, DownKept DEF dataVars
<1> QED BY <1>1, <1>2, <1>3, <1>4, <1>5 DEF DataNext

\* ResolveInv holds in every reachable state of the data path.
THEOREM ResolveInvariant == DataSpec => []ResolveInv
<1>1. DataInit => ResolveInv
  <2> SUFFICES ASSUME DataInit PROVE ResolveInv
    OBVIOUS
  <2>1. Init BY DEF DataInit
  <2>2. StageInv /\ DownInv
    BY <2>1, HandlesAssumption DEF DataInit, Init, StageInv, Fits, DownInv, At, ReadsWhileRunning
  <2>3. BusRecords BY <2>1 DEF Init, BusRecords, NoRecord
  <2>4. ConsumerRecordsAreLive BY <2>1 DEF Init, ConsumerRecordsAreLive, NoRecord
  <2> QED BY <2>2, <2>3, <2>4 DEF ResolveInv
<1>2. DataInv /\ ResolveInv /\ [DataNext]_dataVars => ResolveInv'
  <2> SUFFICES ASSUME DataInv, ResolveInv, [DataNext]_dataVars PROVE ResolveInv'
    OBVIOUS
  <2>1. [Next]_vars /\ BusInv BY StepsAreBusSteps DEF DataInv, BusInv, LiveInv
  <2>2. ConsumerRecordsAreLive' BY <2>1, StepRecordsLive DEF ResolveInv
  <2> QED BY <2>2, StepStage, StepBusRecords, StepDown DEF ResolveInv
<1> QED BY <1>1, <1>2, DataInvariant, PTL DEF DataSpec

\* Once a shutdown has given GLOBAL_ENGINE back, the workers are gone, the bus is
\* closed and empty, and only the Host's packets are still recorded (shutdown).
THEOREM ShutdownLeavesHostPackets == DataSpec => []ShutdownResolvesPackets
<1>1. DataInv /\ ResolveInv => ShutdownResolvesPackets
  <2> SUFFICES ASSUME DataInv, ResolveInv, ~running, glock = None
               PROVE  /\ closed /\ queue = <<>>
                      /\ call[Capturer] = "none" /\ call[Processor] = "none"
                      /\ \A id \in Ids : own[id] \in {NoRecord, "Host"}
    BY DEF ShutdownResolvesPackets
  <2>1. \A t \in Hosts : ~Locked(t)
    BY BusAssumption, HandlesAssumption DEF DataInv, CallInv
  <2>2. queue = <<>> /\ closed /\ call[Capturer] = "none" /\ call[Processor] = "none"
    BY <2>1 DEF ResolveInv, DownInv, Locked
  <2>3. \A t \in Threads : stage[t] \notin {"busy", "done"}
    BY <2>1, <2>2, HandlesAssumption DEF ResolveInv, StageInv, Fits, Locked, DataInv, CallInv, Calls, Actions
  <2>4. \A t \in Threads : pc[t] \notin {"dequeued", "processing"}
    BY <2>3 DEF ResolveInv, StageInv, Fits
  <2>5. \A id \in Ids : ~InTransit(id) BY <2>2, <2>4 DEF InTransit, Queued
  <2> QED
    BY <2>2, <2>4, <2>5 DEF ResolveInv, BusRecords, ConsumerRecordsAreLive, DataInv
<1> QED BY <1>1, DataInvariant, ResolveInvariant, PTL

\* A Host call works on a packet only while the Engine runs, although packet_read
\* does not ask: when the Engine is down there is nothing left to read.
THEOREM NoReadAfterShutdown == DataSpec => []ReadsWhileRunning
<1>1. ResolveInv => ReadsWhileRunning BY DEF ResolveInv, DownInv
<1> QED BY <1>1, ResolveInvariant, PTL

-----------------------------------------------------------------------------
(* Accounting.  Every step moves at most one thread, so it changes each of the   *)
(* counted sets by at most one element, and the counters to match.          *)

Waiting  == Publishers({"start", "publishing"})
Counting == Publishers({"counting"})
Done     == {t \in Threads : stage[t] = "done"}

Refused == stats["saturated"] + stats["errors"]
Gone    == stats["forwarded"] + stats["dropped"] + ended

\* The inductive form of Accounted.  What has been processed is done, with the
\* Host, or gone: that is what keeps it below what has been received.
AccountInv ==
    /\ IsFiniteSet(Waiting) /\ IsFiniteSet(Counting) /\ IsFiniteSet(Consumers)
    /\ IsFiniteSet(Done) /\ IsFiniteSet(host)
    /\ offered = Cardinality(Waiting) + Refused + Len(queue) + Cardinality(Consumers)
                 + Cardinality(host) + Gone
    /\ offered = stats["received"] + Refused + Cardinality(Waiting) + Cardinality(Counting)
    /\ stats["processed"] <= Cardinality(Done) + Cardinality(host) + Gone

\* What one thread contributes to each of the four sets of threads.
One(b) == IF b THEN 1 ELSE 0
W(c, s) == One(c \in {"inject", "capture"} /\ s \in {"start", "publishing"})
C(c, s) == One(c \in {"inject", "capture"} /\ s = "counting")
K(p)    == One(p \in {"dequeued", "processing"})
D(s)    == One(s = "done")

\* Two sets that differ at most in x.
LEMMA OneMember ==
    ASSUME NEW S, NEW T, NEW x, IsFiniteSet(S), \A u : u # x => (u \in S <=> u \in T)
    PROVE  /\ IsFiniteSet(T) /\ Cardinality(S) \in Nat /\ Cardinality(T) \in Nat
           /\ Cardinality(T) = Cardinality(S) + One(x \in T) - One(x \in S)
<1>0. Cardinality(S) \in Nat BY FS_CardinalityType
<1>1. CASE x \in T
  <2>1. T = S \cup {x} BY <1>1
  <2>2. IsFiniteSet(T) /\ Cardinality(T) = IF x \in S THEN Cardinality(S) ELSE Cardinality(S) + 1
    BY <2>1, FS_AddElement
  <2> QED BY <1>0, <1>1, <2>2 DEF One
<1>2. CASE x \notin T
  <2>1. T = S \ {x} BY <1>2
  <2>2. IsFiniteSet(T) /\ Cardinality(T) = IF x \in S THEN Cardinality(S) - 1 ELSE Cardinality(S)
    BY <2>1, FS_RemoveElement
  <2>3. Cardinality(T) \in Nat BY <2>2, FS_CardinalityType
  <2> QED BY <1>0, <1>2, <2>2, <2>3 DEF One
<1> QED BY <1>1, <1>2

\* Only thread t moves in this step.
Only(t) == \A u \in Threads : u # t => pc'[u] = pc[u] /\ call'[u] = call[u] /\ stage'[u] = stage[u]

\* The sets of threads follow the thread that moves.
LEMMA ThreadCounts ==
    ASSUME AccountInv, NEW t \in Threads, Only(t)
    PROVE  /\ IsFiniteSet(Waiting') /\ IsFiniteSet(Counting') /\ IsFiniteSet(Consumers') /\ IsFiniteSet(Done')
           /\ Cardinality(Waiting) \in Nat /\ Cardinality(Counting) \in Nat
           /\ Cardinality(Consumers) \in Nat /\ Cardinality(Done) \in Nat
           /\ Cardinality(Waiting') = Cardinality(Waiting) + (W(call'[t], stage'[t]) - W(call[t], stage[t]))
           /\ Cardinality(Counting') = Cardinality(Counting) + (C(call'[t], stage'[t]) - C(call[t], stage[t]))
           /\ Cardinality(Consumers') = Cardinality(Consumers) + (K(pc'[t]) - K(pc[t]))
           /\ Cardinality(Done') = Cardinality(Done) + (D(stage'[t]) - D(stage[t]))
<1> USE DEF AccountInv
<1>1. /\ \A u : u # t => (u \in Waiting <=> u \in Waiting')
      /\ t \in Waiting <=> (call[t] \in {"inject", "capture"} /\ stage[t] \in {"start", "publishing"})
      /\ t \in Waiting' <=> (call'[t] \in {"inject", "capture"} /\ stage'[t] \in {"start", "publishing"})
  BY DEF Only, Waiting, Publishers, Publishing
<1>2. /\ \A u : u # t => (u \in Counting <=> u \in Counting')
      /\ t \in Counting <=> (call[t] \in {"inject", "capture"} /\ stage[t] = "counting")
      /\ t \in Counting' <=> (call'[t] \in {"inject", "capture"} /\ stage'[t] = "counting")
  BY DEF Only, Counting, Publishers, Publishing
<1>3. /\ \A u : u # t => (u \in Consumers <=> u \in Consumers')
      /\ t \in Consumers <=> pc[t] \in {"dequeued", "processing"}
      /\ t \in Consumers' <=> pc'[t] \in {"dequeued", "processing"}
  BY DEF Only, Consumers
<1>4. /\ \A u : u # t => (u \in Done <=> u \in Done')
      /\ t \in Done <=> stage[t] = "done"
      /\ t \in Done' <=> stage'[t] = "done"
  BY DEF Only, Done
<1>5. IsFiniteSet(Waiting') /\ Cardinality(Waiting) \in Nat
      /\ Cardinality(Waiting') = Cardinality(Waiting) + One(t \in Waiting') - One(t \in Waiting)
  BY <1>1, OneMember
<1>6. IsFiniteSet(Counting') /\ Cardinality(Counting) \in Nat
      /\ Cardinality(Counting') = Cardinality(Counting) + One(t \in Counting') - One(t \in Counting)
  BY <1>2, OneMember
<1>7. IsFiniteSet(Consumers') /\ Cardinality(Consumers) \in Nat
      /\ Cardinality(Consumers') = Cardinality(Consumers) + One(t \in Consumers') - One(t \in Consumers)
  BY <1>3, OneMember
<1>8. IsFiniteSet(Done') /\ Cardinality(Done) \in Nat
      /\ Cardinality(Done') = Cardinality(Done) + One(t \in Done') - One(t \in Done)
  BY <1>4, OneMember
<1> QED BY <1>1, <1>2, <1>3, <1>4, <1>5, <1>6, <1>7, <1>8 DEF W, C, K, D, One

\* The books balance over a step of t.
Balanced(t) ==
    /\ offered' - offered = (W(call'[t], stage'[t]) - W(call[t], stage[t])) + (Refused' - Refused)
                            + (Len(queue') - Len(queue)) + (K(pc'[t]) - K(pc[t]))
                            + (Cardinality(host') - Cardinality(host)) + (Gone' - Gone)
    /\ offered' - offered = (stats'["received"] - stats["received"]) + (Refused' - Refused)
                            + (W(call'[t], stage'[t]) - W(call[t], stage[t]))
                            + (C(call'[t], stage'[t]) - C(call[t], stage[t]))
    /\ stats'["processed"] - stats["processed"] <=
           (D(stage'[t]) - D(stage[t])) + (Cardinality(host') - Cardinality(host)) + (Gone' - Gone)

\* The counted quantities are numbers.
LEMMA CountsAreNumbers ==
    ASSUME DataInv
    PROVE  /\ offered \in Nat /\ Refused \in Nat /\ Gone \in Nat /\ Len(queue) \in Nat
           /\ stats["received"] \in Nat /\ stats["processed"] \in Nat
<1>1. stats \in [Counters -> Nat] /\ ended \in Nat /\ offered \in Nat
  BY DEF DataInv, DataTypeOK, CountTypes, SourceTypes
<1>2. \A c \in Counters : stats[c] \in Nat BY <1>1
<1>3. queue \in Seq(Ids) BY DEF DataInv, LiveInv, TypeOK
<1> QED BY <1>1, <1>2, <1>3 DEF Refused, Gone, Counters

\* A step whose books balance keeps the account.
LEMMA AccountMoves ==
    ASSUME DataInv, DataInv', AccountInv, NEW t \in Threads, Only(t), IsFiniteSet(host'), Balanced(t)
    PROVE  AccountInv'
<1>1. /\ offered \in Nat /\ Refused \in Nat /\ Gone \in Nat /\ Len(queue) \in Nat
      /\ stats["received"] \in Nat /\ stats["processed"] \in Nat
  BY CountsAreNumbers
<1>2. /\ offered' \in Nat /\ Refused' \in Nat /\ Gone' \in Nat /\ Len(queue') \in Nat
      /\ stats'["received"] \in Nat /\ stats'["processed"] \in Nat
  <2>1. stats' \in [Counters -> Nat] /\ ended' \in Nat /\ offered' \in Nat
    BY DEF DataInv, DataTypeOK, CountTypes, SourceTypes
  <2>2. \A c \in Counters : stats'[c] \in Nat BY <2>1
  <2>3. queue' \in Seq(Ids) BY DEF DataInv, LiveInv, TypeOK
  <2> QED BY <2>1, <2>2, <2>3 DEF Refused, Gone, Counters
<1>3. Cardinality(host) \in Nat /\ Cardinality(host') \in Nat
  BY FS_CardinalityType DEF AccountInv
<1>4. /\ IsFiniteSet(Waiting') /\ IsFiniteSet(Counting') /\ IsFiniteSet(Consumers') /\ IsFiniteSet(Done')
      /\ Cardinality(Waiting) \in Nat /\ Cardinality(Counting) \in Nat
      /\ Cardinality(Consumers) \in Nat /\ Cardinality(Done) \in Nat
      /\ Cardinality(Waiting') = Cardinality(Waiting) + (W(call'[t], stage'[t]) - W(call[t], stage[t]))
      /\ Cardinality(Counting') = Cardinality(Counting) + (C(call'[t], stage'[t]) - C(call[t], stage[t]))
      /\ Cardinality(Consumers') = Cardinality(Consumers) + (K(pc'[t]) - K(pc[t]))
      /\ Cardinality(Done') = Cardinality(Done) + (D(stage'[t]) - D(stage[t]))
  BY ThreadCounts
<1>5. /\ W(call'[t], stage'[t]) \in Int /\ W(call[t], stage[t]) \in Int
      /\ C(call'[t], stage'[t]) \in Int /\ C(call[t], stage[t]) \in Int
      /\ K(pc'[t]) \in Int /\ K(pc[t]) \in Int /\ D(stage'[t]) \in Int /\ D(stage[t]) \in Int
  BY DEF W, C, K, D, One
<1> DEFINE w == Cardinality(Waiting)  w1 == Cardinality(Waiting')
           c == Cardinality(Counting) c1 == Cardinality(Counting')
           k == Cardinality(Consumers) k1 == Cardinality(Consumers')
           d == Cardinality(Done)     d1 == Cardinality(Done')
           h == Cardinality(host)     h1 == Cardinality(host')
           q == Len(queue)            q1 == Len(queue')
           r == stats["received"]     r1 == stats'["received"]
           n == stats["processed"]    n1 == stats'["processed"]
           x == Refused  x1 == Refused'  g == Gone  g1 == Gone'  o == offered  o1 == offered'
           dw == W(call'[t], stage'[t]) - W(call[t], stage[t])
           dc == C(call'[t], stage'[t]) - C(call[t], stage[t])
           dk == K(pc'[t]) - K(pc[t])
           dd == D(stage'[t]) - D(stage[t])
<1>a. /\ w \in Nat /\ c \in Nat /\ k \in Nat /\ d \in Nat /\ h \in Nat /\ h1 \in Nat /\ q \in Nat /\ q1 \in Nat
      /\ r \in Nat /\ r1 \in Nat /\ n \in Nat /\ n1 \in Nat /\ x \in Nat /\ x1 \in Nat
      /\ g \in Nat /\ g1 \in Nat /\ o \in Nat /\ o1 \in Nat
  BY <1>1, <1>2, <1>3, <1>4
<1>e. dw \in Int /\ dc \in Int /\ dk \in Int /\ dd \in Int
  BY DEF W, C, K, D, One
<1>b. w1 = w + dw /\ c1 = c + dc /\ k1 = k + dk /\ d1 = d + dd
  BY <1>4, <1>5
<1>c. /\ o = w + x + q + k + h + g
      /\ o = r + x + w + c
      /\ n <= d + h + g
  BY DEF AccountInv
<1>d. /\ o1 - o = dw + (x1 - x) + (q1 - q) + dk + (h1 - h) + (g1 - g)
      /\ o1 - o = (r1 - r) + (x1 - x) + dw + dc
      /\ n1 - n <= dd + (h1 - h) + (g1 - g)
  BY <1>1, <1>2, <1>3, <1>5 DEF Balanced
<1> HIDE DEF w, w1, c, c1, k, k1, d, d1, h, h1, q, q1, r, r1, n, n1, x, x1, g, g1, o, o1, dw, dc, dk, dd
<1>6. o1 = w1 + x1 + q1 + k1 + h1 + g1
  BY <1>a, <1>b, <1>c, <1>d, <1>e
<1>7. o1 = r1 + x1 + w1 + c1
  BY <1>a, <1>b, <1>c, <1>d, <1>e
<1>8. n1 <= d1 + h1 + g1
  BY <1>a, <1>b, <1>c, <1>d, <1>e
<1> QED BY <1>4, <1>6, <1>7, <1>8 DEF AccountInv, w1, c1, k1, d1, h1, q1, r1, n1, x1, g1, o1

\* A step that moves no packet and counts nothing.
LEMMA AccountKept ==
    ASSUME DataInv, DataInv', AccountInv, NEW t \in Threads, Only(t),
           UNCHANGED <<host, queue, stats, offered, ended>>,
           W(call'[t], stage'[t]) = W(call[t], stage[t]), C(call'[t], stage'[t]) = C(call[t], stage[t]),
           K(pc'[t]) = K(pc[t]), D(stage'[t]) = D(stage[t])
    PROVE  AccountInv'
<1>1. W(call[t], stage[t]) \in Int /\ C(call[t], stage[t]) \in Int /\ K(pc[t]) \in Int /\ D(stage[t]) \in Int
  BY DEF W, C, K, D, One
<1>2. /\ offered \in Nat /\ Refused \in Nat /\ Gone \in Nat /\ Len(queue) \in Nat
      /\ stats["received"] \in Nat /\ stats["processed"] \in Nat
  BY CountsAreNumbers
<1>3. Refused' = Refused /\ Gone' = Gone BY DEF Refused, Gone
<1>4. Cardinality(host) \in Nat BY FS_CardinalityType DEF AccountInv
<1>5. Balanced(t) BY <1>1, <1>2, <1>3, <1>4 DEF Balanced
<1> QED BY <1>5, AccountMoves DEF AccountInv

\* How the books change, item by item.
Changes(t, w, c, k, d, h, q, r, n, x, g) ==
    /\ W(call'[t], stage'[t]) - W(call[t], stage[t]) = w
    /\ C(call'[t], stage'[t]) - C(call[t], stage[t]) = c
    /\ K(pc'[t]) - K(pc[t]) = k
    /\ D(stage'[t]) - D(stage[t]) = d
    /\ IsFiniteSet(host') /\ Cardinality(host') - Cardinality(host) = h
    /\ Len(queue') - Len(queue) = q
    /\ stats'["received"] - stats["received"] = r
    /\ stats'["processed"] - stats["processed"] = n
    /\ Refused' - Refused = x
    /\ Gone' - Gone = g

\* A step that changes them by balancing amounts keeps the account.
LEMMA AccountChanges ==
    ASSUME DataInv, DataInv', AccountInv, NEW t \in Threads, Only(t),
           NEW w \in Int, NEW c \in Int, NEW k \in Int, NEW d \in Int, NEW h \in Int, NEW q \in Int,
           NEW r \in Int, NEW n \in Int, NEW x \in Int, NEW g \in Int,
           Changes(t, w, c, k, d, h, q, r, n, x, g),
           offered' - offered = w + x + q + k + h + g,
           offered' - offered = r + x + w + c,
           n <= d + h + g
    PROVE  AccountInv'
  BY AccountMoves DEF Changes, Balanced

\* What a step that does not touch an item says about it.
LEMMA Unchanged ==
    ASSUME DataInv, AccountInv
    PROVE  /\ UNCHANGED offered => offered' - offered = 0
           /\ UNCHANGED queue => Len(queue') - Len(queue) = 0
           /\ UNCHANGED host => IsFiniteSet(host') /\ Cardinality(host') - Cardinality(host) = 0
           /\ UNCHANGED stats => /\ stats'["received"] - stats["received"] = 0
                                 /\ stats'["processed"] - stats["processed"] = 0
                                 /\ Refused' - Refused = 0
           /\ UNCHANGED <<stats, ended>> => Gone' - Gone = 0
<1>1. /\ offered \in Nat /\ Refused \in Nat /\ Gone \in Nat /\ Len(queue) \in Nat
      /\ stats["received"] \in Nat /\ stats["processed"] \in Nat
  BY CountsAreNumbers
<1>2. Cardinality(host) \in Nat BY FS_CardinalityType DEF AccountInv
<1>3. UNCHANGED stats => Refused' = Refused BY DEF Refused
<1>4. UNCHANGED <<stats, ended>> => Gone' = Gone BY DEF Gone
<1> QED BY <1>1, <1>2, <1>3, <1>4 DEF AccountInv

\* What the counters a step bumps do to the items.
LEMMA CountChanges ==
    ASSUME DataInv, NEW cs, Count(cs)
    PROVE  /\ Refused' - Refused = One("saturated" \in cs) + One("errors" \in cs)
           /\ UNCHANGED ended => Gone' - Gone = One("forwarded" \in cs) + One("dropped" \in cs)
           /\ ended' = ended + 1 /\ "forwarded" \notin cs /\ "dropped" \notin cs => Gone' - Gone = 1
           /\ stats'["received"] - stats["received"] = One("received" \in cs)
           /\ stats'["processed"] - stats["processed"] = One("processed" \in cs)
<1>1. stats \in [Counters -> Nat] /\ ended \in Nat BY DEF DataInv, DataTypeOK, CountTypes
<1>2. \A c \in Counters : stats[c] \in Nat /\ stats'[c] = stats[c] + One(c \in cs)
  BY <1>1 DEF Count, One
<1>3. /\ stats["saturated"] \in Nat /\ stats'["saturated"] = stats["saturated"] + One("saturated" \in cs)
      /\ stats["errors"] \in Nat /\ stats'["errors"] = stats["errors"] + One("errors" \in cs)
      /\ stats["forwarded"] \in Nat /\ stats'["forwarded"] = stats["forwarded"] + One("forwarded" \in cs)
      /\ stats["dropped"] \in Nat /\ stats'["dropped"] = stats["dropped"] + One("dropped" \in cs)
      /\ stats["received"] \in Nat /\ stats'["received"] = stats["received"] + One("received" \in cs)
      /\ stats["processed"] \in Nat /\ stats'["processed"] = stats["processed"] + One("processed" \in cs)
  BY <1>2 DEF Counters
<1>4. \A b : One(b) \in Nat BY DEF One
<1>5. Refused' - Refused = One("saturated" \in cs) + One("errors" \in cs)
  <2> DEFINE a == stats["saturated"] b == stats["errors"] u == One("saturated" \in cs) v == One("errors" \in cs)
  <2>1. Refused' = (a + u) + (b + v) /\ Refused = a + b BY <1>3 DEF Refused
  <2>2. a \in Nat /\ b \in Nat /\ u \in Nat /\ v \in Nat BY <1>3, <1>4
  <2> HIDE DEF a, b, u, v
  <2>3. ((a + u) + (b + v)) - (a + b) = u + v BY <2>2
  <2> QED BY <2>1, <2>3 DEF u, v
<1>6. ASSUME NEW e \in Nat, ended' = ended + e
      PROVE  Gone' - Gone = One("forwarded" \in cs) + One("dropped" \in cs) + e
  <2> DEFINE a == stats["forwarded"] b == stats["dropped"] u == One("forwarded" \in cs) v == One("dropped" \in cs)
             f == ended
  <2>1. Gone' = (a + u) + (b + v) + (f + e) /\ Gone = a + b + f BY <1>3, <1>6 DEF Gone
  <2>2. a \in Nat /\ b \in Nat /\ u \in Nat /\ v \in Nat /\ f \in Nat BY <1>1, <1>3, <1>4
  <2> HIDE DEF a, b, u, v, f
  <2>3. ((a + u) + (b + v) + (f + e)) - (a + b + f) = u + v + e BY <2>2
  <2> QED BY <2>1, <2>3 DEF u, v
<1>7. UNCHANGED ended => Gone' - Gone = One("forwarded" \in cs) + One("dropped" \in cs)
  <2>1. UNCHANGED ended => ended' = ended + 0 BY <1>1
  <2>2. One("forwarded" \in cs) + One("dropped" \in cs) + 0 = One("forwarded" \in cs) + One("dropped" \in cs)
    BY <1>4
  <2> QED BY <1>6, <2>1, <2>2
<1>8. ended' = ended + 1 /\ "forwarded" \notin cs /\ "dropped" \notin cs => Gone' - Gone = 1
  BY <1>6 DEF One
<1>9. /\ stats'["received"] - stats["received"] = One("received" \in cs)
      /\ stats'["processed"] - stats["processed"] = One("processed" \in cs)
  <2> DEFINE a == stats["received"] b == stats["processed"] u == One("received" \in cs) v == One("processed" \in cs)
  <2>1. stats'["received"] = a + u /\ stats'["processed"] = b + v BY <1>3
  <2>2. a \in Nat /\ b \in Nat /\ u \in Nat /\ v \in Nat BY <1>3, <1>4
  <2> HIDE DEF a, b, u, v
  <2>3. (a + u) - a = u /\ (b + v) - b = v BY <2>2
  <2> QED BY <2>1, <2>3 DEF a, b, u, v
<1> QED BY <1>5, <1>7, <1>8, <1>9

\* No step loses a packet, or counts one twice.
LEMMA DequeueLength ==
    ASSUME TypeOK, NEW t \in Threads, Dequeue(t)
    PROVE  Len(queue') - Len(queue) = 0 - 1
<1>1. queue \in Seq(Ids) /\ queue # <<>> /\ queue' = Tail(queue) BY DEF TypeOK, Dequeue
<1>2. Len(queue) \in Nat /\ Len(queue') = Len(queue) - 1 BY <1>1, TailFacts
<1> QED BY <1>2

\* Every step keeps the account.
LEMMA StepAccount ==
    ASSUME DataInv, DataInv', StageInv, AccountInv, [DataNext]_dataVars
    PROVE  AccountInv'
<1>t. /\ call \in [Threads -> Calls \cup Loops] /\ stage \in [Threads -> Stages] /\ pc \in [Threads -> PCs]
      /\ held \in [Threads -> Ids] /\ queue \in Seq(Ids) /\ offered \in Nat /\ CallInv /\ TypeOK /\ OneCopy
  BY DEF DataInv, DataTypeOK, CallTypes, SourceTypes, LiveInv, TypeOK
<1> USE <1>t DEF CallInv, StageInv, Fits, Goto, MoveTo, At, Actions, countVars, sourceVars, vars
<1>0. /\ \A t \in Hosts : t \in Threads /\ t # Capturer /\ t # Processor
      /\ Capturer \in Threads /\ Processor \in Threads
  BY HandlesAssumption
<1>1. ASSUME NEW t \in Threads, Proceed(t) PROVE AccountInv'
  <2>1. CASE Publish(t)
    <3>0. Publishing(t) /\ stage[t] = "start" /\ UNCHANGED <<offered, ended>> BY <2>1 DEF Publish
    <3>1. CASE PublishLock(t, wanted[t]) /\ MoveTo(t, "publishing") /\ UNCHANGED stats
      <4>1. Only(t) /\ UNCHANGED <<host, queue, stats, offered, ended>> /\ pc[t] = "idle" /\ pc'[t] = "pub_locked"
            /\ call' = call /\ stage'[t] = "publishing"
        BY <3>0, <3>1 DEF PublishLock, Only
      <4> QED BY <3>0, <4>1, AccountKept DEF W, C, K, D, One, Publishing
    <3>2. CASE Count({"errors"}) /\ Return(t) /\ UNCHANGED vars
      <4>1. Only(t) /\ UNCHANGED <<host, queue, pc>> /\ stage'[t] \in {"start", "test"}
            /\ (stage'[t] = "start" => call'[t] = "none")
        BY <3>2 DEF Only, Return
      <4>4. /\ Refused' - Refused = 1 /\ Gone' - Gone = 0
            /\ stats'["received"] - stats["received"] = 0 /\ stats'["processed"] - stats["processed"] = 0
        BY <3>0, <3>2, CountChanges DEF One
      <4>2. Changes(t, 0 - 1, 0, 0, 0, 0, 0, 0, 0, 1, 0)
        BY <3>0, <4>1, <4>4, Unchanged DEF Changes, W, C, K, D, One, Publishing
      <4>3. offered' - offered = 0 BY <3>0, Unchanged
      <4> QED BY <4>1, <4>2, <4>3, AccountChanges
    <3> QED BY <2>1, <3>1, <3>2 DEF Publish
  <2>2. CASE PublishQueue(t)
    <3>0. Publishing(t) /\ stage[t] = "publishing" /\ pc[t] = "pub_locked" /\ UNCHANGED <<offered, ended, host>>
      BY <2>2 DEF PublishQueue, PublishEnqueue
    <3>1. CASE Accepts
      <4>1. Only(t) /\ UNCHANGED stats /\ pc'[t] = "pub_enqueued"
            /\ call' = call /\ stage'[t] = "counting" /\ queue' = Append(queue, held[t])
        BY <2>2, <3>1 DEF PublishQueue, PublishEnqueue, Only
      <4>2. Len(queue') - Len(queue) = 1
        <5>1. queue \in Seq(Ids) /\ held[t] \in Ids /\ Len(queue) \in Nat OBVIOUS
        <5>2. Len(queue') = Len(queue) + 1 BY <4>1, <5>1, AppendFacts
        <5> QED BY <5>1, <5>2
      <4>3. Changes(t, 0 - 1, 1, 0, 0, 0, 1, 0, 0, 0, 0)
        BY <3>0, <4>1, <4>2, Unchanged DEF Changes, W, C, K, D, One, Publishing
      <4>4. offered' - offered = 0 BY <3>0, Unchanged
      <4> QED BY <4>1, <4>3, <4>4, AccountChanges
    <3>2. CASE ~Accepts
      <4>1. /\ Only(t) /\ UNCHANGED queue /\ pc'[t] = "idle" /\ stage'[t] \in {"start", "test"}
            /\ (stage'[t] = "start" => call'[t] = "none")
        BY <2>2, <3>2 DEF PublishQueue, PublishEnqueue, Only, Return
      <4>2. /\ Refused' - Refused = 1 /\ Gone' - Gone = 0
            /\ stats'["received"] - stats["received"] = 0 /\ stats'["processed"] - stats["processed"] = 0
        <5>1. CASE closed
          <6>1. Count({"errors"}) BY <2>2, <3>2, <5>1 DEF PublishQueue
          <6> QED BY <3>0, <6>1, CountChanges DEF One
        <5>2. CASE ~closed
          <6>1. Count({"saturated"}) BY <2>2, <3>2, <5>2 DEF PublishQueue
          <6> QED BY <3>0, <6>1, CountChanges DEF One
        <5> QED BY <5>1, <5>2
      <4>3. Changes(t, 0 - 1, 0, 0, 0, 0, 0, 0, 0, 1, 0)
        BY <3>0, <4>1, <4>2, Unchanged DEF Changes, W, C, K, D, One, Publishing
      <4>4. offered' - offered = 0 BY <3>0, Unchanged
      <4> QED BY <4>1, <4>3, <4>4, AccountChanges
    <3> QED BY <3>1, <3>2
  <2>3. CASE PublishRecord(t)
    <3>1. Only(t) /\ UNCHANGED <<host, queue, stats, offered, ended>> /\ K(pc'[t]) = K(pc[t])
      BY <1>0, <2>3 DEF PublishRecord, PublishInsert, Only, K
    <3>2. /\ W(call'[t], stage'[t]) = W(call[t], stage[t]) /\ C(call'[t], stage'[t]) = C(call[t], stage[t])
          /\ D(stage'[t]) = D(stage[t])
      BY <1>0, <2>3 DEF PublishRecord, PublishInsert, W, C, D
    <3> QED BY <1>0, <3>1, <3>2, AccountKept
  <2>4. CASE CountReceived(t)
    <3>1. Publishing(t) /\ stage[t] = "counting" /\ UNCHANGED <<offered, ended, host, queue, pc>> /\ Count({"received"})
      BY <2>4 DEF CountReceived
    <3>2. Only(t) /\ stage'[t] \in {"start", "test"} /\ (stage'[t] = "start" => call'[t] = "none")
      BY <2>4 DEF CountReceived, Only, Return
    <3>3. Changes(t, 0, 0 - 1, 0, 0, 0, 0, 1, 0, 0, 0)
      BY <3>1, <3>2, CountChanges, Unchanged DEF Changes, W, C, K, D, One, Publishing
    <3>4. offered' - offered = 0 BY <3>1, Unchanged
    <3> QED BY <3>2, <3>3, <3>4, AccountChanges
  <2>5. CASE TakeForProcessing(t)
    <3>1. pc[t] = "dequeued" /\ olock = None /\ UNCHANGED <<host, queue, stats, offered, ended>>
      BY <2>5 DEF TakeForProcessing, TakeProcessing
    <3>2. CanMove(held[t], "Bus", "Processing") BY <3>1, TakeNotRefused
    <3>3. UNCHANGED <<call, stage>> /\ pc'[t] = "processing" /\ Only(t)
      BY <2>5, <3>2 DEF TakeForProcessing, TakeProcessing, Only
    <3> QED BY <3>1, <3>3, AccountKept DEF W, C, K, D, One
  <2>6. CASE Process(t)
    <3>1. /\ stage[t] = "busy" /\ stage'[t] = "done" /\ UNCHANGED <<pc, call, host, queue, offered, ended>>
          /\ Count({"processed"}) /\ Only(t)
      BY <2>6 DEF Process, Only
    <3>2. Changes(t, 0, 0, 0, 1, 0, 0, 0, 1, 0, 0)
      BY <3>1, CountChanges, Unchanged DEF Changes, W, C, K, D, One
    <3>3. offered' - offered = 0 BY <3>1, Unchanged
    <3> QED BY <3>1, <3>2, <3>3, AccountChanges
  <2>7. CASE Consume(t)
    <3>1. /\ UNCHANGED <<queue, host, stats, offered>> /\ ended' = ended + 1
          /\ pc[t] = "processing" /\ pc'[t] = "idle"
          /\ stage[t] \in {"busy", "done"} /\ stage'[t] \in {"start", "test", "draining"}
          /\ (stage'[t] = "start" => call'[t] = "none") /\ Only(t)
      BY <2>7 DEF Consume, ReleaseProcessing, Only, Return
    <3>2. Gone' - Gone = 1
      <4> DEFINE a == stats["forwarded"] + stats["dropped"]
      <4>1. Gone = a + ended /\ Gone' = a + (ended + 1) BY <3>1 DEF Gone
      <4>2. a \in Nat /\ ended \in Nat
        <5>1. stats \in [Counters -> Nat] /\ ended \in Nat BY DEF DataInv, DataTypeOK, CountTypes
        <5> QED BY <5>1 DEF Counters
      <4> HIDE DEF a
      <4>3. (a + (ended + 1)) - (a + ended) = 1 BY <4>2
      <4> QED BY <4>1, <4>3
    <3>3. offered' - offered = 0 BY <3>1, Unchanged
    <3>4. CASE stage[t] = "done"
      <4>1. Changes(t, 0, 0, 0 - 1, 0 - 1, 0, 0, 0, 0, 0, 1)
        BY <3>1, <3>2, <3>4, Unchanged DEF Changes, W, C, K, D, One
      <4> QED BY <3>1, <3>3, <4>1, AccountChanges
    <3>5. CASE stage[t] = "busy"
      <4>2. /\ W(call'[t], stage'[t]) = 0 /\ W(call[t], stage[t]) = 0
            /\ C(call'[t], stage'[t]) = 0 /\ C(call[t], stage[t]) = 0
            /\ K(pc'[t]) = 0 /\ K(pc[t]) = 1 /\ D(stage'[t]) = 0 /\ D(stage[t]) = 0
        BY <3>1, <3>5 DEF W, C, K, D, One
      <4>1. Changes(t, 0, 0, 0 - 1, 0, 0, 0, 0, 0, 0, 1)
        <5>1. /\ Len(queue') - Len(queue) = 0 /\ IsFiniteSet(host') /\ Cardinality(host') - Cardinality(host) = 0
              /\ stats'["received"] - stats["received"] = 0 /\ stats'["processed"] - stats["processed"] = 0
              /\ Refused' - Refused = 0
          BY <3>1, Unchanged
        <5> QED BY <3>2, <4>2, <5>1 DEF Changes
      <4>3. Only(t) /\ IsFiniteSet(host') BY <3>1, <4>1 DEF Changes
      <4>4. Balanced(t) BY <3>3, <4>1 DEF Changes, Balanced
      <4> QED BY <4>3, <4>4, AccountMoves
    <3> QED BY <3>1, <3>4, <3>5
  <2> QED BY <1>1, <2>1, <2>2, <2>3, <2>4, <2>5, <2>6, <2>7 DEF Proceed
<1>2. ASSUME NEW t \in Hosts, ProceedHost(t) PROVE AccountInv'
  <2>1. CASE IngestObservation(t)
    <3>0. call[t] = "draw" /\ stage[t] = "start" /\ UNCHANGED <<stage, pc, host, queue, stats, ended>>
      BY <2>1 DEF IngestObservation
    <3>1. CASE running
      <4>1. call'[t] = "inject" /\ offered' = offered + 1 /\ Only(t) /\ offered \in Nat
        BY <1>0, <3>0, <2>1, <3>1 DEF IngestObservation, Only, SourceTypes
      <4>2. Changes(t, 1, 0, 0, 0, 0, 0, 0, 0, 0, 0)
        BY <3>0, <4>1, Unchanged DEF Changes, W, C, K, D, One
      <4>3. offered' - offered = 1 BY <4>1
      <4> QED BY <1>0, <4>1, <4>2, <4>3, AccountChanges
    <3>2. CASE ~running
      <4>1. call'[t] = "none" /\ UNCHANGED offered /\ Only(t)
        BY <1>0, <3>0, <2>1, <3>2 DEF IngestObservation, Only
      <4> QED BY <1>0, <3>0, <4>1, AccountKept DEF W, C, K, D, One
    <3> QED BY <3>1, <3>2
  <2>2. CASE HandToHost(t)
    <3>1. /\ UNCHANGED <<queue, stats, offered, ended>> /\ TransferToHost(t)
          /\ pc[t] = "processing" /\ pc'[t] = "idle" /\ call[t] = "read" /\ call'[t] = "none"
          /\ stage[t] = "done" /\ stage'[t] = "start" /\ Only(t)
      BY <1>0, <2>2 DEF HandToHost, TransferToHost, Only, Return
    <3>2. CanMove(held[t], "Processing", "Host") BY <1>0, <3>1, ProcessingNotRefused
    <3>3. host' = host \cup {held[t]} BY <3>1, <3>2 DEF TransferToHost
    <3>4. held[t] \notin host BY <1>0, <3>1 DEF OneCopy, HasValue
    <3>9. IsFiniteSet(host) /\ Cardinality(host) \in Nat BY FS_CardinalityType DEF AccountInv
    <3>5. IsFiniteSet(host') /\ Cardinality(host') = Cardinality(host) + 1
      BY <3>3, <3>4, <3>9, FS_AddElement
    <3>6. Cardinality(host') - Cardinality(host) = 1 BY <3>5, <3>9
    <3>7. Changes(t, 0, 0, 0 - 1, 0 - 1, 1, 0, 0, 0, 0, 0)
      BY <3>1, <3>5, <3>6, Unchanged DEF Changes, W, C, K, D, One
    <3>8. offered' - offered = 0 BY <3>1, Unchanged
    <3> QED BY <1>0, <3>1, <3>7, <3>8, AccountChanges
  <2>3. CASE RefuseAction(t)
    <3>1. Only(t) /\ UNCHANGED <<host, queue, stats, offered, ended>> /\ K(pc'[t]) = K(pc[t])
      BY <1>0, <2>3 DEF RefuseAction, Restore, Only, K
    <3>2. /\ W(call'[t], stage'[t]) = W(call[t], stage[t]) /\ C(call'[t], stage'[t]) = C(call[t], stage[t])
          /\ D(stage'[t]) = D(stage[t])
      BY <1>0, <2>3 DEF RefuseAction, Restore, W, C, D
    <3> QED BY <1>0, <3>1, <3>2, AccountKept
  <2>4. CASE Act(t)
    <3>1. Only(t) /\ UNCHANGED <<host, queue, stats, offered, ended>> /\ K(pc'[t]) = K(pc[t])
      BY <1>0, <2>4 DEF Act, Only, K
    <3>2. /\ W(call'[t], stage'[t]) = W(call[t], stage[t]) /\ C(call'[t], stage'[t]) = C(call[t], stage[t])
          /\ D(stage'[t]) = D(stage[t])
      BY <1>0, <2>4 DEF Act, W, C, D
    <3> QED BY <1>0, <3>1, <3>2, AccountKept
  <2>5. CASE Release(t)
    <3> DEFINE id == obs[taken[t]]
    <3>0. taken[t] # 0 BY <2>5 DEF Release
    <3>1. CanMove(id, "Host", "Released") /\ id \in host BY <3>0, ReleaseNotRefused, TakenInHost
    <3>2. /\ host' = host \ {id} /\ UNCHANGED <<queue, offered, pc>>
          /\ stage[t] = "acting" /\ stage'[t] = "start" /\ call'[t] = "none" /\ Only(t)
      BY <1>0, <2>5, <3>1 DEF Release, ReleaseHost, Only
    <3>3. \/ Count({"dropped"}) /\ UNCHANGED ended
          \/ Count({"forwarded"}) /\ UNCHANGED ended
          \/ Count({}) /\ ended' = ended + 1
      BY <2>5, <3>1 DEF Release
    <3>4. /\ Refused' - Refused = 0 /\ Gone' - Gone = 1
          /\ stats'["received"] - stats["received"] = 0 /\ stats'["processed"] - stats["processed"] = 0
      <4>1. CASE Count({"dropped"}) /\ UNCHANGED ended BY <4>1, CountChanges DEF One
      <4>2. CASE Count({"forwarded"}) /\ UNCHANGED ended BY <4>2, CountChanges DEF One
      <4>3. CASE Count({}) /\ ended' = ended + 1 BY <4>3, CountChanges DEF One
      <4> QED BY <3>3, <4>1, <4>2, <4>3
    <3>9. IsFiniteSet(host) /\ Cardinality(host) \in Nat BY FS_CardinalityType DEF AccountInv
    <3>5. IsFiniteSet(host') /\ Cardinality(host') = Cardinality(host) - 1
      BY <3>1, <3>2, <3>9, FS_RemoveElement
    <3>6. Cardinality(host') - Cardinality(host) = 0 - 1 BY <3>5, <3>9
    <3>7. Changes(t, 0, 0, 0, 0, 0 - 1, 0, 0, 0, 0, 1)
      BY <3>2, <3>4, <3>5, <3>6, Unchanged DEF Changes, W, C, K, D, One
    <3>8. offered' - offered = 0 BY <3>2, Unchanged
    <3> QED BY <1>0, <3>2, <3>7, <3>8, AccountChanges
  <2>6. CASE CaptureJoined(t)
    <3>1. Only(t) /\ UNCHANGED <<host, queue, stats, offered, ended>> /\ K(pc'[t]) = K(pc[t])
      BY <1>0, <2>6 DEF CaptureJoined, Return, Only, K
    <3>2. /\ W(call'[t], stage'[t]) = W(call[t], stage[t]) /\ C(call'[t], stage'[t]) = C(call[t], stage[t])
          /\ D(stage'[t]) = D(stage[t])
      BY <1>0, <2>6 DEF CaptureJoined, Return, W, C, D
    <3> QED BY <1>0, <3>1, <3>2, AccountKept
  <2>7. CASE ShutdownCapture(t)
    <3>1. Only(t) /\ UNCHANGED <<host, queue, stats, offered, ended>> /\ K(pc'[t]) = K(pc[t])
      BY <1>0, <2>7 DEF ShutdownCapture, Only, K
    <3>2. /\ W(call'[t], stage'[t]) = W(call[t], stage[t]) /\ C(call'[t], stage'[t]) = C(call[t], stage[t])
          /\ D(stage'[t]) = D(stage[t])
      BY <1>0, <2>7 DEF ShutdownCapture, W, C, D
    <3> QED BY <1>0, <3>1, <3>2, AccountKept
  <2>8. CASE ShutdownWorker(t)
    <3>1. Only(t) /\ UNCHANGED <<host, queue, stats, offered, ended>> /\ K(pc'[t]) = K(pc[t])
      BY <1>0, <2>8 DEF ShutdownWorker, Close, Only, K
    <3>2. /\ W(call'[t], stage'[t]) = W(call[t], stage[t]) /\ C(call'[t], stage'[t]) = C(call[t], stage[t])
          /\ D(stage'[t]) = D(stage[t])
      BY <1>0, <2>8 DEF ShutdownWorker, Close, W, C, D
    <3> QED BY <1>0, <3>1, <3>2, AccountKept
  <2>9. CASE DrainRead(t)
    <3>1. /\ Only(t) /\ UNCHANGED <<host, stats, offered, ended>> /\ Dequeue(t)
          /\ pc[t] = "idle" /\ pc'[t] = "dequeued" /\ stage'[t] = "busy"
          /\ call[t] \in {"none", "shutdown"}
      BY <1>0, <2>9 DEF DrainRead, Dequeue, Only
    <3>5. stage[t] # "done" BY <1>0, <3>1
    <3>2. Len(queue') - Len(queue) = 0 - 1 BY <1>0, <3>1, DequeueLength
    <3>6. /\ W(call'[t], stage'[t]) = 0 /\ W(call[t], stage[t]) = 0
          /\ C(call'[t], stage'[t]) = 0 /\ C(call[t], stage[t]) = 0
          /\ K(pc'[t]) = 1 /\ K(pc[t]) = 0 /\ D(stage'[t]) = 0 /\ D(stage[t]) = 0
      BY <3>1, <3>5 DEF W, C, K, D, One
    <3>3. Changes(t, 0, 0, 1, 0, 0, 0 - 1, 0, 0, 0, 0)
      BY <3>1, <3>2, <3>6, Unchanged DEF Changes
    <3>4. offered' - offered = 0 BY <3>1, Unchanged
    <3> QED BY <1>0, <3>1, <3>3, <3>4, AccountChanges
  <2>10. CASE DrainDone(t)
    <3>1. Only(t) /\ UNCHANGED <<host, queue, stats, offered, ended>> /\ K(pc'[t]) = K(pc[t])
      BY <1>0, <2>10 DEF DrainDone, Return, Only, K
    <3>2. /\ W(call'[t], stage'[t]) = W(call[t], stage[t]) /\ C(call'[t], stage'[t]) = C(call[t], stage[t])
          /\ D(stage'[t]) = D(stage[t])
      BY <1>0, <2>10 DEF DrainDone, Return, W, C, D
    <3> QED BY <1>0, <3>1, <3>2, AccountKept
  <2> QED BY <1>0, <1>1, <1>2, <2>1, <2>2, <2>3, <2>4, <2>5, <2>6, <2>7, <2>8, <2>9, <2>10 DEF ProceedHost
<1>3. ASSUME NEW t \in Hosts, Request(t) PROVE AccountInv'
  <2>1. CASE Inject(t)
    <3>1. Only(t) /\ UNCHANGED <<host, queue, stats, offered, ended>> /\ K(pc'[t]) = K(pc[t])
      BY <1>0, <2>1 DEF Inject, Only, K
    <3>2. /\ W(call'[t], stage'[t]) = W(call[t], stage[t]) /\ C(call'[t], stage'[t]) = C(call[t], stage[t])
          /\ D(stage'[t]) = D(stage[t])
      BY <1>0, <2>1 DEF Inject, W, C, D
    <3> QED BY <1>0, <3>1, <3>2, AccountKept
  <2>2. CASE \E c \in {"read", "process"} : Read(t, c)
    <3>1. /\ Only(t) /\ UNCHANGED <<host, stats, offered, ended>> /\ Dequeue(t)
          /\ pc[t] = "idle" /\ pc'[t] = "dequeued" /\ stage'[t] = "busy"
          /\ call[t] \in {"none", "shutdown"}
      BY <1>0, <2>2 DEF Read, Enter, Dequeue, Only
    <3>5. stage[t] # "done" BY <1>0, <3>1
    <3>2. Len(queue') - Len(queue) = 0 - 1 BY <1>0, <3>1, DequeueLength
    <3>6. /\ W(call'[t], stage'[t]) = 0 /\ W(call[t], stage[t]) = 0
          /\ C(call'[t], stage'[t]) = 0 /\ C(call[t], stage[t]) = 0
          /\ K(pc'[t]) = 1 /\ K(pc[t]) = 0 /\ D(stage'[t]) = 0 /\ D(stage[t]) = 0
      BY <3>1, <3>5 DEF W, C, K, D, One
    <3>3. Changes(t, 0, 0, 1, 0, 0, 0 - 1, 0, 0, 0, 0)
      BY <3>1, <3>2, <3>6, Unchanged DEF Changes
    <3>4. offered' - offered = 0 BY <3>1, Unchanged
    <3> QED BY <1>0, <3>1, <3>3, <3>4, AccountChanges
  <2>3. CASE \E h \in HandleIds, a \in Actions : Take(t, h, a)
    <3>1. Only(t) /\ UNCHANGED <<host, queue, stats, offered, ended>> /\ K(pc'[t]) = K(pc[t])
      BY <1>0, <2>3 DEF Take, Only, K
    <3>2. /\ W(call'[t], stage'[t]) = W(call[t], stage[t]) /\ C(call'[t], stage'[t]) = C(call[t], stage[t])
          /\ D(stage'[t]) = D(stage[t])
      BY <1>0, <2>3 DEF Take, W, C, D
    <3> QED BY <1>0, <3>1, <3>2, AccountKept
  <2>4. CASE CaptureStart(t)
    <3>1. /\ ~capThread /\ UNCHANGED <<pc, host, queue, stats, offered, ended>> /\ Only(Capturer)
          /\ call'[Capturer] = "capture" /\ stage'[Capturer] = "test"
      BY <1>0, <2>4 DEF CaptureStart, Only
    <3>2. call[Capturer] = "none" /\ stage[Capturer] = "start" BY <1>0, <3>1 DEF StageInv
    <3> QED BY <1>0, <3>1, <3>2, AccountKept DEF W, C, K, D, One
  <2>5. CASE CaptureStop(t)
    <3>1. Only(t) /\ UNCHANGED <<host, queue, stats, offered, ended>> /\ K(pc'[t]) = K(pc[t])
      BY <1>0, <2>5 DEF CaptureStop, Enter, Only, K
    <3>2. /\ W(call'[t], stage'[t]) = W(call[t], stage[t]) /\ C(call'[t], stage'[t]) = C(call[t], stage[t])
          /\ D(stage'[t]) = D(stage[t])
      BY <1>0, <2>5 DEF CaptureStop, Enter, W, C, D
    <3> QED BY <1>0, <3>1, <3>2, AccountKept
  <2>6. CASE StartProcessingWorker(t)
    <3>1. /\ ~procThread /\ UNCHANGED <<pc, host, queue, stats, offered, ended>> /\ Only(Processor)
          /\ call'[Processor] = "worker" /\ stage'[Processor] = "test"
      BY <1>0, <2>6 DEF StartProcessingWorker, Only
    <3>2. call[Processor] = "none" /\ stage[Processor] = "start" BY <1>0, <3>1 DEF StageInv
    <3> QED BY <1>0, <3>1, <3>2, AccountKept DEF W, C, K, D, One
  <2>7. CASE Shutdown(t)
    <3>1. Only(t) /\ UNCHANGED <<host, queue, stats, offered, ended>> /\ K(pc'[t]) = K(pc[t])
      BY <1>0, <2>7 DEF Shutdown, Enter, Only, K
    <3>2. /\ W(call'[t], stage'[t]) = W(call[t], stage[t]) /\ C(call'[t], stage'[t]) = C(call[t], stage[t])
          /\ D(stage'[t]) = D(stage[t])
      BY <1>0, <2>7 DEF Shutdown, Enter, W, C, D
    <3> QED BY <1>0, <3>1, <3>2, AccountKept
  <2> QED BY <1>3, <2>1, <2>2, <2>3, <2>4, <2>5, <2>6, <2>7 DEF Request
<1>4. ASSUME CaptureLoop \/ WorkerLoop PROVE AccountInv'
  <2>1. CASE CaptureRecv
    <3>1. /\ call[Capturer] = "capture" /\ stage[Capturer] = "recv" /\ stage'[Capturer] = "start"
          /\ UNCHANGED <<call, pc, host, queue, stats, ended>> /\ offered' = offered + 1 /\ Only(Capturer)
      BY <1>0, <2>1 DEF CaptureRecv, Only
    <3>2. Changes(Capturer, 1, 0, 0, 0, 0, 0, 0, 0, 0, 0)
      BY <3>1, Unchanged DEF Changes, W, C, K, D, One
    <3>3. offered' - offered = 1 BY <3>1 DEF SourceTypes
    <3> QED BY <1>0, <3>1, <3>2, <3>3, AccountChanges
  <2>2. CASE CaptureRecvError
    <3>1. Only(Capturer) /\ UNCHANGED <<host, queue, stats, offered, ended>> /\ K(pc'[Capturer]) = K(pc[Capturer])
      BY <1>0, <2>2 DEF CaptureRecvError, Only, K
    <3>2. /\ W(call'[Capturer], stage'[Capturer]) = W(call[Capturer], stage[Capturer]) /\ C(call'[Capturer], stage'[Capturer]) = C(call[Capturer], stage[Capturer])
          /\ D(stage'[Capturer]) = D(stage[Capturer])
      BY <1>0, <2>2 DEF CaptureRecvError, W, C, D
    <3> QED BY <1>0, <3>1, <3>2, AccountKept
  <2>3. CASE CaptureTest
    <3>1. Only(Capturer) /\ UNCHANGED <<host, queue, stats, offered, ended>> /\ K(pc'[Capturer]) = K(pc[Capturer])
      BY <1>0, <2>3 DEF CaptureTest, Only, K
    <3>2. /\ W(call'[Capturer], stage'[Capturer]) = W(call[Capturer], stage[Capturer]) /\ C(call'[Capturer], stage'[Capturer]) = C(call[Capturer], stage[Capturer])
          /\ D(stage'[Capturer]) = D(stage[Capturer])
      BY <1>0, <2>3 DEF CaptureTest, W, C, D
    <3> QED BY <1>0, <3>1, <3>2, AccountKept
  <2>4. CASE WorkerRead
    <3>0. stage[Processor] = "start" /\ pc[Processor] = "idle" /\ call[Processor] = "worker"
      BY <1>0, <2>4 DEF WorkerRead
    <3>1. CASE Dequeue(Processor) /\ MoveTo(Processor, "busy")
      <4>1. /\ Only(Processor) /\ UNCHANGED <<host, stats, offered, ended>>
            /\ pc'[Processor] = "dequeued" /\ stage'[Processor] = "busy" /\ call' = call
        BY <1>0, <2>4, <3>1 DEF WorkerRead, Dequeue, Only
      <4>2. Len(queue') - Len(queue) = 0 - 1 BY <1>0, <3>1, DequeueLength
      <4>3. Changes(Processor, 0, 0, 1, 0, 0, 0 - 1, 0, 0, 0, 0)
        BY <3>0, <4>1, <4>2, Unchanged DEF Changes, W, C, K, D, One
      <4>4. offered' - offered = 0 BY <4>1, Unchanged
      <4> QED BY <1>0, <4>1, <4>3, <4>4, AccountChanges
    <3>2. CASE MoveTo(Processor, "test") /\ UNCHANGED vars
      <4>1. Only(Processor) /\ UNCHANGED <<host, queue, stats, offered, ended, pc, call>> /\ stage'[Processor] = "test"
        BY <1>0, <2>4, <3>2 DEF WorkerRead, Only
      <4> QED BY <1>0, <3>0, <4>1, AccountKept DEF W, C, K, D, One
    <3> QED BY <2>4, <3>1, <3>2 DEF WorkerRead
  <2>5. CASE WorkerTest
    <3>1. Only(Processor) /\ UNCHANGED <<host, queue, stats, offered, ended>> /\ K(pc'[Processor]) = K(pc[Processor])
      BY <1>0, <2>5 DEF WorkerTest, Only, K
    <3>2. /\ W(call'[Processor], stage'[Processor]) = W(call[Processor], stage[Processor]) /\ C(call'[Processor], stage'[Processor]) = C(call[Processor], stage[Processor])
          /\ D(stage'[Processor]) = D(stage[Processor])
      BY <1>0, <2>5 DEF WorkerTest, W, C, D
    <3> QED BY <1>0, <3>1, <3>2, AccountKept
  <2> QED BY <1>0, <1>1, <1>4, <2>1, <2>2, <2>3, <2>4, <2>5 DEF CaptureLoop, CaptureWorks, WorkerLoop
<1>5. CASE UNCHANGED dataVars 
  <2>1. UNCHANGED <<host, queue, stats, offered, ended, pc, call, stage>> BY <1>5 DEF dataVars
  <2>2. Only(Capturer) BY <2>1 DEF Only
  <2> QED BY <1>0, <2>1, <2>2, AccountKept
<1> QED BY <1>1, <1>2, <1>3, <1>4, <1>5 DEF DataNext

\* AccountInv holds in every reachable state of the data path.
THEOREM AccountInvariant == DataSpec => []AccountInv
<1>1. DataInit => AccountInv
  <2> SUFFICES ASSUME DataInit PROVE AccountInv
    OBVIOUS
  <2>1. Waiting = {} /\ Counting = {} /\ Done = {} /\ Consumers = {} /\ host = {} /\ queue = <<>>
    BY DEF DataInit, Init, Waiting, Counting, Done, Consumers, Publishers, Publishing
  <2>2. Len(queue) = 0 BY <2>1
  <2>3. offered = 0 /\ Refused = 0 /\ Gone = 0 /\ stats["received"] = 0 /\ stats["processed"] = 0
    BY DEF DataInit, Counters, Refused, Gone
  <2> QED BY <2>1, <2>2, <2>3, FS_EmptySet DEF AccountInv
<1>2. DataInv /\ DataInv' /\ ResolveInv /\ AccountInv /\ [DataNext]_dataVars => AccountInv'
  BY StepAccount DEF ResolveInv
<1> QED BY <1>1, <1>2, DataInvariant, ResolveInvariant, PTL DEF DataSpec

\* Every packet offered to the bus is in one place or was let go in one counted
\* way, a refused one shows in the statistics, and total_packets_received lags by
\* exactly the publishers that have not counted yet, however many threads publish,
\* read and decide at once.
THEOREM PacketsAccountedFor == DataSpec => []Accounted
<1>1. DataInv /\ ResolveInv /\ AccountInv => Accounted
  <2> SUFFICES ASSUME DataInv, ResolveInv, AccountInv PROVE Accounted
    OBVIOUS
  <2> DEFINE All == Publishers({"start", "publishing", "counting"})
             w == Cardinality(Waiting)  c == Cardinality(Counting)  k == Cardinality(Consumers)
             d == Cardinality(Done)  h == Cardinality(host)  q == Len(queue)  all == Cardinality(All)
             r == stats["received"]  n == stats["processed"]
             s == stats["saturated"]  e == stats["errors"]  f == stats["forwarded"]  p == stats["dropped"]
  <2>1. w \in Nat /\ c \in Nat /\ k \in Nat /\ d \in Nat /\ h \in Nat
    BY FS_CardinalityType DEF AccountInv
  <2>2. all = w + c
    <3>1. All = Waiting \cup Counting /\ Waiting \cap Counting = {} BY DEF Waiting, Counting, Publishers
    <3>2. Cardinality(All) = w + c - Cardinality(Waiting \cap Counting)
      BY <3>1, FS_Union DEF AccountInv
    <3>3. Cardinality(Waiting \cap Counting) = 0 BY <3>1, FS_EmptySet
    <3> QED BY <2>1, <3>2, <3>3
  <2>3. d <= k
    <3>1. Done \subseteq Consumers BY DEF ResolveInv, StageInv, Fits, Done, Consumers
    <3> QED BY <3>1, FS_Subset DEF AccountInv
  <2>4. q \in Nat /\ r \in Nat /\ n \in Nat BY CountsAreNumbers
  <2>5. s \in Nat /\ e \in Nat /\ f \in Nat /\ p \in Nat /\ ended \in Nat
    <3>1. stats \in [Counters -> Nat] /\ ended \in Nat BY DEF DataInv, DataTypeOK, CountTypes
    <3> QED BY <3>1 DEF Counters
  <2>6. /\ offered = w + (s + e) + q + k + h + (f + p + ended)
        /\ offered = r + (s + e) + w + c
        /\ n <= d + h + (f + p + ended)
    BY DEF AccountInv, Refused, Gone
  <2> HIDE DEF w, c, k, d, h, q, all, r, n, s, e, f, p
  <2>7. offered = w + s + e + q + k + h + f + p + ended BY <2>1, <2>4, <2>5, <2>6
  <2>8. offered = r + s + e + all BY <2>1, <2>2, <2>4, <2>5, <2>6
  <2>9. n <= r + c BY <2>1, <2>3, <2>4, <2>5, <2>6
  <2> QED BY <2>7, <2>8, <2>9 DEF Accounted, Waiting, Counting, w, c, k, h, q, all, r, n, s, e, f, p
<1> QED BY <1>1, DataInvariant, ResolveInvariant, AccountInvariant, PTL

=============================================================================
