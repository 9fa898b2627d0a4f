--------------------------- MODULE PipelineProofs ---------------------------
(***************************************************************************)
(* Proofs about the processing pipeline: the enrichment, whose metadata    *)
(* workers run beside the processing thread (Enrichment, WorkerPool), the  *)
(* policy and flags the pipeline reads (HostPolicy, EngineState), the      *)
(* metadata cache, the flow table with the window of recent hashes         *)
(* (Tracking, FlowTable), the counters (Statistics) and the parser         *)
(* (PacketParser); for any number of threads and workers, and any queue    *)
(* capacity, observations, endpoints, table sizes, frames and segments.    *)
(***************************************************************************)
EXTENDS MCTracking, Enrichment, ListProofs, SequenceTheorems, WellFoundedInduction

-----------------------------------------------------------------------------
(* Sequences without repetition                                            *)

Distinct(s) == \A i, j \in DOMAIN s : s[i] = s[j] => i = j

LEMMA AppendedRange ==
    ASSUME NEW S, NEW s \in Seq(S), NEW x \in S
    PROVE  /\ Append(s, x) \in Seq(S) /\ Range(Append(s, x)) = Range(s) \cup {x}
           /\ Distinct(s) /\ x \notin Range(s) => Distinct(Append(s, x))
<1> DEFINE t == Append(s, x)
           n == Len(s) + 1
<1>1. /\ t \in Seq(S) /\ DOMAIN t = DOMAIN s \cup {n} /\ t[n] = x /\ n \notin DOMAIN s
      /\ \A i \in DOMAIN s : t[i] = s[i]
  OBVIOUS
<1> HIDE DEF t, n
<1>2. Range(t) = Range(s) \cup {x} BY <1>1 DEF Range
<1>3. Distinct(s) /\ x \notin Range(s) => Distinct(t) BY <1>1 DEF Range, Distinct
<1> QED BY <1>1, <1>2, <1>3 DEF t

LEMMA TailRange ==
    ASSUME NEW S, NEW s \in Seq(S), s # <<>>, Distinct(s)
    PROVE  /\ Head(s) \in S /\ Head(s) \in Range(s)
           /\ Tail(s) \in Seq(S) /\ Distinct(Tail(s)) /\ Range(Tail(s)) = Range(s) \ {Head(s)}
<1>1. /\ Tail(s) \in Seq(S) /\ DOMAIN Tail(s) = 1 .. Len(s) - 1 /\ Head(s) = s[1] /\ 1 \in DOMAIN s
      /\ DOMAIN s = 1 .. Len(s) /\ Len(s) \in Nat
      /\ \A i \in DOMAIN Tail(s) : Tail(s)[i] = s[i + 1] /\ i + 1 \in DOMAIN s /\ i \in Nat /\ i + 1 # 1
  OBVIOUS
<1>2. Head(s) \in S /\ Head(s) \in Range(s) BY <1>1 DEF Range
<1>3. Distinct(Tail(s)) BY <1>1 DEF Distinct
<1>4. \A i \in DOMAIN s : i # 1 => i - 1 \in DOMAIN Tail(s) /\ (i - 1) + 1 = i BY <1>1
<1>5. \A x \in Range(Tail(s)) : x \in Range(s) /\ x # Head(s) BY <1>1 DEF Range, Distinct
<1>6. ASSUME NEW x \in Range(s) \ {Head(s)} PROVE x \in Range(Tail(s))
  <2>1. PICK i \in DOMAIN s : x = s[i] /\ i # 1 BY <1>1 DEF Range
  <2>2. i - 1 \in DOMAIN Tail(s) /\ Tail(s)[i - 1] = x BY <1>1, <1>4, <2>1
  <2> QED BY <2>2 DEF Range
<1> QED BY <1>1, <1>2, <1>3, <1>5, <1>6

-----------------------------------------------------------------------------
(* The metadata workers                                                    *)

PoolTyped ==
    /\ queues \in [Workers -> Seq(Items)]
    /\ working \in [Workers -> Items \cup {Idle, Exited}]
    /\ results \in Seq(Items)
    /\ nextWorker \in Workers
    /\ stage \in {"open", "draining", "joined"}

\* A lookup is in one queue once, in the hands of one worker, once in the channel.
OncePerPlace ==
    /\ \A w \in Workers : Distinct(queues[w])
    /\ \A v, w \in Workers : v # w => Range(queues[v]) \cap Range(queues[w]) = {}
    /\ \A v, w \in Workers : v # w /\ working[v] = working[w] => working[v] \in {Idle, Exited}
    /\ Distinct(results)

\* A worker that has ended left nothing behind; after the join all of them have.
ExitedIsDone ==
    /\ \A w \in Workers : working[w] = Exited => stage # "open" /\ queues[w] = <<>>
    /\ stage = "joined" => results = <<>> /\ \A w \in Workers : working[w] = Exited

\* NoLookupLost's places, spelled out.
Partition ==
    /\ accepted = InQueues \cup InHands \cup InChannel \cup delivered \cup discarded
    /\ InQueues \cap InHands = {} /\ InQueues \cap InChannel = {}
    /\ InQueues \cap delivered = {} /\ InQueues \cap discarded = {}
    /\ InHands \cap InChannel = {} /\ InHands \cap delivered = {} /\ InHands \cap discarded = {}
    /\ InChannel \cap delivered = {} /\ InChannel \cap discarded = {}
    /\ delivered \cap discarded = {}

WorkersInv ==
    /\ PoolTyped /\ OncePerPlace /\ ExitedIsDone /\ Partition
    /\ stage = "open" => discarded = {}

LEMMA PlacesApart == ASSUME Partition PROVE
    /\ UNION Range(Places) = accepted
    /\ \A i, j \in DOMAIN Places : i # j => Places[i] \cap Places[j] = {}
<1>1. /\ DOMAIN Places = 1 .. 5 /\ Places[1] = InQueues /\ Places[2] = InHands /\ Places[3] = InChannel
      /\ Places[4] = delivered /\ Places[5] = discarded
  BY DEF Places
<1>2. \A i \in 1 .. 5 : i = 1 \/ i = 2 \/ i = 3 \/ i = 4 \/ i = 5 OBVIOUS
<1>3. Range(Places) = {InQueues, InHands, InChannel, delivered, discarded} BY <1>1, <1>2 DEF Range
<1>4. \A i, j \in DOMAIN Places : i # j => Places[i] \cap Places[j] = {} BY <1>1, <1>2 DEF Partition
<1> QED BY <1>3, <1>4 DEF Partition

LEMMA WorkersLoseNothing == ASSUME WorkersInv PROVE NoLookupLost
<1>1. ASSUME stage = "joined" PROVE accepted = delivered \cup discarded
  <2>1. \A w \in Workers : working[w] = Exited /\ queues[w] = <<>> BY <1>1 DEF WorkersInv, ExitedIsDone
  <2>2. InQueues = {} BY <2>1 DEF InQueues, Range
  <2>3. InHands = {} BY <2>1 DEF InHands
  <2>4. InChannel = {} BY <1>1 DEF WorkersInv, ExitedIsDone, InChannel, Range
  <2> QED BY <2>2, <2>3, <2>4 DEF WorkersInv, Partition
<1> QED BY <1>1, PlacesApart DEF WorkersInv, NoLookupLost

\* Trying WorkerCount queues from any of them on tries every queue.
LEMMA ProbeReachesAll ==
    ASSUME nextWorker \in Workers, NEW w \in Workers
    PROVE  \E offset \in Workers : Probe(offset) = w
<1>1. WorkerCount \in Nat /\ WorkerCount > 0 BY WorkerAssumption
<1>2. nextWorker \in 0 .. WorkerCount - 1 /\ w \in 0 .. WorkerCount - 1 BY DEF Workers
<1>3. CASE w >= nextWorker
  <2>1. w - nextWorker \in Workers BY <1>1, <1>2, <1>3 DEF Workers
  <2>2. (nextWorker + (w - nextWorker)) % WorkerCount = w BY <1>1, <1>2
  <2> QED BY <2>1, <2>2 DEF Probe
<1>4. CASE w < nextWorker
  <2>1. w - nextWorker + WorkerCount \in Workers BY <1>1, <1>2, <1>4 DEF Workers
  <2>2. (nextWorker + (w - nextWorker + WorkerCount)) % WorkerCount = w BY <1>1, <1>2
  <2> QED BY <2>1, <2>2 DEF Probe
<1> QED BY <1>2, <1>3, <1>4

LEMMA ProbeIsWorker ==
    ASSUME nextWorker \in Workers, NEW offset \in Workers
    PROVE  Probe(offset) \in Workers
BY WorkerAssumption DEF Probe, Workers

\* enqueue finds a queue with room when there is one.
LEMMA ChosenHasRoom ==
    ASSUME nextWorker \in Workers, NEW v \in Workers, HasRoom(v)
    PROVE  Chosen \in Workers /\ HasRoom(Chosen)
<1> DEFINE T == {offset \in Workers : HasRoom(Probe(offset))}
           First(w, offset) == /\ w = Probe(offset) /\ HasRoom(w)
                               /\ \A before \in 0 .. offset - 1 : ~HasRoom(Probe(before))
<1>1. T # {} BY ProbeReachesAll
<1>2. Workers \subseteq Nat /\ \A offset \in Workers : 0 .. offset - 1 \subseteq Workers
  BY WorkerAssumption DEF Workers
<1>3. PICK m \in T : \A n \in T : m <= n BY <1>1, <1>2, LeastNatural
<1>4. \A before \in 0 .. m - 1 : ~HasRoom(Probe(before))
  <2> SUFFICES ASSUME NEW before \in 0 .. m - 1, HasRoom(Probe(before)) PROVE FALSE OBVIOUS
  <2>1. before \in T BY <1>2
  <2>2. m <= before /\ m \in Nat BY <1>2, <1>3, <2>1
  <2> QED BY <2>2
<1>5. m \in Workers /\ Probe(m) \in Workers /\ First(Probe(m), m) BY <1>3, <1>4, ProbeIsWorker
<1> HIDE DEF First
<1>6. \E w \in Workers : \E offset \in Workers : First(w, offset) BY <1>5
<1>7. Chosen = CHOOSE w \in Workers : \E offset \in Workers : First(w, offset) BY DEF Chosen, First
<1>8. Chosen \in Workers /\ \E offset \in Workers : First(Chosen, offset) BY <1>6, <1>7
<1> QED BY <1>8 DEF First

\* A queue changes: what is queued after it.
LEMMA QueueSet ==
    ASSUME PoolTyped, OncePerPlace, NEW w \in Workers, NEW q \in Seq(Items), Distinct(q),
           NEW x \in Items, queues' = [queues EXCEPT ![w] = q],
           \/ Range(q) = Range(queues[w]) \cup {x} /\ x \notin InQueues
           \/ Range(q) = Range(queues[w]) \ {x} /\ x \in Range(queues[w])
    PROVE  /\ queues' \in [Workers -> Seq(Items)] /\ queues'[w] = q
           /\ \A v \in Workers : v # w => queues'[v] = queues[v]
           /\ \A v \in Workers : Distinct(queues'[v])
           /\ \A u, v \in Workers : u # v => Range(queues'[u]) \cap Range(queues'[v]) = {}
           /\ \/ InQueues' = InQueues \cup {x} /\ x \notin InQueues
              \/ InQueues' = InQueues \ {x} /\ x \in InQueues
<1>1. /\ queues' \in [Workers -> Seq(Items)] /\ queues'[w] = q
      /\ \A v \in Workers : v # w => queues'[v] = queues[v]
  BY DEF PoolTyped
<1>2. \A v \in Workers : Distinct(queues'[v]) BY <1>1 DEF OncePerPlace
<1>3. \A v \in Workers : v # w => x \notin Range(queues[v]) BY DEF InQueues, OncePerPlace
<1>4. \A u, v \in Workers : u # v => Range(queues[u]) \cap Range(queues[v]) = {} BY DEF OncePerPlace
<1>5. \A v \in Workers : v # w => Range(q) \cap Range(queues[v]) = {} BY <1>3, <1>4
<1>6. \A u, v \in Workers : u # v => Range(queues'[u]) \cap Range(queues'[v]) = {} BY <1>1, <1>4, <1>5
<1>7. InQueues' = UNION {Range(queues'[v]) : v \in Workers} BY DEF InQueues
<1>8. InQueues = UNION {Range(queues[v]) : v \in Workers} BY DEF InQueues
<1>9. CASE Range(q) = Range(queues[w]) \cup {x} /\ x \notin InQueues
  <2>1. \A v \in Workers : v # w => Range(queues'[v]) = Range(queues[v]) BY <1>1
  <2>2. Range(queues'[w]) = Range(queues[w]) \cup {x} BY <1>1, <1>9
  <2>3. \A y : y \in InQueues' <=> y \in InQueues \cup {x} BY <1>7, <1>8, <2>1, <2>2
  <2>4. InQueues' = InQueues \cup {x} BY <2>3
  <2> QED BY <1>1, <1>2, <1>6, <1>9, <2>4
<1>10. CASE Range(q) = Range(queues[w]) \ {x} /\ x \in Range(queues[w])
  <2>1. \A v \in Workers : Range(queues'[v]) = Range(queues[v]) \ {x} BY <1>1, <1>3, <1>10
  <2>2. InQueues' = InQueues \ {x} /\ x \in InQueues BY <1>7, <1>8, <1>10, <2>1
  <2> QED BY <1>1, <1>2, <1>6, <2>2
<1> QED BY <1>9, <1>10

\* What is in whose hands, when a worker takes or gives up an item.
LEMMA HandSet ==
    ASSUME PoolTyped, OncePerPlace, NEW w \in Workers, NEW x \in Items \cup {Idle, Exited},
           working' = [working EXCEPT ![w] = x], x \notin InHands
    PROVE  /\ working' \in [Workers -> Items \cup {Idle, Exited}] /\ working'[w] = x
           /\ \A v \in Workers : v # w => working'[v] = working[v]
           /\ \A u, v \in Workers : u # v /\ working'[u] = working'[v] => working'[u] \in {Idle, Exited}
           /\ InHands' = (InHands \ {working[w]}) \cup ({x} \ {Idle, Exited})
<1>1. /\ working' \in [Workers -> Items \cup {Idle, Exited}] /\ working'[w] = x
      /\ \A v \in Workers : v # w => working'[v] = working[v]
  BY DEF PoolTyped
<1>2. \A v \in Workers : working[v] \in InHands \/ working[v] \in {Idle, Exited} BY DEF InHands
<1>3. \A u, v \in Workers : u # v /\ working[u] = working[v] => working[u] \in {Idle, Exited} BY DEF OncePerPlace
<1>4. \A u, v \in Workers : u # v /\ working'[u] = working'[v] => working'[u] \in {Idle, Exited}
  BY <1>1, <1>2, <1>3
<1>5. InHands' = {working'[v] : v \in Workers} \ {Idle, Exited} BY DEF InHands
<1>6. InHands = {working[v] : v \in Workers} \ {Idle, Exited} BY DEF InHands
<1>7. \A v \in Workers : v # w => working[v] # working[w] \/ working[v] \in {Idle, Exited} BY <1>3
<1>8. InHands' = (InHands \ {working[w]}) \cup ({x} \ {Idle, Exited}) BY <1>1, <1>5, <1>6, <1>7
<1> QED BY <1>1, <1>4, <1>8

\* An item stays an item: neither Idle nor Exited is one.
LEMMA ItemsAreNot == ASSUME NEW x \in Items PROVE x # Idle /\ x # Exited
BY EnrichmentAssumption

\* enqueue: a lookup that is new gets a place, or none.
LEMMA EnqueueKeeps ==
    ASSUME WorkersInv, NEW item \in Items, item \notin accepted, Enqueue(item)
    PROVE  /\ WorkersInv'
           /\ accepted' = IF Saturated \/ Disconnected THEN accepted ELSE accepted \cup {item}
<1>0. PoolTyped /\ OncePerPlace /\ ExitedIsDone /\ Partition BY DEF WorkersInv
<1>1. UNCHANGED <<working, results, stage, delivered, discarded>> BY DEF Enqueue
<1>2. InHands' = InHands /\ InChannel' = InChannel BY <1>1 DEF InHands, InChannel
<1>3. nextWorker' \in Workers
  <2>1. nextWorker \in Workers BY <1>0 DEF PoolTyped
  <2>2. nextWorker \in Nat /\ WorkerCount \in Nat /\ WorkerCount > 0 BY <2>1, WorkerAssumption DEF Workers
  <2>3. (nextWorker + 1) % WorkerCount \in Workers BY <2>2 DEF Workers
  <2> QED BY <2>1, <2>3 DEF Enqueue
<1>4. CASE Saturated \/ Disconnected
  <2>1. UNCHANGED <<queues, accepted>> BY <1>4 DEF Enqueue
  <2>2. InQueues' = InQueues BY <2>1 DEF InQueues
  <2>3. PoolTyped' BY <1>0, <1>1, <1>3, <2>1 DEF PoolTyped
  <2>4. OncePerPlace' /\ ExitedIsDone' BY <1>0, <1>1, <2>1 DEF OncePerPlace, ExitedIsDone
  <2>5. Partition' BY <1>0, <1>1, <1>2, <2>1, <2>2 DEF Partition
  <2> QED BY <1>1, <1>4, <2>1, <2>3, <2>4, <2>5 DEF WorkersInv
<1>5. CASE ~(Saturated \/ Disconnected)
  <2> DEFINE w == Chosen
             q == Append(queues[w], item)
  <2>1. stage = "open" /\ \E v \in Workers : HasRoom(v) BY <1>5 DEF Saturated, Disconnected
  <2>2. w \in Workers BY <1>0, <2>1, ChosenHasRoom DEF PoolTyped
  <2>3. queues' = [queues EXCEPT ![w] = Append(queues[w], item)] /\ accepted' = accepted \cup {item}
    BY <1>5 DEF Enqueue
  <2> HIDE DEF w
  <2>4. item \notin InQueues /\ item \notin InHands /\ item \notin InChannel /\ item \notin delivered /\ item \notin discarded
    BY <1>0 DEF Partition
  <2>5. queues[w] \in Seq(Items) /\ Distinct(queues[w]) BY <1>0, <2>2 DEF PoolTyped, OncePerPlace
  <2>6. item \notin Range(queues[w]) BY <2>2, <2>4 DEF InQueues
  <2>7. q \in Seq(Items) /\ Range(q) = Range(queues[w]) \cup {item} /\ Distinct(q)
    BY <2>5, <2>6, AppendedRange
  <2>8. queues' = [queues EXCEPT ![w] = q] BY <2>3
  <2> HIDE DEF q
  <2>9. /\ queues' \in [Workers -> Seq(Items)] /\ queues'[w] = q
        /\ \A v \in Workers : v # w => queues'[v] = queues[v]
        /\ \A v \in Workers : Distinct(queues'[v])
        /\ \A u, v \in Workers : u # v => Range(queues'[u]) \cap Range(queues'[v]) = {}
        /\ \/ InQueues' = InQueues \cup {item} /\ item \notin InQueues
           \/ InQueues' = InQueues \ {item} /\ item \in InQueues
    BY <1>0, <2>2, <2>4, <2>7, <2>8, QueueSet
  <2>10. InQueues' = InQueues \cup {item} BY <2>4, <2>9
  <2>11. PoolTyped' BY <1>0, <1>1, <1>3, <2>9 DEF PoolTyped
  <2>12. OncePerPlace' BY <1>0, <1>1, <2>9 DEF OncePerPlace
  <2>13. ExitedIsDone' BY <1>0, <1>1, <2>1 DEF ExitedIsDone
  <2>14. Partition' BY <1>0, <1>1, <1>2, <2>3, <2>4, <2>10 DEF Partition
  <2> QED BY <1>1, <1>5, <2>3, <2>11, <2>12, <2>13, <2>14 DEF WorkersInv
<1> QED BY <1>4, <1>5

\* A worker takes the next item of its queue.
LEMMA ReceiveKeeps == ASSUME WorkersInv, NEW w \in Workers, Receive(w) PROVE WorkersInv'
<1>0. PoolTyped /\ OncePerPlace /\ ExitedIsDone /\ Partition BY DEF WorkersInv
<1> DEFINE x == Head(queues[w])
           q == Tail(queues[w])
<1>1. /\ working[w] = Idle /\ queues[w] # <<>> /\ working' = [working EXCEPT ![w] = x]
      /\ queues' = [queues EXCEPT ![w] = q]
      /\ UNCHANGED <<results, nextWorker, stage, accepted, delivered, discarded>>
  BY DEF Receive
<1>2. queues[w] \in Seq(Items) /\ Distinct(queues[w]) BY <1>0 DEF PoolTyped, OncePerPlace
<1>3. /\ x \in Items /\ x \in Range(queues[w]) /\ q \in Seq(Items) /\ Distinct(q)
      /\ Range(q) = Range(queues[w]) \ {x}
  BY <1>1, <1>2, TailRange
<1> HIDE DEF x, q
<1>4. x \in InQueues /\ x \notin InHands /\ x \notin InChannel /\ x \notin delivered /\ x \notin discarded
  BY <1>0, <1>3 DEF InQueues, Partition
<1>5. /\ queues' \in [Workers -> Seq(Items)] /\ queues'[w] = q
      /\ \A v \in Workers : v # w => queues'[v] = queues[v]
      /\ \A v \in Workers : Distinct(queues'[v])
      /\ \A u, v \in Workers : u # v => Range(queues'[u]) \cap Range(queues'[v]) = {}
      /\ \/ InQueues' = InQueues \cup {x} /\ x \notin InQueues
         \/ InQueues' = InQueues \ {x} /\ x \in InQueues
  BY <1>0, <1>1, <1>3, QueueSet
<1>6. /\ working' \in [Workers -> Items \cup {Idle, Exited}] /\ working'[w] = x
      /\ \A v \in Workers : v # w => working'[v] = working[v]
      /\ \A u, v \in Workers : u # v /\ working'[u] = working'[v] => working'[u] \in {Idle, Exited}
      /\ InHands' = (InHands \ {working[w]}) \cup ({x} \ {Idle, Exited})
  BY <1>0, <1>1, <1>3, <1>4, HandSet
<1>7. InQueues' = InQueues \ {x} /\ InHands' = InHands \cup {x} /\ InChannel' = InChannel
  <2>1. x # Idle /\ x # Exited BY <1>3, ItemsAreNot
  <2>2. Idle \notin InHands BY DEF InHands
  <2> QED BY <1>1, <1>4, <1>5, <1>6, <2>1, <2>2 DEF InChannel
<1>8. PoolTyped' BY <1>0, <1>1, <1>5, <1>6 DEF PoolTyped
<1>9. OncePerPlace' BY <1>0, <1>1, <1>5, <1>6 DEF OncePerPlace
<1>10. ExitedIsDone'
  <2>1. working'[w] # Exited /\ working[w] # Exited BY <1>1, <1>3, <1>6, ItemsAreNot, WorkerAssumption
  <2> QED BY <1>0, <1>1, <1>5, <1>6, <2>1 DEF ExitedIsDone
<1>11. Partition' BY <1>0, <1>1, <1>4, <1>7 DEF Partition
<1> QED BY <1>1, <1>8, <1>9, <1>10, <1>11 DEF WorkersInv

\* It publishes the result.
LEMMA PublishKeeps == ASSUME WorkersInv, NEW w \in Workers, Publish(w) PROVE WorkersInv'
<1>0. PoolTyped /\ OncePerPlace /\ ExitedIsDone /\ Partition BY DEF WorkersInv
<1> DEFINE x == working[w]
<1>1. /\ x \notin {Idle, Exited} /\ working' = [working EXCEPT ![w] = Idle] /\ results' = Append(results, x)
      /\ UNCHANGED <<queues, nextWorker, stage, accepted, delivered, discarded>>
  BY DEF Publish
<1>2. x \in Items /\ x \in InHands BY <1>0, <1>1 DEF PoolTyped, InHands
<1>3. x \notin InQueues /\ x \notin InChannel /\ x \notin delivered /\ x \notin discarded
  BY <1>0, <1>2 DEF Partition
<1>4. /\ working' \in [Workers -> Items \cup {Idle, Exited}] /\ working'[w] = Idle
      /\ \A v \in Workers : v # w => working'[v] = working[v]
      /\ \A u, v \in Workers : u # v /\ working'[u] = working'[v] => working'[u] \in {Idle, Exited}
      /\ InHands' = (InHands \ {working[w]}) \cup ({Idle} \ {Idle, Exited})
  <2>1. Idle \in Items \cup {Idle, Exited} /\ Idle \notin InHands BY DEF InHands
  <2> QED BY <1>0, <1>1, <2>1, HandSet
<1> HIDE DEF x
<1>5. /\ results' \in Seq(Items) /\ Range(results') = Range(results) \cup {x} /\ Distinct(results')
  BY <1>0, <1>1, <1>2, <1>3, AppendedRange DEF PoolTyped, OncePerPlace, InChannel
<1>6. InQueues' = InQueues /\ InHands' = InHands \ {x} /\ InChannel' = InChannel \cup {x}
  BY <1>1, <1>4, <1>5 DEF InQueues, InChannel, x
<1>7. PoolTyped' BY <1>0, <1>1, <1>4, <1>5 DEF PoolTyped
<1>8. OncePerPlace' BY <1>0, <1>1, <1>4, <1>5 DEF OncePerPlace
<1>9. ExitedIsDone'
  <2>1. stage # "joined" BY <1>0, <1>1 DEF ExitedIsDone, x
  <2>2. Idle # Exited BY WorkerAssumption
  <2> QED BY <1>0, <1>1, <1>4, <2>1, <2>2 DEF ExitedIsDone
<1>10. Partition' BY <1>0, <1>1, <1>2, <1>3, <1>6 DEF Partition
<1> QED BY <1>1, <1>7, <1>8, <1>9, <1>10 DEF WorkersInv

\* It leaves.
LEMMA ExitKeeps == ASSUME WorkersInv, NEW w \in Workers, Exit(w) PROVE WorkersInv'
<1>0. PoolTyped /\ OncePerPlace /\ ExitedIsDone /\ Partition BY DEF WorkersInv
<1>1. /\ working[w] = Idle /\ queues[w] = <<>> /\ stage # "open" /\ working' = [working EXCEPT ![w] = Exited]
      /\ UNCHANGED <<queues, results, nextWorker, stage, accepted, delivered, discarded>>
  BY DEF Exit
<1>2. /\ working' \in [Workers -> Items \cup {Idle, Exited}] /\ working'[w] = Exited
      /\ \A v \in Workers : v # w => working'[v] = working[v]
      /\ \A u, v \in Workers : u # v /\ working'[u] = working'[v] => working'[u] \in {Idle, Exited}
      /\ InHands' = (InHands \ {working[w]}) \cup ({Exited} \ {Idle, Exited})
  <2>1. Exited \in Items \cup {Idle, Exited} /\ Exited \notin InHands BY DEF InHands
  <2> QED BY <1>0, <1>1, <2>1, HandSet
<1>3. InQueues' = InQueues /\ InHands' = InHands /\ InChannel' = InChannel
  <2>1. Idle \notin InHands BY DEF InHands
  <2> QED BY <1>1, <1>2, <2>1 DEF InQueues, InChannel
<1>4. PoolTyped' BY <1>0, <1>1, <1>2 DEF PoolTyped
<1>5. OncePerPlace' BY <1>0, <1>1, <1>2 DEF OncePerPlace
<1>6. ExitedIsDone' BY <1>0, <1>1, <1>2 DEF ExitedIsDone
<1>7. Partition' BY <1>0, <1>1, <1>3 DEF Partition
<1> QED BY <1>1, <1>4, <1>5, <1>6, <1>7 DEF WorkersInv

\* A result is taken from the channel.
LEMMA DeliverKeeps == ASSUME WorkersInv, Deliver PROVE WorkersInv' /\ Head(results) \in accepted
<1>0. PoolTyped /\ OncePerPlace /\ ExitedIsDone /\ Partition BY DEF WorkersInv
<1> DEFINE x == Head(results)
<1>1. /\ results # <<>> /\ delivered' = delivered \cup {x} /\ results' = Tail(results)
      /\ UNCHANGED <<queues, working, nextWorker, stage, accepted, discarded>>
  BY DEF Deliver
<1>2. /\ x \in Items /\ x \in Range(results) /\ results' \in Seq(Items) /\ Distinct(results')
      /\ Range(results') = Range(results) \ {x}
  BY <1>0, <1>1, TailRange DEF PoolTyped, OncePerPlace
<1> HIDE DEF x
<1>3. x \in InChannel /\ x \notin InQueues /\ x \notin InHands /\ x \notin discarded /\ x \in accepted
  BY <1>0, <1>2 DEF Partition, InChannel
<1>4. InQueues' = InQueues /\ InHands' = InHands /\ InChannel' = InChannel \ {x}
  BY <1>1, <1>2 DEF InQueues, InHands, InChannel
<1>5. PoolTyped' BY <1>0, <1>1, <1>2 DEF PoolTyped
<1>6. OncePerPlace' BY <1>0, <1>1, <1>2 DEF OncePerPlace
<1>7. ExitedIsDone' BY <1>0, <1>1 DEF ExitedIsDone
<1>8. Partition' BY <1>0, <1>1, <1>3, <1>4 DEF Partition
<1> QED BY <1>1, <1>3, <1>5, <1>6, <1>7, <1>8 DEF WorkersInv, x

\* stop_all throws away what is in the channel.
LEMMA DrainKeeps == ASSUME WorkersInv, StopDrain \/ StopJoin PROVE WorkersInv'
<1>0. PoolTyped /\ OncePerPlace /\ ExitedIsDone /\ Partition BY DEF WorkersInv
<1>1. /\ stage = "draining" /\ results' = <<>> /\ discarded' = discarded \cup InChannel
      /\ stage' = "draining" \/ (stage' = "joined" /\ \A w \in Workers : working[w] = Exited)
      /\ UNCHANGED <<queues, working, nextWorker, accepted, delivered>>
  BY DEF StopDrain, StopJoin, InChannel
<1>2. results' \in Seq(Items) /\ Range(results') = {} /\ Distinct(results') BY <1>1 DEF Range, Distinct
<1>3. InQueues' = InQueues /\ InHands' = InHands /\ InChannel' = {}
  BY <1>1, <1>2 DEF InQueues, InHands, InChannel
<1>4. PoolTyped' BY <1>0, <1>1, <1>2 DEF PoolTyped
<1>5. OncePerPlace' BY <1>0, <1>1, <1>2 DEF OncePerPlace
<1>6. ExitedIsDone' BY <1>0, <1>1 DEF ExitedIsDone
<1>7. Partition' BY <1>0, <1>1, <1>3 DEF Partition
<1> QED BY <1>1, <1>4, <1>5, <1>6, <1>7 DEF WorkersInv

\* Admission ends.
LEMMA StopKeeps == ASSUME WorkersInv, StopAll \/ UNCHANGED workerVars PROVE WorkersInv'
<1>0. PoolTyped /\ OncePerPlace /\ ExitedIsDone /\ Partition BY DEF WorkersInv
<1>1. /\ UNCHANGED <<queues, working, results, nextWorker, accepted, delivered, discarded>>
      /\ stage' = stage \/ stage' = "draining"
  BY DEF StopAll, workerVars
<1>2. InQueues' = InQueues /\ InHands' = InHands /\ InChannel' = InChannel BY <1>1 DEF InQueues, InHands, InChannel
<1>3. PoolTyped' BY <1>0, <1>1 DEF PoolTyped
<1>4. OncePerPlace' BY <1>0, <1>1 DEF OncePerPlace
<1>5. ExitedIsDone' BY <1>0, <1>1 DEF ExitedIsDone
<1>6. Partition' BY <1>0, <1>1, <1>2 DEF Partition
<1> QED BY <1>1, <1>3, <1>4, <1>5, <1>6 DEF WorkersInv

-----------------------------------------------------------------------------
(* The enrichment of an observation                                        *)

HandTyped ==
    /\ doing \in {"rest", "annotate", "enqueue", "drain"}
    /\ id \in Nat /\ (doing # "rest" => id > 0)
    /\ todo \in {<<>>, <<"destination">>, <<"source", "destination">>}
    /\ IsFiniteSet(accepted) /\ accepted \subseteq Items
    /\ offered \in Nat /\ processed \in Nat /\ failures \in Nat /\ saturated \in Nat

\* What is still to be handed over was never accepted: a lookup is not repeated.
LookupsAreNew ==
    /\ \A x \in accepted : x[1] \in 1 .. id
    /\ \A i \in DOMAIN todo : <<id, todo[i]>> \notin accepted
    /\ doing \in {"rest", "drain"} => todo = <<>>

EnrichInv == WorkersInv /\ HandTyped /\ LookupsAreNew /\ CountersAgree /\ store \subseteq 1 .. id

LEMMA EnrichInit == EnrichmentInit => EnrichInv
<1> SUFFICES ASSUME EnrichmentInit PROVE EnrichInv OBVIOUS
<1> USE DEF EnrichmentInit, WorkerInit
<1>1. InQueues = {} /\ InHands = {} /\ InChannel = {} BY DEF InQueues, InHands, InChannel, Range
<1>2. 0 \in Workers BY WorkerAssumption DEF Workers
<1>3. PoolTyped BY <1>2 DEF PoolTyped
<1>4. OncePerPlace BY DEF OncePerPlace, Distinct, Range
<1>5. ExitedIsDone BY WorkerAssumption DEF ExitedIsDone
<1>6. Partition BY <1>1 DEF Partition
<1>7. WorkersInv BY <1>3, <1>4, <1>5, <1>6 DEF WorkersInv
<1>8. IsFiniteSet(accepted) /\ Cardinality(accepted) = 0 BY FS_EmptySet
<1>9. HandTyped /\ LookupsAreNew /\ CountersAgree BY <1>8 DEF HandTyped, LookupsAreNew, CountersAgree
<1> QED BY <1>7, <1>9 DEF EnrichInv

LEMMA CountIsNatural == ASSUME HandTyped PROVE Cardinality(accepted) \in Nat
BY FS_CardinalityType DEF HandTyped

\* The next observation has a number that no lookup carries.
LEMMA TakeKeeps ==
    ASSUME EnrichInv, NEW addresses \in {<<>>, <<"source", "destination">>}, NEW parsed \in BOOLEAN,
           TakeNext(addresses, parsed)
    PROVE  EnrichInv'
<1>0. WorkersInv /\ HandTyped /\ LookupsAreNew /\ CountersAgree /\ store \subseteq 1 .. id BY DEF EnrichInv
<1>1. /\ doing = "rest" /\ id' = id + 1 /\ todo' = addresses /\ doing' = "annotate"
      /\ UNCHANGED workerVars /\ UNCHANGED <<store, offered, processed, saturated>>
      /\ failures' = failures \/ failures' = failures + 1
  BY DEF TakeNext
<1>2. WorkersInv' BY <1>0, <1>1, StopKeeps
<1>3. accepted' = accepted BY <1>1 DEF workerVars
<1>4. HandTyped' BY <1>0, <1>1, <1>3 DEF HandTyped
<1>5. LookupsAreNew'
  <2>1. id \in Nat BY <1>0 DEF HandTyped
  <2>2. \A x \in accepted : x[1] \in 1 .. id /\ x[1] # id + 1 BY <1>0, <2>1 DEF LookupsAreNew
  <2>3. \A a : <<id + 1, a>> \notin accepted BY <2>2
  <2> QED BY <1>1, <1>3, <2>1, <2>2, <2>3 DEF LookupsAreNew
<1>6. CountersAgree' BY <1>0, <1>1, <1>3, CountIsNatural DEF CountersAgree, HandTyped
<1>7. store' \subseteq 1 .. id' BY <1>0, <1>1 DEF HandTyped
<1> QED BY <1>2, <1>4, <1>5, <1>6, <1>7 DEF EnrichInv

LEMMA AnnotateKeeps == ASSUME EnrichInv, Annotate PROVE EnrichInv'
<1>0. WorkersInv /\ HandTyped /\ LookupsAreNew /\ CountersAgree /\ store \subseteq 1 .. id BY DEF EnrichInv
<1>1. /\ doing = "annotate" /\ doing' = "enqueue" /\ store' = store \cup {id}
      /\ UNCHANGED workerVars /\ UNCHANGED <<id, todo, offered, processed, failures, saturated>>
  BY DEF Annotate
<1>2. WorkersInv' BY <1>0, <1>1, StopKeeps
<1>3. accepted' = accepted BY <1>1 DEF workerVars
<1>4. HandTyped' BY <1>0, <1>1, <1>3 DEF HandTyped
<1>5. LookupsAreNew' BY <1>0, <1>1, <1>3 DEF LookupsAreNew
<1>6. CountersAgree' BY <1>0, <1>1, <1>3 DEF CountersAgree
<1>7. store' \subseteq 1 .. id' BY <1>0, <1>1 DEF HandTyped
<1> QED BY <1>2, <1>4, <1>5, <1>6, <1>7 DEF EnrichInv

\* An address handed over is accepted or counted.
LEMMA EnqueueOneKeeps == ASSUME EnrichInv, EnqueueOne PROVE EnrichInv'
<1>0. WorkersInv /\ HandTyped /\ LookupsAreNew /\ CountersAgree /\ store \subseteq 1 .. id BY DEF EnrichInv
<1> DEFINE item == <<id, Head(todo)>>
<1>1. /\ doing = "enqueue" /\ todo # <<>> /\ Enqueue(item) /\ offered' = offered + 1 /\ todo' = Tail(todo)
      /\ saturated' = IF Saturated THEN saturated + 1 ELSE saturated
      /\ failures' = IF Disconnected THEN failures + 1 ELSE failures
      /\ UNCHANGED <<doing, id, store, processed>>
  BY DEF EnqueueOne
<1>2. todo = <<"destination">> \/ todo = <<"source", "destination">> BY <1>0, <1>1 DEF HandTyped
<1>3. /\ 1 \in DOMAIN todo /\ Head(todo) = todo[1] /\ Head(todo) \in {"source", "destination"}
      /\ Tail(todo) \in {<<>>, <<"destination">>}
      /\ \A i \in DOMAIN Tail(todo) : i + 1 \in DOMAIN todo /\ Tail(todo)[i] = todo[i + 1] /\ Tail(todo)[i] # Head(todo)
  <2>1. CASE todo = <<"destination">> BY <2>1
  <2>2. CASE todo = <<"source", "destination">> BY <2>2
  <2> QED BY <1>2, <2>1, <2>2
<1>4. item \in Items /\ item \notin accepted BY <1>0, <1>3 DEF Items, HandTyped, LookupsAreNew
<1>5. item[1] = id /\ item[2] = Head(todo) OBVIOUS
<1>6. \A i \in DOMAIN Tail(todo) : <<id, Tail(todo)[i]>> # item BY <1>3
<1> HIDE DEF item
<1>7. WorkersInv' /\ accepted' = IF Saturated \/ Disconnected THEN accepted ELSE accepted \cup {item}
  BY <1>0, <1>1, <1>4, EnqueueKeeps
<1>8. accepted' \subseteq accepted \cup {item} BY <1>7
<1>9. LookupsAreNew'
  <2>1. id \in 1 .. id BY <1>0, <1>1 DEF HandTyped
  <2>2. \A x \in accepted' : x[1] \in 1 .. id' BY <1>0, <1>1, <1>5, <1>8, <2>1 DEF LookupsAreNew
  <2>3. \A i \in DOMAIN todo' : <<id', todo'[i]>> \notin accepted'
    BY <1>0, <1>1, <1>3, <1>6, <1>8 DEF LookupsAreNew
  <2> QED BY <1>1, <2>2, <2>3 DEF LookupsAreNew
<1>10. IsFiniteSet(accepted') /\ accepted' \subseteq Items
  <2>1. IsFiniteSet(accepted \cup {item}) BY <1>0, FS_AddElement DEF HandTyped
  <2> QED BY <1>0, <1>4, <1>7, <2>1 DEF HandTyped
<1>11. HandTyped' BY <1>0, <1>1, <1>3, <1>10 DEF HandTyped
<1>12. CountersAgree'
  <2> DEFINE n == Cardinality(accepted)
  <2>1. n \in Nat BY <1>0, CountIsNatural
  <2>2. Cardinality(accepted \cup {item}) = n + 1 BY <1>0, <1>4, FS_AddElement DEF HandTyped
  <2>3. offered \in Nat /\ saturated \in Nat /\ failures \in Nat BY <1>0 DEF HandTyped
  <2>4. offered <= n + saturated + failures /\ n + saturated <= offered BY <1>0 DEF CountersAgree
  <2>5. processed' = IF doing' = "rest" THEN id' ELSE id' - 1 BY <1>0, <1>1 DEF CountersAgree
  <2> HIDE DEF n
  <2>6. CASE Saturated
    <3>1. ~Disconnected BY <2>6 DEF Saturated, Disconnected
    <3>2. saturated' = saturated + 1 /\ failures' = failures /\ accepted' = accepted BY <1>1, <1>7, <2>6, <3>1
    <3>3. Cardinality(accepted') = n BY <3>2 DEF n
    <3> QED BY <1>1, <2>1, <2>3, <2>4, <2>5, <3>2, <3>3 DEF CountersAgree
  <2>7. CASE Disconnected
    <3>1. ~Saturated BY <2>7 DEF Saturated, Disconnected
    <3>2. saturated' = saturated /\ failures' = failures + 1 /\ accepted' = accepted BY <1>1, <1>7, <2>7, <3>1
    <3>3. Cardinality(accepted') = n BY <3>2 DEF n
    <3> QED BY <1>1, <2>1, <2>3, <2>4, <2>5, <3>2, <3>3 DEF CountersAgree
  <2>8. CASE ~Saturated /\ ~Disconnected
    <3>1. saturated' = saturated /\ failures' = failures /\ accepted' = accepted \cup {item} BY <1>1, <1>7, <2>8
    <3>2. Cardinality(accepted') = n + 1 BY <2>2, <3>1
    <3> QED BY <1>1, <2>1, <2>3, <2>4, <2>5, <3>1, <3>2 DEF CountersAgree
  <2> QED BY <2>6, <2>7, <2>8
<1>13. store' \subseteq 1 .. id' BY <1>0, <1>1
<1> QED BY <1>7, <1>9, <1>11, <1>12, <1>13 DEF EnrichInv

LEMMA DrainOneKeeps == ASSUME EnrichInv, DrainOne PROVE EnrichInv'
<1>0. WorkersInv /\ HandTyped /\ LookupsAreNew /\ CountersAgree /\ store \subseteq 1 .. id BY DEF EnrichInv
<1>1. /\ Deliver /\ store' = store \cup {Head(results)[1]}
      /\ UNCHANGED <<doing, id, todo, offered, processed, failures, saturated>>
  BY DEF DrainOne
<1>2. WorkersInv' /\ Head(results) \in accepted BY <1>0, <1>1, DeliverKeeps
<1>3. accepted' = accepted BY <1>1 DEF Deliver
<1>4. HandTyped' BY <1>0, <1>1, <1>3 DEF HandTyped
<1>5. LookupsAreNew' BY <1>0, <1>1, <1>3 DEF LookupsAreNew
<1>6. CountersAgree' BY <1>0, <1>1, <1>3 DEF CountersAgree
<1>7. store' \subseteq 1 .. id' BY <1>0, <1>1, <1>2 DEF LookupsAreNew
<1> QED BY <1>2, <1>4, <1>5, <1>6, <1>7 DEF EnrichInv

\* The steps that change where the processing thread is and no lookup.
LEMMA StepsKeep ==
    ASSUME EnrichInv, EnqueueDone \/ DrainDone \/ Stop \/ UNCHANGED enrichmentVars
    PROVE  EnrichInv'
<1>0. WorkersInv /\ HandTyped /\ LookupsAreNew /\ CountersAgree /\ store \subseteq 1 .. id BY DEF EnrichInv
<1>1. /\ StopAll \/ UNCHANGED workerVars
      /\ UNCHANGED <<id, todo, store, offered, failures, saturated>>
      /\ \/ doing = "enqueue" /\ todo = <<>> /\ doing' = "drain" /\ processed' = processed
         \/ doing = "drain" /\ doing' = "rest" /\ processed' = processed + 1
         \/ doing' = doing /\ processed' = processed
  BY DEF EnqueueDone, DrainDone, Stop, enrichmentVars, enrichVars
<1>2. WorkersInv' BY <1>0, <1>1, StopKeeps
<1>3. accepted' = accepted BY <1>1 DEF StopAll, workerVars
<1>4. HandTyped' BY <1>0, <1>1, <1>3 DEF HandTyped
<1>5. LookupsAreNew' BY <1>0, <1>1, <1>3 DEF LookupsAreNew
<1>6. CountersAgree' BY <1>0, <1>1, <1>3 DEF CountersAgree, HandTyped
<1> QED BY <1>0, <1>1, <1>2, <1>4, <1>5, <1>6 DEF EnrichInv

\* The workers' steps, and the end of stop_all.
LEMMA PoolStepsKeep ==
    ASSUME EnrichInv, (\E w \in Workers : WorkerStep(w)) \/ Drain \/ Finish
    PROVE  EnrichInv'
<1>0. WorkersInv /\ HandTyped /\ LookupsAreNew /\ CountersAgree /\ store \subseteq 1 .. id BY DEF EnrichInv
<1>1. /\ UNCHANGED <<doing, id, todo, offered, processed, failures, saturated>> /\ accepted' = accepted
      /\ store' = store \/ store' = {}
  BY DEF WorkerStep, Worker, Receive, Publish, Exit, Drain, Finish, StopDrain, StopJoin, enrichVars
<1>2. WorkersInv'
  <2>1. ASSUME NEW w \in Workers, WorkerStep(w) PROVE WorkersInv'
    BY <1>0, <2>1, ReceiveKeeps, PublishKeeps, ExitKeeps DEF WorkerStep, Worker
  <2>2. CASE Drain \/ Finish BY <1>0, <2>2, DrainKeeps DEF Drain, Finish
  <2> QED BY <2>1, <2>2
<1>3. HandTyped' BY <1>0, <1>1 DEF HandTyped
<1>4. LookupsAreNew' BY <1>0, <1>1 DEF LookupsAreNew
<1>5. CountersAgree' BY <1>0, <1>1 DEF CountersAgree
<1> QED BY <1>0, <1>1, <1>2, <1>3, <1>4, <1>5 DEF EnrichInv

LEMMA EnrichNext == EnrichInv /\ [EnrichmentNext]_enrichmentVars => EnrichInv'
<1> SUFFICES ASSUME EnrichInv, [EnrichmentNext]_enrichmentVars PROVE EnrichInv' OBVIOUS
<1>1. ASSUME NEW addresses \in {<<>>, <<"source", "destination">>}, NEW parsed \in BOOLEAN,
             TakeNext(addresses, parsed)
      PROVE  EnrichInv'
  BY <1>1, TakeKeeps
<1>2. CASE Annotate BY <1>2, AnnotateKeeps
<1>3. CASE EnqueueOne BY <1>3, EnqueueOneKeeps
<1>4. CASE DrainOne BY <1>4, DrainOneKeeps
<1>5. CASE EnqueueDone \/ DrainDone \/ Stop \/ UNCHANGED enrichmentVars BY <1>5, StepsKeep
<1>6. CASE (\E w \in Workers : WorkerStep(w)) \/ Drain \/ Finish BY <1>6, PoolStepsKeep
<1> QED BY <1>1, <1>2, <1>3, <1>4, <1>5, <1>6 DEF EnrichmentNext, Process

\* The inductive invariant of the enrichment: every lookup is new when it is
\* handed over and in one place afterwards, once in it, and a worker that has
\* ended left an empty queue behind (processing.rs:274-341, workers.rs:84-199).
THEOREM EnrichmentInvariant == EnrichmentSpec => []EnrichInv
<1>1. EnrichmentInit => EnrichInv BY EnrichInit
<1>2. EnrichInv /\ [EnrichmentNext]_enrichmentVars => EnrichInv' BY EnrichNext
<1> QED BY <1>1, <1>2, PTL DEF EnrichmentSpec

\* However the workers, the processing thread and stop_all interleave, an
\* accepted lookup is never lost, answered twice or answered and thrown away,
\* a refused one shows in the statistics, and metadata is kept only for
\* observations that were taken (EnrichmentInv).
THEOREM LookupsAccountedFor == EnrichmentSpec => []EnrichmentInv
<1>1. EnrichInv => EnrichmentInv BY WorkersLoseNothing DEF EnrichInv, EnrichmentInv
<1> QED BY <1>1, EnrichmentInvariant, PTL

-----------------------------------------------------------------------------
(* The engine's flags and the Host's policy                                *)

IsCall(c) ==
    \/ c = NoCall \/ c = [op |-> "init"]
    \/ \E a : c = [op |-> "fail", at |-> a]
    \/ \E a, p : c = [op |-> "gateway", at |-> a, policy |-> p]
    \/ \E a, u, p : c = [op |-> "packet", at |-> a, update |-> u, policy |-> p]

CallTyped ==
    /\ call = [t \in Threads |-> call[t]]
    /\ \A t \in Threads : IsCall(call[t])

NobodyFails == \A t \in Threads : call[t].op # "fail"

\* An init in progress has cleared the stop flag, and nobody but a thread that
\* is failing the engine has set it since.
FlagInv ==
    /\ initialized \in BOOLEAN /\ shutdownRequested \in BOOLEAN
    /\ lifecycle \in {"ShuttingDown", "Stopped"} => shutdownRequested
    /\ lifecycle = "Stopped" => ~initialized
    /\ lifecycle = "Running" /\ NobodyFails => initialized /\ ~shutdownRequested
    /\ ~LifecycleFree /\ NobodyFails => ~shutdownRequested

\* The one thread with the engine lock holds a copy of the policy as it is,
\* with its update applied.
CopyIsCurrent ==
    /\ packetPolicy = intended
    /\ \A t \in Threads : call[t].op = "packet" => call[t].policy = Updated(packetPolicy, call[t].update)
    /\ \A s, t \in Threads : call[s].op = "packet" /\ call[t].op = "packet" => s = t

HostInv == CallTyped /\ FlagInv /\ CopyIsCurrent

\* A thread's record changes and no other's.
LEMMA CallStep ==
    ASSUME CallTyped, NEW t \in Threads, NEW c, IsCall(c), call' = [call EXCEPT ![t] = c]
    PROVE  CallTyped' /\ call'[t] = c /\ \A v \in Threads : v # t => call'[v] = call[v]
<1>1. /\ call' = [v \in Threads |-> IF v = t THEN c ELSE call[v]] BY DEF CallTyped
<1>2. call'[t] = c /\ \A v \in Threads : v # t => call'[v] = call[v] BY <1>1
<1>3. call' = [v \in Threads |-> call'[v]] BY <1>1
<1>4. \A v \in Threads : IsCall(call'[v]) BY <1>2 DEF CallTyped
<1> QED BY <1>2, <1>3, <1>4 DEF CallTyped

LEMMA ProceedCall ==
    ASSUME CallTyped, NEW t \in Threads, NEW a, Proceed(t, a), call[t].op # "none"
    PROVE  /\ CallTyped' /\ \A v \in Threads : v # t => call'[v] = call[v]
           /\ call'[t].op = call[t].op
           /\ call[t].op = "packet" => call'[t].update = call[t].update /\ call'[t].policy = call[t].policy
<1> DEFINE c == call[t]
           d == [c EXCEPT !.at = a]
<1>1. call' = [call EXCEPT ![t] = d] BY DEF Proceed
<1>2. IsCall(c) BY DEF CallTyped
<1>3. /\ IsCall(d) /\ d.op = c.op
      /\ c.op = "packet" => d.update = c.update /\ d.policy = c.policy
  <2>1. CASE c = NoCall \/ c = [op |-> "init"]
    <3>1. d = c BY <2>1 DEF NoCall
    <3> QED BY <1>2, <3>1
  <2>2. ASSUME NEW b, c = [op |-> "fail", at |-> b]
        PROVE  IsCall(d) /\ d.op = c.op /\ c.op # "packet"
    <3>1. d = [op |-> "fail", at |-> a] BY <2>2
    <3>2. IsCall(d) BY <3>1 DEF IsCall
    <3> QED BY <2>2, <3>1, <3>2
  <2>3. ASSUME NEW b, NEW p, c = [op |-> "gateway", at |-> b, policy |-> p]
        PROVE  IsCall(d) /\ d.op = c.op /\ c.op # "packet"
    <3>1. d = [op |-> "gateway", at |-> a, policy |-> p] BY <2>3
    <3>2. IsCall(d) BY <3>1 DEF IsCall
    <3> QED BY <2>3, <3>1, <3>2
  <2>4. ASSUME NEW b, NEW u, NEW p, c = [op |-> "packet", at |-> b, update |-> u, policy |-> p]
        PROVE  IsCall(d) /\ d.op = c.op /\ d.update = c.update /\ d.policy = c.policy
    <3>1. d = [op |-> "packet", at |-> a, update |-> u, policy |-> p] BY <2>4
    <3>2. IsCall(d) BY <3>1 DEF IsCall
    <3> QED BY <2>4, <3>1, <3>2
  <2> HIDE DEF c, d
  <2> QED BY <1>2, <2>1, <2>2, <2>3, <2>4 DEF IsCall
<1> HIDE DEF d
<1>4. CallTyped' /\ call'[t] = d /\ \A v \in Threads : v # t => call'[v] = call[v] BY <1>1, <1>3, CallStep
<1> QED BY <1>3, <1>4

LEMMA LeaveCall ==
    ASSUME CallTyped, NEW t \in Threads, Leave(t)
    PROVE  CallTyped' /\ call'[t].op = "none" /\ \A v \in Threads : v # t => call'[v] = call[v]
<1>1. IsCall(NoCall) /\ NoCall.op = "none" BY DEF IsCall, NoCall
<1> QED BY <1>1, CallStep DEF Leave

\* Calls come and go: what the flags need to know of a step.
LEMMA HostFrame ==
    ASSUME HostInv, CallTyped', NEW t \in Threads, \A v \in Threads : v # t => call'[v] = call[v],
           call'[t].op # "packet" \/ (call[t].op = "packet" /\ call'[t].update = call[t].update
                                       /\ call'[t].policy = call[t].policy),
           UNCHANGED <<packetPolicy, intended>>
    PROVE  CopyIsCurrent'
<1>1. CopyIsCurrent BY DEF HostInv
<1>2. \A v \in Threads : call'[v].op = "packet" =>
         call[v].op = "packet" /\ call'[v].update = call[v].update /\ call'[v].policy = call[v].policy
  OBVIOUS
<1>3. packetPolicy' = packetPolicy /\ intended' = intended OBVIOUS
<1>4. \A v \in Threads : call'[v].op = "packet" => call'[v].policy = Updated(packetPolicy, call'[v].update)
  BY <1>1, <1>2 DEF CopyIsCurrent
<1>5. \A v, w \in Threads : call'[v].op = "packet" /\ call'[w].op = "packet" => v = w BY <1>1, <1>2 DEF CopyIsCurrent
<1>6. packetPolicy' = intended' BY <1>1, <1>3 DEF CopyIsCurrent
<1> QED BY <1>3, <1>4, <1>5, <1>6 DEF CopyIsCurrent, Updated

LEMMA HostInit == PolicyInit => HostInv
<1> SUFFICES ASSUME PolicyInit PROVE HostInv OBVIOUS
<1>1. call = [t \in Threads |-> NoCall] BY DEF PolicyInit, EngineStateInit
<1>2. \A t \in Threads : call[t] = NoCall /\ call[t].op = "none" BY <1>1 DEF NoCall
<1>3. CallTyped BY <1>1, <1>2 DEF CallTyped, IsCall
<1>4. FlagInv BY <1>2 DEF PolicyInit, EngineStateInit, FlagInv, LifecycleFree
<1>5. CopyIsCurrent BY <1>2 DEF CopyIsCurrent, PolicyInit
<1> QED BY <1>3, <1>4, <1>5 DEF HostInv

\* The calls that do not touch the packet policy.
LEMMA StateKeeps ==
    ASSUME HostInv, EngineStateNext, UNCHANGED <<packetPolicy, intended>>
    PROVE  HostInv'
<1>0. CallTyped /\ FlagInv /\ CopyIsCurrent BY DEF HostInv
<1> PICK t \in Threads :
       \/ InitBegin(t) \/ InitEnd(t) \/ BeginShutdown(t) \/ StateShutdown(t)
       \/ MarkFailedFirst(t) \/ MarkFailedSecond(t) \/ MarkFailedThird(t)
       \/ RequireFlag(t) \/ RequireLifecycle(t)
       \/ StoreGatewayPolicy(t) \/ ClearGatewayPolicy(t)
       \/ \E p \in GatewayPolicies : SetGatewayPolicy(t, p)
  BY DEF EngineStateNext
<1> DEFINE Others == \A v \in Threads : v # t => call'[v] = call[v]
           NoCopy == call'[t].op # "packet" \/ (call[t].op = "packet" /\ call'[t].update = call[t].update
                                                 /\ call'[t].policy = call[t].policy)
<1>1. ASSUME NEW c, IsCall(c), Enter(t, c), c.op # "packet"
      PROVE  CallTyped' /\ Others /\ NoCopy /\ call[t].op = "none" /\ call'[t].op = c.op
  <2>1. call[t] = NoCall /\ call' = [call EXCEPT ![t] = c] BY <1>1 DEF Enter
  <2>2. CallTyped' /\ call'[t] = c /\ Others BY <1>0, <1>1, <2>1, CallStep
  <2>3. call[t].op = "none" BY <2>1 DEF NoCall
  <2> QED BY <1>1, <2>2, <2>3
<1>2. ASSUME Leave(t) PROVE CallTyped' /\ Others /\ NoCopy /\ call'[t].op = "none"
  BY <1>0, <1>2, LeaveCall
<1>3. ASSUME NEW a, Proceed(t, a), call[t].op # "none"
      PROVE  CallTyped' /\ Others /\ NoCopy /\ call'[t].op = call[t].op
  BY <1>0, <1>3, ProceedCall
<1>4. ASSUME call' = call PROVE CallTyped' /\ Others /\ NoCopy BY <1>0, <1>4 DEF CallTyped
<1>5. ASSUME CallTyped', Others, NoCopy, FlagInv' PROVE HostInv'
  BY <1>5, HostFrame DEF HostInv
<1>6. CASE InitBegin(t)
  <2> DEFINE c == [op |-> "init"]
  <2>1. IsCall(c) /\ c.op = "init" BY DEF IsCall
  <2>2. Enter(t, c) BY <1>6 DEF InitBegin
  <2> HIDE DEF c
  <2>3. CallTyped' /\ Others /\ NoCopy /\ call[t].op = "none" /\ call'[t].op = "init" BY <1>1, <2>1, <2>2
  <2>4. /\ lifecycle' = "Initializing" /\ shutdownRequested' = FALSE /\ initialized' = initialized
    BY <1>6 DEF InitBegin
  <2>5. FlagInv' BY <1>0, <2>4 DEF FlagInv
  <2> QED BY <1>5, <2>3, <2>5
<1>7. CASE InitEnd(t)
  <2>1. call[t].op = "init" /\ Leave(t) BY <1>7 DEF InitEnd
  <2>2. CallTyped' /\ Others /\ NoCopy /\ call'[t].op = "none" BY <1>2, <2>1
  <2>3. initialized' = TRUE /\ lifecycle' = "Running" /\ shutdownRequested' = shutdownRequested
    BY <1>7 DEF InitEnd
  <2>4. ~LifecycleFree BY <2>1 DEF LifecycleFree
  <2>5. NobodyFails' => NobodyFails BY <2>1, <2>2 DEF NobodyFails
  <2>6. FlagInv' BY <1>0, <2>3, <2>4, <2>5 DEF FlagInv
  <2> QED BY <1>5, <2>2, <2>6
<1>8. CASE BeginShutdown(t) \/ StateShutdown(t)
  <2>1. call' = call /\ LifecycleFree BY <1>8 DEF BeginShutdown, StateShutdown
  <2>2. CallTyped' /\ Others /\ NoCopy BY <1>4, <2>1
  <2>3. /\ shutdownRequested' = TRUE
        /\ \/ lifecycle' = "ShuttingDown" /\ initialized' = initialized
           \/ lifecycle' = "Stopped" /\ initialized' = FALSE
    BY <1>8 DEF BeginShutdown, StateShutdown
  <2>4. LifecycleFree' BY <2>1 DEF LifecycleFree
  <2>5. FlagInv' BY <1>0, <2>3, <2>4 DEF FlagInv
  <2> QED BY <1>5, <2>2, <2>5
<1>9. CASE MarkFailedFirst(t)
  <2> DEFINE c == [op |-> "fail", at |-> "initialized"]
  <2>1. IsCall(c) /\ c.op = "fail" BY DEF IsCall
  <2>2. Enter(t, c) BY <1>9 DEF MarkFailedFirst
  <2> HIDE DEF c
  <2>3. CallTyped' /\ Others /\ NoCopy /\ call[t].op = "none" /\ call'[t].op = "fail" BY <1>1, <2>1, <2>2
  <2>4. /\ lifecycle' = lifecycle /\ shutdownRequested' = shutdownRequested /\ initialized' = FALSE
    BY <1>9 DEF MarkFailedFirst
  <2>5. ~NobodyFails' BY <2>3 DEF NobodyFails
  <2>6. FlagInv' BY <1>0, <2>4, <2>5 DEF FlagInv
  <2> QED BY <1>5, <2>3, <2>6
<1>10. CASE MarkFailedSecond(t)
  <2>1. call[t].op = "fail" /\ Proceed(t, "requested") BY <1>10 DEF MarkFailedSecond
  <2>2. CallTyped' /\ Others /\ NoCopy /\ call'[t].op = "fail" BY <1>3, <2>1
  <2>3. lifecycle' = lifecycle /\ shutdownRequested' = TRUE /\ initialized' = initialized
    BY <1>10 DEF MarkFailedSecond
  <2>4. ~NobodyFails' BY <2>2 DEF NobodyFails
  <2>5. FlagInv' BY <1>0, <2>3, <2>4 DEF FlagInv
  <2> QED BY <1>5, <2>2, <2>5
<1>11. CASE MarkFailedThird(t)
  <2>1. Leave(t) /\ LifecycleFree BY <1>11 DEF MarkFailedThird
  <2>2. CallTyped' /\ Others /\ NoCopy /\ call'[t].op = "none" BY <1>2, <2>1
  <2>3. lifecycle' = "Failed" /\ shutdownRequested' = shutdownRequested /\ initialized' = initialized
    BY <1>11 DEF MarkFailedThird
  <2>4. LifecycleFree' BY <2>1, <2>2 DEF LifecycleFree
  <2>5. FlagInv' BY <1>0, <2>3, <2>4 DEF FlagInv
  <2> QED BY <1>5, <2>2, <2>5
<1>12. CASE RequireFlag(t) \/ RequireLifecycle(t) \/ StoreGatewayPolicy(t) \/ ClearGatewayPolicy(t)
            \/ \E p \in GatewayPolicies : SetGatewayPolicy(t, p)
  <2>1. UNCHANGED <<lifecycle, shutdownRequested, initialized>>
    BY <1>12 DEF RequireFlag, RequireLifecycle, StoreGatewayPolicy, ClearGatewayPolicy, SetGatewayPolicy, stateVars
  <2>2. /\ CallTyped' /\ Others /\ NoCopy
        /\ call'[t].op # "init" \/ call[t].op = "init"
        /\ call[t].op # "fail" \/ call'[t].op = "fail"
    <3>1. CASE RequireFlag(t) \/ RequireLifecycle(t)
      <4>1. call[t].op \in {"gateway", "packet"} /\ (Leave(t) \/ \E a : Proceed(t, a))
        BY <3>1 DEF RequireFlag, RequireLifecycle, AtRequire
      <4> HIDE DEF Others, NoCopy
      <4> QED BY <1>2, <1>3, <4>1
    <3>2. CASE StoreGatewayPolicy(t)
      <4>1. call[t].op = "gateway" /\ Leave(t) BY <3>2 DEF StoreGatewayPolicy
      <4> QED BY <1>2, <4>1
    <3>3. CASE ClearGatewayPolicy(t) BY <1>4, <3>3 DEF ClearGatewayPolicy
    <3>4. ASSUME NEW p \in GatewayPolicies, SetGatewayPolicy(t, p)
          PROVE  CallTyped' /\ Others /\ NoCopy /\ call'[t].op = "gateway" /\ call[t].op = "none"
      <4> DEFINE c == [op |-> "gateway", at |-> "start", policy |-> p]
      <4>1. IsCall(c) /\ c.op = "gateway" BY DEF IsCall
      <4>2. Enter(t, c) BY <3>4 DEF SetGatewayPolicy
      <4> HIDE DEF c
      <4> QED BY <1>1, <4>1, <4>2
    <3> QED BY <1>12, <3>1, <3>2, <3>3, <3>4
  <2>3. LifecycleFree => LifecycleFree' BY <2>2 DEF LifecycleFree
  <2>4. NobodyFails' => NobodyFails BY <2>2 DEF NobodyFails
  <2>5. FlagInv' BY <1>0, <2>1, <2>3, <2>4 DEF FlagInv
  <2> QED BY <1>5, <2>2, <2>5
<1> QED BY <1>6, <1>7, <1>8, <1>9, <1>10, <1>11, <1>12

LEMMA ReadKeeps ==
    ASSUME HostInv, NEW t \in Threads, NEW update \in Updates, ReadPolicy(t, update)
    PROVE  HostInv'
<1>0. CallTyped /\ FlagInv /\ CopyIsCurrent BY DEF HostInv
<1> DEFINE p == Updated(packetPolicy, update)
           c == [op |-> "packet", at |-> "start", update |-> update, policy |-> p]
<1>1. /\ EngineFree /\ call[t] = NoCall /\ call' = [call EXCEPT ![t] = c]
      /\ UNCHANGED <<packetPolicy, intended>> /\ UNCHANGED <<lifecycle, initialized, shutdownRequested>>
  BY DEF ReadPolicy, Enter, stateVars
<1> HIDE DEF p
<1>2. IsCall(c) /\ c.op = "packet" /\ c.update = update /\ c.policy = p BY DEF IsCall
<1> HIDE DEF c
<1>3. CallTyped' /\ call'[t] = c /\ \A v \in Threads : v # t => call'[v] = call[v] BY <1>0, <1>1, <1>2, CallStep
<1>4. call[t].op = "none" BY <1>1 DEF NoCall
<1>5. LifecycleFree => LifecycleFree' BY <1>2, <1>3 DEF LifecycleFree
<1>6. NobodyFails' => NobodyFails BY <1>3, <1>4 DEF NobodyFails
<1>7. FlagInv' BY <1>0, <1>1, <1>5, <1>6 DEF FlagInv
<1>8. \A v \in Threads : call'[v].op = "packet" => v = t BY <1>1, <1>3 DEF EngineFree
<1>9. call'[t].policy = Updated(packetPolicy, call'[t].update) BY <1>2, <1>3 DEF p
<1>10. \A v \in Threads : call'[v].op = "packet" => call'[v].policy = Updated(packetPolicy, call'[v].update)
  BY <1>8, <1>9
<1>11. CopyIsCurrent' BY <1>0, <1>1, <1>8, <1>10 DEF CopyIsCurrent, Updated
<1> QED BY <1>3, <1>7, <1>11 DEF HostInv

LEMMA StoreKeeps == ASSUME HostInv, NEW t \in Threads, StorePolicy(t) PROVE HostInv'
<1>0. CallTyped /\ FlagInv /\ CopyIsCurrent BY DEF HostInv
<1>1. /\ call[t].op = "packet" /\ Leave(t) /\ packetPolicy' = call[t].policy
      /\ intended' = Updated(intended, call[t].update)
      /\ UNCHANGED <<lifecycle, initialized, shutdownRequested>>
  BY DEF StorePolicy, stateVars
<1>2. CallTyped' /\ call'[t].op = "none" /\ \A v \in Threads : v # t => call'[v] = call[v]
  BY <1>0, <1>1, LeaveCall
<1>3. LifecycleFree => LifecycleFree' BY <1>2 DEF LifecycleFree
<1>4. NobodyFails' => NobodyFails BY <1>1, <1>2 DEF NobodyFails
<1>5. FlagInv' BY <1>0, <1>1, <1>3, <1>4 DEF FlagInv
<1>6. packetPolicy = intended /\ call[t].policy = Updated(packetPolicy, call[t].update)
  BY <1>0, <1>1 DEF CopyIsCurrent
<1>7. packetPolicy' = intended' BY <1>1, <1>6
<1>8. \A v \in Threads : call'[v].op # "packet" BY <1>0, <1>1, <1>2 DEF CopyIsCurrent
<1>9. CopyIsCurrent' BY <1>7, <1>8 DEF CopyIsCurrent
<1> QED BY <1>2, <1>5, <1>9 DEF HostInv

LEMMA HostNext == HostInv /\ [PolicyNext]_policyVars => HostInv'
<1> SUFFICES ASSUME HostInv, [PolicyNext]_policyVars PROVE HostInv' OBVIOUS
<1>1. CASE EngineStateNext /\ UNCHANGED <<packetPolicy, intended>> BY <1>1, StateKeeps
<1>2. ASSUME NEW t \in Threads, StorePolicy(t) PROVE HostInv' BY <1>2, StoreKeeps
<1>3. ASSUME NEW t \in Threads, NEW update \in Updates, ReadPolicy(t, update) PROVE HostInv' BY <1>3, ReadKeeps
<1>4. CASE UNCHANGED policyVars
  <2>1. UNCHANGED <<lifecycle, initialized, shutdownRequested, call, packetPolicy, intended>>
    BY <1>4 DEF policyVars, stateVars
  <2>2. CallTyped' BY <2>1 DEF HostInv, CallTyped
  <2>3. FlagInv' BY <2>1 DEF HostInv, FlagInv, LifecycleFree, NobodyFails
  <2>4. CopyIsCurrent' BY <2>1 DEF HostInv, CopyIsCurrent, Updated
  <2> QED BY <2>2, <2>3, <2>4 DEF HostInv
<1> QED BY <1>1, <1>2, <1>3, <1>4 DEF PolicyNext

\* The inductive invariant behind both: the thread with the engine lock has a
\* copy of the policy as it is, and only failing the engine sets the stop flag
\* against an init (engine_state.rs, policy_api.rs).
THEOREM HostInvariant == PolicySpec => []HostInv
BY HostInit, HostNext, PTL DEF PolicySpec

\* However the calls of any number of threads interleave, no policy update of
\* the Host is lost between the read and the store of another one (NoUpdateLost).
THEOREM UpdatesAreKept == PolicySpec => []NoUpdateLost
<1>1. HostInv => NoUpdateLost BY DEF HostInv, CopyIsCurrent, NoUpdateLost
<1> QED BY <1>1, HostInvariant, PTL

\* The flags that workers poll without the lifecycle lock never contradict the
\* lifecycle of an engine nobody is failing (FlagsFollowLifecycle).
THEOREM FlagsAgree == PolicySpec => []FlagsFollowLifecycle
<1>1. HostInv => FlagsFollowLifecycle BY DEF HostInv, FlagInv, NobodyFails, FlagsFollowLifecycle
<1> QED BY <1>1, HostInvariant, PTL

RuleSet == {RuleOf(a) : a \in RuleArguments}

PolicyType == [default : Actions, rules : Seq(RuleSet)]

\* The policy, and every copy of it in a call, holds rules the API has accepted.
RulesTyped ==
    /\ packetPolicy \in PolicyType
    /\ \A t \in Threads : call[t].op = "packet" => call[t].policy \in PolicyType

LEMMA UpdatedTyped ==
    ASSUME NEW p \in PolicyType, NEW u \in Updates PROVE Updated(p, u) \in PolicyType
<1>1. p.default \in Actions /\ p.rules \in Seq(RuleSet) /\ p = [default |-> p.default, rules |-> p.rules]
  BY DEF PolicyType
<1>2. CASE u.kind = "default" /\ u.value \in Actions
  <2>1. Updated(p, u) = [default |-> u.value, rules |-> p.rules] BY <1>1, <1>2 DEF Updated
  <2> QED BY <1>1, <1>2, <2>1 DEF PolicyType
<1>3. CASE u.kind = "clear"
  <2>1. Updated(p, u) = [default |-> p.default, rules |-> <<>>] BY <1>1, <1>3 DEF Updated
  <2> QED BY <1>1, <2>1 DEF PolicyType
<1>4. CASE u.kind = "rule" /\ u.value \in RuleSet
  <2>1. Updated(p, u) = [default |-> p.default, rules |-> Append(p.rules, u.value)] BY <1>1, <1>4 DEF Updated
  <2>2. Append(p.rules, u.value) \in Seq(RuleSet) BY <1>1, <1>4
  <2> QED BY <1>1, <2>1, <2>2 DEF PolicyType
<1>5. \/ u.kind = "default" /\ u.value \in Actions
      \/ u.kind = "clear"
      \/ u.kind = "rule" /\ u.value \in RuleSet
  <2>1. CASE \E v \in {v \in 0 .. 3 : Action(v) # "invalid"} : u = [kind |-> "default", value |-> Action(v)]
    <3>1. PICK v \in 0 .. 3 : Action(v) # "invalid" /\ u = [kind |-> "default", value |-> Action(v)] BY <2>1
    <3>2. Action(v) \in Actions BY <3>1 DEF Action, Actions
    <3> QED BY <3>1, <3>2
  <2>2. CASE u = [kind |-> "clear"] BY <2>2
  <2>3. CASE \E r \in RuleSet : u = [kind |-> "rule", value |-> r] BY <2>3
  <2>4. \/ \E v \in {v \in 0 .. 3 : Action(v) # "invalid"} : u = [kind |-> "default", value |-> Action(v)]
        \/ u = [kind |-> "clear"]
        \/ \E r \in RuleSet : u = [kind |-> "rule", value |-> r]
    BY DEF Updates, RuleSet
  <2> QED BY <2>1, <2>2, <2>3, <2>4
<1> QED BY <1>2, <1>3, <1>4, <1>5

\* The calls of EngineState leave the copies of the policy alone.
LEMMA CopiesStay ==
    ASSUME CallTyped, EngineStateNext
    PROVE  \A v \in Threads : call'[v].op = "packet" => call[v].op = "packet" /\ call'[v].policy = call[v].policy
<1> PICK t \in Threads :
       \/ InitBegin(t) \/ InitEnd(t) \/ BeginShutdown(t) \/ StateShutdown(t)
       \/ MarkFailedFirst(t) \/ MarkFailedSecond(t) \/ MarkFailedThird(t)
       \/ RequireFlag(t) \/ RequireLifecycle(t)
       \/ StoreGatewayPolicy(t) \/ ClearGatewayPolicy(t)
       \/ \E p \in GatewayPolicies : SetGatewayPolicy(t, p)
  BY DEF EngineStateNext
<1> DEFINE Same == \A v \in Threads : call'[v].op = "packet" =>
                      call[v].op = "packet" /\ call'[v].policy = call[v].policy
<1>1. ASSUME NEW c, IsCall(c), c.op # "packet", call' = [call EXCEPT ![t] = c] PROVE Same
  <2>1. call'[t] = c /\ \A v \in Threads : v # t => call'[v] = call[v] BY <1>1, CallStep
  <2> QED BY <1>1, <2>1
<1>2. ASSUME Leave(t) PROVE Same
  <2>1. call'[t].op = "none" /\ \A v \in Threads : v # t => call'[v] = call[v] BY <1>2, LeaveCall
  <2> QED BY <2>1
<1>3. ASSUME NEW a, Proceed(t, a), call[t].op # "none" PROVE Same
  <2>1. /\ \A v \in Threads : v # t => call'[v] = call[v]
        /\ call'[t].op = call[t].op
        /\ call[t].op = "packet" => call'[t].policy = call[t].policy
    BY <1>3, ProceedCall
  <2> QED BY <2>1
<1>4. ASSUME UNCHANGED call PROVE Same BY <1>4
<1> SUFFICES Same BY DEF Same
<1> HIDE DEF Same
<1>5. CASE InitBegin(t)
  <2>1. IsCall([op |-> "init"]) /\ [op |-> "init"].op # "packet" BY DEF IsCall
  <2> QED BY <1>1, <1>5, <2>1 DEF InitBegin, Enter
<1>6. CASE MarkFailedFirst(t)
  <2> DEFINE c == [op |-> "fail", at |-> "initialized"]
  <2>1. IsCall(c) /\ c.op # "packet" BY DEF IsCall
  <2>2. call' = [call EXCEPT ![t] = c] BY <1>6 DEF MarkFailedFirst, Enter
  <2> HIDE DEF c
  <2> QED BY <1>1, <2>1, <2>2
<1>7. ASSUME NEW p \in GatewayPolicies, SetGatewayPolicy(t, p) PROVE Same
  <2> DEFINE c == [op |-> "gateway", at |-> "start", policy |-> p]
  <2>1. IsCall(c) /\ c.op # "packet" BY DEF IsCall
  <2>2. call' = [call EXCEPT ![t] = c] BY <1>7 DEF SetGatewayPolicy, Enter
  <2> HIDE DEF c
  <2> QED BY <1>1, <2>1, <2>2
<1>8. CASE BeginShutdown(t) \/ StateShutdown(t) \/ ClearGatewayPolicy(t)
  BY <1>4, <1>8 DEF BeginShutdown, StateShutdown, ClearGatewayPolicy
<1>9. CASE InitEnd(t) \/ MarkFailedThird(t) \/ StoreGatewayPolicy(t)
  BY <1>2, <1>9 DEF InitEnd, MarkFailedThird, StoreGatewayPolicy
<1>10. CASE MarkFailedSecond(t) BY <1>3, <1>10 DEF MarkFailedSecond
<1>11. CASE RequireFlag(t) \/ RequireLifecycle(t)
  BY <1>2, <1>3, <1>11 DEF RequireFlag, RequireLifecycle, AtRequire
<1> QED BY <1>5, <1>6, <1>7, <1>8, <1>9, <1>10, <1>11

LEMMA RulesInit == PolicyInit => RulesTyped
<1> SUFFICES ASSUME PolicyInit PROVE RulesTyped OBVIOUS
<1>1. packetPolicy \in PolicyType BY DEF PolicyInit, PolicyType, Actions
<1>2. \A t \in Threads : call[t].op = "none" BY DEF PolicyInit, EngineStateInit, NoCall
<1> QED BY <1>1, <1>2 DEF RulesTyped

LEMMA RulesNext == ASSUME HostInv, RulesTyped, [PolicyNext]_policyVars PROVE RulesTyped'
<1>0. CallTyped BY DEF HostInv
<1>1. CASE EngineStateNext /\ UNCHANGED <<packetPolicy, intended>>
  <2>1. \A v \in Threads : call'[v].op = "packet" => call[v].op = "packet" /\ call'[v].policy = call[v].policy
    BY <1>0, <1>1, CopiesStay
  <2> QED BY <1>1, <2>1 DEF RulesTyped
<1>2. ASSUME NEW t \in Threads, StorePolicy(t) PROVE RulesTyped'
  <2>1. call[t].op = "packet" /\ packetPolicy' = call[t].policy /\ Leave(t) BY <1>2 DEF StorePolicy
  <2>2. call'[t].op = "none" /\ \A v \in Threads : v # t => call'[v] = call[v] BY <1>0, <2>1, LeaveCall
  <2> QED BY <2>1, <2>2 DEF RulesTyped
<1>3. ASSUME NEW t \in Threads, NEW update \in Updates, ReadPolicy(t, update) PROVE RulesTyped'
  <2> DEFINE p == Updated(packetPolicy, update)
             c == [op |-> "packet", at |-> "start", update |-> update, policy |-> p]
  <2>1. call' = [call EXCEPT ![t] = c] /\ packetPolicy' = packetPolicy BY <1>3 DEF ReadPolicy, Enter
  <2>2. p \in PolicyType BY UpdatedTyped DEF RulesTyped
  <2> HIDE DEF p
  <2>3. IsCall(c) /\ c.policy = p BY DEF IsCall
  <2> HIDE DEF c
  <2>4. call'[t] = c /\ \A v \in Threads : v # t => call'[v] = call[v] BY <1>0, <2>1, <2>3, CallStep
  <2> QED BY <2>1, <2>2, <2>3, <2>4 DEF RulesTyped
<1>4. CASE UNCHANGED policyVars BY <1>4 DEF policyVars, RulesTyped
<1> QED BY <1>1, <1>2, <1>3, <1>4 DEF PolicyNext

LEMMA RulesDecide == ASSUME RulesTyped PROVE DecisionFollowsPolicy
<1> DEFINE rules == packetPolicy.rules
           D == DOMAIN rules
           R == {q \in D \X D : Precedes(rules, q[1], q[2])}
           sorted == Ordered(rules)
<1>1. rules \in Seq(RuleSet) BY DEF RulesTyped, PolicyType
<1>2. D = 1 .. Len(rules) /\ Len(rules) \in Nat BY <1>1
<1>3. IsFiniteSet(D)
  <2>1. 1 \in Int /\ Len(rules) \in Int BY <1>2
  <2> QED BY <1>2, <2>1, FS_Interval
<1>4. \A i \in D : rules[i].priority \in Int /\ i \in Int
  <2> SUFFICES ASSUME NEW i \in D PROVE rules[i].priority \in Int /\ i \in Int OBVIOUS
  <2>1. rules[i] \in RuleSet BY <1>1
  <2>2. PICK a \in RuleArguments : rules[i] = RuleOf(a) BY <2>1 DEF RuleSet
  <2>3. rules[i].priority = a.priority BY <2>2 DEF RuleOf
  <2> QED BY <1>2, <2>3, HostPolicyAssumption
<1>5. \A i, j \in D : <<i, j>> \in R <=> Precedes(rules, i, j) OBVIOUS
<1>6. sorted = Ranked(D, R) BY DEF Ordered
<1> DEFINE prio == [i \in D |-> rules[i].priority]
<1>7. \A i \in D : prio[i] = rules[i].priority /\ prio[i] \in Int /\ i \in Int BY <1>4
<1> HIDE DEF R, D, sorted, rules, prio
<1>8. \A i, j \in D : <<i, j>> \in R <=> (prio[i] < prio[j] \/ (prio[i] = prio[j] /\ i < j))
  BY <1>5, <1>7 DEF Precedes
<1>9. Orders(R, D) BY <1>7, <1>8 DEF Orders
<1> DEFINE n == Cardinality(D)
<1>10. /\ n \in Nat /\ DOMAIN sorted = 1 .. n /\ \A k \in 1 .. n : sorted[k] \in D
       /\ \A i \in D : \E k \in 1 .. n : sorted[k] = i
       /\ \A k, l \in 1 .. n : k < l => <<sorted[k], sorted[l]>> \in R
  BY <1>3, <1>6, <1>9, RankedFacts
<1> HIDE DEF n
<1> SUFFICES ASSUME NEW p \in Packets, NEW direction \in {"Inbound", "Outbound", "Unknown"}
    PROVE LET hits == {i \in D : RuleMatches(rules[i], p, direction)}
              decided == EvaluatePacket(packetPolicy, p, direction)
          IN  /\ hits = {} => decided = packetPolicy.default
              /\ hits # {} => \E i \in hits :
                 /\ decided = rules[i].action /\ rules[i].protocol # "Other"
                 /\ \A j \in hits : rules[i].priority <= rules[j].priority
                 /\ \A j \in hits : rules[i].priority = rules[j].priority => i <= j
  BY DEF DecisionFollowsPolicy, D, rules
<1> DEFINE hits == {i \in D : RuleMatches(rules[i], p, direction)}
           decided == EvaluatePacket(packetPolicy, p, direction)
           K == {k \in DOMAIN sorted : RuleMatches(rules[sorted[k]], p, direction)}
<1>11. decided = IF K = {} THEN packetPolicy.default ELSE rules[sorted[Min(K)]].action
  BY DEF EvaluatePacket, sorted, rules
<1>12. \A k \in 1 .. n : k \in K <=> sorted[k] \in hits BY <1>10
<1>13. K \in SUBSET (1 .. n) BY <1>10
<1>14. \A i \in hits : i \in D /\ RuleMatches(rules[i], p, direction) OBVIOUS
<1> HIDE DEF K, hits, decided
<1>15. hits = {} => K = {} BY <1>12, <1>13
<1>16. ASSUME hits # {}
       PROVE  \E i \in hits :
                 /\ decided = rules[i].action /\ rules[i].protocol # "Other"
                 /\ \A j \in hits : rules[i].priority <= rules[j].priority
                 /\ \A j \in hits : rules[i].priority = rules[j].priority => i <= j
  <2>1. K # {} BY <1>10, <1>12, <1>14, <1>16
  <2>2. K \in SUBSET Nat BY <1>10, <1>13
  <2>3. \E m \in K : \A k \in K : m <= k BY <2>1, <2>2, LeastNatural
  <2> DEFINE m == Min(K)
             i == sorted[m]
  <2>4. m \in K /\ \A k \in K : m <= k BY <2>3 DEF Min
  <2> HIDE DEF m
  <2>5. i \in hits /\ i \in D /\ m \in 1 .. n BY <1>10, <1>12, <1>13, <2>4
  <2>6. decided = rules[i].action BY <1>11, <2>1 DEF m
  <2>7. rules[i].protocol # "Other"
    BY <1>14, <2>5, HostPolicyAssumption DEF RuleMatches
  <2>8. ASSUME NEW j \in hits PROVE j = i \/ <<i, j>> \in R
    <3>1. PICK k \in 1 .. n : sorted[k] = j BY <1>10, <1>14
    <3>2. k \in K /\ m <= k BY <1>12, <2>4, <3>1
    <3>3. m = k \/ m < k BY <2>2, <2>4, <3>2
    <3> QED BY <1>10, <2>5, <3>1, <3>3
  <2> HIDE DEF i
  <2>9. ASSUME NEW j \in hits PROVE prio[i] <= prio[j] /\ (prio[i] = prio[j] => i <= j)
    <3>1. j \in D BY <1>14
    <3>2. prio[i] \in Int /\ prio[j] \in Int /\ i \in Int BY <1>7, <2>5, <3>1
    <3>3. j = i \/ prio[i] < prio[j] \/ (prio[i] = prio[j] /\ i < j) BY <1>8, <2>5, <2>8, <3>1
    <3>4. j \in Int BY <1>7, <3>1
    <3> QED BY <3>2, <3>3, <3>4
  <2>10. \A j \in hits : rules[j].priority = prio[j] BY <1>7, <1>14
  <2> QED BY <2>5, <2>6, <2>7, <2>9, <2>10
<1> QED BY <1>11, <1>15, <1>16 DEF hits, decided

\* Every packet is decided by the first matching rule of the policy, as stored by
\* the calls of any number of threads, or by its default (PolicyInv).
THEOREM PolicyDecides == PolicySpec => []PolicyInv
<1>1. HostInv /\ RulesTyped /\ [PolicyNext]_policyVars => HostInv' /\ RulesTyped' BY HostNext, RulesNext
<1>2. PolicyInit => HostInv /\ RulesTyped BY HostInit, RulesInit
<1>3. HostInv /\ RulesTyped => PolicyInv
  BY RulesDecide DEF HostInv, CopyIsCurrent, NoUpdateLost, PolicyInv
<1> QED BY <1>1, <1>2, <1>3, PTL DEF PolicySpec

-----------------------------------------------------------------------------
(* The metadata cache                                                      *)

\* Every entry, expired or not, holds what was inserted last under its key.
StoredLast ==
    /\ DOMAIN entries \subseteq DOMAIN latest
    /\ \A k \in DOMAIN entries : entries[k].value = latest[k]

CacheBounded ==
    /\ IsFiniteSet(DOMAIN entries) /\ Cardinality(DOMAIN entries) <= CacheLimit

\* Taking entries away keeps the cache within its limit.
LEMMA CacheShrinks ==
    ASSUME CacheBounded, NEW S, S \subseteq DOMAIN entries
    PROVE  IsFiniteSet(S) /\ Cardinality(S) <= CacheLimit /\ Cardinality(S) \in Nat
<1>1. IsFiniteSet(S) /\ Cardinality(S) <= Cardinality(DOMAIN entries) BY FS_Subset DEF CacheBounded
<1>2. Cardinality(S) \in Nat /\ Cardinality(DOMAIN entries) \in Nat BY <1>1, FS_CardinalityType DEF CacheBounded
<1> QED BY <1>1, <1>2, CacheAssumption DEF CacheBounded

\* insert leaves entries that were there, and the new one.
LEMMA InsertKeeps ==
    ASSUME StoredLast, CacheBounded, NEW k \in CacheKeys, NEW v \in CacheValues, NEW ttl \in Ttls,
           CacheInsert(k, v, ttl)
    PROVE  StoredLast' /\ CacheBounded'
<1> DEFINE new == [value |-> v, at |-> seconds, ttl |-> ttl]
           Inserted(keys) == [j \in keys \cup {k} |-> IF j = k THEN new ELSE entries[j]]
           Fits(keys) == /\ keys \subseteq DOMAIN entries
                         /\ IsFiniteSet(keys \cup {k}) /\ Cardinality(keys \cup {k}) <= CacheLimit
<1>1. /\ CacheLimit > 0 /\ latest' = [j \in DOMAIN latest \cup {k} |-> IF j = k THEN v ELSE latest[j]]
      /\ \/ k \in DOMAIN entries /\ entries' = Inserted(DOMAIN entries)
         \/ /\ k \notin DOMAIN entries /\ Cardinality(Unexpired) >= CacheLimit
            /\ \E victim \in Evictable(Unexpired) : entries' = Inserted(Unexpired \ {victim})
         \/ /\ k \notin DOMAIN entries /\ ~(Cardinality(Unexpired) >= CacheLimit)
            /\ entries' = Inserted(Unexpired)
  BY DEF CacheInsert
<1>2. Unexpired \subseteq DOMAIN entries BY DEF Unexpired
<1>3. CacheLimit \in Nat BY CacheAssumption
<1>4. \E keys : Fits(keys) /\ entries' = Inserted(keys)
  <2>1. CASE k \in DOMAIN entries /\ entries' = Inserted(DOMAIN entries)
    <3>1. DOMAIN entries \cup {k} = DOMAIN entries BY <2>1
    <3> QED BY <2>1, <3>1 DEF CacheBounded
  <2>2. ASSUME NEW victim \in Evictable(Unexpired), k \notin DOMAIN entries, entries' = Inserted(Unexpired \ {victim})
        PROVE  Fits(Unexpired \ {victim})
    <3> DEFINE S == Unexpired \ {victim}
    <3>1. victim \in Unexpired BY DEF Evictable
    <3>2. IsFiniteSet(Unexpired) /\ Cardinality(Unexpired) <= CacheLimit /\ Cardinality(Unexpired) \in Nat
      BY <1>2, CacheShrinks
    <3>3. IsFiniteSet(S) /\ Cardinality(S) = Cardinality(Unexpired) - 1 BY <3>1, <3>2, FS_RemoveElement
    <3>4. k \notin S BY <1>2, <2>2
    <3> HIDE DEF S
    <3>5. IsFiniteSet(S \cup {k}) /\ Cardinality(S \cup {k}) = Cardinality(S) + 1 BY <3>3, <3>4, FS_AddElement
    <3>6. Cardinality(S \cup {k}) <= CacheLimit BY <1>3, <3>2, <3>3, <3>5
    <3> QED BY <1>2, <3>5, <3>6 DEF S
  <2>3. CASE k \notin DOMAIN entries /\ ~(Cardinality(Unexpired) >= CacheLimit) /\ entries' = Inserted(Unexpired)
    <3>1. IsFiniteSet(Unexpired) /\ Cardinality(Unexpired) \in Nat BY <1>2, CacheShrinks
    <3>2. k \notin Unexpired BY <1>2, <2>3
    <3>3. IsFiniteSet(Unexpired \cup {k}) /\ Cardinality(Unexpired \cup {k}) = Cardinality(Unexpired) + 1
      BY <3>1, <3>2, FS_AddElement
    <3>4. Cardinality(Unexpired \cup {k}) <= CacheLimit BY <1>3, <2>3, <3>1, <3>3
    <3> QED BY <1>2, <2>3, <3>3, <3>4
  <2> HIDE DEF Fits, Inserted
  <2> QED BY <1>1, <2>1, <2>2, <2>3
<1>5. PICK keys : Fits(keys) /\ entries' = Inserted(keys) BY <1>4
<1>6. /\ DOMAIN entries' = keys \cup {k} /\ entries'[k] = new
      /\ \A j \in keys : j # k => entries'[j] = entries[j]
  BY <1>5
<1>7. CacheBounded' BY <1>5, <1>6 DEF CacheBounded
<1>8. /\ DOMAIN latest' = DOMAIN latest \cup {k} /\ latest'[k] = v
      /\ \A j \in DOMAIN latest : j # k => latest'[j] = latest[j]
  BY <1>1
<1>9. DOMAIN entries' \subseteq DOMAIN latest' BY <1>5, <1>6, <1>8 DEF StoredLast
<1>10. \A j \in DOMAIN entries' : entries'[j].value = latest'[j]
  <2>1. new.value = v OBVIOUS
  <2>2. keys \subseteq DOMAIN entries BY <1>5
  <2> HIDE DEF new
  <2> QED BY <1>6, <1>8, <2>1, <2>2 DEF StoredLast
<1> QED BY <1>7, <1>9, <1>10 DEF StoredLast

LEMMA CacheStarts == CacheInit => StoredLast /\ CacheBounded
<1> SUFFICES ASSUME CacheInit PROVE StoredLast /\ CacheBounded OBVIOUS
<1>1. DOMAIN entries = {} BY DEF CacheInit
<1>2. IsFiniteSet(DOMAIN entries) /\ Cardinality(DOMAIN entries) = 0 BY <1>1, FS_EmptySet
<1>3. CacheBounded BY <1>2, CacheAssumption DEF CacheBounded
<1> QED BY <1>1, <1>3 DEF StoredLast

LEMMA CacheStep == StoredLast /\ CacheBounded /\ [CacheNext]_cacheVars => StoredLast' /\ CacheBounded'
<1> SUFFICES ASSUME StoredLast, CacheBounded, [CacheNext]_cacheVars PROVE StoredLast' /\ CacheBounded' OBVIOUS
<1>1. CASE CacheClear
  <2>1. DOMAIN entries' = {} BY <1>1 DEF CacheClear
  <2>2. IsFiniteSet(DOMAIN entries') /\ Cardinality(DOMAIN entries') = 0 BY <2>1, FS_EmptySet
  <2>3. CacheBounded' BY <2>2, CacheAssumption DEF CacheBounded
  <2> QED BY <2>1, <2>3 DEF StoredLast
<1>2. ASSUME entries' = entries, latest' = latest PROVE StoredLast' /\ CacheBounded'
  BY <1>2 DEF StoredLast, CacheBounded
<1>3. ASSUME NEW s, SetClock(s) PROVE StoredLast' /\ CacheBounded' BY <1>2, <1>3 DEF SetClock
<1>4. CASE UNCHANGED cacheVars BY <1>2, <1>4 DEF cacheVars
<1>5. ASSUME NEW k, entries' = Only(DOMAIN entries \ {k}),
             latest' = latest \/ latest' = [j \in DOMAIN latest \ {k} |-> latest[j]]
      PROVE  StoredLast' /\ CacheBounded'
  <2>1. DOMAIN entries' = DOMAIN entries \ {k} /\ \A j \in DOMAIN entries' : entries'[j] = entries[j]
    BY <1>5 DEF Only
  <2>2. CacheBounded' BY <2>1, CacheShrinks DEF CacheBounded
  <2>3. DOMAIN latest \ {k} \subseteq DOMAIN latest' /\ \A j \in DOMAIN latest \ {k} : latest'[j] = latest[j]
    BY <1>5
  <2> QED BY <2>1, <2>2, <2>3 DEF StoredLast
<1>6. ASSUME NEW k \in CacheKeys, CacheGet(k) PROVE StoredLast' /\ CacheBounded'
  <2>1. CASE IsExpired(entries[k]) BY <1>5, <1>6, <2>1 DEF CacheGet
  <2>2. CASE ~IsExpired(entries[k]) BY <1>2, <1>6, <2>2 DEF CacheGet
  <2> QED BY <2>1, <2>2
<1>7. ASSUME NEW k \in CacheKeys, CacheRemove(k) PROVE StoredLast' /\ CacheBounded'
  BY <1>5, <1>7 DEF CacheRemove
<1>8. ASSUME NEW k \in CacheKeys, NEW v \in CacheValues, NEW ttl \in Ttls, CacheInsert(k, v, ttl)
      PROVE  StoredLast' /\ CacheBounded'
  BY <1>8, InsertKeeps
<1> QED BY <1>1, <1>3, <1>4, <1>6, <1>7, <1>8 DEF CacheNext

\* The cache stays within its limit, whichever entry it evicts, and what it
\* answers was inserted last under that key and not removed since, however the
\* clock was set (CacheInv; cache.rs get, insert, remove, clear).
THEOREM CacheConsistent == CacheSpec => []CacheInv
<1>1. StoredLast /\ CacheBounded => CacheInv BY DEF StoredLast, CacheBounded, CacheInv, Got
<1> QED BY <1>1, CacheStarts, CacheStep, PTL DEF CacheSpec

-----------------------------------------------------------------------------
(* The flow table                                                          *)

\* What FlowInv says of one flow, at time now of flow.rs's clock.
Sound(flow, now) ==
    /\ flow \in Flow
    /\ flow.packets < MaxCount => flow.forward + flow.reverse <= flow.packets
    /\ flow.first <= flow.last /\ flow.last <= now
    /\ flow.state = "New" => flow.packets = 0
    /\ flow.packets = 0 => flow.state # "Active"

\* What a call may do to a flow that stays.
Grows(old, new) ==
    /\ new.packets >= old.packets /\ new.forward >= old.forward /\ new.reverse >= old.reverse
    /\ new.last >= old.last
    /\ old.state = "Closed" => new.state = "Closed"

OneEntry(S) == \A key \in S : ReverseKey(key) \in S => ReverseKey(key) = key

TableTyped ==
    /\ flows = [k \in DOMAIN flows |-> flows[k]]
    /\ DOMAIN flows \subseteq Keys /\ IsFiniteSet(DOMAIN flows)
    /\ created \in Nat /\ removed \in Nat /\ expired \in Nat
    /\ clock \in Nat /\ flowBase \in {Unset} \cup (0 .. clock)

TableCounts ==
    /\ Cardinality(DOMAIN flows) <= MaxEntries
    /\ created - removed = Cardinality(DOMAIN flows)
    /\ expired <= removed

FlowsSound == \A key \in DOMAIN flows : Sound(flows[key], FlowNow)

TableInv == TableTyped /\ TableCounts /\ OneEntry(DOMAIN flows) /\ FlowsSound

LEMMA TableIsConsistent == ASSUME TableInv PROVE FlowInv
<1>1. \A key \in DOMAIN flows : flows[key] \in Flow BY DEF TableInv, FlowsSound, Sound
<1>2. flows \in [DOMAIN flows -> Flow] BY <1>1 DEF TableInv, TableTyped
<1>3. \A key \in DOMAIN flows : Sound(flows[key], FlowNow) BY DEF TableInv, FlowsSound
<1> QED BY <1>2, <1>3 DEF TableInv, TableTyped, TableCounts, OneEntry, Sound, FlowInv

\* A flow's clock runs on, and starting it stops nothing.
LEMMA ClockRuns ==
    ASSUME TableTyped,
           \/ clock' = clock /\ flowBase' = flowBase
           \/ clock' = clock /\ flowBase' = Started(flowBase)
           \/ clock' = clock + 1 /\ flowBase' = flowBase
    PROVE  /\ FlowNow \in Nat /\ FlowNow' \in Nat /\ FlowNow <= FlowNow'
           /\ clock' = clock => FlowNow' = FlowNow
           /\ clock' \in Nat /\ flowBase' \in {Unset} \cup (0 .. clock')
<1>1. clock \in Nat /\ (flowBase = Unset \/ flowBase \in 0 .. clock) /\ Unset \notin Nat
  BY FlowAssumption DEF TableTyped
<1>2. CASE flowBase = Unset
  <2>1. Started(flowBase) = clock /\ FlowNow = 0 BY <1>1, <1>2 DEF Started, FlowNow
  <2>2. flowBase' = Unset \/ (flowBase' = clock /\ clock' = clock) BY <1>2, <2>1
  <2>3. FlowNow' = 0 BY <1>1, <2>2 DEF Started, FlowNow
  <2> QED BY <1>1, <2>1, <2>2, <2>3
<1>3. CASE flowBase \in 0 .. clock
  <2>1. flowBase # Unset BY <1>1, <1>3
  <2>2. Started(flowBase) = flowBase /\ FlowNow = clock - flowBase BY <2>1 DEF Started, FlowNow
  <2>3. flowBase' = flowBase BY <2>2
  <2>4. FlowNow' = clock' - flowBase BY <2>1, <2>3 DEF Started, FlowNow
  <2> QED BY <1>1, <1>3, <2>2, <2>3, <2>4
<1> QED BY <1>1, <1>2, <1>3

LEMMA SoundStays ==
    ASSUME NEW flow, NEW s \in Nat, NEW t \in Nat, s <= t, Sound(flow, s)
    PROVE  Sound(flow, t)
<1>1. flow.last \in Nat BY DEF Sound, Flow
<1> QED BY <1>1 DEF Sound

LEMMA SaturatingCount ==
    ASSUME NEW n \in 0 .. MaxCount
    PROVE  /\ SaturatingAdd(n, 1) \in 0 .. MaxCount /\ SaturatingAdd(n, 1) >= n /\ SaturatingAdd(n, 1) >= 1
           /\ SaturatingAdd(n, 1) <= n + 1 /\ (n < MaxCount => SaturatingAdd(n, 1) = n + 1)
           /\ SaturatingAdd(n, 1) < MaxCount => n < MaxCount
BY FlowAssumption DEF SaturatingAdd

\* record_packet on a sound flow.
LEMMA RecordedIsSound ==
    ASSUME NEW t \in Nat, NEW flow, Sound(flow, t), NEW direction
    PROVE  Sound(Recorded(flow, direction, t), t) /\ Grows(flow, Recorded(flow, direction, t))
<1> DEFINE p == SaturatingAdd(flow.packets, 1)
           f == IF direction = "Forward" THEN SaturatingAdd(flow.forward, 1) ELSE flow.forward
           r == IF direction = "Reverse" THEN SaturatingAdd(flow.reverse, 1) ELSE flow.reverse
           a == FirstSeen(flow, t)
           b == LastSeen(flow, t)
           s == IF flow.state = "New" THEN "Active" ELSE flow.state
           new == Recorded(flow, direction, t)
<1>1. /\ flow \in Flow /\ flow.packets \in 0 .. MaxCount /\ flow.forward \in 0 .. MaxCount /\ flow.reverse \in 0 .. MaxCount
      /\ flow.first \in Nat /\ flow.last \in Nat /\ flow.state \in FlowStates
  BY DEF Sound, Flow
<1>2. new = [packets |-> p, forward |-> f, reverse |-> r, first |-> a, last |-> b, state |-> s]
  <2>1. new = [flow EXCEPT !.packets = p, !.forward = f, !.reverse = r, !.first = a, !.last = b, !.state = s]
    BY DEF Recorded
  <2> HIDE DEF p, f, r, a, b, s, new
  <2> QED BY <1>1, <2>1 DEF Flow
<1>3. /\ new.packets = p /\ new.forward = f /\ new.reverse = r /\ new.first = a /\ new.last = b /\ new.state = s
  BY <1>2
<1>4. /\ p \in 0 .. MaxCount /\ p >= flow.packets /\ p >= 1 /\ (p < MaxCount => p = flow.packets + 1 /\ flow.packets < MaxCount)
  BY <1>1, SaturatingCount
<1>5. f \in 0 .. MaxCount /\ f >= flow.forward /\ f <= flow.forward + 1 /\ (direction # "Forward" => f = flow.forward)
  BY <1>1, SaturatingCount, FlowAssumption
<1>6. r \in 0 .. MaxCount /\ r >= flow.reverse /\ r <= flow.reverse + 1 /\ (direction # "Reverse" => r = flow.reverse)
  BY <1>1, SaturatingCount, FlowAssumption
<1>7. a \in Nat /\ b \in Nat /\ a <= b /\ b <= t /\ b >= flow.last
  BY <1>1 DEF FirstSeen, LastSeen, Later, Sound
<1>8. s \in FlowStates /\ s # "New" /\ (flow.state = "Closed" => s = "Closed") BY <1>1 DEF FlowStates
<1> HIDE DEF p, f, r, a, b, s, new
<1>9. new \in Flow BY <1>2, <1>4, <1>5, <1>6, <1>7, <1>8 DEF Flow
<1>10. p < MaxCount => f + r <= p
  <2> SUFFICES ASSUME p < MaxCount PROVE f + r <= p OBVIOUS
  <2>1. p = flow.packets + 1 /\ flow.forward + flow.reverse <= flow.packets BY <1>4 DEF Sound
  <2>2. f = flow.forward \/ r = flow.reverse BY <1>5, <1>6
  <2>3. MaxCount \in Nat BY FlowAssumption
  <2> QED BY <1>1, <1>4, <1>5, <1>6, <2>1, <2>2, <2>3
<1>11. p # 0 BY <1>4
<1>12. Sound(new, t) BY <1>3, <1>7, <1>8, <1>9, <1>10, <1>11 DEF Sound
<1>13. Grows(flow, new) BY <1>3, <1>4, <1>5, <1>6, <1>7, <1>8 DEF Grows
<1> QED BY <1>12, <1>13 DEF new

LEMMA NewIsSound == ASSUME TableTyped PROVE Sound(NewFlow, FlowNow) /\ FlowNow \in Nat
<1>1. FlowNow \in Nat
  BY FlowAssumption DEF TableTyped, Started, FlowNow
<1>2. MaxCount \in Nat BY FlowAssumption
<1>3. NewFlow \in Flow BY <1>1, <1>2 DEF NewFlow, Flow, FlowStates
<1> QED BY <1>1, <1>3 DEF NewFlow, Sound

LEMMA EntryIsThere ==
    ASSUME NEW key \in Keys, Known(key) # {}
    PROVE  EntryOf(key) \in DOMAIN flows
BY DEF Known, EntryOf

\* An entry that is there is replaced: nothing else changes.
LEMMA ReplaceKeeps ==
    ASSUME TableInv, NEW k \in DOMAIN flows, NEW flow, Sound(flow, FlowNow),
           flows' = Put(k, flow), UNCHANGED <<created, removed, expired, clock>>,
           flowBase' = flowBase \/ flowBase' = Started(flowBase)
    PROVE  TableInv' /\ DOMAIN flows' = DOMAIN flows /\ flows'[k] = flow
           /\ \A j \in DOMAIN flows : j # k => flows'[j] = flows[j]
<1>0. TableTyped /\ TableCounts /\ OneEntry(DOMAIN flows) /\ FlowsSound BY DEF TableInv
<1>1. DOMAIN flows \cup {k} = DOMAIN flows OBVIOUS
<1>2. flows' = [j \in DOMAIN flows |-> IF j = k THEN flow ELSE flows[j]] BY <1>1 DEF Put
<1>3. DOMAIN flows' = DOMAIN flows /\ flows'[k] = flow /\ \A j \in DOMAIN flows : j # k => flows'[j] = flows[j]
  BY <1>2
<1>4. flows' = [j \in DOMAIN flows' |-> flows'[j]] BY <1>2
<1>5. FlowNow' = FlowNow /\ flowBase' \in {Unset} \cup (0 .. clock') BY <1>0, ClockRuns
<1>6. TableTyped' BY <1>0, <1>3, <1>4, <1>5 DEF TableTyped
<1>7. TableCounts' BY <1>0, <1>3 DEF TableCounts
<1>8. \A j \in DOMAIN flows' : Sound(flows'[j], FlowNow) BY <1>0, <1>3 DEF FlowsSound
<1>9. FlowsSound' BY <1>5, <1>8 DEF FlowsSound, Sound
<1>10. OneEntry(DOMAIN flows') BY <1>0, <1>3
<1>11. TableInv' BY <1>6, <1>7, <1>9, <1>10 DEF TableInv, OneEntry, ReverseKey
<1> QED BY <1>3, <1>11

\* An entry is added for a conversation that has none.
LEMMA AddKeeps ==
    ASSUME TableInv, NEW key \in Keys, Known(key) = {}, ~Full, NEW flow, Sound(flow, FlowNow),
           flows' = Put(key, flow), created' = created + 1, flowBase' = Started(flowBase),
           UNCHANGED <<removed, expired, clock>>
    PROVE  TableInv' /\ DOMAIN flows \subseteq DOMAIN flows' /\ \A j \in DOMAIN flows : flows'[j] = flows[j]
<1>0. TableTyped /\ TableCounts /\ OneEntry(DOMAIN flows) /\ FlowsSound BY DEF TableInv
<1> DEFINE D == DOMAIN flows \cup {key}
<1>1. key \notin DOMAIN flows /\ ReverseKey(key) \notin DOMAIN flows BY DEF Known
<1>2. flows' = [j \in D |-> IF j = key THEN flow ELSE flows[j]] BY DEF Put
<1>3. DOMAIN flows' = D /\ flows'[key] = flow /\ \A j \in DOMAIN flows : flows'[j] = flows[j]
  BY <1>1, <1>2
<1>4. flows' = [j \in DOMAIN flows' |-> flows'[j]] BY <1>2
<1>5. FlowNow' = FlowNow /\ flowBase' \in {Unset} \cup (0 .. clock') BY <1>0, ClockRuns
<1>6. IsFiniteSet(D) /\ Cardinality(D) = Cardinality(DOMAIN flows) + 1 BY <1>0, <1>1, FS_AddElement DEF TableTyped
<1>7. Cardinality(DOMAIN flows) \in Nat BY <1>0, FS_CardinalityType DEF TableTyped
<1>8. TableTyped' BY <1>0, <1>3, <1>4, <1>5, <1>6 DEF TableTyped
<1>9. TableCounts'
  <2>1. Cardinality(DOMAIN flows') = Cardinality(DOMAIN flows) + 1 BY <1>3, <1>6
  <2>2. Cardinality(DOMAIN flows) < MaxEntries /\ MaxEntries \in Nat BY <1>7, FlowAssumption DEF Full
  <2>3. created \in Nat /\ removed \in Nat BY <1>0 DEF TableTyped
  <2> QED BY <1>0, <1>7, <2>1, <2>2, <2>3 DEF TableCounts
<1>10. \A j \in DOMAIN flows' : Sound(flows'[j], FlowNow) BY <1>0, <1>3 DEF FlowsSound
<1>11. FlowsSound' BY <1>5, <1>10 DEF FlowsSound, Sound
<1>12. OneEntry(D)
  <2>1. \A k \in DOMAIN flows : ReverseKey(k) # key
    <3> SUFFICES ASSUME NEW k \in DOMAIN flows, ReverseKey(k) = key PROVE FALSE OBVIOUS
    <3>1. k \in Keys BY <1>0 DEF TableTyped
    <3>2. ReverseKey(key) = k BY <3>1 DEF ReverseKey, Keys
    <3> QED BY <1>1, <3>2
  <2>2. ReverseKey(key) \in D => ReverseKey(key) = key BY <1>1
  <2> QED BY <1>0, <2>1, <2>2 DEF OneEntry
<1>13. OneEntry(DOMAIN flows)' BY <1>3, <1>12 DEF OneEntry, ReverseKey
<1> QED BY <1>3, <1>8, <1>9, <1>11, <1>13 DEF TableInv

\* Entries are taken away and counted.
LEMMA TakeAwayKeeps ==
    ASSUME TableInv, NEW gone, gone \subseteq DOMAIN flows, flows' = Without(gone),
           removed' = removed + Cardinality(gone),
           expired' = expired \/ expired' = expired + Cardinality(gone),
           UNCHANGED <<created, clock, flowBase>>
    PROVE  TableInv' /\ (removed' = removed => DOMAIN flows' = DOMAIN flows)
           /\ \A j \in DOMAIN flows' : flows'[j] = flows[j]
<1>0. TableTyped /\ TableCounts /\ OneEntry(DOMAIN flows) /\ FlowsSound BY DEF TableInv
<1> DEFINE D == DOMAIN flows \ gone
<1>1. flows' = [j \in D |-> flows[j]] BY DEF Without, Restrict
<1>2. DOMAIN flows' = D /\ \A j \in DOMAIN flows' : flows'[j] = flows[j] BY <1>1
<1>3. flows' = [j \in DOMAIN flows' |-> flows'[j]] BY <1>1
<1>4. /\ IsFiniteSet(gone) /\ IsFiniteSet(D) /\ Cardinality(gone) \in Nat /\ Cardinality(D) \in Nat
      /\ Cardinality(D) = Cardinality(DOMAIN flows) - Cardinality(gone)
  <2>1. IsFiniteSet(gone) BY <1>0, FS_Subset DEF TableTyped
  <2>2. IsFiniteSet(D) BY <1>0, FS_Subset DEF TableTyped
  <2>3. Cardinality(D) = Cardinality(DOMAIN flows) - Cardinality(DOMAIN flows \cap gone)
    BY <1>0, <2>1, FS_Difference DEF TableTyped
  <2>4. DOMAIN flows \cap gone = gone OBVIOUS
  <2> QED BY <2>1, <2>2, <2>3, <2>4, FS_CardinalityType
<1>5. Cardinality(DOMAIN flows) \in Nat BY <1>0, FS_CardinalityType DEF TableTyped
<1>6. FlowNow' = FlowNow BY <1>0, ClockRuns
<1>7. TableTyped' BY <1>0, <1>2, <1>3, <1>4 DEF TableTyped
<1>8. TableCounts'
  <2> DEFINE n == Cardinality(gone)
             m == Cardinality(DOMAIN flows)
  <2>1. n \in Nat /\ m \in Nat /\ m - n \in Nat /\ Cardinality(DOMAIN flows') = m - n BY <1>2, <1>4, <1>5
  <2>2. created \in Nat /\ removed \in Nat /\ expired \in Nat BY <1>0 DEF TableTyped
  <2>3. m <= MaxEntries /\ created - removed = m /\ expired <= removed /\ MaxEntries \in Nat
    BY <1>0, FlowAssumption DEF TableCounts
  <2>4. removed' = removed + n /\ (expired' = expired \/ expired' = expired + n) /\ created' = created OBVIOUS
  <2> HIDE DEF n, m
  <2>5. m - n <= MaxEntries /\ created' - removed' = m - n /\ expired' <= removed' BY <2>1, <2>2, <2>3, <2>4
  <2> QED BY <2>1, <2>5 DEF TableCounts
<1>9. \A j \in DOMAIN flows' : Sound(flows'[j], FlowNow) BY <1>0, <1>2 DEF FlowsSound
<1>10. FlowsSound' BY <1>6, <1>9 DEF FlowsSound, Sound
<1>11. OneEntry(DOMAIN flows)' BY <1>0, <1>2 DEF OneEntry, ReverseKey
<1>12. removed' = removed => DOMAIN flows' = DOMAIN flows
  <2> SUFFICES ASSUME removed' = removed PROVE DOMAIN flows' = DOMAIN flows OBVIOUS
  <2>1. Cardinality(gone) = 0 BY <1>0, <1>4 DEF TableTyped
  <2>2. gone = {} BY <1>4, <2>1, FS_EmptySet
  <2> QED BY <1>2, <2>2
<1> QED BY <1>2, <1>7, <1>8, <1>10, <1>11, <1>12 DEF TableInv

\* record_packet through get_or_create: of either direction's entry, or a new one.
LEMMA RecordKeeps ==
    ASSUME TableInv, NEW key \in Keys, NEW direction, Record(key, direction),
           UNCHANGED <<removed, expired, clock>>
    PROVE  /\ TableInv' /\ DOMAIN flows \subseteq DOMAIN flows'
           /\ \A j \in DOMAIN flows : flows'[j] = flows[j] \/ Grows(flows[j], flows'[j])
<1>0. TableTyped /\ FlowsSound BY DEF TableInv
<1>1. FlowNow \in Nat BY <1>0, NewIsSound
<1>2. CASE Known(key) # {}
  <2> DEFINE k == EntryOf(key)
             flow == Recorded(flows[k], direction, FlowNow)
  <2>1. k \in DOMAIN flows BY <1>2, EntryIsThere
  <2>2. /\ flows' = Put(k, flow) /\ flowBase' = Started(flowBase) /\ UNCHANGED created
    BY <1>2 DEF Record
  <2> HIDE DEF k
  <2>3. Sound(flows[k], FlowNow) BY <1>0, <2>1 DEF FlowsSound
  <2>4. Sound(flow, FlowNow) /\ Grows(flows[k], flow) BY <1>1, <2>3, RecordedIsSound
  <2> HIDE DEF flow
  <2>5. TableInv' /\ DOMAIN flows' = DOMAIN flows /\ flows'[k] = flow
        /\ \A j \in DOMAIN flows : j # k => flows'[j] = flows[j]
    BY <2>1, <2>2, <2>4, ReplaceKeeps
  <2> QED BY <2>4, <2>5
<1>3. CASE Known(key) = {} /\ Full
  <2>1. UNCHANGED <<flows, flowBase, created>> BY <1>3 DEF Record
  <2>2. TableTyped' BY <1>0, <2>1 DEF TableTyped
  <2>3. FlowsSound' BY <1>0, <2>1 DEF FlowsSound, FlowNow, Started, Sound
  <2>4. TableCounts' /\ OneEntry(DOMAIN flows)' BY <2>1 DEF TableInv, TableCounts, OneEntry, ReverseKey
  <2> QED BY <2>1, <2>2, <2>3, <2>4 DEF TableInv
<1>4. CASE Known(key) = {} /\ ~Full
  <2> DEFINE flow == Recorded(NewFlow, direction, FlowNow)
  <2>1. /\ flows' = Put(key, flow) /\ created' = created + 1 /\ flowBase' = Started(flowBase)
    BY <1>4 DEF Record
  <2>2. Sound(flow, FlowNow) BY <1>0, <1>1, NewIsSound, RecordedIsSound
  <2> HIDE DEF flow
  <2> QED BY <1>4, <2>1, <2>2, AddKeeps
<1> QED BY <1>2, <1>3, <1>4

\* A flow that does not change grows by nothing.
LEMMA SameGrows == ASSUME NEW flow, NEW t, Sound(flow, t) PROVE Grows(flow, flow)
<1>1. flow.packets \in 0 .. MaxCount /\ flow.forward \in 0 .. MaxCount /\ flow.reverse \in 0 .. MaxCount /\ flow.last \in Nat
  BY DEF Sound, Flow
<1>2. MaxCount \in Nat BY FlowAssumption
<1> QED BY <1>1, <1>2 DEF Grows

LEMMA ClosedIsSound ==
    ASSUME NEW t, NEW flow, Sound(flow, t)
    PROVE  Sound([flow EXCEPT !.state = "Closed"], t) /\ Grows(flow, [flow EXCEPT !.state = "Closed"])
<1> DEFINE new == [flow EXCEPT !.state = "Closed"]
<1>1. flow \in Flow BY DEF Sound
<1>2. new \in Flow /\ new.state = "Closed" BY <1>1 DEF Flow, FlowStates
<1>3. /\ new.packets = flow.packets /\ new.forward = flow.forward /\ new.reverse = flow.reverse
      /\ new.first = flow.first /\ new.last = flow.last
  BY <1>1 DEF Flow
<1>4. Grows(flow, flow) BY SameGrows
<1> HIDE DEF new
<1>5. Sound(new, t) BY <1>2, <1>3 DEF Sound
<1>6. Grows(flow, new) BY <1>2, <1>3, <1>4 DEF Grows
<1> QED BY <1>5, <1>6 DEF new

\* The flow table's part of a step, with what FlowsOnlyGrow says of it.
Kept == removed' = removed =>
    /\ DOMAIN flows \subseteq DOMAIN flows'
    /\ \A j \in DOMAIN flows : flows'[j] = flows[j] \/ Grows(flows[j], flows'[j])

LEMMA HostStepKeeps == ASSUME TableInv, Host PROVE TableInv' /\ Kept
<1>0. TableTyped /\ TableCounts /\ OneEntry(DOMAIN flows) /\ FlowsSound BY DEF TableInv
<1>1. CASE ExpireIdle
  <2> DEFINE gone == {k \in DOMAIN flows : IsIdle(flows[k], TableNow)}
  <2>1. /\ flows' = Without(gone) /\ removed' = removed + Cardinality(gone) /\ expired' = expired + Cardinality(gone)
        /\ UNCHANGED <<created, clock, flowBase>>
    BY <1>1 DEF ExpireIdle
  <2>2. gone \subseteq DOMAIN flows OBVIOUS
  <2> HIDE DEF gone
  <2>3. TableInv' /\ (removed' = removed => DOMAIN flows' = DOMAIN flows)
        /\ \A j \in DOMAIN flows' : flows'[j] = flows[j]
    BY <2>1, <2>2, TakeAwayKeeps
  <2> QED BY <2>3 DEF Kept
<1>2. CASE ClearFlows
  <2> DEFINE gone == DOMAIN flows
  <2>1. /\ flows' = <<>> /\ removed' = removed + Cardinality(gone) /\ UNCHANGED <<created, expired, clock, flowBase>>
    BY <1>2 DEF ClearFlows
  <2>2. Without(gone) = <<>> BY DEF Without, Restrict
  <2>3. gone \subseteq DOMAIN flows /\ flows' = Without(gone) BY <2>1, <2>2
  <2> HIDE DEF gone
  <2>4. TableInv' /\ (removed' = removed => DOMAIN flows' = DOMAIN flows)
        /\ \A j \in DOMAIN flows' : flows'[j] = flows[j]
    BY <2>1, <2>3, TakeAwayKeeps
  <2> QED BY <2>4 DEF Kept
<1>3. CASE Tick
  <2>1. clock' = clock + 1 /\ UNCHANGED <<flows, created, removed, expired, flowBase>> BY <1>3 DEF Tick
  <2>2. /\ FlowNow \in Nat /\ FlowNow' \in Nat /\ FlowNow <= FlowNow'
        /\ clock' \in Nat /\ flowBase' \in {Unset} \cup (0 .. clock')
    BY <1>0, <2>1, ClockRuns
  <2>3. TableTyped' BY <1>0, <2>1, <2>2 DEF TableTyped
  <2>4. TableCounts' /\ OneEntry(DOMAIN flows)' BY <1>0, <2>1 DEF TableCounts, OneEntry, ReverseKey
  <2> DEFINE now == FlowNow'
  <2>5. \A j \in DOMAIN flows : Sound(flows[j], now) BY <1>0, <2>2, SoundStays DEF FlowsSound
  <2>6. FlowsSound' BY <2>1, <2>5 DEF FlowsSound, Sound
  <2> QED BY <2>1, <2>3, <2>4, <2>6 DEF TableInv, Kept
<1>4. ASSUME NEW key \in Keys, InsertFlow(key) PROVE TableInv' /\ Kept
  <2>1. /\ Known(key) = {} /\ ~Full /\ flows' = Put(key, NewFlow) /\ created' = created + 1
        /\ flowBase' = Started(flowBase) /\ UNCHANGED <<removed, expired, clock>>
    BY <1>4 DEF InsertFlow
  <2>2. Sound(NewFlow, FlowNow) BY <1>0, NewIsSound
  <2>3. TableInv' /\ DOMAIN flows \subseteq DOMAIN flows' /\ \A j \in DOMAIN flows : flows'[j] = flows[j]
    BY <2>1, <2>2, AddKeeps
  <2> QED BY <2>3 DEF Kept
<1>5. ASSUME NEW key \in Keys, RemoveFlow(key) PROVE TableInv' /\ Kept
  <2> DEFINE gone == {EntryOf(key)}
  <2>1. /\ Known(key) # {} /\ flows' = Without(gone) /\ removed' = removed + 1
        /\ UNCHANGED <<created, expired, clock, flowBase>>
    BY <1>5 DEF RemoveFlow
  <2>2. gone \subseteq DOMAIN flows BY <2>1, EntryIsThere
  <2>3. Cardinality(gone) = 1 BY FS_Singleton
  <2> HIDE DEF gone
  <2>4. TableInv' BY <2>1, <2>2, <2>3, TakeAwayKeeps
  <2>5. removed' # removed BY <1>0, <2>1 DEF TableTyped
  <2> QED BY <2>4, <2>5 DEF Kept
<1>6. ASSUME NEW key \in Keys, CloseFlow(key) PROVE TableInv' /\ Kept
  <2> DEFINE k == EntryOf(key)
             flow == [flows[k] EXCEPT !.state = "Closed"]
  <2>1. /\ Known(key) # {} /\ flows' = [flows EXCEPT ![k] = flow]
        /\ UNCHANGED <<created, removed, expired, clock, flowBase>>
    BY <1>6 DEF CloseFlow
  <2>2. k \in DOMAIN flows BY <2>1, EntryIsThere
  <2> HIDE DEF k
  <2>3. Sound(flows[k], FlowNow) BY <1>0, <2>2 DEF FlowsSound
  <2>4. Sound(flow, FlowNow) /\ Grows(flows[k], flow) BY <2>3, ClosedIsSound
  <2> HIDE DEF flow
  <2>5. flows' = Put(k, flow)
    <3>1. DOMAIN flows \cup {k} = DOMAIN flows BY <2>2
    <3> QED BY <1>0, <2>1, <3>1 DEF Put, TableTyped
  <2>6. TableInv' /\ DOMAIN flows' = DOMAIN flows /\ flows'[k] = flow
        /\ \A j \in DOMAIN flows : j # k => flows'[j] = flows[j]
    BY <2>1, <2>2, <2>4, <2>5, ReplaceKeeps
  <2> QED BY <2>4, <2>6 DEF Kept
<1> QED BY <1>1, <1>2, <1>3, <1>4, <1>5, <1>6 DEF Host

-----------------------------------------------------------------------------
(* The window of recent hashes                                             *)

Hashes == {o.hash : o \in Observations}

Windows == recorded \in Seq(Hashes) /\ order \in Seq(Hashes) /\ WindowIsRecent

LEMMA ElementOfEnd ==
    ASSUME NEW S, NEW s \in Seq(S), NEW n \in Nat, n = Len(s), NEW a \in 1 .. n + 1, NEW i \in 1 .. n - a + 1
    PROVE  SubSeq(s, a, n)[i] = s[a + i - 1]
OBVIOUS

\* The last m elements of a sequence.
LEMMA LastElements ==
    ASSUME NEW S, NEW s \in Seq(S), NEW n \in Nat, n = Len(s), NEW m \in 0 .. n, NEW w, w = SubSeq(s, (n - m) + 1, n)
    PROVE  w \in Seq(S) /\ Len(w) = m /\ \A i \in 1 .. m : w[i] = s[(n - m) + i]
<1> DEFINE a == n - m + 1
<1>1. a \in 1 .. n + 1 /\ a \in Int OBVIOUS
<1>2. w = SubSeq(s, a, n) OBVIOUS
<1>3. \A i \in a .. n : s[i] \in S BY <1>1
<1>4. n - a + 1 = m /\ \A i \in 1 .. m : a + i - 1 = (n - m) + i OBVIOUS
<1> HIDE DEF a
<1>5. w \in Seq(S) BY <1>1, <1>2, <1>3
<1>6. Len(w) = m BY <1>1, <1>2, <1>4
<1>7. \A i \in 1 .. m : w[i] = s[(n - m) + i]
  <2> TAKE i \in 1 .. m
  <2> DEFINE l == a + i - 1
  <2>1. i \in 1 .. n - a + 1 /\ l = (n - m) + i BY <1>4
  <2>2. a \in 1 .. n + 1 /\ i \in 1 .. n - a + 1 BY <1>1, <2>1
  <2>3. SubSeq(s, a, n)[i] = s[a + i - 1] BY ONLY s \in Seq(S), n \in Nat, n = Len(s), <2>2, ElementOfEnd
  <2> QED BY <1>2, <2>1, <2>3
<1> QED BY <1>5, <1>6, <1>7

LEMMA WindowSlides ==
    ASSUME Windows, NEW hash \in Hashes, order' = Windowed(hash), recorded' = Append(recorded, hash)
    PROVE  Windows'
<1> DEFINE n == Len(recorded)
           size == IF n < DedupSize THEN n ELSE DedupSize
           more == IF n + 1 < DedupSize THEN n + 1 ELSE DedupSize
<1>1. /\ n \in Nat /\ DedupSize \in Nat /\ size \in 0 .. n /\ recorded \in Seq(Hashes) /\ order \in Seq(Hashes)
  BY TrackingAssumption DEF Windows
<1>2. order = SubSeq(recorded, n - size + 1, n) BY DEF Windows, WindowIsRecent
<1>3. /\ recorded' \in Seq(Hashes) /\ Len(recorded') = n + 1 /\ recorded'[n + 1] = hash
      /\ \A i \in 1 .. n : recorded'[i] = recorded[i]
  BY <1>1
<1>4. /\ Len(order) = size /\ \A i \in 1 .. size : order[i] = recorded[(n - size) + i]
  <2> HIDE DEF size
  <2> QED BY <1>1, <1>2, LastElements
<1>5. more \in 0 .. n + 1 BY <1>1
<1> HIDE DEF n
<1> DEFINE new == recorded'
           window == SubSeq(new, ((n + 1) - more) + 1, n + 1)
<1>6. window \in Seq(Hashes) /\ Len(window) = more /\ \A i \in 1 .. more : window[i] = new[((n + 1) - more) + i]
  <2> DEFINE l == n + 1
  <2>1. l \in Nat /\ l = Len(new) /\ more \in 0 .. l /\ window = SubSeq(new, (l - more) + 1, l) /\ new \in Seq(Hashes)
    BY <1>1, <1>3, <1>5
  <2> HIDE DEF more, l, window, new
  <2>2. window \in Seq(Hashes) /\ Len(window) = more /\ \A i \in 1 .. more : window[i] = new[(l - more) + i]
    BY <2>1, LastElements
  <2> QED BY <2>2 DEF l
<1> HIDE DEF window
<1>7. order' = window /\ order' \in Seq(Hashes)
  <2>1. CASE DedupSize = 0
    <3>1. size = 0 /\ more = 0 BY <1>1, <2>1
    <3>2. order' = order BY <2>1 DEF Windowed
    <3>3. order = <<>> /\ window = <<>> BY <1>1, <1>4, <1>6, <3>1
    <3> QED BY <1>1, <3>2, <3>3
  <2>2. CASE DedupSize > 0
    <3> DEFINE longer == Append(order, hash)
    <3>1. /\ longer \in Seq(Hashes) /\ Len(longer) = size + 1 /\ longer[size + 1] = hash
          /\ \A i \in 1 .. size : longer[i] = order[i]
      BY <1>1, <1>4
    <3>2. order' = IF Len(longer) > DedupSize THEN Tail(longer) ELSE longer
      BY <1>1, <2>2 DEF Windowed
    <3> HIDE DEF longer
    <3>3. CASE n < DedupSize
      <4>1. size = n /\ more = n + 1 BY <1>1, <3>3
      <4>2. order' = longer BY <1>1, <3>1, <3>2, <3>3, <4>1
      <4>3. \A i \in 1 .. n + 1 : longer[i] = window[i]
        <5> TAKE i \in 1 .. n + 1
        <5>1. ((n + 1) - more) + i = i /\ i \in 1 .. more BY <1>1, <4>1
        <5>2. window[i] = recorded'[i] BY <1>6, <5>1
        <5>3. CASE i = n + 1 BY <1>3, <3>1, <4>1, <5>2, <5>3
        <5>4. CASE i # n + 1
          <6>1. i \in 1 .. n /\ i \in 1 .. size /\ (n - size) + i = i BY <1>1, <4>1, <5>4
          <6>2. longer[i] = order[i] /\ order[i] = recorded[i] BY <1>4, <3>1, <6>1
          <6> QED BY <1>3, <5>2, <6>1, <6>2
        <5> QED BY <5>3, <5>4
      <4>4. longer = window BY <1>1, <1>6, <3>1, <4>1, <4>3, SeqEqual
      <4> QED BY <3>1, <4>2, <4>4
    <3>4. CASE ~(n < DedupSize)
      <4>1. size = DedupSize /\ more = DedupSize BY <1>1, <3>4
      <4>2. order' = Tail(longer) BY <1>1, <3>1, <3>2, <4>1
      <4>3. /\ Tail(longer) \in Seq(Hashes) /\ Len(Tail(longer)) = DedupSize
            /\ \A i \in 1 .. DedupSize : Tail(longer)[i] = longer[i + 1]
        BY <1>1, <2>2, <3>1, <4>1
      <4>4. \A i \in 1 .. DedupSize : Tail(longer)[i] = window[i]
        <5> TAKE i \in 1 .. DedupSize
        <5>1. window[i] = recorded'[((n + 1) - DedupSize) + i] /\ Tail(longer)[i] = longer[i + 1] BY <1>6, <4>1, <4>3
        <5>2. CASE i = DedupSize
          <6>1. i + 1 = size + 1 /\ ((n + 1) - DedupSize) + i = n + 1 BY <1>1, <4>1, <5>2
          <6> QED BY <1>3, <3>1, <5>1, <6>1
        <5>3. CASE i # DedupSize
          <6> DEFINE l == i + 1
          <6>1. l \in 1 .. size /\ ((n + 1) - DedupSize) + i = (n - size) + l /\ (n - size) + l \in 1 .. n
            BY <1>1, <3>4, <4>1, <5>3
          <6>2. longer[i + 1] = longer[l] OBVIOUS
          <6> HIDE DEF l
          <6>3. longer[l] = order[l] /\ order[l] = recorded[(n - size) + l] BY <1>4, <3>1, <6>1
          <6> QED BY <1>3, <5>1, <6>1, <6>2, <6>3
        <5> QED BY <5>2, <5>3
      <4>5. Tail(longer) = window BY <1>1, <1>6, <4>1, <4>3, <4>4, SeqEqual
      <4> QED BY <4>2, <4>3, <4>5
    <3> QED BY <3>3, <3>4
  <2> QED BY <1>1, <2>1, <2>2
<1>8. WindowIsRecent'
  <2> DEFINE l == n + 1
  <2>1. l = Len(recorded') /\ order' = SubSeq(recorded', (l - more) + 1, l) BY <1>3, <1>7 DEF window, l
  <2>2. more = IF l < DedupSize THEN l ELSE DedupSize OBVIOUS
  <2> HIDE DEF l, more
  <2> QED BY <2>1, <2>2 DEF WindowIsRecent
<1> QED BY <1>3, <1>7, <1>8 DEF Windows

-----------------------------------------------------------------------------
(* Tracking                                                                *)

TrackInv == TableInv /\ Windows /\ (current = Nothing \/ current \in Observations)

LEMMA TrackInit == TrackingInit => TrackInv
<1> SUFFICES ASSUME TrackingInit PROVE TrackInv OBVIOUS
<1> USE DEF TrackingInit, TableInit
<1>1. DOMAIN flows = {} BY DEF TrackingInit, TableInit
<1>2. IsFiniteSet(DOMAIN flows) /\ Cardinality(DOMAIN flows) = 0 BY <1>1, FS_EmptySet
<1>3. flows = [k \in DOMAIN flows |-> flows[k]] OBVIOUS
<1>4. TableTyped BY <1>1, <1>2, <1>3 DEF TableTyped
<1>5. TableCounts BY <1>2, FlowAssumption DEF TableCounts
<1>6. OneEntry(DOMAIN flows) /\ FlowsSound BY <1>1 DEF OneEntry, FlowsSound
<1>7. WindowIsRecent
  <2>1. Len(recorded) = 0 /\ order = <<>> /\ recorded = <<>> OBVIOUS
  <2>2. (IF 0 < DedupSize THEN 0 ELSE DedupSize) = 0 BY TrackingAssumption
  <2>3. SubSeq(recorded, 0 - 0 + 1, 0) = <<>> BY <2>1
  <2> QED BY <2>1, <2>2, <2>3 DEF WindowIsRecent
<1>8. recorded \in Seq(Hashes) /\ order \in Seq(Hashes) OBVIOUS
<1> QED BY <1>4, <1>5, <1>6, <1>7, <1>8 DEF TrackInv, TableInv, Windows

LEMMA SameTable == ASSUME TableInv, UNCHANGED flowVars PROVE TableInv' /\ Kept
<1>1. UNCHANGED <<flows, created, removed, expired, clock, flowBase>> BY DEF flowVars
<1>2. TableTyped' /\ TableCounts' BY <1>1 DEF TableInv, TableTyped, TableCounts
<1>3. OneEntry(DOMAIN flows)' BY <1>1 DEF TableInv, OneEntry, ReverseKey
<1>4. FlowsSound' BY <1>1 DEF TableInv, FlowsSound, FlowNow, Started, Sound
<1> QED BY <1>1, <1>2, <1>3, <1>4 DEF TableInv, Kept

LEMMA SameWindow == ASSUME Windows, UNCHANGED <<order, recorded>> PROVE Windows'
BY DEF Windows, WindowIsRecent

LEMMA TrackNext == ASSUME TrackInv, [TrackingNext]_trackingVars PROVE TrackInv' /\ Kept
<1>0. TableInv /\ Windows /\ (current = Nothing \/ current \in Observations) BY DEF TrackInv
<1>1. ASSUME NEW o \in Observations, Take(o) PROVE TrackInv' /\ Kept
  <2>1. current' = o /\ UNCHANGED flowVars BY <1>1 DEF Take
  <2>2. TableInv' /\ Kept BY <1>0, <2>1, SameTable
  <2>3. Windows'
    <3>1. CASE Duplicate(o.hash) BY <1>0, <1>1, <3>1, SameWindow DEF Take
    <3>2. CASE ~Duplicate(o.hash)
      <4>1. order' = Windowed(o.hash) /\ recorded' = Append(recorded, o.hash) BY <1>1, <3>2 DEF Take
      <4>2. o.hash \in Hashes BY DEF Hashes
      <4> QED BY <1>0, <4>1, <4>2, WindowSlides
    <3> QED BY <3>1, <3>2
  <2> QED BY <2>1, <2>2, <2>3 DEF TrackInv
<1>2. CASE Track
  <2>1. current # Nothing /\ current' = Nothing /\ UNCHANGED <<order, recorded>> BY <1>2 DEF Track
  <2>2. Windows' BY <1>0, <2>1, SameWindow
  <2>3. TableInv' /\ Kept
    <3>1. CASE UNCHANGED flowVars BY <1>0, <3>1, SameTable
    <3>2. CASE /\ Record(current.key, FlowDirection(current.direction))
               /\ UNCHANGED <<removed, expired, clock, tableBase>>
      <4>1. current.key \in Keys BY <1>0, <2>1, TrackingAssumption
      <4> QED BY <1>0, <3>2, <4>1, RecordKeeps DEF Kept
    <3> QED BY <1>2, <3>1, <3>2 DEF Track
  <2> QED BY <2>1, <2>2, <2>3 DEF TrackInv
<1>3. CASE Host
  <2>1. UNCHANGED <<order, recorded, current>> BY <1>3 DEF Host, ownVars
  <2> QED BY <1>0, <1>3, <2>1, HostStepKeeps, SameWindow DEF TrackInv
<1>4. CASE UNCHANGED trackingVars
  <2>1. UNCHANGED <<order, recorded, current>> /\ UNCHANGED flowVars BY <1>4 DEF trackingVars, ownVars
  <2> QED BY <1>0, <2>1, SameTable, SameWindow DEF TrackInv
<1> QED BY <1>1, <1>2, <1>3, <1>4 DEF TrackingNext

\* A conversation has one entry whichever direction was seen first, the table
\* keeps its bound, its totals explain its size, no flow contradicts itself or
\* its clock, and the duplicate filter's window is exactly the last hashes it
\* let through, for any table, window and interleaving of the processing thread
\* with the Host's calls (TrackingInv; flow_table.rs, dedup.rs).
THEOREM TrackingConsistent == TrackingSpec => []TrackingInv
<1>1. TrackInv /\ [TrackingNext]_trackingVars => TrackInv' BY TrackNext
<1>2. TrackInv => TrackingInv BY TableIsConsistent DEF TrackInv, Windows, TrackingInv
<1> QED BY <1>1, <1>2, TrackInit, PTL DEF TrackingSpec

\* Between two calls that remove flows no flow is forgotten, counted backwards
\* or reopened (FlowsOnlyGrow).
THEOREM FlowsGrow == TrackingSpec => FlowsOnlyGrow
<1> DEFINE Step == removed' = removed =>
         /\ DOMAIN flows \subseteq DOMAIN flows'
         /\ \A key \in DOMAIN flows :
              /\ flows'[key].packets >= flows[key].packets
              /\ flows'[key].forward >= flows[key].forward
              /\ flows'[key].reverse >= flows[key].reverse
              /\ flows'[key].last >= flows[key].last
              /\ flows[key].state = "Closed" => flows'[key].state = "Closed"
<1>1. TrackInv /\ [TrackingNext]_trackingVars => TrackInv' /\ Step
  <2> SUFFICES ASSUME TrackInv, [TrackingNext]_trackingVars PROVE TrackInv' /\ Step OBVIOUS
  <2>1. TrackInv' /\ Kept BY TrackNext
  <2>2. \A j \in DOMAIN flows : Grows(flows[j], flows[j]) BY SameGrows DEF TrackInv, TableInv, FlowsSound
  <2>3. ASSUME removed' = removed, NEW j \in DOMAIN flows PROVE Grows(flows[j], flows'[j])
    BY <2>1, <2>2, <2>3 DEF Kept
  <2> QED BY <2>1, <2>3 DEF Kept, Grows
<1>2. TrackingSpec => [][Step]_trackingVars BY <1>1, TrackInit, PTL DEF TrackingSpec
<1> QED BY <1>2 DEF FlowsOnlyGrow

-----------------------------------------------------------------------------
(* The counters                                                            *)

Names == Totals \cup Metrics

UpdateType == [name : Names, op : {"add", "set", "decrement"}, n : Nat]

CountersTyped ==
    /\ counter \in [Names -> Nat]
    /\ updates \in [Recorders -> Seq(UpdateType)]
    /\ bus \in Seq(Nat) /\ observed \in Seq(Nat) /\ overlapped \in BOOLEAN

\* What is left of a call that records statistics.
Work(l) ==
    \E n \in Nat : \/ l = <<>>
                   \/ l = <<Add("received", 1), Add("bytesReceived", n)>>
                   \/ l = <<Add("bytesReceived", n)>>
                   \/ l = <<Add("processed", 1), Add("bytesProcessed", n)>>
                   \/ l = <<Add("bytesProcessed", n)>>
                   \/ l = <<Add("lookups", 1)>>
                   \/ l = <<Add("lookups", 1), Add("failures", 1)>>
                   \/ l = <<Add("failures", 1)>>

\* Lookups counted whose failure is still to be counted.
Failing(l) == IF l = <<Add("failures", 1)>> THEN 1 ELSE 0
Unfailed == OverThreads([t \in Recorders |-> Failing(updates[t])])

LookupsCounted == counter["failures"] + Unfailed <= counter["lookups"]

\* What a snapshot has loaded lies between what was there when it began and now.
SnapshotBounds ==
    /\ reads \in Seq(Nat) /\ Len(reads) <= 6 /\ base \in [Names -> Nat]
    /\ \A c \in Totals : base[c] <= counter[c]
    /\ base["processed"] <= base["received"] + Cardinality(Recorders)
    /\ \A i \in DOMAIN reads : base[Fields[i]] <= reads[i] /\ reads[i] <= counter[Fields[i]]

\* While statistics are recorded: the totals, the snapshot, and a histogram
\* nobody touches.
CountInv ==
    /\ CountersTyped
    /\ \A t \in Recorders : Work(updates[t])
    /\ EveryPacketCounted /\ LookupsCounted /\ SnapshotBounds
    /\ observed = <<>> /\ \A c \in Metrics : counter[c] = 0

Histogram == Metrics \ {"flows"}

\* Updates of the gauge and the histogram.
MetricUpdate(u) ==
    /\ u.name \in Metrics
    /\ u.name \in Histogram => (u.op = "add" \/ (u.op = "set" /\ u.n = 0))

MetricCall(l) == \A i \in DOMAIN l : MetricUpdate(l[i])

\* What the observations since the last reset come to.
Expected(c) ==
    IF c = "sum" THEN Total(observed)
    ELSE IF c = "count" THEN Len(observed)
    ELSE Cardinality({k \in DOMAIN observed : BucketOf(observed[k]) = c})

\* An update of counter c is among those to be done.
Holds(l, op, c) == \E i \in DOMAIN l : l[i].op = op /\ l[i].name = c
Waits(op, c) == \E t \in Recorders : Holds(updates[t], op, c)

\* While metrics are recorded: a counter of the histogram is about to be reset,
\* or it will be what was observed once the threads are done.
HistogramInv ==
    /\ CountersTyped
    /\ \A t \in Recorders : MetricCall(updates[t])
    /\ bus = <<>> /\ reads = <<>> /\ \A c \in Totals : counter[c] = 0
    /\ ~overlapped => /\ Resetting => observed = <<>> /\ ~Observing
                      /\ \A c \in Histogram : Waits("set", c) \/ InFull(c) = Expected(c)

\* The threads, each at one place.
LEMMA ThreadPlaces ==
    /\ Cardinality(Recorders) \in Nat
    /\ SetToSeq(Recorders) \in [1 .. Cardinality(Recorders) -> Recorders]
    /\ \A i, j \in 1 .. Cardinality(Recorders) : SetToSeq(Recorders)[i] = SetToSeq(Recorders)[j] => i = j
    /\ \A t \in Recorders : \E k \in 1 .. Cardinality(Recorders) : SetToSeq(Recorders)[k] = t
<1> DEFINE n == Cardinality(Recorders)
           T == 1 .. n
<1>1. IsFiniteSet(Recorders) BY StatisticsAssumption
<1>2. n \in Nat BY <1>1, FS_CardinalityType
<1>3. IsFiniteSet(T) /\ Cardinality(T) = n
  <2>1. 1 \in Int /\ n \in Int BY <1>2
  <2>2. IsFiniteSet(1 .. n) /\ Cardinality(1 .. n) = IF 1 > n THEN 0 ELSE n - 1 + 1 BY <2>1, FS_Interval
  <2> QED BY <1>2, <2>2
<1>4. ExistsBijection(T, Recorders) BY <1>1, <1>3, FS_SameCardinalityBij
<1>5. PICK b \in [T -> Recorders] : IsInjective(b)
  BY <1>4 DEF ExistsBijection, Bijection, Injection
<1> DEFINE e == SetToSeq(Recorders)
<1>6. e \in [T -> Recorders] /\ IsInjective(e) BY <1>5 DEF SetToSeq
<1> HIDE DEF e
<1>7. e \in Injection(T, Recorders) BY <1>6 DEF Injection
<1>8. e \in Surjection(T, Recorders) BY <1>1, <1>3, <1>7, FS_Injection
<1>9. \A t \in Recorders : \E k \in T : e[k] = t BY <1>8 DEF Surjection
<1>10. \A i, j \in T : e[i] = e[j] => i = j BY <1>6 DEF IsInjective
<1> QED BY <1>2, <1>6, <1>9, <1>10 DEF e

LEMMA SumOverThreads ==
    ASSUME NEW v \in [Recorders -> Nat]
    PROVE  /\ OverThreads(v) \in Nat
           /\ (\A t \in Recorders : v[t] <= 1) => OverThreads(v) <= Cardinality(Recorders)
           /\ (\A t \in Recorders : v[t] = 0) => OverThreads(v) = 0
<1> DEFINE n == Cardinality(Recorders)
           e == SetToSeq(Recorders)
           s == [k \in DOMAIN e |-> v[e[k]]]
<1>1. n \in Nat /\ e \in [1 .. n -> Recorders] BY ThreadPlaces
<1>2. OverThreads(v) = Total(s) BY DEF OverThreads
<1> HIDE DEF e, n
<1>3. DOMAIN e = 1 .. n /\ \A k \in 1 .. n : e[k] \in Recorders BY <1>1
<1>4. s \in Seq(Nat) /\ Len(s) = n /\ DOMAIN s = 1 .. n /\ \A k \in 1 .. n : s[k] = v[e[k]]
  <2>1. s = [k \in 1 .. n |-> v[e[k]]] BY <1>3
  <2>2. \A k \in 1 .. n : v[e[k]] \in Nat BY <1>3
  <2> QED BY <1>1, <2>1, <2>2
<1> HIDE DEF s
<1>5. /\ Total(s) \in Nat
      /\ (\A k \in DOMAIN s : s[k] <= 1) => Total(s) <= n
      /\ (\A k \in DOMAIN s : s[k] = 0) => Total(s) = 0
  BY <1>4, TotalNatural
<1>6. (\A t \in Recorders : v[t] <= 1) => \A k \in DOMAIN s : s[k] <= 1 BY <1>3, <1>4
<1>7. (\A t \in Recorders : v[t] = 0) => \A k \in DOMAIN s : s[k] = 0 BY <1>3, <1>4
<1> QED BY <1>2, <1>5, <1>6, <1>7 DEF n

\* One thread's share changes.
LEMMA SumMoves ==
    ASSUME NEW v \in [Recorders -> Nat], NEW w \in [Recorders -> Nat], NEW t \in Recorders,
           \A x \in Recorders : x # t => w[x] = v[x]
    PROVE  OverThreads(w) + v[t] = OverThreads(v) + w[t]
<1> DEFINE n == Cardinality(Recorders)
           e == SetToSeq(Recorders)
           s(f) == [k \in DOMAIN e |-> f[e[k]]]
<1>1. /\ n \in Nat /\ e \in [1 .. n -> Recorders]
      /\ \A i, j \in 1 .. n : e[i] = e[j] => i = j
      /\ \E k \in 1 .. n : e[k] = t
  BY ThreadPlaces
<1>2. OverThreads(v) = Total(s(v)) /\ OverThreads(w) = Total(s(w)) BY DEF OverThreads
<1> HIDE DEF e, n
<1>3. DOMAIN e = 1 .. n /\ \A k \in 1 .. n : e[k] \in Recorders BY <1>1
<1>4. ASSUME NEW f \in [Recorders -> Nat]
      PROVE  s(f) \in Seq(Nat) /\ Len(s(f)) = n /\ \A k \in 1 .. n : s(f)[k] = f[e[k]]
  <2>1. s(f) = [k \in 1 .. n |-> f[e[k]]] BY <1>3
  <2>2. \A k \in 1 .. n : f[e[k]] \in Nat BY <1>3
  <2> QED BY <1>1, <2>1, <2>2
<1>5. PICK i \in 1 .. n : e[i] = t BY <1>1
<1>6. /\ s(v) \in Seq(Nat) /\ Len(s(v)) = n /\ \A k \in 1 .. n : s(v)[k] = v[e[k]]
      /\ s(w) \in Seq(Nat) /\ Len(s(w)) = n /\ \A k \in 1 .. n : s(w)[k] = w[e[k]]
  BY <1>4
<1> HIDE DEF s
<1>7. SameBut(s(v), s(w), i) BY <1>1, <1>3, <1>5, <1>6 DEF SameBut
<1>8. Total(s(w)) + s(v)[i] = Total(s(v)) + s(w)[i] BY <1>5, <1>6, <1>7, TotalChanged
<1> QED BY <1>2, <1>5, <1>6, <1>8

\* What one update adds to counter c.
AddedBy(u, c) == IF u.name = c /\ u.op = "add" THEN u.n ELSE 0

LEMMA AddedFacts ==
    ASSUME NEW l \in Seq(UpdateType), NEW c
    PROVE  /\ Added(l, c) \in Nat
           /\ (\A i \in DOMAIN l : AddedBy(l[i], c) = 0) => Added(l, c) = 0
           /\ l # <<>> => /\ Head(l) \in UpdateType /\ Tail(l) \in Seq(UpdateType)
                          /\ AddedBy(Head(l), c) \in Nat
                          /\ Added(l, c) = AddedBy(Head(l), c) + Added(Tail(l), c)
<1> DEFINE s(m) == [i \in DOMAIN m |-> AddedBy(m[i], c)]
<1>1. ASSUME NEW m \in Seq(UpdateType)
      PROVE  s(m) \in Seq(Nat) /\ Len(s(m)) = Len(m) /\ \A i \in DOMAIN m : s(m)[i] = AddedBy(m[i], c)
  <2>1. DOMAIN m = 1 .. Len(m) /\ Len(m) \in Nat /\ \A i \in DOMAIN m : m[i] \in UpdateType OBVIOUS
  <2>2. \A i \in DOMAIN m : AddedBy(m[i], c) \in Nat BY <2>1 DEF AddedBy, UpdateType
  <2> QED BY <2>1, <2>2
<1>2. \A m : Added(m, c) = Total(s(m)) BY DEF Added, AddedBy
<1> HIDE DEF s
<1>3. s(l) \in Seq(Nat) /\ Len(s(l)) = Len(l) /\ \A i \in DOMAIN l : s(l)[i] = AddedBy(l[i], c) BY <1>1
<1>4. DOMAIN s(l) = DOMAIN l BY <1>3
<1>5. Total(s(l)) \in Nat /\ ((\A k \in DOMAIN s(l) : s(l)[k] = 0) => Total(s(l)) = 0) BY <1>3, TotalNatural
<1>6. (\A i \in DOMAIN l : AddedBy(l[i], c) = 0) => Added(l, c) = 0 BY <1>2, <1>3, <1>4, <1>5
<1>7. ASSUME l # <<>>
      PROVE  /\ Head(l) \in UpdateType /\ Tail(l) \in Seq(UpdateType)
             /\ AddedBy(Head(l), c) \in Nat
             /\ Added(l, c) = AddedBy(Head(l), c) + Added(Tail(l), c)
  <2> DEFINE m == Tail(l)
  <2>1. /\ Head(l) \in UpdateType /\ m \in Seq(UpdateType) /\ Head(l) = l[1] /\ 1 \in DOMAIN l
        /\ Len(m) = Len(l) - 1 /\ \A i \in DOMAIN m : m[i] = l[i + 1] /\ i + 1 \in DOMAIN l
    BY <1>7
  <2> HIDE DEF m
  <2>2. s(m) \in Seq(Nat) /\ Len(s(m)) = Len(m) /\ \A i \in DOMAIN m : s(m)[i] = AddedBy(m[i], c) BY <1>1, <2>1
  <2>3. s(l) # <<>> BY <1>3, <1>4, <2>1
  <2>4. Head(s(l)) = AddedBy(Head(l), c) BY <1>3, <2>1, <2>3
  <2>5. Tail(s(l)) = s(m)
    <3> DEFINE a == s(l)
               b == s(m)
               d == Tail(a)
    <3>1. d \in Seq(Nat) /\ Len(d) = Len(a) - 1 /\ \A i \in 1 .. Len(d) : d[i] = a[i + 1] BY <1>3, <2>3
    <3>2. Len(d) = Len(b) BY <1>3, <2>1, <2>2, <3>1
    <3>3. ASSUME NEW i \in 1 .. Len(d) PROVE d[i] = b[i]
      <4>1. i \in DOMAIN m BY <2>1, <2>2, <3>2
      <4>2. b[i] = AddedBy(l[i + 1], c) /\ a[i + 1] = AddedBy(l[i + 1], c) BY <1>3, <2>1, <2>2, <4>1
      <4> QED BY <3>1, <4>2
    <3>4. b \in Seq(Nat) BY <2>2
    <3> HIDE DEF a, b, d
    <3>5. d \in Seq(Nat) BY <3>1
    <3>6. d = b BY <3>2, <3>3, <3>4, <3>5, SeqEqual
    <3> QED BY <3>6 DEF d, a, b
  <2>6. Total(s(l)) = Head(s(l)) + Total(Tail(s(l))) /\ Head(s(l)) \in Nat BY <1>3, <2>3, TotalFront
  <2> QED BY <1>2, <2>1, <2>4, <2>5, <2>6 DEF m
<1> QED BY <1>2, <1>5, <1>6, <1>7

LEMMA PendingFacts ==
    ASSUME CountersTyped, NEW c
    PROVE  /\ Pending(c) \in Nat
           /\ (\A t \in Recorders : Added(updates[t], c) <= 1) => Pending(c) <= Cardinality(Recorders)
           /\ (\A t \in Recorders : Added(updates[t], c) = 0) => Pending(c) = 0
<1> DEFINE v == [t \in Recorders |-> Added(updates[t], c)]
<1>1. v \in [Recorders -> Nat]
  <2>1. \A t \in Recorders : updates[t] \in Seq(UpdateType) BY DEF CountersTyped
  <2>2. \A t \in Recorders : Added(updates[t], c) \in Nat BY <2>1, AddedFacts
  <2> QED BY <2>2
<1>2. Pending(c) = OverThreads(v) BY DEF Pending
<1>3. \A t \in Recorders : v[t] = Added(updates[t], c) OBVIOUS
<1> HIDE DEF v
<1>4. /\ OverThreads(v) \in Nat
      /\ (\A t \in Recorders : v[t] <= 1) => OverThreads(v) <= Cardinality(Recorders)
      /\ (\A t \in Recorders : v[t] = 0) => OverThreads(v) = 0
  BY <1>1, SumOverThreads
<1> QED BY <1>2, <1>3, <1>4

\* A thread's list changes.
LEMMA PendingMoves ==
    ASSUME CountersTyped, NEW t \in Recorders, NEW l \in Seq(UpdateType),
           updates' = [updates EXCEPT ![t] = l], NEW c
    PROVE  Pending(c)' \in Nat /\ Pending(c)' + Added(updates[t], c) = Pending(c) + Added(l, c)
<1> DEFINE v == [x \in Recorders |-> Added(updates[x], c)]
           w == [x \in Recorders |-> Added(updates'[x], c)]
<1>1. \A x \in Recorders : updates[x] \in Seq(UpdateType) BY DEF CountersTyped
<1>2. updates'[t] = l /\ \A x \in Recorders : x # t => updates'[x] = updates[x] BY DEF CountersTyped
<1>3. \A x \in Recorders : updates'[x] \in Seq(UpdateType) BY <1>1, <1>2
<1>4. v \in [Recorders -> Nat]
  <2>1. \A x \in Recorders : Added(updates[x], c) \in Nat BY <1>1, AddedFacts
  <2> QED BY <2>1
<1>5. w \in [Recorders -> Nat]
  <2>1. \A x \in Recorders : Added(updates'[x], c) \in Nat BY <1>3, AddedFacts
  <2> QED BY <2>1
<1>6. Pending(c) = OverThreads(v) /\ Pending(c)' = OverThreads(w) BY DEF Pending, OverThreads
<1>7. v[t] = Added(updates[t], c) /\ w[t] = Added(l, c) BY <1>2
<1>8. \A x \in Recorders : x # t => w[x] = v[x] BY <1>2
<1> HIDE DEF v, w
<1>9. OverThreads(w) + v[t] = OverThreads(v) + w[t] BY <1>4, <1>5, <1>8, SumMoves
<1>10. OverThreads(w) \in Nat BY <1>5, SumOverThreads
<1> QED BY <1>6, <1>7, <1>9, <1>10

LEMMA AddedList ==
    ASSUME NEW u \in UpdateType, NEW w \in UpdateType, NEW c
    PROVE  /\ Added(<<>>, c) = 0
           /\ <<u>> \in Seq(UpdateType) /\ Added(<<u>>, c) = AddedBy(u, c)
           /\ <<u, w>> \in Seq(UpdateType) /\ Added(<<u, w>>, c) = AddedBy(u, c) + AddedBy(w, c)
<1>1. ASSUME NEW l \in Seq(UpdateType), l # <<>>, NEW h, NEW r, Head(l) = h, Tail(l) = r
      PROVE  Added(l, c) = AddedBy(h, c) + Added(r, c) /\ AddedBy(h, c) \in Nat
  BY <1>1, AddedFacts
<1>2. Added(<<>>, c) = 0
  <2>1. <<>> \in Seq(UpdateType) /\ DOMAIN <<>> = {} OBVIOUS
  <2> QED BY <2>1, AddedFacts
<1>3. <<u>> \in Seq(UpdateType) /\ <<u>> # <<>> /\ Head(<<u>>) = u /\ Tail(<<u>>) = <<>> OBVIOUS
<1>4. <<u, w>> \in Seq(UpdateType) /\ <<u, w>> # <<>> /\ Head(<<u, w>>) = u /\ Tail(<<u, w>>) = <<w>> OBVIOUS
<1>5. \A y \in UpdateType : AddedBy(y, c) \in Nat BY DEF AddedBy, UpdateType
<1>6. ASSUME NEW y \in UpdateType PROVE Added(<<y>>, c) = AddedBy(y, c)
  <2>1. <<y>> \in Seq(UpdateType) /\ <<y>> # <<>> /\ Head(<<y>>) = y /\ Tail(<<y>>) = <<>> OBVIOUS
  <2>2. Added(<<y>>, c) = AddedBy(y, c) + Added(<<>>, c) BY <1>1, <2>1
  <2> QED BY <1>2, <1>5, <2>2
<1>7. ASSUME NEW y \in UpdateType, NEW z \in UpdateType PROVE Added(<<y, z>>, c) = AddedBy(y, c) + AddedBy(z, c)
  <2>1. <<y, z>> \in Seq(UpdateType) /\ <<y, z>> # <<>> /\ Head(<<y, z>>) = y /\ Tail(<<y, z>>) = <<z>> OBVIOUS
  <2>2. Added(<<y, z>>, c) = AddedBy(y, c) + Added(<<z>>, c) BY <1>1, <2>1
  <2> QED BY <1>6, <2>2
<1> QED BY <1>2, <1>3, <1>4, <1>6, <1>7

\* One thread's list is replaced.
Replaced(t, l) ==
    /\ updates' \in [Recorders -> Seq(UpdateType)]
    /\ updates'[t] = l /\ \A x \in Recorders : x # t => updates'[x] = updates[x]

LEMMA BeginFacts ==
    ASSUME CountersTyped, NEW t \in Recorders, NEW l \in Seq(UpdateType), Begin(t, l)
    PROVE  /\ updates[t] = <<>> /\ Replaced(t, l) /\ UNCHANGED <<counter, reads, base>>
           /\ \A c : Pending(c)' = Pending(c) + Added(l, c) /\ Pending(c) \in Nat /\ Added(l, c) \in Nat
<1>1. updates[t] = <<>> /\ updates' = [updates EXCEPT ![t] = l] /\ UNCHANGED <<counter, reads, base>> BY DEF Begin
<1>2. updates \in [Recorders -> Seq(UpdateType)] BY DEF CountersTyped
<1>3. Replaced(t, l) BY <1>1, <1>2 DEF Replaced
<1>4. ASSUME NEW c PROVE Pending(c)' = Pending(c) + Added(l, c) /\ Pending(c) \in Nat /\ Added(l, c) \in Nat
  <2>1. Pending(c)' \in Nat /\ Pending(c)' + Added(updates[t], c) = Pending(c) + Added(l, c) BY <1>1, PendingMoves
  <2>2. <<>> \in Seq(UpdateType) /\ DOMAIN <<>> = {} OBVIOUS
  <2>3. Added(<<>>, c) = 0 BY <2>2, AddedFacts
  <2>4. Pending(c) \in Nat BY PendingFacts
  <2>5. Added(l, c) \in Nat BY AddedFacts
  <2> QED BY <1>1, <2>1, <2>3, <2>4, <2>5
<1> QED BY <1>1, <1>3, <1>4

LEMMA AdjustedNatural == ASSUME NEW x \in Nat, NEW u \in UpdateType PROVE Adjusted(x, u) \in Nat
<1>1. u.op \in {"add", "set", "decrement"} /\ u.n \in Nat BY DEF UpdateType
<1>2. CASE u.op = "add" BY <1>1, <1>2 DEF Adjusted
<1>3. CASE u.op = "set" BY <1>1, <1>3 DEF Adjusted
<1>4. CASE u.op = "decrement"
  <2>1. Adjusted(x, u) = IF x = 0 THEN 0 ELSE x - 1 BY <1>4 DEF Adjusted
  <2> QED BY <2>1
<1> QED BY <1>1, <1>2, <1>3, <1>4

LEMMA UpdateFacts ==
    ASSUME CountersTyped, NEW t \in Recorders, Update(t), NEW u, u = Head(updates[t]), NEW l, l = Tail(updates[t])
    PROVE  /\ updates[t] # <<>> /\ u \in UpdateType /\ l \in Seq(UpdateType) /\ Replaced(t, l)
           /\ CountersTyped' /\ UNCHANGED <<bus, reads, base, observed, overlapped>>
           /\ counter'[u.name] = Adjusted(counter[u.name], u)
           /\ \A c \in Names : c # u.name => counter'[c] = counter[c]
           /\ \A c \in Names : c # u.name \/ u.op = "add" => InFull(c)' = InFull(c)
<1>1. /\ updates[t] # <<>> /\ counter' = [counter EXCEPT ![u.name] = Adjusted(@, u)]
      /\ updates' = [updates EXCEPT ![t] = l]
      /\ UNCHANGED <<bus, reads, base, observed, overlapped>>
  BY DEF Update
<1>2. updates \in [Recorders -> Seq(UpdateType)] /\ counter \in [Names -> Nat] BY DEF CountersTyped
<1>3. updates[t] \in Seq(UpdateType) BY <1>2
<1>4. u \in UpdateType /\ l \in Seq(UpdateType) BY <1>1, <1>3, AddedFacts
<1>5. Replaced(t, l) BY <1>1, <1>2, <1>4 DEF Replaced
<1>6. u.name \in Names /\ u.op \in {"add", "set", "decrement"} /\ u.n \in Nat BY <1>4 DEF UpdateType
<1>7. counter[u.name] \in Nat BY <1>2, <1>6
<1>8. Adjusted(counter[u.name], u) \in Nat BY <1>4, <1>7, AdjustedNatural
<1>9. counter' \in [Names -> Nat] BY <1>1, <1>2, <1>8
<1>10. counter'[u.name] = Adjusted(counter[u.name], u) BY <1>1, <1>2, <1>6
<1>11. \A c \in Names : c # u.name => counter'[c] = counter[c] BY <1>1, <1>2
<1>12. CountersTyped' BY <1>1, <1>5, <1>9 DEF CountersTyped, Replaced
<1>13. ASSUME NEW c \in Names, c # u.name \/ u.op = "add" PROVE InFull(c)' = InFull(c)
  <2>1. Pending(c)' \in Nat /\ Pending(c)' + Added(updates[t], c) = Pending(c) + Added(l, c)
    BY <1>1, <1>4, PendingMoves
  <2>2. Added(updates[t], c) = AddedBy(u, c) + Added(l, c) /\ AddedBy(u, c) \in Nat BY <1>1, <1>3, AddedFacts
  <2>3. Added(l, c) \in Nat BY <1>4, AddedFacts
  <2>4. Pending(c) \in Nat BY PendingFacts
  <2>5. Pending(c)' + AddedBy(u, c) = Pending(c)
    <3>1. Pending(c)' + (AddedBy(u, c) + Added(l, c)) = Pending(c) + Added(l, c) BY <2>1, <2>2
    <3> DEFINE p == Pending(c)'
               q == Pending(c)
               a == AddedBy(u, c)
               b == Added(l, c)
    <3>2. p \in Nat /\ q \in Nat /\ a \in Nat /\ b \in Nat BY <2>1, <2>2, <2>3, <2>4
    <3>3. p + (a + b) = q + b BY <3>1
    <3> SUFFICES p + a = q OBVIOUS
    <3> HIDE DEF p, q, a, b
    <3> QED BY <3>2, <3>3
  <2>6. counter'[c] = counter[c] + AddedBy(u, c) /\ counter[c] \in Nat
    <3>1. counter[c] \in Nat BY <1>2
    <3>2. CASE c = u.name
      <4>1. u.op = "add" BY <1>13, <3>2
      <4>2. AddedBy(u, c) = u.n BY <3>2, <4>1 DEF AddedBy
      <4>3. Adjusted(counter[c], u) = counter[c] + u.n BY <4>1 DEF Adjusted
      <4> QED BY <1>10, <3>1, <3>2, <4>2, <4>3
    <3>3. CASE c # u.name
      <4>1. AddedBy(u, c) = 0 BY <3>3 DEF AddedBy
      <4> QED BY <1>11, <3>1, <3>3, <4>1
    <3> QED BY <3>2, <3>3
  <2>7. InFull(c) = counter[c] + Pending(c) /\ InFull(c)' = counter'[c] + Pending(c)' BY DEF InFull
  <2> QED BY <2>1, <2>2, <2>4, <2>5, <2>6, <2>7
<1> QED BY <1>1, <1>4, <1>5, <1>10, <1>11, <1>12, <1>13

-----------------------------------------------------------------------------
(* Statistics                                                              *)

LEMMA TotalsNamed ==
    /\ Totals \subseteq Names /\ Metrics \subseteq Names
    /\ \A c \in Totals : c \notin Metrics
    /\ {"received", "processed", "bytesReceived", "bytesProcessed", "lookups", "failures"} \subseteq Names
BY StatisticsAssumption DEF Names, Totals, Metrics

LEMMA AddTyped ==
    ASSUME NEW c \in Names, NEW n \in Nat
    PROVE  /\ Add(c, n) \in UpdateType /\ AddedBy(Add(c, n), c) = n
           /\ \A d : d # c => AddedBy(Add(c, n), d) = 0
BY DEF Add, UpdateType, AddedBy

\* What the next update of such a call is.
NextUpdate(l) ==
    /\ Work(Tail(l)) /\ Head(l).op = "add" /\ Head(l).name \in Totals
    /\ Head(l).name = "failures" => (l = <<Add("failures", 1)>> /\ Tail(l) = <<>> /\ Head(l).n = 1)
    /\ Head(l).name = "lookups" => Head(l).n = 1
    /\ Tail(l) = <<Add("failures", 1)>> => Head(l).name = "lookups"

LEMMA WorkFacts ==
    ASSUME NEW l, Work(l)
    PROVE  /\ l \in Seq(UpdateType) /\ Added(l, "received") <= 1
           /\ l # <<>> => NextUpdate(l)
<1>1. PICK n \in Nat : \/ l = <<>>
                   \/ l = <<Add("received", 1), Add("bytesReceived", n)>>
                   \/ l = <<Add("bytesReceived", n)>>
                   \/ l = <<Add("processed", 1), Add("bytesProcessed", n)>>
                   \/ l = <<Add("bytesProcessed", n)>>
                   \/ l = <<Add("lookups", 1)>>
                   \/ l = <<Add("lookups", 1), Add("failures", 1)>>
                   \/ l = <<Add("failures", 1)>>
  BY DEF Work
<1> DEFINE P(m) == m # <<>> => NextUpdate(m)
           Q(m) == m \in Seq(UpdateType) /\ Added(m, "received") <= 1
<1>2. ASSUME NEW c \in Totals, NEW x \in Nat PROVE Add(c, x).name = c /\ Add(c, x).op = "add" /\ Add(c, x).n = x
  BY DEF Add
<1>3. ASSUME NEW c \in Totals, NEW x \in Nat, c = "lookups" \/ c = "failures" => x = 1
      PROVE  P(<<Add(c, x)>>)
  <2> DEFINE u == Add(c, x)
  <2>1. u.name = c /\ u.op = "add" /\ u.n = x BY <1>2
  <2>2. c = "failures" => u = Add("failures", 1) BY <1>3
  <2> HIDE DEF u
  <2>3. Head(<<u>>) = u /\ Tail(<<u>>) = <<>> OBVIOUS
  <2>4. Work(<<>>) BY 0 \in Nat DEF Work
  <2>5. <<>> # <<Add("failures", 1)>> OBVIOUS
  <2>6. P(<<u>>) BY <1>3, <2>1, <2>2, <2>3, <2>4, <2>5 DEF NextUpdate
  <2> HIDE DEF P
  <2> QED BY <2>6 DEF u
<1>4. ASSUME NEW c \in Totals, NEW x \in Nat, NEW d \in Totals, NEW y \in Nat, Work(<<Add(d, y)>>),
             c = "lookups" => x = 1, c # "failures", d = "failures" => c = "lookups"
      PROVE  P(<<Add(c, x), Add(d, y)>>)
  <2> DEFINE u == Add(c, x)
             w == Add(d, y)
  <2>1. u.name = c /\ u.op = "add" /\ u.n = x /\ w.name = d BY <1>2
  <2>2. Add("failures", 1).name = "failures" BY <1>2 DEF Totals
  <2>3. Work(<<w>>) BY <1>4
  <2> HIDE DEF u, w
  <2>4. Head(<<u, w>>) = u /\ Tail(<<u, w>>) = <<w>> OBVIOUS
  <2>5. <<w>> = <<Add("failures", 1)>> => d = "failures" BY <2>1, <2>2
  <2>6. P(<<u, w>>) BY <1>4, <2>1, <2>3, <2>4, <2>5 DEF NextUpdate
  <2> HIDE DEF P
  <2> QED BY <2>6 DEF u, w
<1>5. ASSUME NEW c \in Totals, NEW x \in Nat, c = "received" => x <= 1 PROVE Q(<<Add(c, x)>>)
  <2> DEFINE u == Add(c, x)
  <2>1. c \in Names BY TotalsNamed
  <2>2. u \in UpdateType /\ AddedBy(u, c) = x /\ \A e : e # c => AddedBy(u, e) = 0 BY <2>1, AddTyped
  <2> HIDE DEF u
  <2>3. <<u>> \in Seq(UpdateType) /\ Added(<<u>>, "received") = AddedBy(u, "received") BY <2>2, AddedList
  <2>4. AddedBy(u, "received") <= 1 BY <1>5, <2>2
  <2> QED BY <2>3, <2>4 DEF u
<1>6. ASSUME NEW c \in Totals, NEW x \in Nat, NEW d \in Totals, NEW y \in Nat, c = "received" => x <= 1, d # "received"
      PROVE  Q(<<Add(c, x), Add(d, y)>>)
  <2> DEFINE u == Add(c, x)
             w == Add(d, y)
  <2>1. c \in Names /\ d \in Names BY TotalsNamed
  <2>2. u \in UpdateType /\ AddedBy(u, c) = x /\ \A e : e # c => AddedBy(u, e) = 0 BY <2>1, AddTyped
  <2>3. w \in UpdateType /\ \A e : e # d => AddedBy(w, e) = 0 BY <2>1, AddTyped
  <2> HIDE DEF u, w
  <2>4. <<u, w>> \in Seq(UpdateType) /\ Added(<<u, w>>, "received") = AddedBy(u, "received") + AddedBy(w, "received")
    BY <2>2, <2>3, AddedList
  <2>5. AddedBy(u, "received") <= 1 /\ AddedBy(u, "received") \in Nat /\ AddedBy(w, "received") = 0 BY <1>6, <2>2, <2>3
  <2> QED BY <2>4, <2>5 DEF u, w
<1>7. Q(<<>>)
  <2>1. <<>> \in Seq(UpdateType) /\ DOMAIN <<>> = {} OBVIOUS
  <2>2. Added(<<>>, "received") = 0 BY <2>1, AddedFacts
  <2> QED BY <2>1, <2>2
<1>8. P(<<>>) OBVIOUS
<1>9. 1 \in Nat /\ {"received", "processed", "bytesReceived", "bytesProcessed", "lookups", "failures"} \subseteq Totals
  BY DEF Totals
<1>10. /\ Work(<<Add("bytesReceived", n)>>) /\ Work(<<Add("bytesProcessed", n)>>) /\ Work(<<Add("failures", 1)>>)
  BY DEF Work
<1>11. /\ P(<<Add("received", 1), Add("bytesReceived", n)>>)
       /\ P(<<Add("processed", 1), Add("bytesProcessed", n)>>)
       /\ P(<<Add("lookups", 1), Add("failures", 1)>>)
  <2> HIDE DEF P
  <2> QED BY <1>4, <1>9, <1>10
<1>12. /\ P(<<Add("bytesReceived", n)>>) /\ P(<<Add("bytesProcessed", n)>>)
       /\ P(<<Add("lookups", 1)>>) /\ P(<<Add("failures", 1)>>)
  <2> HIDE DEF P
  <2> QED BY <1>3, <1>9
<1>13. /\ Q(<<Add("received", 1), Add("bytesReceived", n)>>)
       /\ Q(<<Add("processed", 1), Add("bytesProcessed", n)>>)
       /\ Q(<<Add("lookups", 1), Add("failures", 1)>>)
  <2> HIDE DEF Q
  <2> QED BY <1>6, <1>9
<1>14. /\ Q(<<Add("bytesReceived", n)>>) /\ Q(<<Add("bytesProcessed", n)>>)
       /\ Q(<<Add("lookups", 1)>>) /\ Q(<<Add("failures", 1)>>)
  <2> HIDE DEF Q
  <2> QED BY <1>5, <1>9
<1>15. P(l) /\ Q(l)
  <2> HIDE DEF P, Q
  <2> QED BY <1>1, <1>7, <1>8, <1>11, <1>12, <1>13, <1>14
<1> QED BY <1>15

LEMMA UnfailedMoves ==
    ASSUME CountersTyped, NEW t \in Recorders, NEW l, Replaced(t, l)
    PROVE  Unfailed \in Nat /\ Unfailed' \in Nat /\ Unfailed' + Failing(updates[t]) = Unfailed + Failing(l)
<1> DEFINE v == [x \in Recorders |-> Failing(updates[x])]
           w == [x \in Recorders |-> Failing(updates'[x])]
<1>1. \A m : Failing(m) \in Nat BY DEF Failing
<1>2. v \in [Recorders -> Nat] /\ w \in [Recorders -> Nat] BY <1>1
<1>3. Unfailed = OverThreads(v) /\ Unfailed' = OverThreads(w) BY DEF Unfailed, OverThreads
<1>4. v[t] = Failing(updates[t]) /\ w[t] = Failing(l) BY DEF Replaced
<1>5. \A x \in Recorders : x # t => w[x] = v[x] BY DEF Replaced
<1> HIDE DEF v, w
<1>6. OverThreads(w) + v[t] = OverThreads(v) + w[t] BY <1>2, <1>5, SumMoves
<1>7. OverThreads(v) \in Nat /\ OverThreads(w) \in Nat BY <1>2, SumOverThreads
<1> QED BY <1>3, <1>4, <1>6, <1>7

LEMMA FieldNames ==
    /\ DOMAIN Fields = 1 .. 6 /\ Len(Fields) = 6 /\ \A i \in 1 .. 6 : Fields[i] \in Totals
    /\ Fields[1] = "received" /\ Fields[2] = "processed" /\ Fields[5] = "lookups" /\ Fields[6] = "failures"
    /\ {"received", "processed", "bytesReceived", "bytesProcessed", "lookups", "failures"} \subseteq Totals
<1>1. /\ DOMAIN Fields = 1 .. 6 /\ Len(Fields) = 6
      /\ Fields[1] = "received" /\ Fields[2] = "processed" /\ Fields[3] = "bytesReceived"
      /\ Fields[4] = "bytesProcessed" /\ Fields[5] = "lookups" /\ Fields[6] = "failures"
  BY DEF Fields
<1>2. \A i \in 1 .. 6 : i = 1 \/ i = 2 \/ i = 3 \/ i = 4 \/ i = 5 \/ i = 6 OBVIOUS
<1>3. {"received", "processed", "bytesReceived", "bytesProcessed", "lookups", "failures"} \subseteq Totals BY DEF Totals
<1> QED BY <1>1, <1>2, <1>3

\* With nothing waiting, nothing is pending.
LEMMA NothingPending ==
    ASSUME CountersTyped, \A t \in Recorders : updates[t] = <<>>
    PROVE  Unfailed = 0 /\ \A c : Pending(c) = 0
<1>1. ASSUME NEW c PROVE Pending(c) = 0
  <2>1. <<>> \in Seq(UpdateType) /\ DOMAIN <<>> = {} OBVIOUS
  <2>2. Added(<<>>, c) = 0 BY <2>1, AddedFacts
  <2>3. \A t \in Recorders : Added(updates[t], c) = 0 BY <2>2
  <2> QED BY <2>3, PendingFacts
<1>2. Unfailed = 0
  <2> DEFINE v == [x \in Recorders |-> Failing(updates[x])]
  <2>1. Unfailed = OverThreads(v) BY DEF Unfailed
  <2>2. Failing(<<>>) = 0 BY DEF Failing
  <2>3. v \in [Recorders -> Nat] /\ \A x \in Recorders : v[x] = 0 BY <2>2
  <2> HIDE DEF v
  <2> QED BY <2>1, <2>3, SumOverThreads
<1> QED BY <1>1, <1>2

LEMMA EmptyTotal == <<>> \in Seq(Nat) /\ Total(<<>>) = 0 /\ Len(<<>>) = 0
<1>1. <<>> \in Seq(Nat) /\ DOMAIN <<>> = {} /\ Len(<<>>) = 0 OBVIOUS
<1> QED BY <1>1, TotalNatural

LEMMA CountersStart ==
    ASSUME StatisticsInit
    PROVE  /\ CountersTyped /\ bus = <<>> /\ reads = <<>> /\ observed = <<>> /\ base = counter
           /\ \A c \in Names : counter[c] = 0
           /\ \A t \in Recorders : updates[t] = <<>>
<1>1. <<>> \in Seq(UpdateType) OBVIOUS
<1> QED BY <1>1, EmptyTotal DEF StatisticsInit, CountersTyped, Names

LEMMA CountInit == StatisticsInit => CountInv
<1> SUFFICES ASSUME StatisticsInit PROVE CountInv OBVIOUS
<1>1. /\ CountersTyped /\ bus = <<>> /\ reads = <<>> /\ observed = <<>> /\ base = counter
      /\ \A c \in Names : counter[c] = 0
      /\ \A t \in Recorders : updates[t] = <<>>
  BY CountersStart
<1>2. \A c \in Totals : c \in Names /\ counter[c] = 0 BY <1>1, TotalsNamed
<1>3. {"received", "processed", "bytesReceived", "bytesProcessed", "lookups", "failures"} \subseteq Totals BY FieldNames
<1>4. Unfailed = 0 /\ \A c : Pending(c) = 0 BY <1>1, NothingPending
<1>5. \A c \in Totals : InFull(c) = 0 BY <1>2, <1>4 DEF InFull
<1>6. EveryPacketCounted BY <1>1, <1>3, <1>5, EmptyTotal DEF EveryPacketCounted
<1>7. LookupsCounted BY <1>2, <1>3, <1>4 DEF LookupsCounted
<1>8. SnapshotBounds
  <2>1. reads \in Seq(Nat) /\ Len(reads) <= 6 /\ DOMAIN reads = {} BY <1>1
  <2>2. base \in [Names -> Nat] BY <1>1 DEF CountersTyped
  <2>3. Cardinality(Recorders) \in Nat BY ThreadPlaces
  <2>4. base["processed"] = 0 /\ base["received"] = 0 BY <1>1, <1>2, <1>3
  <2>5. \A c \in Totals : base[c] <= counter[c] BY <1>1, <1>2
  <2> QED BY <2>1, <2>2, <2>3, <2>4, <2>5 DEF SnapshotBounds
<1>9. \A t \in Recorders : Work(updates[t]) BY <1>1, 0 \in Nat DEF Work
<1>10. \A c \in Metrics : counter[c] = 0 BY <1>1, TotalsNamed
<1> QED BY <1>1, <1>6, <1>7, <1>8, <1>9, <1>10 DEF CountInv

\* No thread is about to count more than one packet as received.
LEMMA AlmostReceived ==
    ASSUME CountInv
    PROVE  counter["processed"] <= counter["received"] + Cardinality(Recorders)
<1>1. CountersTyped /\ \A t \in Recorders : Added(updates[t], "received") <= 1 BY WorkFacts DEF CountInv
<1>2. Pending("received") \in Nat /\ Pending("received") <= Cardinality(Recorders) BY <1>1, PendingFacts
<1>3. Pending("processed") \in Nat BY <1>1, PendingFacts
<1>4. counter["processed"] \in Nat /\ counter["received"] \in Nat BY <1>1, TotalsNamed DEF CountersTyped
<1>5. Len(bus) \in Nat BY <1>1 DEF CountersTyped
<1>6. counter["received"] + Pending("received") = counter["processed"] + Pending("processed") + Len(bus)
  BY DEF CountInv, EveryPacketCounted, InFull
<1>7. Cardinality(Recorders) \in Nat BY ThreadPlaces
<1> QED BY <1>2, <1>3, <1>4, <1>5, <1>6, <1>7

LEMMA CountHolds == ASSUME CountInv PROVE StatisticsInv
<1> DEFINE R == Cardinality(Recorders)
<1>1. R \in Nat BY ThreadPlaces
<1>2. /\ SnapshotBounds /\ CountersTyped /\ LookupsCounted /\ EveryPacketCounted
      /\ observed = <<>> /\ \A c \in Metrics : counter[c] = 0
  BY DEF CountInv
<1>3. \A c \in Totals : counter[c] \in Nat /\ base[c] \in Nat BY <1>2, TotalsNamed DEF SnapshotBounds, CountersTyped
<1>4. \A i \in DOMAIN reads : base[Fields[i]] <= reads[i] /\ reads[i] <= counter[Fields[i]] BY <1>2 DEF SnapshotBounds
<1>5. DOMAIN reads = 1 .. Len(reads) /\ Len(reads) \in Nat /\ \A i \in DOMAIN reads : reads[i] \in Nat
  BY <1>2 DEF SnapshotBounds
<1>6. ASSUME Len(reads) >= 2
      PROVE  reads[2] - reads[1] <= Cardinality(Recorders) + counter["processed"] - base["processed"]
  <2>1. 1 \in DOMAIN reads /\ 2 \in DOMAIN reads BY <1>5, <1>6
  <2>2. base["received"] <= reads[1] /\ reads[2] <= counter["processed"] BY <1>4, <2>1, FieldNames
  <2>3. base["processed"] <= base["received"] + R BY <1>2 DEF SnapshotBounds
  <2>4. counter["processed"] \in Nat /\ base["processed"] \in Nat /\ base["received"] \in Nat BY <1>3, FieldNames
  <2>5. reads[1] \in Nat /\ reads[2] \in Nat BY <1>5, <2>1
  <2> HIDE DEF R
  <2>6. reads[2] - reads[1] <= R + counter["processed"] - base["processed"] BY <1>1, <2>2, <2>3, <2>4, <2>5
  <2> QED BY <2>6 DEF R
<1>7. ASSUME Len(reads) >= 6 PROVE reads[6] - reads[5] <= counter["lookups"] - base["lookups"]
  <2>1. 5 \in DOMAIN reads /\ 6 \in DOMAIN reads BY <1>5, <1>7
  <2>2. base["lookups"] <= reads[5] /\ reads[6] <= counter["failures"] BY <1>4, <2>1, FieldNames
  <2>3. Unfailed \in Nat
    <3> DEFINE v == [x \in Recorders |-> Failing(updates[x])]
    <3>1. v \in [Recorders -> Nat] BY DEF Failing
    <3>2. Unfailed = OverThreads(v) BY DEF Unfailed
    <3> HIDE DEF v
    <3> QED BY <3>1, <3>2, SumOverThreads
  <2>4. counter["failures"] + Unfailed <= counter["lookups"] BY <1>2 DEF LookupsCounted
  <2>5. counter["failures"] \in Nat /\ counter["lookups"] \in Nat /\ base["lookups"] \in Nat BY <1>3, FieldNames
  <2>6. reads[5] \in Nat /\ reads[6] \in Nat BY <1>5, <2>1
  <2> QED BY <2>2, <2>3, <2>4, <2>5, <2>6
<1>8. SnapshotIsBracketed BY <1>4, <1>6, <1>7 DEF SnapshotIsBracketed
<1>9. HistogramAddsUp
  <2>1. Len(observed) = 0 /\ Total(observed) = 0 /\ DOMAIN observed = {} BY <1>2, EmptyTotal
  <2>2. counter["count"] = 0 /\ counter["sum"] = 0 /\ \A i \in DOMAIN BucketNames : counter[BucketNames[i]] = 0
    BY <1>2 DEF Metrics, ToSet
  <2>3. ASSUME NEW i PROVE Cardinality({k \in DOMAIN observed : Encloses(i, observed[k])}) = 0
    <3>1. {k \in DOMAIN observed : Encloses(i, observed[k])} = {} BY <2>1
    <3> QED BY <3>1, FS_EmptySet
  <2> QED BY <2>1, <2>2, <2>3 DEF HistogramAddsUp
<1> QED BY <1>2, <1>8, <1>9 DEF StatisticsInv

\* The totals only grow while a snapshot is taken.
LEMMA SnapshotStays ==
    ASSUME CountersTyped, CountersTyped', SnapshotBounds, UNCHANGED <<reads, base>>,
           \A c \in Totals : counter[c] <= counter'[c]
    PROVE  SnapshotBounds'
<1>1. reads' = reads /\ base' = base OBVIOUS
<1>2. \A c \in Totals : counter[c] \in Nat /\ counter'[c] \in Nat /\ base[c] \in Nat
  BY TotalsNamed DEF CountersTyped, SnapshotBounds
<1>3. \A c \in Totals : base[c] <= counter'[c] BY <1>2 DEF SnapshotBounds
<1>4. ASSUME NEW i \in DOMAIN reads PROVE base[Fields[i]] <= reads[i] /\ reads[i] <= counter'[Fields[i]]
  <2>1. i \in 1 .. 6 /\ reads[i] \in Nat BY DEF SnapshotBounds
  <2>2. Fields[i] \in Totals BY <2>1, FieldNames
  <2>3. base[Fields[i]] <= reads[i] /\ reads[i] <= counter[Fields[i]] BY DEF SnapshotBounds
  <2> QED BY <1>2, <2>1, <2>2, <2>3
<1> QED BY <1>1, <1>3, <1>4 DEF SnapshotBounds

\* A call that records begins.
LEMMA RecordingKeeps ==
    ASSUME CountInv, NEW t \in Recorders, NEW l, Work(l), l # <<Add("failures", 1)>>, Begin(t, l),
           UNCHANGED <<observed, overlapped>>, bus' \in Seq(Nat),
           Len(bus') + Added(l, "processed") = Len(bus) + Added(l, "received"),
           Total(bus') + Added(l, "bytesProcessed") = Total(bus) + Added(l, "bytesReceived")
    PROVE  CountInv'
<1>1. CountersTyped /\ l \in Seq(UpdateType) BY WorkFacts DEF CountInv
<1>2. /\ updates[t] = <<>> /\ Replaced(t, l) /\ UNCHANGED <<counter, reads, base>>
      /\ \A c : Pending(c)' = Pending(c) + Added(l, c) /\ Pending(c) \in Nat /\ Added(l, c) \in Nat
  BY <1>1, BeginFacts
<1>3. CountersTyped' BY <1>1, <1>2 DEF CountersTyped, Replaced
<1>4. \A x \in Recorders : Work(updates'[x]) BY <1>2 DEF Replaced, CountInv
<1>5. \A c \in Totals : counter[c] \in Nat /\ counter'[c] = counter[c] BY <1>1, <1>2, TotalsNamed DEF CountersTyped
<1>6. SnapshotBounds'
  <2>1. \A c \in Totals : counter[c] <= counter'[c] BY <1>5
  <2> QED BY <1>1, <1>2, <1>3, <2>1, SnapshotStays DEF CountInv
<1>7. LookupsCounted'
  <2>1. Unfailed \in Nat /\ Unfailed' \in Nat /\ Unfailed' + Failing(updates[t]) = Unfailed + Failing(l)
    BY <1>1, <1>2, UnfailedMoves
  <2>2. Failing(updates[t]) = 0 /\ Failing(l) = 0 BY <1>2 DEF Failing
  <2>3. Unfailed' = Unfailed
    <3> DEFINE p == Unfailed
               q == Unfailed'
    <3>1. p \in Nat /\ q \in Nat /\ q + 0 = p + 0 BY <2>1, <2>2
    <3> SUFFICES q = p OBVIOUS
    <3> HIDE DEF p, q
    <3> QED BY <3>1
  <2>4. counter["failures"] + Unfailed <= counter["lookups"] BY DEF CountInv, LookupsCounted
  <2> QED BY <1>2, <2>3, <2>4 DEF LookupsCounted
<1>8. \A c \in Totals : InFull(c)' = InFull(c) + Added(l, c) /\ InFull(c) \in Nat /\ Added(l, c) \in Nat
  <2> TAKE c \in Totals
  <2>1. InFull(c) = counter[c] + Pending(c) /\ InFull(c)' = counter'[c] + Pending(c)' BY DEF InFull
  <2>2. Pending(c)' = Pending(c) + Added(l, c) /\ Pending(c) \in Nat /\ Added(l, c) \in Nat BY <1>2
  <2>3. counter'[c] = counter[c] /\ counter[c] \in Nat BY <1>5
  <2> QED BY <2>1, <2>2, <2>3
<1>9. EveryPacketCounted'
  <2>1. /\ InFull("received") = InFull("processed") + Len(bus)
        /\ InFull("bytesReceived") = InFull("bytesProcessed") + Total(bus)
    BY DEF CountInv, EveryPacketCounted
  <2>2. Len(bus) \in Nat /\ Len(bus') \in Nat /\ Total(bus) \in Nat /\ Total(bus') \in Nat
    BY <1>1, TotalNatural DEF CountersTyped
  <2>3. InFull("received")' = InFull("processed")' + Len(bus')
    <3> DEFINE a == InFull("received")
               b == InFull("processed")
               x == Added(l, "received")
               y == Added(l, "processed")
               p == Len(bus)
               q == Len(bus')
    <3>1. "received" \in Totals /\ "processed" \in Totals BY FieldNames
    <3>2. a \in Nat /\ b \in Nat /\ x \in Nat /\ y \in Nat /\ p \in Nat /\ q \in Nat BY <1>8, <2>2, <3>1
    <3>3. a = b + p /\ q + y = p + x BY <2>1
    <3>4. InFull("received")' = a + x /\ InFull("processed")' = b + y BY <1>8, <3>1
    <3> SUFFICES a + x = b + y + q BY <3>4
    <3> HIDE DEF a, b, x, y, p, q
    <3> QED BY <3>2, <3>3
  <2>4. InFull("bytesReceived")' = InFull("bytesProcessed")' + Total(bus')
    <3> DEFINE a == InFull("bytesReceived")
               b == InFull("bytesProcessed")
               x == Added(l, "bytesReceived")
               y == Added(l, "bytesProcessed")
               p == Total(bus)
               q == Total(bus')
    <3>1. "bytesReceived" \in Totals /\ "bytesProcessed" \in Totals BY FieldNames
    <3>2. a \in Nat /\ b \in Nat /\ x \in Nat /\ y \in Nat /\ p \in Nat /\ q \in Nat BY <1>8, <2>2, <3>1
    <3>3. a = b + p /\ q + y = p + x BY <2>1
    <3>4. InFull("bytesReceived")' = a + x /\ InFull("bytesProcessed")' = b + y BY <1>8, <3>1
    <3> SUFFICES a + x = b + y + q BY <3>4
    <3> HIDE DEF a, b, x, y, p, q
    <3> QED BY <3>2, <3>3
  <2> QED BY <2>3, <2>4 DEF EveryPacketCounted
<1> QED BY <1>2, <1>3, <1>4, <1>6, <1>7, <1>9 DEF CountInv

\* What the calls that record add.
LEMMA CallAdds ==
    ASSUME NEW c \in Totals, NEW x \in Nat, NEW d \in Totals, NEW y \in Nat, c # d,
           NEW l, l = <<Add(c, x), Add(d, y)>>
    PROVE  /\ Added(l, c) = x /\ Added(l, d) = y
           /\ \A e : e # c /\ e # d => Added(l, e) = 0
<1> DEFINE u == Add(c, x)
           w == Add(d, y)
<1>1. c \in Names /\ d \in Names BY TotalsNamed
<1>2. u \in UpdateType /\ AddedBy(u, c) = x /\ \A e : e # c => AddedBy(u, e) = 0 BY <1>1, AddTyped
<1>3. w \in UpdateType /\ AddedBy(w, d) = y /\ \A e : e # d => AddedBy(w, e) = 0 BY <1>1, AddTyped
<1>4. l = <<u, w>> OBVIOUS
<1> HIDE DEF u, w
<1>5. \A e : Added(<<u, w>>, e) = AddedBy(u, e) + AddedBy(w, e) BY <1>2, <1>3, AddedList
<1>6. AddedBy(u, d) = 0 /\ AddedBy(w, c) = 0 BY <1>2, <1>3
<1>7. Added(<<u, w>>, c) = x /\ Added(<<u, w>>, d) = y BY <1>2, <1>3, <1>5, <1>6
<1>8. \A e : e # c /\ e # d => Added(<<u, w>>, e) = 0 BY <1>2, <1>3, <1>5
<1> QED BY <1>4, <1>7, <1>8

LEMMA OneAdds ==
    ASSUME NEW c \in Totals, NEW x \in Nat, NEW l, l = <<Add(c, x)>>
    PROVE  \A e : e # c => Added(l, e) = 0
<1> DEFINE u == Add(c, x)
<1>1. c \in Names BY TotalsNamed
<1>2. u \in UpdateType /\ \A e : e # c => AddedBy(u, e) = 0 BY <1>1, AddTyped
<1>3. l = <<u>> OBVIOUS
<1> HIDE DEF u
<1>4. \A e : Added(<<u>>, e) = AddedBy(u, e) BY <1>2, AddedList
<1> QED BY <1>2, <1>3, <1>4

LEMMA NamesDiffer ==
    /\ Add("received", 1) # Add("failures", 1) /\ Add("processed", 1) # Add("failures", 1)
    /\ Add("lookups", 1) # Add("failures", 1)
<1>1. \A c : Add(c, 1).name = c BY DEF Add
<1> QED BY <1>1

LEMMA ReceivedKeeps ==
    ASSUME CountInv, NEW t \in Recorders, NEW n \in Nat, RecordReceived(t, n)
    PROVE  CountInv'
<1> DEFINE l == <<Add("received", 1), Add("bytesReceived", n)>>
<1>1. Begin(t, l) /\ bus' = Append(bus, n) /\ UNCHANGED <<observed, overlapped>> BY DEF RecordReceived
<1>2. Work(l) BY DEF Work
<1>3. l # <<Add("failures", 1)>> BY NamesDiffer
<1>4. /\ Added(l, "received") = 1 /\ Added(l, "bytesReceived") = n
      /\ Added(l, "processed") = 0 /\ Added(l, "bytesProcessed") = 0
  <2>1. 1 \in Nat /\ "received" \in Totals /\ "bytesReceived" \in Totals /\ "received" # "bytesReceived" BY FieldNames
  <2>2. l = <<Add("received", 1), Add("bytesReceived", n)>> OBVIOUS
  <2> HIDE DEF l
  <2>3. /\ Added(l, "received") = 1 /\ Added(l, "bytesReceived") = n
        /\ \A e : e # "received" /\ e # "bytesReceived" => Added(l, e) = 0
    BY <2>1, <2>2, CallAdds
  <2> QED BY <2>3
<1> HIDE DEF l
<1>5. bus \in Seq(Nat) BY DEF CountInv, CountersTyped
<1>6. bus' \in Seq(Nat) /\ Total(bus') = Total(bus) + n BY <1>1, <1>5, TotalAppend
<1>7. Len(bus) \in Nat /\ Len(bus') = Len(bus) + 1 BY <1>1, <1>5
<1>8. Total(bus) \in Nat BY <1>5, TotalNatural
<1>9. Len(bus') + Added(l, "processed") = Len(bus) + Added(l, "received") BY <1>4, <1>7
<1>10. Total(bus') + Added(l, "bytesProcessed") = Total(bus) + Added(l, "bytesReceived") BY <1>4, <1>6, <1>8
<1> QED BY <1>1, <1>2, <1>3, <1>6, <1>9, <1>10, RecordingKeeps

LEMMA ProcessedKeeps ==
    ASSUME CountInv, NEW t \in Recorders, RecordProcessed(t)
    PROVE  CountInv'
<1> DEFINE n == Head(bus)
           l == <<Add("processed", 1), Add("bytesProcessed", n)>>
<1>1. Begin(t, l) /\ bus # <<>> /\ bus' = Tail(bus) /\ UNCHANGED <<observed, overlapped>> BY DEF RecordProcessed
<1>2. bus \in Seq(Nat) BY DEF CountInv, CountersTyped
<1>3. n \in Nat /\ bus' \in Seq(Nat) /\ Total(bus) = n + Total(bus') BY <1>1, <1>2, TotalFront
<1> HIDE DEF n
<1>4. Work(l) BY <1>3 DEF Work
<1>5. l # <<Add("failures", 1)>> BY NamesDiffer
<1>6. /\ Added(l, "received") = 0 /\ Added(l, "bytesReceived") = 0
      /\ Added(l, "processed") = 1 /\ Added(l, "bytesProcessed") = n
  <2>1. 1 \in Nat /\ "processed" \in Totals /\ "bytesProcessed" \in Totals /\ "processed" # "bytesProcessed" BY FieldNames
  <2>2. l = <<Add("processed", 1), Add("bytesProcessed", n)>> OBVIOUS
  <2> HIDE DEF l
  <2>3. /\ Added(l, "processed") = 1 /\ Added(l, "bytesProcessed") = n
        /\ \A e : e # "processed" /\ e # "bytesProcessed" => Added(l, e) = 0
    BY <1>3, <2>1, <2>2, CallAdds
  <2> QED BY <2>3
<1> HIDE DEF l
<1>7. Len(bus) \in Nat /\ Len(bus') + 1 = Len(bus) BY <1>1, <1>2
<1>8. Total(bus') \in Nat BY <1>3, TotalNatural
<1>9. Len(bus') + Added(l, "processed") = Len(bus) + Added(l, "received") BY <1>6, <1>7
<1>10. Total(bus') + Added(l, "bytesProcessed") = Total(bus) + Added(l, "bytesReceived") BY <1>3, <1>6, <1>8
<1> QED BY <1>1, <1>3, <1>4, <1>5, <1>9, <1>10, RecordingKeeps

LEMMA LookupKeeps ==
    ASSUME CountInv, NEW t \in Recorders, NEW success \in BOOLEAN, RecordLookup(t, success)
    PROVE  CountInv'
<1> DEFINE l == IF success THEN <<Add("lookups", 1)>> ELSE <<Add("lookups", 1), Add("failures", 1)>>
<1>1. Begin(t, l) /\ UNCHANGED <<bus, observed, overlapped>> BY DEF RecordLookup
<1>2. Work(l) BY 0 \in Nat DEF Work
<1>3. l # <<Add("failures", 1)>> BY NamesDiffer
<1>4. /\ Added(l, "received") = 0 /\ Added(l, "bytesReceived") = 0
      /\ Added(l, "processed") = 0 /\ Added(l, "bytesProcessed") = 0
  <2>1. 1 \in Nat /\ {"lookups", "failures"} \subseteq Totals BY DEF Totals
  <2>2. ASSUME NEW k, k = <<Add("lookups", 1), Add("failures", 1)>>, NEW m, m = <<Add("lookups", 1)>>
        PROVE  \A e : e # "lookups" /\ e # "failures" => Added(k, e) = 0 /\ Added(m, e) = 0
    BY <2>1, <2>2, CallAdds, OneAdds
  <2>3. \A e : e # "lookups" /\ e # "failures" => Added(l, e) = 0 BY <2>2
  <2> HIDE DEF l
  <2> QED BY <2>3
<1> HIDE DEF l
<1>5. bus' = bus /\ bus \in Seq(Nat) BY <1>1 DEF CountInv, CountersTyped
<1>6. Len(bus) \in Nat /\ Total(bus) \in Nat BY <1>5, TotalNatural
<1>7. Len(bus') + Added(l, "processed") = Len(bus) + Added(l, "received") BY <1>4, <1>5, <1>6
<1>8. Total(bus') + Added(l, "bytesProcessed") = Total(bus) + Added(l, "bytesReceived") BY <1>4, <1>5, <1>6
<1> QED BY <1>1, <1>2, <1>3, <1>5, <1>7, <1>8, RecordingKeeps

\* One of a call's updates.
LEMMA CountedKeeps == ASSUME CountInv, NEW t \in Recorders, Update(t) PROVE CountInv'
<1> DEFINE u == Head(updates[t])
           l == Tail(updates[t])
<1>1. CountersTyped /\ Work(updates[t]) BY DEF CountInv
<1>2. /\ updates[t] # <<>> /\ u \in UpdateType /\ l \in Seq(UpdateType) /\ Replaced(t, l)
      /\ CountersTyped' /\ UNCHANGED <<bus, reads, base, observed, overlapped>>
      /\ counter'[u.name] = Adjusted(counter[u.name], u)
      /\ \A c \in Names : c # u.name => counter'[c] = counter[c]
      /\ \A c \in Names : c # u.name \/ u.op = "add" => InFull(c)' = InFull(c)
  <2>1. u = Head(updates[t]) /\ l = Tail(updates[t]) OBVIOUS
  <2> HIDE DEF u, l
  <2> QED BY <1>1, <2>1, ZenonT(40), UpdateFacts
<1>3. NextUpdate(updates[t]) BY <1>1, <1>2, WorkFacts
<1>4. /\ Work(l) /\ u.op = "add" /\ u.name \in Totals
      /\ u.name = "failures" => (updates[t] = <<Add("failures", 1)>> /\ l = <<>> /\ u.n = 1)
      /\ u.name = "lookups" => u.n = 1
      /\ l = <<Add("failures", 1)>> => u.name = "lookups"
  BY <1>3 DEF NextUpdate
<1>5. updates[t] = <<Add("failures", 1)>> => u.name = "failures"
  <2>1. Add("failures", 1).name = "failures" BY DEF Add
  <2> QED BY <2>1
<1> HIDE DEF u, l
<1>6. u.n \in Nat BY <1>2 DEF UpdateType
<1>7. \A c \in Totals : c \in Names /\ counter[c] \in Nat /\ counter'[c] \in Nat
  BY <1>1, <1>2, TotalsNamed DEF CountersTyped
<1>8. counter'[u.name] = counter[u.name] + u.n BY <1>2, <1>4 DEF Adjusted
<1>9. \A c \in Totals : counter[c] <= counter'[c]
  <2> TAKE c \in Totals
  <2>1. CASE c = u.name BY <1>6, <1>7, <1>8, <2>1
  <2>2. CASE c # u.name BY <1>2, <1>7, <2>2
  <2> QED BY <2>1, <2>2
<1>10. SnapshotBounds' BY <1>1, <1>2, <1>9, SnapshotStays DEF CountInv
<1>11. \A x \in Recorders : Work(updates'[x]) BY <1>2, <1>4 DEF Replaced, CountInv
<1>12. \A c \in Totals : InFull(c)' = InFull(c) BY <1>2, <1>4, TotalsNamed
<1>13. EveryPacketCounted'
  <2>1. bus' = bus BY <1>2
  <2> QED BY <1>12, <2>1, FieldNames DEF CountInv, EveryPacketCounted
<1>14. \A c \in Metrics : counter'[c] = 0
  <2>1. \A c \in Metrics : c \in Names /\ c # u.name BY <1>4, TotalsNamed
  <2> QED BY <1>2, <2>1 DEF CountInv
<1>15. LookupsCounted'
  <2>1. Unfailed \in Nat /\ Unfailed' \in Nat /\ Unfailed' + Failing(updates[t]) = Unfailed + Failing(l)
    BY <1>1, <1>2, UnfailedMoves
  <2>2. counter["failures"] + Unfailed <= counter["lookups"] BY DEF CountInv, LookupsCounted
  <2>3. "failures" \in Totals /\ "lookups" \in Totals BY FieldNames
  <2>4. \A c \in Totals : c # u.name => counter'[c] = counter[c] BY <1>2, <1>7
  <2>5. counter'["failures"] + Unfailed' <= counter'["lookups"]
    <3> DEFINE p == Unfailed
               q == Unfailed'
               f == counter["failures"]
               k == counter["lookups"]
    <3>1. p \in Nat /\ q \in Nat /\ f \in Nat /\ k \in Nat /\ f + p <= k BY <1>7, <2>1, <2>2, <2>3
    <3>2. q + Failing(updates[t]) = p + Failing(l) BY <2>1
    <3> SUFFICES counter'["failures"] + q <= counter'["lookups"] OBVIOUS
    <3>3. CASE u.name = "failures"
      <4>1. updates[t] = <<Add("failures", 1)>> /\ l = <<>> /\ u.n = 1 BY <1>4, <3>3
      <4>2. Failing(updates[t]) = 1 /\ Failing(l) = 0 BY <4>1 DEF Failing
      <4>3. counter'["failures"] = f + 1 BY <1>8, <3>3, <4>1
      <4>4. counter'["lookups"] = k BY <2>3, <2>4, <3>3
      <4> HIDE DEF p, q, f, k
      <4> QED BY <3>1, <3>2, <4>2, <4>3, <4>4
    <3>4. CASE u.name = "lookups"
      <4>1. Failing(updates[t]) = 0 BY <1>5, <3>4 DEF Failing
      <4>2. Failing(l) <= 1 /\ Failing(l) \in Nat BY DEF Failing
      <4>3. counter'["lookups"] = k + 1 BY <1>4, <1>8, <3>4
      <4>4. counter'["failures"] = f BY <2>3, <2>4, <3>4
      <4> HIDE DEF p, q, f, k
      <4> QED BY <3>1, <3>2, <4>1, <4>2, <4>3, <4>4
    <3>5. CASE u.name # "failures" /\ u.name # "lookups"
      <4>1. Failing(updates[t]) = 0 /\ Failing(l) = 0 BY <1>4, <1>5, <3>5 DEF Failing
      <4>2. counter'["lookups"] = k /\ counter'["failures"] = f BY <2>3, <2>4, <3>5
      <4> HIDE DEF p, q, f, k
      <4> QED BY <3>1, <3>2, <4>1, <4>2
    <3> QED BY <3>3, <3>4, <3>5
  <2> QED BY <2>5 DEF LookupsCounted
<1> QED BY <1>2, <1>10, <1>11, <1>13, <1>14, <1>15 DEF CountInv

\* What no snapshot changes.
LEMMA ReadingKeeps ==
    ASSUME CountInv, UNCHANGED <<counter, updates, bus, observed, overlapped>>, SnapshotBounds'
    PROVE  CountInv'
<1>1. \A c : InFull(c)' = InFull(c) BY DEF InFull, Pending, OverThreads
<1>2. Unfailed' = Unfailed BY DEF Unfailed, OverThreads
<1>3. EveryPacketCounted'
  <2>1. bus' = bus OBVIOUS
  <2> QED BY <1>1, <2>1 DEF CountInv, EveryPacketCounted
<1>4. LookupsCounted' BY <1>2 DEF CountInv, LookupsCounted
<1>5. CountersTyped' BY DEF CountInv, CountersTyped
<1> QED BY <1>3, <1>4, <1>5 DEF CountInv

LEMMA LoadKeeps == ASSUME CountInv, Load PROVE CountInv'
<1>1. /\ UNCHANGED <<counter, updates, bus, observed, overlapped>> /\ Len(reads) < Len(Fields)
      /\ reads' = Append(reads, counter[Fields[Len(reads) + 1]])
      /\ base' = IF reads = <<>> THEN counter ELSE base
  BY DEF Load
<1> DEFINE n == Len(reads)
           x == counter[Fields[n + 1]]
<1>2. reads \in Seq(Nat) /\ n \in Nat /\ n < 6 /\ DOMAIN reads = 1 .. n BY <1>1, FieldNames DEF CountInv, SnapshotBounds
<1>3. n + 1 \in 1 .. 6 BY <1>2
<1>4. Fields[n + 1] \in Totals BY <1>3, FieldNames
<1>5. counter \in [Names -> Nat] /\ base \in [Names -> Nat] BY DEF CountInv, CountersTyped, SnapshotBounds
<1>6. \A c \in Totals : counter[c] \in Nat /\ base[c] \in Nat BY <1>5, TotalsNamed
<1>7. x \in Nat BY <1>4, <1>6
<1>8. reads' = Append(reads, x) BY <1>1
<1>9. \A c \in Totals : base[c] <= counter[c] /\ base'[c] <= counter[c] /\ base'[c] \in Nat
  <2>1. CASE base' = counter BY <1>6, <2>1 DEF CountInv, SnapshotBounds
  <2>2. CASE base' = base BY <1>6, <2>2 DEF CountInv, SnapshotBounds
  <2> QED BY <1>1, <2>1, <2>2
<1>10. base' \in [Names -> Nat] BY <1>1, <1>5
<1>11. base'["processed"] <= base'["received"] + Cardinality(Recorders)
  <2>1. CASE base' = counter BY <2>1, AlmostReceived
  <2>2. CASE base' = base BY <2>2 DEF CountInv, SnapshotBounds
  <2> QED BY <1>1, <2>1, <2>2
<1> HIDE DEF x
<1>12. /\ reads' \in Seq(Nat) /\ Len(reads') = n + 1 /\ DOMAIN reads' = 1 .. n + 1
       /\ reads'[n + 1] = x /\ \A i \in 1 .. n : reads'[i] = reads[i]
  BY <1>2, <1>7, <1>8
<1>13. ASSUME NEW i \in DOMAIN reads' PROVE base'[Fields[i]] <= reads'[i] /\ reads'[i] <= counter[Fields[i]]
  <2>1. CASE i = n + 1
    <3>1. reads'[i] = counter[Fields[i]] BY <1>12, <2>1 DEF x
    <3> QED BY <1>4, <1>6, <1>9, <2>1, <3>1
  <2>2. CASE i # n + 1
    <3>1. i \in 1 .. n /\ i \in DOMAIN reads BY <1>2, <1>12, <2>2
    <3>2. reads # <<>> BY <3>1
    <3>3. base' = base BY <1>1, <3>2
    <3>4. base[Fields[i]] <= reads[i] /\ reads[i] <= counter[Fields[i]] BY <3>1 DEF CountInv, SnapshotBounds
    <3> QED BY <1>12, <3>1, <3>3, <3>4
  <2> QED BY <2>1, <2>2
<1>14. Len(reads') <= 6 BY <1>2, <1>12
<1>15. counter' = counter BY <1>1
<1>16. SnapshotBounds' BY <1>9, <1>10, <1>11, <1>12, <1>13, <1>14, <1>15 DEF SnapshotBounds
<1> QED BY <1>1, <1>16, ReadingKeeps

LEMMA SnapshotDoneKeeps == ASSUME CountInv, SnapshotDone PROVE CountInv'
<1>1. UNCHANGED <<counter, updates, bus, observed, overlapped>> /\ reads' = <<>> /\ base' = counter BY DEF SnapshotDone
<1>2. counter \in [Names -> Nat] BY DEF CountInv, CountersTyped
<1>3. \A c \in Totals : counter[c] \in Nat BY <1>2, TotalsNamed
<1>4. counter["processed"] <= counter["received"] + Cardinality(Recorders) BY AlmostReceived
<1>5. reads' \in Seq(Nat) /\ Len(reads') <= 6 /\ DOMAIN reads' = {} BY <1>1
<1>6. SnapshotBounds' BY <1>1, <1>2, <1>3, <1>4, <1>5 DEF SnapshotBounds
<1> QED BY <1>1, <1>6, ReadingKeeps

LEMMA CountNext == ASSUME CountInv, [StatisticsNext]_statisticsVars PROVE CountInv'
<1>1. CASE StatisticsNext
  <2>1. CASE \E t \in Recorders : Recording(t)
    <3>1. PICK t \in Recorders : Recording(t) BY <2>1
    <3>2. Sizes \subseteq Nat BY StatisticsAssumption
    <3> QED BY <3>1, <3>2, ReceivedKeeps, ProcessedKeeps, LookupKeeps, CountedKeeps DEF Recording
  <2>2. CASE Load BY <2>2, LoadKeeps
  <2>3. CASE SnapshotDone BY <2>3, SnapshotDoneKeeps
  <2> QED BY <1>1, <2>1, <2>2, <2>3 DEF StatisticsNext
<1>2. CASE UNCHANGED statisticsVars
  <2>1. UNCHANGED <<counter, updates, bus, observed, overlapped, reads, base>> BY <1>2 DEF statisticsVars
  <2>2. SnapshotBounds' BY <2>1 DEF CountInv, SnapshotBounds
  <2> QED BY <2>1, <2>2, ReadingKeeps
<1> QED BY <1>1, <1>2

-----------------------------------------------------------------------------
(* Metrics                                                                 *)

LEMMA MetricNames ==
    /\ Histogram = {"sum", "count"} \cup ToSet(BucketNames) /\ "flows" \notin Histogram
    /\ \A c \in Histogram : c \in Names /\ c \in Metrics
    /\ \A c \in ToSet(BucketNames) : c # "sum" /\ c # "count"
    /\ \A c \in Totals : c \notin Metrics
    /\ "flows" \in Metrics
<1>1. ToSet(BucketNames) \cap (Totals \cup {"flows", "sum", "count"}) = {} BY StatisticsAssumption
<1>2. /\ Histogram = {"sum", "count"} \cup ToSet(BucketNames) /\ "flows" \notin Histogram
  BY <1>1 DEF Histogram, Metrics
<1> QED BY <1>1, <1>2, TotalsNamed DEF Histogram, Metrics

\* The buckets divide the numbers: each value is between the bounds of one.
LEMMA OneBucket ==
    ASSUME NEW n \in Nat
    PROVE  /\ BucketOf(n) \in ToSet(BucketNames)
           /\ \A i \in DOMAIN BucketNames : BucketOf(n) = BucketNames[i] <=> Encloses(i, n)
<1> DEFINE S == ToSet(Bounds)
           m == Cardinality(S)
           fits == {i \in DOMAIN Buckets : n <= Buckets[i]}
           j == IF fits = {} THEN Len(Buckets) + 1 ELSE CHOOSE i \in fits : \A k \in fits : i <= k
<1>1. Bounds \in Seq(Nat) /\ Len(BucketNames) = m + 1 BY StatisticsAssumption
<1>2. S \subseteq Nat /\ IsFiniteSet(S)
  <2>1. DOMAIN Bounds = 1 .. Len(Bounds) /\ Len(Bounds) \in Nat /\ \A i \in DOMAIN Bounds : Bounds[i] \in Nat BY <1>1
  <2>2. S = {Bounds[i] : i \in DOMAIN Bounds} BY DEF ToSet
  <2>3. IsFiniteSet(DOMAIN Bounds) BY <2>1, FS_Interval
  <2> HIDE DEF S
  <2>4. Bounds \in Surjection(DOMAIN Bounds, S) BY <1>1, <2>1, <2>2 DEF Surjection
  <2>5. IsFiniteSet(S) BY <2>3, <2>4, FS_Surjection
  <2> QED BY <2>1, <2>2, <2>5
<1>3. Listing(Buckets, S) /\ m \in Nat BY <1>2, InOrderFacts, FS_CardinalityType DEF Buckets
<1> HIDE DEF S
<1>4. /\ DOMAIN Buckets = 1 .. m /\ Len(Buckets) = m
      /\ \A i \in 1 .. m : Buckets[i] \in Nat
      /\ \A i, k \in 1 .. m : i < k => Buckets[i] < Buckets[k]
  <2>1. m \in Nat /\ Buckets \in [1 .. m -> S] /\ \A i, k \in 1 .. m : i < k => Buckets[i] < Buckets[k]
    BY <1>3 DEF Listing
  <2> HIDE DEF m
  <2>2. DOMAIN Buckets = 1 .. m /\ \A i \in 1 .. m : Buckets[i] \in Nat BY <1>2, <2>1
  <2>3. Buckets \in Seq(S) BY <2>1
  <2>4. Len(Buckets) = m BY <2>1, <2>2, <2>3
  <2> QED BY <2>1, <2>2, <2>4
<1> HIDE DEF m
<1>5. fits \subseteq Nat /\ fits \subseteq 1 .. m BY <1>3, <1>4
<1>6. /\ j \in 1 .. m + 1 /\ \A k \in fits : j <= k
      /\ j <= m => n <= Buckets[j]
  <2>1. CASE fits = {} BY <1>3, <1>4, <2>1
  <2>2. CASE fits # {}
    <3>1. \E i \in fits : \A k \in fits : i <= k BY <1>5, <2>2, LeastNatural
    <3>2. j \in fits /\ \A k \in fits : j <= k BY <2>2, <3>1
    <3>3. j \in 1 .. m /\ n <= Buckets[j] BY <1>5, <3>2
    <3>4. j \in 1 .. m + 1 BY <1>3, <3>3
    <3> QED BY <3>2, <3>3, <3>4
  <2> QED BY <2>1, <2>2
<1>7. BucketOf(n) = BucketNames[j] BY DEF BucketOf
<1>8. DOMAIN BucketNames = 1 .. m + 1 BY <1>1, StatisticsAssumption DEF m
<1>9. BucketOf(n) \in ToSet(BucketNames) BY <1>6, <1>7, <1>8 DEF ToSet
<1>10. \A k \in 1 .. m : n <= Buckets[k] => j <= k BY <1>4, <1>6
<1> HIDE DEF j, fits
<1>11. ASSUME NEW i \in 1 .. m + 1 PROVE Encloses(i, n) <=> i = j
  <2>1. ASSUME i = j PROVE Encloses(i, n)
    <3>1. ASSUME i > 1 PROVE n > Buckets[i - 1]
      <4>1. i - 1 \in 1 .. m /\ ~(j <= i - 1) BY <1>3, <1>6, <2>1, <3>1
      <4>2. ~(n <= Buckets[i - 1]) BY <1>10, <4>1
      <4> QED BY <1>4, <4>1, <4>2
    <3>2. i <= Len(Buckets) => n <= Buckets[i] BY <1>4, <1>6, <2>1
    <3> QED BY <3>1, <3>2 DEF Encloses
  <2>2. ASSUME Encloses(i, n), i < j PROVE FALSE
    <3>1. i \in 1 .. m BY <1>3, <1>6, <2>2
    <3>2. n <= Buckets[i] BY <1>4, <2>2, <3>1 DEF Encloses
    <3>3. j <= i BY <1>10, <3>1, <3>2
    <3> QED BY <1>3, <1>6, <2>2, <3>3
  <2>3. ASSUME Encloses(i, n), i > j PROVE FALSE
    <3>1. j \in 1 .. m /\ i - 1 \in 1 .. m /\ i > 1 BY <1>3, <1>6, <2>3
    <3>2. n > Buckets[i - 1] BY <2>3, <3>1 DEF Encloses
    <3>3. n <= Buckets[j] BY <1>6, <3>1
    <3>4. Buckets[j] <= Buckets[i - 1]
      <4>1. CASE j = i - 1 BY <1>4, <3>1, <4>1
      <4>2. CASE j # i - 1
        <5>1. j < i - 1 BY <1>3, <2>3, <3>1, <4>2
        <5>2. Buckets[j] < Buckets[i - 1] BY <1>4, <3>1, <5>1
        <5> QED BY <1>4, <3>1, <5>2
      <4> QED BY <4>1, <4>2
    <3>5. Buckets[j] \in Nat /\ Buckets[i - 1] \in Nat BY <1>4, <3>1
    <3> QED BY <3>2, <3>3, <3>4, <3>5
  <2>4. i = j \/ i < j \/ i > j BY <1>3, <1>6
  <2> QED BY <2>1, <2>2, <2>3, <2>4
<1>12. \A i \in 1 .. m + 1 : BucketNames[j] = BucketNames[i] <=> i = j BY <1>6, <1>8, StatisticsAssumption
<1> QED BY <1>7, <1>8, <1>9, <1>11, <1>12

LEMMA WaitingWords ==
    /\ Resetting <=> \E c \in Histogram : Waits("set", c)
    /\ Observing <=> \E c \in Histogram : Waits("add", c)
BY DEF Resetting, Observing, Waits, Holds, Histogram

LEMMA WaitsBegin ==
    ASSUME NEW t \in Recorders, NEW l, updates[t] = <<>>, Replaced(t, l), NEW op, NEW c
    PROVE  Waits(op, c)' <=> Waits(op, c) \/ Holds(l, op, c)
<1>1. ~Holds(<<>>, op, c) BY DEF Holds
<1>2. updates'[t] = l /\ \A x \in Recorders : x # t => updates'[x] = updates[x] BY DEF Replaced
<1>3. Waits(op, c)' <=> \E x \in Recorders : Holds(updates'[x], op, c) BY DEF Waits, Holds
<1>4. Waits(op, c) <=> \E x \in Recorders : Holds(updates[x], op, c) BY DEF Waits
<1> QED BY <1>1, <1>2, <1>3, <1>4

LEMMA WaitsUpdate ==
    ASSUME NEW t \in Recorders, updates[t] \in Seq(UpdateType), updates[t] # <<>>,
           Replaced(t, Tail(updates[t])), NEW op, NEW c
    PROVE  /\ Waits(op, c)' => Waits(op, c)
           /\ Waits(op, c) => Waits(op, c)' \/ (Head(updates[t]).op = op /\ Head(updates[t]).name = c)
           /\ Head(updates[t]).op = op /\ Head(updates[t]).name = c => Waits(op, c)
<1> DEFINE s == updates[t]
           u == Head(updates[t])
           l == Tail(updates[t])
           P == u.op = op /\ u.name = c
<1>1. /\ 1 \in DOMAIN s /\ s[1] = u /\ \A i \in DOMAIN l : i + 1 \in DOMAIN s /\ l[i] = s[i + 1]
      /\ \A i \in DOMAIN s : i = 1 \/ (i - 1 \in DOMAIN l /\ l[i - 1] = s[i])
  OBVIOUS
<1>2. updates'[t] = l /\ \A x \in Recorders : x # t => updates'[x] = updates[x] BY DEF Replaced
<1> SUFFICES (Waits(op, c)' => Waits(op, c)) /\ (Waits(op, c) => Waits(op, c)' \/ P) /\ (P => Waits(op, c)) OBVIOUS
<1> HIDE DEF u, l
<1>3. Holds(l, op, c) => Holds(s, op, c) BY <1>1 DEF Holds
<1>4. Holds(s, op, c) => Holds(l, op, c) \/ P BY <1>1 DEF Holds
<1>5. P => Holds(s, op, c) BY <1>1 DEF Holds
<1>6. Waits(op, c)' <=> \E x \in Recorders : Holds(updates'[x], op, c) BY DEF Waits, Holds
<1>7. Waits(op, c) <=> \E x \in Recorders : Holds(updates[x], op, c) BY DEF Waits
<1> HIDE DEF P
<1> QED BY <1>2, <1>3, <1>4, <1>5, <1>6, <1>7

LEMMA NoneHolds ==
    ASSUME NEW v \in [Recorders -> Seq(UpdateType)], NEW c, \A t \in Recorders : ~Holds(v[t], "add", c)
    PROVE  OverThreads([t \in Recorders |-> Added(v[t], c)]) = 0
<1>1. ASSUME NEW t \in Recorders PROVE Added(v[t], c) = 0
  <2>1. v[t] \in Seq(UpdateType) OBVIOUS
  <2>2. \A i \in DOMAIN v[t] : AddedBy(v[t][i], c) = 0 BY DEF Holds, AddedBy
  <2> QED BY <2>1, <2>2, AddedFacts
<1> DEFINE w == [t \in Recorders |-> Added(v[t], c)]
<1>2. w \in [Recorders -> Nat] /\ \A t \in Recorders : w[t] = 0 BY <1>1
<1> HIDE DEF w
<1>3. OverThreads(w) = 0 BY <1>2, SumOverThreads
<1> QED BY <1>3 DEF w

LEMMA NoneAdds ==
    ASSUME CountersTyped, NEW c, ~Waits("add", c)
    PROVE  Pending(c) = 0
BY NoneHolds DEF CountersTyped, Waits, Pending

LEMMA NothingExpected == ASSUME observed = <<>>, NEW c PROVE Expected(c) = 0
<1>1. {k \in DOMAIN observed : BucketOf(observed[k]) = c} = {} OBVIOUS
<1>2. Cardinality({k \in DOMAIN observed : BucketOf(observed[k]) = c}) = 0 BY <1>1, FS_EmptySet
<1> QED BY <1>2, EmptyTotal DEF Expected

LEMMA HistogramStart == StatisticsInit => HistogramInv
<1> SUFFICES ASSUME StatisticsInit PROVE HistogramInv OBVIOUS
<1>1. /\ CountersTyped /\ bus = <<>> /\ reads = <<>> /\ observed = <<>>
      /\ \A c \in Names : counter[c] = 0
      /\ \A t \in Recorders : updates[t] = <<>>
  BY CountersStart
<1>2. \A t \in Recorders : MetricCall(updates[t]) BY <1>1 DEF MetricCall
<1>3. \A c \in Totals : counter[c] = 0 BY <1>1, TotalsNamed
<1>4. \A op, c : ~Waits(op, c) BY <1>1 DEF Waits, Holds
<1>5. ~Resetting BY <1>4, WaitingWords
<1>6. \A c : Pending(c) = 0 BY <1>1, NothingPending
<1>7. ASSUME NEW c \in Histogram PROVE InFull(c) = Expected(c)
  <2>1. InFull(c) = 0 BY <1>1, <1>6, MetricNames DEF InFull
  <2> QED BY <1>1, <2>1, NothingExpected
<1> QED BY <1>1, <1>2, <1>3, <1>5, <1>7 DEF HistogramInv

LEMMA HistogramHolds == ASSUME HistogramInv PROVE StatisticsInv
<1>1. CountersTyped /\ bus = <<>> /\ reads = <<>> /\ \A c \in Totals : counter[c] = 0 BY DEF HistogramInv
<1>2. ASSUME NEW c \in Totals PROVE InFull(c) = 0
  <2>1. \A t \in Recorders : \A i \in DOMAIN updates[t] : updates[t][i].name \in Metrics
    BY DEF HistogramInv, MetricCall, MetricUpdate
  <2>2. ~Waits("add", c) BY <2>1, MetricNames DEF Waits, Holds
  <2>3. Pending(c) = 0 BY <1>1, <2>2, NoneAdds
  <2> QED BY <1>1, <2>3 DEF InFull
<1>3. EveryPacketCounted BY <1>1, <1>2, EmptyTotal, FieldNames DEF EveryPacketCounted
<1>4. SnapshotIsBracketed
  <2>1. DOMAIN reads = {} /\ Len(reads) = 0 BY <1>1
  <2> QED BY <2>1 DEF SnapshotIsBracketed
<1>5. ASSUME ~overlapped, ~Observing, ~Resetting, NEW c \in Histogram PROVE counter[c] = Expected(c)
  <2>1. ~Waits("set", c) /\ ~Waits("add", c) BY <1>5, WaitingWords
  <2>2. InFull(c) = Expected(c) BY <1>5, <2>1 DEF HistogramInv
  <2>3. Pending(c) = 0 BY <1>1, <2>1, NoneAdds
  <2>4. counter[c] \in Nat BY <1>1, MetricNames DEF CountersTyped
  <2> QED BY <2>2, <2>3, <2>4 DEF InFull
<1>6. HistogramAddsUp
  <2> SUFFICES ASSUME ~overlapped, ~Observing, ~Resetting
               PROVE  /\ counter["count"] = Len(observed)
                      /\ counter["sum"] = Total(observed)
                      /\ \A i \in DOMAIN BucketNames :
                            counter[BucketNames[i]] =
                                Cardinality({k \in DOMAIN observed : Encloses(i, observed[k])})
    BY DEF HistogramAddsUp
  <2>1. counter["count"] = Len(observed) /\ counter["sum"] = Total(observed) BY <1>5, MetricNames DEF Expected
  <2>2. ASSUME NEW i \in DOMAIN BucketNames
        PROVE  counter[BucketNames[i]] = Cardinality({k \in DOMAIN observed : Encloses(i, observed[k])})
    <3>1. BucketNames[i] \in ToSet(BucketNames) BY DEF ToSet
    <3>2. BucketNames[i] \in Histogram /\ BucketNames[i] # "sum" /\ BucketNames[i] # "count" BY <3>1, MetricNames
    <3>3. counter[BucketNames[i]] = Cardinality({k \in DOMAIN observed : BucketOf(observed[k]) = BucketNames[i]})
      BY <1>5, <3>2 DEF Expected
    <3>4. \A k \in DOMAIN observed : observed[k] \in Nat BY <1>1 DEF CountersTyped
    <3>5. \A k \in DOMAIN observed : BucketOf(observed[k]) = BucketNames[i] <=> Encloses(i, observed[k])
      BY <3>4, OneBucket
    <3> QED BY <3>3, <3>5
  <2> QED BY <2>1, <2>2
<1> QED BY <1>3, <1>4, <1>6 DEF StatisticsInv

\* One more observation.
LEMMA ExpectedGrows ==
    ASSUME observed \in Seq(Nat), NEW n \in Nat, observed' = Append(observed, n), NEW c
    PROVE  /\ Expected(c) \in Nat
           /\ Expected(c)' = Expected(c) + IF c = "sum" THEN n ELSE IF c = "count" \/ BucketOf(n) = c THEN 1 ELSE 0
<1> DEFINE s == observed
           t == Append(observed, n)
           m == Len(s)
           S == {k \in DOMAIN s : BucketOf(s[k]) = c}
           T == {k \in DOMAIN t : BucketOf(t[k]) = c}
<1>1. Total(t) = Total(s) + n /\ Total(s) \in Nat BY TotalAppend, TotalNatural
<1>2. /\ m \in Nat /\ DOMAIN s = 1 .. m /\ DOMAIN t = 1 .. m + 1 /\ Len(t) = m + 1
      /\ t[m + 1] = n /\ \A k \in 1 .. m : t[k] = s[k]
  OBVIOUS
<1>3. CASE c = "sum" BY <1>1, <1>3 DEF Expected
<1>4. CASE c = "count" BY <1>2, <1>4 DEF Expected
<1>5. CASE c # "sum" /\ c # "count"
  <2>1. Expected(c) = Cardinality(S) BY <1>5 DEF Expected
  <2>2. Expected(c)' = Cardinality(T) BY <1>5 DEF Expected, BucketOf
  <2> HIDE DEF m, t
  <2>3. T = IF BucketOf(n) = c THEN S \cup {m + 1} ELSE S
    <3>1. \A k \in 1 .. m + 1 : k = m + 1 \/ k \in 1 .. m BY <1>2
    <3>2. m + 1 \in 1 .. m + 1 /\ 1 .. m \subseteq 1 .. m + 1 BY <1>2
    <3> QED BY <1>2, <3>1, <3>2
  <2>4. m + 1 \notin S BY <1>2
  <2>5. IsFiniteSet(S)
    <3>1. IsFiniteSet(1 .. m) BY <1>2, FS_Interval
    <3>2. S \subseteq 1 .. m BY <1>2
    <3> HIDE DEF S
    <3> QED BY <3>1, <3>2, FS_Subset
  <2> HIDE DEF S, T
  <2>6. Cardinality(S) \in Nat BY <2>5, FS_CardinalityType
  <2>7. Cardinality(S \cup {m + 1}) = Cardinality(S) + 1 BY <2>4, <2>5, FS_AddElement
  <2>8. CASE BucketOf(n) = c BY <1>5, <2>1, <2>2, <2>3, <2>6, <2>7, <2>8
  <2>9. CASE BucketOf(n) # c BY <1>5, <2>1, <2>2, <2>3, <2>6, <2>9
  <2> QED BY <2>8, <2>9
<1> QED BY <1>3, <1>4, <1>5

LEMMA SetTyped ==
    ASSUME NEW c \in Metrics, NEW n \in Nat
    PROVE  /\ Set(c, n) \in UpdateType /\ Set(c, n).op = "set" /\ Set(c, n).name = c /\ Set(c, n).n = n
           /\ Add(c, n) \in UpdateType /\ Add(c, n).op = "add" /\ Add(c, n).name = c /\ Add(c, n).n = n
           /\ Decrement(c) \in UpdateType /\ Decrement(c).op = "decrement" /\ Decrement(c).name = c
BY TotalsNamed DEF Set, Add, Decrement, UpdateType

LEMMA AddedThree ==
    ASSUME NEW u \in UpdateType, NEW v \in UpdateType, NEW w \in UpdateType, NEW l, l = <<u, v, w>>
    PROVE  l \in Seq(UpdateType) /\ \A c : Added(l, c) = AddedBy(u, c) + (AddedBy(v, c) + AddedBy(w, c))
<1>1. l \in Seq(UpdateType) /\ l # <<>> /\ Head(l) = u /\ Tail(l) = <<v, w>> OBVIOUS
<1>2. ASSUME NEW c PROVE Added(l, c) = AddedBy(u, c) + (AddedBy(v, c) + AddedBy(w, c))
  <2>1. Added(l, c) = AddedBy(u, c) + Added(Tail(l), c) BY <1>1, AddedFacts
  <2>2. Added(<<v, w>>, c) = AddedBy(v, c) + AddedBy(w, c) BY AddedList
  <2> QED BY <1>1, <2>1, <2>2
<1> QED BY <1>1, <1>2

\* A call on metrics begins.
LEMMA MetricBegins ==
    ASSUME HistogramInv, NEW t \in Recorders, NEW l \in Seq(UpdateType), MetricCall(l), Begin(t, l),
           observed' \in Seq(Nat), overlapped' \in BOOLEAN, bus' = bus,
           ~overlapped' => /\ Resetting' => observed' = <<>> /\ ~Observing'
                           /\ \A c \in Histogram : Waits("set", c)' \/ InFull(c)' = Expected(c)'
    PROVE  HistogramInv'
<1>1. CountersTyped BY DEF HistogramInv
<1>2. Replaced(t, l) /\ UNCHANGED <<counter, reads, base>> BY <1>1, BeginFacts
<1>3. CountersTyped' BY <1>1, <1>2 DEF CountersTyped, Replaced
<1>4. \A x \in Recorders : MetricCall(updates'[x]) BY <1>2 DEF HistogramInv, Replaced
<1>5. \A x \in Recorders : MetricCall(updates[x])' BY <1>4 DEF MetricCall, MetricUpdate
<1> QED BY <1>2, <1>3, <1>5 DEF HistogramInv

LEMMA MetricFacts ==
    ASSUME HistogramInv, NEW t \in Recorders, NEW l \in Seq(UpdateType), Begin(t, l)
    PROVE  /\ \A op, c : Waits(op, c)' <=> Waits(op, c) \/ Holds(l, op, c)
           /\ \A c \in Histogram : InFull(c)' = InFull(c) + Added(l, c) /\ InFull(c) \in Nat /\ Added(l, c) \in Nat
           /\ Resetting' <=> \E c \in Histogram : Waits("set", c)'
           /\ Observing' <=> \E c \in Histogram : Waits("add", c)'
<1>1. CountersTyped BY DEF HistogramInv
<1>2. /\ updates[t] = <<>> /\ Replaced(t, l) /\ UNCHANGED <<counter, reads, base>>
      /\ \A c : Pending(c)' = Pending(c) + Added(l, c) /\ Pending(c) \in Nat /\ Added(l, c) \in Nat
  BY <1>1, BeginFacts
<1>3. \A op, c : Waits(op, c)' <=> Waits(op, c) \/ Holds(l, op, c) BY <1>2, WaitsBegin
<1>4. ASSUME NEW c \in Histogram
      PROVE  InFull(c)' = InFull(c) + Added(l, c) /\ InFull(c) \in Nat /\ Added(l, c) \in Nat
  <2>1. InFull(c) = counter[c] + Pending(c) /\ InFull(c)' = counter'[c] + Pending(c)' BY DEF InFull
  <2>2. Pending(c)' = Pending(c) + Added(l, c) /\ Pending(c) \in Nat /\ Added(l, c) \in Nat BY <1>2
  <2>3. counter'[c] = counter[c] /\ counter[c] \in Nat BY <1>1, <1>2, MetricNames DEF CountersTyped
  <2> QED BY <2>1, <2>2, <2>3
<1>5. /\ Resetting' <=> \E c \in Histogram : Waits("set", c)'
      /\ Observing' <=> \E c \in Histogram : Waits("add", c)'
  BY DEF Resetting, Observing, Waits, Holds, Histogram, Metrics
<1> QED BY <1>3, <1>4, <1>5

LEMMA ObserveKeeps ==
    ASSUME HistogramInv, NEW t \in Recorders, NEW n \in Nat, Observe(t, n)
    PROVE  HistogramInv'
<1> DEFINE b == BucketOf(n)
           l == <<Add("sum", n), Add("count", 1), Add(b, 1)>>
<1>1. Begin(t, l) /\ observed' = Append(observed, n) /\ overlapped' = (overlapped \/ Resetting) /\ bus' = bus
  BY DEF Observe
<1>2. observed \in Seq(Nat) /\ overlapped \in BOOLEAN BY DEF HistogramInv, CountersTyped
<1>3. b \in Histogram /\ b \in Metrics /\ b # "sum" /\ b # "count" BY OneBucket, MetricNames
<1>4. "sum" \in Histogram /\ "count" \in Histogram /\ "sum" \in Metrics /\ "count" \in Metrics BY MetricNames
<1> HIDE DEF b
<1> DEFINE u == Add("sum", n)
           v == Add("count", 1)
           w == Add(b, 1)
<1>5. /\ u \in UpdateType /\ u.op = "add" /\ u.name = "sum" /\ u.n = n
      /\ v \in UpdateType /\ v.op = "add" /\ v.name = "count" /\ v.n = 1
      /\ w \in UpdateType /\ w.op = "add" /\ w.name = b /\ w.n = 1
  BY <1>3, <1>4, SetTyped
<1>6. l = <<u, v, w>> OBVIOUS
<1> HIDE DEF u, v, w, l
<1>7. l \in Seq(UpdateType) /\ \A c : Added(l, c) = AddedBy(u, c) + (AddedBy(v, c) + AddedBy(w, c))
  BY <1>5, <1>6, AddedThree
<1>8. DOMAIN l = 1 .. 3 /\ \A i \in DOMAIN l : l[i] = u \/ l[i] = v \/ l[i] = w BY <1>6
<1>9. MetricCall(l) BY <1>3, <1>4, <1>5, <1>8 DEF MetricCall, MetricUpdate
<1>10. \A c : ~Holds(l, "set", c) BY <1>5, <1>8 DEF Holds
<1>11. observed' \in Seq(Nat) /\ overlapped' \in BOOLEAN
  <2>1. Resetting \in BOOLEAN BY DEF Resetting
  <2> QED BY <1>1, <1>2, <2>1
<1>12. ASSUME ~overlapped' PROVE ~Resetting' /\ \A c \in Histogram : InFull(c)' = Expected(c)'
  <2>1. ~overlapped /\ ~Resetting BY <1>1, <1>12
  <2>2. \A c \in Histogram : ~Waits("set", c) BY <2>1, WaitingWords
  <2>3. ~Resetting' BY <1>1, <1>7, <1>10, <2>2, MetricFacts
  <2>4. ASSUME NEW c \in Histogram PROVE InFull(c)' = Expected(c)'
    <3>1. InFull(c) = Expected(c) BY <2>1, <2>2 DEF HistogramInv
    <3>2. InFull(c)' = InFull(c) + Added(l, c) BY <1>1, <1>7, MetricFacts
    <3>3. Expected(c)' = Expected(c) + IF c = "sum" THEN n ELSE IF c = "count" \/ b = c THEN 1 ELSE 0
      BY <1>1, <1>2, ExpectedGrows DEF b
    <3>4. Added(l, c) = IF c = "sum" THEN n ELSE IF c = "count" \/ b = c THEN 1 ELSE 0
      <4>1. Added(l, c) = AddedBy(u, c) + (AddedBy(v, c) + AddedBy(w, c)) BY <1>7
      <4>2. /\ AddedBy(u, c) = IF c = "sum" THEN n ELSE 0
            /\ AddedBy(v, c) = IF c = "count" THEN 1 ELSE 0
            /\ AddedBy(w, c) = IF b = c THEN 1 ELSE 0
        BY <1>5 DEF AddedBy
      <4> QED BY <1>3, <4>1, <4>2
    <3> QED BY <3>1, <3>2, <3>3, <3>4
  <2> QED BY <2>3, <2>4
<1> QED BY <1>1, <1>7, <1>9, <1>11, <1>12, MetricBegins

LEMMA GaugeKeeps == ASSUME HistogramInv, NEW t \in Recorders, Gauge(t) PROVE HistogramInv'
<1>1. PICK u \in {Add("flows", 1), Decrement("flows"), Set("flows", 2)} : Begin(t, <<u>>) BY DEF Gauge
<1>2. UNCHANGED <<bus, observed, overlapped>> BY DEF Gauge
<1> DEFINE l == <<u>>
<1>3. "flows" \in Metrics /\ "flows" \notin Histogram BY MetricNames
<1>4. u \in UpdateType /\ u.name = "flows" BY <1>3, SetTyped
<1>5. l \in Seq(UpdateType) /\ \A c : Added(l, c) = AddedBy(u, c) BY <1>4, AddedList
<1>6. DOMAIN l = 1 .. 1 /\ \A i \in DOMAIN l : l[i] = u OBVIOUS
<1> HIDE DEF l
<1>7. MetricCall(l) BY <1>3, <1>4, <1>6 DEF MetricCall, MetricUpdate
<1>8. \A op : \A c \in Histogram : ~Holds(l, op, c) BY <1>3, <1>4, <1>6 DEF Holds
<1>9. Begin(t, l) BY <1>1 DEF l
<1>10. \A c \in Histogram : Added(l, c) = 0 BY <1>3, <1>4, <1>5 DEF AddedBy
<1>11. observed' \in Seq(Nat) /\ overlapped' \in BOOLEAN /\ bus' = bus BY <1>2 DEF HistogramInv, CountersTyped
<1>12. \A op : \A c \in Histogram : Waits(op, c)' <=> Waits(op, c) BY <1>5, <1>8, <1>9, MetricFacts
<1>13. (Resetting' <=> Resetting) /\ (Observing' <=> Observing)
  BY <1>5, <1>9, <1>12, MetricFacts, WaitingWords
<1>14. \A c : Expected(c)' = Expected(c) BY <1>2 DEF Expected, BucketOf
<1>15. \A c \in Histogram : InFull(c)' = InFull(c)
  <2> TAKE c \in Histogram
  <2>1. InFull(c)' = InFull(c) + Added(l, c) /\ InFull(c) \in Nat BY <1>5, <1>9, MetricFacts
  <2>2. Added(l, c) = 0 BY <1>10
  <2> DEFINE p == InFull(c)
  <2>3. InFull(c)' = p + 0 /\ p \in Nat BY <2>1, <2>2
  <2> SUFFICES InFull(c)' = p OBVIOUS
  <2> HIDE DEF p
  <2> QED BY <2>3
<1>16. ~overlapped' => /\ Resetting' => observed' = <<>> /\ ~Observing'
                       /\ \A c \in Histogram : Waits("set", c)' \/ InFull(c)' = Expected(c)'
  BY <1>2, <1>12, <1>13, <1>14, <1>15 DEF HistogramInv
<1> QED BY <1>5, <1>7, <1>9, <1>11, <1>16, MetricBegins

LEMMA ResetKeeps == ASSUME HistogramInv, NEW t \in Recorders, Reset(t) PROVE HistogramInv'
<1> DEFINE k == [i \in DOMAIN BucketNames |-> Set(BucketNames[i], 0)]
           h == <<Set("flows", 0), Set("sum", 0), Set("count", 0)>>
           l == h \o k
<1>1. Begin(t, l) /\ observed' = <<>> /\ overlapped' = (Observing \/ Resetting) /\ bus' = bus BY DEF Reset
<1>2. \A c \in Metrics : /\ Set(c, 0) \in UpdateType /\ Set(c, 0).op = "set" /\ Set(c, 0).name = c /\ Set(c, 0).n = 0
  BY SetTyped
<1>3. /\ {"flows", "sum", "count"} \subseteq Metrics
      /\ \A i \in DOMAIN BucketNames : BucketNames[i] \in Metrics
      /\ \A c \in Histogram : c = "sum" \/ c = "count" \/ \E i \in DOMAIN BucketNames : BucketNames[i] = c
  BY MetricNames DEF Metrics, ToSet
<1>4. h \in Seq(UpdateType) /\ Len(h) = 3
  <2>1. Set("flows", 0) \in UpdateType /\ Set("sum", 0) \in UpdateType /\ Set("count", 0) \in UpdateType BY <1>2, <1>3
  <2> QED BY <2>1
<1>5. DOMAIN BucketNames = 1 .. Len(BucketNames) /\ Len(BucketNames) \in Nat BY StatisticsAssumption
<1>6. k \in Seq(UpdateType) /\ DOMAIN k = DOMAIN BucketNames /\ \A i \in DOMAIN k : k[i] = Set(BucketNames[i], 0)
  <2>1. \A i \in DOMAIN BucketNames : Set(BucketNames[i], 0) \in UpdateType BY <1>2, <1>3
  <2> QED BY <1>5, <2>1
<1>7. h[1] = Set("flows", 0) /\ h[2] = Set("sum", 0) /\ h[3] = Set("count", 0) OBVIOUS
<1> HIDE DEF h, k
<1>8. /\ l \in Seq(UpdateType) /\ Len(l) = 3 + Len(k) /\ Len(k) \in Nat
      /\ \A i \in 1 .. 3 : l[i] = h[i]
      /\ \A i \in 1 .. Len(k) : l[3 + i] = k[i]
      /\ DOMAIN l = 1 .. 3 + Len(k) /\ DOMAIN k = 1 .. Len(k)
  <2>0. h \in Seq(UpdateType) /\ k \in Seq(UpdateType) BY <1>4, <1>6
  <2>1. l \in Seq(UpdateType) /\ Len(l) = Len(h) + Len(k) /\ Len(k) \in Nat BY <2>0, ConcatProperties
  <2>2. \A i \in 1 .. Len(h) + Len(k) : l[i] = IF i <= Len(h) THEN h[i] ELSE k[i - Len(h)] BY <2>0, ConcatProperties
  <2>3. \A i \in 1 .. 3 : l[i] = h[i] BY <1>4, <2>1, <2>2
  <2>4. ASSUME NEW i \in 1 .. Len(k) PROVE l[3 + i] = k[i]
    <3>1. 3 + i \in 1 .. Len(h) + Len(k) /\ ~(3 + i <= Len(h)) /\ (3 + i) - Len(h) = i BY <1>4, <2>1
    <3> QED BY <2>2, <3>1
  <2> QED BY <1>4, <1>6, <2>1, <2>3, <2>4
<1> HIDE DEF l
<1>9. ASSUME NEW i \in DOMAIN l PROVE \E c \in Metrics : l[i] = Set(c, 0)
  <2>1. CASE i \in 1 .. 3
    <3>1. i = 1 \/ i = 2 \/ i = 3 BY <2>1
    <3>2. l[i] = h[i] BY <1>8, <2>1
    <3>3. h[i] = Set("flows", 0) \/ h[i] = Set("sum", 0) \/ h[i] = Set("count", 0) BY <1>7, <3>1
    <3> QED BY <1>3, <3>2, <3>3
  <2>2. CASE i \notin 1 .. 3
    <3>1. i - 3 \in 1 .. Len(k) /\ 3 + (i - 3) = i BY <1>8, <2>2
    <3>2. l[i] = k[i - 3] /\ i - 3 \in DOMAIN k BY <1>8, <3>1
    <3> QED BY <1>3, <1>6, <3>2
  <2> QED BY <2>1, <2>2
<1>10. ASSUME NEW c \in Histogram PROVE \E i \in DOMAIN l : l[i] = Set(c, 0)
  <2>1. 2 \in DOMAIN l /\ 3 \in DOMAIN l /\ l[2] = h[2] /\ l[3] = h[3] BY <1>8
  <2>2. CASE c = "sum" BY <1>7, <2>1, <2>2
  <2>3. CASE c = "count" BY <1>7, <2>1, <2>3
  <2>4. CASE \E i \in DOMAIN BucketNames : BucketNames[i] = c
    <3>1. PICK i \in DOMAIN BucketNames : BucketNames[i] = c BY <2>4
    <3>2. i \in 1 .. Len(k) /\ k[i] = Set(c, 0) BY <1>6, <1>8, <3>1
    <3>3. 3 + i \in DOMAIN l /\ l[3 + i] = k[i] BY <1>8, <3>2
    <3> QED BY <3>2, <3>3
  <2> QED BY <1>3, <2>2, <2>3, <2>4
<1>11. \A i \in DOMAIN l : l[i].op = "set" /\ l[i].n = 0 /\ l[i].name \in Metrics BY <1>2, <1>9
<1>12. MetricCall(l) BY <1>11 DEF MetricCall, MetricUpdate
<1>13. \A c : ~Holds(l, "add", c) BY <1>11 DEF Holds
<1>14. \A c \in Histogram : Holds(l, "set", c) BY <1>2, <1>10, MetricNames DEF Holds
<1>15. observed' \in Seq(Nat) /\ overlapped' \in BOOLEAN
  <2>1. Observing \in BOOLEAN /\ Resetting \in BOOLEAN BY DEF Observing, Resetting
  <2> QED BY <1>1, <2>1, EmptyTotal
<1>16. \A c \in Histogram : Waits("set", c)' BY <1>1, <1>8, <1>14, MetricFacts
<1>17. ~overlapped' => ~Observing'
  <2> SUFFICES ASSUME ~overlapped' PROVE ~Observing' OBVIOUS
  <2>1. ~Observing BY <1>1
  <2>2. \A c \in Histogram : ~Waits("add", c) BY <2>1, WaitingWords
  <2> QED BY <1>1, <1>8, <1>13, <2>2, MetricFacts
<1> QED BY <1>1, <1>8, <1>12, <1>15, <1>16, <1>17, MetricBegins

LEMMA MetricUpdateKeeps == ASSUME HistogramInv, NEW t \in Recorders, Update(t) PROVE HistogramInv'
<1> DEFINE u == Head(updates[t])
           l == Tail(updates[t])
<1>1. CountersTyped /\ MetricCall(updates[t]) /\ updates[t] \in Seq(UpdateType) BY DEF HistogramInv, CountersTyped
<1>2. /\ updates[t] # <<>> /\ u \in UpdateType /\ l \in Seq(UpdateType) /\ Replaced(t, l)
      /\ CountersTyped' /\ UNCHANGED <<bus, reads, base, observed, overlapped>>
      /\ counter'[u.name] = Adjusted(counter[u.name], u)
      /\ \A c \in Names : c # u.name => counter'[c] = counter[c]
      /\ \A c \in Names : c # u.name \/ u.op = "add" => InFull(c)' = InFull(c)
  <2>1. u = Head(updates[t]) /\ l = Tail(updates[t]) OBVIOUS
  <2> HIDE DEF u, l
  <2> QED BY <1>1, <2>1, ZenonT(40), UpdateFacts
<1>3. /\ 1 \in DOMAIN updates[t] /\ updates[t][1] = u
      /\ \A i \in DOMAIN l : i + 1 \in DOMAIN updates[t] /\ l[i] = updates[t][i + 1]
  BY <1>1, <1>2
<1>4. MetricUpdate(u) /\ MetricCall(l) BY <1>1, <1>3 DEF MetricCall
<1>5. \A op, c : /\ Waits(op, c)' => Waits(op, c)
                 /\ Waits(op, c) => Waits(op, c)' \/ (u.op = op /\ u.name = c)
                 /\ u.op = op /\ u.name = c => Waits(op, c)
  BY <1>1, <1>2, WaitsUpdate
<1> HIDE DEF u, l
<1>6. \A x \in Recorders : MetricCall(updates'[x]) BY <1>2, <1>4 DEF HistogramInv, Replaced
<1>7. \A x \in Recorders : MetricCall(updates[x])' BY <1>6 DEF MetricCall, MetricUpdate
<1>8. \A c \in Totals : counter'[c] = 0
  <2>1. u.name \in Metrics BY <1>4 DEF MetricUpdate
  <2>2. \A c \in Totals : c \in Names /\ c # u.name BY <2>1, MetricNames, TotalsNamed
  <2> QED BY <1>2, <2>2 DEF HistogramInv
<1>9. /\ Resetting' <=> \E c \in Histogram : Waits("set", c)'
      /\ Observing' <=> \E c \in Histogram : Waits("add", c)'
  BY DEF Resetting, Observing, Waits, Holds, Histogram, Metrics
<1>10. (Resetting' => Resetting) /\ (Observing' => Observing) BY <1>5, <1>9, WaitingWords
<1>11. \A c : Expected(c)' = Expected(c) BY <1>2 DEF Expected, BucketOf
<1>12. ASSUME ~overlapped, NEW c \in Histogram, ~Waits("set", c)' PROVE InFull(c)' = Expected(c)
  <2>1. c \in Names BY MetricNames
  <2>2. CASE Waits("set", c)
    <3>1. u.op = "set" /\ u.name = c BY <1>5, <1>12, <2>2
    <3>2. u.n = 0 BY <1>4, <3>1 DEF MetricUpdate
    <3>3. counter'[c] = 0 BY <1>2, <3>1, <3>2 DEF Adjusted
    <3>4. observed = <<>> /\ ~Observing BY <1>12, <2>2, WaitingWords DEF HistogramInv
    <3>5. ~Waits("add", c)' BY <1>9, <1>10, <3>4
    <3>6. Pending(c)' = 0
      <4>1. \A x \in Recorders : ~Holds(updates'[x], "add", c) BY <3>5 DEF Waits, Holds
      <4>2. updates' \in [Recorders -> Seq(UpdateType)] BY <1>2 DEF Replaced
      <4>3. OverThreads([x \in Recorders |-> Added(updates'[x], c)]) = 0 BY <4>1, <4>2, NoneHolds
      <4> QED BY <4>3 DEF Pending, OverThreads
    <3>7. InFull(c)' = counter'[c] + Pending(c)' BY DEF InFull
    <3>8. Expected(c) = 0 BY <3>4, NothingExpected
    <3> QED BY <3>3, <3>6, <3>7, <3>8
  <2>3. CASE ~Waits("set", c)
    <3>1. InFull(c) = Expected(c) BY <1>12, <2>3 DEF HistogramInv
    <3>2. c # u.name \/ u.op = "add" BY <1>4, <1>5, <2>3 DEF MetricUpdate
    <3> QED BY <1>2, <2>1, <3>1, <3>2
  <2> QED BY <2>2, <2>3
<1>13. ~overlapped' => /\ Resetting' => observed' = <<>> /\ ~Observing'
                       /\ \A c \in Histogram : Waits("set", c)' \/ InFull(c)' = Expected(c)'
  BY <1>2, <1>10, <1>11, <1>12 DEF HistogramInv
<1> QED BY <1>2, <1>7, <1>8, <1>13 DEF HistogramInv

LEMMA HistogramStays == ASSUME HistogramInv, UNCHANGED statisticsVars PROVE HistogramInv'
<1>1. UNCHANGED <<counter, updates, bus, reads, observed, overlapped>> BY DEF statisticsVars
<1>2. \A c : InFull(c)' = InFull(c) /\ Expected(c)' = Expected(c) BY <1>1 DEF InFull, Pending, OverThreads, Expected, BucketOf
<1>3. \A op, c : Waits(op, c)' <=> Waits(op, c) BY <1>1 DEF Waits, Holds
<1>4. (Resetting' <=> Resetting) /\ (Observing' <=> Observing) BY <1>1 DEF Resetting, Observing, Metrics
<1>5. CountersTyped' BY <1>1 DEF HistogramInv, CountersTyped
<1>6. \A x \in Recorders : MetricCall(updates[x])' BY <1>1 DEF HistogramInv, MetricCall, MetricUpdate
<1> QED BY <1>1, <1>2, <1>3, <1>4, <1>5, <1>6 DEF HistogramInv

LEMMA HistogramNext == ASSUME HistogramInv, [MetricsNext]_statisticsVars PROVE HistogramInv'
<1>1. CASE MetricsNext
  <2>1. PICK t \in Recorders : (\E n \in Sizes : Observe(t, n)) \/ Gauge(t) \/ Reset(t) \/ Update(t)
    BY <1>1 DEF MetricsNext
  <2>2. Sizes \subseteq Nat BY StatisticsAssumption
  <2> QED BY <2>1, <2>2, ObserveKeeps, GaugeKeeps, ResetKeeps, MetricUpdateKeeps
<1>2. CASE UNCHANGED statisticsVars BY <1>2, HistogramStays
<1> QED BY <1>1, <1>2

-----------------------------------------------------------------------------
(* What is kept while packets are processed                                *)

\* A behaviour counts statistics or metrics, so the other's part is at rest.
CountersInv ==
    /\ scenario # "metrics" => CountInv
    /\ scenario # "statistics" => HistogramInv

ProcInv == TrackInv /\ HostInv /\ RulesTyped /\ StoredLast /\ CacheBounded /\ CountersInv

LEMMA ProcInit == Init => ProcInv
BY TrackInit, HostInit, RulesInit, CacheStarts, CountInit, HistogramStart DEF Init, ProcInv, CountersInv

\* The counters, whoever counts.
LEMMA CountersNext ==
    ASSUME CountersInv, scenario' = scenario,
           \/ UNCHANGED statisticsVars
           \/ scenario = "statistics" /\ StatisticsNext
           \/ scenario = "metrics" /\ MetricsNext
    PROVE  CountersInv'
<1>1. CASE UNCHANGED statisticsVars BY <1>1, CountNext, HistogramStays DEF CountersInv
<1>2. CASE scenario = "statistics" /\ StatisticsNext BY <1>2, CountNext DEF CountersInv
<1>3. CASE scenario = "metrics" /\ MetricsNext BY <1>3, HistogramNext DEF CountersInv
<1> QED BY <1>1, <1>2, <1>3

LEMMA ProcNext == ASSUME ProcInv, [Next]_vars PROVE ProcInv' /\ Kept
<1>1. /\ [TrackingNext]_trackingVars /\ [PolicyNext]_policyVars /\ [CacheNext]_cacheVars
      /\ scenario' = scenario
      /\ \/ UNCHANGED statisticsVars
         \/ scenario = "statistics" /\ StatisticsNext
         \/ scenario = "metrics" /\ MetricsNext
  BY DEF Next, vars
<1>2. TrackInv' /\ Kept BY <1>1, TrackNext DEF ProcInv
<1>3. HostInv' /\ RulesTyped' BY <1>1, HostNext, RulesNext DEF ProcInv
<1>4. StoredLast' /\ CacheBounded' BY <1>1, CacheStep DEF ProcInv
<1>5. CountersInv' BY <1>1, CountersNext DEF ProcInv
<1> QED BY <1>2, <1>3, <1>4, <1>5 DEF ProcInv

\* What the pipeline keeps stays consistent for any number of threads, any
\* observations, rules, keys and bounds: flows and the window of recent hashes,
\* the Host's policy and flags, the metadata cache, and counters that lose no
\* update, whose snapshots are bracketed and whose histogram adds up
\* (ProcessingInv; statistics.rs, metrics.rs).
THEOREM ProcessingConsistent == Spec => []ProcessingInv
<1>1. ProcInv /\ [Next]_vars => ProcInv' BY ProcNext
<1>2. ProcInv => ProcessingInv
  <2> SUFFICES ASSUME ProcInv PROVE ProcessingInv OBVIOUS
  <2>1. TrackingInv BY TableIsConsistent DEF ProcInv, TrackInv, Windows, TrackingInv
  <2>2. PolicyInv BY RulesDecide DEF ProcInv, HostInv, CopyIsCurrent, NoUpdateLost, PolicyInv
  <2>3. FlagsFollowLifecycle BY DEF ProcInv, HostInv, FlagInv, NobodyFails, FlagsFollowLifecycle
  <2>4. CacheInv BY DEF ProcInv, StoredLast, CacheBounded, CacheInv, Got
  <2>5. StatisticsInv BY CountHolds, HistogramHolds DEF ProcInv, CountersInv
  <2> QED BY <2>1, <2>2, <2>3, <2>4, <2>5 DEF ProcessingInv
<1> QED BY <1>1, <1>2, ProcInit, PTL DEF Spec

-----------------------------------------------------------------------------
(* The parser                                                              *)

\* Cursors of which the status is known.
CursorsOf(statuses) ==
    [status : statuses, off : Nat, end : Nat, reach : Nat, type : Types, count : Nat, first : BOOLEAN]

Headers == {"go", "short", "malformed"}

LEMMA FrameFacts ==
    ASSUME NEW frame \in Frames
    PROVE  /\ frame.len \in Nat /\ frame.ihl \in Nat /\ frame.total \in Nat /\ frame.words \in Nat /\ frame.ulen \in Nat
           /\ frame.types \in Seq(Types) /\ Len(frame.types) \in Nat \ {0}
           /\ DOMAIN frame.types = 1 .. Len(frame.types)
           /\ \A i \in 1 .. Len(frame.types) : frame.types[i] \in Types
           /\ Len(frame.chain) \in Nat \ {0}
           /\ \A i \in 1 .. Len(frame.chain) :
                 frame.chain[i].type \in Types /\ frame.chain[i].size \in Nat /\ frame.chain[i].first \in BOOLEAN
           /\ \A i \in 1 .. Len(frame.types) - 1 : frame.types[i] = "vlan"
<1> DEFINE H == [type : Types, size : Nat, first : BOOLEAN]
<1>1. /\ frame.len \in Nat /\ frame.ihl \in Nat /\ frame.total \in Nat /\ frame.words \in Nat /\ frame.ulen \in Nat
      /\ frame.types \in Seq(Types) /\ frame.types # <<>>
      /\ frame.chain \in Seq(H) /\ frame.chain # <<>>
      /\ \A i \in 1 .. Len(frame.types) - 1 : frame.types[i] = "vlan"
  BY DEF Frames
<1>2. /\ Len(frame.types) \in Nat \ {0} /\ DOMAIN frame.types = 1 .. Len(frame.types)
      /\ \A i \in 1 .. Len(frame.types) : frame.types[i] \in Types
  BY <1>1
<1>3. Len(frame.chain) \in Nat \ {0} /\ \A i \in 1 .. Len(frame.chain) : frame.chain[i] \in H
  <2> HIDE DEF H
  <2> QED BY <1>1
<1> QED BY <1>1, <1>2, <1>3

\* The cursor's steps, field by field.
LEMMA FailStep ==
    ASSUME NEW St, NEW c \in CursorsOf(St), NEW e
    PROVE  /\ Fail(c, e) \in CursorsOf(St \cup {e})
           /\ Fail(c, e).status = e /\ Fail(c, e).off = c.off /\ Fail(c, e).end = c.end
           /\ Fail(c, e).reach = c.reach /\ Fail(c, e).type = c.type /\ Fail(c, e).first = c.first
BY DEF Fail, CursorsOf

LEMMA ReadStep ==
    ASSUME NEW St, NEW c \in CursorsOf(St), NEW n \in Nat
    PROVE  /\ Read(c, n) \in CursorsOf(St)
           /\ Read(c, n).status = c.status /\ Read(c, n).off = c.off /\ Read(c, n).end = c.end
           /\ Read(c, n).type = c.type /\ Read(c, n).first = c.first /\ Read(c, n).count = c.count
           /\ \A b \in Nat : c.reach <= b /\ c.off + n <= b => Read(c, n).reach <= b
<1>1. /\ c.off \in Nat /\ c.end \in Nat /\ c.reach \in Nat /\ c.count \in Nat /\ c.off + n \in Nat
  BY DEF CursorsOf
<1> DEFINE m == IF c.off + n > c.reach THEN c.off + n ELSE c.reach
<1>3. m \in Nat /\ \A b \in Nat : c.reach <= b /\ c.off + n <= b => m <= b BY <1>1
<1>4. Read(c, n) = [c EXCEPT !.reach = m] BY DEF Read
<1> HIDE DEF m
<1>5. /\ Read(c, n) \in CursorsOf(St) /\ Read(c, n).reach = m
      /\ Read(c, n).status = c.status /\ Read(c, n).off = c.off /\ Read(c, n).end = c.end
      /\ Read(c, n).type = c.type /\ Read(c, n).first = c.first /\ Read(c, n).count = c.count
  BY <1>3, <1>4 DEF CursorsOf
<1> QED BY <1>3, <1>5

LEMMA SkipStep ==
    ASSUME NEW St, NEW c \in CursorsOf(St), NEW n \in Nat, NEW ty \in Types
    PROVE  /\ Skip(c, n, ty) \in CursorsOf(St)
           /\ Skip(c, n, ty).status = c.status /\ Skip(c, n, ty).off = c.off + n /\ Skip(c, n, ty).end = c.end
           /\ Skip(c, n, ty).type = ty /\ Skip(c, n, ty).first = c.first /\ Skip(c, n, ty).count = c.count + 1
           /\ Skip(c, n, ty).reach = c.reach
<1> DEFINE x == c.off + n
           y == c.count + 1
<1>1. x \in Nat /\ y \in Nat BY DEF CursorsOf
<1>2. Skip(c, n, ty) = [[[c EXCEPT !.off = x] EXCEPT !.type = ty] EXCEPT !.count = y] BY DEF Skip, CursorsOf
<1> HIDE DEF x, y
<1> DEFINE d == [c EXCEPT !.off = x]
<1>3. d \in CursorsOf(St) /\ d.off = x /\ d.status = c.status /\ d.end = c.end /\ d.reach = c.reach /\ d.first = c.first
  BY <1>1 DEF CursorsOf
<1> HIDE DEF d
<1> DEFINE k == [[d EXCEPT !.type = ty] EXCEPT !.count = y]
<1>4. /\ k \in CursorsOf(St)
      /\ k.off = x /\ k.status = c.status /\ k.end = c.end /\ k.reach = c.reach /\ k.first = c.first
      /\ k.type = ty /\ k.count = y
  BY <1>1, <1>3 DEF CursorsOf
<1>5. Skip(c, n, ty) = k BY <1>2 DEF d
<1> HIDE DEF k
<1> QED BY <1>4, <1>5 DEF x, y

LEMMA CursorFields ==
    ASSUME NEW St, NEW c \in CursorsOf(St)
    PROVE  /\ c.status \in St /\ c.off \in Nat /\ c.end \in Nat /\ c.reach \in Nat /\ c.count \in Nat
           /\ c.type \in Types /\ c.first \in BOOLEAN
BY DEF CursorsOf

\* Past a header of n bytes of which r are looked at.
LEMMA PassStep ==
    ASSUME NEW St, NEW c \in CursorsOf(St), NEW r \in Nat, NEW n \in Nat, NEW ty \in Types,
           NEW d, d = Skip(Read(c, r), n, ty)
    PROVE  /\ d \in CursorsOf(St)
           /\ d.status = c.status /\ d.off = c.off + n /\ d.end = c.end
           /\ d.type = ty /\ d.first = c.first /\ d.count = c.count + 1
           /\ \A b \in Nat : c.reach <= b /\ c.off + r <= b => d.reach <= b
<1> DEFINE a == Read(c, r)
<1>1. /\ a \in CursorsOf(St) /\ a.status = c.status /\ a.off = c.off /\ a.end = c.end
      /\ a.first = c.first /\ a.count = c.count
      /\ \A b \in Nat : c.reach <= b /\ c.off + r <= b => a.reach <= b
  BY ReadStep
<1>2. d = Skip(a, n, ty) OBVIOUS
<1> HIDE DEF a
<1>3. /\ d \in CursorsOf(St) /\ d.status = a.status /\ d.off = a.off + n /\ d.end = a.end
      /\ d.type = ty /\ d.first = a.first /\ d.count = a.count + 1 /\ d.reach = a.reach
  BY <1>1, <1>2, SkipStep
<1> QED BY <1>1, <1>3

\* After an Ethernet header or a tag: what was read lies before the cursor.
AtHeader(frame, c) ==
    /\ c \in CursorsOf(Headers) /\ c.first
    /\ c.reach <= c.off /\ c.off <= frame.len /\ c.end = frame.len

LEMMA StartCursor ==
    ASSUME NEW st \in Headers, NEW o \in Nat, NEW n \in Nat, NEW r \in Nat, NEW ty \in Types
    PROVE  Cursor(st, o, n, r, ty) \in CursorsOf(Headers)
BY DEF Cursor, CursorsOf

LEMMA FailsAs ==
    ASSUME NEW c \in CursorsOf(Headers), NEW e \in {"short", "malformed"}
    PROVE  Fail(c, e) \in CursorsOf(Headers)
<1>1. Headers \cup {e} = Headers BY DEF Headers
<1>2. Fail(c, e) \in CursorsOf(Headers \cup {e}) BY FailStep
<1> QED BY <1>1, <1>2

\* A tag moves the cursor over its four bytes.
LEMMA TagStep ==
    ASSUME NEW c \in CursorsOf(Headers), NEW ty \in Types, NEW d, d = Skip(Read(c, 4), 4, ty)
    PROVE  /\ d \in CursorsOf(Headers)
           /\ d.status = c.status /\ d.off = c.off + 4 /\ d.end = c.end
           /\ d.type = ty /\ d.first = c.first /\ d.count = c.count + 1
           /\ \A b \in Nat : c.reach <= b /\ c.off + 4 <= b => d.reach <= b
<1>1. 4 \in Nat OBVIOUS
<1> QED BY <1>1, PassStep

LEMMA VlanTyped ==
    ASSUME NEW frame \in Frames, NEW c \in CursorsOf(Headers), NEW inner \in Types
    PROVE  VlanTag(frame, c, inner) \in CursorsOf(Headers)
<1>1. Fail(c, "malformed") \in CursorsOf(Headers) /\ Fail(c, "short") \in CursorsOf(Headers) BY FailsAs
<1>2. Skip(Read(c, 4), 4, inner) \in CursorsOf(Headers) BY TagStep
<1> QED BY <1>1, <1>2 DEF VlanTag

LEMMA VlanKeeps ==
    ASSUME NEW frame \in Frames, NEW c, AtHeader(frame, c), NEW inner \in Types
    PROVE  AtHeader(frame, VlanTag(frame, c, inner))
<1>1. c \in CursorsOf(Headers) /\ 4 \in Nat /\ frame.len \in Nat BY FrameFacts DEF AtHeader
<1>2. ASSUME NEW e \in {"short", "malformed"} PROVE AtHeader(frame, Fail(c, e))
  <2>1. Fail(c, e) \in CursorsOf(Headers) BY <1>1, FailsAs
  <2>2. /\ Fail(c, e) \in CursorsOf(Headers \cup {e})
        /\ Fail(c, e).off = c.off /\ Fail(c, e).end = c.end /\ Fail(c, e).reach = c.reach /\ Fail(c, e).first = c.first
    BY <1>1, FailStep
  <2> QED BY <2>1, <2>2 DEF AtHeader
<1>3. ASSUME ~(frame.len < c.off + 4) PROVE AtHeader(frame, Skip(Read(c, 4), 4, inner))
  <2> DEFINE d == Skip(Read(c, 4), 4, inner)
  <2>1. c.off \in Nat /\ c.reach \in Nat /\ c.end \in Nat BY <1>1, CursorFields
  <2>2. /\ d \in CursorsOf(Headers) /\ d.off = c.off + 4 /\ d.end = c.end /\ d.first = c.first
        /\ \A b \in Nat : c.reach <= b /\ c.off + 4 <= b => d.reach <= b
    <3>1. d = Skip(Read(c, 4), 4, inner) OBVIOUS
    <3> HIDE DEF d
    <3> QED BY <1>1, <3>1, TagStep
  <2> HIDE DEF d
  <2>3. c.off + 4 \in Nat /\ c.reach <= c.off + 4 /\ c.off + 4 <= frame.len BY <1>1, <1>3, <2>1 DEF AtHeader
  <2>4. d.reach <= d.off /\ d.off <= frame.len BY <2>2, <2>3
  <2>5. AtHeader(frame, d) BY <2>2, <2>4 DEF AtHeader
  <2> QED BY <2>5 DEF d
<1> QED BY <1>2, <1>3 DEF VlanTag

EthernetStart(frame) == Cursor("go", 14, frame.len, 14, frame.types[1])

LEMMA EthernetStarts ==
    ASSUME NEW frame \in Frames
    PROVE  /\ EthernetStart(frame) \in CursorsOf(Headers)
           /\ frame.len >= 14 => AtHeader(frame, EthernetStart(frame))
           /\ EthernetStart(frame).status = "go" /\ EthernetStart(frame).off = 14 /\ EthernetStart(frame).count = 0
           /\ EthernetStart(frame).type = frame.types[1]
<1>1. frame.types[1] \in Types /\ frame.len \in Nat BY FrameFacts
<1> QED BY <1>1 DEF EthernetStart, Cursor, CursorsOf, Headers, AtHeader

\* up goes through the loop over the tags.
Untags(up, frame) ==
    /\ up[0] = EthernetStart(frame)
    /\ \A k \in 1 .. Len(frame.types) - 1 : up[k] = VlanTag(frame, up[k - 1], frame.types[k + 1])

LEMMA EthernetLoop ==
    ASSUME NEW frame \in Frames, frame.len >= 14
    PROVE  \E up : Untags(up, frame) /\ Ethernet(frame) = up[Len(frame.types) - 1]
<1> DEFINE n == Len(frame.types) - 1
           X == CursorsOf(Headers)
           start == EthernetStart(frame)
           step == [p \in (1 .. n) \X X |-> VlanTag(frame, p[2], frame.types[p[1] + 1])]
<1>1. n \in Nat /\ frame.len \in Nat /\ \A k \in 1 .. n : frame.types[k + 1] \in Types BY FrameFacts
<1>2. start \in X BY EthernetStarts
<1> HIDE DEF X, n, start
<1>3. step \in [(1 .. n) \X X -> X]
  <2>1. ASSUME NEW p \in (1 .. n) \X X PROVE step[p] \in X
    <3>1. p[1] \in 1 .. n /\ p[2] \in X OBVIOUS
    <3>2. VlanTag(frame, p[2], frame.types[p[1] + 1]) \in X BY <1>1, <3>1, VlanTyped DEF X
    <3> QED BY <3>2
  <2> QED BY <2>1
<1>4. PICK f \in [0 .. n -> X] : f[0] = start /\ \A k \in 1 .. n : f[k] = step[<<k, f[k - 1]>>]
  <2> HIDE DEF step
  <2>1. \E f : Computation(f, X, n, start, step) BY <1>1, <1>2, <1>3, StepsExist
  <2> QED BY <2>1 DEF Computation
<1> DEFINE F(g) == [k \in 0 .. n |-> IF k = 0 THEN start ELSE VlanTag(frame, g[k - 1], frame.types[k + 1])]
           up == CHOOSE g : g = F(g)
<1>5. \A k \in 1 .. n : f[k] = VlanTag(frame, f[k - 1], frame.types[k + 1])
  <2> TAKE k \in 1 .. n
  <2>1. k - 1 \in 0 .. n BY <1>1
  <2>2. <<k, f[k - 1]>> \in (1 .. n) \X X BY <1>4, <2>1
  <2> QED BY <1>4, <2>2
<1>6. f = F(f)
  <2>1. \A k \in 0 .. n : f[k] = IF k = 0 THEN start ELSE VlanTag(frame, f[k - 1], frame.types[k + 1])
    <3> TAKE k \in 0 .. n
    <3>1. k = 0 \/ k \in 1 .. n BY <1>1
    <3>2. f[0] = start BY <1>4
    <3> QED BY <1>5, <3>1, <3>2
  <2>2. f = [k \in 0 .. n |-> f[k]] BY <1>4
  <2> QED BY <2>1, <2>2
<1>7. up = F(up) BY <1>6
<1>8. up[0] = start /\ \A k \in 1 .. n : up[k] = VlanTag(frame, up[k - 1], frame.types[k + 1])
  <2>1. \A k \in 0 .. n : up[k] = F(up)[k] BY <1>7
  <2> HIDE DEF up
  <2> QED BY <1>1, <2>1
<1>9. Ethernet(frame) = up[n]
  <2>1. ~(frame.len < 14) BY <1>1
  <2> QED BY <2>1 DEF Ethernet, n, start, EthernetStart
<1> HIDE DEF up
<1> QED BY <1>8, <1>9 DEF Untags, n, start

LEMMA EthernetIsAt == ASSUME NEW frame \in Frames PROVE AtHeader(frame, Ethernet(frame))
<1>1. frame.len \in Nat /\ Len(frame.types) \in Nat \ {0} BY FrameFacts
<1>2. CASE frame.len < 14
  <2>1. Ethernet(frame) = Cursor("short", 0, frame.len, 0, "none") BY <1>2 DEF Ethernet
  <2> DEFINE c == Cursor("short", 0, frame.len, 0, "none")
  <2>2. c.status = "short" /\ c.off = 0 /\ c.end = frame.len /\ c.reach = 0 /\ c.first BY DEF Cursor
  <2>3. "short" \in Headers /\ 0 \in Nat /\ "none" \in Types BY DEF Headers, Types
  <2>5. c \in CursorsOf(Headers) BY <1>1, <2>3, StartCursor
  <2> HIDE DEF c
  <2>4. AtHeader(frame, c) BY <1>1, <2>2, <2>5 DEF AtHeader
  <2> QED BY <2>1, <2>4 DEF c
<1>3. CASE frame.len >= 14
  <2> DEFINE n == Len(frame.types) - 1
  <2>1. PICK up : Untags(up, frame) /\ Ethernet(frame) = up[n] BY <1>3, EthernetLoop
  <2>2. n \in Nat /\ \A k \in 1 .. n : frame.types[k + 1] \in Types BY FrameFacts
  <2> DEFINE S == {k \in 0 .. n : AtHeader(frame, up[k])}
  <2>3. 0 \in S BY <1>3, <2>1, <2>2, EthernetStarts DEF Untags
  <2>4. ASSUME NEW k \in 1 .. n, k - 1 \in S PROVE k \in S
    <3>1. up[k] = VlanTag(frame, up[k - 1], frame.types[k + 1]) BY <2>1 DEF Untags
    <3>2. AtHeader(frame, up[k - 1]) /\ frame.types[k + 1] \in Types BY <2>2, <2>4
    <3>3. AtHeader(frame, up[k]) BY <3>1, <3>2, VlanKeeps
    <3> QED BY <2>2, <3>3
  <2> HIDE DEF S, n
  <2>5. 0 .. n \subseteq S BY <2>2, <2>3, <2>4, UpTo
  <2>6. n \in S BY <2>2, <2>5
  <2> QED BY <2>1, <2>6 DEF S
<1> QED BY <1>1, <1>2, <1>3

Statuses == Headers \cup {"arp", "ports", "portless", "unsupported"}

\* Within the packet, and within what its headers declare.
Within(frame, c) ==
    c \in CursorsOf(Statuses) /\ c.reach <= c.end /\ c.off <= c.end /\ c.end <= frame.len

LEMMA WithinFail ==
    ASSUME NEW frame \in Frames, NEW c, Within(frame, c), NEW e \in Statuses
    PROVE  Within(frame, Fail(c, e)) /\ Fail(c, e).status = e /\ Fail(c, e).first = c.first
<1>1. Statuses \cup {e} = Statuses OBVIOUS
<1>2. c \in CursorsOf(Statuses) BY DEF Within
<1>3. /\ Fail(c, e) \in CursorsOf(Statuses \cup {e})
      /\ Fail(c, e).status = e /\ Fail(c, e).off = c.off /\ Fail(c, e).end = c.end
      /\ Fail(c, e).reach = c.reach /\ Fail(c, e).first = c.first
  BY <1>2, FailStep
<1> QED BY <1>1, <1>3 DEF Within

LEMMA WithinRead ==
    ASSUME NEW frame \in Frames, NEW c, Within(frame, c), NEW n \in Nat, c.off + n <= c.end
    PROVE  Within(frame, Read(c, n)) /\ Read(c, n).first = c.first
<1>1. c \in CursorsOf(Statuses) BY DEF Within
<1>2. c.end \in Nat BY <1>1, CursorFields
<1>3. /\ Read(c, n) \in CursorsOf(Statuses)
      /\ Read(c, n).off = c.off /\ Read(c, n).end = c.end /\ Read(c, n).first = c.first
      /\ \A b \in Nat : c.reach <= b /\ c.off + n <= b => Read(c, n).reach <= b
  BY <1>1, ReadStep
<1>4. Read(c, n).reach <= c.end BY <1>2, <1>3 DEF Within
<1> QED BY <1>3, <1>4 DEF Within

LEMMA WithinPass ==
    ASSUME NEW frame \in Frames, NEW c, Within(frame, c), NEW r \in Nat, NEW n \in Nat, NEW ty \in Types,
           c.off + r <= c.end, c.off + n <= c.end
    PROVE  Within(frame, Skip(Read(c, r), n, ty))
<1> DEFINE d == Skip(Read(c, r), n, ty)
<1>1. c \in CursorsOf(Statuses) BY DEF Within
<1>2. c.end \in Nat BY <1>1, CursorFields
<1>3. /\ d \in CursorsOf(Statuses) /\ d.off = c.off + n /\ d.end = c.end
      /\ \A b \in Nat : c.reach <= b /\ c.off + r <= b => d.reach <= b
  BY <1>1, PassStep
<1> HIDE DEF d
<1>4. d.reach <= c.end BY <1>2, <1>3 DEF Within
<1>5. Within(frame, d) BY <1>3, <1>4 DEF Within
<1> QED BY <1>5 DEF d

LEMMA AtIsWithin ==
    ASSUME NEW frame \in Frames, NEW c, AtHeader(frame, c)
    PROVE  Within(frame, c) /\ c.first /\ c.status \in Headers /\ c.end = frame.len /\ c.off \in Nat
           /\ c.reach \in Nat /\ c.reach <= c.off
<1>1. c \in CursorsOf(Headers) /\ frame.len \in Nat BY FrameFacts DEF AtHeader
<1>2. c \in CursorsOf(Statuses) BY <1>1 DEF CursorsOf, Statuses
<1>3. c.status \in Headers /\ c.off \in Nat /\ c.reach \in Nat BY <1>1, CursorFields
<1>4. c.reach <= frame.len BY <1>1, <1>3 DEF AtHeader
<1>5. c.first /\ c.end = frame.len /\ c.reach <= c.off /\ c.off <= frame.len BY DEF AtHeader
<1>6. Within(frame, c) BY <1>1, <1>2, <1>4, <1>5 DEF Within
<1> QED BY <1>3, <1>5, <1>6

LEMMA StatusFacts ==
    /\ "short" \in Statuses /\ "malformed" \in Statuses /\ "ports" \in Statuses /\ "portless" \in Statuses
    /\ "arp" \in Statuses /\ "unsupported" \in Statuses /\ "go" \in Statuses
BY DEF Statuses, Headers

LEMMA ArpWithin ==
    ASSUME NEW frame \in Frames, NEW c, AtHeader(frame, c)
    PROVE  Within(frame, Arp(frame, c)) /\ Arp(frame, c).status # "ports"
<1>1. Within(frame, c) /\ c.end = frame.len /\ c.off \in Nat BY AtIsWithin
<1>2. frame.len \in Nat /\ 8 \in Nat /\ 28 \in Nat BY FrameFacts
<1>3. CASE frame.len - c.off < 28
  <2>1. Arp(frame, c) = Fail(c, "short") BY <1>3 DEF Arp
  <2>2. Within(frame, Fail(c, "short")) /\ Fail(c, "short").status = "short" BY <1>1, WithinFail, StatusFacts
  <2> QED BY <2>1, <2>2
<1>4. CASE ~(frame.len - c.off < 28)
  <2>1. c.off + 8 <= c.end /\ c.off + 28 <= c.end BY <1>1, <1>2, <1>4
  <2>2. Within(frame, Read(c, 8)) /\ Within(frame, Read(c, 28)) BY <1>1, <1>2, <2>1, WithinRead
  <2>3. \/ Arp(frame, c) = Fail(Read(c, 8), "unsupported")
        \/ Arp(frame, c) = Fail(Read(c, 28), "arp")
    BY <1>4 DEF Arp, Fail
  <2>4. Within(frame, Fail(Read(c, 8), "unsupported")) /\ Fail(Read(c, 8), "unsupported").status = "unsupported"
    BY <2>2, WithinFail, StatusFacts
  <2>5. Within(frame, Fail(Read(c, 28), "arp")) /\ Fail(Read(c, 28), "arp").status = "arp"
    BY <2>2, WithinFail, StatusFacts
  <2> QED BY <2>3, <2>4, <2>5
<1> QED BY <1>3, <1>4

\* What a transport parser makes of a cursor.
LEMMA PortsWithin ==
    ASSUME NEW frame \in Frames, NEW c, Within(frame, c), NEW n \in Nat, c.off + n <= c.end, NEW e \in Statuses
    PROVE  /\ Within(frame, Fail(Read(c, n), e)) /\ Fail(Read(c, n), e).first = c.first
           /\ Fail(Read(c, n), e).status = e
<1>1. Within(frame, Read(c, n)) /\ Read(c, n).first = c.first BY WithinRead
<1> QED BY <1>1, WithinFail

LEMMA TcpWithin ==
    ASSUME NEW frame \in Frames, NEW c, Within(frame, c)
    PROVE  Within(frame, Tcp(frame, c)) /\ Tcp(frame, c).first = c.first
<1>1. c \in CursorsOf(Statuses) BY DEF Within
<1>2. c.off \in Nat /\ c.end \in Nat BY <1>1, CursorFields
<1>3. CASE c.end - c.off < 20
  <2>1. Tcp(frame, c) = Fail(c, "portless") BY <1>3 DEF Tcp, Fail
  <2>2. Within(frame, Fail(c, "portless")) /\ Fail(c, "portless").first = c.first /\ Fail(c, "portless").status = "portless"
    BY WithinFail, StatusFacts
  <2> QED BY <2>1, <2>2
<1>4. CASE ~(c.end - c.off < 20)
  <2>1. 13 \in Nat /\ 20 \in Nat /\ c.off + 13 <= c.end /\ c.off + 20 <= c.end BY <1>2, <1>4
  <2>2. \/ Tcp(frame, c) = Fail(c, "short")
        \/ Tcp(frame, c) = Fail(Read(c, 13), "malformed")
        \/ Tcp(frame, c) = Fail(Read(c, 20), "ports")
    BY <1>4 DEF Tcp, Fail
  <2>3. Within(frame, Fail(c, "short")) /\ Fail(c, "short").first = c.first BY WithinFail, StatusFacts
  <2>4. Within(frame, Fail(Read(c, 13), "malformed")) /\ Fail(Read(c, 13), "malformed").first = c.first
    BY <2>1, PortsWithin, StatusFacts
  <2>5. Within(frame, Fail(Read(c, 20), "ports")) /\ Fail(Read(c, 20), "ports").first = c.first
    BY <2>1, PortsWithin, StatusFacts
  <2> QED BY <2>2, <2>3, <2>4, <2>5
<1> QED BY <1>3, <1>4

LEMMA UdpWithin ==
    ASSUME NEW frame \in Frames, NEW c, Within(frame, c)
    PROVE  Within(frame, Udp(frame, c)) /\ Udp(frame, c).first = c.first
<1>1. c \in CursorsOf(Statuses) BY DEF Within
<1>2. c.off \in Nat /\ c.end \in Nat BY <1>1, CursorFields
<1>3. CASE c.end - c.off < 8
  <2>1. Udp(frame, c) = Fail(c, "portless") BY <1>3 DEF Udp, Fail
  <2>2. Within(frame, Fail(c, "portless")) /\ Fail(c, "portless").first = c.first /\ Fail(c, "portless").status = "portless"
    BY WithinFail, StatusFacts
  <2> QED BY <2>1, <2>2
<1>4. CASE ~(c.end - c.off < 8)
  <2>1. 8 \in Nat /\ c.off + 8 <= c.end BY <1>2, <1>4
  <2>2. \/ Udp(frame, c) = Fail(c, "short")
        \/ Udp(frame, c) = Fail(Read(c, 8), "malformed")
        \/ Udp(frame, c) = Fail(Read(c, 8), "ports")
    BY <1>4 DEF Udp, Fail
  <2>3. Within(frame, Fail(c, "short")) /\ Fail(c, "short").first = c.first BY WithinFail, StatusFacts
  <2>4. Within(frame, Fail(Read(c, 8), "malformed")) /\ Fail(Read(c, 8), "malformed").first = c.first
    BY <2>1, PortsWithin, StatusFacts
  <2>5. Within(frame, Fail(Read(c, 8), "ports")) /\ Fail(Read(c, 8), "ports").first = c.first
    BY <2>1, PortsWithin, StatusFacts
  <2> QED BY <2>2, <2>3, <2>4, <2>5
<1> QED BY <1>3, <1>4

LEMMA IcmpWithin ==
    ASSUME NEW frame \in Frames, NEW c, Within(frame, c)
    PROVE  Within(frame, Icmp(frame, c)) /\ Icmp(frame, c).first = c.first
<1>1. c \in CursorsOf(Statuses) BY DEF Within
<1>2. c.off \in Nat /\ c.end \in Nat BY <1>1, CursorFields
<1> DEFINE n == c.end - c.off
<1>3. n \in Nat /\ c.off + n <= c.end BY <1>2 DEF Within
<1>4. \/ Icmp(frame, c) = Fail(c, "portless")
      \/ Icmp(frame, c) = Fail(Read(c, n), "portless")
  BY DEF Icmp, Fail
<1> HIDE DEF n
<1>5. Within(frame, Fail(c, "portless")) /\ Fail(c, "portless").first = c.first BY WithinFail, StatusFacts
<1>6. Within(frame, Fail(Read(c, n), "portless")) /\ Fail(Read(c, n), "portless").first = c.first
  BY <1>3, PortsWithin, StatusFacts
<1> QED BY <1>4, <1>5, <1>6

\* Ports come from a first fragment only.
LEMMA TransportWithin ==
    ASSUME NEW frame \in Frames, NEW c, Within(frame, c), c.status \in Headers
    PROVE  Within(frame, Transport(frame, c))
           /\ (Transport(frame, c).status = "ports" => Transport(frame, c).first)
<1>1. CASE c.status = "go" /\ c.first /\ c.type = "tcp"
  <2>1. Transport(frame, c) = Tcp(frame, c) BY <1>1 DEF Transport
  <2> QED BY <1>1, <2>1, TcpWithin
<1>2. CASE c.status = "go" /\ c.first /\ c.type = "udp"
  <2>1. Transport(frame, c) = Udp(frame, c) BY <1>2 DEF Transport
  <2> QED BY <1>2, <2>1, UdpWithin
<1>3. CASE c.status = "go" /\ c.first /\ c.type = "icmp"
  <2>1. Transport(frame, c) = Icmp(frame, c) BY <1>3 DEF Transport
  <2> QED BY <1>3, <2>1, IcmpWithin
<1>4. CASE c.status # "go"
  <2>1. Transport(frame, c) = c BY <1>4 DEF Transport
  <2> QED BY <2>1 DEF Headers
<1>5. CASE c.status = "go" /\ ~(c.first /\ c.type \in {"tcp", "udp", "icmp"})
  <2>1. Transport(frame, c) = Fail(c, "portless") BY <1>5 DEF Transport, Fail
  <2>2. Within(frame, Fail(c, "portless")) /\ Fail(c, "portless").first = c.first /\ Fail(c, "portless").status = "portless"
    BY WithinFail, StatusFacts
  <2> QED BY <2>1, <2>2
<1> QED BY <1>1, <1>2, <1>3, <1>4, <1>5

\* The headers of the network layer have been passed, or refused.
Nested(frame, c) == Within(frame, c) /\ c.status \in Headers

LEMMA NestedFail ==
    ASSUME NEW frame \in Frames, NEW c, Nested(frame, c), NEW e \in {"short", "malformed"}
    PROVE  Nested(frame, Fail(c, e))
<1>1. e \in Statuses /\ e \in Headers BY DEF Statuses, Headers
<1>2. Within(frame, Fail(c, e)) /\ Fail(c, e).status = e BY <1>1, WithinFail DEF Nested
<1> QED BY <1>1, <1>2 DEF Nested

LEMMA NestedReadFail ==
    ASSUME NEW frame \in Frames, NEW c, Nested(frame, c), NEW n \in Nat, c.off + n <= c.end,
           NEW e \in {"short", "malformed"}
    PROVE  Nested(frame, Fail(Read(c, n), e))
<1>1. e \in Statuses /\ e \in Headers BY DEF Statuses, Headers
<1>2. Within(frame, Fail(Read(c, n), e)) /\ Fail(Read(c, n), e).status = e BY <1>1, PortsWithin DEF Nested
<1> QED BY <1>1, <1>2 DEF Nested

LEMMA NestedPass ==
    ASSUME NEW frame \in Frames, NEW c, Nested(frame, c), NEW r \in Nat, NEW n \in Nat, NEW ty \in Types,
           c.off + r <= c.end, c.off + n <= c.end
    PROVE  Nested(frame, Skip(Read(c, r), n, ty))
<1>1. c \in CursorsOf(Statuses) BY DEF Nested, Within
<1>2. Within(frame, Skip(Read(c, r), n, ty)) BY WithinPass DEF Nested
<1> DEFINE d == Skip(Read(c, r), n, ty)
<1>3. d \in CursorsOf(Statuses) /\ d.status = c.status BY <1>1, PassStep
<1> QED BY <1>2, <1>3 DEF Nested

\* Where an accepted IPv4 header leaves the cursor.
Ipv4End(frame, c) ==
    [Skip(Read(c, 20), frame.ihl * 4, frame.chain[1].type)
        EXCEPT !.end = c.off + frame.total, !.first = frame.offset = 0]

LEMMA Ipv4EndFacts ==
    ASSUME NEW frame \in Frames, NEW c, AtHeader(frame, c),
           frame.ihl >= 5, frame.total >= frame.ihl * 4, c.off + frame.total <= frame.len,
           NEW d, d = Ipv4End(frame, c)
    PROVE  /\ Nested(frame, d) /\ d.status = c.status /\ d.off = c.off + frame.ihl * 4
           /\ d.end = c.off + frame.total /\ d.type = frame.chain[1].type /\ (d.first <=> frame.offset = 0)
<1> DEFINE n == frame.ihl * 4
           ty == frame.chain[1].type
           a == Skip(Read(c, 20), n, ty)
           m == c.off + frame.total
           b == (frame.offset = 0)
<1>1. /\ Within(frame, c) /\ c.status \in Headers /\ c.end = frame.len /\ c.off \in Nat /\ c.reach \in Nat /\ c.reach <= c.off
  BY AtIsWithin
<1>2. frame.ihl \in Nat /\ frame.total \in Nat /\ frame.len \in Nat /\ ty \in Types /\ 20 \in Nat BY FrameFacts
<1>3. n \in Nat /\ m \in Nat /\ n >= 20 /\ c.off + n <= m /\ c.off + 20 <= c.off + n /\ c.off + n \in Nat /\ m <= frame.len
  BY <1>1, <1>2
<1>4. b \in BOOLEAN OBVIOUS
<1>5. c \in CursorsOf(Statuses) BY <1>1 DEF Within
<1>6. d = [a EXCEPT !.end = m, !.first = b] BY DEF Ipv4End
<1> HIDE DEF n, ty, m, b
<1>7. /\ a \in CursorsOf(Statuses) /\ a.status = c.status /\ a.off = c.off + n /\ a.type = ty
      /\ \A x \in Nat : c.reach <= x /\ c.off + 20 <= x => a.reach <= x
  <2>1. 20 \in Nat /\ n \in Nat /\ ty \in Types BY <1>2, <1>3
  <2> QED BY <1>5, <2>1, PassStep
<1> HIDE DEF a
<1>8. a.reach \in Nat BY <1>7, CursorFields
<1>9. a.reach <= c.off + n
  <2>1. c.reach <= c.off + n BY <1>1, <1>3
  <2> QED BY <1>3, <1>7, <2>1
<1>10. /\ d \in CursorsOf(Statuses)
       /\ d.status = a.status /\ d.off = a.off /\ d.end = m /\ d.reach = a.reach /\ d.type = a.type /\ d.first = b
  <2> DEFINE e == [a EXCEPT !.end = m]
  <2>1. e \in CursorsOf(Statuses) /\ e.end = m /\ e.status = a.status /\ e.off = a.off /\ e.reach = a.reach /\ e.type = a.type
    BY <1>3, <1>7 DEF CursorsOf
  <2>2. d = [e EXCEPT !.first = b] BY <1>6, <1>7 DEF CursorsOf
  <2> HIDE DEF e
  <2> QED BY <1>4, <2>1, <2>2 DEF CursorsOf
<1>11. d.reach <= d.end BY <1>3, <1>8, <1>9, <1>10
<1>12. Nested(frame, d) BY <1>1, <1>3, <1>7, <1>10, <1>11 DEF Nested, Within
<1>13. d.off = c.off + n /\ d.type = ty /\ d.status = c.status /\ d.end = m /\ d.first = b BY <1>7, <1>10
<1> QED BY <1>12, <1>13 DEF n, ty, m, b

LEMMA Ipv4Within ==
    ASSUME NEW frame \in Frames, NEW c, AtHeader(frame, c)
    PROVE  Nested(frame, Ipv4(frame, c))
<1>1. Within(frame, c) /\ c.status \in Headers /\ c.end = frame.len /\ c.off \in Nat BY AtIsWithin
<1>2. frame.ihl \in Nat /\ frame.total \in Nat /\ frame.len \in Nat BY FrameFacts
<1>3. Nested(frame, c) BY <1>1 DEF Nested
<1>4. Nested(frame, Fail(c, "short")) BY <1>3, NestedFail
<1>5. ASSUME ~(frame.len < c.off + 20)
      PROVE  /\ Nested(frame, Fail(Read(c, 1), "short")) /\ Nested(frame, Fail(Read(c, 1), "malformed"))
             /\ Nested(frame, Fail(Read(c, 4), "short")) /\ Nested(frame, Fail(Read(c, 4), "malformed"))
  <2>1. 1 \in Nat /\ 4 \in Nat /\ c.off + 1 <= c.end /\ c.off + 4 <= c.end BY <1>1, <1>2, <1>5
  <2> QED BY <1>3, <2>1, NestedReadFail
<1>6. ASSUME ~(frame.ihl < 5), ~(frame.total < frame.ihl * 4), ~(frame.len < c.off + frame.total)
      PROVE  Nested(frame, Ipv4End(frame, c))
  <2>1. frame.ihl >= 5 /\ frame.total >= frame.ihl * 4 /\ c.off + frame.total <= frame.len BY <1>1, <1>2, <1>6
  <2> QED BY <2>1, Ipv4EndFacts
<1>7. Ipv4(frame, c) =
        IF frame.len < c.off + 20 THEN Fail(c, "short")
        ELSE IF frame.version # 4 \/ frame.ihl < 5 THEN Fail(Read(c, 1), "malformed")
        ELSE IF frame.len < c.off + frame.ihl * 4 THEN Fail(Read(c, 1), "short")
        ELSE IF frame.total < frame.ihl * 4 THEN Fail(Read(c, 4), "malformed")
        ELSE IF frame.len < c.off + frame.total THEN Fail(Read(c, 4), "short")
        ELSE Ipv4End(frame, c)
  BY DEF Ipv4, Ipv4End
<1> QED BY <1>4, <1>5, <1>6, <1>7

LEMMA ExtensionNested ==
    ASSUME NEW frame \in Frames, NEW c, Nested(frame, c), NEW k \in 1 .. Len(frame.chain), NEW next \in Types
    PROVE  Nested(frame, Extension(frame, c, frame.chain[k], next))
<1> DEFINE header == frame.chain[k]
           d == Extension(frame, c, header, next)
<1>1. header.size \in Nat /\ header.first \in BOOLEAN BY FrameFacts
<1>2. c \in CursorsOf(Statuses) BY DEF Nested, Within
<1>3. c.off \in Nat /\ c.end \in Nat BY <1>2, CursorFields
<1>4. Nested(frame, Fail(c, "short")) BY NestedFail
<1> HIDE DEF header
<1>5. CASE c.type \in {"options", "auth"}
  <2>1. \/ d = c
        \/ d = Fail(c, "short")
        \/ c.off + 2 <= c.end /\ d = Fail(Read(c, 2), "short")
        \/ c.off + 2 <= c.end /\ c.off + header.size <= c.end /\ d = Skip(Read(c, 2), header.size, next)
    BY <1>1, <1>3, <1>5 DEF Extension
  <2> HIDE DEF d
  <2>2. 2 \in Nat OBVIOUS
  <2>3. c.off + 2 <= c.end => Nested(frame, Fail(Read(c, 2), "short")) BY <2>2, NestedReadFail
  <2>4. c.off + 2 <= c.end /\ c.off + header.size <= c.end => Nested(frame, Skip(Read(c, 2), header.size, next))
    BY <1>1, <2>2, NestedPass
  <2>5. Nested(frame, d) BY <1>4, <2>1, <2>3, <2>4
  <2> QED BY <2>5 DEF d, header
<1>6. CASE c.type = "fragment"
  <2> DEFINE a == Skip(Read(c, 8), 8, next)
             e == [a EXCEPT !.first = header.first]
  <2>1. \/ d = c
        \/ d = Fail(c, "short")
        \/ c.off + 8 <= c.end /\ d = e
    BY <1>1, <1>3, <1>6 DEF Extension
  <2>2. 8 \in Nat OBVIOUS
  <2>3. c.off + 8 <= c.end => Nested(frame, a) BY <2>2, NestedPass
  <2> HIDE DEF a, d
  <2>4. Nested(frame, a) => Nested(frame, e)
    <3>1. SUFFICES ASSUME Nested(frame, a) PROVE Nested(frame, e) OBVIOUS
    <3>2. a \in CursorsOf(Statuses) BY <3>1 DEF Nested, Within
    <3>3. /\ e \in CursorsOf(Statuses) /\ e.status = a.status /\ e.off = a.off /\ e.end = a.end /\ e.reach = a.reach
      BY <1>1, <3>2 DEF CursorsOf
    <3> HIDE DEF e
    <3> QED BY <3>1, <3>3 DEF Nested, Within
  <2> HIDE DEF e
  <2>5. Nested(frame, d) BY <1>4, <2>1, <2>3, <2>4
  <2> QED BY <2>5 DEF d, header
<1>7. CASE c.type \notin {"options", "auth", "fragment"}
  <2>1. d = c BY <1>7 DEF Extension
  <2> HIDE DEF d
  <2>2. Nested(frame, d) BY <2>1
  <2> QED BY <2>2 DEF d, header
<1> QED BY <1>5, <1>6, <1>7

Ipv6Start(frame, c) ==
    Cursor("go", c.off + 40, c.off + 40 + frame.total, c.off + 40, frame.chain[1].type)

LEMMA Ipv6Starts ==
    ASSUME NEW frame \in Frames, NEW c, AtHeader(frame, c), c.off + 40 + frame.total <= frame.len
    PROVE  Nested(frame, Ipv6Start(frame, c))
<1> DEFINE x == c.off + 40
           y == c.off + 40 + frame.total
           ty == frame.chain[1].type
           d == Cursor("go", x, y, x, ty)
<1>1. c.off \in Nat BY AtIsWithin
<1>2. frame.total \in Nat /\ frame.len \in Nat /\ ty \in Types BY FrameFacts
<1>3. x \in Nat /\ y \in Nat /\ x <= y /\ y <= frame.len BY <1>1, <1>2
<1>4. Ipv6Start(frame, c) = d BY DEF Ipv6Start
<1>5. "go" \in Headers BY DEF Headers
<1> HIDE DEF x, y, ty
<1>6. d \in CursorsOf(Headers) BY <1>2, <1>3, <1>5, StartCursor
<1>7. d.status = "go" /\ d.off = x /\ d.end = y /\ d.reach = x BY DEF Cursor
<1> HIDE DEF d
<1>8. d \in CursorsOf(Statuses) BY <1>6 DEF CursorsOf, Statuses
<1>9. Nested(frame, d) BY <1>3, <1>5, <1>7, <1>8 DEF Nested, Within
<1> QED BY <1>4, <1>9

LEMMA Ipv6Loop ==
    ASSUME NEW frame \in Frames, NEW start, Nested(frame, start), NEW up,
           up = CHOOSE g : g = [k \in 0 .. Len(frame.chain) - 1 |->
                   IF k = 0 THEN start ELSE Extension(frame, g[k - 1], frame.chain[k], frame.chain[k + 1].type)]
    PROVE  Nested(frame, up[Len(frame.chain) - 1])
<1> DEFINE n == Len(frame.chain) - 1
           X == {c \in CursorsOf(Statuses) : Nested(frame, c)}
           step == [p \in (1 .. n) \X X |-> Extension(frame, p[2], frame.chain[p[1]], frame.chain[p[1] + 1].type)]
<1>1. n \in Nat /\ \A k \in 1 .. n : k \in 1 .. Len(frame.chain) /\ frame.chain[k + 1].type \in Types BY FrameFacts
<1>2. \A c : c \in X <=> Nested(frame, c) BY DEF Nested, Within
<1> HIDE DEF X, n
<1>3. \A k \in 1 .. n, c \in X : Extension(frame, c, frame.chain[k], frame.chain[k + 1].type) \in X
  <2> TAKE k \in 1 .. n, c \in X
  <2> QED BY <1>1, <1>2, ExtensionNested
<1>4. step \in [(1 .. n) \X X -> X]
  <2>1. ASSUME NEW p \in (1 .. n) \X X PROVE step[p] \in X
    <3>1. p[1] \in 1 .. n /\ p[2] \in X OBVIOUS
    <3> QED BY <1>3, <3>1
  <2> QED BY <2>1
<1>5. PICK f \in [0 .. n -> X] : f[0] = start /\ \A k \in 1 .. n : f[k] = step[<<k, f[k - 1]>>]
  <2>1. start \in X BY <1>2
  <2> HIDE DEF step
  <2>2. \E f : Computation(f, X, n, start, step) BY <1>1, <1>4, <2>1, StepsExist
  <2> QED BY <2>2 DEF Computation
<1> DEFINE F(g) == [k \in 0 .. n |->
                       IF k = 0 THEN start ELSE Extension(frame, g[k - 1], frame.chain[k], frame.chain[k + 1].type)]
<1>6. \A k \in 1 .. n : f[k] = Extension(frame, f[k - 1], frame.chain[k], frame.chain[k + 1].type)
  <2> TAKE k \in 1 .. n
  <2>1. k - 1 \in 0 .. n BY <1>1
  <2>2. <<k, f[k - 1]>> \in (1 .. n) \X X BY <1>5, <2>1
  <2> QED BY <1>5, <2>2
<1>7. f = F(f)
  <2>1. \A k \in 0 .. n : f[k] = IF k = 0 THEN start ELSE Extension(frame, f[k - 1], frame.chain[k], frame.chain[k + 1].type)
    <3> TAKE k \in 0 .. n
    <3>1. k = 0 \/ k \in 1 .. n BY <1>1
    <3>2. f[0] = start BY <1>5
    <3> QED BY <1>6, <3>1, <3>2
  <2>2. f = [k \in 0 .. n |-> f[k]] BY <1>5
  <2> QED BY <2>1, <2>2
<1>8. up = CHOOSE g : g = F(g) BY DEF n
<1>9. up = F(up)
  <2> HIDE DEF F
  <2> QED BY <1>7, <1>8
<1>10. up[0] = start /\ \A k \in 1 .. n : up[k] = Extension(frame, up[k - 1], frame.chain[k], frame.chain[k + 1].type)
  <2>1. \A k \in 0 .. n : up[k] = F(up)[k] BY <1>9
  <2> QED BY <1>1, <2>1
<1> DEFINE S == {k \in 0 .. n : up[k] \in X}
<1>11. 0 \in S BY <1>1, <1>2, <1>10
<1>12. ASSUME NEW k \in 1 .. n, k - 1 \in S PROVE k \in S
  <2>1. up[k - 1] \in X BY <1>12
  <2>2. up[k] \in X BY <1>3, <1>10, <2>1
  <2> QED BY <1>1, <2>2
<1>13. 0 .. n \subseteq S
  <2> HIDE DEF S
  <2> QED BY <1>1, <1>11, <1>12, UpTo
<1>14. up[n] \in X BY <1>1, <1>13
<1> QED BY <1>2, <1>14 DEF n

LEMMA Ipv6Within ==
    ASSUME NEW frame \in Frames, NEW c, AtHeader(frame, c)
    PROVE  Nested(frame, Ipv6(frame, c))
<1>1. Within(frame, c) /\ c.status \in Headers /\ c.end = frame.len /\ c.off \in Nat BY AtIsWithin
<1>2. frame.total \in Nat /\ frame.len \in Nat /\ 1 \in Nat /\ 40 \in Nat BY FrameFacts
<1>3. Nested(frame, c) BY <1>1 DEF Nested
<1>4. CASE frame.len < c.off + 40
  <2>1. Ipv6(frame, c) = Fail(c, "short") BY <1>4 DEF Ipv6
  <2>2. Nested(frame, Fail(c, "short")) BY <1>3, NestedFail
  <2> QED BY <2>1, <2>2
<1>5. CASE ~(frame.len < c.off + 40) /\ (frame.version # 6 \/ frame.len < c.off + 40 + frame.total)
  <2>1. \/ Ipv6(frame, c) = Fail(Read(c, 1), "malformed")
        \/ Ipv6(frame, c) = Fail(Read(c, 40), "short")
    BY <1>5 DEF Ipv6
  <2>2. c.off + 1 <= c.end /\ c.off + 40 <= c.end BY <1>1, <1>2, <1>5
  <2>3. Nested(frame, Fail(Read(c, 1), "malformed")) BY <1>2, <1>3, <2>2, NestedReadFail
  <2>4. Nested(frame, Fail(Read(c, 40), "short")) BY <1>2, <1>3, <2>2, NestedReadFail
  <2> QED BY <2>1, <2>3, <2>4
<1>6. CASE ~(frame.len < c.off + 40) /\ ~(frame.version # 6) /\ ~(frame.len < c.off + 40 + frame.total)
  <2> DEFINE n == Len(frame.chain) - 1
             start == Ipv6Start(frame, c)
             up == CHOOSE g : g = [k \in 0 .. n |->
                       IF k = 0 THEN start ELSE Extension(frame, g[k - 1], frame.chain[k], frame.chain[k + 1].type)]
  <2>1. c.off + 40 + frame.total <= frame.len BY <1>1, <1>2, <1>6
  <2>2. Nested(frame, start) BY <2>1, Ipv6Starts
  <2>3. Ipv6(frame, c) = up[n] BY <1>6 DEF Ipv6, Ipv6Start
  <2> HIDE DEF start
  <2>4. Nested(frame, up[n]) BY <2>2, Ipv6Loop
  <2> QED BY <2>3, <2>4
<1> QED BY <1>4, <1>5, <1>6

LEMMA ParseWithin ==
    ASSUME NEW frame \in Frames
    PROVE  Within(frame, Parse(frame)) /\ (Parse(frame).status = "ports" => Parse(frame).first)
<1> DEFINE c == Ethernet(frame)
<1>1. AtHeader(frame, c) BY EthernetIsAt
<1>2. Parse(frame) = IF frame.len = 0 THEN Fail(c, "short")
                     ELSE IF c.status # "go" THEN c
                     ELSE CASE c.type = "ip4" -> Transport(frame, Ipv4(frame, c))
                            [] c.type = "ip6" -> Transport(frame, Ipv6(frame, c))
                            [] c.type = "arp" -> Arp(frame, c)
                            [] OTHER -> Fail(c, "unsupported")
  BY DEF Parse
<1> HIDE DEF c
<1>3. Within(frame, c) /\ c.first BY <1>1, AtIsWithin
<1>4. \A e \in {"short", "unsupported"} : Within(frame, Fail(c, e)) /\ Fail(c, e).first = c.first
  BY <1>3, WithinFail, StatusFacts
<1>5. /\ Within(frame, Transport(frame, Ipv4(frame, c)))
      /\ Transport(frame, Ipv4(frame, c)).status = "ports" => Transport(frame, Ipv4(frame, c)).first
  <2> DEFINE d == Ipv4(frame, c)
  <2>1. Nested(frame, d) BY <1>1, Ipv4Within
  <2> HIDE DEF d
  <2>2. Within(frame, Transport(frame, d)) /\ (Transport(frame, d).status = "ports" => Transport(frame, d).first)
    BY <2>1, TransportWithin DEF Nested
  <2> QED BY <2>2 DEF d
<1>6. /\ Within(frame, Transport(frame, Ipv6(frame, c)))
      /\ Transport(frame, Ipv6(frame, c)).status = "ports" => Transport(frame, Ipv6(frame, c)).first
  <2> DEFINE d == Ipv6(frame, c)
  <2>1. Nested(frame, d) BY <1>1, Ipv6Within
  <2> HIDE DEF d
  <2>2. Within(frame, Transport(frame, d)) /\ (Transport(frame, d).status = "ports" => Transport(frame, d).first)
    BY <2>1, TransportWithin DEF Nested
  <2> QED BY <2>2 DEF d
<1>7. Within(frame, Arp(frame, c)) /\ Arp(frame, c).status # "ports" BY <1>1, ArpWithin
<1>8. \/ Parse(frame) = c
      \/ Parse(frame) = Fail(c, "short") \/ Parse(frame) = Fail(c, "unsupported")
      \/ Parse(frame) = Transport(frame, Ipv4(frame, c))
      \/ Parse(frame) = Transport(frame, Ipv6(frame, c))
      \/ Parse(frame) = Arp(frame, c)
  BY <1>2
<1> QED BY <1>3, <1>4, <1>5, <1>6, <1>7, <1>8

LEMMA FramesParsedInside ==
    ASSUME NEW frame \in Frames
    PROVE  ParseStaysInside(frame) /\ PortsAreReal(frame)
<1> DEFINE c == Parse(frame)
<1>1. Within(frame, c) /\ (c.status = "ports" => c.first) BY ParseWithin
<1>2. frame.len \in Nat BY FrameFacts
<1>3. ParseStaysInside(frame) <=> c.reach <= frame.len /\ (Accepted(c) => c.off <= c.end /\ c.end <= frame.len)
  BY DEF ParseStaysInside
<1>4. PortsAreReal(frame) <=> (c.status = "ports" => c.first /\ c.reach <= c.end) BY DEF PortsAreReal
<1> HIDE DEF c
<1>5. c \in CursorsOf(Statuses) BY <1>1 DEF Within
<1>6. c.reach \in Nat /\ c.end \in Nat BY <1>5, CursorFields
<1>7. c.reach <= frame.len BY <1>1, <1>2, <1>6 DEF Within
<1> QED BY <1>1, <1>3, <1>4, <1>7 DEF Within

\* After k tags, none of them refused.
Tagged(frame, c, k) ==
    /\ c \in CursorsOf(Headers)
    /\ c.status = "go" /\ c.off = 14 + 4 * k /\ c.count = k /\ c.type = frame.types[k + 1]

LEMMA TagsPassed ==
    ASSUME NEW frame \in Frames, Len(frame.types) <= MaxTags + 1, 14 + 4 * (Len(frame.types) - 1) <= frame.len
    PROVE  Tagged(frame, Ethernet(frame), Len(frame.types) - 1)
<1> DEFINE n == Len(frame.types) - 1
<1>1. /\ frame.len \in Nat /\ n \in Nat /\ frame.len >= 14 /\ n <= 4
      /\ \A k \in 1 .. n : frame.types[k] = "vlan" /\ frame.types[k + 1] \in Types
  BY FrameFacts DEF MaxTags
<1>2. PICK up : Untags(up, frame) /\ Ethernet(frame) = up[n] BY <1>1, EthernetLoop
<1>3. 14 + 4 * n <= frame.len OBVIOUS
<1>4. up[0] = EthernetStart(frame) /\ \A k \in 1 .. n : up[k] = VlanTag(frame, up[k - 1], frame.types[k + 1])
  BY <1>2 DEF Untags
<1> HIDE DEF n
<1> DEFINE S == {k \in 0 .. n : Tagged(frame, up[k], k)}
<1>5. 0 \in S
  <2>1. Tagged(frame, EthernetStart(frame), 0) BY EthernetStarts DEF Tagged
  <2> QED BY <1>1, <1>4, <2>1
<1>6. ASSUME NEW k \in 1 .. n, k - 1 \in S PROVE k \in S
  <2> DEFINE c == up[k - 1]
             d == up[k]
  <2>1. /\ c \in CursorsOf(Headers) /\ c.status = "go" /\ c.off = 14 + 4 * (k - 1) /\ c.count = k - 1
        /\ c.type = frame.types[k - 1 + 1]
    BY <1>6 DEF Tagged
  <2>2. k - 1 + 1 = k /\ k \in Nat /\ k <= 4 /\ k <= n BY <1>1
  <2>3. c.type = "vlan" /\ frame.types[k + 1] \in Types BY <1>1, <2>1, <2>2
  <2>4. d = VlanTag(frame, c, frame.types[k + 1]) BY <1>4
  <2>5. ~(c.count >= MaxTags) /\ ~(frame.len < c.off + 4) BY <1>1, <1>3, <2>1, <2>2 DEF MaxTags
  <2> HIDE DEF c, d
  <2> DEFINE ty == frame.types[k + 1]
  <2>6. d = Skip(Read(c, 4), 4, ty) BY <2>1, <2>3, <2>4, <2>5 DEF VlanTag
  <2>7. ty \in Types BY <2>3
  <2> HIDE DEF ty
  <2>8. /\ d \in CursorsOf(Headers) /\ d.status = c.status /\ d.off = c.off + 4 /\ d.type = ty /\ d.count = c.count + 1
    <3>1. c \in CursorsOf(Headers) BY <2>1
    <3> QED BY <2>6, <2>7, <3>1, TagStep
  <2>9. d.off = 14 + 4 * k /\ d.count = k BY <2>1, <2>2, <2>8
  <2>10. Tagged(frame, d, k) BY <2>1, <2>8, <2>9 DEF Tagged, ty
  <2> QED BY <1>1, <2>10 DEF d
<1>7. 0 .. n \subseteq S
  <2> HIDE DEF S
  <2> QED BY <1>1, <1>5, <1>6, UpTo
<1>8. Tagged(frame, up[n], n) BY <1>1, <1>7
<1> QED BY <1>2, <1>8 DEF n

LEMMA FramesAccepted == ASSUME NEW frame \in Frames PROVE WellFormedIsAccepted(frame)
<1> DEFINE n == Len(frame.types) - 1
           at == 14 + 4 * n
           c == Ethernet(frame)
           d == Ipv4End(frame, c)
<1>1. SUFFICES ASSUME WellFormed(frame) PROVE Parse(frame).status = "ports" BY DEF WellFormedIsAccepted
<1>2. /\ frame.len \in Nat /\ frame.ihl \in Nat /\ frame.total \in Nat /\ frame.ulen \in Nat
      /\ n \in Nat /\ Len(frame.types) = n + 1
  BY FrameFacts
<1>3. /\ Len(frame.types) <= MaxTags + 1
      /\ Last(frame.types) = "ip4" /\ frame.version = 4
      /\ frame.ihl >= 5 /\ frame.ihl * 4 <= frame.total
      /\ at + frame.total <= frame.len
      /\ frame.chain[1].type = "udp" /\ frame.offset = 0
      /\ frame.ulen >= 8 /\ frame.ihl * 4 + frame.ulen <= frame.total
  BY <1>1 DEF WellFormed
<1>4. at \in Nat /\ at <= frame.len /\ at >= 14 BY <1>2, <1>3
<1>5. Tagged(frame, c, n) BY <1>3, <1>4, TagsPassed
<1>6. frame.types[n + 1] = "ip4" BY <1>2, <1>3 DEF Last
<1>7. c.status = "go" /\ c.off = at /\ c.type = "ip4" BY <1>5, <1>6 DEF Tagged
<1>8. AtHeader(frame, c) BY EthernetIsAt
<1>9. Parse(frame) = Transport(frame, Ipv4(frame, c)) BY <1>2, <1>4, <1>7 DEF Parse
<1> HIDE DEF c, at, n
<1>10. Ipv4(frame, c) = d
  <2>1. /\ ~(frame.len < c.off + 20) /\ ~(frame.version # 4 \/ frame.ihl < 5)
        /\ ~(frame.len < c.off + frame.ihl * 4) /\ ~(frame.total < frame.ihl * 4) /\ ~(frame.len < c.off + frame.total)
    <3> DEFINE m == frame.ihl * 4
    <3>1. m \in Nat /\ m >= 20 /\ m <= frame.total BY <1>2, <1>3
    <3>2. c.off = at /\ at + frame.total <= frame.len BY <1>3, <1>7
    <3>3. ~(frame.version # 4 \/ frame.ihl < 5) BY <1>2, <1>3
    <3> HIDE DEF m
    <3>4. \A x, y, z, l \in Nat : y >= 20 /\ y <= z /\ x + z <= l =>
             ~(l < x + 20) /\ ~(l < x + y) /\ ~(z < y) /\ ~(l < x + z)
      OBVIOUS
    <3>5. ~(frame.len < at + 20) /\ ~(frame.len < at + m) /\ ~(frame.total < m) /\ ~(frame.len < at + frame.total)
      BY <1>2, <1>4, <3>1, <3>2, <3>4
    <3> QED BY <3>2, <3>3, <3>5 DEF m
  <2> QED BY <2>1 DEF Ipv4, Ipv4End
<1>11. /\ Nested(frame, d) /\ d.status = c.status /\ d.off = c.off + frame.ihl * 4
       /\ d.end = c.off + frame.total /\ d.type = frame.chain[1].type /\ (d.first <=> frame.offset = 0)
  <2>1. frame.ihl >= 5 /\ frame.total >= frame.ihl * 4 /\ c.off + frame.total <= frame.len BY <1>2, <1>3, <1>7
  <2> QED BY <1>8, <2>1, Ipv4EndFacts
<1> HIDE DEF d
<1>12. d.status = "go" /\ d.type = "udp" /\ d.first BY <1>3, <1>7, <1>11
<1>13. Transport(frame, d) = Udp(frame, d) BY <1>12 DEF Transport
<1>14. /\ ~(d.end - d.off < 8) /\ ~(d.off + (d.end - d.off) > frame.len)
       /\ ~(frame.ulen < 8 \/ frame.ulen > d.end - d.off)
  <2> DEFINE m == frame.ihl * 4
  <2>1. m \in Nat /\ m + frame.ulen <= frame.total BY <1>2, <1>3
  <2>2. d.off = at + m /\ d.end = at + frame.total BY <1>7, <1>11
  <2>3. at + frame.total <= frame.len BY <1>3
  <2> HIDE DEF m
  <2>4. \A x, y, z, u, l \in Nat : y + u <= z /\ u >= 8 /\ x + z <= l =>
           /\ ~((x + z) - (x + y) < 8) /\ ~((x + y) + ((x + z) - (x + y)) > l)
           /\ ~(u < 8 \/ u > (x + z) - (x + y))
    OBVIOUS
  <2>5. frame.ulen >= 8 BY <1>3
  <2> QED BY <1>2, <1>4, <2>1, <2>2, <2>3, <2>4, <2>5
<1>15. Udp(frame, d) = Fail(Read(d, 8), "ports") BY <1>14 DEF Udp, Fail
<1>16. Fail(Read(d, 8), "ports").status = "ports"
  <2>1. Within(frame, d) /\ d \in CursorsOf(Statuses) BY <1>11 DEF Nested, Within
  <2>2. d.off \in Nat /\ d.end \in Nat BY <2>1, CursorFields
  <2>3. 8 \in Nat /\ d.off + 8 <= d.end BY <1>14, <2>2
  <2> QED BY <2>1, <2>3, PortsWithin, StatusFacts
<1> QED BY <1>9, <1>10, <1>13, <1>15, <1>16

\* Whatever is captured, of any length, with any number of tags and headers and
\* any field values: no byte that is not there is read, what is accepted lies
\* inside, ports come from a first fragment that holds them, and a well-formed
\* packet is accepted (packet-parser/src/lib.rs:72-250).
THEOREM FramesParsedSafely == ASSUME NEW frame \in Frames PROVE ParsedSafely(frame)
BY FramesParsedInside, FramesAccepted DEF ParsedSafely

-----------------------------------------------------------------------------
(* The checksums                                                           *)

LEMMA Quotient ==
    ASSUME NEW a \in Nat, NEW m \in Nat \ {0}
    PROVE  a \div m \in Nat /\ a % m \in Nat /\ a % m < m /\ a = m * (a \div m) + (a % m)
<1>1. a \div m \in Nat OBVIOUS
<1>2. a % m \in 0 .. m - 1 OBVIOUS
<1>3. \A x \in Int, y \in Int : y > 0 => y * (x \div y) + (x % y) = x BY Z3
<1>4. m * (a \div m) + (a % m) = a BY <1>3
<1> QED BY <1>1, <1>2, <1>4

LEMMA Multiples ==
    /\ \A m \in Nat, k \in Int : k >= 1 => k * m >= m
    /\ \A m \in Nat, k \in Int : k <= 0 => k * m <= 0
    /\ \A m \in Nat, k \in Int : k >= 2 => k * m >= 2 * m
    /\ \A m \in Nat, k \in Int : k >= 3 => k * m >= 3 * m
    /\ \A m \in Nat, j, k \in Int : j * m - k * m = (j - k) * m
    /\ \A m \in Nat, j, k \in Int : j * m + k * m = (j + k) * m
    /\ \A m \in Nat, k \in Int : k * m \in Int
    /\ \A m \in Nat, k \in Nat : k * m \in Nat
OBVIOUS

\* r is what sum leaves when multiples of the greatest word are taken away, but
\* for the greatest word itself, which is left in place of zero.
Reduces(sum, r, m) ==
    /\ r \in 0 .. m
    /\ sum = 0 <=> r = 0
    /\ \E k \in Nat : sum = r + k * m

LEMMA ReducesOnce ==
    ASSUME NEW m \in Nat \ {0}, NEW sum \in Nat, NEW r, NEW u, Reduces(sum, r, m), Reduces(sum, u, m)
    PROVE  r = u
<1>1. PICK k \in Nat : sum = r + k * m BY DEF Reduces
<1>2. PICK j \in Nat : sum = u + j * m BY DEF Reduces
<1>3. r \in 0 .. m /\ u \in 0 .. m /\ (r = 0 <=> u = 0) BY DEF Reduces
<1> DEFINE x == k * m
           y == j * m
<1>4. x \in Int /\ y \in Int BY Multiples
<1>5. CASE k = j
  <2> HIDE DEF x, y
  <2>1. x = y BY <1>5 DEF x, y
  <2> QED BY <1>1, <1>2, <1>3, <1>4, <2>1 DEF x, y
<1>6. CASE k # j
  <2>1. x - y = (k - j) * m /\ y - x = (j - k) * m BY Multiples
  <2>2. k - j \in Int /\ j - k \in Int /\ (k - j >= 1 \/ j - k >= 1) BY <1>6
  <2>3. x - y >= m \/ y - x >= m BY <2>1, <2>2, Multiples
  <2>4. r + x = u + y BY <1>1, <1>2
  <2> HIDE DEF x, y
  <2>5. (r = m /\ u = 0) \/ (r = 0 /\ u = m) BY <1>3, <1>4, <2>3, <2>4
  <2> QED BY <1>3, <2>5
<1> QED BY <1>5, <1>6

\* One turn of the fold keeps it and makes the sum smaller.
LEMMA FoldTurn ==
    ASSUME NEW m \in Nat \ {0}, NEW sum \in Nat, sum > m,
           NEW t, t = (sum % (m + 1)) + (sum \div (m + 1))
    PROVE  /\ t \in Nat /\ t < sum /\ t # 0
           /\ \A r : Reduces(t, r, m) => Reduces(sum, r, m)
<1> DEFINE q == sum \div (m + 1)
           p == sum % (m + 1)
           x == q * m
<1>1. m + 1 \in Nat \ {0} OBVIOUS
<1>2. q \in Nat /\ p \in Nat /\ p < m + 1 /\ sum = (m + 1) * q + p BY <1>1, Quotient
<1>3. (m + 1) * q = x + q BY <1>2
<1>4. t = p + q OBVIOUS
<1> HIDE DEF q, p
<1>5. q >= 1
  <2>1. CASE q = 0
    <3>1. (m + 1) * q = 0 BY <2>1
    <3> QED BY <1>2, <3>1
  <2> QED BY <1>2, <2>1
<1>6. x \in Nat /\ x >= m BY <1>2, <1>5, Multiples
<1>7. sum = t + x BY <1>2, <1>3, <1>4, <1>6
<1>8. t \in Nat /\ t < sum /\ t # 0 BY <1>2, <1>4, <1>5, <1>6, <1>7
<1>9. ASSUME NEW r, Reduces(t, r, m) PROVE Reduces(sum, r, m)
  <2>1. PICK k \in Nat : t = r + k * m BY <1>9 DEF Reduces
  <2>2. r \in Nat BY <1>9 DEF Reduces
  <2>3. k * m + x = (k + q) * m /\ k * m \in Nat BY <1>2, Multiples
  <2>4. sum = r + (k + q) * m
    <3> DEFINE y == k * m
               z == (k + q) * m
    <3>1. y + x = z /\ y \in Nat /\ t = r + y BY <2>1, <2>3
    <3> HIDE DEF x, y, z
    <3>2. sum = r + z BY <1>6, <1>7, <2>2, <3>1
    <3> QED BY <3>2 DEF z
  <2>5. k + q \in Nat BY <1>2
  <2>6. \E l \in Nat : sum = r + l * m BY <2>4, <2>5
  <2> QED BY <1>8, <1>9, <2>6 DEF Reduces
<1> QED BY <1>8, <1>9

LEMMA WordFacts == Radix \in Nat \ {0, 1} /\ MaxWord \in Nat \ {0} /\ MaxWord + 1 = Radix * Radix
<1>1. Radix \in Nat \ {0, 1} BY ChecksumAssumption
<1>2. Radix >= 2 /\ Radix * Radix \in Nat BY <1>1
<1>3. Radix * Radix >= 2 * Radix BY <1>1, <1>2, Multiples
<1> DEFINE x == Radix * Radix
<1>4. x \in Nat /\ x >= 4
  <2>1. x \in Nat /\ x >= 2 * Radix BY <1>2, <1>3
  <2> HIDE DEF x
  <2> QED BY <1>1, <1>2, <2>1
<1>5. MaxWord = x - 1 BY DEF MaxWord
<1> HIDE DEF x
<1>6. MaxWord \in Nat \ {0} /\ MaxWord + 1 = x BY <1>4, <1>5
<1> QED BY <1>1, <1>6 DEF x

\* Every sum is reduced to something.
LEMMA ReductionExists == ASSUME NEW m \in Nat \ {0}, NEW sum \in Nat PROVE \E r \in Nat : Reduces(sum, r, m)
<1> DEFINE B == {s \in Nat : ~ \E r \in Nat : Reduces(s, r, m)}
<1>1. SUFFICES B = {} OBVIOUS
<1>2. SUFFICES ASSUME B # {} PROVE FALSE OBVIOUS
<1>3. PICK s \in B : \A x \in B : s <= x BY <1>2, LeastNatural
<1>4. s \in Nat /\ ~ \E r \in Nat : Reduces(s, r, m) OBVIOUS
<1>5. CASE s <= m
  <2>1. s = s + 0 * m BY <1>4
  <2>2. Reduces(s, s, m) BY <1>4, <1>5, <2>1 DEF Reduces
  <2> QED BY <1>4, <2>2
<1>6. CASE s > m
  <2> DEFINE t == (s % (m + 1)) + (s \div (m + 1))
  <2>1. t \in Nat /\ t < s /\ \A r : Reduces(t, r, m) => Reduces(s, r, m) BY <1>4, <1>6, FoldTurn
  <2> HIDE DEF t
  <2>2. t \notin B BY <1>3, <1>4, <2>1
  <2>3. PICK r \in Nat : Reduces(t, r, m) BY <2>1, <2>2
  <2> QED BY <1>4, <2>1, <2>3
<1> QED BY <1>4, <1>5, <1>6

\* What the loop that folds the carries computes.
LEMMA FoldedReduces == ASSUME NEW sum \in Nat PROVE Reduces(sum, Folded[sum], MaxWord)
<1> DEFINE m == MaxWord
           next(s) == (s % (m + 1)) + (s \div (m + 1))
           F(f) == [s \in Nat |-> IF s <= m THEN s ELSE f[next(s)]]
           G == [s \in Nat |-> CHOOSE r \in Nat : Reduces(s, r, m)]
<1>1. m \in Nat \ {0} BY WordFacts
<1> HIDE DEF m
<1>2. \A s \in Nat : Reduces(s, G[s], m)
  <2> TAKE s \in Nat
  <2>1. \E r \in Nat : Reduces(s, r, m) BY <1>1, ReductionExists
  <2> QED BY <2>1
<1>3. \A s \in Nat : s <= m => Reduces(s, s, m)
  <2> SUFFICES ASSUME NEW s \in Nat, s <= m PROVE Reduces(s, s, m) OBVIOUS
  <2>1. s = s + 0 * m BY <1>1
  <2> QED BY <1>1, <2>1 DEF Reduces
<1>4. G = F(G)
  <2>1. ASSUME NEW s \in Nat PROVE G[s] = IF s <= m THEN s ELSE G[next(s)]
    <3>1. CASE s <= m BY <1>1, <1>2, <1>3, <3>1, ReducesOnce
    <3>2. CASE ~(s <= m)
      <4> DEFINE t == next(s)
      <4>1. s > m BY <1>1, <3>2
      <4>2. t \in Nat /\ \A r : Reduces(t, r, m) => Reduces(s, r, m) BY <1>1, <4>1, FoldTurn
      <4> HIDE DEF t, G
      <4>3. Reduces(s, G[t], m) /\ Reduces(s, G[s], m) BY <1>2, <4>2
      <4>4. G[s] = G[t] BY <1>1, <4>3, ReducesOnce
      <4> QED BY <3>2, <4>4 DEF t
    <3> QED BY <3>1, <3>2
  <2> HIDE DEF next
  <2>2. G = [s \in Nat |-> G[s]] OBVIOUS
  <2> HIDE DEF G
  <2> QED BY <2>1, <2>2
<1>5. Folded = CHOOSE f : f = F(f) BY DEF Folded, m
<1>6. Folded = F(Folded)
  <2> HIDE DEF F, G
  <2> QED BY <1>4, <1>5
<1>7. \A s \in Nat : Folded[s] = IF s <= m THEN s ELSE Folded[next(s)]
  <2> HIDE DEF next
  <2> QED BY <1>6
<1> DEFINE B == {s \in Nat : ~Reduces(s, Folded[s], m)}
<1>8. B = {}
  <2> SUFFICES ASSUME B # {} PROVE FALSE OBVIOUS
  <2>1. PICK s \in B : \A x \in B : s <= x BY LeastNatural
  <2>2. s \in Nat /\ ~Reduces(s, Folded[s], m) OBVIOUS
  <2>3. CASE s <= m BY <1>3, <1>7, <2>2, <2>3
  <2>4. CASE ~(s <= m)
    <3> DEFINE t == next(s)
    <3>1. s > m BY <1>1, <2>2, <2>4
    <3>2. t \in Nat /\ t < s /\ \A r : Reduces(t, r, m) => Reduces(s, r, m) BY <1>1, <2>2, <3>1, FoldTurn
    <3>3. Folded[s] = Folded[t] BY <1>7, <2>2, <2>4
    <3> HIDE DEF t
    <3>4. t \notin B BY <2>1, <2>2, <3>2
    <3>5. Reduces(t, Folded[t], m) BY <3>2, <3>4
    <3> QED BY <2>2, <3>2, <3>3, <3>5
  <2> QED BY <2>3, <2>4
<1> QED BY <1>8 DEF m

\* The sum of two lists is the sum of both.
LEMMA TotalConcat ==
    ASSUME NEW s \in Seq(Nat), NEW t \in Seq(Nat)
    PROVE  s \o t \in Seq(Nat) /\ Total(s \o t) = Total(s) + Total(t)
<1> DEFINE n == Len(s)
           m == Len(t)
           u == s \o t
<1>1. PICK f : Sums(f, s) /\ Total(s) = f[n] BY TotalSums
<1>2. PICK g : Sums(g, t) /\ Total(t) = g[m] BY TotalSums
<1>3. /\ u \in Seq(Nat) /\ Len(u) = n + m /\ n \in Nat /\ m \in Nat
      /\ \A k \in 1 .. n + m : u[k] = IF k <= n THEN s[k] ELSE t[k - n]
  BY ConcatProperties
<1>4. f \in [0 .. n -> Int] /\ f[0] = 0 /\ \A k \in 1 .. n : f[k] = f[k - 1] + s[k] BY <1>1 DEF Sums
<1>5. g \in [0 .. m -> Int] /\ g[0] = 0 /\ \A k \in 1 .. m : g[k] = g[k - 1] + t[k] BY <1>2 DEF Sums
<1>6. \A k \in 1 .. m : t[k] \in Int OBVIOUS
<1> HIDE DEF n, m, u
<1> DEFINE h == [k \in 0 .. n + m |-> IF k <= n THEN f[k] ELSE f[n] + g[k - n]]
<1>7. f[n] \in Int /\ g[m] \in Int BY <1>3, <1>4, <1>5
<1>8. ASSUME NEW k \in 0 .. n + m
      PROVE  /\ k <= n => h[k] = f[k]
             /\ k >= n => k - n \in 0 .. m /\ h[k] = f[n] + g[k - n]
             /\ h[k] \in Int
  <2>1. CASE k < n
    <3>1. k \in 0 .. n /\ ~(k >= n) BY <1>3, <2>1
    <3>2. h[k] = f[k] BY <2>1, <3>1
    <3> QED BY <1>4, <3>1, <3>2
  <2>2. CASE k = n
    <3>1. h[k] = f[n] /\ k - n = 0 /\ 0 \in 0 .. m BY <1>3, <2>2
    <3> QED BY <1>5, <1>7, <2>2, <3>1
  <2>3. CASE k > n
    <3>1. k - n \in 0 .. m /\ ~(k <= n) BY <1>3, <2>3
    <3>2. h[k] = f[n] + g[k - n] BY <3>1
    <3>3. g[k - n] \in Int BY <1>5, <3>1
    <3> QED BY <1>7, <3>1, <3>2, <3>3
  <2> QED BY <1>3, <2>1, <2>2, <2>3
<1>9. h \in [0 .. n + m -> Int] BY <1>8
<1> HIDE DEF h
<1>10. h[0] = 0
  <2>1. 0 \in 0 .. n + m /\ 0 <= n BY <1>3
  <2> QED BY <1>4, <1>8, <2>1
<1>11. ASSUME NEW k \in 1 .. n + m PROVE h[k] = h[k - 1] + u[k]
  <2>1. k \in 0 .. n + m /\ k - 1 \in 0 .. n + m /\ k \in Int BY <1>3
  <2>2. CASE k <= n
    <3>1. k \in 1 .. n /\ k - 1 <= n BY <1>3, <2>1, <2>2
    <3>2. h[k] = f[k] /\ h[k - 1] = f[k - 1] BY <1>8, <2>1, <2>2, <3>1
    <3>3. f[k] = f[k - 1] + s[k] BY <1>4, <3>1
    <3>4. u[k] = s[k] BY <1>3, <2>2
    <3> QED BY <3>2, <3>3, <3>4
  <2>3. CASE ~(k <= n)
    <3>1. k >= n /\ k - 1 >= n /\ k - n \in 1 .. m /\ k - n - 1 \in 0 .. m /\ k - 1 - n = k - n - 1
      <4>1. \A a, b, i \in Int : a >= 0 /\ b >= 0 /\ 1 <= i /\ i <= a + b /\ ~(i <= a) =>
               i >= a /\ i - 1 >= a /\ i - a \in 1 .. b /\ i - a - 1 \in 0 .. b /\ i - 1 - a = i - a - 1
        OBVIOUS
      <4>2. n \in Int /\ m \in Int /\ n >= 0 /\ m >= 0 /\ 1 <= k /\ k <= n + m BY <1>3
      <4> QED BY <2>1, <2>3, <4>1, <4>2
    <3>2. h[k] = f[n] + g[k - n] /\ h[k - 1] = f[n] + g[k - n - 1]
      <4>1. h[k] = f[n] + g[k - n] BY <1>8, <2>1, <3>1
      <4>2. h[k - 1] = f[n] + g[k - 1 - n] BY <1>8, <2>1, <3>1
      <4> QED BY <3>1, <4>1, <4>2
    <3>3. g[k - n] = g[k - n - 1] + t[k - n] BY <1>5, <3>1
    <3>4. u[k] = t[k - n] BY <1>3, <2>3
    <3>5. g[k - n - 1] \in Int /\ t[k - n] \in Int BY <1>5, <1>6, <3>1
    <3>6. \A x, y, z \in Int : x + (y + z) = (x + y) + z OBVIOUS
    <3> QED BY <1>7, <3>2, <3>3, <3>4, <3>5, <3>6
  <2> QED BY <2>2, <2>3
<1>12. Sums(h, u) BY <1>3, <1>9, <1>10, <1>11 DEF Sums
<1>13. Total(u) = h[n + m] BY <1>3, <1>12, SumsEnd
<1>14. h[n + m] = f[n] + g[m]
  <2> DEFINE e == n + m
  <2>1. e \in 0 .. n + m /\ e >= n /\ e - n = m BY <1>3
  <2> HIDE DEF e
  <2>2. h[e] = f[n] + g[e - n] BY <1>8, <2>1
  <2>3. h[e] = f[n] + g[m] BY <2>1, <2>2
  <2> QED BY <2>3 DEF e
<1>15. Total(u) = Total(s) + Total(t) BY <1>1, <1>2, <1>13, <1>14 DEF n, m
<1> QED BY <1>3, <1>15 DEF u

-----------------------------------------------------------------------------
(* Words *)

Weights(bytes) == [i \in DOMAIN bytes |-> IF i % 2 = 1 THEN Word(bytes[i], 0) ELSE bytes[i]]

LEMMA WeightsFacts ==
    ASSUME NEW b \in Seq(Nat)
    PROVE  /\ Weights(b) \in Seq(Nat) /\ Len(Weights(b)) = Len(b) /\ WordSum(b) = Total(Weights(b))
           /\ \A i \in 1 .. Len(b) : /\ i % 2 = 1 => Weights(b)[i] = Radix * b[i]
                                     /\ i % 2 # 1 => Weights(b)[i] = b[i]
<1>1. Radix \in Nat BY WordFacts
<1>2. Len(b) \in Nat /\ DOMAIN b = 1 .. Len(b) /\ \A i \in 1 .. Len(b) : b[i] \in Nat OBVIOUS
<1>3. \A x \in Nat : Radix * x \in Nat /\ Radix * x + 0 = Radix * x BY <1>1
<1> DEFINE w == Weights(b)
<1>4. w = [i \in 1 .. Len(b) |-> IF i % 2 = 1 THEN Radix * b[i] + 0 ELSE b[i]] BY <1>2 DEF Weights, Word
<1> HIDE DEF w
<1>5. \A i \in 1 .. Len(b) : /\ i % 2 = 1 => w[i] = Radix * b[i]
                             /\ i % 2 # 1 => w[i] = b[i]
  BY <1>2, <1>3, <1>4
<1>6. \A i \in 1 .. Len(b) : w[i] \in Nat BY <1>2, <1>3, <1>5
<1>7. w \in [1 .. Len(b) -> Nat] BY <1>4, <1>6
<1>8. w \in Seq(Nat) /\ Len(w) = Len(b) BY <1>2, <1>7
<1>9. WordSum(b) = Total(w) BY DEF WordSum, Weights, w
<1> QED BY <1>5, <1>8, <1>9 DEF w

\* A place in the second of two lists.
LEMMA ConcatPlaces ==
    ASSUME NEW a \in Seq(Nat), NEW b \in Seq(Nat)
    PROVE  /\ a \o b \in Seq(Nat) /\ Len(a \o b) = Len(a) + Len(b) /\ Len(a) \in Nat /\ Len(b) \in Nat
           /\ \A k \in 1 .. Len(a) : (a \o b)[k] = a[k]
           /\ \A k \in 1 .. Len(b) : (a \o b)[Len(a) + k] = b[k]
<1> DEFINE n == Len(a)
           m == Len(b)
           c == a \o b
<1>1. /\ c \in Seq(Nat) /\ Len(c) = n + m /\ n \in Nat /\ m \in Nat
      /\ \A k \in 1 .. n + m : c[k] = IF k <= n THEN a[k] ELSE b[k - n]
  BY ConcatProperties
<1> HIDE DEF c, n, m
<1>2. \A k \in 1 .. n : c[k] = a[k] BY <1>1
<1>3. ASSUME NEW k \in 1 .. m PROVE c[n + k] = b[k]
  <2> DEFINE e == n + k
  <2>1. e \in 1 .. n + m /\ ~(e <= n) /\ e - n = k BY <1>1
  <2> HIDE DEF e
  <2>2. c[e] = b[e - n] BY <1>1, <2>1
  <2>3. c[e] = b[k] BY <2>1, <2>2
  <2> QED BY <2>3 DEF e
<1> QED BY <1>1, <1>2, <1>3 DEF c, n, m

LEMMA EvenPlaces == ASSUME NEW i \in Nat, NEW j \in Nat, i % 2 = 0 PROVE (i + j) % 2 = j % 2
OBVIOUS

\* Parts are added up word by word when the first is a whole number of words.
LEMMA WordSumConcat ==
    ASSUME NEW a \in Seq(Nat), NEW b \in Seq(Nat), Len(a) % 2 = 0
    PROVE  /\ a \o b \in Seq(Nat) /\ Len(a \o b) = Len(a) + Len(b)
           /\ WordSum(a \o b) = WordSum(a) + WordSum(b)
<1> DEFINE n == Len(a)
           m == Len(b)
           c == a \o b
           u == Weights(a)
           v == Weights(b)
           w == Weights(c)
           x == u \o v
<1>1. /\ c \in Seq(Nat) /\ Len(c) = n + m /\ n \in Nat /\ m \in Nat
      /\ \A k \in 1 .. n : c[k] = a[k]
      /\ \A k \in 1 .. m : c[n + k] = b[k]
  BY ConcatPlaces
<1>2. u \in Seq(Nat) /\ Len(u) = n /\ WordSum(a) = Total(u) BY WeightsFacts
<1>3. v \in Seq(Nat) /\ Len(v) = m /\ WordSum(b) = Total(v) BY WeightsFacts
<1> HIDE DEF c
<1>4. w \in Seq(Nat) /\ Len(w) = n + m /\ WordSum(c) = Total(w) BY <1>1, WeightsFacts
<1>5. \A i \in 1 .. n : (i % 2 = 1 => u[i] = Radix * a[i]) /\ (i % 2 # 1 => u[i] = a[i]) BY WeightsFacts
<1>6. \A i \in 1 .. m : (i % 2 = 1 => v[i] = Radix * b[i]) /\ (i % 2 # 1 => v[i] = b[i]) BY WeightsFacts
<1>7. \A i \in 1 .. n + m : (i % 2 = 1 => w[i] = Radix * c[i]) /\ (i % 2 # 1 => w[i] = c[i]) BY <1>1, WeightsFacts
<1>8. n % 2 = 0 OBVIOUS
<1> HIDE DEF u, v, w, n, m
<1>9. /\ x \in Seq(Nat) /\ Len(x) = n + m
      /\ \A k \in 1 .. n : x[k] = u[k]
      /\ \A k \in 1 .. m : x[n + k] = v[k]
  BY <1>2, <1>3, ConcatPlaces
<1> HIDE DEF x
<1>10. ASSUME NEW k \in 1 .. n PROVE w[k] = x[k]
  <2>1. k \in 1 .. n + m BY <1>1
  <2> QED BY <1>1, <1>5, <1>7, <1>9, <2>1
<1>11. ASSUME NEW k \in 1 .. m PROVE w[n + k] = x[n + k]
  <2>1. n + k \in 1 .. n + m /\ k \in Nat BY <1>1
  <2>2. (n + k) % 2 = k % 2 BY <1>1, <1>8, <2>1, EvenPlaces
  <2>3. c[n + k] = b[k] /\ x[n + k] = v[k] BY <1>1, <1>9
  <2> DEFINE e == n + k
  <2> HIDE DEF e
  <2>4. (e % 2 = 1 => w[e] = Radix * c[e]) /\ (e % 2 # 1 => w[e] = c[e]) BY <1>7, <2>1 DEF e
  <2>5. e % 2 = k % 2 /\ c[e] = b[k] /\ x[e] = v[k] BY <2>2, <2>3 DEF e
  <2>6. w[e] = x[e] BY <1>6, <2>4, <2>5
  <2> QED BY <2>6 DEF e
<1>12. w = x
  <2>1. ASSUME NEW k \in 1 .. n + m PROVE w[k] = x[k]
    <3>1. CASE k <= n
      <4>1. k \in 1 .. n BY <1>1, <3>1
      <4> QED BY <1>10, <4>1
    <3>2. CASE ~(k <= n)
      <4> DEFINE j == k - n
      <4>1. j \in 1 .. m /\ n + j = k BY <1>1, <3>2
      <4> HIDE DEF j
      <4>2. w[n + j] = x[n + j] BY <1>11, <4>1
      <4> QED BY <4>1, <4>2
    <3> QED BY <3>1, <3>2
  <2>2. w = [k \in 1 .. n + m |-> w[k]] /\ x = [k \in 1 .. n + m |-> x[k]] BY <1>4, <1>9
  <2> QED BY <2>1, <2>2
<1>13. Total(w) = Total(u) + Total(v) BY <1>2, <1>3, <1>12, TotalConcat DEF x
<1> QED BY <1>1, <1>2, <1>3, <1>4, <1>13 DEF c, n, m

\* Two bytes are a word.
LEMMA WordSumTwo ==
    ASSUME NEW x \in Nat, NEW y \in Nat, NEW b, b = <<x, y>>
    PROVE  b \in Seq(Nat) /\ Len(b) = 2 /\ WordSum(b) = Radix * x + y
<1>1. b \in Seq(Nat) /\ Len(b) = 2 /\ b[1] = x /\ b[2] = y OBVIOUS
<1> DEFINE w == Weights(b)
<1>2. /\ w \in Seq(Nat) /\ Len(w) = 2 /\ WordSum(b) = Total(w)
      /\ \A i \in 1 .. 2 : /\ i % 2 = 1 => w[i] = Radix * b[i]
                           /\ i % 2 # 1 => w[i] = b[i]
  BY <1>1, WeightsFacts
<1> HIDE DEF w
<1>3. 1 \in 1 .. 2 /\ 2 \in 1 .. 2 /\ 1 % 2 = 1 /\ 2 % 2 # 1 OBVIOUS
<1>4. w[1] = Radix * x /\ w[2] = y
  <2>1. w[1] = Radix * b[1] BY <1>2, <1>3
  <2>2. w[2] = b[2] BY <1>2, <1>3
  <2> QED BY <1>1, <2>1, <2>2
<1>5. PICK f : Sums(f, w) /\ Total(w) = f[Len(w)]
  <2>1. w \in Seq(Nat) BY <1>2
  <2> QED BY <2>1, TotalSums
<1>6. Sums(f, w) /\ Total(w) = f[2] BY <1>2, <1>5
<1>7. f[0] = 0 /\ \A k \in 1 .. 2 : f[k] = f[k - 1] + w[k] BY <1>2, <1>6 DEF Sums
<1>8. 1 - 1 = 0 /\ 2 - 1 = 1 OBVIOUS
<1>9. f[1] = f[0] + w[1] /\ f[2] = f[1] + w[2] BY <1>3, <1>7, <1>8
<1>10. Radix * x \in Nat BY WordFacts
<1>11. Total(w) = Radix * x + y BY <1>4, <1>6, <1>7, <1>9, <1>10
<1> QED BY <1>1, <1>2, <1>11

\* An odd last byte already counts as the high half of a word.
LEMMA WordSumPad ==
    ASSUME NEW b \in Seq(Nat), Len(b) % 2 # 0
    PROVE  Append(b, 0) \in Seq(Nat) /\ WordSum(Append(b, 0)) = WordSum(b)
<1> DEFINE n == Len(b)
           c == Append(b, 0)
           u == Weights(b)
           w == Weights(c)
<1>1. n \in Nat /\ c \in Seq(Nat) /\ Len(c) = n + 1 /\ c[n + 1] = 0 /\ \A k \in 1 .. n : c[k] = b[k] OBVIOUS
<1>2. u \in Seq(Nat) /\ Len(u) = n /\ WordSum(b) = Total(u) BY WeightsFacts
<1> HIDE DEF c
<1>3. w \in Seq(Nat) /\ Len(w) = n + 1 /\ WordSum(c) = Total(w) BY <1>1, WeightsFacts
<1>4. \A i \in 1 .. n : (i % 2 = 1 => u[i] = Radix * b[i]) /\ (i % 2 # 1 => u[i] = b[i]) BY WeightsFacts
<1>5. \A i \in 1 .. n + 1 : (i % 2 = 1 => w[i] = Radix * c[i]) /\ (i % 2 # 1 => w[i] = c[i]) BY <1>1, WeightsFacts
<1>6. (n + 1) % 2 # 1
  <2>1. n % 2 # 0 OBVIOUS
  <2> HIDE DEF n
  <2> QED BY <1>1, <2>1
<1> HIDE DEF u, w, n
<1>7. w[n + 1] = 0 BY <1>1, <1>5, <1>6
<1>8. \A k \in 1 .. n : w[k] = u[k]
  <2> TAKE k \in 1 .. n
  <2>1. k \in 1 .. n + 1 BY <1>1
  <2> QED BY <1>1, <1>4, <1>5, <2>1
<1>9. w = Append(u, 0)
  <2> DEFINE x == Append(u, 0)
  <2>1. x \in Seq(Nat) /\ Len(x) = n + 1 /\ x[n + 1] = 0 /\ \A k \in 1 .. n : x[k] = u[k] BY <1>1, <1>2
  <2> HIDE DEF x
  <2>2. \A k \in 1 .. n + 1 : w[k] = x[k]
    <3> TAKE k \in 1 .. n + 1
    <3>1. k = n + 1 \/ k \in 1 .. n BY <1>1
    <3> QED BY <1>7, <1>8, <2>1, <3>1
  <2>3. w = [k \in 1 .. n + 1 |-> w[k]] /\ x = [k \in 1 .. n + 1 |-> x[k]] BY <1>3, <2>1
  <2>4. w = x BY <2>2, <2>3
  <2> QED BY <2>4 DEF x
<1>10. Total(w) = Total(u) + 0 BY <1>2, <1>9, TotalAppend, 0 \in Nat
<1>11. Total(u) \in Nat BY <1>2, TotalNatural
<1> QED BY <1>1, <1>2, <1>3, <1>10, <1>11 DEF c

LEMMA WordSumNat == ASSUME NEW b \in Seq(Nat) PROVE WordSum(b) \in Nat
<1>1. Weights(b) \in Seq(Nat) /\ WordSum(b) = Total(Weights(b)) BY WeightsFacts
<1> QED BY <1>1, TotalNatural

LEMMA BytesAreNat == ASSUME NEW b \in Seq(0 .. Radix - 1) PROVE b \in Seq(Nat)
<1>1. Radix \in Nat BY WordFacts
<1> DEFINE B == 0 .. Radix - 1
<1>2. \A x \in B : x \in Nat BY <1>1
<1> HIDE DEF B
<1>3. b \in Seq(B) BY DEF B
<1>4. Len(b) \in Nat /\ b \in [1 .. Len(b) -> B] BY <1>3
<1>5. b \in [1 .. Len(b) -> Nat] BY <1>2, <1>4
<1> QED BY <1>4, <1>5

LEMMA BigEndianWord ==
    ASSUME NEW n \in Nat
    PROVE  BigEndian(n) \in Seq(Nat) /\ Len(BigEndian(n)) = 2 /\ WordSum(BigEndian(n)) = n
<1> DEFINE x == n \div Radix
           y == n % Radix
           b == <<x, y>>
<1>1. x \in Nat /\ y \in Nat /\ n = Radix * x + y BY WordFacts, Quotient
<1>2. BigEndian(n) = b BY DEF BigEndian
<1> HIDE DEF x, y
<1>3. b \in Seq(Nat) /\ Len(b) = 2 /\ WordSum(b) = Radix * x + y BY <1>1, WordSumTwo
<1> QED BY <1>1, <1>2, <1>3

\* The buffer the TCP check sums up, whatever padding it needs.
LEMMA TcpBufferSum ==
    ASSUME NEW s \in Hosts, NEW d \in Hosts, NEW g \in Seq(Nat)
    PROVE  WordSum(TcpBuffer(s, d, g)) = WordSum(s) + WordSum(d) + (6 % Radix) + Len(g) + WordSum(g)
<1> DEFINE six == 6 % Radix
           p1 == s \o d
           z == <<0, six>>
           p2 == p1 \o z
           e == BigEndian(Len(g))
           p3 == p2 \o e
           p4 == p3 \o g
<1>1. s \in Seq(Nat) /\ d \in Seq(Nat) /\ Len(s) % 2 = 0 /\ Len(d) % 2 = 0 BY ChecksumAssumption, BytesAreNat
<1>2. WordSum(s) \in Nat /\ WordSum(d) \in Nat /\ WordSum(g) \in Nat BY <1>1, WordSumNat
<1>3. six \in Nat /\ Len(g) \in Nat /\ Len(s) \in Nat /\ Len(d) \in Nat
  <2>1. 6 \in Nat /\ Radix \in Nat \ {0} BY WordFacts
  <2> QED BY <1>1, <2>1, Quotient
<1> HIDE DEF six
<1>4. z \in Seq(Nat) /\ Len(z) = 2 /\ WordSum(z) = six
  <2>1. z \in Seq(Nat) /\ Len(z) = 2 /\ WordSum(z) = Radix * 0 + six BY <1>3, 0 \in Nat, WordSumTwo
  <2>2. Radix * 0 = 0 BY WordFacts
  <2> QED BY <1>3, <2>1, <2>2
<1>5. e \in Seq(Nat) /\ Len(e) = 2 /\ WordSum(e) = Len(g) BY <1>3, BigEndianWord
<1> HIDE DEF z, e
<1>6. \A i, j \in Nat : i % 2 = 0 /\ j % 2 = 0 => (i + j) % 2 = 0 BY EvenPlaces
<1>7. \A i \in Nat : i % 2 = 0 => i + 2 \in Nat /\ (i + 2) % 2 = 0
  <2>1. 2 \in Nat /\ 2 % 2 = 0 OBVIOUS
  <2> QED BY <1>6, <2>1
<1>8. p1 \in Seq(Nat) /\ Len(p1) = Len(s) + Len(d) /\ WordSum(p1) = WordSum(s) + WordSum(d) BY <1>1, WordSumConcat
<1>9. Len(p1) \in Nat /\ Len(p1) % 2 = 0
  <2> DEFINE i == Len(s)
             j == Len(d)
  <2>1. i \in Nat /\ j \in Nat /\ i % 2 = 0 /\ j % 2 = 0 /\ Len(p1) = i + j BY <1>1, <1>3, <1>8
  <2> HIDE DEF i, j
  <2>2. (i + j) % 2 = 0 BY <1>6, <2>1
  <2> QED BY <2>1, <2>2
<1> HIDE DEF p1
<1>10. p2 \in Seq(Nat) /\ Len(p2) = Len(p1) + 2 /\ WordSum(p2) = WordSum(p1) + six
  BY <1>4, <1>8, <1>9, ZenonT(40), WordSumConcat
<1>11. Len(p2) \in Nat /\ Len(p2) % 2 = 0 BY <1>7, <1>9, <1>10
<1> HIDE DEF p2
<1>12. p3 \in Seq(Nat) /\ Len(p3) = Len(p2) + 2 /\ WordSum(p3) = WordSum(p2) + Len(g)
  BY <1>5, <1>10, <1>11, ZenonT(40), WordSumConcat
<1>13. Len(p3) \in Nat /\ Len(p3) % 2 = 0 BY <1>7, <1>11, <1>12
<1> HIDE DEF p3
<1>14. p4 \in Seq(Nat) /\ WordSum(p4) = WordSum(p3) + WordSum(g) BY <1>12, <1>13, WordSumConcat
<1> HIDE DEF p4
<1>15. TcpBuffer(s, d, g) = IF Len(p4) % 2 # 0 THEN Append(p4, 0) ELSE p4
  BY DEF TcpBuffer, p4, p3, p2, p1, z, e, six
<1>16. WordSum(TcpBuffer(s, d, g)) = WordSum(p4)
  <2>1. CASE Len(p4) % 2 # 0
    <3>1. WordSum(Append(p4, 0)) = WordSum(p4) BY <1>14, <2>1, WordSumPad
    <3> QED BY <1>15, <2>1, <3>1
  <2>2. CASE ~(Len(p4) % 2 # 0) BY <1>15, <2>2
  <2> QED BY <2>1, <2>2
<1>17. WordSum(p4) = WordSum(s) + WordSum(d) + six + Len(g) + WordSum(g) BY <1>8, <1>10, <1>12, <1>14
<1> QED BY <1>16, <1>17 DEF six

\* One byte of a list is changed.
LEMMA WordSumChanged ==
    ASSUME NEW b \in Seq(Nat), NEW i \in 1 .. Len(b), NEW x \in Nat
    PROVE  /\ [b EXCEPT ![i] = x] \in Seq(Nat) /\ Len([b EXCEPT ![i] = x]) = Len(b)
           /\ \A k \in 1 .. Len(b) : [b EXCEPT ![i] = x][k] = IF k = i THEN x ELSE b[k]
           /\ i % 2 = 1 => WordSum([b EXCEPT ![i] = x]) + Radix * b[i] = WordSum(b) + Radix * x
           /\ i % 2 # 1 => WordSum([b EXCEPT ![i] = x]) + b[i] = WordSum(b) + x
<1> DEFINE n == Len(b)
           c == [b EXCEPT ![i] = x]
           u == Weights(b)
           w == Weights(c)
<1>1. n \in Nat /\ b \in [1 .. n -> Nat] /\ i \in 1 .. n OBVIOUS
<1>2. c \in [1 .. n -> Nat] /\ \A k \in 1 .. n : c[k] = IF k = i THEN x ELSE b[k] BY <1>1
<1>3. c \in Seq(Nat) /\ Len(c) = n BY <1>1, <1>2
<1> HIDE DEF c
<1>4. u \in Seq(Nat) /\ Len(u) = n /\ WordSum(b) = Total(u) BY WeightsFacts
<1>5. w \in Seq(Nat) /\ Len(w) = n /\ WordSum(c) = Total(w) BY <1>3, WeightsFacts
<1>6. \A k \in 1 .. n : (k % 2 = 1 => u[k] = Radix * b[k]) /\ (k % 2 # 1 => u[k] = b[k]) BY WeightsFacts
<1>7. \A k \in 1 .. n : (k % 2 = 1 => w[k] = Radix * c[k]) /\ (k % 2 # 1 => w[k] = c[k]) BY <1>3, WeightsFacts
<1> HIDE DEF u, w, n
<1>8. \A k \in 1 .. n : k # i => w[k] = u[k] BY <1>2, <1>6, <1>7
<1>9. SameBut(u, w, i) BY <1>4, <1>5, <1>8 DEF SameBut
<1>10. Total(w) + u[i] = Total(u) + w[i] BY <1>1, <1>4, <1>5, <1>9, TotalChanged
<1>11. c[i] = x BY <1>1, <1>2
<1>12. i % 2 = 1 => u[i] = Radix * b[i] /\ w[i] = Radix * x BY <1>1, <1>6, <1>7, <1>11
<1>13. i % 2 # 1 => u[i] = b[i] /\ w[i] = x BY <1>1, <1>6, <1>7, <1>11
<1>14. i % 2 = 1 => WordSum(c) + Radix * b[i] = WordSum(b) + Radix * x BY <1>4, <1>5, <1>10, <1>12
<1>15. i % 2 # 1 => WordSum(c) + b[i] = WordSum(b) + x BY <1>4, <1>5, <1>10, <1>13
<1> QED BY <1>2, <1>3, <1>14, <1>15 DEF c, n

\* A segment with room for the field.
HasField(g) == g \in Seq(Nat) /\ Len(g) > CheckAt

\* The field counts as the word it holds.
LEMMA FieldSum ==
    ASSUME NEW g, HasField(g), NEW w \in Nat
    PROVE  /\ WithField(g, w) \in Seq(Nat) /\ Len(WithField(g, w)) = Len(g)
           /\ WordSum(WithField(g, w)) + Radix * g[CheckAt] + g[CheckAt + 1] = WordSum(g) + w
<1> DEFINE i == CheckAt
           j == CheckAt + 1
           x == w \div Radix
           y == w % Radix
           h == [g EXCEPT ![i] = x]
           e == [h EXCEPT ![j] = y]
<1>1. g \in Seq(Nat) /\ Len(g) \in Nat /\ i \in Nat /\ i # 0 /\ i % 2 = 1 /\ Len(g) > i
  BY ChecksumAssumption DEF HasField
<1>2. i \in 1 .. Len(g) /\ j \in 1 .. Len(g) /\ j # i BY <1>1
<1>3. j % 2 # 1
  <2>1. \A k \in Nat : k % 2 = 1 => (k + 1) % 2 # 1 OBVIOUS
  <2> QED BY <1>1, <2>1
<1>4. x \in Nat /\ y \in Nat /\ w = Radix * x + y BY WordFacts, Quotient
<1>5. WithField(g, w) = e
  <2>1. BigEndian(w)[1] = x /\ BigEndian(w)[2] = y BY DEF BigEndian
  <2> QED BY <2>1 DEF WithField
<1>6. i % 2 = 1 BY <1>1
<1> HIDE DEF i, j, x, y
<1>7. /\ h \in Seq(Nat) /\ Len(h) = Len(g) /\ \A k \in 1 .. Len(g) : h[k] = IF k = i THEN x ELSE g[k]
      /\ WordSum(h) + Radix * g[i] = WordSum(g) + Radix * x
  BY <1>1, <1>2, <1>4, <1>6, WordSumChanged
<1>8. h[j] = g[j] BY <1>2, <1>7
<1> HIDE DEF h
<1>9. /\ e \in Seq(Nat) /\ Len(e) = Len(h) /\ WordSum(e) + h[j] = WordSum(h) + y
  BY <1>2, <1>3, <1>4, <1>7, WordSumChanged
<1> HIDE DEF e
<1>10. WordSum(e) \in Nat /\ WordSum(h) \in Nat /\ WordSum(g) \in Nat BY <1>1, <1>7, <1>9, WordSumNat
<1>11. g[i] \in Nat /\ g[j] \in Nat BY <1>1, <1>2
<1>12. Radix * g[i] \in Nat /\ Radix * x \in Nat BY <1>4, <1>11, WordFacts
<1>13. WordSum(e) + Radix * g[i] + g[j] = WordSum(g) + w
  <2> DEFINE a == Radix * g[i]
             b == Radix * x
             we == WordSum(e)
             wh == WordSum(h)
             wg == WordSum(g)
             gj == g[j]
  <2>1. we + gj = wh + y /\ wh + a = wg + b /\ w = b + y /\ a \in Nat /\ b \in Nat /\ gj \in Nat /\ we \in Nat /\ wh \in Nat /\ wg \in Nat
    BY <1>4, <1>7, <1>8, <1>9, <1>10, <1>11, <1>12
  <2> HIDE DEF a, b, we, wh, wg, gj
  <2>2. we + a + gj = wg + w BY <1>4, <2>1
  <2> QED BY <2>2 DEF a, we, wg, gj
<1> QED BY <1>5, <1>7, <1>9, <1>13 DEF i, j

\* The loop's answer is the arithmetic's.
LEMMA FoldedChecks == ASSUME NEW sum \in Nat PROVE Folded[sum] = MaxWord <=> ChecksTo(sum)
<1> DEFINE m == MaxWord
<1>1. m \in Nat \ {0} BY WordFacts
<1>2. Reduces(sum, Folded[sum], m) BY FoldedReduces
<1> HIDE DEF m
<1> DEFINE q == sum \div m
           p == sum % m
<1>3. q \in Nat /\ p \in Nat /\ p < m /\ sum = m * q + p BY <1>1, Quotient
<1>4. ChecksTo(sum) <=> sum # 0 /\ p = 0 BY DEF ChecksTo, m
<1> HIDE DEF q, p
<1>5. ASSUME sum # 0, p = 0 PROVE Folded[sum] = m
  <2>1. sum = m * q BY <1>1, <1>3, <1>5
  <2>2. q >= 1
    <3>1. CASE q = 0
      <4>1. m * q = 0 BY <1>1, <3>1
      <4> QED BY <1>5, <2>1, <4>1
    <3> QED BY <1>3, <3>1
  <2>3. q - 1 \in Nat /\ m * q = m + (q - 1) * m BY <1>1, <1>3, <2>2
  <2>4. \E k \in Nat : sum = m + k * m BY <2>1, <2>3
  <2>5. Reduces(sum, m, m) BY <1>1, <1>5, <2>4 DEF Reduces
  <2> QED BY <1>1, <1>2, <2>5, ReducesOnce
<1>6. ASSUME Folded[sum] = m PROVE sum # 0 /\ p = 0
  <2>1. PICK k \in Nat : sum = m + k * m BY <1>2, <1>6 DEF Reduces
  <2>2. sum # 0 BY <1>1, <1>2, <1>6 DEF Reduces
  <2> DEFINE l == k + 1 - q
  <2>3. l \in Int /\ p = l * m BY <1>1, <1>3, <2>1
  <2> HIDE DEF l
  <2>4. ~(l >= 1) BY <1>1, <1>3, <2>3, Multiples
  <2>5. l * m <= 0 BY <1>1, <2>3, <2>4, Multiples
  <2> QED BY <1>3, <2>2, <2>3, <2>5
<1> QED BY <1>4, <1>5, <1>6 DEF m

\* What a sender adds to an unempty sum, and what else is taken for it.
LEMMA ComplementChecks ==
    ASSUME NEW sum \in Nat \ {0}, NEW w \in 0 .. MaxWord, NEW c, c = Complement(sum)
    PROVE  /\ c \in 0 .. MaxWord /\ c # MaxWord
           /\ Folded[sum + w] = MaxWord <=> w = c \/ (c = 0 /\ w = MaxWord)
<1> DEFINE m == MaxWord
           r == Folded[sum]
           t == sum + w
<1>1. m \in Nat \ {0} BY WordFacts
<1>2. Reduces(sum, r, m) BY FoldedReduces
<1>3. w \in Nat /\ w <= m /\ t \in Nat /\ t # 0 BY <1>1
<1>4. Reduces(t, Folded[t], m) BY <1>3, FoldedReduces
<1>5. c = m - r BY DEF Complement
<1> HIDE DEF m, r
<1>6. r \in Nat /\ r <= m /\ r # 0 BY <1>1, <1>2 DEF Reduces
<1>7. PICK k \in Nat : sum = r + k * m BY <1>2 DEF Reduces
<1>8. k * m \in Nat BY <1>1, Multiples
<1>9. ASSUME w = c PROVE Folded[t] = m
  <2>1. t = m + k * m
    <3> DEFINE x == k * m
    <3>1. x \in Nat /\ sum = r + x BY <1>7, <1>8
    <3> HIDE DEF x
    <3>2. t = m + x BY <1>1, <1>5, <1>6, <1>9, <3>1
    <3> QED BY <3>2 DEF x
  <2> HIDE DEF t
  <2>2. Reduces(t, m, m) BY <1>1, <1>3, <2>1 DEF Reduces
  <2> QED BY <1>1, <1>3, <1>4, <2>2, ReducesOnce
<1>10. ASSUME c = 0, w = m PROVE Folded[t] = m
  <2>1. k + 1 \in Nat /\ k * m + m = (k + 1) * m BY <1>1
  <2>2. t = m + (k + 1) * m
    <3> DEFINE x == k * m
               y == (k + 1) * m
    <3>1. x \in Nat /\ sum = r + x /\ y = x + m BY <1>7, <1>8, <2>1
    <3> HIDE DEF x, y
    <3>2. t = m + y BY <1>1, <1>5, <1>6, <1>10, <3>1
    <3> QED BY <3>2 DEF y
  <2>3. \E l \in Nat : t = m + l * m BY <2>1, <2>2
  <2> HIDE DEF t
  <2>4. Reduces(t, m, m) BY <1>1, <1>3, <2>3 DEF Reduces
  <2> QED BY <1>1, <1>3, <1>4, <2>4, ReducesOnce
<1>11. ASSUME Folded[t] = m PROVE w = c \/ (c = 0 /\ w = m)
  <2> HIDE DEF t
  <2>1. PICK j \in Nat : t = m + j * m BY <1>4, <1>11 DEF Reduces
  <2> DEFINE l == j + 1 - k
             x == k * m
             y == j * m
             z == l * m
  <2>2. l \in Int /\ z = y + m - x /\ y \in Nat /\ x \in Nat /\ sum = r + x /\ t = m + y /\ t = sum + w
    BY <1>1, <1>7, <2>1 DEF t
  <2>3. z \in Int BY <1>1, <2>2, Multiples
  <2>4. /\ l <= 0 => z <= 0
        /\ l >= 3 => z >= 3 * m
        /\ l = 1 => z = m
        /\ l = 2 => z = 2 * m
    BY <1>1, <2>2, Multiples
  <2> HIDE DEF l, x, y, z
  <2>5. z = r + w BY <1>1, <1>3, <1>6, <2>2, <2>3
  <2>6. z > 0 /\ z < 3 * m BY <1>1, <1>3, <1>6, <2>5
  <2>7. ~(l <= 0) /\ ~(l >= 3)
    <3>1. ~(l <= 0) BY <2>3, <2>4, <2>6
    <3>2. ~(l >= 3) BY <1>1, <2>3, <2>4, <2>6
    <3> QED BY <3>1, <3>2
  <2>8. l = 1 \/ l = 2 BY <2>2, <2>7
  <2>9. r + w = m \/ r + w = 2 * m BY <2>4, <2>5, <2>8
  <2> QED BY <1>1, <1>3, <1>5, <1>6, <2>9
<1>12. c \in 0 .. m /\ c # m BY <1>1, <1>5, <1>6
<1> HIDE DEF t
<1>13. Folded[t] = m <=> w = c \/ (c = 0 /\ w = m) BY <1>9, <1>10, <1>11
<1> QED BY <1>12, <1>13 DEF m, t

LEMMA TcpFieldSum ==
    ASSUME NEW s \in Hosts, NEW d \in Hosts, NEW g, HasField(g), NEW w \in Nat
    PROVE  /\ WordSum(TcpBuffer(s, d, WithField(g, 0))) \in Nat \ {0}
           /\ WordSum(TcpBuffer(s, d, WithField(g, w))) = WordSum(TcpBuffer(s, d, WithField(g, 0))) + w
           /\ UdpSum(s, d, WithField(g, 0)) \in Nat \ {0}
           /\ UdpSum(s, d, WithField(g, w)) = UdpSum(s, d, WithField(g, 0)) + w
<1> DEFINE e == WithField(g, w)
           z == WithField(g, 0)
           i == CheckAt
           j == CheckAt + 1
           six == 6 % Radix
           seventeen == 17 % Radix
           a == Radix * g[i]
           b == g[j]
           n == Len(g)
           ws == WordSum(s)
           wd == WordSum(d)
           we == WordSum(e)
           wz == WordSum(z)
           wg == WordSum(g)
<1>1. g \in Seq(Nat) /\ n \in Nat /\ n # 0 /\ i \in 1 .. n /\ j \in 1 .. n
  <2>1. g \in Seq(Nat) /\ n \in Nat /\ i \in Nat /\ i # 0 /\ n > i BY ChecksumAssumption DEF HasField
  <2> HIDE DEF n
  <2> QED BY <2>1
<1>2. e \in Seq(Nat) /\ Len(e) = n /\ we + a + b = wg + w BY FieldSum
<1>3. z \in Seq(Nat) /\ Len(z) = n /\ wz + a + b = wg + 0 BY FieldSum, 0 \in Nat
<1>4. s \in Seq(Nat) /\ d \in Seq(Nat) BY ChecksumAssumption, BytesAreNat
<1>5. ws \in Nat /\ wd \in Nat /\ we \in Nat /\ wz \in Nat /\ wg \in Nat BY <1>1, <1>2, <1>3, <1>4, WordSumNat
<1>6. a \in Nat /\ b \in Nat BY <1>1, WordFacts
<1>7. six \in Nat /\ seventeen \in Nat
  <2>1. 6 \in Nat /\ 17 \in Nat /\ Radix \in Nat \ {0} BY WordFacts
  <2> QED BY <2>1, Quotient
<1>8. WordSum(TcpBuffer(s, d, e)) = ws + wd + six + n + we BY <1>2, TcpBufferSum
<1>9. WordSum(TcpBuffer(s, d, z)) = ws + wd + six + n + wz BY <1>3, TcpBufferSum
<1>10. UdpSum(s, d, e) = ws + wd + seventeen + n + we BY <1>2 DEF UdpSum
<1>11. UdpSum(s, d, z) = ws + wd + seventeen + n + wz BY <1>3 DEF UdpSum
<1> HIDE DEF e, z, a, b, n, ws, wd, we, wz, wg, six, seventeen
<1>12. we = wz + w BY <1>2, <1>3, <1>5, <1>6
<1>13. /\ ws + wd + six + n + wz \in Nat \ {0}
       /\ ws + wd + six + n + we = (ws + wd + six + n + wz) + w
       /\ ws + wd + seventeen + n + wz \in Nat \ {0}
       /\ ws + wd + seventeen + n + we = (ws + wd + seventeen + n + wz) + w
  BY <1>1, <1>5, <1>7, <1>12
<1> QED BY <1>8, <1>9, <1>10, <1>11, <1>13 DEF e, z

\* For segments of any length, even or odd, and any number of byte values: the
\* three validations fold their sums to what the checksum's arithmetic says,
\* and take exactly the field a sender computes (ipv4.rs, tcp.rs, udp.rs).
THEOREM SegmentsCheckedExactly == ASSUME NEW segment \in Segments PROVE ChecksumsHold(segment)
<1> DEFINE g == segment
           m == MaxWord
<1>1. HasField(g)
  <2>1. g \in Seq(0 .. Radix - 1) /\ Len(g) > CheckAt BY ChecksumAssumption
  <2> QED BY <2>1, BytesAreNat DEF HasField
<1>2. g \in Seq(Nat) /\ WordSum(g) \in Nat BY <1>1, WordSumNat DEF HasField
<1>3. m \in Nat \ {0} BY WordFacts
<1>4. ASSUME NEW s \in Hosts, NEW d \in Hosts
      PROVE  LET empty == WithField(g, 0)
                 tcp == Complement(WordSum(TcpBuffer(s, d, empty)))
                 udp == Complement(UdpSum(s, d, empty))
             IN  /\ Ipv4Valid(g) <=> ChecksTo(WordSum(g))
                 /\ TcpValid(s, d, g) <=> ChecksTo(WordSum(TcpBuffer(s, d, g)))
                 /\ WordSum(TcpBuffer(s, d, g)) + (17 % Radix) = UdpSum(s, d, g) + (6 % Radix)
                 /\ UdpValid(s, d, WithField(g, IF udp = 0 THEN MaxWord ELSE udp))
                 /\ \A word \in 0 .. MaxWord : TcpValid(s, d, WithField(g, word)) <=>
                       word = tcp \/ {word, tcp} = {0, MaxWord}
  <2> DEFINE T(w) == WordSum(TcpBuffer(s, d, WithField(g, w)))
             U(w) == UdpSum(s, d, WithField(g, w))
             tcp == Complement(T(0))
             udp == Complement(U(0))
             put == IF udp = 0 THEN MaxWord ELSE udp
             b == WordSum(TcpBuffer(s, d, g))
  <2>1. \A w \in Nat : T(0) \in Nat \ {0} /\ T(w) = T(0) + w /\ U(0) \in Nat \ {0} /\ U(w) = U(0) + w
    BY <1>1, TcpFieldSum
  <2>2. Ipv4Valid(g) <=> ChecksTo(WordSum(g)) BY <1>2, FoldedChecks DEF Ipv4Valid
  <2>3. b = WordSum(s) + WordSum(d) + (6 % Radix) + Len(g) + WordSum(g) BY <1>2, TcpBufferSum
  <2>4. /\ WordSum(s) \in Nat /\ WordSum(d) \in Nat /\ 6 % Radix \in Nat /\ 17 % Radix \in Nat /\ Len(g) \in Nat
    <3>1. s \in Seq(Nat) /\ d \in Seq(Nat) BY ChecksumAssumption, BytesAreNat
    <3>2. WordSum(s) \in Nat /\ WordSum(d) \in Nat BY <3>1, WordSumNat
    <3>3. 6 \in Nat /\ 17 \in Nat /\ Radix \in Nat \ {0} BY WordFacts
    <3>4. 6 % Radix \in Nat /\ 17 % Radix \in Nat BY <3>3, Quotient
    <3> QED BY <1>2, <3>2, <3>4
  <2>5. b \in Nat /\ b + (17 % Radix) = UdpSum(s, d, g) + (6 % Radix)
    <3> DEFINE x == WordSum(s)
               y == WordSum(d)
               k == Len(g)
               z == WordSum(g)
               p == 6 % Radix
               q == 17 % Radix
    <3>1. UdpSum(s, d, g) = x + y + q + k + z BY DEF UdpSum
    <3>2. b = x + y + p + k + z BY <2>3
    <3>3. x \in Nat /\ y \in Nat /\ k \in Nat /\ z \in Nat /\ p \in Nat /\ q \in Nat BY <1>2, <2>4
    <3> HIDE DEF x, y, k, z, p, q, b
    <3>4. b \in Nat /\ b + q = UdpSum(s, d, g) + p BY <3>1, <3>2, <3>3
    <3> QED BY <3>4 DEF p, q
  <2>6. TcpValid(s, d, g) <=> ChecksTo(b)
    <3>1. TcpValid(s, d, g) <=> Folded[b] = MaxWord BY DEF TcpValid
    <3> HIDE DEF b
    <3> QED BY <2>5, <3>1, FoldedChecks
  <2>7. T(0) \in Nat \ {0} /\ U(0) \in Nat \ {0} BY <2>1, 0 \in Nat
  <2>8. UdpValid(s, d, WithField(g, put))
    <3> DEFINE u == U(0)
    <3>1. 0 \in 0 .. MaxWord BY <1>3
    <3>2. udp = Complement(u) /\ u \in Nat \ {0} BY <2>7
    <3> HIDE DEF u
    <3>3. udp \in 0 .. MaxWord BY <3>1, <3>2, ComplementChecks
    <3>4. put \in 0 .. MaxWord /\ (put = udp \/ (udp = 0 /\ put = MaxWord)) BY <1>3, <3>3
    <3> HIDE DEF udp, put
    <3>5. Folded[u + put] = MaxWord BY <3>2, <3>4, ComplementChecks
    <3>6. put \in Nat BY <1>3, <3>4
    <3>7. UdpSum(s, d, WithField(g, put)) = u + put BY <2>1, <3>6 DEF u
    <3> QED BY <3>5, <3>7 DEF UdpValid
  <2>9. ASSUME NEW word \in 0 .. MaxWord
        PROVE  TcpValid(s, d, WithField(g, word)) <=> word = tcp \/ {word, tcp} = {0, MaxWord}
    <3> DEFINE t == T(0)
    <3>1. tcp = Complement(t) /\ t \in Nat \ {0} BY <2>7
    <3>2. word \in Nat BY <1>3
    <3>3. WordSum(TcpBuffer(s, d, WithField(g, word))) = t + word BY <2>1, <3>2
    <3> HIDE DEF t, tcp
    <3>4. /\ tcp \in 0 .. MaxWord /\ tcp # MaxWord
          /\ Folded[t + word] = MaxWord <=> word = tcp \/ (tcp = 0 /\ word = MaxWord)
      BY <3>1, ComplementChecks
    <3>5. {word, tcp} = {0, MaxWord} <=> (tcp = 0 /\ word = MaxWord)
      <4>1. ASSUME {word, tcp} = {0, MaxWord} PROVE tcp = 0 /\ word = MaxWord
        <5>1. tcp \in {0, MaxWord} /\ MaxWord \in {word, tcp} BY <4>1
        <5> QED BY <3>4, <5>1
      <4> QED BY <4>1
    <3> QED BY <3>3, <3>4, <3>5 DEF TcpValid
  <2> HIDE DEF b
  <2> QED BY <2>2, <2>5, <2>6, <2>8, <2>9 DEF b
<1> QED BY <1>4 DEF ChecksumsHold

-----------------------------------------------------------------------------
(* The frames and segments that are parsed                                 *)

\* The parts a frame is built from.
Tags(types) == types \in Seq(Types) /\ types # <<>> /\ \A i \in 1 .. Len(types) - 1 : types[i] = "vlan"

Chain(chain) == chain \in Seq([type : Types, size : Nat, first : BOOLEAN]) /\ chain # <<>>

LEMMA FrameBuilt ==
    ASSUME NEW len \in Nat, NEW types, Tags(types), NEW version \in Nat, NEW ihl \in Nat, NEW total \in Nat,
           NEW offset \in Nat, NEW chain, Chain(chain), NEW words \in Nat, NEW ulen \in Nat, NEW arp \in BOOLEAN
    PROVE  Frame(len, types, version, ihl, total, offset, chain, words, ulen, arp) \in Frames
BY DEF Frame, Frames, Tags, Chain

LEMMA TagLists ==
    /\ \A ty \in Types : Tags(<<ty>>)
    /\ Tags(<<"vlan", "ip4">>)
    /\ Tags(<<"vlan", "vlan", "vlan", "vlan", "vlan", "ip4">>)
<1>1. ASSUME NEW ty \in Types PROVE Tags(<<ty>>)
  <2>1. <<ty>> \in Seq(Types) /\ <<ty>> # <<>> /\ Len(<<ty>>) = 1 OBVIOUS
  <2> QED BY <2>1 DEF Tags
<1>2. "vlan" \in Types /\ "ip4" \in Types BY DEF Types
<1>3. Tags(<<"vlan", "ip4">>)
  <2> DEFINE s == <<"vlan", "ip4">>
  <2>1. s \in Seq(Types) /\ Len(s) = 2 /\ s[1] = "vlan" BY <1>2
  <2> HIDE DEF s
  <2>2. s # <<>> /\ \A i \in 1 .. Len(s) - 1 : s[i] = "vlan" BY <2>1
  <2>3. Tags(s) BY <2>1, <2>2 DEF Tags
  <2> QED BY <2>3 DEF s
<1>4. Tags(<<"vlan", "vlan", "vlan", "vlan", "vlan", "ip4">>)
  <2> DEFINE s == <<"vlan", "vlan", "vlan", "vlan", "vlan", "ip4">>
  <2>1. s \in Seq(Types) /\ Len(s) = 6 BY <1>2
  <2>2. s[1] = "vlan" /\ s[2] = "vlan" /\ s[3] = "vlan" /\ s[4] = "vlan" /\ s[5] = "vlan" OBVIOUS
  <2> HIDE DEF s
  <2>3. s # <<>> /\ \A i \in 1 .. Len(s) - 1 : s[i] = "vlan" BY <2>1, <2>2
  <2>4. Tags(s) BY <2>1, <2>3 DEF Tags
  <2> QED BY <2>4 DEF s
<1> QED BY <1>1, <1>3, <1>4

LEMMA HeaderLists ==
    /\ \A ty \in Types : Plain(ty) \in [type : Types, size : Nat, first : BOOLEAN] /\ Chain(<<Plain(ty)>>)
    /\ Extensions \subseteq Seq([type : Types, size : Nat, first : BOOLEAN])
<1> DEFINE H == [type : Types, size : Nat, first : BOOLEAN]
<1>1. \A ty \in Types, n \in Nat, b \in BOOLEAN : Header(ty, n, b) \in H BY DEF Header
<1>2. \A ty \in Types : Plain(ty) \in H BY <1>1 DEF Plain
<1>3. "options" \in Types /\ "auth" \in Types /\ "fragment" \in Types /\ "esp" \in Types BY DEF Types
<1>4. /\ Header("options", 8, TRUE) \in H /\ Header("options", 24, TRUE) \in H /\ Header("auth", 12, TRUE) \in H
      /\ Header("fragment", 8, TRUE) \in H /\ Header("fragment", 8, FALSE) \in H /\ Header("esp", 8, TRUE) \in H
  BY <1>1, <1>3
<1> HIDE DEF H
<1>5. \A h \in H : <<h>> \in Seq(H) /\ <<h>> # <<>> OBVIOUS
<1>6. <<>> \in Seq(H) OBVIOUS
<1>7. Extensions \subseteq Seq(H) BY <1>4, <1>5, <1>6 DEF Extensions
<1> QED BY <1>2, <1>5, <1>7 DEF H, Chain

LEMMA Ipv4Built == Ipv4Frames \subseteq Frames
<1>1. ASSUME NEW len \in {13, 14, 34, 42, 54, 58, 80},
             NEW types \in {<<"ip4">>, <<"vlan", "ip4">>, <<"vlan", "vlan", "vlan", "vlan", "vlan", "ip4">>},
             NEW ihl \in {4, 5, 6}, NEW total \in {19, 20, 28, 40, 44}, NEW offset \in {0, 1},
             NEW type \in {"tcp", "udp", "icmp", "other"}, NEW fit \in {-1, 0, 1}
      PROVE  Frame(len, types, 4, ihl, total, offset, <<Plain(type)>>, 5 + fit, 8 + fit, TRUE) \in Frames
  <2>1. /\ len \in Nat /\ ihl \in Nat /\ total \in Nat /\ offset \in Nat /\ 5 + fit \in Nat /\ 8 + fit \in Nat
        /\ 4 \in Nat /\ TRUE \in BOOLEAN
    OBVIOUS
  <2>2. type \in Types /\ "ip4" \in Types BY DEF Types
  <2>3. Tags(types) BY <2>2, TagLists
  <2>4. Chain(<<Plain(type)>>) BY <2>2, HeaderLists
  <2> DEFINE chain == <<Plain(type)>>
             words == 5 + fit
             ulen == 8 + fit
  <2>5. Chain(chain) /\ words \in Nat /\ ulen \in Nat BY <2>1, <2>4
  <2> HIDE DEF chain, words, ulen
  <2>6. Frame(len, types, 4, ihl, total, offset, chain, words, ulen, TRUE) \in Frames
    BY <2>1, <2>3, <2>5, ZenonT(60), FrameBuilt
  <2> QED BY <2>6 DEF chain, words, ulen
<1> DEFINE A == {13, 14, 34, 42, 54, 58, 80}
           B == {<<"ip4">>, <<"vlan", "ip4">>, <<"vlan", "vlan", "vlan", "vlan", "vlan", "ip4">>}
           C == {4, 5, 6}
           D == {19, 20, 28, 40, 44}
           E == {0, 1}
           F == {"tcp", "udp", "icmp", "other"}
           G == {-1, 0, 1}
           Made(len, types, ihl, total, offset, type, fit) ==
               Frame(len, types, 4, ihl, total, offset, <<Plain(type)>>, 5 + fit, 8 + fit, TRUE)
<1>2. \A len \in A, types \in B, ihl \in C, total \in D, offset \in E, type \in F, fit \in G :
         Made(len, types, ihl, total, offset, type, fit) \in Frames
  BY <1>1
<1>3. Ipv4Frames = {Made(len, types, ihl, total, offset, type, fit) :
                       len \in A, types \in B, ihl \in C, total \in D, offset \in E, type \in F, fit \in G}
  BY DEF Ipv4Frames
<1> HIDE DEF A, B, C, D, E, F, G, Made
<1> QED BY <1>2, <1>3

LEMMA ArpBuilt == ArpFrames \subseteq Frames
<1> SUFFICES ASSUME NEW f \in ArpFrames PROVE f \in Frames OBVIOUS
<1>1. PICK len \in {14, 41, 42, 60}, arp \in BOOLEAN :
             f = Frame(len, <<"arp">>, 0, 0, 0, 0, <<Plain("other")>>, 0, 0, arp)
  BY DEF ArpFrames
<1>2. len \in Nat /\ 0 \in Nat OBVIOUS
<1>3. "arp" \in Types /\ "other" \in Types BY DEF Types
<1>4. Tags(<<"arp">>) BY <1>3, TagLists
<1>5. Chain(<<Plain("other")>>) BY <1>3, HeaderLists
<1> QED BY <1>1, <1>2, <1>4, <1>5, FrameBuilt

LEMMA Ipv6One ==
    ASSUME NEW len \in Nat, NEW total \in Nat, NEW chain, Chain(chain)
    PROVE  Frame(len, <<"ip6">>, 6, 0, total, 0, chain, 5, 8, TRUE) \in Frames
<1>1. 0 \in Nat /\ 5 \in Nat /\ 6 \in Nat /\ 8 \in Nat /\ TRUE \in BOOLEAN OBVIOUS
<1>2. "ip6" \in Types BY DEF Types
<1>3. Tags(<<"ip6">>) BY <1>2, TagLists
<1> QED BY <1>1, <1>3, FrameBuilt

LEMMA Ipv6Chains ==
    ASSUME NEW outer \in Extensions, NEW inner \in Extensions, NEW type \in {"tcp", "udp", "icmp"}
    PROVE  Chain(outer \o inner \o <<Plain(type)>>)
<1> DEFINE H == [type : Types, size : Nat, first : BOOLEAN]
           h == Plain(type)
           a == outer \o inner
           b == <<h>>
           c == a \o b
<1>1. type \in Types BY DEF Types
<1>2. outer \in Seq(H) /\ inner \in Seq(H) /\ h \in H BY <1>1, HeaderLists
<1> HIDE DEF H, h
<1>3. b \in Seq(H) /\ Len(b) = 1 BY <1>2
<1>4. a \in Seq(H) /\ Len(a) \in Nat BY <1>2
<1> HIDE DEF a, b
<1>5. c \in Seq(H) /\ Len(c) = Len(a) + 1 BY <1>3, <1>4, ConcatProperties
<1> HIDE DEF c
<1>6. c # <<>> BY <1>4, <1>5
<1>7. Chain(c) BY <1>5, <1>6 DEF Chain, H
<1> QED BY <1>7 DEF c, a, b, h

LEMMA Ipv6Built == Ipv6Frames \subseteq Frames
<1> DEFINE A == {53, 62, 90, 120}
           B == {1, 8, 16, 28, 66}
           C == {"tcp", "udp", "icmp"}
           All(outer, inner, type) == outer \o inner \o <<Plain(type)>>
           Made(len, total, outer, inner, type) == Frame(len, <<"ip6">>, 6, 0, total, 0, All(outer, inner, type), 5, 8, TRUE)
<1>1. \A outer \in Extensions, inner \in Extensions, type \in C : Chain(All(outer, inner, type)) BY Ipv6Chains
<1>2. (\A len \in A : len \in Nat) /\ (\A total \in B : total \in Nat) OBVIOUS
<1>3. Ipv6Frames = {Made(len, total, outer, inner, type) :
                       len \in A, total \in B, outer \in Extensions, inner \in Extensions, type \in C}
  BY DEF Ipv6Frames
<1> HIDE DEF A, B, C, All
<1>4. \A len \in A, total \in B, outer \in Extensions, inner \in Extensions, type \in C :
         Made(len, total, outer, inner, type) \in Frames
  BY <1>1, <1>2, Ipv6One
<1> HIDE DEF Made
<1> QED BY <1>3, <1>4

LEMMA LongBuilt == LongChain \subseteq Frames
<1> SUFFICES ASSUME NEW f \in LongChain PROVE f \in Frames OBVIOUS
<1> DEFINE H == [type : Types, size : Nat, first : BOOLEAN]
<1>1. PICK n \in 15 .. 19 :
         f = Frame(54 + 8 * n, <<"ip6">>, 6, 0, 8 * n, 0,
                   [i \in 1 .. n |-> IF i = n THEN Plain("udp") ELSE Header("options", 8, TRUE)], 5, 8, TRUE)
  BY DEF LongChain
<1> DEFINE chain == [i \in 1 .. n |-> IF i = n THEN Plain("udp") ELSE Header("options", 8, TRUE)]
           x == 54 + 8 * n
           y == 8 * n
<1>2. x \in Nat /\ y \in Nat /\ n \in Nat /\ n # 0 OBVIOUS
<1>3. "udp" \in Types /\ "options" \in Types BY DEF Types
<1>4. Plain("udp") \in H /\ Header("options", 8, TRUE) \in H BY <1>3 DEF Plain, Header
<1>5. Chain(chain)
  <2> HIDE DEF H
  <2>1. chain \in [1 .. n -> H] BY <1>4
  <2> HIDE DEF chain
  <2>2. chain \in Seq(H) /\ Len(chain) = n BY <1>2, <2>1
  <2>3. chain # <<>> BY <1>2, <2>2
  <2> QED BY <2>2, <2>3 DEF Chain, H
<1>6. f = Frame(x, <<"ip6">>, 6, 0, y, 0, chain, 5, 8, TRUE) BY <1>1
<1> HIDE DEF chain, x, y
<1> QED BY <1>2, <1>5, <1>6, Ipv6One

LEMMA OddBuilt == OddFrames \subseteq Frames
<1> DEFINE u == UdpFrame
<1>1. "ip4" \in Types /\ "ip6" \in Types /\ "other" \in Types /\ "udp" \in Types BY DEF Types
<1>2. Tags(<<"ip4">>) /\ Tags(<<"ip6">>) /\ Tags(<<"other">>) BY <1>1, TagLists
<1>3. Chain(<<Plain("udp")>>) BY <1>1, HeaderLists
<1>4. 0 \in Nat /\ 4 \in Nat /\ 5 \in Nat /\ 6 \in Nat /\ 8 \in Nat /\ 28 \in Nat /\ 42 \in Nat /\ 90 \in Nat /\ TRUE \in BOOLEAN
  OBVIOUS
<1>5. u \in Frames BY <1>2, <1>3, <1>4, FrameBuilt DEF UdpFrame
<1>6. OddFrames = {[u EXCEPT !.version = 6], [u EXCEPT !.types = <<"other">>],
                   [u EXCEPT !.len = 0], [u EXCEPT !.types = <<"ip6">>, !.len = 90]}
  BY DEF OddFrames
<1> HIDE DEF u
<1>7. ASSUME NEW types, Tags(types) PROVE [u EXCEPT !.types = types] \in Frames BY <1>5, <1>7 DEF Frames, Tags
<1>8. ASSUME NEW f \in Frames, NEW n \in Nat PROVE [f EXCEPT !.len = n] \in Frames BY DEF Frames
<1>9. [u EXCEPT !.version = 6] \in Frames BY <1>4, <1>5 DEF Frames
<1>10. [u EXCEPT !.types = <<"other">>] \in Frames /\ [u EXCEPT !.types = <<"ip6">>] \in Frames BY <1>2, <1>7
<1>11. [u EXCEPT !.types = <<"ip6">>, !.len = 90] \in Frames
  <2> DEFINE v == [u EXCEPT !.types = <<"ip6">>]
  <2>1. [v EXCEPT !.len = 90] \in Frames BY <1>4, <1>8, <1>10
  <2>2. [u EXCEPT !.types = <<"ip6">>, !.len = 90] = [v EXCEPT !.len = 90] BY <1>5 DEF Frames
  <2> QED BY <2>1, <2>2
<1>12. [u EXCEPT !.len = 0] \in Frames BY <1>4, <1>5, <1>8
<1> QED BY <1>6, <1>9, <1>10, <1>11, <1>12

LEMMA FramesBuilt == MCFrames \subseteq Frames
<1>1. {o.frame : o \in Observations} \subseteq Frames BY TrackingAssumption
<1> QED BY <1>1, Ipv4Built, ArpBuilt, Ipv6Built, LongBuilt, OddBuilt DEF MCFrames

\* No input makes a parser read past it, report what is not in it or refuse what
\* is well-formed, and checksums are accepted as the arithmetic says (ParserSafe).
THEOREM ParserAlwaysSafe == Spec => []ParserSafe
<1> DEFINE Given == /\ scenario = "frames" => input \in MCFrames
                    /\ scenario = "segments" => input \in Segments
<1>1. Init => Given BY DEF Init
<1>2. Given /\ [Next]_vars => Given' BY DEF Next, vars
<1>3. Given => ParserSafe BY FramesBuilt, FramesParsedSafely, SegmentsCheckedExactly DEF ParserSafe
<1> QED BY <1>1, <1>2, <1>3, PTL DEF Spec
=============================================================================
