----------------------------- MODULE Statistics -----------------------------
(***************************************************************************)
(* The counters of network-core/src/statistics.rs and metrics.rs and their *)
(* readers (ffi/src/statistics.rs, metrics.rs, engine_statistics).  Every  *)
(* counter is an atomic of its own: a call that records is a sequence of   *)
(* updates, a snapshot a sequence of loads, a reset a sequence of stores,  *)
(* and nothing orders them.                                                *)
(*                                                                         *)
(* Of the statistics the model keeps those that say something about each   *)
(* other: what was received and processed, lookups and their failures.     *)
(***************************************************************************)
EXTENDS Lists, Integers, SequencesExt

CONSTANTS
    Recorders,     \* threads that count
    Sizes,         \* packet lengths, and times observed
    Bounds,        \* the histogram's bounds, as given to new
    BucketNames,   \* one for each bound and one for what is above them
    MaxCalls       \* bound: calls that record

Totals == {"received", "processed", "bytesReceived", "bytesProcessed", "lookups", "failures"}

ASSUME StatisticsAssumption ==
    /\ IsFiniteSet(Recorders) /\ BucketNames \in Seq(STRING) /\ Sizes \subseteq Nat /\ MaxCalls \in Nat
    /\ Bounds \in Seq(Nat)
    /\ Len(BucketNames) = Cardinality(ToSet(Bounds)) + 1
    /\ \A i, j \in DOMAIN BucketNames : BucketNames[i] = BucketNames[j] => i = j
    /\ ToSet(BucketNames) \cap (Totals \cup {"flows", "sum", "count"}) = {}

VARIABLES
    counter,    \* every atomic by name
    updates,    \* updates[t]: what thread t's call has still to do
    bus,        \* sizes of the packets published and not yet taken
    reads,      \* the values a snapshot has loaded, in the order of Fields
    base,       \* the counters when it began
    calls,      \* calls so far
    observed,   \* times given to the histogram since it was reset
    overlapped  \* a reset and an observation have overlapped

statisticsVars == <<counter, updates, bus, reads, base, calls, observed, overlapped>>

\* Histogram::new sorts the bounds and drops repetitions.
Buckets == InOrder(ToSet(Bounds))

Metrics == {"flows", "sum", "count"} \cup ToSet(BucketNames)

StatisticsInit ==
    /\ counter = [c \in Totals \cup Metrics |-> 0]
    /\ base = counter
    /\ updates = [t \in Recorders |-> <<>>]
    /\ bus = <<>> /\ reads = <<>> /\ calls = 0
    /\ observed = <<>> /\ overlapped = FALSE

Add(c, n) == [name |-> c, op |-> "add", n |-> n]
Set(c, n) == [name |-> c, op |-> "set", n |-> n]
Decrement(c) == [name |-> c, op |-> "decrement", n |-> 1]

\* fetch_add, store, and the gauge's checked subtraction.
Adjusted(value, u) ==
    CASE u.op = "add" -> value + u.n
      [] u.op = "set" -> u.n
      [] u.op = "decrement" -> IF value = 0 THEN 0 ELSE value - 1

Begin(t, list) ==
    /\ updates[t] = <<>> /\ calls < MaxCalls
    /\ calls' = calls + 1
    /\ updates' = [updates EXCEPT ![t] = list]
    /\ UNCHANGED <<counter, reads, base>>

-----------------------------------------------------------------------------
(* Statistics *)

\* A packet is readable on the bus before it is counted as received.
RecordReceived(t, n) ==
    /\ Begin(t, <<Add("received", 1), Add("bytesReceived", n)>>)
    /\ bus' = Append(bus, n)
    /\ UNCHANGED <<observed, overlapped>>

RecordProcessed(t) ==
    /\ bus # <<>>
    /\ Begin(t, <<Add("processed", 1), Add("bytesProcessed", Head(bus))>>)
    /\ bus' = Tail(bus)
    /\ UNCHANGED <<observed, overlapped>>

\* record_route_lookup, record_neighbor_lookup.
RecordLookup(t, success) ==
    /\ Begin(t, IF success THEN <<Add("lookups", 1)>> ELSE <<Add("lookups", 1), Add("failures", 1)>>)
    /\ UNCHANGED <<bus, observed, overlapped>>

-----------------------------------------------------------------------------
(* Metrics *)

Resetting == \E t \in Recorders : \E i \in DOMAIN updates[t] :
                updates[t][i].op = "set" /\ updates[t][i].name \in Metrics \ {"flows"}

Observing == \E t \in Recorders : \E i \in DOMAIN updates[t] :
                updates[t][i].op = "add" /\ updates[t][i].name \in Metrics \ {"flows"}

\* The first bound that is not below the value, or the last bucket.
BucketOf(n) ==
    LET fits == {i \in DOMAIN Buckets : n <= Buckets[i]}
    IN  BucketNames[IF fits = {} THEN Len(Buckets) + 1 ELSE CHOOSE i \in fits : \A j \in fits : i <= j]

Observe(t, n) ==
    /\ Begin(t, <<Add("sum", n), Add("count", 1), Add(BucketOf(n), 1)>>)
    /\ observed' = Append(observed, n)
    /\ overlapped' = (overlapped \/ Resetting)
    /\ UNCHANGED bus

\* The gauge of active flows goes up and down, and back to zero with the rest.
Gauge(t) ==
    /\ \E u \in {Add("flows", 1), Decrement("flows"), Set("flows", 2)} : Begin(t, <<u>>)
    /\ UNCHANGED <<bus, observed, overlapped>>

Reset(t) ==
    /\ Begin(t, <<Set("flows", 0), Set("sum", 0), Set("count", 0)>>
                \o [i \in DOMAIN BucketNames |-> Set(BucketNames[i], 0)])
    /\ observed' = <<>>
    /\ overlapped' = (Observing \/ Resetting)
    /\ UNCHANGED bus

-----------------------------------------------------------------------------
Update(t) ==
    /\ updates[t] # <<>>
    /\ LET u == Head(updates[t])
       IN  counter' = [counter EXCEPT ![u.name] = Adjusted(@, u)]
    /\ updates' = [updates EXCEPT ![t] = Tail(@)]
    /\ UNCHANGED <<bus, reads, base, calls, observed, overlapped>>

\* The order in which unified_statistics loads.
Fields == <<"received", "processed", "bytesReceived", "bytesProcessed", "lookups", "failures">>

Load ==
    /\ Len(reads) < Len(Fields)
    /\ reads' = Append(reads, counter[Fields[Len(reads) + 1]])
    /\ base' = IF reads = <<>> THEN counter ELSE base
    /\ UNCHANGED <<counter, updates, bus, calls, observed, overlapped>>

SnapshotDone ==
    /\ Len(reads) = Len(Fields)
    /\ reads' = <<>> /\ base' = counter
    /\ UNCHANGED <<counter, updates, bus, calls, observed, overlapped>>

Recording(t) ==
    \/ \E n \in Sizes : RecordReceived(t, n)
    \/ RecordProcessed(t)
    \/ \E success \in BOOLEAN : RecordLookup(t, success)
    \/ Update(t)

StatisticsNext == (\E t \in Recorders : Recording(t)) \/ Load \/ SnapshotDone

MetricsNext ==
    \E t \in Recorders : (\E n \in Sizes : Observe(t, n)) \/ Gauge(t) \/ Reset(t) \/ Update(t)

-----------------------------------------------------------------------------
(* Properties *)

\* The sum of f over the threads.
OverThreads(f) ==
    LET threads == SetToSeq(Recorders) IN Total([k \in DOMAIN threads |-> f[threads[k]]])

\* What a list of updates adds to counter c.
Added(list, c) ==
    Total([i \in DOMAIN list |-> IF list[i].name = c /\ list[i].op = "add" THEN list[i].n ELSE 0])

\* What the threads will still add to counter c.
Pending(c) == OverThreads([t \in Recorders |-> Added(updates[t], c)])

InFull(c) == counter[c] + Pending(c)

\* No update is lost between threads: every packet that left the bus or is on it
\* was received, with its bytes.
EveryPacketCounted ==
    /\ InFull("received") = InFull("processed") + Len(bus)
    /\ InFull("bytesReceived") = InFull("bytesProcessed") + Total(bus)

\* A snapshot is not taken at one instant: it may show more processed than
\* received, more failed than lookups.  But every field lies between its values
\* at the start and now, and the excess is at most what happened meanwhile and
\* what threads were about to count (unified_statistics, validate_statistics).
SnapshotIsBracketed ==
    /\ \A i \in DOMAIN reads : base[Fields[i]] <= reads[i] /\ reads[i] <= counter[Fields[i]]
    /\ Len(reads) >= 2 =>
          reads[2] - reads[1] <= Cardinality(Recorders) + counter["processed"] - base["processed"]
    /\ Len(reads) >= 6 => reads[6] - reads[5] <= counter["lookups"] - base["lookups"]

\* The value lies between the bounds of bucket i.
Encloses(i, n) ==
    /\ i > 1 => n > Buckets[i - 1]
    /\ i <= Len(Buckets) => n <= Buckets[i]

\* Unless a reset ran into an observation, a histogram nobody is updating adds
\* up: as many as were observed, in the bucket whose bounds enclose them.
HistogramAddsUp ==
    ~overlapped /\ ~Observing /\ ~Resetting =>
        /\ counter["count"] = Len(observed)
        /\ counter["sum"] = Total(observed)
        /\ \A i \in DOMAIN BucketNames :
              counter[BucketNames[i]] =
                  Cardinality({k \in DOMAIN observed : Encloses(i, observed[k])})

StatisticsInv == EveryPacketCounted /\ SnapshotIsBracketed /\ HistogramAddsUp
=============================================================================
