------------------------------ MODULE Tracking ------------------------------
(***************************************************************************)
(* The first half of the processing pipeline (ffi/src/processing.rs): an   *)
(* observation is parsed, looked up in the duplicate filter                *)
(* (correlation/src) and recorded in the flow table.  The filter and the   *)
(* table have a lock each; the host's calls on the table run in between.   *)
(***************************************************************************)
EXTENDS PacketParser, FlowTable

CONSTANTS
    Observations,    \* what can be captured: [frame, key, direction, hash]
    DedupSize,       \* max_size of the duplicate filter
    MaxObservations, \* bound: observations processed
    Nothing

ASSUME TrackingAssumption ==
    /\ DedupSize \in Nat
    /\ MaxObservations \in Nat
    /\ \A o \in Observations : o.key \in Keys /\ o.frame \in Frames

VARIABLES
    current,     \* the observation in hand, Nothing between two
    fresh,       \* the filter has found it new
    order,       \* the duplicate filter's window, oldest first
    recorded,    \* hashes the filter has let through, in order
    taken, errors   \* observations so far, and the ones that did not parse

ownVars == <<current, fresh, order, recorded, taken, errors>>

trackingVars == <<flowVars, ownVars>>

TrackingInit ==
    /\ TableInit
    /\ current = Nothing /\ fresh = FALSE
    /\ order = <<>> /\ recorded = <<>>
    /\ taken = 0 /\ errors = 0

Duplicate(hash) == DedupSize > 0 /\ Contains(order, hash)

\* is_duplicate's side effect on a new hash: the window slides by one.
Windowed(hash) ==
    IF DedupSize = 0 THEN order
    ELSE LET longer == Append(order, hash)
         IN  IF Len(longer) > DedupSize THEN Tail(longer) ELSE longer

\* A packet that does not parse is counted and goes through the filter all
\* the same.
Take(o) ==
    /\ current = Nothing /\ taken < MaxObservations
    /\ taken' = taken + 1
    /\ errors' = IF Accepted(Parse(o.frame)) THEN errors ELSE errors + 1
    /\ current' = o
    /\ fresh' = ~Duplicate(o.hash)
    /\ IF Duplicate(o.hash)
       THEN UNCHANGED <<order, recorded>>
       ELSE /\ order' = Windowed(o.hash)
            /\ recorded' = Append(recorded, o.hash)
    /\ UNCHANGED flowVars

FlowDirection(direction) ==
    CASE direction = "Inbound" -> "Reverse"
      [] direction = "Outbound" -> "Forward"
      [] OTHER -> "Unknown"

\* A duplicate is not recorded; neither is what has no flow key.
Track ==
    /\ current # Nothing
    /\ IF fresh /\ Trackable(Parse(current.frame))
       THEN /\ Record(current.key, FlowDirection(current.direction))
            /\ UNCHANGED <<removed, expired, clock, tableBase>>
       ELSE UNCHANGED flowVars
    /\ current' = Nothing /\ fresh' = FALSE
    /\ UNCHANGED <<order, recorded, taken, errors>>

\* Calls of the host and of the flow engine's other users, and shutdown.
Host ==
    /\ \/ ExpireIdle \/ ClearFlows \/ Tick
       \/ \E key \in Keys : InsertFlow(key) \/ RemoveFlow(key) \/ CloseFlow(key)
    /\ UNCHANGED ownVars

TrackingNext == (\E o \in Observations : Take(o)) \/ Track \/ Host

TrackingSpec == TrackingInit /\ [][TrackingNext]_trackingVars

-----------------------------------------------------------------------------
(* Properties *)

\* The window holds the last DedupSize hashes that were not duplicates, so a
\* packet seen by two backends is counted once unless DedupSize others came
\* in between; filling up never forgets the whole window (dedup.rs:30-54).
WindowIsRecent ==
    LET size == IF Len(recorded) < DedupSize THEN Len(recorded) ELSE DedupSize
    IN  order = SubSeq(recorded, Len(recorded) - size + 1, Len(recorded))

\* What the pipeline keeps about the packets it has seen: one consistent flow
\* entry per conversation, and an exact window of recent hashes.
TrackingInv == FlowInv /\ WindowIsRecent

\* The parser on one frame (packet-parser/src/lib.rs:72-250).
ParsedSafely(frame) ==
    ParseStaysInside(frame) /\ PortsAreReal(frame) /\ WellFormedIsAccepted(frame)

\* A flow is never forgotten while it counts: between two calls that remove
\* flows its entry stays under the key it was created with, its counters and
\* timestamps only grow, and a closed flow stays closed.
FlowsOnlyGrow ==
    [][removed' = removed =>
         /\ DOMAIN flows \subseteq DOMAIN flows'
         /\ \A key \in DOMAIN flows :
              /\ flows'[key].packets >= flows[key].packets
              /\ flows'[key].forward >= flows[key].forward
              /\ flows'[key].reverse >= flows[key].reverse
              /\ flows'[key].last >= flows[key].last
              /\ flows[key].state = "Closed" => flows'[key].state = "Closed"]_trackingVars
=============================================================================
