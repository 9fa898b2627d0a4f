------------------------------ MODULE FlowTable ------------------------------
(***************************************************************************)
(* The flow engine (flow-engine/src): the bounded table of conversations,  *)
(* keyed by the direction that was seen first, with per-flow counters.     *)
(*                                                                         *)
(* A flow's timestamps and the idle test use two different clocks: each of *)
(* flow.rs and flow_table.rs counts from a baseline of its own, taken when *)
(* that file's now_ns is first called.                                     *)
(***************************************************************************)
EXTENDS Integers, FiniteSets, Functions

CONSTANTS
    Endpoints,     \* address and port
    MaxEntries,    \* max_entries
    IdleTimeout,   \* idle_timeout
    MaxClock,      \* bound: ticks of the real clock
    MaxCount,      \* bound: where a counter saturates (u64::MAX)
    MaxCreated,    \* bound: flows created
    Unset          \* a clock that was never read

ASSUME FlowAssumption ==
    /\ MaxEntries \in Nat \ {0}
    /\ IdleTimeout \in Nat \ {0}
    /\ MaxClock \in Nat /\ MaxCount \in Nat \ {0} /\ MaxCreated \in Nat
    /\ Unset \notin Nat

VARIABLES
    flows,         \* the table
    created, removed, expired,   \* total_created, total_removed, total_expired
    clock,         \* real time
    flowBase,      \* flow.rs BASELINE
    tableBase      \* flow_table.rs BASELINE

flowVars == <<flows, created, removed, expired, clock, flowBase, tableBase>>

Keys == Endpoints \X Endpoints

ReverseKey(key) == <<key[2], key[1]>>

FlowStates == {"New", "Active", "Closed"}

Flow == [packets : 0 .. MaxCount, forward : 0 .. MaxCount, reverse : 0 .. MaxCount,
         first : Nat, last : Nat, state : FlowStates]

SaturatingAdd(n, m) == IF n + m > MaxCount THEN MaxCount ELSE n + m

Later(s, t) == IF s > t THEN s ELSE t

\* Reading a clock for the first time starts it.
Started(base) == IF base = Unset THEN clock ELSE base

FlowNow == clock - Started(flowBase)

TableNow == clock - Started(tableBase)

NewFlow == [packets |-> 0, forward |-> 0, reverse |-> 0,
            first |-> FlowNow, last |-> FlowNow, state |-> "New"]

\* FlowCounters keeps zero for "not seen yet" and the earliest time seen.
FirstSeen(flow, t) ==
    IF flow.packets = 0 \/ flow.first = 0 \/ t < flow.first THEN t ELSE flow.first

LastSeen(flow, t) == IF flow.packets = 0 THEN t ELSE Later(flow.last, t)

\* Bug: a packet reopens a closed flow.
Recorded_Revives(flow, direction, t) ==
    [flow EXCEPT !.packets = SaturatingAdd(@, 1),
                 !.forward = IF direction = "Forward" THEN SaturatingAdd(@, 1) ELSE @,
                 !.reverse = IF direction = "Reverse" THEN SaturatingAdd(@, 1) ELSE @,
                 !.first = FirstSeen(flow, t),
                 !.last = LastSeen(flow, t),
                 !.state = "Active"]

\* record_packet: a closed flow keeps counting and stays closed.
Recorded(flow, direction, t) ==
    [flow EXCEPT !.packets = SaturatingAdd(@, 1),
                 !.forward = IF direction = "Forward" THEN SaturatingAdd(@, 1) ELSE @,
                 !.reverse = IF direction = "Reverse" THEN SaturatingAdd(@, 1) ELSE @,
                 !.first = FirstSeen(flow, t),
                 !.last = LastSeen(flow, t),
                 !.state = IF @ = "New" THEN "Active" ELSE @]

\* The entry a key or its reverse has.
Known(key) == {k \in {key, ReverseKey(key)} : k \in DOMAIN flows}

EntryOf(key) == IF key \in DOMAIN flows THEN key ELSE ReverseKey(key)

Full == Cardinality(DOMAIN flows) >= MaxEntries

TableInit ==
    /\ flows = <<>>
    /\ created = 0 /\ removed = 0 /\ expired = 0
    /\ clock = 0 /\ flowBase = Unset /\ tableBase = Unset

Put(key, flow) ==
    [k \in DOMAIN flows \cup {key} |-> IF k = key THEN flow ELSE flows[k]]

Without(keys) == Restrict(flows, DOMAIN flows \ keys)

\* get_or_create and record_packet: an entry for either direction is used; a
\* full table refuses (the caller ignores the error).
Record(key, direction) ==
    IF Known(key) # {}
    THEN /\ flows' = Put(EntryOf(key), Recorded(flows[EntryOf(key)], direction, FlowNow))
         /\ flowBase' = Started(flowBase)
         /\ UNCHANGED created
    ELSE IF Full THEN UNCHANGED <<flows, flowBase, created>>
    ELSE /\ flows' = Put(key, Recorded(NewFlow, direction, FlowNow))
         /\ created' = created + 1
         /\ flowBase' = Started(flowBase)

\* insert: a flow made elsewhere, refused when either direction is known.
InsertFlow(key) ==
    /\ Known(key) = {} /\ ~Full /\ created < MaxCreated
    /\ flows' = Put(key, NewFlow)
    /\ flowBase' = Started(flowBase)
    /\ created' = created + 1
    /\ UNCHANGED <<removed, expired, clock, tableBase>>

RemoveFlow(key) ==
    /\ Known(key) # {}
    /\ flows' = Without({EntryOf(key)})
    /\ removed' = removed + 1
    /\ UNCHANGED <<created, expired, clock, flowBase, tableBase>>

CloseFlow(key) ==
    /\ Known(key) # {}
    /\ flows' = [flows EXCEPT ![EntryOf(key)].state = "Closed"]
    /\ UNCHANGED <<created, removed, expired, clock, flowBase, tableBase>>

\* is_idle: a flow seen after `now` has been idle for no time at all.
IsIdle(flow, now) == now > flow.last /\ now - flow.last >= IdleTimeout

\* flow_clear_expired -> expire_idle_now.
ExpireIdle ==
    LET gone == {k \in DOMAIN flows : IsIdle(flows[k], TableNow)}
    IN  /\ flows' = Without(gone)
        /\ removed' = removed + Cardinality(gone)
        /\ expired' = expired + Cardinality(gone)
        /\ tableBase' = Started(tableBase)
        /\ UNCHANGED <<created, clock, flowBase>>

ClearFlows ==
    /\ flows' = <<>>
    /\ removed' = removed + Cardinality(DOMAIN flows)
    /\ UNCHANGED <<created, expired, clock, flowBase, tableBase>>

Tick ==
    /\ clock < MaxClock
    /\ clock' = clock + 1
    /\ UNCHANGED <<flows, created, removed, expired, flowBase, tableBase>>

-----------------------------------------------------------------------------

\* A conversation has one entry, whichever direction was seen first; the
\* table respects its bound; the totals explain its size; a flow's counters
\* never contradict each other or its clock (flow_table.rs:111-304).
FlowInv ==
    /\ DOMAIN flows \subseteq Keys
    /\ flows \in [DOMAIN flows -> Flow]
    /\ \A key \in DOMAIN flows : ReverseKey(key) \in DOMAIN flows => ReverseKey(key) = key
    /\ Cardinality(DOMAIN flows) <= MaxEntries
    /\ created - removed = Cardinality(DOMAIN flows)
    /\ expired <= removed
    /\ \A key \in DOMAIN flows :
         LET flow == flows[key]
         IN  /\ flow.packets < MaxCount => flow.forward + flow.reverse <= flow.packets
             /\ flow.first <= flow.last /\ flow.last <= FlowNow
             /\ flow.state = "New" => flow.packets = 0
             /\ flow.packets = 0 => flow.state # "Active"
=============================================================================
