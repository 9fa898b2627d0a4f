-------------------------------- MODULE Wfp ---------------------------------
(***************************************************************************)
(* The WFP backend (backend-wfp/src): the management engine (engine.rs),   *)
(* the table of filters installed in the Base Filtering Engine (filter.rs) *)
(* and the flow table (flow.rs).  Engine and filter table open sessions of *)
(* their own and share one sublayer, by its fixed key.                     *)
(*                                                                         *)
(* Neither session is dynamic: what it adds to the Base Filtering Engine   *)
(* stays there after it is closed, until it is deleted.  Neither type has  *)
(* a Drop: dropped while it is open, it leaves session and filters behind. *)
(***************************************************************************)
EXTENDS Integers, FiniteSets, Sequences, Functions

CONSTANTS
    Filters,       \* filters the Host makes [id, weight, enabled, action, layer]
    Conditions,    \* conditions [field, value length, mask length and bits] it gives
    MaxInstalled,  \* bound: filters ever installed
    MaxSessions,   \* bound: sessions open at once
    Null

ASSUME WfpAssumption ==
    /\ \A f \in Filters :
          /\ f = [id |-> f.id, weight |-> f.weight, enabled |-> f.enabled,
                  action |-> f.action, layer |-> f.layer]
          /\ f.id \in Nat \ {0} /\ f.weight \in Nat /\ f.enabled \in BOOLEAN
          /\ f.action \in {"Permit", "Block", "Continue"}
    /\ MaxInstalled \in Nat /\ MaxSessions \in Nat /\ Null \notin Nat

VARIABLES
    filters,     \* WfpFilterTable.filters, in evaluation order
    slot,        \* its engine_handle
    wfpState,    \* WfpEngine.state
    wfpHandle,   \* its native_handle
    hasSublayer, \* its sublayer_installed
    bfe,         \* external: sessions open in the Base Filtering Engine
    sublayer,    \* external: the sublayer exists
    kernel,      \* external: the filters installed, kernel id |-> filter
    abandoned,   \* history: sessions whose close failed, forgotten by mark_failed
                 \* or dropped with their owner
    stranded,    \* history: installed filters whose deletion was refused, whose
                 \* row was replaced through get_mut or dropped with the table
    revised,     \* history: a listed filter was changed through get_mut
    installed    \* history: filters installed so far, the last kernel id

tableVars == <<filters, slot, kernel, stranded, revised, installed>>
engineVars == <<wfpState, wfpHandle, hasSublayer>>
wfpVars == <<tableVars, engineVars, bfe, sublayer, abandoned>>

WfpInit ==
    /\ filters = <<>> /\ slot = Null
    /\ wfpState = "Closed" /\ wfpHandle = Null /\ hasSublayer = FALSE
    /\ bfe = {} /\ sublayer = FALSE /\ kernel = [k \in {} |-> Null]
    /\ abandoned = {} /\ stranded = {} /\ revised = FALSE /\ installed = 0

Listed == {filters[i] : i \in DOMAIN filters}

-----------------------------------------------------------------------------
(* Sessions and the sublayer                                               *)

\* FwpmEngineOpen0 hands out a session that is not open: the lowest number, as
\* the numbers mean nothing.
Fresh == {h \in (1 .. MaxSessions) \ bfe : \A g \in 1 .. h - 1 : g \in bfe}

\* The engine closes what it had; a close that fails leaves the session open.
CloseSession(h, ok) ==
    /\ bfe' = IF ok THEN bfe \ {h} ELSE bfe
    /\ abandoned' = IF ok THEN abandoned ELSE abandoned \cup {h}

\* add_sublayer: "already exists" counts as success.
AddSublayer == sublayer' = TRUE

\* initialize.  When add_sublayer fails the session is closed again and the
\* close's own result is ignored.
TableInitialize ==
    /\ slot = Null
    /\ \E h \in Fresh :
          \/ /\ slot' = h /\ bfe' = bfe \cup {h} /\ AddSublayer
             /\ UNCHANGED abandoned
          \/ /\ bfe' = bfe \cup {h} /\ abandoned' = abandoned \cup {h}
             /\ UNCHANGED <<slot, sublayer>>
    /\ UNCHANGED <<filters, kernel, stranded, revised, installed, engineVars>>

\* open: as initialize, with the state machine around it.
EngineOpen ==
    /\ wfpState \in {"Closed", "Failed"}
    /\ \/ \E h \in Fresh :
             /\ wfpState' = "Open" /\ wfpHandle' = h /\ hasSublayer' = TRUE
             /\ bfe' = bfe \cup {h} /\ AddSublayer
             /\ UNCHANGED abandoned
       \/ \E h \in Fresh :
             /\ wfpState' = "Failed" /\ wfpHandle' = Null
             /\ bfe' = bfe \cup {h} /\ abandoned' = abandoned \cup {h}
             /\ UNCHANGED <<sublayer, hasSublayer>>
       \/ /\ wfpState' = "Failed" /\ wfpHandle' = Null /\ hasSublayer' = FALSE
          /\ UNCHANGED <<bfe, sublayer, abandoned>>
    /\ UNCHANGED tableVars

\* FwpmSubLayerDeleteByKey0 refuses a sublayer that holds filters; "not found"
\* counts as success.
Deletable == DOMAIN kernel = {}

\* close: the sublayer goes, then the session; either may fail, the handle is
\* given up in any case and an error leaves the engine Failed.
EngineClose ==
    /\ wfpState \in {"Open", "Degraded", "Failed"}
    /\ wfpHandle' = Null /\ hasSublayer' = FALSE
    /\ \/ /\ wfpHandle = Null
          /\ wfpState' = "Closed"
          /\ UNCHANGED <<bfe, abandoned, sublayer>>
       \/ \E removed, ok \in BOOLEAN :
             /\ wfpHandle # Null
             /\ removed => Deletable
             /\ sublayer' = (sublayer /\ ~(hasSublayer /\ removed))
             /\ CloseSession(wfpHandle, ok)
             /\ wfpState' = IF ok /\ (hasSublayer => removed) THEN "Closed" ELSE "Failed"
    /\ UNCHANGED tableVars

MarkDegraded ==
    /\ wfpState \in {"Open", "Degraded"}
    /\ wfpState' = "Degraded"
    /\ UNCHANGED <<tableVars, wfpHandle, hasSublayer, bfe, sublayer, abandoned>>

MarkRecovered ==
    /\ wfpState \in {"Open", "Degraded"}
    /\ wfpState' = "Open"
    /\ UNCHANGED <<tableVars, wfpHandle, hasSublayer, bfe, sublayer, abandoned>>

\* mark_failed forgets the handle without closing it.
MarkFailed ==
    /\ wfpState' = "Failed" /\ wfpHandle' = Null /\ hasSublayer' = FALSE
    /\ abandoned' = abandoned \cup ({wfpHandle} \ {Null})
    /\ UNCHANGED <<tableVars, bfe, sublayer>>

\* An engine is dropped, its session with it, and made again.
EngineDrop ==
    /\ wfpState' = "Closed" /\ wfpHandle' = Null /\ hasSublayer' = FALSE
    /\ abandoned' = abandoned \cup ({wfpHandle} \ {Null})
    /\ UNCHANGED <<tableVars, bfe, sublayer>>

-----------------------------------------------------------------------------
(* Filters                                                                 *)

\* sort_by: heavier first, then the smaller id.
Precedes(f, g) == f.weight > g.weight \/ (f.weight = g.weight /\ f.id < g.id)

Arranged(list, p) == [i \in DOMAIN list |-> list[p[i]]]

\* The arrangement of a list that sort_by leaves: filters of one weight and one
\* id, which get_mut can make, keep their order.
Sortings(list) ==
    {Arranged(list, p) : p \in {q \in Bijection(DOMAIN list, DOMAIN list) :
        \A i, j \in DOMAIN list : i < j =>
            \/ Precedes(list[q[i]], list[q[j]])
            \/ ~Precedes(list[q[j]], list[q[i]]) /\ q[i] < q[j]}}

\* push and sort.
Inserted(list, f) == Sortings(Append(list, f))

\* Vec::remove.
Removed(list, i) == [j \in 1 .. Len(list) - 1 |-> list[IF j < i THEN j ELSE j + 1]]

\* layer_keys::resolve.
KnownLayers ==
    {"ale_auth_connect", "ale_auth_recv_accept", "datagram_data", "inbound_transport",
     "outbound_transport", "inbound_ippacket", "outbound_ippacket", "ipforward", "stream"}
    \X {"v4", "v6"}

\* prefix: the ones come first.
IsPrefix(mask) == \A i, j \in DOMAIN mask : i < j /\ mask[j] = 1 => mask[i] = 1

\* address: IPv4 or IPv6, by the length of the value; a mask, if there is one, is
\* as long, and for IPv6 it is a prefix.
AddressExpressible(c) ==
    /\ c.length \in {4, 16}
    /\ \/ c.masked = 0
       \/ c.masked = c.length /\ (c.length = 16 => IsPrefix(c.mask))

\* NativeCondition::from_condition: every field has its length.
Expressible(c) ==
    \/ c.field \in {"protocol", "direction"} /\ c.length = 1
    \/ c.field \in {"local_port", "remote_port"} /\ c.length = 2
    \/ c.field \in {"local_address", "remote_address"} /\ AddressExpressible(c)

\* What register_in_kernel passes on of a filter; the id is part of a text only.
Installed(f) == [weight |-> f.weight, enabled |-> f.enabled, action |-> f.action, layer |-> f.layer]

Row(f, kid) == [id |-> f.id, weight |-> f.weight, enabled |-> f.enabled,
                action |-> f.action, layer |-> f.layer, kid |-> kid]

\* insert: an id in use, a missing session, a layer or condition that cannot be
\* expressed and a refusal of the native call are errors that change nothing.
FilterInsert(f, condition) ==
    /\ \A g \in Listed : g.id # f.id
    /\ slot # Null /\ f.layer \in KnownLayers /\ Expressible(condition) /\ sublayer
    /\ installed < MaxInstalled
    /\ installed' = installed + 1
    /\ kernel' = [k \in DOMAIN kernel \cup {installed'} |->
                    IF k = installed' THEN Installed(f) ELSE kernel[k]]
    /\ filters' \in Inserted(filters, Row(f, installed'))
    /\ UNCHANGED <<slot, stranded, revised, engineVars, bfe, sublayer, abandoned>>

Without(s) == [k \in DOMAIN kernel \ s |-> kernel[k]]

\* Deletes what the native side agrees to, when there is a session at all; the
\* result is ignored.
Unregister(gone, kept) ==
    /\ kernel' = IF slot = Null THEN kernel ELSE Without(gone \ kept)
    /\ stranded' = IF slot = Null THEN stranded ELSE stranded \cup kept

\* position and find: the first filter of that id.
IsFirst(id, i) ==
    /\ i \in DOMAIN filters /\ filters[i].id = id
    /\ \A j \in DOMAIN filters : filters[j].id = id => i <= j

\* The history of changes ends with the last of the filters.
StillRevised == revised' = (revised /\ filters' # <<>>)

\* A filter without a kernel id is only unlisted.
FilterRemove(id, refused) ==
    /\ \E i \in DOMAIN filters :
          /\ IsFirst(id, i)
          /\ filters' = Removed(filters, i)
          /\ Unregister({filters[i].kid} \ {0}, IF refused THEN {filters[i].kid} \ {0} ELSE {})
    /\ StillRevised
    /\ UNCHANGED <<slot, installed, engineVars, bfe, sublayer, abandoned>>

\* get_mut: the Host writes the public fields, the id too, or puts a new filter
\* in place of the listed one, whose kernel id is lost then.  The list is not
\* sorted again and the kernel is not told.
FilterRevise(id, f, replaced) ==
    /\ \E i \in DOMAIN filters :
          /\ IsFirst(id, i)
          /\ filters' = [filters EXCEPT ![i] = Row(f, IF replaced THEN 0 ELSE filters[i].kid)]
          /\ stranded' = IF replaced THEN stranded \cup ({filters[i].kid} \ {0}) ELSE stranded
    /\ revised' = TRUE
    /\ UNCHANGED <<slot, kernel, installed, engineVars, bfe, sublayer, abandoned>>

Kids == {f.kid : f \in Listed} \ {0}

FilterClear(kept) ==
    /\ filters' = <<>>
    /\ Unregister(Kids, kept)
    /\ revised' = FALSE
    /\ UNCHANGED <<slot, installed, engineVars, bfe, sublayer, abandoned>>

\* Bug: the session is closed before the filters are cleared.
TableShutdown_ClosesFirst(kept, ok) ==
    /\ filters' = <<>> /\ slot' = Null /\ revised' = FALSE
    /\ UNCHANGED <<kernel, stranded>>
    /\ IF slot = Null THEN UNCHANGED <<bfe, abandoned>> ELSE CloseSession(slot, ok)
    /\ UNCHANGED <<installed, engineVars, sublayer>>

\* shutdown: clears while there is still a session to delete with, then gives
\* the session up, whether or not it can be closed.
TableShutdown(kept, ok) ==
    /\ filters' = <<>> /\ slot' = Null /\ revised' = FALSE
    /\ Unregister(Kids, kept)
    /\ IF slot = Null THEN UNCHANGED <<bfe, abandoned>> ELSE CloseSession(slot, ok)
    /\ UNCHANGED <<installed, engineVars, sublayer>>

\* A table is dropped, its session and filters with it, and made again.
TableDrop ==
    /\ filters' = <<>> /\ slot' = Null /\ revised' = FALSE
    /\ stranded' = stranded \cup Kids
    /\ abandoned' = abandoned \cup ({slot} \ {Null})
    /\ UNCHANGED <<kernel, installed, engineVars, bfe, sublayer>>

\* evaluate: the first enabled filter in list order decides, whatever its layer
\* and its action; 0 when there is none.
Decider ==
    LET on == {i \in DOMAIN filters : filters[i].enabled}
    IN  IF on = {} THEN 0 ELSE CHOOSE i \in on : \A j \in on : i <= j

EngineNext ==
    \/ EngineOpen \/ EngineClose \/ EngineDrop
    \/ MarkDegraded \/ MarkRecovered \/ MarkFailed

TableNext ==
    \/ TableInitialize \/ TableDrop
    \/ \E f \in Filters, condition \in Conditions : FilterInsert(f, condition)
    \/ \E id \in {g.id : g \in Listed} :
          \/ \E refused \in BOOLEAN : FilterRemove(id, refused)
          \/ \E f \in Filters, replaced \in BOOLEAN : FilterRevise(id, f, replaced)
    \/ \E kept \in SUBSET Kids :
          \/ FilterClear(kept)
          \/ \E ok \in BOOLEAN : TableShutdown(kept, ok)

FilterNext == TableNext \/ EngineNext

-----------------------------------------------------------------------------
\* Every open session is held by the table or the engine, except those that
\* were left open by a close that failed, by mark_failed or by a drop; what the
\* two hold is open and theirs alone.
SessionsOwned ==
    /\ bfe = ({slot, wfpHandle} \ {Null}) \cup abandoned
    /\ slot # Null => slot # wfpHandle /\ slot \notin abandoned
    /\ wfpHandle # Null => wfpHandle \notin abandoned
    /\ wfpHandle # Null <=> wfpState \in {"Open", "Degraded"}

\* The kernel enforces exactly the listed filters and the stranded ones: a table
\* that lists filters has a session to delete them with, and closing it strands
\* none.  Unless a filter was replaced in place, each has a kernel id of its own.
KernelHoldsListed ==
    /\ DOMAIN kernel = Kids \cup stranded /\ Kids \cap stranded = {}
    /\ filters # <<>> => slot # Null
    /\ ~revised => Cardinality(Kids) = Len(filters)

\* external: the filters a layer enforces, and the heaviest of some filters.
\* The kernel visits the filters of a layer by their weights alone, those of one
\* weight in any order, and goes on after a Continue.
Enforced(layer) == {k \in DOMAIN kernel : kernel[k].enabled /\ kernel[k].layer = layer}
Heaviest(ids) == {k \in ids : \A j \in ids : kernel[j].weight <= kernel[k].weight}

\* While nothing is stranded or was changed in place, and for a packet that
\* every filter matches: evaluate finds a filter exactly when the kernel enforces
\* one; on that filter's own layer the kernel may visit it first, up to the order
\* of equal weights, and may decide by it unless it says Continue, which evaluate
\* returns while the kernel goes on.
TableDecidesAsKernel ==
    ~revised /\ stranded = {} =>
        IF Decider = 0 THEN \A k \in DOMAIN kernel : ~kernel[k].enabled
        ELSE LET f == filters[Decider]
             IN  /\ f.kid \in Heaviest(Enforced(f.layer))
                 /\ f.action # "Continue" =>
                       f.kid \in Heaviest({k \in Enforced(f.layer) : kernel[k].action # "Continue"})

-----------------------------------------------------------------------------
(* The flow table: a bounded map of flows, each a small state machine with   *)
(* checked counters.  The caller gives every timestamp, so time may go       *)
(* backwards.                                                                *)

CONSTANTS
    FlowIds,
    MaxFlows,      \* max_entries
    MaxTotal,      \* where checked_add overflows (u64::MAX)
    Sizes,         \* packet sizes
    Times          \* timestamps and timeouts the caller passes

ASSUME WfpFlowAssumption ==
    /\ FlowIds \subseteq Nat /\ 0 \notin FlowIds
    /\ MaxFlows \in Nat \ {0} /\ MaxTotal \in Nat \ {0}
    /\ Sizes \subseteq Nat /\ Times \subseteq Nat

VARIABLE wfpFlows     \* id |-> flow

FlowStates == {"Unknown", "New", "Established", "Closing", "Closed", "Aborted"}

IsTerminal(s) == s \in {"Closed", "Aborted"}

CanTransition(s, t) ==
    \/ s = t
    \/ s = "Unknown" /\ t \in {"New", "Established"}
    \/ s = "New" /\ t \in {"Established", "Closing", "Aborted"}
    \/ s = "Established" /\ t \in {"Closing", "Closed", "Aborted"}
    \/ s = "Closing" /\ t \in {"Closed", "Aborted"}

FlowInit == wfpFlows = <<>>

SetFlow(id, f) == wfpFlows' = [wfpFlows EXCEPT ![id] = f]

\* insert: the fields are public, so a flow may come in state Unknown.
WfpFlowInsert(id, s, t) ==
    /\ id \notin DOMAIN wfpFlows
    /\ Cardinality(DOMAIN wfpFlows) < MaxFlows
    /\ s \in {"New", "Unknown"}
    /\ wfpFlows' = [i \in DOMAIN wfpFlows \cup {id} |->
            IF i = id THEN [state |-> s, packets |-> 0, bytes |-> 0, last |-> t]
            ELSE wfpFlows[i]]

WfpFlowTransition(id, s) ==
    /\ CanTransition(wfpFlows[id].state, s)
    /\ SetFlow(id, [wfpFlows[id] EXCEPT !.state = s])

\* Bug: a packet is counted whatever the state of its flow.
WfpFlowRecord_Unguarded(id, size, t) ==
    LET f == wfpFlows[id]
        counted == [f EXCEPT !.packets = @ + 1, !.bytes = @ + size, !.last = t,
                             !.state = IF @ = "New" THEN "Established" ELSE @]
    IN  f.packets < MaxTotal /\ f.bytes + size <= MaxTotal /\ SetFlow(id, counted)

\* record_packet: when only the bytes overflow, the packet is counted already
\* and nothing else changes.
WfpFlowRecord(id, size, t) ==
    LET f == wfpFlows[id]
        counted == [f EXCEPT !.packets = @ + 1]
    IN  /\ ~IsTerminal(f.state) /\ f.packets < MaxTotal
        /\ \/ f.bytes + size > MaxTotal /\ SetFlow(id, counted)
           \/ /\ f.bytes + size <= MaxTotal
              /\ SetFlow(id, [counted EXCEPT !.bytes = @ + size, !.last = t,
                                 !.state = IF @ = "New" THEN "Established" ELSE @])

\* close passes through Closing; a flow in state Unknown cannot be closed.
WfpFlowClose(id) ==
    /\ \/ wfpFlows[id].state = "Closing"
       \/ wfpFlows[id].state # "Aborted" /\ CanTransition(wfpFlows[id].state, "Closing")
    /\ SetFlow(id, [wfpFlows[id] EXCEPT !.state = "Closed"])

WfpFlowAbort(id) ==
    /\ ~IsTerminal(wfpFlows[id].state) /\ CanTransition(wfpFlows[id].state, "Aborted")
    /\ SetFlow(id, [wfpFlows[id] EXCEPT !.state = "Aborted"])

WfpFlowRemove(id) == wfpFlows' = Restrict(wfpFlows, DOMAIN wfpFlows \ {id})

\* idle_ns saturates at zero, so a flow seen in the future has just been seen.
IdleFor(f, now) == IF now > f.last THEN now - f.last ELSE 0

WfpFlowExpire(now, timeout) ==
    wfpFlows' = Restrict(wfpFlows,
                         {i \in DOMAIN wfpFlows : IdleFor(wfpFlows[i], now) < timeout})

WfpFlowClear == wfpFlows' = <<>>

FlowsNext ==
    \/ \E id \in FlowIds, s \in FlowStates, t \in Times : WfpFlowInsert(id, s, t)
    \/ \E id \in DOMAIN wfpFlows :
          \/ \E s \in FlowStates : WfpFlowTransition(id, s)
          \/ \E size \in Sizes, t \in Times : WfpFlowRecord(id, size, t)
          \/ WfpFlowClose(id) \/ WfpFlowAbort(id) \/ WfpFlowRemove(id)
    \/ \E now, timeout \in Times : WfpFlowExpire(now, timeout)
    \/ WfpFlowClear

-----------------------------------------------------------------------------
\* A step a flow may take: nothing once it ended; never back to Unknown or New
\* from a later state; its counters never go down.
FlowStep(f, g) ==
    /\ IsTerminal(f.state) => g = f
    /\ f.state \in {"Established", "Closing"} => g.state \notin {"Unknown", "New"}
    /\ f.state = "Closing" => g.state # "Established"
    /\ g.packets >= f.packets /\ g.bytes >= f.bytes

\* A flow that stays in the table only moves forward: once closed or aborted it
\* counts nothing more, whatever arrives late for it.
FlowsNeverResume ==
    [][\A id \in DOMAIN wfpFlows \cap DOMAIN wfpFlows' :
          FlowStep(wfpFlows[id], wfpFlows'[id])]_wfpFlows
=============================================================================
