------------------------------ MODULE WinDivert ------------------------------
(***************************************************************************)
(* The WinDivert backend (backend-windivert/src): the native handle, the   *)
(* receive and send primitives and the backend's bounded queue; and the    *)
(* capture runtime that drives it (ffi/src/backend_runtime.rs), which      *)
(* keeps the native address of each intercepted packet until the packet's  *)
(* decision is executed.  The runtime's methods take &mut self, so each is *)
(* one step.                                                               *)
(***************************************************************************)
EXTENDS Integers, FiniteSets, Sequences

CONSTANTS
    Addresses,      \* [outbound, interface]: what the driver tells of a packet
    WdCapacity,     \* PacketBus::capacity
    WdFilters,      \* filter expressions: "true", "" and "nul" (an embedded NUL)
    WdLayers,       \* layer names the Host gives, spellings included
    MaxIntercepted, \* bound: packets intercepted by one runtime
    MaxRuntimes,    \* bound: runtimes started
    MaxDivertHandles, \* bound: handles open at once
    PacketSizes,    \* lengths of the data given to packets and sends
    MaxPacketSize,
    QueuePackets, QueueBytes,  \* arguments of WinDivertQueue::with_limits
    NoNative

ASSUME WinDivertAssumption ==
    /\ Addresses \subseteq [outbound : BOOLEAN, interface : Nat]
    /\ WdCapacity \in Nat \ {0} /\ MaxIntercepted \in Nat /\ MaxRuntimes \in Nat
    /\ MaxDivertHandles \in Nat
    /\ PacketSizes \subseteq Nat /\ MaxPacketSize \in Nat
    /\ QueuePackets \in Nat /\ QueueBytes \in Nat /\ NoNative \notin Nat

VARIABLES
    wdConfig,   \* WinDivertHandle.config
    wdState,    \* WinDivertHandle.state
    wdNative,   \* WinDivertHandle.native
    driver,     \* external: handles open in the driver
    unclosed,   \* history: handles whose WinDivertClose was refused
    wdNextId,     \* CaptureRuntime::WinDivert.next_observation_id
    pending,    \* its pending_addresses, observation id |-> address
    onBus,      \* the observations waiting on the Packet Bus
    taken,      \* the observations the processing stage has taken from it
    runtime,    \* history: runtimes started, the last one is current
    sent,       \* history: what the driver transmitted
    divQueue,   \* WinDivertQueue.packets, by their lengths
    divBytes    \* WinDivertQueue.current_bytes

handleVars == <<wdState, wdNative, driver, unclosed>>
runtimeVars == <<wdNextId, pending, onBus, taken, runtime, sent>>
queueVars == <<divQueue, divBytes>>
wdVars == <<wdConfig, handleVars, runtimeVars, queueVars>>

-----------------------------------------------------------------------------
(* Configuration (handle.rs, capture.rs, filter.rs)                        *)

\* CaptureConfig::layer_kind: one spelling each, three for the forward layer.
LayerKind(name) ==
    CASE name \in {"network-forward", "network_forward", "networkforward"} -> "network-forward"
      [] name \in {"network", "flow", "socket", "reflect"} -> name
      [] OTHER -> "none"

ValidFilter(f) == f \notin {"", "nul"}

\* CaptureConfig::into_handle_config of a filter and a layer name, and the
\* handle configurations the Host can end up with: the filter of an accepted one
\* is a public field it may still overwrite.
ConfigAccepted(f, name) == LayerKind(name) # "none" /\ ValidFilter(f)
HandleConfigs ==
    {[filter |-> g, layer |-> LayerKind(name)] :
        g \in WdFilters,
        name \in {n \in WdLayers : \E f \in WdFilters : ConfigAccepted(f, n)}}

WdInit ==
    /\ wdConfig \in HandleConfigs
    /\ wdState = "Closed" /\ wdNative = NoNative /\ driver = {} /\ unclosed = {}
    /\ wdNextId = 1 /\ pending = [i \in {} |-> 0]
    /\ onBus = {} /\ taken = {} /\ runtime = 0 /\ sent = <<>>
    /\ divQueue = <<>> /\ divBytes = 0

-----------------------------------------------------------------------------
(* The handle (handle.rs), used by itself until a runtime is started      *)

CanOpen == wdState \in {"Closed", "Failed"}
CanClose == wdState \in {"Open", "Failed"}

\* WinDivertOpen hands out the lowest handle that is not open.
FreshHandles == {h \in (1 .. MaxDivertHandles) \ driver : \A g \in 1 .. h - 1 : g \in driver}

\* open.  A filter with an embedded NUL leaves the handle in Opening, which
\* neither open nor close accepts.
HandleOpen ==
    /\ runtime = 0 /\ CanOpen
    /\ \/ /\ wdConfig.filter = "nul" /\ wdState' = "Opening"
          /\ UNCHANGED <<wdNative, driver>>
       \/ /\ wdConfig.filter # "nul" /\ wdState' = "Failed"
          /\ UNCHANGED <<wdNative, driver>>
       \/ /\ wdConfig.filter = "true" /\ wdState' = "Open"
          /\ \E h \in FreshHandles : wdNative' = h /\ driver' = driver \cup {h}
    /\ UNCHANGED <<wdConfig, unclosed, runtimeVars, queueVars>>

\* WinDivertClose of the handle, which the code forgets whatever it answers.
Released(ok) ==
    /\ wdNative' = NoNative
    /\ driver' = IF ok THEN driver \ {wdNative} ELSE driver
    /\ unclosed' = IF ok THEN unclosed ELSE unclosed \cup {wdNative}

Closes(ok) ==
    /\ CanClose
    /\ \/ wdNative # NoNative /\ Released(ok) /\ wdState' = IF ok THEN "Closed" ELSE "Failed"
       \/ wdNative = NoNative /\ ok /\ wdState' = "Closed" /\ UNCHANGED <<wdNative, driver, unclosed>>

HandleClose(ok) ==
    runtime = 0 /\ Closes(ok) /\ UNCHANGED <<wdConfig, runtimeVars, queueVars>>

\* WinDivertBackend::drop closes, then the handle's own drop closes what is left;
\* a runtime's contexts go with it, and a backend made again starts Closed.
HandleDrop(ok) ==
    /\ \/ wdNative # NoNative /\ Released(ok)
       \/ wdNative = NoNative /\ ok /\ UNCHANGED <<wdNative, driver, unclosed>>
    /\ wdState' = "Closed" /\ pending' = [i \in {} |-> 0]
    /\ UNCHANGED <<wdConfig, wdNextId, onBus, taken, runtime, sent, queueVars>>

\* require_open, which also guards set_queue_length.
RequireOpen == wdState = "Open" /\ wdNative # NoNative

-----------------------------------------------------------------------------
(* Addresses (ffi.rs) and the primitives (actions.rs)                      *)

\* WinDivertAddress::to_bytes: every field in its own place; from_bytes takes
\* only the exact length.
ToBytes(a) == <<IF a.outbound THEN 1 ELSE 0, a.interface>>
FromBytes(bytes) ==
    IF Len(bytes) # 2 THEN NoNative
    ELSE [outbound |-> bytes[1] = 1, interface |-> bytes[2]]

\* InterceptedPacket::from_native keeps the address next to what it reads of it.
FromNative(a) ==
    [direction |-> IF a.outbound THEN "Outbound" ELSE "Inbound",
     interface |-> a.interface, address |-> a]

\* reinject reaches WinDivertSend: the handle is open and the data is neither
\* empty nor too long.  The checksum helper, the send itself and a short send
\* may still fail.
Sendable(len) == RequireOpen /\ len \in 1 .. MaxPacketSize

-----------------------------------------------------------------------------
(* The capture runtime (backend_runtime.rs)                                *)

\* start: a handle of its own, ids from 1 and no contexts.  What the bus still
\* holds of an earlier runtime stays there.
RuntimeStart ==
    /\ runtime < MaxRuntimes /\ wdState = "Closed" /\ ValidFilter(wdConfig.filter)
    /\ \E h \in FreshHandles : wdNative' = h /\ driver' = driver \cup {h}
    /\ wdState' = "Open" /\ runtime' = runtime + 1
    /\ wdNextId' = 1 /\ pending' = [i \in {} |-> 0]
    /\ UNCHANGED <<wdConfig, unclosed, onBus, taken, sent, queueVars>>

\* An address is kept for the observation it was published with.
Context(id, a) == [i \in DOMAIN pending \cup {id} |-> IF i = id THEN a ELSE pending[i]]

\* poll: nothing is received while every context is waiting.  A packet that
\* comes while the bus is full (or closed) is gone: neither published nor sent.
Poll(a, published) ==
    /\ runtime > 0 /\ wdNextId <= MaxIntercepted
    /\ Cardinality(DOMAIN pending) < WdCapacity
    /\ RequireOpen
    /\ wdNextId' = wdNextId + 1
    /\ published => Cardinality(onBus) < WdCapacity
    /\ IF published
       THEN /\ onBus' = onBus \cup {[of |-> runtime, id |-> wdNextId, packet |-> FromNative(a)]}
            /\ pending' = Context(wdNextId, FromNative(a).address)
       ELSE UNCHANGED <<onBus, pending>>
    /\ UNCHANGED <<wdConfig, handleVars, taken, runtime, sent, queueVars>>

\* The processing worker (ffi/src/processing.rs) takes an observation off the bus.
Take(o) ==
    /\ onBus' = onBus \ {o} /\ taken' = taken \cup {o}
    /\ UNCHANGED <<wdConfig, handleVars, wdNextId, pending, runtime, sent, queueVars>>

Forgotten(id) == [i \in DOMAIN pending \ {id} |-> pending[i]]

\* execute_decision of Pass or Inspect.  A send that fails keeps the context, so
\* that the decision can be executed again.
ExecutePass(o, len, ok) ==
    /\ o.id \in DOMAIN pending /\ Sendable(len)
    /\ IF ok
       THEN /\ pending' = Forgotten(o.id)
            /\ sent' = Append(sent, [packet |-> o, address |-> pending[o.id], by |-> runtime])
       ELSE UNCHANGED <<pending, sent>>
    /\ UNCHANGED <<wdConfig, handleVars, wdNextId, onBus, taken, runtime, queueVars>>

\* execute_decision of Drop only forgets the context.
ExecuteDrop(o) ==
    /\ o.id \in DOMAIN pending /\ pending' = Forgotten(o.id)
    /\ UNCHANGED <<wdConfig, handleVars, wdNextId, onBus, taken, runtime, sent, queueVars>>

\* WinDivertBackend::reinject_with_context: the path of the C ABI, which carries
\* the address as bytes and keeps no context here.
Recovered(a) == FromBytes(ToBytes(a))

\* stop: the contexts go before the handle is closed.
RuntimeStop(ok) ==
    /\ runtime > 0 /\ Closes(ok)
    /\ pending' = [i \in {} |-> 0]
    /\ UNCHANGED <<wdConfig, wdNextId, onBus, taken, runtime, sent, queueVars>>

DivertNext ==
    \/ HandleOpen \/ RuntimeStart
    \/ \E ok \in BOOLEAN : HandleClose(ok) \/ HandleDrop(ok) \/ RuntimeStop(ok)
    \/ \E a \in Addresses, published \in BOOLEAN : Poll(a, published)
    \/ \E o \in onBus : Take(o)
    \/ \E o \in taken :
          \/ ExecuteDrop(o)
          \/ \E len \in PacketSizes, ok \in BOOLEAN : ExecutePass(o, len, ok)

-----------------------------------------------------------------------------
(* The backend's queue (queue.rs, packet.rs)                               *)

\* with_limits raises both limits to one.
AtLeastOne(n) == IF n = 0 THEN 1 ELSE n

\* WinDivertPacket::new refuses what is empty or too long, push what does not
\* fit the packets or the bytes.
Fits(len) ==
    /\ len \in 1 .. MaxPacketSize
    /\ len <= AtLeastOne(QueueBytes)
    /\ Len(divQueue) < AtLeastOne(QueuePackets)
    /\ divBytes + len <= AtLeastOne(QueueBytes)

DivertPush(len) ==
    /\ Fits(len)
    /\ divQueue' = Append(divQueue, len) /\ divBytes' = divBytes + len
    /\ UNCHANGED <<wdConfig, handleVars, runtimeVars>>

\* The subtraction saturates at zero.
DivertPop ==
    /\ divQueue # <<>>
    /\ divQueue' = Tail(divQueue)
    /\ divBytes' = IF divBytes < Head(divQueue) THEN 0 ELSE divBytes - Head(divQueue)
    /\ UNCHANGED <<wdConfig, handleVars, runtimeVars>>

DivertClear ==
    /\ divQueue' = <<>> /\ divBytes' = 0
    /\ UNCHANGED <<wdConfig, handleVars, runtimeVars>>

DivertQueueNext ==
    \/ DivertPop \/ DivertClear
    \/ \E len \in PacketSizes : DivertPush(len)

-----------------------------------------------------------------------------
\* The driver holds exactly the handle's own native handle and those it refused
\* to close; the handle has one exactly while it is Open.
DivertHandlesOwned ==
    /\ driver = ({wdNative} \ {NoNative}) \cup unclosed
    /\ wdNative # NoNative => wdNative \notin unclosed
    /\ wdNative # NoNative <=> wdState = "Open"

\* Whatever decisions are repeated, a context is used for one packet sent, with
\* the address of the packet it was made for, and there are never more contexts
\* than the bus has places; the address survives its way through bytes.  Ids begin
\* again with each runtime: a packet of an earlier one is sent, if at all, with the
\* context, and so the address, of the packet that has its id now.
ContextsMatchPackets ==
    /\ Cardinality(DOMAIN pending) <= WdCapacity
    /\ \A o \in onBus \cup taken :
          o.of = runtime /\ o.id \in DOMAIN pending => pending[o.id] = o.packet.address
    /\ \A i \in DOMAIN sent :
          /\ \A o \in onBus \cup taken :
                o.of = sent[i].by /\ o.id = sent[i].packet.id => sent[i].address = o.packet.address
          /\ Recovered(sent[i].address) = sent[i].address
          /\ \A j \in DOMAIN sent :
                sent[j].packet.id = sent[i].packet.id /\ sent[j].by = sent[i].by => j = i

\* The bytes of a queue, added up.
BytesOf(q) ==
    LET sum[n \in 0 .. Len(q)] == IF n = 0 THEN 0 ELSE sum[n - 1] + q[n]
    IN  sum[Len(q)]

\* The queue counts the bytes it holds, and both its limits hold.
QueueCountsBytes ==
    /\ divBytes = BytesOf(divQueue)
    /\ divBytes <= AtLeastOne(QueueBytes) /\ Len(divQueue) <= AtLeastOne(QueuePackets)
=============================================================================
