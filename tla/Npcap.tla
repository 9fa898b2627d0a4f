------------------------------- MODULE Npcap --------------------------------
(***************************************************************************)
(* The Npcap backend (backend-npcap/src): a backend that owns capture      *)
(* sessions, each holding at most one native pcap handle, an adapter table *)
(* that names the device of an interface index, and a device manager.      *)
(* Every call takes &mut self, so a step is a whole call.                  *)
(*                                                                         *)
(* The session's counters and the adapter table decide what a capture may  *)
(* do; the devices are kept apart and nothing asks them before opening.    *)
(***************************************************************************)
EXTENDS Integers, FiniteSets, Sequences

CONSTANTS
    Interfaces,    \* interface indexes the Host names, 0 (unresolved) included
    DeviceNames,   \* native device names
    NoName,        \* a name that is blank once trimmed
    Snaplens,      \* snapshot lengths the Host asks for
    MaxSnaplen,    \* 65535
    MaxLength,     \* bound: longest length in a packet header
    MaxCounter,    \* where a statistic saturates (u64::MAX)
    MaxCaptures,   \* bound: sessions created
    MaxObserved,   \* bound: observation ids issued
    NoHandle

ASSUME NpcapAssumption ==
    /\ Interfaces \subseteq Nat
    /\ NoName \notin DeviceNames
    /\ MaxSnaplen \in Nat \ {0} /\ Snaplens \subseteq Nat
    /\ MaxLength \in Nat /\ MaxCounter \in Nat \ {0}
    /\ MaxCaptures \in Nat /\ MaxObserved \in Nat /\ NoHandle \notin Nat

VARIABLES
    npState,     \* NpcapBackend.state
    captures,    \* the sessions, by capture id
    adapters,    \* AdapterTable: index |-> device name
    devices,     \* DeviceManager: name |-> DeviceState
    nextId,      \* next_observation_id
    pcap         \* external: the pcap handles that are open

captureVars == <<captures, pcap>>
npVars == <<npState, captureVars, adapters, devices, nextId>>

DeviceStates == {"Unknown", "Available", "Open", "Closed", "Failed"}

Configs == [interface : Interfaces, snaplen : Snaplens]

Ids == 1 .. Len(captures)

Handles == 1 .. MaxCaptures + 1

Empty == [n \in {} |-> NoName]

NpInit ==
    /\ npState = "Stopped" /\ captures = <<>> /\ adapters = Empty
    /\ devices = Empty /\ nextId = 1 /\ pcap = {}

-----------------------------------------------------------------------------
(* Sessions (capture.rs)                                                   *)

ValidConfig(c) == c.interface # 0 /\ c.snaplen > 0 /\ c.snaplen <= MaxSnaplen

NewSession(c) == [config |-> c, state |-> "Stopped", handle |-> NoHandle,
                  packets |-> 0, bytes |-> 0]

\* close_native_handle: the session forgets the handle as it closes it.
Closed(s) == [s EXCEPT !.handle = NoHandle]

HandlesOf(sessions) ==
    {sessions[i].handle : i \in DOMAIN sessions} \ {NoHandle}

\* The sessions change and the native side holds what opens or closes leave.
SetSession(i, s, open) == captures' = [captures EXCEPT ![i] = s] /\ pcap' = open

\* CaptureSession::start once a device name was found.  A handle whose
\* direction cannot be set is closed again.
SessionStart(i, name) ==
    /\ captures[i].state # "Running"
    /\ \/ SetSession(i, [captures[i] EXCEPT !.state = "Failed", !.handle = NoHandle], pcap)
       \/ /\ name # NoName
          /\ \E h \in Handles \ pcap :
                SetSession(i, [captures[i] EXCEPT !.state = "Running", !.handle = h],
                           pcap \cup {h})

SessionStop(i) ==
    /\ captures[i].state = "Running"
    /\ SetSession(i, [Closed(captures[i]) EXCEPT !.state = "Stopped"],
                  pcap \ {captures[i].handle})

Saturated(n, m) == IF n + m > MaxCounter THEN MaxCounter ELSE n + m

\* What pcap_next_ex may report.
PcapReceiveStatus(raw) ==
    CASE raw = 1 -> "Packet" [] raw = 0 -> "Timeout" [] raw = -2 -> "EndOfCapture"
      [] OTHER -> "Error"

Headers == [caplen : 0 .. MaxLength, len : 0 .. MaxLength, stamped : BOOLEAN]

ValidHeader(h) == h.caplen > 0 /\ h.len > 0 /\ h.caplen <= h.len

\* validate_packet_header, the snaplen test, the timestamp, from_pcap and
\* record_packet: a packet that fails one of them is dropped, the session runs on.
Accepted(s, h) == ValidHeader(h) /\ h.caplen <= s.config.snaplen /\ h.stamped

Recorded(s, h) == [s EXCEPT !.packets = Saturated(@, 1), !.bytes = Saturated(@, h.caplen)]

\* Bug: the session fails and keeps a handle it has closed.
SessionBroken_KeepsHandle(i) ==
    SetSession(i, [captures[i] EXCEPT !.state = "Failed"], pcap \ {captures[i].handle})

\* End of capture, a receive error or a null pointer.
SessionBroken(i) ==
    SetSession(i, [Closed(captures[i]) EXCEPT !.state = "Failed"],
               pcap \ {captures[i].handle})

Delivered(i, h) == SetSession(i, Recorded(captures[i], h), pcap)

-----------------------------------------------------------------------------
(* The backend (lib.rs)                                                    *)

\* Refused only while Running: a degraded or failed backend starts again.
NpStart ==
    /\ npState # "Running"
    /\ npState' = "Running"
    /\ UNCHANGED <<captureVars, adapters, devices, nextId>>

\* Only running sessions are stopped.
NpStop ==
    /\ npState \in {"Running", "Degraded"}
    /\ npState' = "Stopped"
    /\ captures' = [i \in Ids |->
            IF captures[i].state = "Running"
            THEN [Closed(captures[i]) EXCEPT !.state = "Stopped"] ELSE captures[i]]
    /\ pcap' = pcap \ {captures[i].handle : i \in {j \in Ids : captures[j].state = "Running"}}
    /\ UNCHANGED <<adapters, devices, nextId>>

NpDegrade ==
    /\ npState = "Running"
    /\ npState' = "Degraded"
    /\ UNCHANGED <<captureVars, adapters, devices, nextId>>

\* The sessions are left as they are.
NpFail ==
    /\ npState' = "Failed"
    /\ UNCHANGED <<captureVars, adapters, devices, nextId>>

CreateCapture ==
    /\ npState = "Running" /\ Len(captures) < MaxCaptures
    /\ \E c \in Configs :
          ValidConfig(c) /\ captures' = Append(captures, NewSession(c))
    /\ UNCHANGED <<npState, adapters, devices, nextId, pcap>>

StartCapture(i) ==
    /\ npState = "Running" /\ captures[i].config.interface \in DOMAIN adapters
    /\ SessionStart(i, adapters[captures[i].config.interface])
    /\ UNCHANGED <<npState, adapters, devices, nextId>>

\* Asks nothing of the backend's state.
StopCapture(i) ==
    /\ SessionStop(i)
    /\ UNCHANGED <<npState, adapters, devices, nextId>>

Receiving(i) == npState \in {"Running", "Degraded"} /\ captures[i].state = "Running"

\* receive_packet: a timeout, or a packet that is refused, changes nothing.
ReceivePacket(i) ==
    /\ Receiving(i)
    /\ \E raw \in {1, 0, -2, -1} :
          \/ PcapReceiveStatus(raw) = "Packet"
             /\ \E h \in Headers : Accepted(captures[i], h) /\ Delivered(i, h)
          \/ PcapReceiveStatus(raw) \in {"Packet", "EndOfCapture", "Error"}
             /\ SessionBroken(i)
    /\ UNCHANGED <<npState, adapters, devices, nextId>>

\* receive_observation: as receive_packet, and only a delivered packet takes an
\* id.  An adapter that is gone by now is named after its index.
ReceiveObservation(i) ==
    /\ Receiving(i) /\ nextId <= MaxObserved
    /\ \E h \in Headers : Accepted(captures[i], h) /\ Delivered(i, h)
    /\ nextId' = nextId + 1
    /\ UNCHANGED <<npState, adapters, devices>>

ResetStatistics(i) ==
    /\ captures' = [captures EXCEPT ![i].packets = 0, ![i].bytes = 0]
    /\ UNCHANGED <<npState, adapters, devices, nextId, pcap>>

\* Dropping a session closes its handle, whatever its state; ids start again.
ClearRuntimeState ==
    /\ pcap' = pcap \ HandlesOf(captures)
    /\ captures' = <<>> /\ adapters' = Empty /\ devices' = Empty /\ nextId' = 1
    /\ UNCHANGED npState

\* The backend is dropped, and a new one is made.
NpDrop ==
    /\ pcap' = pcap \ HandlesOf(captures)
    /\ captures' = <<>> /\ adapters' = Empty /\ devices' = Empty /\ nextId' = 1
    /\ npState' = "Stopped"

-----------------------------------------------------------------------------
(* Adapters and devices (adapter.rs, device.rs)                            *)

\* insert replaces the entry of an index and refuses index 0; a blank name is
\* only ever written through get_mut.
AdapterSet(n, name) ==
    /\ n # 0
    /\ name = NoName => n \in DOMAIN adapters
    /\ adapters' = [m \in DOMAIN adapters \cup {n} |-> IF m = n THEN name ELSE adapters[m]]
    /\ UNCHANGED <<npState, captureVars, devices, nextId>>

AdapterRemove(n) ==
    /\ n \in DOMAIN adapters
    /\ adapters' = [m \in DOMAIN adapters \ {n} |-> adapters[m]]
    /\ UNCHANGED <<npState, captureVars, devices, nextId>>

SetDevices(d) == devices' = d /\ UNCHANGED <<npState, captureVars, adapters, nextId>>

WithDevice(d, name, s) == [n \in DOMAIN d \cup {name} |-> IF n = name THEN s ELSE d[n]]

\* add keeps the entry it already has.
Added(d, name, s) == IF name \in DOMAIN d THEN d ELSE WithDevice(d, name, s)

DeviceAdd(name) == SetDevices(Added(devices, name, "Unknown"))

\* A failed device stays failed until it is marked otherwise.
DeviceOpen(name) ==
    /\ name \in DOMAIN devices /\ devices[name] \notin {"Open", "Failed"}
    /\ SetDevices(WithDevice(devices, name, "Open"))

DeviceClose(name) ==
    /\ name \in DOMAIN devices /\ devices[name] = "Open"
    /\ SetDevices(WithDevice(devices, name, "Closed"))

\* get_mut and one of mark_available, mark_open, mark_closed, mark_failed.
DeviceMark(name, s) ==
    /\ name \in DOMAIN devices /\ s # "Unknown"
    /\ SetDevices(WithDevice(devices, name, s))

DeviceRemove(name) ==
    /\ name \in DOMAIN devices
    /\ SetDevices([n \in DOMAIN devices \ {name} |-> devices[n]])

\* enumerate lists what pcap_findalldevs names, without the blank names.
Enumerated(found) == SelectSeq(found, LAMBDA f : f.name # NoName)

DeviceStateOf(f) == IF f.up THEN "Available" ELSE "Closed"

\* refresh replaces every device, an open one too; a name listed twice counts
\* once.  An empty or failed enumeration is an error that changes nothing.
DeviceRefresh(found) ==
    /\ Enumerated(found) # <<>>
    /\ SetDevices([n \in {Enumerated(found)[i].name : i \in DOMAIN Enumerated(found)} |->
            DeviceStateOf(Enumerated(found)[CHOOSE i \in DOMAIN Enumerated(found) :
                /\ Enumerated(found)[i].name = n
                /\ \A j \in 1 .. i - 1 : Enumerated(found)[j].name # n])])

Found == [name : DeviceNames \cup {NoName}, up : BOOLEAN]

-----------------------------------------------------------------------------
CaptureNext ==
    \/ NpStart \/ NpStop \/ NpDegrade \/ NpFail \/ CreateCapture
    \/ ClearRuntimeState \/ NpDrop
    \/ \E i \in Ids :
          \/ StartCapture(i) \/ StopCapture(i) \/ ReceivePacket(i)
          \/ ReceiveObservation(i) \/ ResetStatistics(i)
    \/ \E n \in Interfaces, name \in DeviceNames \cup {NoName} : AdapterSet(n, name)
    \/ \E n \in Interfaces : AdapterRemove(n)

DeviceNext ==
    \/ \E name \in DeviceNames :
          \/ DeviceAdd(name) \/ DeviceOpen(name) \/ DeviceClose(name) \/ DeviceRemove(name)
          \/ \E s \in DeviceStates : DeviceMark(name, s)
    \/ \E f \in Found : DeviceRefresh(<<f>>)
    \/ \E f, g \in Found : DeviceRefresh(<<f, g>>)

-----------------------------------------------------------------------------
\* The native side holds exactly the handles of the running sessions, one each:
\* nothing leaks, and no session keeps a handle that was closed or given away.
PcapHandlesOwned ==
    /\ pcap = HandlesOf(captures)
    /\ \A i \in Ids : captures[i].handle # NoHandle <=> captures[i].state = "Running"
    /\ \A i, j \in Ids : i # j /\ captures[i].handle = captures[j].handle
                            => captures[i].handle = NoHandle

\* A stopped backend has no running session, even one it ran while failed.
StoppedIsQuiet == npState = "Stopped" => \A i \in Ids : captures[i].state # "Running"

\* Until a counter saturates, bytes lie between one and snaplen per packet.
CountersAgree ==
    \A i \in Ids :
        /\ captures[i].packets <= captures[i].bytes
        /\ captures[i].packets < MaxCounter =>
              captures[i].bytes <= captures[i].packets * captures[i].config.snaplen
=============================================================================
