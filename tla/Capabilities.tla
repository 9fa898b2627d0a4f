---------------------------- MODULE Capabilities ----------------------------
(***************************************************************************)
(* The capability tables of the Engine: what a capability is               *)
(* (crates/backend-manager/src/capabilities.rs), which backend declares    *)
(* it (crates/backend-contracts/src/known.rs), which backend the Engine    *)
(* intends for it (complementarity.rs), which order it is listed in        *)
(* (failover.rs, registry.rs) and which capability a kind of work needs    *)
(* (crates/ffi/src/load_balancer.rs).  Everything here is a constant.      *)
(***************************************************************************)
EXTENDS Naturals, Sequences, FiniteSets, SequencesExt, Lists

\* BackendCapability: the discriminants of the C ABI.
Code ==
    [Capture |-> 0, Interception |-> 1, Filtering |-> 2, Inspection |-> 3, Direction |-> 4,
     Ipv4 |-> 10, Ipv6 |-> 11, Tcp |-> 12, Udp |-> 13, Icmp |-> 14, IcmpV6 |-> 15,
     NetworkLayer |-> 20, AddressMetadata |-> 21,
     Modification |-> 30, Drop |-> 31, Pass |-> 32, Reinjection |-> 33,
     QueueControl |-> 40, HandleLifetime |-> 41, ErrorReporting |-> 42,
     L2Capture |-> 50, RawEthernet |-> 51, AdapterEnumeration |-> 52,
     WfpEngineAccess |-> 60, WfpFilters |-> 61, WfpLayers |-> 62, WfpFlows |-> 63,
     InterfaceInfo |-> 70, RouteInfo |-> 71, NeighborInfo |-> 72, GatewayInfo |-> 73,
     Diagnostics |-> 80, Telemetry |-> 81, Forwarding |-> 90, NatState |-> 91]

Capability == DOMAIN Code

\* from_u16, a table of its own: the values it accepts, by their first code.
FromU16 ==
    [v \in (0 .. 4) \cup (10 .. 15) \cup (20 .. 21) \cup (30 .. 33) \cup (40 .. 42) \cup (50 .. 52)
           \cup (60 .. 63) \cup (70 .. 73) \cup (80 .. 81) \cup (90 .. 91) |->
       CASE v \in 0 .. 4   -> <<"Capture", "Interception", "Filtering", "Inspection", "Direction">>[v + 1]
         [] v \in 10 .. 15 -> <<"Ipv4", "Ipv6", "Tcp", "Udp", "Icmp", "IcmpV6">>[v - 9]
         [] v \in 20 .. 21 -> <<"NetworkLayer", "AddressMetadata">>[v - 19]
         [] v \in 30 .. 33 -> <<"Modification", "Drop", "Pass", "Reinjection">>[v - 29]
         [] v \in 40 .. 42 -> <<"QueueControl", "HandleLifetime", "ErrorReporting">>[v - 39]
         [] v \in 50 .. 52 -> <<"L2Capture", "RawEthernet", "AdapterEnumeration">>[v - 49]
         [] v \in 60 .. 63 -> <<"WfpEngineAccess", "WfpFilters", "WfpLayers", "WfpFlows">>[v - 59]
         [] v \in 70 .. 73 -> <<"InterfaceInfo", "RouteInfo", "NeighborInfo", "GatewayInfo">>[v - 69]
         [] v \in 80 .. 81 -> <<"Diagnostics", "Telemetry">>[v - 79]
         [] v \in 90 .. 91 -> <<"Forwarding", "NatState">>[v - 89]]

\* all_known: the capabilities of a coverage report, in its order.
AllKnown ==
    <<"Capture", "Interception", "Filtering", "Inspection", "Direction", "Ipv4", "Ipv6", "Tcp",
      "Udp", "Icmp", "IcmpV6", "NetworkLayer", "AddressMetadata", "Modification", "Drop", "Pass",
      "Reinjection", "QueueControl", "HandleLifetime", "ErrorReporting", "L2Capture",
      "RawEthernet", "AdapterEnumeration", "WfpEngineAccess", "WfpFilters", "WfpLayers",
      "WfpFlows", "InterfaceInfo", "RouteInfo", "NeighborInfo", "GatewayInfo", "Diagnostics",
      "Telemetry", "Forwarding", "NatState">>

\* capability_sort_key of failover.rs and of registry.rs: the key of a
\* capability is its place in this list.
SortOrder ==
    <<"Capture", "Interception", "Filtering", "Inspection", "Direction", "Ipv4", "Ipv6", "Tcp",
      "Udp", "Icmp", "IcmpV6", "NetworkLayer", "AddressMetadata", "Modification", "Drop", "Pass",
      "Reinjection", "QueueControl", "HandleLifetime", "ErrorReporting", "L2Capture",
      "RawEthernet", "AdapterEnumeration", "WfpEngineAccess", "WfpFilters", "WfpLayers",
      "WfpFlows", "InterfaceInfo", "RouteInfo", "NeighborInfo", "GatewayInfo", "Diagnostics",
      "Telemetry", "Forwarding", "NatState">>

\* A set of capabilities listed by that key.
Listed(caps) == Picked(SortOrder, {i \in DOMAIN SortOrder : SortOrder[i] \in caps})

-----------------------------------------------------------------------------
(* What the built-in backends declare.                                      *)

NpcapCapabilities ==
    {"Capture", "Inspection", "L2Capture", "RawEthernet", "AdapterEnumeration",
     "AddressMetadata", "ErrorReporting"}

WinDivertCapabilities ==
    {"Capture", "Interception", "Filtering", "Inspection", "Direction", "Ipv4", "Ipv6", "Tcp",
     "Udp", "Icmp", "IcmpV6", "NetworkLayer", "AddressMetadata", "Modification", "Drop", "Pass",
     "Reinjection", "QueueControl", "HandleLifetime", "ErrorReporting"}

WfpCapabilities ==
    {"Filtering", "Inspection", "Interception", "WfpEngineAccess", "WfpFilters", "WfpLayers",
     "WfpFlows", "AddressMetadata", "ErrorReporting"}

IpHelperCapabilities ==
    {"InterfaceInfo", "RouteInfo", "NeighborInfo", "GatewayInfo", "AdapterEnumeration",
     "ErrorReporting"}

EtwCapabilities == {"Diagnostics", "Telemetry", "ErrorReporting"}

Declared == [npcap |-> NpcapCapabilities, windivert |-> WinDivertCapabilities,
             wfp |-> WfpCapabilities, iphelper |-> IpHelperCapabilities, etw |-> EtwCapabilities]

\* descriptor.role: the packet backends are primaries, the others keep the default.
PrimaryRole == {"npcap", "windivert", "wfp"}

\* CapabilityFallbackMatrix: the layout the Engine intends.
MatrixPrimary(c) ==
    CASE c \in {"Capture", "L2Capture", "RawEthernet", "AdapterEnumeration"} -> {"npcap"}
      [] c \in {"WfpEngineAccess", "WfpFilters", "WfpLayers", "WfpFlows"} -> {"wfp"}
      [] c \in {"InterfaceInfo", "RouteInfo", "NeighborInfo", "GatewayInfo"} -> {"iphelper"}
      [] c \in {"Diagnostics", "Telemetry"} -> {"etw"}
      [] c \in {"Forwarding", "NatState"} -> {}         \* owned by the Engine
      [] OTHER -> {"windivert"}

-----------------------------------------------------------------------------
(* Work kinds.                                                              *)

PrimaryCapability ==
    [L2Observation |-> "L2Capture", L3Capture |-> "Capture", Filtering |-> "Filtering",
     Modification |-> "Modification", Reinjection |-> "Reinjection", Metadata |-> "WfpFlows",
     FlowInfo |-> "WfpFlows", NetworkState |-> "InterfaceInfo", Diagnostics |-> "Diagnostics"]

WorkKind == DOMAIN PrimaryCapability

\* The capabilities tried after the primary one: at most one.
FallbackCapability ==
    [L2Observation |-> {"Capture"}, L3Capture |-> {"L2Capture"}, Filtering |-> {"Drop"},
     Modification |-> {}, Reinjection |-> {}, Metadata |-> {"WfpFlows"}, FlowInfo |-> {},
     NetworkState |-> {"NeighborInfo"}, Diagnostics |-> {}]

\* check_requirements: which requirements [capability, required] a set misses.
CheckRequirements(available, requirements) ==
    LET missing == {r \in requirements : r.capability \notin available}
    IN [missingRequired |-> {r.capability : r \in {q \in missing : q.required}},
        missingOptional |-> {r.capability : r \in {q \in missing : ~q.required}}]

Satisfied(check) == check.missingRequired = {}

-----------------------------------------------------------------------------
\* The five tables list the same capabilities, each once and in the same order:
\* a capability added to one of them only would be undecodable, missing from
\* every coverage report, or out of place in a listing.
TablesAgree ==
    /\ DOMAIN FromU16 = {Code[c] : c \in Capability}
    /\ \A v \in DOMAIN FromU16 : Code[FromU16[v]] = v
    /\ AllKnown = SortOrder
    /\ ToSet(AllKnown) = Capability
    /\ \A i, j \in DOMAIN AllKnown : i < j => Code[AllKnown[i]] < Code[AllKnown[j]]
    /\ \A b \in DOMAIN Declared : Declared[b] \subseteq Capability
    /\ \A k \in WorkKind : {PrimaryCapability[k]} \cup FallbackCapability[k] \subseteq Capability

\* Everything the Engine intends a backend for as a primary, that backend declares.
PrimariesDeclare ==
    \A c \in Capability : \A b \in MatrixPrimary(c) : c \in Declared[b]
=============================================================================
