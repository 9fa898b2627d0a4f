------------------------- MODULE GatewayCapability -------------------------
(***************************************************************************)
(* The Gateway capability (crates/gateway-capability/src/lib.rs): its      *)
(* administrative state, the context that decides whether it may run, and  *)
(* the runtime tables of GatewayTables.  The lifecycle and the tables are  *)
(* independent, except that EngineRuntime::gateway_config replaces the     *)
(* whole capability, tables included, whatever it was doing.               *)
(***************************************************************************)
EXTENDS GatewayTables

-----------------------------------------------------------------------------
(* The Host's gateway policy: how the C call gateway_config reads it       *)
(* (ffi/src/api.rs), what makes it valid (network-core/src/policy.rs), and *)
(* what EngineRuntime::gateway_config and gateway_start ask of the system  *)
(* before they take it (ffi/src/gateway.rs).                               *)

CONSTANTS
    GatewayConfigs,   \* NeGatewayConfig values: numbers, 0 for "no interface"
    KnownInterfaces,  \* the interfaces of the NetworkState
    CapabilitySets    \* what backends may offer when the Gateway is configured

ForwardingCaps == {"forwarding", "routing", "neighbor"}    \* forwarding_ready
GatewayCaps == ForwardingCaps \cup {"nat"}

ASSUME CapabilitySetsAssumption == CapabilitySets \subseteq SUBSET GatewayCaps
ASSUME KnownInterfacesAssumption == 0 \notin KnownInterfaces

\* The C structure's fields are 0 or 1 where they stand for a Boolean, and name
\* one of four modes.
WellFormed(c) ==
    /\ c.enabled <= 1 /\ c.natEnabled <= 1 /\ c.forwardingEnabled <= 1 /\ c.decision <= 1
    /\ c.natMode <= 3

PolicyOf(c) ==
    [enabled |-> c.enabled # 0,
     allow |-> c.decision # 0,
     nat |-> [enabled |-> c.natEnabled # 0,
              mode |-> <<"Disabled", "SourceNat", "DestinationNat", "Masquerade">>[c.natMode + 1],
              external |-> c.external],
     forwarding |-> [enabled |-> c.forwardingEnabled # 0,
                     ingress |-> c.ingress, egress |-> c.egress],
     preferred |-> c.preferred]

\* A mode and the flag go together, and every mode needs the interface.
ValidNat(n) ==
    /\ n.enabled <=> n.mode # "Disabled"
    /\ n.enabled => n.external # 0

ValidForwarding(f) ==
    f.enabled => f.ingress # 0 /\ f.egress # 0 /\ f.ingress # f.egress

\* GatewayPolicy::validate.  The C call always gives both parts, so an enabled
\* policy is never without a forwarding part.
ValidPolicy(p) == ValidNat(p.nat) /\ ValidForwarding(p.forwarding)

\* The interfaces the policy relies on.
Needed(p) ==
    (IF p.nat.enabled THEN {p.nat.external} ELSE {})
      \cup (IF p.forwarding.enabled THEN {p.forwarding.ingress, p.forwarding.egress} ELSE {})
      \cup ({p.preferred} \ {0})

\* EngineRuntime::gateway_config accepts the policy.
Accepts(p, available) ==
    /\ ValidPolicy(p)
    /\ Needed(p) \subseteq KnownInterfaces
    /\ p.forwarding.enabled => ForwardingCaps \subseteq available

ConfigAccepted(c, available) == WellFormed(c) /\ Accepts(PolicyOf(c), available)

\* The capabilities handed to the Gateway: what backends offer, and NAT exactly
\* when the policy asks for it.
Offered(c, available) ==
    (available \ {"nat"}) \cup (IF PolicyOf(c).nat.enabled THEN {"nat"} ELSE {})

\* What a Gateway can be configured to: the policy's flag and the capabilities.
Configurations ==
    {[enabled |-> PolicyOf(k[1]).enabled, caps |-> Offered(k[1], k[2])] :
        k \in {k \in GatewayConfigs \X CapabilitySets : ConfigAccepted(k[1], k[2])}}

\* GatewayContext::can_start.
MayStart(on, capabilities, s) ==
    on /\ ForwardingCaps \subseteq capabilities /\ s \in {"Idle", "Degraded"}

\* gateway_start on a stored policy: its own checks, then GatewayCapability::start.
StartAccepts(p, capabilities, s) ==
    /\ ValidPolicy(p)
    /\ p.forwarding.enabled => ForwardingCaps \subseteq capabilities
    /\ p.nat.enabled => "nat" \in capabilities
    /\ MayStart(p.enabled, capabilities, s)

\* What gateway_config accepts and gateway_start refuses afterwards: an enabled
\* policy that forwards is never refused, whatever backends offered, and the
\* others exactly when they are off or backends lack what forwarding takes (one
\* that only translates, or does neither, is accepted without them).  An accepted
\* policy that forwards names two interfaces the system has.
ConfiguredCanStart ==
    \A c \in GatewayConfigs, available \in CapabilitySets :
       ConfigAccepted(c, available) =>
          LET p == PolicyOf(c)
              starts == StartAccepts(p, Offered(c, available), "Idle")
          IN /\ p.enabled /\ p.forwarding.enabled => starts
             /\ starts <=> p.enabled /\ ForwardingCaps \subseteq available
             /\ p.forwarding.enabled =>
                   \E i, j \in KnownInterfaces : i # j /\ {i, j} \subseteq Needed(p)

-----------------------------------------------------------------------------
(* The capability.                                                         *)

VARIABLES
    state,    \* GatewayStateManager.state
    enabled,  \* GatewayCapability.enabled
    policy,   \* GatewayPolicy.enabled of the context
    caps      \* GatewayContext.capabilities

lifeVars == <<state, enabled, policy, caps>>
gatewayVars == <<now, tableVars, lifeVars>>

GatewayStates == {"Idle", "Active", "Degraded", "Error"}

CanMoveTo(s, n) ==
    \/ s = n
    \/ s = "Idle" /\ n \in {"Active", "Error"}
    \/ s = "Active" /\ n \in {"Idle", "Degraded", "Error"}
    \/ s = "Degraded" /\ n \in {"Active", "Idle", "Error"}
    \/ s = "Error" /\ n = "Idle"

\* GatewayStateManager::transition; a refused one leaves the state alone.
Transition(n) == state' = IF CanMoveTo(state, n) THEN n ELSE state

ForwardingReady == ForwardingCaps \subseteq caps

CanStart == MayStart(policy, caps, state)
CanForward == policy /\ ForwardingReady /\ state \in {"Active", "Degraded"}
IsReady == enabled /\ CanForward

GatewayInit ==
    /\ TablesInit
    /\ state = "Idle"
    /\ enabled = FALSE
    /\ policy = FALSE
    /\ caps = {}

Start ==
    /\ CanStart
    /\ Transition("Active")
    /\ enabled' = TRUE
    /\ UNCHANGED <<now, tableVars, policy, caps>>

\* Bug: stopping drops the connections as well.
Stop_Clears ==
    /\ enabled' = FALSE
    /\ Transition("Idle")
    /\ ClearState
    /\ UNCHANGED <<policy, caps>>

Stop ==
    /\ enabled' = FALSE
    /\ Transition("Idle")
    /\ UNCHANGED <<now, tableVars, policy, caps>>

Degrade ==
    /\ enabled
    /\ Transition("Degraded")
    /\ UNCHANGED <<now, tableVars, enabled, policy, caps>>

Fail ==
    /\ enabled' = FALSE
    /\ Transition("Error")
    /\ UNCHANGED <<now, tableVars, policy, caps>>

\* The Host changes the stored policy through context_mut.
SetPolicy(on) == policy' = on /\ UNCHANGED <<now, tableVars, state, enabled, caps>>

\* EngineRuntime::gateway_config: a new capability with empty tables.
Configure(on, offered) ==
    /\ conn' = Empty
    /\ nat' = Empty /\ byOriginal' = Empty /\ byTranslated' = Empty /\ nextId' = 1
    /\ neigh' = Empty
    /\ state' = "Idle"
    /\ enabled' = FALSE
    /\ policy' = on
    /\ caps' = offered
    /\ UNCHANGED now

LifecycleNext ==
    \/ Start \/ Stop \/ Degrade \/ Fail
    \/ \E on \in BOOLEAN : SetPolicy(on)

RuntimeClear == ClearState /\ UNCHANGED lifeVars

Reconfigure == \E k \in Configurations : Configure(k.enabled, k.caps)

GatewayNext ==
    \/ TablesNext /\ UNCHANGED lifeVars
    \/ RuntimeClear
    \/ LifecycleNext
    \/ Reconfigure

GatewaySpec == GatewayInit /\ [][GatewayNext]_gatewayVars

-----------------------------------------------------------------------------
(* Properties.                                                             *)

\* The capability's state has the declared types and the tables respect
\* their limits.
GatewayTypeOK ==
    /\ TablesTypeOK
    /\ state \in GatewayStates
    /\ enabled \in BOOLEAN /\ policy \in BOOLEAN
    /\ caps \subseteq GatewayCaps

\* The two records of "the Gateway runs" agree: the flag that start and stop
\* set and the state machine (lib.rs start, stop, degrade, fail; gateway_stop
\* asks the flag only).
EnabledMatchesState == enabled <=> state \in {"Active", "Degraded"}

\* What the capability keeps in agreement at every moment: its types and
\* limits, the two NAT indexes, the two records of its being started, and what
\* configuring and starting ask of a policy.
GatewayInv == GatewayTypeOK /\ NatIndexesAgree /\ EnabledMatchesState /\ ConfiguredCanStart

\* Degradation, failure, restarts and cleanups discard no live connection,
\* translation or neighbor: one is lost only when it is removed by name, when
\* the Host clears the runtime, or when gateway_config replaces the running
\* capability (lib.rs, the comment on GatewayRuntime; ffi/src/gateway.rs).
OnlyHostDiscards ==
    [][\/ RuntimeClear
       \/ Reconfigure
       \/ /\ \A k \in DOMAIN ConnLive \ DOMAIN conn' : ConnRemove(k)
          /\ \A id \in DOMAIN nat \ (NatExpired \cup DOMAIN nat') : NatRemove(id)
          /\ \A k \in DOMAIN NeighLive \ DOMAIN neigh' : NeighborRemove(k)]_gatewayVars

=============================================================================
