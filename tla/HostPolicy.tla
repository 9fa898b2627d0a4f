------------------------------ MODULE HostPolicy ------------------------------
(***************************************************************************)
(* The Host's packet policy: the C calls that change it                    *)
(* (ffi/src/policy_api.rs), EngineRuntime's accessors (engine.rs), and its *)
(* evaluation (decision.rs).  A call reads the policy, changes its copy    *)
(* and stores it, keeping the global engine lock throughout; the policy's  *)
(* own mutex is held for each access only, and the store is refused unless *)
(* the engine is running.                                                  *)
(***************************************************************************)
EXTENDS EngineState, Lists, Integers, SequencesExt

CONSTANTS
    RuleArguments, \* arguments of packet_policy_add_rule
    Packets,       \* parsed packets: [transport, src, dst, sport, dport]
    MaxRules,      \* bound: rules in the policy
    Open            \* a field a rule leaves open, or a packet does not have

\* The parser names the transports it recognises; "Other" is none of them.
ASSUME HostPolicyAssumption ==
    /\ MaxRules \in Nat /\ Open \notin Nat \cup {"Other"}
    /\ \A a \in RuleArguments : a.priority \in Int
    /\ \A p \in Packets : p.transport # "Other"

VARIABLES
    packetPolicy,  \* EngineRuntime.packet_policy
    intended       \* history: every update that was stored, applied in turn

policyVars == <<stateVars, call, packetPolicy, intended>>

Actions == {"Pass", "Drop", "Inspect"}

PolicyInit ==
    /\ EngineStateInit
    /\ packetPolicy = [default |-> "Pass", rules |-> <<>>]
    /\ intended = packetPolicy

-----------------------------------------------------------------------------
(* The arguments of the C calls                                            *)

Action(v) == CASE v = 0 -> "Pass" [] v = 1 -> "Drop" [] v = 2 -> "Inspect" [] OTHER -> "invalid"

RuleDirection(v) ==
    CASE v = -1 -> Open [] v = 0 -> "Inbound" [] v = 1 -> "Outbound"
      [] v = 2 -> "Unknown" [] OTHER -> "invalid"

\* Every other number in a byte names a protocol the parser does not tell apart.
RuleProtocol(v) ==
    CASE v = -1 -> Open [] v = 1 -> "Icmp" [] v = 6 -> "Tcp" [] v = 17 -> "Udp"
      [] v = 58 -> "Icmpv6" [] v \in 0 .. 255 -> "Other" [] OTHER -> "invalid"

\* Family 0 leaves the address open, a family needs its bytes.
RuleAddress(a) ==
    CASE a.family = 0 -> Open
      [] a.family \in {4, 6} /\ a.bytes # Open -> a.bytes
      [] OTHER -> "invalid"

RulePort(port) == IF port = 0 THEN Open ELSE port

RuleOf(a) ==
    [priority |-> a.priority, action |-> Action(a.action),
     direction |-> RuleDirection(a.direction), protocol |-> RuleProtocol(a.protocol),
     src |-> RuleAddress(a.src), dst |-> RuleAddress(a.dst),
     sport |-> RulePort(a.sport), dport |-> RulePort(a.dport)]

ValidRule(r) == \A field \in {"action", "direction", "protocol", "src", "dst"} : r[field] # "invalid"

-----------------------------------------------------------------------------
(* The calls.  An update is [kind, value].                                 *)

Updates ==
    {[kind |-> "default", value |-> Action(v)] : v \in {v \in 0 .. 3 : Action(v) # "invalid"}}
      \cup {[kind |-> "clear"]}
      \cup {[kind |-> "rule", value |-> r] : r \in {r \in {RuleOf(a) : a \in RuleArguments} : ValidRule(r)}}

Updated(policy, update) ==
    CASE update.kind = "default" -> [policy EXCEPT !.default = update.value]
      [] update.kind = "clear" -> [policy EXCEPT !.rules = <<>>]
      [] OTHER -> [policy EXCEPT !.rules = Append(@, update.value)]

\* The global engine lock.
EngineFree == \A t \in Threads : call[t].op # "packet"

\* Bug: the policy is read before the engine is locked.
ReadPolicy_Unlocked(t, update) ==
    /\ update.kind = "rule" => Len(packetPolicy.rules) < MaxRules
    /\ Enter(t, [op |-> "packet", at |-> "start", update |-> update,
                 policy |-> Updated(packetPolicy, update)])
    /\ UNCHANGED <<stateVars, packetPolicy, intended>>

\* packet_policy needs no running engine.
ReadPolicy(t, update) ==
    /\ EngineFree
    /\ update.kind = "rule" => Len(packetPolicy.rules) < MaxRules
    /\ Enter(t, [op |-> "packet", at |-> "start", update |-> update,
                 policy |-> Updated(packetPolicy, update)])
    /\ UNCHANGED <<stateVars, packetPolicy, intended>>

\* set_packet_policy, after require_running.
StorePolicy(t) ==
    /\ call[t].op = "packet" /\ call[t].at = "checked" /\ Leave(t)
    /\ packetPolicy' = call[t].policy
    /\ intended' = Updated(intended, call[t].update)
    /\ UNCHANGED stateVars

PolicyNext ==
    \/ EngineStateNext /\ UNCHANGED <<packetPolicy, intended>>
    \/ \E t \in Threads : StorePolicy(t) \/ \E update \in Updates : ReadPolicy(t, update)

PolicySpec == PolicyInit /\ [][PolicyNext]_policyVars

-----------------------------------------------------------------------------
(* decision.rs                                                             *)

\* A rule that names a protocol matches no packet whose transport the parser did
\* not recognise, whatever the number.
RuleMatches(r, p, direction) ==
    /\ r.direction \in {Open, direction}
    /\ r.protocol # Open => p.transport # "Unknown" /\ r.protocol = p.transport
    /\ r.src \in {Open, p.src} /\ r.dst \in {Open, p.dst}
    /\ r.sport \in {Open, p.sport} /\ r.dport \in {Open, p.dport}

\* The rules sorted by priority, and by index where priorities are equal.
Precedes(rules, i, j) ==
    \/ rules[i].priority < rules[j].priority
    \/ rules[i].priority = rules[j].priority /\ i < j

Ordered(rules) ==
    LET places == DOMAIN rules
    IN  Ranked(places, {p \in places \X places : Precedes(rules, p[1], p[2])})

EvaluatePacket(policy, p, direction) ==
    LET sorted == Ordered(policy.rules)
        hits   == {k \in DOMAIN sorted : RuleMatches(policy.rules[sorted[k]], p, direction)}
    IN  IF hits = {} THEN policy.default ELSE policy.rules[sorted[Min(hits)]].action

-----------------------------------------------------------------------------
\* No call of the Host is lost: the policy is what the stored updates make of it,
\* one after the other, though each call reads and stores in separate steps.
NoUpdateLost == packetPolicy = intended

\* A packet is decided by a matching rule that no other matching rule precedes,
\* an earlier one among equals, and by the default exactly when none matches; a
\* rule for a protocol the parser does not recognise never decides.
DecisionFollowsPolicy ==
    \A p \in Packets, direction \in {"Inbound", "Outbound", "Unknown"} :
       LET rules == packetPolicy.rules
           hits == {i \in DOMAIN rules : RuleMatches(rules[i], p, direction)}
           decided == EvaluatePacket(packetPolicy, p, direction)
       IN  /\ hits = {} => decided = packetPolicy.default
           /\ hits # {} => \E i \in hits :
                 /\ decided = rules[i].action /\ rules[i].protocol # "Other"
                 /\ \A j \in hits : rules[i].priority <= rules[j].priority
                 /\ \A j \in hits : rules[i].priority = rules[j].priority => i <= j

PolicyInv == NoUpdateLost /\ DecisionFollowsPolicy
=============================================================================
