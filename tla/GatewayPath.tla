----------------------------- MODULE GatewayPath -----------------------------
(***************************************************************************)
(* What a forwarded packet meets in the Gateway (gateway-capability/src):  *)
(* ingress.rs reads its connection, routing.rs and forwarding.rs choose a  *)
(* route, egress.rs prepares it for the wire; with the prefix arithmetic   *)
(* of the NetworkState's routes and addresses (network-state/src).  Masks  *)
(* are those of Forwarding, on words of Bits bits.                         *)
(***************************************************************************)
EXTENDS GatewayCapability, Forwarding

CONSTANTS
    TableRoutes,     \* entries the Host puts into the RoutingTable
    MaxTableRoutes,  \* bound on that table
    IngressPackets   \* observations: [len, parses, network, transport, src, dst]

ASSUME PathAssumption ==
    \A e \in TableRoutes :
       /\ {"fam", "dest", "len", "ifc", "metric", "enabled"} \subseteq DOMAIN e
       /\ e.dest \in Words /\ e.len \in Nat /\ e.metric \in Nat

VARIABLE table  \* RoutingTable.entries

-----------------------------------------------------------------------------
(* Prefixes                                                                *)

\* RouteInfo::new, AddressInfo::new, RoutingEntry::new and ForwardingEntry::new
\* all refuse a prefix longer than the address.
ValidPrefix(len) == len \in 0 .. Bits

\* RouteInfo::network_prefix, AddressInfo::network_prefix
NetworkPrefix(addr, len) == And(addr, Mask(len))
AddressPrefix(i) == And(i.dest, Mask(i.len))

\* RouteInfo::contains
RouteContains(r, a) == r.fam = a.fam /\ NetworkPrefix(r.dest, r.len) = NetworkPrefix(a.bits, r.len)

\* AddressInfo::contains
AddressContains(i, a) == i.fam = a.fam /\ And(i.dest, Mask(i.len)) = And(a.bits, Mask(i.len))

\* RoutingEntry::matches: a zero prefix matches without a mask.
EntryMatches(e, a) ==
    /\ e.fam = a.fam
    /\ e.len # 0 => And(e.dest, Mask(e.len)) = And(a.bits, Mask(e.len))

-----------------------------------------------------------------------------
(* The routing table (routing.rs)                                          *)

PathInit == table = <<>>

TableAdd(e) == Len(table) < MaxTableRoutes /\ ValidPrefix(e.len) /\ table' = Append(table, e)

\* Every entry with that destination, prefix and interface goes ...
TableRemove(e) == table' = Picked(table, {k \in DOMAIN table : ~SameEntry(e, table[k])})

\* ... but only the first is switched.
TableSetEnabled(e, on) ==
    LET K == {k \in DOMAIN table : SameEntry(table[k], e)}
    IN  K # {} /\ table' = [table EXCEPT ![Min(K)].enabled = on]

TableClear == table' = <<>>

TableNext ==
    \/ TableClear
    \/ \E e \in TableRoutes :
          TableAdd(e) \/ TableRemove(e) \/ \E on \in BOOLEAN : TableSetEnabled(e, on)

RowMatches(rows, a) == {k \in DOMAIN rows : rows[k].enabled /\ EntryMatches(rows[k], a)}

\* max_by of prefix, then of the lower metric, keeps the last of several maxima.
NotAfter(e, f) == e.len < f.len \/ (e.len = f.len /\ e.metric >= f.metric)

\* RoutingTable::best
Best(rows, a) ==
    IF RowMatches(rows, a) = {} THEN 0
    ELSE Max({k \in RowMatches(rows, a) : \A j \in RowMatches(rows, a) : NotAfter(rows[j], rows[k])})

-----------------------------------------------------------------------------
(* A decision and its way out (forwarding.rs, egress.rs)                   *)

\* ForwardingTable::resolve: without a next hop, the destination itself.
Resolve(a) ==
    LET e == fwd[Lookup(a)]
    IN  [ifc |-> e.ifc, hop |-> IF e.hop = Absent THEN a.bits ELSE e.hop]

\* A neighbor's hardware address: absent, all zero (the system may list it, and
\* only egress tests for it) or another one.
Macs == {"none", "zero", "set"}

\* NeighborInfo::is_usable: it has an address and has not failed.
NeighborUsable(n) == n.mac # "none" /\ n.state # "Unreachable"

\* NetworkState::neighbor takes the first row with the address, of whichever
\* interface: the rows resolve_with_network_state may accept the decision for.
ResolvedBy(a) ==
    IF Lookup(a) = 0 \/ ~InterfaceOperational(net, Resolve(a).ifc) THEN {}
    ELSE {n \in net.neighs : n.fam = a.fam /\ n.addr = Resolve(a).hop /\ NeighborUsable(n)}

\* EgressProcessor::prepare_forwarding of a packet that is not empty, with the
\* hardware address of a neighbor that has one.
EgressAccepts(decision, mac) ==
    decision.ifc # 0 /\ decision.hop # Unspecified /\ mac # "zero"

-----------------------------------------------------------------------------
(* ingress.rs                                                              *)

\* connection_key_from_parsed: TCP and UDP over IP, with both ends known.
ConnectionKeyOf(o) ==
    IF /\ o.src # None /\ o.dst # None
       /\ o.network \in {"Ipv4", "Ipv6"} /\ o.transport \in {"Tcp", "Udp"}
    THEN <<o.src, o.dst>> ELSE None

\* IngressProcessor::accept
IngressAccepts(o, ifc) == ifc # 0 /\ o.len > 0 /\ o.parses

\* accept_into_runtime's connection_found
ConnectionFound(o) == ConnectionKeyOf(o) # None /\ ConnLookup(ConnectionKeyOf(o))

-----------------------------------------------------------------------------
(* Properties                                                              *)

\* What a prefix test has to say: the leading bits are the same.
SamePrefix(e, a) == e.fam = a.fam /\ \A i \in 1 .. e.len : e.dest[i] = a.bits[i]

\* The prefix tests of the two crates say of every address whether its leading
\* bits are the entry's, at the prefixes 0 and full width too, so a route is
\* matched alike wherever its row has been copied; masking keeps a network's own
\* address in it.
MatchersAgree ==
    \A e \in TableRoutes, a \in Addresses : ValidPrefix(e.len) =>
        /\ Matches(e, a) <=> SamePrefix(e, a)
        /\ EntryMatches(e, a) <=> SamePrefix(e, a)
        /\ RouteContains(e, a) <=> SamePrefix(e, a)
        /\ AddressContains(e, a) <=> SamePrefix(e, a)
        /\ AddressContains(e, [fam |-> e.fam, bits |-> AddressPrefix(e)])

\* After any sequence of edits the routing table answers with the longest enabled
\* prefix, by the lowest metric, the last of several, and has no answer only when
\* nothing matches.
BestRouteWins ==
    table # <<>> => \A a \in Addresses :
        LET b == Best(table, a)
            C == {k \in DOMAIN table : table[k].enabled /\ RouteContains(table[k], a)}
        IN  IF b = 0 THEN C = {}
            ELSE /\ b \in C
                 /\ \A k \in C : \/ table[k].len < table[b].len
                                 \/ /\ table[k].len = table[b].len
                                    /\ \/ table[k].metric > table[b].metric
                                       \/ table[k].metric = table[b].metric /\ k <= b

\* Given the same rows the two tables decide for prefixes of the same length.
\* They take the same row where only one has it; otherwise the routing table
\* takes a cheapest one and the forwarding table, which has no metrics, the last.
TiesAside ==
    ~edited /\ fwd # <<>> => \A a \in Addresses :
        LET l == Lookup(a)
            b == Best(InstalledRows, a)
        IN  /\ l = 0 <=> b = 0
            /\ l # 0 => /\ b <= l
                       /\ InstalledRows[b].len = InstalledRows[l].len
                       /\ InstalledRows[b].metric <= InstalledRows[l].metric

\* A decision that was resolved against the NetworkState can leave, unless the
\* system listed the neighbor with the unspecified address or an all-zero hardware
\* address: resolving accepts those, and egress refuses them.
ResolvedCanLeave ==
    net.neighs # {} => \A a \in Addresses : \A n \in ResolvedBy(a) :
        EgressAccepts(Resolve(a), n.mac) <=> n.addr # Unspecified /\ n.mac # "zero"

\* A packet is told to belong to a connection only while the table has it live in
\* the packet's own direction, and never when it has no ports to tell it by.
IngressFindsOwn ==
    conn # Empty => \A o \in IngressPackets : IngressAccepts(o, 1) /\ ConnectionFound(o) =>
        /\ o.transport \in {"Tcp", "Udp"}
        /\ <<o.src, o.dst>> \in DOMAIN conn /\ ~Expired(conn[<<o.src, o.dst>>])
=============================================================================
