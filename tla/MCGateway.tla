----------------------------- MODULE MCGateway -----------------------------
(* The Gateway on small tables: what it keeps about traffic, the routing state *)
(* it is filled from (two interfaces, addresses of two bits), the routing table *)
(* of its own, and the store that holds the routing state.  They share no      *)
(* state, so a behaviour exercises one.                                        *)
EXTENDS GatewayPath, StateStore, TLC

VARIABLE scenario

vars == <<gatewayVars, routingVars, table, storeVars, scenario>>

Row(fam, dest, len, ifc, hop) ==
    [fam |-> fam, dest |-> dest, len |-> len, ifc |-> ifc, hop |-> hop, metric |-> 0]

MCUp == [i \in Interfaces |-> "Up"]

\* The system starts with a default route, or with a row the backend cannot use;
\* its routing state does not matter to traffic.
Init ==
    /\ GatewayInit /\ RoutingInit /\ PathInit /\ StoreInit
    /\ scenario \in {"traffic", "routing", "table", "store"}
    /\ osIfs[1] = "Up" /\ osRoutes[1].len = 0
    /\ scenario # "routing" => osIfs = MCUp /\ osRoutes = <<Row(4, <<0, 0>>, 0, 1, <<0, 1>>)>>

Next ==
    /\ \/ scenario = "traffic" /\ GatewayNext /\ UNCHANGED <<routingVars, table, storeVars>>
       \/ scenario = "routing" /\ RoutingNext /\ UNCHANGED <<gatewayVars, table, storeVars>>
       \/ scenario = "table" /\ TableNext /\ UNCHANGED <<gatewayVars, routingVars, storeVars>>
       \/ scenario = "store" /\ StoreNext /\ UNCHANGED <<gatewayVars, routingVars, table>>
    /\ UNCHANGED scenario

Spec == Init /\ [][Next]_vars

\* Endpoints and translated tuples are compared only.
GatewaySymmetry == Permutations(Endpoints) \cup Permutations(Originals) \cup Permutations(Translations)

MCNeighbors == {<<"router", 1>>, <<"router", 0>>}
MCCapabilitySets == {{}, {"forwarding", "routing", "neighbor"}}

\* A policy that forwards and translates, one that only translates, one that is
\* enabled and does neither, one that is off, and ones that are refused: one
\* interface for both sides, an unknown one, a mode without NAT.
Config == [enabled |-> 1, decision |-> 1, natEnabled |-> 1, natMode |-> 1, external |-> 2,
           forwardingEnabled |-> 1, ingress |-> 1, egress |-> 2, preferred |-> 0]
Off == [Config EXCEPT !.enabled = 0, !.natEnabled = 0, !.natMode = 0, !.forwardingEnabled = 0]
MCGatewayConfigs ==
    {Config, [Config EXCEPT !.forwardingEnabled = 0], [Off EXCEPT !.enabled = 1],
     Off, [Config EXCEPT !.egress = 1], [Config EXCEPT !.preferred = 3],
     [Config EXCEPT !.external = 0], [Off EXCEPT !.natMode = 3], [Off EXCEPT !.natMode = 4]}

\* A default route, a more specific on-link one over the other interface, a dearer
\* one with the same prefix, and a row the backend cannot use.
MCRoutes == {Row(4, <<0, 0>>, 0, 1, <<0, 1>>), Row(4, <<1, 0>>, 1, 2, <<0, 0>>),
             [Row(4, <<1, 0>>, 1, 1, <<0, 1>>) EXCEPT !.metric = 1],
             Row(6, <<0, 0>>, 0, 0, <<0, 1>>)}

MCOsNeighbors == {[fam |-> 4, addr |-> <<0, 1>>, ifc |-> 1, state |-> "Reachable", mac |-> "zero"],
                  [fam |-> 4, addr |-> <<0, 1>>, ifc |-> 1, state |-> "Stale", mac |-> "set"],
                  [fam |-> 4, addr |-> <<0, 1>>, ifc |-> 1, state |-> "Unreachable", mac |-> "none"]}

MCConnections == {[table |-> "tcp4", port |-> 80, paired |-> TRUE],
                  [table |-> "udp6", port |-> 0, paired |-> TRUE]}

MCStatic == {[fam |-> 4, dest |-> <<1, 0>>, len |-> 1, ifc |-> 1, hop |-> Absent, enabled |-> TRUE]}

\* Routes of every prefix length, one of them too long, with two metrics.
TableRoute(fam, dest, len, metric) ==
    [fam |-> fam, dest |-> dest, len |-> len, ifc |-> 1 + metric, metric |-> metric, enabled |-> TRUE]
MCTableRoutes ==
    {TableRoute(4, <<1, 1>>, 0, 0), TableRoute(4, <<1, 1>>, 1, 0), TableRoute(4, <<1, 0>>, 1, 1),
     TableRoute(4, <<1, 1>>, 2, 0), TableRoute(6, <<1, 1>>, 2, 0), TableRoute(4, <<1, 1>>, 3, 0)}

MCIngress ==
    {[len |-> 1, parses |-> TRUE, network |-> "Ipv4", transport |-> transport, src |-> src, dst |-> dst] :
        transport \in {"Tcp", "Icmp"}, src \in Endpoints \cup {None}, dst \in Endpoints}

\* Two rows with one key, and configurations with a repeated server.
MCTables == {<<>>, <<[key |-> 1, value |-> 1]>>, <<[key |-> 1, value |-> 2], [key |-> 1, value |-> 1]>>}
MCDnsConfigs == {[servers |-> <<1, 1>>, enabled |-> TRUE], [servers |-> <<1>>, enabled |-> FALSE]}

\* The routing state the Engine works with comes from complete refreshes, and its
\* generation tells whether a copy of it is current.
NetworkInv == EngineSeesRefreshes /\ GenerationTells

\* What the tables that hold routes decide, ties included: a table filled from the
\* NetworkState routes as its routes say, the routing table answers with the best
\* of its entries, the two differ among rows of one prefix only, the prefix tests
\* agree, and what was resolved can leave.
RoutingAgrees ==
    /\ SyncedTableRoutes /\ MatchersAgree /\ BestRouteWins /\ TiesAside
    /\ ResolvedCanLeave /\ IngressFindsOwn
=============================================================================
