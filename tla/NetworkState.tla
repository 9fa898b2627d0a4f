---------------------------- MODULE NetworkState ----------------------------
(***************************************************************************)
(* The Engine's NetworkState (crates/network-state) and how it is filled:  *)
(* EngineRuntime::initialize starts a new IP Helper backend and copies its *)
(* tables over, converting each row (ffi/src/init.rs).  This happens once  *)
(* in an Engine's life; a later restart of the backend refreshes the       *)
(* backend's own tables only.                                              *)
(***************************************************************************)
EXTENDS IpHelper

VARIABLES
    engine,  \* "none", "initializing" or "ready"
    net      \* NetworkStateSnapshot

stateVars == <<engine, net>>

EmptyNet == [ifs |-> [i \in Interfaces |-> Absent], routes |-> <<>>, neighs |-> {},
             gws |-> {}, gen |-> 0]

\* set_interfaces, set_routes, set_neighbors, set_gateways (and set_addresses,
\* whose data nothing here tells apart): replace one part, count a generation.
SetInterfaces(n, v) == [n EXCEPT !.ifs = v, !.gen = @ + 1]
SetAddresses(n) == [n EXCEPT !.gen = @ + 1]
SetRoutes(n, v) == [n EXCEPT !.routes = v, !.gen = @ + 1]
SetNeighbors(n, v) == [n EXCEPT !.neighs = v, !.gen = @ + 1]
SetGateways(n, v) == [n EXCEPT !.gws = v, !.gen = @ + 1]

\* The row of a route; every route the backend reports is a unicast one.
StateRoute(k) ==
    [id |-> k, fam |-> routes[k].fam, dest |-> routes[k].dest, len |-> routes[k].len,
     ifc |-> routes[k].ifc, hop |-> routes[k].hop, metric |-> routes[k].metric,
     type |-> "Unicast", enabled |-> TRUE]

\* Bug: the next hop of any route is taken for a gateway.
StateGateways_AnyRoute ==
    {[ifc |-> routes[k].ifc, addr |-> routes[k].hop, reachable |-> TRUE] :
        k \in {j \in DOMAIN routes : routes[j].hop # Absent}}

\* Gateways are the next hops of the default routes.
StateGateways ==
    {[ifc |-> routes[k].ifc, addr |-> routes[k].hop, reachable |-> TRUE] :
        k \in {j \in DOMAIN routes : routes[j].len = 0 /\ routes[j].hop # Absent}}

RouteUsable(r) == r.enabled /\ r.type = "Unicast"
InterfaceOperational(n, i) == i \in Interfaces /\ n.ifs[i] \in {"Up", "Dormant"}

-----------------------------------------------------------------------------
StateInit == HelperInit /\ engine = "none" /\ net = EmptyNet

Initialize == engine = "none" /\ HelperStart /\ engine' = "initializing" /\ UNCHANGED net

RefreshStep == Query /\ UNCHANGED stateVars

\* IpHelperBackend::start failed: the new backend and the Engine are dropped.
InitializeFails ==
    /\ engine = "initializing" /\ at # 0
    /\ SetTables(NoTables)
    /\ running' = FALSE /\ at' = 0
    /\ engine' = "none"
    /\ UNCHANGED <<osVars, seen, quiet, fresh, net>>

\* synchronize_network_state, under the network_state mutex.
Synchronize ==
    /\ engine = "initializing" /\ at = 0
    /\ net' = SetGateways(SetNeighbors(SetRoutes(SetAddresses(SetInterfaces(net, ifs)),
                    [k \in DOMAIN routes |-> StateRoute(k)]), neighs), StateGateways)
    /\ engine' = "ready"
    /\ UNCHANGED helperVars

\* backend_start and backend_stop of the stored backend.
BackendRestart == engine = "ready" /\ HelperStart /\ UNCHANGED stateVars
BackendStop == engine = "ready" /\ HelperStop /\ UNCHANGED stateVars
RefreshFails == engine = "ready" /\ QueryFails /\ UNCHANGED stateVars
BackendClear == engine = "ready" /\ ClearTables /\ UNCHANGED stateVars

\* The Engine is freed, with its state and its backend.
Dispose ==
    /\ engine = "ready" /\ at = 0
    /\ engine' = "none"
    /\ net' = EmptyNet
    /\ SetTables(NoTables)
    /\ running' = FALSE
    /\ fresh' = FALSE
    /\ UNCHANGED <<osVars, at, seen, quiet>>

StateNext ==
    \/ OsChange /\ UNCHANGED stateVars
    \/ Initialize \/ RefreshStep \/ InitializeFails \/ Synchronize
    \/ BackendRestart \/ BackendStop \/ RefreshFails \/ BackendClear \/ Dispose
=============================================================================
