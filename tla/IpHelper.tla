------------------------------ MODULE IpHelper ------------------------------
(***************************************************************************)
(* The IP Helper backend's view of the operating system                    *)
(* (crates/backend-iphelper): four tables, refreshed one system query at a *)
(* time.  Between two queries the system goes on changing, and any query   *)
(* may fail: the refresh then stops where it is.  What a failed refresh    *)
(* leaves behind differs from table to table: interfaces keep the old      *)
(* content, routes have been cleared first, neighbors and connections have *)
(* the new entries beside the stale ones.                                  *)
(*                                                                         *)
(* A route or neighbor row belongs to one address family, 4 or 6; rows the *)
(* backend cannot use name interface 0.                                    *)
(***************************************************************************)
EXTENDS Naturals, Sequences, FiniteSets, SequencesExt, Lists

CONSTANTS Interfaces,    \* interface indexes, none of them 0
          OsRoutes,      \* rows the system's route table may hold
          OsNeighbors,   \* rows its neighbor table may hold
          OsConnections, \* rows its TCP and UDP tables may hold
          MaxChanges,    \* bound on the changes the system makes
          Absent

ASSUME IpHelperAssumption ==
    /\ Interfaces \subseteq Nat \ {0}
    /\ MaxChanges \in Nat
    /\ \A r \in OsRoutes : /\ {"fam", "dest", "len", "ifc", "hop", "metric"} \subseteq DOMAIN r
                           /\ r.fam \in {4, 6} /\ r.len \in Nat /\ r.metric \in Nat
    /\ \A n \in OsNeighbors : /\ {"fam", "addr", "ifc", "state", "mac"} \subseteq DOMAIN n
                              /\ n.fam \in {4, 6}
    /\ \A c \in OsConnections : /\ {"table", "port", "paired"} \subseteq DOMAIN c
                                /\ c.table \in {"tcp4", "tcp6", "udp4", "udp6"}

VARIABLES
    osIfs,      \* the system: interface -> operational state, or Absent
    osRoutes,   \* its routes, in the order it lists them
    osNeighs,   \* its neighbor rows
    osConns,    \* its connection rows
    changes,    \* changes made so far
    running,    \* IpHelperBackend.running
    ifs,        \* InterfaceTable: interface -> operational state, or Absent
    routes,     \* RouteTable.routes
    neighs,     \* NeighborTable.neighbors
    conns,      \* ConnectionTable.connections
    at,         \* the query refresh_all makes next; 0 when none is running
    seen,       \* current_keys of the neighbor or connection refresh
    quiet,      \* history: the system has not changed since the refresh began
    fresh       \* history: the last refresh was complete

osVars == <<osIfs, osRoutes, osNeighs, osConns, changes>>
helperTables == <<ifs, routes, neighs, conns>>
helperVars == <<osVars, running, helperTables, at, seen, quiet, fresh>>

Queries == <<"interfaces", "routes4", "routes6", "neighbors4", "neighbors6",
             "tcp4", "tcp6", "udp4", "udp6">>

OperStates == {"Up", "Down", "Testing", "Unknown"}

NoTables ==
    [ifs |-> [i \in Interfaces |-> Absent], routes |-> <<>>, neighs |-> {}, conns |-> {}]

SetTables(t) == ifs' = t.ifs /\ routes' = t.routes /\ neighs' = t.neighs /\ conns' = t.conns

HelperInit ==
    /\ osIfs \in [Interfaces -> {"Up", "Down"}]
    /\ osRoutes \in {<<r>> : r \in OsRoutes}
    /\ osNeighs = {} /\ osConns = {}
    /\ changes = 0
    /\ running = FALSE
    /\ ifs = NoTables.ifs /\ routes = <<>> /\ neighs = {} /\ conns = {}
    /\ at = 0 /\ seen = {}
    /\ quiet = FALSE /\ fresh = FALSE

-----------------------------------------------------------------------------
(* The system changes under the backend.                                   *)

\* A neighbor row replaces the one of the same address and interface.
SameNeighbor(m, n) == m.addr = n.addr /\ m.ifc = n.ifc

OsChange ==
    /\ changes < MaxChanges
    /\ changes' = changes + 1
    /\ \/ \E i \in Interfaces, s \in {"Up", "Down", Absent} :
             osIfs' = [osIfs EXCEPT ![i] = s] /\ UNCHANGED <<osRoutes, osNeighs, osConns>>
       \/ \E r \in OsRoutes \ ToSet(osRoutes) :
             osRoutes' = Append(osRoutes, r) /\ UNCHANGED <<osIfs, osNeighs, osConns>>
       \/ \E r \in ToSet(osRoutes) :
             osRoutes' = Picked(osRoutes, {k \in DOMAIN osRoutes : osRoutes[k] # r}) /\ UNCHANGED <<osIfs, osNeighs, osConns>>
       \/ \E n \in OsNeighbors :
             /\ \/ osNeighs' = {m \in osNeighs : ~SameNeighbor(m, n)} \cup {n}
                \/ osNeighs' = osNeighs \ {n}
             /\ UNCHANGED <<osIfs, osRoutes, osConns>>
       \/ \E c \in OsConnections :
             /\ osConns' = IF c \in osConns THEN osConns \ {c} ELSE osConns \cup {c}
             /\ UNCHANGED <<osIfs, osRoutes, osNeighs>>
    /\ quiet' = FALSE
    /\ UNCHANGED <<running, helperTables, at, seen, fresh>>

-----------------------------------------------------------------------------
(* One query of the refresh.                                               *)

SameRoute(r, s) == r.dest = s.dest /\ r.fam = s.fam /\ r.len = s.len /\ r.ifc = s.ifc

\* RouteTable::insert: a route to the same destination through the same
\* interface is replaced, whatever its next hop.
RouteInsert(table, r) ==
    IF \E k \in DOMAIN table : SameRoute(table[k], r)
    THEN [k \in DOMAIN table |-> IF SameRoute(table[k], r) THEN r ELSE table[k]]
    ELSE Append(table, r)

\* refresh_all of the routes clears the table before its first query.
RouteBase(fam) == IF fam = 4 THEN <<>> ELSE routes

\* The rows of one family that the backend can use, in the system's order.
RouteRows(fam) ==
    Picked(osRoutes, {k \in DOMAIN osRoutes : osRoutes[k].fam = fam /\ osRoutes[k].ifc # 0})

\* The rows are inserted one by one.
Inserted(table, rows) ==
    LET upTo[k \in 0 .. Len(rows)] == IF k = 0 THEN table ELSE RouteInsert(upTo[k - 1], rows[k])
    IN  upTo[Len(rows)]

FetchRoutes(fam) ==
    /\ routes' = Inserted(RouteBase(fam), RouteRows(fam))
    /\ UNCHANGED <<ifs, neighs, conns, seen>>

FetchInterfaces == ifs' = osIfs /\ UNCHANGED <<routes, neighs, conns, seen>>

NeighborKeyOf(n) == <<n.addr, n.ifc>>

\* Bug: entries the system no longer lists are never dropped.
NeighborRetain_All(table, keys) == table

NeighborRetain(table, keys) == {n \in table : NeighborKeyOf(n) \in keys}

\* Upserts the rows of one family; after the second, drops the stale entries.
FetchNeighbors(fam) ==
    LET rows == {n \in osNeighs : n.fam = fam /\ n.ifc # 0}
        keys == {NeighborKeyOf(n) : n \in rows} \cup (IF fam = 4 THEN {} ELSE seen)
        table == {m \in neighs : \A n \in rows : ~SameNeighbor(m, n)} \cup rows
    IN  /\ neighs' = IF fam = 4 THEN table ELSE NeighborRetain(table, keys)
        /\ seen' = keys
        /\ UNCHANGED <<ifs, routes, conns>>

\* A row whose remote address and port are not both set has no key and is
\* skipped; one with local port 0 is refused and fails the refresh.
ConnRows(table) == {c \in osConns : c.table = table /\ c.paired}
ConnRefused(table) == {c \in ConnRows(table) : c.port = 0}

FetchConnections(table) ==
    LET keys == ConnRows(table) \cup (IF table = "tcp4" THEN {} ELSE seen)
    IN  /\ ConnRefused(table) = {}
        /\ conns' = IF table = "udp6" THEN (conns \cup ConnRows(table)) \cap keys
                    ELSE conns \cup ConnRows(table)
        /\ seen' = keys
        /\ UNCHANGED <<ifs, routes, neighs>>

Fetch(q) ==
    \/ q = "interfaces" /\ FetchInterfaces
    \/ q = "routes4" /\ FetchRoutes(4)
    \/ q = "routes6" /\ FetchRoutes(6)
    \/ q = "neighbors4" /\ FetchNeighbors(4)
    \/ q = "neighbors6" /\ FetchNeighbors(6)
    \/ q \in {"tcp4", "tcp6", "udp4", "udp6"} /\ FetchConnections(q)

\* What a failing query leaves: the rows before a refused one are in the
\* table, and the routes are already cleared.
FetchFailed(q) ==
    /\ routes' = IF q = "routes4" THEN RouteBase(4) ELSE routes
    /\ \/ conns' = conns
       \/ \E S \in SUBSET ConnRows(q) : ConnRefused(q) # {} /\ conns' = conns \cup (S \ ConnRefused(q))
    /\ UNCHANGED <<ifs, neighs, seen>>

\* IpHelperBackend::start, up to its first query.
HelperStart ==
    /\ ~running /\ at = 0
    /\ running' = TRUE
    /\ at' = 1 /\ seen' = {}
    /\ quiet' = TRUE
    /\ fresh' = FALSE
    /\ UNCHANGED <<osVars, helperTables>>

HelperStop ==
    /\ running /\ at = 0
    /\ running' = FALSE
    /\ UNCHANGED <<osVars, helperTables, at, seen, quiet, fresh>>

Query ==
    /\ at # 0
    /\ Fetch(Queries[at])
    /\ at' = IF at = Len(Queries) THEN 0 ELSE at + 1
    /\ fresh' = (at = Len(Queries))
    /\ UNCHANGED <<osVars, running, quiet>>

\* A system error, or a table that outgrew the buffer between two calls; the
\* adapter query is retried three times before it gives up.
QueryFails ==
    /\ at # 0
    /\ FetchFailed(Queries[at])
    /\ at' = 0
    /\ running' = FALSE
    /\ UNCHANGED <<osVars, quiet, fresh>>

\* IpHelperBackend::clear_state
ClearTables ==
    /\ at = 0
    /\ SetTables(NoTables)
    /\ fresh' = FALSE
    /\ UNCHANGED <<osVars, running, at, seen, quiet>>

-----------------------------------------------------------------------------
(* Properties.                                                             *)

\* The backend's state is well typed; it is inside a refresh only while
\* running, and its tables hold rows of the system's vocabulary.
HelperTypeOK ==
    /\ osIfs \in [Interfaces -> OperStates \cup {Absent}]
    /\ ifs \in [Interfaces -> OperStates \cup {Absent}]
    /\ ToSet(routes) \subseteq OsRoutes /\ ToSet(osRoutes) \subseteq OsRoutes
    /\ neighs \subseteq OsNeighbors /\ osNeighs \subseteq OsNeighbors
    /\ conns \subseteq OsConnections /\ osConns \subseteq OsConnections
    /\ at \in 0 .. Len(Queries) /\ (at # 0 => running)
    /\ {running, quiet, fresh} \subseteq BOOLEAN

\* After a complete refresh during which the system stood still, the tables
\* say what the system says: every usable row is there and nothing stale is,
\* whatever earlier refreshes, failed ones included, had left in them
\* (refresh_all of the four tables).
RefreshIsExact ==
    fresh /\ quiet /\ at = 0 =>
        /\ ifs = osIfs
        /\ \A r \in ToSet(routes) : r \in ToSet(osRoutes) /\ r.ifc # 0
        /\ \A r \in ToSet(osRoutes) :
              r.ifc # 0 => \E s \in ToSet(routes) : SameRoute(r, s)
        /\ \A k, l \in DOMAIN routes : SameRoute(routes[k], routes[l]) => k = l
        /\ neighs = {n \in osNeighs : n.ifc # 0}
        /\ conns = {c \in osConns : c.paired}
=============================================================================
