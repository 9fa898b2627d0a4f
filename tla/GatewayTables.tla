--------------------------- MODULE GatewayTables ---------------------------
(***************************************************************************)
(* The tables a Gateway keeps while it runs (crates/gateway-capability):   *)
(* connection_state.rs, nat.rs and neighbor.rs.  A table is a function     *)
(* whose domain is the set of keys it holds.  Nothing expires by itself:   *)
(* an entry past its time stays until the next insert or cleanup purges    *)
(* it, and operations that reach it by key still find it.                  *)
(*                                                                         *)
(* All three read the wall clock (unix_seconds), which an administrator    *)
(* can also set back; the code subtracts with saturation.                  *)
(***************************************************************************)
EXTENDS Naturals, FiniteSets, Functions

CONSTANTS Endpoints,       \* an address and a port
          MaxConnections,  \* GatewayLimits.max_connections
          Originals,       \* NAT tuples before translation
          Translations,    \* NAT tuples after translation
          MaxNat,          \* GatewayLimits.max_nat_entries
          MaxNatId,        \* bound on the NAT ids handed out
          Neighbors,       \* neighbor keys: <<address, interface id>>
          MaxNeighbors,    \* GatewayLimits.max_neighbors
          NeighborReports, \* the neighbor states callers report
          Timeouts,        \* timeouts and times to live, in seconds
          MaxNow,          \* bound on the clock
          None             \* no value: a neighbor that never expires

NeighborStates == {"Reachable", "Stale", "Delay", "Probe", "Failed"}

ASSUME GatewayTablesAssumption ==
    /\ MaxConnections \in Nat /\ MaxNat \in Nat /\ MaxNeighbors \in Nat
    /\ MaxNatId \in Nat /\ MaxNow \in Nat
    /\ Timeouts \subseteq Nat
    /\ NeighborReports \subseteq NeighborStates
    /\ None \notin Nat

VARIABLES
    now,           \* unix_seconds()
    conn,          \* ConnectionStateTable.entries
    nat,           \* NatTable.entries, by id
    byOriginal,    \* NatTable.original_index
    byTranslated,  \* NatTable.translated_index
    nextId,        \* NatTable.next_id
    neigh          \* NeighborCache.entries

natVars == <<nat, byOriginal, byTranslated, nextId>>
tableVars == <<conn, nat, byOriginal, byTranslated, nextId, neigh>>

Empty == [x \in {} |-> None]
Put(f, k, e) == [x \in DOMAIN f \cup {k} |-> IF x = k THEN e ELSE f[x]]
Without(f, S) == Restrict(f, DOMAIN f \ S)

TablesInit ==
    /\ now = 0
    /\ conn = Empty
    /\ nat = Empty /\ byOriginal = Empty /\ byTranslated = Empty /\ nextId = 1
    /\ neigh = Empty

\* Time passes, or the wall clock is set.
Clock(t) == t # now /\ now' = t /\ UNCHANGED tableVars

-----------------------------------------------------------------------------
(* Connections.                                                            *)

ConnStates == {"New", "Established", "Closing", "Closed", "Failed"}

\* ConnectionKey: a connection and its reverse are two keys.
ConnKeys == {k \in Endpoints \X Endpoints : k[1] # k[2]}

CanTransition(s, n) ==
    \/ s = n
    \/ s = "New" /\ n \in {"Established", "Failed"}
    \/ s = "Established" /\ n \in {"Closing", "Failed"}
    \/ s = "Closing" /\ n \in {"Closed", "Failed"}

Elapsed(since) == IF now > since THEN now - since ELSE 0

Expired(e) == Elapsed(e.seen) >= e.timeout

NewConnection(timeout) == [state |-> "New", seen |-> now, timeout |-> timeout]

\* Bug: expired entries are purged by cleanup_expired only.
ConnLive_Lazy == conn

ConnLive == Restrict(conn, {k \in DOMAIN conn : ~Expired(conn[k])})

\* Bug: insert overwrites the entry the key has already, as upsert would.
ConnInserted_Overwrites(k, timeout) ==
    IF k \notin DOMAIN ConnLive /\ Cardinality(DOMAIN ConnLive) >= MaxConnections
    THEN ConnLive
    ELSE Put(ConnLive, k, NewConnection(timeout))

ConnInserted(k, timeout) ==
    IF k \in DOMAIN ConnLive \/ Cardinality(DOMAIN ConnLive) >= MaxConnections
    THEN ConnLive
    ELSE Put(ConnLive, k, NewConnection(timeout))

ConnInsert(k, timeout) ==
    /\ timeout # 0
    /\ conn' = ConnInserted(k, timeout)
    /\ UNCHANGED <<now, natVars, neigh>>

ConnLookup(k) == k \in DOMAIN conn /\ ~Expired(conn[k])

\* transition and record_packet find expired entries too, and revive them.
ConnTransition(k, next) ==
    /\ k \in DOMAIN conn
    /\ next # conn[k].state
    /\ CanTransition(conn[k].state, next)
    /\ conn' = [conn EXCEPT ![k].state = next, ![k].seen = now]
    /\ UNCHANGED <<now, natVars, neigh>>

ConnRecord(k) ==
    /\ k \in DOMAIN conn
    /\ conn' = [conn EXCEPT ![k].seen = now]
    /\ UNCHANGED <<now, natVars, neigh>>

ConnRemove(k) ==
    /\ k \in DOMAIN conn
    /\ conn' = Without(conn, {k})
    /\ UNCHANGED <<now, natVars, neigh>>

-----------------------------------------------------------------------------
(* Address translation: bindings by id and an index for either direction.  *)

NatExpired == {id \in DOMAIN nat : Expired(nat[id])}

\* Bug: remove forgets the index of the translated tuples.
NatRemoved_OneIndex(ids) ==
    [nat |-> Without(nat, ids),
     byOriginal |-> Without(byOriginal, {nat[id].original : id \in ids}),
     byTranslated |-> byTranslated]

\* NatTable::remove, for a set of ids.
NatRemoved(ids) ==
    [nat |-> Without(nat, ids),
     byOriginal |-> Without(byOriginal, {nat[id].original : id \in ids}),
     byTranslated |-> Without(byTranslated, {nat[id].translated : id \in ids})]

SetNat(r) == nat' = r.nat /\ byOriginal' = r.byOriginal /\ byTranslated' = r.byTranslated

NatInsert(original, translated, timeout) ==
    LET r == NatRemoved(NatExpired)
        refused == \/ Cardinality(DOMAIN r.nat) >= MaxNat
                   \/ original \in DOMAIN r.byOriginal
                   \/ translated \in DOMAIN r.byTranslated
    IN  /\ timeout # 0
        /\ \/ refused /\ SetNat(r) /\ UNCHANGED nextId
           \/ /\ ~refused
              /\ nextId <= MaxNatId
              /\ nat' = Put(r.nat, nextId, [original |-> original, translated |-> translated,
                                            seen |-> now, timeout |-> timeout])
              /\ byOriginal' = Put(r.byOriginal, original, nextId)
              /\ byTranslated' = Put(r.byTranslated, translated, nextId)
              /\ nextId' = nextId + 1
        /\ UNCHANGED <<now, conn, neigh>>

NatTouch(id) ==
    /\ id \in DOMAIN nat
    /\ nat' = [nat EXCEPT ![id].seen = now]
    /\ UNCHANGED <<now, conn, byOriginal, byTranslated, nextId, neigh>>

NatRemove(id) ==
    /\ id \in DOMAIN nat
    /\ SetNat(NatRemoved({id}))
    /\ UNCHANGED <<now, conn, nextId, neigh>>

\* Expired bindings are still found by either lookup.
NatLookupOriginal(tuple) == IF tuple \in DOMAIN byOriginal THEN byOriginal[tuple] ELSE None
NatLookupTranslated(tuple) == IF tuple \in DOMAIN byTranslated THEN byTranslated[tuple] ELSE None

-----------------------------------------------------------------------------
(* Neighbors.                                                              *)

NeighborExpired(e) == e.expires # None /\ now >= e.expires

NewNeighbor(state, ttl) ==
    [state |-> state, expires |-> IF ttl = None THEN None ELSE now + ttl]

NeighLive == Restrict(neigh, {k \in DOMAIN neigh : ~NeighborExpired(neigh[k])})

NeighborInsert(k, e) ==
    /\ k[2] # 0
    /\ neigh' = IF k \in DOMAIN NeighLive \/ Cardinality(DOMAIN NeighLive) >= MaxNeighbors
                THEN NeighLive ELSE Put(NeighLive, k, e)
    /\ UNCHANGED <<now, conn, natVars>>

NeighborUpsert(k, e) ==
    /\ k[2] # 0
    /\ neigh' = IF k \notin DOMAIN NeighLive /\ Cardinality(DOMAIN NeighLive) >= MaxNeighbors
                THEN NeighLive ELSE Put(NeighLive, k, e)
    /\ UNCHANGED <<now, conn, natVars>>

\* set_state leaves the expiry as it was.
NeighborSetState(k, state) ==
    /\ k \in DOMAIN neigh
    /\ neigh' = [neigh EXCEPT ![k].state = state]
    /\ UNCHANGED <<now, conn, natVars>>

NeighborRemove(k) ==
    /\ k \in DOMAIN neigh
    /\ neigh' = Without(neigh, {k})
    /\ UNCHANGED <<now, conn, natVars>>

-----------------------------------------------------------------------------
\* GatewayRuntime::cleanup_expired
CleanupExpired ==
    /\ conn' = ConnLive
    /\ SetNat(NatRemoved(NatExpired))
    /\ neigh' = NeighLive
    /\ UNCHANGED <<now, nextId>>

\* The NAT ids go on where they were.
ClearState ==
    /\ conn' = Empty
    /\ nat' = Empty /\ byOriginal' = Empty /\ byTranslated' = Empty
    /\ neigh' = Empty
    /\ UNCHANGED <<now, nextId>>

TablesNext ==
    \/ \E t \in 0 .. MaxNow : Clock(t)
    \/ \E k \in ConnKeys :
          \/ \E t \in Timeouts : ConnInsert(k, t)
          \/ \E s \in ConnStates : ConnTransition(k, s)
          \/ ConnRecord(k)
          \/ ConnRemove(k)
    \/ \E o \in Originals, x \in Translations, t \in Timeouts : NatInsert(o, x, t)
    \/ \E id \in 1 .. MaxNatId : NatTouch(id) \/ NatRemove(id)
    \/ \E k \in Neighbors, s \in NeighborReports :
          \/ \E ttl \in Timeouts \cup {None} :
                \/ NeighborInsert(k, NewNeighbor(s, ttl))
                \/ NeighborUpsert(k, NewNeighbor(s, ttl))
          \/ NeighborSetState(k, s)
    \/ \E k \in Neighbors : NeighborRemove(k)
    \/ CleanupExpired

-----------------------------------------------------------------------------
(* Properties.                                                             *)

\* The tables hold what their Rust types allow and never exceed their limits.
TablesTypeOK ==
    /\ now \in Nat
    /\ DOMAIN conn \subseteq ConnKeys
    /\ \A k \in DOMAIN conn : conn[k] \in [state : ConnStates, seen : Nat, timeout : Nat \ {0}]
    /\ Cardinality(DOMAIN conn) <= MaxConnections
    /\ DOMAIN nat \subseteq 1 .. (nextId - 1) /\ nextId \in Nat \ {0}
    /\ \A id \in DOMAIN nat : nat[id] \in [original : Originals, translated : Translations,
                                           seen : Nat, timeout : Nat \ {0}]
    /\ Cardinality(DOMAIN nat) <= MaxNat
    /\ DOMAIN neigh \subseteq Neighbors
    /\ \A k \in DOMAIN neigh : /\ k[2] # 0
                               /\ neigh[k].state \in NeighborStates
                               /\ neigh[k].expires \in Nat \cup {None}
    /\ Cardinality(DOMAIN neigh) <= MaxNeighbors

\* Both NAT indexes describe exactly the bindings of the table: either
\* lookup of a binding's tuple returns that binding, no index entry outlives
\* its binding, and no tuple belongs to two bindings (nat.rs insert, remove,
\* remove_expired).
NatIndexesAgree ==
    /\ \A id \in DOMAIN nat : /\ NatLookupOriginal(nat[id].original) = id
                              /\ NatLookupTranslated(nat[id].translated) = id
    /\ \A o \in DOMAIN byOriginal : byOriginal[o] \in DOMAIN nat
                                    /\ nat[byOriginal[o]].original = o
    /\ \A x \in DOMAIN byTranslated : byTranslated[x] \in DOMAIN nat
                                      /\ nat[byTranslated[x]].translated = x

\* A connection that has run out never keeps a new one out: in every state,
\* inserting a key that lookup does not find fails only if as many
\* unexpired connections as the limit allows are there
\* (ConnectionStateTable::insert purges before it tests).
InsertMakesRoom ==
    \A k \in ConnKeys, t \in Timeouts \ {0} :
        /\ ~ConnLookup(k)
        /\ Cardinality({c \in ConnKeys : ConnLookup(c)}) < MaxConnections
        => k \in DOMAIN ConnInserted(k, t)
           /\ \A c \in DOMAIN ConnInserted(k, t) : ~Expired(ConnInserted(k, t)[c])

ConnRank(s) == CASE s = "New" -> 1 [] s = "Established" -> 2 [] s = "Closing" -> 3
                 [] s \in {"Closed", "Failed"} -> 4

\* A connection only advances: its state never moves back and a closed or
\* failed one stays so, until it is removed or, once expired, replaced by a
\* new one of the same key (connection_state.rs can_transition_to, insert).
ConnectionsOnlyAdvance ==
    [][\A k \in DOMAIN conn \cap DOMAIN conn' :
          \/ conn'[k].state = conn[k].state
          \/ ConnRank(conn[k].state) < ConnRank(conn'[k].state)
          \/ Expired(conn[k]) /\ conn'[k] = NewConnection(conn'[k].timeout)]_conn
=============================================================================
