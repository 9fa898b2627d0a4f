----------------------------- MODULE StateStore -----------------------------
(***************************************************************************)
(* NetworkState as a versioned store (network-state/src/state.rs): one     *)
(* snapshot behind a lock, replaced part by part or as a whole, each       *)
(* change counting a generation.  A client takes a copy, may change it,    *)
(* and compares generations to learn whether its copy is still current.    *)
(***************************************************************************)
EXTENDS Naturals, Sequences, FiniteSetsExt, SequencesExt

CONSTANTS
    Parts,        \* the tables: interfaces, addresses, routes, neighbors, gateways
    Tables,       \* contents a table may be given: sequences of [key, value]
    DnsConfigs,   \* configurations given to set_dns: [servers, enabled]
    DnsServers,
    MaxServers,   \* bound: servers in a configuration
    MaxGeneration \* u64::MAX

ASSUME StateStoreAssumption ==
    /\ MaxServers \in Nat /\ MaxGeneration \in Nat \ {0}
    /\ \A rows \in Tables : rows = <<>> \/ rows[1].key # 0

VARIABLES
    store,   \* NetworkState.snapshot: [tables, dns, gen]
    copy,    \* the copy a client holds
    copyEdited  \* history: the client changed its copy

storeVars == <<store, copy, copyEdited>>

DefaultSnapshot ==
    [tables |-> [p \in Parts |-> <<>>], dns |-> [servers |-> <<>>, enabled |-> TRUE], gen |-> 0]

StoreInit == store = DefaultSnapshot /\ copy = DefaultSnapshot /\ copyEdited = FALSE

\* saturating_add(1)
Counted(s) == [s EXCEPT !.gen = IF @ < MaxGeneration THEN @ + 1 ELSE @]

\* NetworkStateSnapshot::clear; DnsConfiguration::clear keeps the enabled flag.
ClearedSnapshot(s) ==
    Counted([s EXCEPT !.tables = [p \in Parts |-> <<>>], !.dns.servers = <<>>])

\* DnsConfiguration::add_server, remove_server
ServerAdded(s, d) ==
    IF Contains(s.dns.servers, d) THEN s ELSE [s EXCEPT !.dns.servers = Append(@, d)]
ServerRemoved(s, d) == [s EXCEPT !.dns.servers = RemoveFirst(@, d)]

-----------------------------------------------------------------------------
\* set_interfaces, set_addresses, set_routes, set_neighbors, set_gateways
StoreSet(p, rows) ==
    store' = Counted([store EXCEPT !.tables[p] = rows]) /\ UNCHANGED <<copy, copyEdited>>

StoreSetDns(d) == store' = Counted([store EXCEPT !.dns = d]) /\ UNCHANGED <<copy, copyEdited>>

\* NetworkState::clear
StoreClear == store' = ClearedSnapshot(store) /\ UNCHANGED <<copy, copyEdited>>

\* replace takes everything from the client's copy but the generation.
StoreReplace ==
    store' = Counted([copy EXCEPT !.gen = store.gen]) /\ UNCHANGED <<copy, copyEdited>>

\* update, whose closure may call the snapshot's own methods: clear counts too.
StoreUpdate ==
    /\ \/ store' = Counted(ClearedSnapshot(store))
       \/ \E d \in DnsServers :
             \/ Len(store.dns.servers) < MaxServers /\ store' = Counted(ServerAdded(store, d))
             \/ store' = Counted(ServerRemoved(store, d))
    /\ UNCHANGED <<copy, copyEdited>>

\* snapshot
StoreSnapshot == copy' = store /\ copyEdited' = FALSE /\ UNCHANGED store

\* The copy's fields are public, and its clear counts a generation of its own.
EditCopy ==
    /\ \/ \E p \in Parts, rows \in Tables : copy' = [copy EXCEPT !.tables[p] = rows]
       \/ copy' = ClearedSnapshot(copy)
    /\ copyEdited' = TRUE /\ UNCHANGED store

StoreNext ==
    \/ StoreClear \/ StoreReplace \/ StoreUpdate \/ StoreSnapshot \/ EditCopy
    \/ \E p \in Parts, rows \in Tables : StoreSet(p, rows)
    \/ \E d \in DnsConfigs : StoreSetDns(d)

-----------------------------------------------------------------------------
\* find_interface, find_route, find_address, find_neighbor, find_gateway: the
\* first row with the key, and 0 when there is none.
Find(s, p, key) ==
    LET rows == s.tables[p]
        hits == {k \in DOMAIN rows : rows[k].key = key}
    IN  IF hits = {} THEN 0 ELSE rows[Min(hits)].value

IsEmpty(s) == (\A p \in Parts : s.tables[p] = <<>>) /\ s.dns.servers = <<>>

\* DnsConfiguration::is_configured
IsConfigured(s) == s.dns.enabled /\ s.dns.servers # <<>>

\* A client may trust the generation: an unchanged copy whose generation is still
\* the store's is the store's contents, whoever wrote in between (until the
\* counter saturates); and an empty snapshot finds nothing and configures no DNS.
GenerationTells ==
    /\ ~copyEdited /\ copy.gen = store.gen /\ store.gen < MaxGeneration => copy = store
    /\ IsEmpty(store) => ~IsConfigured(store)
    /\ \A p \in Parts, rows \in Tables : \A row \in ToSet(rows) :
          IsEmpty(store) => Find(store, p, row.key) = 0
=============================================================================
