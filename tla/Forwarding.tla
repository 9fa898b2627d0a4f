----------------------------- MODULE Forwarding -----------------------------
(***************************************************************************)
(* The Gateway's forwarding table (gateway-capability/src/forwarding.rs):  *)
(* filled from the NetworkState or by hand, and asked for a decision by    *)
(* longest prefix.  Addresses are words of Bits bits, the most significant *)
(* first, and a prefix match masks them as the code does.                  *)
(***************************************************************************)
EXTENDS NetworkState, FiniteSetsExt

CONSTANTS Bits,           \* width of an address
          StaticEntries,  \* entries the Host may add by hand
          MaxEntries      \* bound on the table

ASSUME ForwardingAssumption ==
    /\ Bits \in Nat /\ MaxEntries \in Nat
    /\ \A e \in StaticEntries :
          /\ {"fam", "dest", "len", "ifc", "hop", "enabled"} \subseteq DOMAIN e
          /\ e.len \in 0 .. Bits

VARIABLES
    fwd,     \* ForwardingTable.entries
    edited   \* history: the Host has edited the table since the last sync

routingVars == <<helperVars, stateVars, fwd, edited>>

Words == [1 .. Bits -> {0, 1}]
Unspecified == [i \in 1 .. Bits |-> 0]
Ones == [i \in 1 .. Bits |-> 1]
Addresses == [fam : {4, 6}, bits : Words]

And(v, w) == [i \in 1 .. Bits |-> IF v[i] = 1 /\ w[i] = 1 THEN 1 ELSE 0]

\* Bits shifted out are lost; a shift by the full width, which Rust refuses, is
\* never made.
ShiftLeft(w, n) == [i \in 1 .. Bits |-> IF i + n <= Bits THEN w[i + n] ELSE 0]

\* u32::MAX << (32 - len)
Mask(len) == IF len = 0 THEN Unspecified ELSE ShiftLeft(Ones, Bits - len)

\* ForwardingEntry::matches
Matches(e, a) ==
    /\ e.fam = a.fam
    /\ e.len = 0 \/ And(e.dest, Mask(e.len)) = And(a.bits, Mask(e.len))

\* entry_from_route, for a route with a usable prefix.
EntryFrom(r) == [fam |-> r.fam, dest |-> r.dest, len |-> r.len, ifc |-> r.ifc,
                 hop |-> r.hop, enabled |-> r.enabled]

Installable(r) == RouteUsable(r) /\ r.ifc # 0 /\ InterfaceOperational(net, r.ifc)

InstalledRows == Picked(net.routes, {k \in DOMAIN net.routes : Installable(net.routes[k])})

SyncFromNetworkState ==
    /\ engine = "ready"
    /\ fwd' = [k \in DOMAIN InstalledRows |-> EntryFrom(InstalledRows[k])]
    /\ edited' = FALSE
    /\ UNCHANGED <<helperVars, stateVars>>

SameEntry(e, f) == e.fam = f.fam /\ e.dest = f.dest /\ e.len = f.len /\ e.ifc = f.ifc

Add(e) ==
    /\ engine = "ready" /\ Len(fwd) < MaxEntries
    /\ fwd' = Append(fwd, e)
    /\ edited' = TRUE
    /\ UNCHANGED <<helperVars, stateVars>>

\* Removes every entry of that destination, prefix and interface.
RemoveEntry(e) ==
    /\ engine = "ready"
    /\ fwd' = Picked(fwd, {k \in DOMAIN fwd : ~SameEntry(e, fwd[k])})
    /\ edited' = TRUE
    /\ UNCHANGED <<helperVars, stateVars>>

\* Switches the first such entry only.
SetEnabled(e, on) ==
    LET K == {k \in DOMAIN fwd : SameEntry(fwd[k], e)} IN
    /\ engine = "ready" /\ K # {}
    /\ fwd' = [fwd EXCEPT ![Min(K)].enabled = on]
    /\ edited' = TRUE
    /\ UNCHANGED <<helperVars, stateVars>>

Candidates(a) == {k \in DOMAIN fwd : fwd[k].enabled /\ Matches(fwd[k], a)}

\* Bug: the first match wins, whatever its prefix.
Lookup_FirstMatch(a) == IF Candidates(a) = {} THEN 0 ELSE Min(Candidates(a))

\* ForwardingTable::lookup: max_by_key keeps the last of several maxima.
Lookup(a) ==
    IF Candidates(a) = {} THEN 0
    ELSE Max({k \in Candidates(a) : \A j \in Candidates(a) : fwd[j].len <= fwd[k].len})

-----------------------------------------------------------------------------
RoutingInit == StateInit /\ fwd = <<>> /\ edited = FALSE

RoutingNext ==
    \/ StateNext /\ engine' = engine /\ UNCHANGED <<fwd, edited>>
    \/ StateNext /\ engine' # engine /\ fwd' = <<>> /\ edited' = FALSE
    \/ SyncFromNetworkState
    \/ \E e \in StaticEntries : Add(e) \/ RemoveEntry(e) \/ \E on \in BOOLEAN : SetEnabled(e, on)

-----------------------------------------------------------------------------
(* Properties.                                                             *)

Installed(a) == {k \in DOMAIN net.routes : Installable(net.routes[k]) /\ Matches(net.routes[k], a)}

\* A table filled from the NetworkState routes as the NetworkState's own
\* routes say: there is a decision for a destination exactly when one of the
\* usable routes over an operational interface matches it, and it is that of
\* the longest prefix; of several, that of the last row, whatever their metrics
\* (sync_from_network_state and lookup together).
SyncedTableRoutes ==
    ~edited /\ fwd # <<>> =>
        \A a \in Addresses :
            IF Lookup(a) = 0 THEN Installed(a) = {}
            ELSE \E k \in Installed(a) :
                   /\ fwd[Lookup(a)] = EntryFrom(net.routes[k])
                   /\ \A j \in Installed(a) :
                         \/ net.routes[j].len < net.routes[k].len
                         \/ net.routes[j].len = net.routes[k].len /\ j <= k

\* The Engine sees the result of complete refreshes only: it is ready with
\* all five parts of its NetworkState set and has none before that, whatever
\* a failed initialization left in the backend's tables; and each gateway it
\* lists is the next hop of a default route it knows (init.rs initialize).
EngineSeesRefreshes ==
    /\ HelperTypeOK
    /\ IF engine = "ready" THEN net.gen = 5 ELSE net = EmptyNet
    /\ \A g \in net.gws : \E r \in ToSet(net.routes) :
          r.len = 0 /\ r.ifc = g.ifc /\ r.hop = g.addr
=============================================================================
