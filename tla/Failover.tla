------------------------------ MODULE Failover ------------------------------
(***************************************************************************)
(* The failover coordinator and the capability registry of                 *)
(* crates/backend-manager/src/{failover,registry}.rs.  Both are driven by  *)
(* the Host; neither asks the other or the BackendManager.                 *)
(*                                                                         *)
(* Names, as they are spelled, and priorities are numbers, compared as the *)
(* code compares them; trimming a spelling gives another.  A candidate's   *)
(* name is a public field: the Host may register one under a spelling that *)
(* FailoverBackend::new would have trimmed, and may rename it in place.    *)
(***************************************************************************)
EXTENDS Capabilities

CONSTANTS Spellings,      \* of names
          Trimmed,        \* str::trim on them
          Blank,          \* the empty name
          Priorities,
          CandidateCaps,  \* the capabilities candidates have
          MaxCandidates,  \* bound on the pool: renaming makes room for more
          NoCandidate

ASSUME FailoverAssumption ==
    /\ Spellings \subseteq Nat /\ Priorities \subseteq Nat
    /\ CandidateCaps \subseteq Capability
    /\ Trimmed \in [Spellings -> Spellings]
    /\ \A n \in Spellings : Trimmed[Trimmed[n]] = Trimmed[n]
    /\ NoCandidate \notin Spellings /\ MaxCandidates \in Nat

VARIABLES
    pool,      \* the candidates [name, priority, caps], in their stored order
    active,    \* the active selection
    state,     \* FailoverState
    index,     \* the names in capability_index; nothing reads what it holds
    renamed,   \* history: the names a rename took from or gave to a candidate
    registry   \* CapabilityRegistry: name |-> capabilities

coordinator == <<pool, active, state, index, renamed>>
foVars == <<coordinator, registry>>

FailoverStates == {"Disabled", "Ready", "Active", "Degraded", "Failed"}

CanActivate == state \in {"Ready", "Degraded"}

NoEntries == [n \in {} |-> {}]

FoInit ==
    /\ pool = <<>> /\ active = NoCandidate /\ state = "Ready" /\ index = {}
    /\ renamed = {} /\ registry = NoEntries

PoolNames == {pool[i].name : i \in DOMAIN pool}

\* The place of the first candidate of a name: names need not be distinct.
Find(name) == CHOOSE i \in DOMAIN pool :
                 pool[i].name = name /\ \A j \in DOMAIN pool : pool[j].name = name => i <= j

Before(a, b) == a.priority < b.priority \/ (a.priority = b.priority /\ a.name < b.name)

\* Of two equal candidates the one that is stored first.
Earlier(s, i, j) == Before(s[i], s[j]) \/ (~Before(s[j], s[i]) /\ i < j)

\* sort_by is stable.
Sorted(s) ==
    LET at == Ranked(DOMAIN s, {p \in (DOMAIN s) \X (DOMAIN s) : Earlier(s, p[1], p[2])})
    IN  [k \in DOMAIN s |-> s[at[k]]]

With(entries, name, caps) ==
    [n \in DOMAIN entries \cup {name} |-> IF n = name THEN caps ELSE entries[n]]

Without(entries, name) == [n \in DOMAIN entries \ {name} |-> entries[n]]

-----------------------------------------------------------------------------
\* A duplicate or blank name is refused; a registration ends a failure.
FailoverRegister(name, priority, caps) ==
    /\ Trimmed[name] # Blank /\ name \notin PoolNames /\ Len(pool) < MaxCandidates
    /\ pool' = Sorted(Append(pool, [name |-> name, priority |-> priority, caps |-> caps]))
    /\ index' = index \cup {name}
    /\ state' = IF state = "Failed" THEN "Ready" ELSE state
    /\ UNCHANGED <<active, renamed, registry>>

\* Bug: the active selection outlives its candidate.
FailoverUnregister_KeepsActive(name) ==
    /\ name \in PoolNames
    /\ pool' = Picked(pool, DOMAIN pool \ {Find(name)})
    /\ index' = index \ {name}
    /\ UNCHANGED <<active, state, renamed, registry>>

FailoverUnregister(name) ==
    /\ name \in PoolNames
    /\ pool' = Picked(pool, DOMAIN pool \ {Find(name)})
    /\ index' = index \ {name}
    /\ active' = IF active = name THEN NoCandidate ELSE active
    /\ state' = IF active = name THEN "Ready" ELSE state
    /\ UNCHANGED <<renamed, registry>>

Capable(c) == {i \in DOMAIN pool : c \in pool[i].caps}

\* select: the place of the least candidate, none when nobody is capable.
SelectBest(c) == {i \in Capable(c) : \A j \in Capable(c) : i = j \/ Earlier(pool, i, j)}

\* activate_best; AlreadyActive when it would change nothing.
ActivateBest(c) ==
    /\ CanActivate
    /\ \E best \in SelectBest(c) :
         /\ pool[best].name # active
         /\ active' = pool[best].name
    /\ state' = "Active"
    /\ UNCHANGED <<pool, index, renamed, registry>>

Settle(to) == state' = IF state = "Disabled" THEN "Disabled" ELSE to

Deactivate ==
    /\ Settle("Ready") /\ active' = NoCandidate
    /\ UNCHANGED <<pool, index, renamed, registry>>

\* Neither takes the active selection back.
MarkDegraded == Settle("Degraded") /\ UNCHANGED <<active, pool, index, renamed, registry>>
MarkReady    == Settle("Ready") /\ UNCHANGED <<active, pool, index, renamed, registry>>

\* A disabled coordinator may be failed, and a registration then readies it.
MarkFailed ==
    /\ state' = "Failed" /\ active' = NoCandidate
    /\ UNCHANGED <<pool, index, renamed, registry>>

Disable ==
    /\ state' = "Disabled" /\ active' = NoCandidate
    /\ UNCHANGED <<pool, index, renamed, registry>>

\* get_mut: the Host changes the first candidate of that name in place, its
\* public name too; nothing is checked, sorted or indexed.
Revise(name, new) ==
    /\ name \in PoolNames
    /\ pool' = [pool EXCEPT ![Find(name)] = new]
    /\ renamed' = IF new.name = name THEN renamed ELSE renamed \cup {name, new.name}
    /\ UNCHANGED <<active, state, index, registry>>

FailoverClear ==
    /\ pool' = <<>> /\ index' = {} /\ active' = NoCandidate /\ state' = "Ready"
    /\ renamed' = {}
    /\ UNCHANGED registry

-----------------------------------------------------------------------------
(* The capability registry: a declaration replaces the one before it.       *)

RegisterBackend(name, caps) ==
    /\ Trimmed[name] # Blank
    /\ registry' = With(registry, Trimmed[name], caps)
    /\ UNCHANGED coordinator

UnregisterBackend(name) ==
    /\ Trimmed[name] \in DOMAIN registry
    /\ registry' = Without(registry, Trimmed[name])
    /\ UNCHANGED coordinator

RegistryClear == registry' = NoEntries /\ UNCHANGED coordinator

RegistrySupports(name, c) == Trimmed[name] \in DOMAIN registry /\ c \in registry[Trimmed[name]]

BackendsWith(c) == {n \in DOMAIN registry : c \in registry[n]}

\* snapshot, and capabilities for one backend: listed by the sort key.
RegistrySnapshot == [n \in DOMAIN registry |-> Listed(registry[n])]

CandidateRecords == [name : Spellings, priority : Priorities, caps : SUBSET CandidateCaps]

CoordinatorNext ==
    \/ \E name \in Spellings :
         \/ \E priority \in Priorities, caps \in SUBSET CandidateCaps :
              FailoverRegister(name, priority, caps)
         \/ FailoverUnregister(name)
         \/ \E new \in CandidateRecords : Revise(name, new)
    \/ \E c \in CandidateCaps : ActivateBest(c)
    \/ Deactivate \/ MarkDegraded \/ MarkReady \/ MarkFailed \/ Disable \/ FailoverClear

RegistryNext ==
    \/ \E name \in Spellings :
         \/ \E caps \in SUBSET CandidateCaps : RegisterBackend(name, caps)
         \/ UnregisterBackend(name)
    \/ RegistryClear

FoNext == CoordinatorNext \/ RegistryNext

FoSpec == FoInit /\ [][FoNext]_foVars

-----------------------------------------------------------------------------
\* The coordinator stays coherent over any sequence of calls, except where the
\* Host renamed a candidate in place: a name no rename took or gave belongs to
\* one candidate if the index has it and to none otherwise, and is the active
\* selection only if it is a candidate's.  Whatever was renamed, no blank name
\* is indexed, an Active coordinator has a selection, one that offers no
\* failover has none (failover.rs register, unregister, get_mut, activate_best
\* and the marks); and every spelling of a backend's name asks the registry for
\* the same, trimmed, entry, listed in full (registry.rs).
FailoverInv ==
    /\ state \in FailoverStates
    /\ \A n \in Spellings \ renamed :
         /\ Cardinality({i \in DOMAIN pool : pool[i].name = n}) = IF n \in index THEN 1 ELSE 0
         /\ active = n => n \in index
    /\ \A n \in index : Trimmed[n] # Blank
    /\ state = "Active" => active # NoCandidate
    /\ state \in {"Disabled", "Failed"} => active = NoCandidate
    /\ \A n \in DOMAIN registry : Trimmed[n] = n /\ n # Blank
    /\ \A name \in Spellings, c \in CandidateCaps :
         RegistrySupports(name, c) <=> Trimmed[name] \in BackendsWith(c)
    /\ \A n \in DOMAIN registry : ToSet(RegistrySnapshot[n]) = registry[n]
=============================================================================
