-------------------------------- MODULE Etw ---------------------------------
(***************************************************************************)
(* The ETW backend (backend-etw/src): EtwBackend keeps a running flag of   *)
(* its own next to the provider's, and hands the provider out through      *)
(* provider_mut, so the two can be started and stopped apart.              *)
(***************************************************************************)
EXTENDS Integers

CONSTANTS
    MaxRegistrations,  \* bound: registrations at once
    Unregistered

ASSUME EtwAssumption ==
    /\ MaxRegistrations \in Nat \ {0} /\ Unregistered \notin Nat

VARIABLES
    etwRunning,    \* EtwBackend.running
    provRunning,   \* EtwProvider.running, of each provider
    registration,  \* EtwProvider.handle, of each provider
    named,         \* the provider's name is not blank
    copied,        \* there is a clone of the backend's provider
    registered,    \* external: registrations the system knows
    shared         \* history: a provider was cloned while it was registered

etwVars == <<etwRunning, provRunning, registration, named, copied, registered, shared>>

\* The backend's own provider and a clone of it (EtwProvider derives Clone).
Providers == {"own", "copy"}

EtwInit ==
    /\ etwRunning = FALSE /\ provRunning = [p \in Providers |-> FALSE]
    /\ registration = [p \in Providers |-> Unregistered]
    /\ named \in BOOLEAN /\ copied = FALSE /\ registered = {} /\ shared = FALSE

-----------------------------------------------------------------------------
(* The provider (provider.rs)                                              *)

\* EtwProvider::start succeeding: EventRegister gave a registration.
ProviderStarts(p) ==
    /\ ~provRunning[p] /\ named
    /\ \E h \in (1 .. MaxRegistrations) \ registered :
          /\ registration' = [registration EXCEPT ![p] = h]
          /\ registered' = registered \cup {h}
    /\ provRunning' = [provRunning EXCEPT ![p] = TRUE]

\* EventUnregister, by stop and by drop: a number that was unregistered before
\* may be another registration's by now.
Unregisters(p) ==
    /\ registered' = registered \ {registration[p]}
    /\ registration' = [registration EXCEPT ![p] = Unregistered]
    /\ provRunning' = [provRunning EXCEPT ![p] = FALSE]

ProviderStart(p) ==
    /\ p = "copy" => copied
    /\ ProviderStarts(p) /\ UNCHANGED <<etwRunning, named, copied, shared>>

ProviderStop(p) ==
    /\ provRunning[p] /\ Unregisters(p) /\ UNCHANGED <<etwRunning, named, copied, shared>>

\* Clone copies the handle with the rest.
ProviderClone ==
    /\ ~copied /\ copied' = TRUE
    /\ provRunning' = [provRunning EXCEPT !["copy"] = provRunning["own"]]
    /\ registration' = [registration EXCEPT !["copy"] = registration["own"]]
    /\ shared' = (shared \/ registration["own"] # Unregistered)
    /\ UNCHANGED <<etwRunning, named, registered>>

CopyDrop ==
    /\ copied /\ copied' = FALSE /\ Unregisters("copy")
    /\ UNCHANGED <<etwRunning, named, shared>>

\* emit, emit_simple: an event with a provider name and a message is written
\* through the registration; the system may still refuse it.
Emits(p) == provRunning[p] /\ registration[p] \in registered /\ named

-----------------------------------------------------------------------------
(* The backend (lib.rs)                                                    *)

\* Idempotent; a provider that was started by itself makes it fail.
BackendStart ==
    /\ ~etwRunning /\ ProviderStarts("own")
    /\ etwRunning' = TRUE
    /\ UNCHANGED <<named, copied, shared>>

\* Idempotent; a provider that was stopped by itself makes it fail for good.
BackendStop ==
    /\ etwRunning /\ provRunning["own"] /\ Unregisters("own")
    /\ etwRunning' = FALSE
    /\ UNCHANGED <<named, copied, shared>>

\* Both are dropped, the provider's registration with them, and made again.
BackendDrop ==
    /\ Unregisters("own") /\ etwRunning' = FALSE
    /\ UNCHANGED <<named, copied, shared>>

EtwNext ==
    \/ \E p \in Providers : ProviderStart(p) \/ ProviderStop(p)
    \/ ProviderClone \/ CopyDrop
    \/ BackendStart \/ BackendStop \/ BackendDrop

-----------------------------------------------------------------------------
\* Every registration the system knows is held by a provider, which unregisters
\* it when it stops or is dropped: none is left behind, clones or not.  Until a
\* registered provider is cloned it is held by one provider alone, and a running
\* provider never refuses an event for want of one; a clone, once one of the two
\* stops, runs with a registration that is gone or somebody else's.
RegistrationOwned ==
    /\ registered \subseteq {registration[p] : p \in Providers}
    /\ \A p \in Providers : provRunning[p] <=> registration[p] # Unregistered
    /\ ~shared =>
          /\ \A p \in Providers : provRunning[p] => Emits(p)
          /\ provRunning["own"] /\ provRunning["copy"] => registration["own"] # registration["copy"]
=============================================================================
