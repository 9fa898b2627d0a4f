---------------------------- MODULE LoadBalancer ----------------------------
(***************************************************************************)
(* Which backend does the work: the BackendManager's registry and its      *)
(* selectors (crates/backend-manager/src/{manager,selection,              *)
(* complementarity}.rs), the planner of crates/ffi/src/coordination.rs and *)
(* the Load Balancer of crates/ffi/src/load_balancer.rs.                   *)
(*                                                                         *)
(* The control calls are serialised by the Engine, one manager call at a   *)
(* time; worker threads select a backend, work on it and report, and only  *)
(* share the manager's lock and the balancer's map of counters with them.  *)
(* A selection takes the manager's lock once for the candidates and again  *)
(* for each of them; a report loads the counter and subtracts in two steps *)
(* under a read lock that other reporters share.                           *)
(*                                                                         *)
(* Left out: the completed, saturated, failed and decision totals, which   *)
(* no decision reads.                                                      *)
(***************************************************************************)
EXTENDS BackendState, Capabilities

CONSTANTS Names,      \* the registrable backends, in the order of their names
          Threads,    \* worker threads
          Reported,   \* the backends whose health is reported
          Kinds,      \* the work they do
          Wanted,     \* the capabilities asked about
          Word,       \* counters are unsigned integers modulo Word (2^64)
          None

Backends == {Names[i] : i \in DOMAIN Names}

ASSUME BalancerAssumption ==
    /\ Backends \subseteq DOMAIN Declared /\ None \notin Backends \cup Nat
    /\ Reported \subseteq Backends
    /\ Kinds \subseteq WorkKind /\ Wanted \subseteq Capability
    /\ Names \in Seq(Backends)
    /\ Word \in Nat /\ IsFiniteSet(Threads) /\ Cardinality(Threads) < Word

VARIABLES
    registered,   \* the names the manager knows
    be,           \* their lifecycle and health
    control,      \* the control call in progress and its backend
    thread,       \* per thread: what it does
    load,         \* in_flight of each backend that has counters, else None
    steady,       \* (history) per thread: backends capable and operational since it began looking
    clean         \* (history) no counters were forgotten under running work

managerVars == <<registered, be, control>>
lbVars == <<managerVars, thread, load, steady, clean>>

Idle == [pc |-> "idle", kind |-> None, cap |-> None, todo |-> {}, best |-> None, least |-> 0]

LbInit ==
    /\ registered = {} /\ be = [b \in Backends |-> NewManaged]
    /\ control = [pc |-> "idle", backend |-> None]
    /\ thread = [t \in Threads |-> Idle]
    /\ load = [b \in Backends |-> None]
    /\ steady = [t \in Threads |-> {}]
    /\ clean = [b \in Backends |-> TRUE]

-----------------------------------------------------------------------------
(* The selectors of the BackendManager, as functions of its state.          *)

Supports(b, c) == b \in registered /\ c \in Declared[b]

\* Bug: only healthy candidates are looked at (find_healthy_capable).
FindCapable_Healthy(c) ==
    {b \in Backends : Supports(b, c) /\ Available(be[b].lc) /\ be[b].health = "Healthy"}

FindCapable(c) == {b \in Backends : Supports(b, c) /\ Available(be[b].lc)}

FindHealthyCapable(c) == {b \in FindCapable(c) : be[b].health = "Healthy"}

FindCapableRequirements(requirements) ==
    {b \in registered : /\ Available(be[b].lc)
                        /\ Satisfied(CheckRequirements(Declared[b], requirements))}

Ordered(backends) == Picked(Names, {i \in DOMAIN Names : Names[i] \in backends})

\* No earlier name is among the backends.
IsFirst(b, backends) ==
    \E i \in DOMAIN Names : Names[i] = b /\ \A j \in 1 .. i - 1 : Names[j] \notin backends

First(backends) == IF backends = {} THEN None ELSE CHOOSE b \in backends : IsFirst(b, backends)

\* select_from_candidates, for any policy and any value of the cursor.
SelectFromCandidates(policy, cursor, backends) ==
    LET preferred(good) == IF good = {} THEN First(backends) ELSE First(good)
    IN CASE backends = {} -> None
         [] backends # {} /\ policy = "PreferPrimary" -> preferred(backends \cap PrimaryRole)
         [] backends # {} /\ policy = "PreferHealthy" ->
                preferred({b \in backends : be[b].health = "Healthy"})
         [] backends # {} /\ policy = "RoundRobin" ->
                Ordered(backends)[(cursor % Cardinality(backends)) + 1]
         [] OTHER -> First(backends)

SelectBackendForRequirements(policy, cursor, requirements) ==
    SelectFromCandidates(policy, cursor, FindCapableRequirements(requirements))

\* Bug: a degraded backend is not operational.
Operational_RunningOnly(b) == b \in registered /\ be[b].lc = "Running" /\ be[b].health # "Unhealthy"

\* is_operational of the coverage report.
Operational(b) == b \in registered /\ Available(be[b].lc) /\ be[b].health # "Unhealthy"

\* select_with_fallback.
Coverage(c) ==
    LET declaring == {b \in registered : Supports(b, c)}
        primary   == declaring \cap MatrixPrimary(c)
        fallbacks == declaring \ MatrixPrimary(c)      \* unclassified ones included
        live(s)   == {b \in s : Operational(b)}
    IN [primary   |-> primary,
        fallbacks |-> fallbacks,
        active    |-> IF live(primary) # {} THEN First(live(primary)) ELSE First(live(fallbacks)),
        status    |-> CASE live(primary) # {} -> "Available"
                        [] live(primary) = {} /\ live(fallbacks) # {} -> "Degraded"
                        [] declaring = {} -> "Unavailable"
                        [] OTHER -> "Lost"]

Usable(status) == status \in {"Available", "Degraded"}

\* MultiBackendCoordinator::coordinate for an observation of backend source.
\* Declaring a capability is enough for the source: its lifecycle is not read.
Coordinate(source, required) ==
    LET provider(c) == IF source # None /\ Supports(source, c) THEN source ELSE Coverage(c).active
        missing == {c \in required : provider(c) = None}
    IN [participated |-> {provider(c) : c \in required \ missing},
        applied      |-> required \ missing,
        missing      |-> missing,
        complete     |-> missing = {}]

CoverageReport == [c \in ToSet(AllKnown) |-> Coverage(c)]

-----------------------------------------------------------------------------
(* Control calls.                                                           *)

Register(b) ==
    /\ control.pc = "idle" /\ b \notin registered
    /\ registered' = registered \cup {b}
    /\ UNCHANGED <<be, control, thread, load, clean>>

\* Refused while the backend is active.
Unregister(b) ==
    /\ control.pc = "idle" /\ b \in registered
    /\ be[b].lc \in {"Disabled", "Failed", "Stopped"}
    /\ registered' = registered \ {b}
    /\ be' = [be EXCEPT ![b] = NewManaged]       \* the entry is dropped
    /\ UNCHANGED <<control, thread, load, clean>>

ManagerStart(b) ==
    /\ control.pc = "idle" /\ b \in registered /\ CanStart(be[b].lc)
    /\ be' = [be EXCEPT ![b] = Transition(be[b], "Starting")]
    /\ control' = [pc |-> "starting", backend |-> b]
    /\ UNCHANGED <<registered, thread, load, clean>>

\* start_backend's second half: mark_running, or Failed when the native start failed.
ManagerStarted(ok) ==
    /\ control.pc = "starting"
    /\ LET b == control.backend
       IN be' = [be EXCEPT ![b] = IF ok THEN RecordSuccess(SetLifecycle(be[b], "Running"))
                                  ELSE SetLifecycle(be[b], "Failed")]
    /\ control' = [pc |-> "idle", backend |-> None]
    /\ UNCHANGED <<registered, thread, load, clean>>

ManagerStop(b) ==
    /\ control.pc = "idle" /\ b \in registered /\ CanStop(be[b].lc)
    /\ be' = [be EXCEPT ![b] = Transition(be[b], "Stopping")]
    /\ control' = [pc |-> "stopping", backend |-> b]
    /\ UNCHANGED <<registered, thread, load, clean>>

\* stop_backend's second half; only a backend that stopped is forgotten.
ManagerStopped(ok) ==
    /\ control.pc = "stopping"
    /\ LET b == control.backend
       IN be' = [be EXCEPT ![b] = SetLifecycle(be[b], IF ok THEN "Stopped" ELSE "Failed")]
    /\ control' = IF ok THEN [control EXCEPT !.pc = "forgetting"]
                  ELSE [pc |-> "idle", backend |-> None]
    /\ UNCHANGED <<registered, thread, load, clean>>

Report(b) ==
    /\ control.pc = "idle" /\ b \in registered \cap Reported
    /\ \/ be' = [be EXCEPT ![b] = RecordSuccess(be[b])]
       \/ be' = [be EXCEPT ![b] = RecordFailure(be[b])]
    /\ UNCHANGED <<registered, control, thread, load, clean>>

-----------------------------------------------------------------------------
(* The Load Balancer.                                                       *)

\* A read lock on the counters is held between the two halves of a report.
MapFree == \A t \in Threads : thread[t].pc # "subtracting"

\* The threads whose work a backend's counter stands for.
Working(b) == {t \in Threads : thread[t].best = b
                               /\ thread[t].pc \in {"working", "reporting", "subtracting"}}

Outstanding(b) == Working(b) \cup {t \in Threads : thread[t].best = b /\ thread[t].pc = "counting"}

\* LoadBalancer::forget at the end of stop_backend.
Forget ==
    /\ control.pc = "forgetting" /\ MapFree
    /\ load' = [load EXCEPT ![control.backend] = None]
    /\ clean' = [clean EXCEPT ![control.backend] = Outstanding(control.backend) = {}]
    /\ control' = [pc |-> "idle", backend |-> None]
    /\ UNCHANGED <<registered, be, thread>>

LoadOf(b) == IF load[b] = None THEN 0 ELSE load[b]

\* The health check a candidate passes on its own visit.
Eligible(b) == b \in registered /\ Available(be[b].lc) /\ be[b].health # "Unhealthy"

Look(t, kind, cap) ==
    thread' = [thread EXCEPT ![t] = [pc |-> "picking", kind |-> kind, cap |-> cap,
                                     todo |-> FindCapable(cap), best |-> None, least |-> 0]]

Select(t, kind) ==
    /\ thread[t].pc = "idle"
    /\ Look(t, kind, PrimaryCapability[kind])
    /\ UNCHANGED <<managerVars, load, clean>>

\* pick_backend_for_capability, one candidate.  They are visited in the order of
\* their names, so of two equally loaded ones the first stays.
Visit(t) ==
    /\ thread[t].pc = "picking"
    /\ \E b \in thread[t].todo :
          LET better == Eligible(b) /\ (thread[t].best = None \/ LoadOf(b) < thread[t].least)
          IN  /\ IsFirst(b, thread[t].todo)
              /\ thread' = [thread EXCEPT ![t].todo = @ \ {b},
                                          ![t].best = IF better THEN b ELSE @,
                                          ![t].least = IF better THEN LoadOf(b) ELSE @]
    /\ UNCHANGED <<managerVars, load, clean>>

NextFallback(t) ==
    IF thread[t].cap = PrimaryCapability[thread[t].kind] THEN FallbackCapability[thread[t].kind] ELSE {}

\* No candidate is left: a decision, the fallback capability, or unrouted.
Decide(t) ==
    /\ thread[t].pc = "picking" /\ thread[t].todo = {}
    /\ CASE thread[t].best # None ->
              thread' = [thread EXCEPT ![t] = [Idle EXCEPT !.pc = "chosen", !.best = thread[t].best]]
         [] thread[t].best = None /\ NextFallback(t) # {} ->
              \E cap \in NextFallback(t) : Look(t, thread[t].kind, cap)
         [] OTHER -> thread' = [thread EXCEPT ![t] = Idle]
    /\ UNCHANGED <<managerVars, load, clean>>

\* ensure_counters, under the write lock.
Ensure(t, from, to) ==
    /\ thread[t].pc = from /\ MapFree
    /\ thread' = [thread EXCEPT ![t].pc = to]
    /\ load' = [load EXCEPT ![thread[t].best] = LoadOf(thread[t].best)]
    /\ UNCHANGED <<managerVars, clean>>

\* report_started: the entry is looked up again, and may be gone.
ReportStarted(t) == Ensure(t, "chosen", "counting")

CountStarted(t) ==
    /\ thread[t].pc = "counting"
    /\ LET b == thread[t].best
       IN load' = [load EXCEPT ![b] = IF @ = None THEN None ELSE (@ + 1) % Word]
    /\ thread' = [thread EXCEPT ![t].pc = "working"]
    /\ UNCHANGED <<managerVars, clean>>

\* report_completed, report_saturated and report_failed.
ReportDone(t) == Ensure(t, "working", "reporting")

\* Bug: a report subtracts all it loaded.
LoadForReport_Whole(t) ==
    /\ thread[t].pc = "reporting"
    /\ LET b == thread[t].best
       IN thread' = [thread EXCEPT ![t] =
                        IF load[b] = None THEN Idle
                        ELSE [@ EXCEPT !.pc = "subtracting", !.least = load[b]]]
    /\ UNCHANGED <<managerVars, load, clean>>

\* in_flight.load(..).min(1), kept in the thread; nothing when the entry is gone.
LoadForReport(t) ==
    /\ thread[t].pc = "reporting"
    /\ LET b == thread[t].best
       IN thread' = [thread EXCEPT ![t] =
                        IF load[b] = None THEN Idle
                        ELSE [@ EXCEPT !.pc = "subtracting", !.least = IF load[b] = 0 THEN 0 ELSE 1]]
    /\ UNCHANGED <<managerVars, load, clean>>

SubtractReport(t) ==
    /\ thread[t].pc = "subtracting"
    /\ load' = [load EXCEPT ![thread[t].best] = (@ + Word - thread[t].least) % Word]
    /\ thread' = [thread EXCEPT ![t] = Idle]
    /\ UNCHANGED <<managerVars, clean>>

-----------------------------------------------------------------------------
\* The history of a search: it starts with what find_capable finds operational
\* and loses whatever stops being so.
TrackSteady ==
    steady' = [t \in Threads |->
                 CASE thread'[t].pc # "picking" -> {}
                   [] thread'[t].pc = "picking" /\ thread'[t].cap # thread[t].cap ->
                        {b \in Backends : Operational(b) /\ Supports(b, thread'[t].cap)}
                   [] OTHER -> {b \in steady[t] : Operational(b)'}]

Control ==
    \/ \E b \in Backends : Register(b) \/ Unregister(b) \/ ManagerStart(b) \/ ManagerStop(b) \/ Report(b)
    \/ \E ok \in BOOLEAN : ManagerStarted(ok) \/ ManagerStopped(ok)
    \/ Forget

Work ==
    \E t \in Threads :
        \/ \E kind \in Kinds : Select(t, kind)
        \/ Visit(t) \/ Decide(t)
        \/ ReportStarted(t) \/ CountStarted(t)
        \/ ReportDone(t) \/ LoadForReport(t) \/ SubtractReport(t)

LbNext == (Control \/ Work) /\ TrackSteady

LbSpec == LbInit /\ [][LbNext]_lbVars

-----------------------------------------------------------------------------
\* Every selector gives the same answer about a capability: a backend that the
\* requirement selector, which never looks at health, would use is one the
\* coverage report and the Load Balancer, which refuse an unhealthy one, would
\* use too, whatever the policy; the report's status says what there is; and a
\* complete plan is served by operational backends unless its source is not
\* operational itself.
SelectorsAgree ==
    /\ TablesAgree /\ PrimariesDeclare
    /\ \A b \in Backends : (b \in registered /\ Available(be[b].lc)) <=> Eligible(b)
    /\ \A c \in Wanted :
         LET capable == FindCapable(c)
             healthy == FindHealthyCapable(c)
             report  == CoverageReport[c]
             need    == {[capability |-> c, required |-> TRUE]}
         IN /\ FindCapableRequirements(need) = capable
            /\ Usable(report.status) <=> capable # {}
            /\ Usable(report.status) => report.active \in capable
            /\ report.status = "Lost" => report.primary \cup report.fallbacks # {}
            /\ \A policy \in {"None", "PreferPrimary", "PreferHealthy", "RoundRobin"} :
                 LET picked == SelectBackendForRequirements(policy, 1, need)
                 IN /\ picked = None <=> capable = {}
                    /\ picked # None => picked \in capable
                    /\ (policy = "PreferHealthy" /\ healthy # {}) => picked \in healthy
    /\ \A source \in Backends \cup {None} :
         LET plan == Coordinate(source, Wanted)
         IN (plan.complete /\ (source = None \/ Operational(source)))
              => \A c \in Wanted : \E b \in plan.participated : Operational(b) /\ Supports(b, c)

\* A search that comes back empty missed nobody: no backend was capable and
\* operational all the time it looked, however manager calls fell between its reads.
NoSteadyBackendMissed ==
    \A t \in Threads :
        (thread[t].pc = "picking" /\ thread[t].todo = {} /\ thread[t].best = None)
            => steady[t] = {}

\* A backend's in-flight count is the number of threads at work on it, through
\* concurrent reports that load and subtract separately and through stop and
\* restart, unless its counters were forgotten under running work.
LoadIsExact ==
    \A b \in Backends : clean[b] => LoadOf(b) = Cardinality(Working(b))
=============================================================================
