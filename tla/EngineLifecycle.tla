-------------------------- MODULE EngineLifecycle --------------------------
(***************************************************************************)
(* The control plane of the Engine: one EngineRuntime inside the DLL's     *)
(* GLOBAL_ENGINE mutex and the C-ABI calls that change it                  *)
(* (crates/ffi/src/{api,ffi_backend,init,backends,capture,gateway,engine,  *)
(* shutdown}.rs).                                                          *)
(*                                                                         *)
(* Every call holds GLOBAL_ENGINE from start to end, so a call is one      *)
(* action: all its early returns, native calls and roll-backs.  What the   *)
(* operating system answers is a nondeterministic choice when Faults.  A   *)
(* call that is refused and changes nothing is not an action.              *)
(***************************************************************************)
EXTENDS BackendState

CONSTANTS Custom,    \* names the Host may register besides the built-ins
          Touched,   \* the names the Host passes to start, stop and fail-over calls
          Reported,  \* the names whose health the Host reports
          Policies,  \* the failover policies the Host sets
          HasRoutes, \* the NetworkState read at initialisation has routes
          Faults,    \* native calls may fail
          None       \* no backend is selected

Names == Builtin \cup Custom

FailoverPolicies == {"None", "PreferPrimary", "PreferHealthy", "RoundRobin"}

ASSUME LifecycleAssumption ==
    /\ Custom \cap Builtin = {} /\ None \notin Names
    /\ Touched \subseteq Names /\ Reported \subseteq Names
    /\ Policies \subseteq FailoverPolicies
    /\ Faults \in BOOLEAN /\ HasRoutes \in BOOLEAN

VARIABLES
    engine,         \* "none": GLOBAL_ENGINE is empty; else EngineState.lifecycle
    registered,     \* names the BackendManager knows
    be,             \* their lifecycle and health
    native,         \* the Engine's native slot of each backend
    captureRoute,   \* active_capture_backend
    reinjectRoute,  \* active_reinjection_backend
    capturing,      \* the capture worker thread exists
    action,         \* the WinDivert action handle is open
    gateway,        \* [on, ready]: GatewayCapability enabled; it could start
    serving,        \* the bus is open and the metadata workers run
    policy, cursor, \* failover policy; round-robin cursor modulo 2
    outcome         \* what the last shutdown or reinjection came to

sessionVars == <<captureRoute, reinjectRoute, capturing, action, gateway, serving>>
selectVars  == <<policy, cursor>>
vars == <<engine, registered, be, native, sessionVars, selectVars, outcome>>

Outcomes == {"none", "ok", "refused", "native", "action", "incomplete", "reinjected"}

Init ==
    /\ engine = "none"
    /\ registered = {}
    /\ be = [n \in Names |-> NewManaged]
    /\ native = [n \in Names |-> "none"]
    /\ captureRoute = None /\ reinjectRoute = None
    /\ capturing = FALSE /\ action = FALSE /\ serving = FALSE
    /\ gateway = [on |-> FALSE, ready |-> FALSE]
    /\ policy = "PreferHealthy" /\ cursor = 0
    /\ outcome = "none"

Running == engine = "Running"     \* EngineRuntime::require_running

-----------------------------------------------------------------------------
\* network_init -> EngineRuntime::initialize.  Built-ins are registered but not
\* started; the IP Helper session is opened behind the manager's back; the
\* first capable descriptors by name become the routes.  A failed IP Helper
\* start drops the half-built runtime and changes nothing.
NetworkInit ==
    /\ engine = "none"
    /\ engine' = "Running"
    /\ registered' = Builtin
    /\ be' = [n \in Names |-> NewManaged]
    /\ native' = [n \in Names |-> IF n = "iphelper" THEN "open" ELSE "none"]
    /\ captureRoute' = "npcap" /\ reinjectRoute' = "windivert"
    /\ capturing' = FALSE /\ action' = FALSE /\ serving' = TRUE
    /\ gateway' = [on |-> FALSE, ready |-> FALSE]
    /\ policy' = "PreferHealthy" /\ cursor' = 0
    /\ outcome' = "none"

RegisterBackend(n) ==
    /\ Running /\ n \notin registered
    /\ registered' = registered \cup {n}
    /\ be' = [be EXCEPT ![n] = NewManaged]
    /\ UNCHANGED <<engine, native, sessionVars, selectVars, outcome>>

-----------------------------------------------------------------------------
(* Starting and stopping one backend.                                       *)

\* Bug: a failed native start returns early and leaves Starting behind.
Started_StuckStarting(b, ok) ==
    LET s == Transition(b, "Starting")
    IN IF ok THEN RecordSuccess(SetLifecycle(s, "Running")) ELSE s

\* Bug: Running is committed before the native result is looked at.
Started_CommitFirst(b, ok) == RecordSuccess(SetLifecycle(Transition(b, "Starting"), "Running"))

\* start_backend after the manager accepted the start.
Started(b, ok) ==
    LET s == Transition(b, "Starting")
    IN IF ok THEN RecordSuccess(SetLifecycle(s, "Running")) ELSE SetLifecycle(s, "Failed")

\* stop_backend after the manager accepted the stop.
Stopped(b, ok) == SetLifecycle(Transition(b, "Stopping"), IF ok THEN "Stopped" ELSE "Failed")

\* A built-in without a native instance is an error; other names have none.
StopResults(n) ==
    IF n \in Builtin /\ native[n] = "none"
    THEN {Failed("none")}
    ELSE StopOutcomes(n, native[n], Faults)

Cleared(route, n, ok) == IF ok /\ route = n THEN None ELSE route

StartBackend(n) ==
    /\ Running /\ n \in registered /\ CanStart(be[n].lc)
    /\ \E o \in StartOutcomes(n, native[n], Faults) :
         /\ native' = [native EXCEPT ![n] = o.session]
         /\ be' = [be EXCEPT ![n] = Started(be[n], o.ok)]
    /\ UNCHANGED <<engine, registered, sessionVars, selectVars, outcome>>

StopBackend(n) ==
    /\ Running /\ n \in registered /\ CanStop(be[n].lc)
    /\ \E o \in StopResults(n) :
         /\ native' = [native EXCEPT ![n] = o.session]
         /\ be' = [be EXCEPT ![n] = Stopped(be[n], o.ok)]
         /\ captureRoute' = Cleared(captureRoute, n, o.ok)
         /\ reinjectRoute' = Cleared(reinjectRoute, n, o.ok)
    /\ UNCHANGED <<engine, registered, capturing, action, gateway, serving, selectVars, outcome>>

\* restart_backend of an available backend (otherwise it is StartBackend):
\* stop, and start only when the stop succeeded.
RestartBackend(n) ==
    /\ Running /\ n \in registered /\ Available(be[n].lc)
    /\ \E o \in StopResults(n) :
       \E p \in IF o.ok THEN StartOutcomes(n, o.session, Faults) ELSE {o} :
         /\ native' = [native EXCEPT ![n] = p.session]
         /\ be' = [be EXCEPT ![n] = IF o.ok THEN Started(Stopped(be[n], TRUE), p.ok)
                                     ELSE Stopped(be[n], FALSE)]
         /\ captureRoute' = Cleared(captureRoute, n, o.ok)
         /\ reinjectRoute' = Cleared(reinjectRoute, n, o.ok)
    /\ UNCHANGED <<engine, registered, capturing, action, gateway, serving, selectVars, outcome>>

-----------------------------------------------------------------------------
(* Health reports and selection.                                            *)

\* These go to the manager directly: they do not ask whether the Engine runs.
BackendRecordSuccess(n) ==
    /\ engine # "none" /\ n \in registered
    /\ be' = [be EXCEPT ![n] = RecordSuccess(be[n])]
    /\ UNCHANGED <<engine, registered, native, sessionVars, selectVars, outcome>>

BackendRecordFailure(n) ==
    /\ engine # "none" /\ n \in registered
    /\ be' = [be EXCEPT ![n] = RecordFailure(be[n])]
    /\ UNCHANGED <<engine, registered, native, sessionVars, selectVars, outcome>>

SetFailoverPolicy(p) ==
    /\ engine # "none"
    /\ policy' = p
    /\ UNCHANGED <<engine, registered, be, native, sessionVars, cursor, outcome>>

\* select_from_candidates over a non-empty set, in name order.  No built-in is
\* Primary and failover candidates are all healthy, so every policy but
\* RoundRobin takes the first.
Pick(candidates) ==
    IF policy = "RoundRobin" /\ cursor = 1 /\ candidates = Capture THEN "windivert"
    ELSE IF "npcap" \in candidates THEN "npcap" ELSE "windivert"

\* The cursor only advances when RoundRobin had something to choose from.
NextCursor(candidates) ==
    IF policy = "RoundRobin" /\ candidates # {} THEN (cursor + 1) % 2 ELSE cursor

\* backend_select: reports a name, moves nothing but the cursor.
BackendSelect(capable) ==
    /\ engine # "none"
    /\ cursor' = NextCursor({n \in capable : Available(be[n].lc)})
    /\ UNCHANGED <<engine, registered, be, native, sessionVars, policy, outcome>>

\* Bug: the failed backend's successor need not be healthy.
FailoverCandidates_AnyRegistered(capable, failed, state) == capable \ {failed}

\* select_healthy_backend_for_failover, on the states after the isolation.
FailoverCandidates(capable, failed, state) ==
    {n \in capable \ {failed} : policy # "None" /\ Available(state[n].lc)
                                  /\ state[n].health = "Healthy"}

\* isolate_failed_backend: an available backend is stopped (and a failed stop
\* ends the call); any other is left alone.
IsolateResults(n) ==
    IF Available(be[n].lc) THEN StopResults(n) ELSE {Ok(native[n])}

Isolated(n, ok) == IF Available(be[n].lc) THEN [be EXCEPT ![n] = Stopped(be[n], ok)] ELSE be

IsolatedRoute(route, n, ok) == IF Available(be[n].lc) THEN Cleared(route, n, ok) ELSE route

FailoverCapture(n) ==
    /\ Running /\ n \in registered
    /\ \E o \in IsolateResults(n) :
         LET after      == Isolated(n, o.ok)
             candidates == IF o.ok THEN FailoverCandidates(Capture, n, after) ELSE {}
         IN /\ native' = [native EXCEPT ![n] = o.session]
            /\ be' = after
            /\ captureRoute' = IF candidates # {} THEN Pick(candidates)
                               ELSE IsolatedRoute(captureRoute, n, o.ok)
            /\ reinjectRoute' = IsolatedRoute(reinjectRoute, n, o.ok)
            /\ cursor' = NextCursor(candidates)
    /\ UNCHANGED <<engine, registered, capturing, action, gateway, serving, policy, outcome>>

FailoverReinjection(n) ==
    /\ Running /\ n \in registered
    /\ \E o \in IsolateResults(n) :
         LET after      == Isolated(n, o.ok)
             candidates == IF o.ok THEN FailoverCandidates(Reinjection, n, after) ELSE {}
         IN /\ native' = [native EXCEPT ![n] = o.session]
            /\ be' = after
            /\ captureRoute' = IsolatedRoute(captureRoute, n, o.ok)
            /\ reinjectRoute' = IF candidates # {} THEN Pick(candidates)
                                ELSE IsolatedRoute(reinjectRoute, n, o.ok)
            /\ cursor' = NextCursor(candidates)
    /\ UNCHANGED <<engine, registered, capturing, action, gateway, serving, policy, outcome>>

-----------------------------------------------------------------------------
(* Capture, reinjection, gateway.                                           *)

\* Bug: capture_start does not ask whether the Engine runs.
CaptureStart_NoRequireRunning ==
    /\ engine # "none" /\ ~capturing
    /\ captureRoute \in {None, "windivert"}
    /\ capturing' = TRUE
    /\ UNCHANGED <<engine, registered, be, native, captureRoute, reinjectRoute, action,
                   gateway, serving, selectVars, outcome>>

\* Opens a WinDivert handle of its own for the worker; only the WinDivert route
\* (or no route at all) has a capture executor.
CaptureStart ==
    /\ Running /\ ~capturing
    /\ captureRoute \in {None, "windivert"}
    /\ capturing' = TRUE
    /\ UNCHANGED <<engine, registered, be, native, captureRoute, reinjectRoute, action,
                   gateway, serving, selectVars, outcome>>

\* Raises the stop flag and joins the worker.
CaptureStop ==
    /\ engine # "none" /\ capturing
    /\ capturing' = FALSE
    /\ UNCHANGED <<engine, registered, be, native, captureRoute, reinjectRoute, action,
                   gateway, serving, selectVars, outcome>>

\* windivert_reinject: the action handle is opened on first use and kept even
\* when the send fails.  `supports` asks the descriptor, not the lifecycle.
Reinject ==
    /\ Running /\ reinjectRoute \in Reinjection
    /\ action' = TRUE
    /\ \/ outcome' = "reinjected"
       \/ Faults /\ UNCHANGED outcome
    /\ UNCHANGED <<engine, registered, be, native, captureRoute, reinjectRoute, capturing,
                   gateway, serving, selectVars>>

SomeAvailable(capable) == \E n \in capable : Available(be[n].lc)

ForwardingReady == SomeAvailable(Reinjection) /\ SomeAvailable(RouteInfo) /\ HasRoutes

\* gateway_config: forwarding is refused unless its backends are available; an
\* accepted policy replaces the whole GatewayCapability, running or not.
GatewayConfig(forwarding) ==
    /\ Running
    /\ forwarding => ForwardingReady
    /\ gateway' = [on |-> FALSE, ready |-> ForwardingReady]
    /\ UNCHANGED <<engine, registered, be, native, captureRoute, reinjectRoute, capturing,
                   action, serving, selectVars, outcome>>

\* gateway_start: refused when it is on or its capabilities are incomplete.
GatewayStart ==
    /\ Running
    /\ gateway' = [gateway EXCEPT !.on = gateway.on \/ gateway.ready]
    /\ UNCHANGED <<engine, registered, be, native, captureRoute, reinjectRoute, capturing,
                   action, serving, selectVars, outcome>>

GatewayStop ==
    /\ Running
    /\ gateway' = [gateway EXCEPT !.on = FALSE]
    /\ UNCHANGED <<engine, registered, be, native, captureRoute, reinjectRoute, capturing,
                   action, serving, selectVars, outcome>>

-----------------------------------------------------------------------------
(* network_shutdown -> EngineRuntime::shutdown.                             *)

\* A second attempt stops the capture worker and is refused by begin_shutdown.
ShutdownRefused ==
    /\ engine = "ShuttingDown"
    /\ capturing' = FALSE
    /\ outcome' = "refused"
    /\ UNCHANGED <<engine, registered, be, native, captureRoute, reinjectRoute, action,
                   gateway, serving, selectVars>>

Stoppable == {n \in registered : CanStop(be[n].lc)}

\* stop_all_native_backends: what each stoppable backend's native stop returns;
\* here an empty slot counts as stopped.
NativeStops ==
    {f \in [Stoppable -> [ok : BOOLEAN, session : Sessions]] :
        \A n \in Stoppable :
            IF native[n] = "none" THEN f[n] = Ok("none")
            ELSE f[n] \in StopOutcomes(n, native[n], Faults)}

\* The slot is emptied after a successful stop; a Host-registered name has none.
SlotAfter(n, f) ==
    IF n \notin Stoppable \/ n \notin Builtin THEN native[n]
    ELSE IF f[n].ok THEN "none" ELSE f[n].session

\* mark_stopped / Failed, straight from the lifecycle the backend was in.
ManagedAfter(n, f) ==
    IF n \in Stoppable
    THEN SetLifecycle(be[n], IF f[n].ok THEN "Stopped" ELSE "Failed")
    ELSE be[n]

StopAllFailed(f) ==
    \E n \in Stoppable : ~f[n].ok \/ ~CanTransition(be[n].lc, "Stopped")

ShutdownResult(f, actionStops) ==
    CASE StopAllFailed(f) -> "native"
      [] ~StopAllFailed(f) /\ action /\ ~actionStops -> "action"
      [] ~StopAllFailed(f) /\ (action => actionStops)
           /\ (\E n \in Builtin : SlotAfter(n, f) # "none") -> "incomplete"
      [] OTHER -> "ok"

\* Producers, then the gateway, the bus and the metadata workers; then the
\* native backends, the action handle, the routes; last the check that every
\* slot is empty.  Each stage runs only if the one before it succeeded.
Shutdown ==
    /\ Running
    /\ capturing' = FALSE /\ serving' = FALSE
    /\ gateway' = [gateway EXCEPT !.on = FALSE]
    /\ \E f \in NativeStops, actionStops \in (IF Faults THEN BOOLEAN ELSE {TRUE}) :
         LET result == ShutdownResult(f, actionStops)
         IN /\ engine' = IF result = "ok" THEN "none" ELSE "ShuttingDown"
            /\ outcome' = result
            /\ be' = [n \in Names |-> ManagedAfter(n, f)]
            /\ native' = [n \in Names |-> SlotAfter(n, f)]
            /\ action' = (action /\ result = "native")
            /\ captureRoute' = IF result \in {"native", "action"} THEN captureRoute ELSE None
            /\ reinjectRoute' = IF result \in {"native", "action"} THEN reinjectRoute ELSE None
    /\ UNCHANGED <<registered, selectVars>>

-----------------------------------------------------------------------------
BackendCall(n) ==
    \/ StartBackend(n)
    \/ StopBackend(n)
    \/ RestartBackend(n)
    \/ FailoverCapture(n)
    \/ FailoverReinjection(n)

Next ==
    \/ NetworkInit
    \/ \E n \in Custom : RegisterBackend(n)
    \/ \E n \in Touched : BackendCall(n)
    \/ \E n \in Reported : BackendRecordSuccess(n)
    \/ \E n \in Reported : BackendRecordFailure(n)
    \/ \E p \in Policies : SetFailoverPolicy(p)
    \/ \E capable \in {Capture, Reinjection} : BackendSelect(capable)
    \/ CaptureStart
    \/ CaptureStop
    \/ Reinject
    \/ \E forwarding \in BOOLEAN : GatewayConfig(forwarding)
    \/ GatewayStart
    \/ GatewayStop
    \/ Shutdown
    \/ ShutdownRefused

Spec == Init /\ [][Next]_vars

-----------------------------------------------------------------------------
(* Properties *)

TypeOK ==
    /\ engine \in {"none", "Running", "ShuttingDown"}
    /\ registered \subseteq Names
    /\ be \in [Names -> Managed]
    /\ native \in [Names -> Sessions]
    /\ captureRoute \in Capture \cup {None} /\ reinjectRoute \in Reinjection \cup {None}
    /\ capturing \in BOOLEAN /\ action \in BOOLEAN /\ serving \in BOOLEAN
    /\ gateway \in [on : BOOLEAN, ready : BOOLEAN]
    /\ policy \in FailoverPolicies /\ cursor \in {0, 1}
    /\ outcome \in Outcomes

\* "the manager can never remain stuck in Starting" (start_backend), nor in
\* Stopping: whatever the native calls answered, no backend is between two
\* lifecycles once a call has returned.
NoTransientAtRest == \A n \in Names : be[n].lc \notin {"Starting", "Stopping"}

\* The Engine and the native state stay synchronised (stop_backend): while the
\* Engine runs, a built-in backend it reports as available has an open session,
\* and the only session open behind a Stopped backend is IP Helper's, which
\* initialisation opened.
EngineMatchesNative ==
    engine = "Running" =>
        \A n \in Builtin :
            /\ Available(be[n].lc) => native[n] = "open"
            /\ native[n] = "open" /\ be[n].lc = "Stopped" => n = "iphelper"

\* "should not be selected as an available backend" (BackendHealth::Unhealthy):
\* find_capable and the fail-over policies look at the lifecycle alone, and still
\* never offer a backend whose health forbids its use, in any order of reports,
\* starts, stops and fail-overs.
UnhealthyNotAvailable ==
    \A n \in Names : Available(be[n].lc) => HealthPermits(be[n].health)

\* Once shutdown has begun nothing produces packets any more, even if it stops
\* half-way: no capture worker, no running gateway, bus and workers closed.
QuiescedAfterShutdown ==
    engine = "ShuttingDown" => ~capturing /\ ~serving /\ ~gateway.on

\* While the Engine runs a route only ever moves to a backend that is available
\* and healthy at that moment, so never to the one that has just failed.
RoutesMoveToHealthy ==
    [][engine = "Running" /\ engine' = "Running" =>
        \A old_new \in {<<captureRoute, captureRoute'>>, <<reinjectRoute, reinjectRoute'>>} :
            old_new[2] \notin {old_new[1], None} =>
                Available(be'[old_new[2]].lc) /\ be'[old_new[2]].health = "Healthy"]_vars

\* `network_shutdown` of an Engine whose native calls all succeed succeeds
\* (integration test: assert_eq!(network_shutdown(), 0)).
ShutdownSucceeds == outcome \notin {"native", "action", "incomplete"}
=============================================================================
