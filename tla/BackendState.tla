---------------------------- MODULE BackendState ----------------------------
(***************************************************************************)
(* One managed backend: the lifecycle matrix of                            *)
(* crates/backend-manager/src/backend.rs, the health monitor of health.rs, *)
(* how manager.rs combines the two, and the native session behind it       *)
(* (crates/backend-{npcap,windivert,wfp,iphelper,etw}).                    *)
(*                                                                         *)
(* A managed backend is a record [lc, health, fails, recov]; its native    *)
(* session is one of Sessions.  Every operator is pure: it maps the state  *)
(* before a manager call to the state after it.                            *)
(***************************************************************************)
EXTENDS Naturals

CONSTANTS FailureThreshold,    \* HealthMonitor::with_defaults: 3
          RecoveryThreshold    \* HealthMonitor::with_defaults: 2

ASSUME ThresholdAssumption ==
    /\ FailureThreshold \in Nat \ {0}      \* HealthMonitor::new clamps to at least one
    /\ RecoveryThreshold \in Nat \ {0}

-----------------------------------------------------------------------------
Lifecycles == {"Disabled", "Starting", "Running", "Degraded", "Failed", "Stopping", "Stopped"}
Healths    == {"Unknown", "Healthy", "Degraded", "Unhealthy"}

CanStart(lc)  == lc \in {"Disabled", "Stopped", "Failed"}
CanStop(lc)   == lc \in {"Starting", "Running", "Degraded"}
Available(lc) == lc \in {"Running", "Degraded"}     \* is_available

HealthPermits(h) == h \in {"Healthy", "Degraded"}   \* BackendHealth::is_available

CanTransition(from, to) ==
    \/ from = to
    \/ <<from, to>> \in
         ({"Disabled", "Failed", "Stopped"} \X {"Starting"})
         \cup ({"Starting"} \X {"Running", "Degraded", "Failed", "Stopping"})
         \cup ({"Running"}  \X {"Degraded", "Stopping", "Failed"})
         \cup ({"Degraded"} \X {"Running", "Stopping", "Failed"})
         \cup ({"Stopping"} \X {"Stopped", "Failed"})
         \cup {<<"Failed", "Stopped">>, <<"Stopped", "Disabled">>}

\* The failure count is compared with its threshold only, so it saturates there.
Managed == [lc : Lifecycles, health : Healths,
            fails : 0..FailureThreshold, recov : 0..RecoveryThreshold]

NewManaged == [lc |-> "Stopped", health |-> "Unknown", fails |-> 0, recov |-> 0]

-----------------------------------------------------------------------------
\* BackendRuntimeState::transition: unchanged when the matrix forbids the move.
Transition(b, to) == IF CanTransition(b.lc, to) THEN [b EXCEPT !.lc = to] ELSE b

ForceHealth(b, h) == [b EXCEPT !.health = h, !.fails = 0, !.recov = 0]

\* BackendManager::set_lifecycle (also mark_running and mark_stopped).
SetLifecycle(b, to) ==
    IF CanTransition(b.lc, to) /\ to \in {"Running", "Failed"}
    THEN ForceHealth(Transition(b, to), IF to = "Running" THEN "Healthy" ELSE "Unhealthy")
    ELSE Transition(b, to)

\* HealthMonitor::record_success and record_failure.  The recovery count of a
\* healthy monitor is never read before a failure or an override resets it, so
\* it is kept at 0 there.
MonitorSuccess(b) ==
    LET healthy == b.health \in {"Unknown", "Healthy"} \/ b.recov + 1 >= RecoveryThreshold
    IN [b EXCEPT !.fails  = 0,
                 !.recov  = IF healthy THEN 0 ELSE b.recov + 1,
                 !.health = IF healthy THEN "Healthy" ELSE "Degraded"]

MonitorFailure(b) ==
    LET f == IF b.fails < FailureThreshold THEN b.fails + 1 ELSE FailureThreshold
    IN [b EXCEPT !.recov  = 0,
                 !.fails  = f,
                 !.health = IF f >= FailureThreshold THEN "Unhealthy" ELSE "Degraded"]

\* BackendManager::record_success: a recovered backend leaves Degraded.
RecordSuccess(b) ==
    LET m == MonitorSuccess(b)
    IN IF m.health = "Healthy" /\ m.lc = "Degraded" THEN Transition(m, "Running") ELSE m

\* Bug: only a Running backend is moved, so a Degraded one is never failed.
RecordFailure_RunningOnly(b) ==
    LET m == MonitorFailure(b)
    IN CASE m.lc # "Running" -> m
         [] m.health = "Unhealthy" -> Transition(m, "Failed")
         [] OTHER -> Transition(m, "Degraded")

\* BackendManager::record_failure.  The monitor is updated even when the
\* lifecycle move is refused (a Stopped backend cannot become Failed).
RecordFailure(b) ==
    LET m == MonitorFailure(b)
    IN CASE m.health = "Unhealthy" -> Transition(m, "Failed")
         [] m.health = "Degraded" /\ m.lc = "Running" -> Transition(m, "Degraded")
         [] OTHER -> m

-----------------------------------------------------------------------------
(* Native sessions.  "none": the Engine's slot is empty.                    *)

Sessions == {"none", "closed", "open", "failed"}

Builtin == {"npcap", "windivert", "wfp", "iphelper", "etw"}

\* Capability sets of crates/backend-contracts, the part routing depends on; a
\* backend registered over the C ABI declares no capability.
Capture == {"npcap", "windivert"}
Reinjection == {"windivert"}
RouteInfo == {"iphelper"}      \* and NeighborInfo

\* What a native call answers and the session it leaves behind.
Ok(s)     == [ok |-> TRUE, session |-> s]
Failed(s) == [ok |-> FALSE, session |-> s]

\* When the operating system is asked, it may refuse.
OkOrFailed(ok, failed, faults) == IF faults THEN {Ok(ok), Failed(failed)} ELSE {Ok(ok)}

\* Npcap has nothing native to open yet.
NpcapStart(s) == {IF s = "open" THEN Failed("open") ELSE Ok("open")}
NpcapStop(s)  == {IF s = "open" THEN Ok("closed") ELSE Failed(s)}

\* A failed close has already given the handle away, so a second one succeeds.
WinDivertOpen(s, faults) ==
    IF s = "open" THEN {Failed("open")} ELSE OkOrFailed("open", "failed", faults)
WinDivertClose(s, faults) ==
    IF s = "open" THEN OkOrFailed("closed", "failed", faults) ELSE {Ok("closed")}

WfpOpen(s, faults) ==
    IF s = "open" THEN {Failed("open")} ELSE OkOrFailed("open", "failed", faults)
WfpClose(s, faults) ==
    IF s = "open" THEN OkOrFailed("closed", "failed", faults) ELSE {Ok("closed")}

\* Starting IP Helper reads all its tables; stopping asks nobody.
IpHelperStart(s, faults) ==
    IF s = "open" THEN {Failed("open")} ELSE OkOrFailed("open", "closed", faults)
IpHelperStop(s) == {IF s = "open" THEN Ok("closed") ELSE Failed(s)}

\* Only ETW accepts a second start.
EtwStart(s, faults) == IF s = "open" THEN {Ok("open")} ELSE OkOrFailed("open", "closed", faults)
EtwStop(s)          == {Ok("closed")}

\* The native part of starting backend n; the instance is created when the slot
\* is empty.  A Host-registered name has no native part.
StartOutcomes(n, s, faults) ==
    CASE n = "npcap"     -> NpcapStart(s)
      [] n = "windivert" -> WinDivertOpen(s, faults)
      [] n = "wfp"       -> WfpOpen(s, faults)
      [] n = "iphelper"  -> IpHelperStart(s, faults)
      [] n = "etw"       -> EtwStart(s, faults)
      [] OTHER           -> {Ok(s)}

\* The native part of stopping backend n, whose slot is not empty.
StopOutcomes(n, s, faults) ==
    CASE n = "npcap"     -> NpcapStop(s)
      [] n = "windivert" -> WinDivertClose(s, faults)
      [] n = "wfp"       -> WfpClose(s, faults)
      [] n = "iphelper"  -> IpHelperStop(s)
      [] n = "etw"       -> EtwStop(s)
      [] OTHER           -> {Ok(s)}
=============================================================================
