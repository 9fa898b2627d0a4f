----------------------------- MODULE EngineState -----------------------------
(***************************************************************************)
(* EngineState (network-core/src/engine_state.rs): the lifecycle behind a  *)
(* mutex, the two flags the workers poll without it, and the gateway       *)
(* policy behind another mutex.  Calls of several threads run between any  *)
(* two accesses that no common lock covers; a store under the lifecycle    *)
(* lock that only the lock's holder can observe is not a step.             *)
(***************************************************************************)
EXTENDS Naturals

CONSTANTS
    Threads,
    GatewayPolicies,  \* policies given to set_gateway_policy
    NoPolicy

VARIABLES
    lifecycle,          \* behind the lifecycle mutex
    initialized,        \* AtomicBool
    shutdownRequested,  \* AtomicBool, polled by the workers
    gatewayPolicy,      \* behind its own mutex
    call                \* what each thread is in the middle of

NoCall == [op |-> "none"]

stateVars == <<lifecycle, initialized, shutdownRequested, gatewayPolicy>>

EngineStateInit ==
    /\ lifecycle = "Uninitialized"
    /\ initialized = FALSE /\ shutdownRequested = FALSE
    /\ gatewayPolicy = NoPolicy
    /\ call = [t \in Threads |-> NoCall]

\* init is the one call that keeps the lifecycle lock over several steps.
LifecycleFree == \A t \in Threads : call[t].op # "init"

Enter(t, state) == call[t] = NoCall /\ call' = [call EXCEPT ![t] = state]
Leave(t) == call' = [call EXCEPT ![t] = NoCall]
Proceed(t, at) == call' = [call EXCEPT ![t].at = at]

-----------------------------------------------------------------------------
(* Lifecycle                                                               *)

\* init, up to the first flag: refused in every other state.
InitBegin(t) ==
    /\ LifecycleFree /\ lifecycle \in {"Uninitialized", "Stopped"}
    /\ Enter(t, [op |-> "init"])
    /\ lifecycle' = "Initializing" /\ shutdownRequested' = FALSE
    /\ UNCHANGED <<initialized, gatewayPolicy>>

InitEnd(t) ==
    /\ call[t].op = "init" /\ Leave(t)
    /\ initialized' = TRUE /\ lifecycle' = "Running"
    /\ UNCHANGED <<shutdownRequested, gatewayPolicy>>

BeginShutdown(t) ==
    /\ call[t] = NoCall /\ LifecycleFree /\ lifecycle = "Running"
    /\ lifecycle' = "ShuttingDown" /\ shutdownRequested' = TRUE
    /\ UNCHANGED <<initialized, gatewayPolicy, call>>

\* shutdown.  A failed engine keeps its gateway policy.
StateShutdown(t) ==
    /\ call[t] = NoCall /\ LifecycleFree
    /\ lifecycle \in {"Running", "ShuttingDown", "Failed"}
    /\ lifecycle' = "Stopped" /\ shutdownRequested' = TRUE /\ initialized' = FALSE
    /\ gatewayPolicy' = IF lifecycle = "Failed" THEN gatewayPolicy ELSE NoPolicy
    /\ UNCHANGED call

\* mark_failed stores both flags before it waits for the lock.
MarkFailedFirst(t) ==
    /\ Enter(t, [op |-> "fail", at |-> "initialized"])
    /\ initialized' = FALSE
    /\ UNCHANGED <<lifecycle, shutdownRequested, gatewayPolicy>>

MarkFailedSecond(t) ==
    /\ call[t].op = "fail" /\ call[t].at = "initialized" /\ Proceed(t, "requested")
    /\ shutdownRequested' = TRUE
    /\ UNCHANGED <<lifecycle, initialized, gatewayPolicy>>

MarkFailedThird(t) ==
    /\ call[t].op = "fail" /\ call[t].at = "requested" /\ LifecycleFree /\ Leave(t)
    /\ lifecycle' = "Failed"
    /\ UNCHANGED <<initialized, shutdownRequested, gatewayPolicy>>

-----------------------------------------------------------------------------
(* require_running, called by the setters: the flag, then the lifecycle    *)

AtRequire(t, at) == call[t].op \in {"gateway", "packet"} /\ call[t].at = at

RequireFlag(t) ==
    /\ AtRequire(t, "start")
    /\ IF initialized THEN Proceed(t, "flag") ELSE Leave(t)
    /\ UNCHANGED stateVars

RequireLifecycle(t) ==
    /\ AtRequire(t, "flag") /\ LifecycleFree
    /\ IF lifecycle = "Running" THEN Proceed(t, "checked") ELSE Leave(t)
    /\ UNCHANGED stateVars

-----------------------------------------------------------------------------
(* The gateway policy                                                      *)

SetGatewayPolicy(t, p) ==
    Enter(t, [op |-> "gateway", at |-> "start", policy |-> p]) /\ UNCHANGED stateVars

StoreGatewayPolicy(t) ==
    /\ call[t].op = "gateway" /\ call[t].at = "checked" /\ Leave(t)
    /\ gatewayPolicy' = call[t].policy
    /\ UNCHANGED <<lifecycle, initialized, shutdownRequested>>

ClearGatewayPolicy(t) ==
    /\ call[t] = NoCall /\ gatewayPolicy' = NoPolicy
    /\ UNCHANGED <<lifecycle, initialized, shutdownRequested, call>>

EngineStateNext ==
    \E t \in Threads :
       \/ InitBegin(t) \/ InitEnd(t) \/ BeginShutdown(t) \/ StateShutdown(t)
       \/ MarkFailedFirst(t) \/ MarkFailedSecond(t) \/ MarkFailedThird(t)
       \/ RequireFlag(t) \/ RequireLifecycle(t)
       \/ StoreGatewayPolicy(t) \/ ClearGatewayPolicy(t)
       \/ \E p \in GatewayPolicies : SetGatewayPolicy(t, p)

-----------------------------------------------------------------------------
\* Whatever the interleaving, the flags the workers poll never contradict the
\* lifecycle of an engine nobody is failing: workers of an engine that is shutting
\* down or stopped are told to stop, and a running engine lets them run and
\* answers its callers.
FlagsFollowLifecycle ==
    /\ lifecycle \in {"ShuttingDown", "Stopped"} => shutdownRequested
    /\ lifecycle = "Stopped" => ~initialized
    /\ lifecycle = "Running" /\ (\A t \in Threads : call[t].op # "fail") =>
          initialized /\ ~shutdownRequested
=============================================================================
