----------------------- MODULE EngineLifecycleProofs -----------------------
(***************************************************************************)
(* Proofs about EngineLifecycle, for every set of backends, every choice   *)
(* of thresholds and every answer of the native calls.                     *)
(*                                                                         *)
(* The argument works on one managed backend at a time: Good(b) says that  *)
(* b is at rest and that its lifecycle and health agree, and each manager  *)
(* operation is shown to keep it.  The lifecycle a call leaves behind then *)
(* decides what the native session must look like.                         *)
(***************************************************************************)
EXTENDS EngineLifecycle, TLAPS

Good(b) ==
    /\ b \in Managed
    /\ b.lc \notin {"Starting", "Stopping"}
    /\ b.lc = "Running" => b.health = "Healthy"
    /\ b.lc = "Degraded" => b.health = "Degraded"

\* A backend that has just been registered is good.
LEMMA NewIsGood == Good(NewManaged) /\ NewManaged.lc = "Stopped"
BY ThresholdAssumption DEF Good, NewManaged, Managed, Lifecycles, Healths

\* A legal lifecycle move changes the lifecycle and nothing else.
LEMMA TransitionMoves ==
    ASSUME NEW b \in Managed, NEW to \in Lifecycles, CanTransition(b.lc, to)
    PROVE  Transition(b, to) \in Managed /\ Transition(b, to).lc = to
           /\ Transition(b, to).health = b.health
BY DEF Transition, Managed, Lifecycles

\* Overriding the health of a backend resets its counters and keeps its lifecycle.
LEMMA ForceHealthMoves ==
    ASSUME NEW b \in Managed, NEW h \in Healths
    PROVE  /\ ForceHealth(b, h) \in Managed
           /\ ForceHealth(b, h).lc = b.lc
           /\ ForceHealth(b, h).health = h
<1>1. 0 \in 0..FailureThreshold /\ 0 \in 0..RecoveryThreshold
  BY ThresholdAssumption
<1> QED
  BY <1>1 DEF ForceHealth, Managed

\* set_lifecycle to Running makes the backend healthy, to Failed unhealthy.
LEMMA SetLifecycleMoves ==
    ASSUME NEW b \in Managed, NEW to \in Lifecycles, CanTransition(b.lc, to)
    PROVE  /\ SetLifecycle(b, to) \in Managed
           /\ SetLifecycle(b, to).lc = to
           /\ to = "Running" => SetLifecycle(b, to).health = "Healthy"
<1>1. Transition(b, to) \in Managed /\ Transition(b, to).lc = to
  BY TransitionMoves
<1>2. CASE to \in {"Running", "Failed"}
  <2> DEFINE h == IF to = "Running" THEN "Healthy" ELSE "Unhealthy"
  <2>1. h \in Healths
    BY DEF Healths
  <2>2. SetLifecycle(b, to) = ForceHealth(Transition(b, to), h)
    BY <1>2 DEF SetLifecycle
  <2>3. to = "Running" => h = "Healthy"
    OBVIOUS
  <2> HIDE DEF h
  <2> QED
    BY <1>1, <2>1, <2>2, <2>3, ForceHealthMoves
<1>3. CASE to \notin {"Running", "Failed"}
  <2>1. SetLifecycle(b, to) = Transition(b, to)
    BY <1>3 DEF SetLifecycle
  <2> QED
    BY <1>1, <1>3, <2>1
<1> QED
  BY <1>2, <1>3

\* A refused set_lifecycle changes nothing.
LEMMA SetLifecycleRefused ==
    ASSUME NEW b, NEW to, ~CanTransition(b.lc, to)
    PROVE  SetLifecycle(b, to) = b
BY DEF SetLifecycle, Transition

\* record_success keeps a good backend good and never moves it out of, or into,
\* the lifecycles that have no session.
LEMMA RecordSuccessGood ==
    ASSUME NEW b, Good(b)
    PROVE  /\ Good(RecordSuccess(b))
           /\ Available(RecordSuccess(b).lc) <=> Available(b.lc)
           /\ RecordSuccess(b).lc = "Stopped" <=> b.lc = "Stopped"
<1> DEFINE m == MonitorSuccess(b)
<1>1. /\ m \in Managed /\ m.lc = b.lc
      /\ m.health \in {"Healthy", "Degraded"}
      /\ b.health = "Healthy" => m.health = "Healthy"
  <2> DEFINE healthy == b.health \in {"Unknown", "Healthy"} \/ b.recov + 1 >= RecoveryThreshold
             r == IF healthy THEN 0 ELSE b.recov + 1
             h == IF healthy THEN "Healthy" ELSE "Degraded"
  <2>1. b \in Managed /\ b.recov \in 0..RecoveryThreshold
    BY DEF Good, Managed
  <2>2. r \in 0..RecoveryThreshold /\ 0 \in 0..FailureThreshold
    BY <2>1, ThresholdAssumption
  <2>3. h \in {"Healthy", "Degraded"} /\ h \in Healths /\ (b.health = "Healthy" => h = "Healthy")
    BY DEF Healths
  <2>4. m = [b EXCEPT !.fails = 0, !.recov = r, !.health = h]
    BY DEF MonitorSuccess
  <2> HIDE DEF r, h, healthy, m
  <2> QED
    BY <2>1, <2>2, <2>3, <2>4 DEF Managed
<1>2. RecordSuccess(b) = IF m.health = "Healthy" /\ m.lc = "Degraded"
                         THEN Transition(m, "Running") ELSE m
  BY DEF RecordSuccess
<1> HIDE DEF m
<1>3. CASE m.health = "Healthy" /\ m.lc = "Degraded"
  <2>1. CanTransition(m.lc, "Running")
    BY <1>3 DEF CanTransition
  <2>2. /\ Transition(m, "Running") \in Managed
        /\ Transition(m, "Running").lc = "Running"
        /\ Transition(m, "Running").health = "Healthy"
    BY <1>1, <1>3, <2>1, TransitionMoves DEF Lifecycles
  <2> QED
    BY <1>1, <1>2, <1>3, <2>2 DEF Good, Available
<1>4. CASE ~(m.health = "Healthy" /\ m.lc = "Degraded")
  BY <1>1, <1>2, <1>4 DEF Good, Available
<1> QED
  BY <1>3, <1>4

\* record_failure keeps a good backend good; it may only take availability away.
LEMMA RecordFailureGood ==
    ASSUME NEW b, Good(b)
    PROVE  /\ Good(RecordFailure(b))
           /\ Available(RecordFailure(b).lc) => Available(b.lc)
           /\ RecordFailure(b).lc = "Stopped" <=> b.lc = "Stopped"
<1> DEFINE m == MonitorFailure(b)
<1>1. /\ m \in Managed /\ m.lc = b.lc
      /\ m.health \in {"Unhealthy", "Degraded"}
  <2> DEFINE f == IF b.fails < FailureThreshold THEN b.fails + 1 ELSE FailureThreshold
             h == IF f >= FailureThreshold THEN "Unhealthy" ELSE "Degraded"
  <2>1. b \in Managed /\ b.fails \in 0..FailureThreshold
    BY DEF Good, Managed
  <2>2. f \in 0..FailureThreshold /\ 0 \in 0..RecoveryThreshold
    BY <2>1, ThresholdAssumption
  <2>3. h \in {"Unhealthy", "Degraded"} /\ h \in Healths
    BY DEF Healths
  <2>4. m = [b EXCEPT !.recov = 0, !.fails = f, !.health = h]
    BY DEF MonitorFailure
  <2> HIDE DEF f, h, m
  <2> QED
    BY <2>1, <2>2, <2>3, <2>4 DEF Managed
<1>2. /\ m.health = "Unhealthy" => RecordFailure(b) = Transition(m, "Failed")
      /\ m.health = "Degraded" /\ m.lc = "Running" => RecordFailure(b) = Transition(m, "Degraded")
      /\ m.health = "Degraded" /\ m.lc # "Running" => RecordFailure(b) = m
  BY DEF RecordFailure
<1> HIDE DEF m
<1>3. CASE m.health = "Unhealthy"
  <2>1. m.lc \in {"Running", "Degraded", "Failed", "Stopped", "Disabled"}
    BY <1>1 DEF Good, Managed, Lifecycles
  <2>2. CASE m.lc \in {"Running", "Degraded", "Failed"}
    <3>1. CanTransition(m.lc, "Failed")
      BY <2>2 DEF CanTransition
    <3>2. Transition(m, "Failed") \in Managed /\ Transition(m, "Failed").lc = "Failed"
      BY <1>1, <3>1, TransitionMoves DEF Lifecycles
    <3> QED
      BY <1>1, <1>2, <1>3, <2>2, <3>2 DEF Good, Available
  <2>3. CASE m.lc \in {"Stopped", "Disabled"}
    <3>1. ~CanTransition(m.lc, "Failed")
      BY <2>3 DEF CanTransition
    <3>2. RecordFailure(b) = m
      BY <1>2, <1>3, <3>1 DEF Transition
    <3> QED
      BY <1>1, <2>3, <3>2 DEF Good, Available
  <2> QED
    BY <2>1, <2>2, <2>3
<1>4. CASE m.health = "Degraded" /\ m.lc = "Running"
  <2>1. CanTransition(m.lc, "Degraded")
    BY <1>4 DEF CanTransition
  <2>2. /\ Transition(m, "Degraded") \in Managed
        /\ Transition(m, "Degraded").lc = "Degraded"
        /\ Transition(m, "Degraded").health = "Degraded"
    BY <1>1, <1>4, <2>1, TransitionMoves DEF Lifecycles
  <2> QED
    BY <1>1, <1>2, <1>4, <2>2 DEF Good, Available
<1>5. CASE m.health = "Degraded" /\ m.lc # "Running"
  BY <1>1, <1>2, <1>5 DEF Good, Available
<1> QED
  BY <1>1, <1>3, <1>4, <1>5

\* start_backend ends in Running when the native start succeeded, in Failed
\* when it did not: never in between.
LEMMA StartedGood ==
    ASSUME NEW b, Good(b), CanStart(b.lc), NEW ok \in BOOLEAN
    PROVE  /\ Good(Started(b, ok))
           /\ ok => Available(Started(b, ok).lc)
           /\ ~ok => Started(b, ok).lc = "Failed"
           /\ Started(b, ok).lc # "Stopped"
<1> DEFINE s == Transition(b, "Starting")
<1>1. CanTransition(b.lc, "Starting")
  BY DEF CanStart, CanTransition
<1>2. s \in Managed /\ s.lc = "Starting"
  BY <1>1, TransitionMoves DEF Good, Lifecycles
<1>3. Started(b, ok) = IF ok THEN RecordSuccess(SetLifecycle(s, "Running"))
                             ELSE SetLifecycle(s, "Failed")
  BY DEF Started
<1> HIDE DEF s
<1>4. CASE ok
  <2>1. CanTransition(s.lc, "Running")
    BY <1>2 DEF CanTransition
  <2>2. /\ SetLifecycle(s, "Running") \in Managed
        /\ SetLifecycle(s, "Running").lc = "Running"
        /\ SetLifecycle(s, "Running").health = "Healthy"
    BY <1>2, <2>1, SetLifecycleMoves DEF Lifecycles
  <2>3. Good(SetLifecycle(s, "Running"))
    BY <2>2 DEF Good
  <2> QED
    BY <1>3, <1>4, <2>2, <2>3, RecordSuccessGood DEF Available
<1>5. CASE ~ok
  <2>1. CanTransition(s.lc, "Failed")
    BY <1>2 DEF CanTransition
  <2>2. SetLifecycle(s, "Failed") \in Managed /\ SetLifecycle(s, "Failed").lc = "Failed"
    BY <1>2, <2>1, SetLifecycleMoves DEF Lifecycles
  <2> QED
    BY <1>3, <1>5, <2>2 DEF Good
<1> QED
  BY <1>4, <1>5

\* stop_backend ends in Stopped or in Failed.
LEMMA StoppedGood ==
    ASSUME NEW b, Good(b), CanStop(b.lc), NEW ok \in BOOLEAN
    PROVE  /\ Good(Stopped(b, ok))
           /\ Stopped(b, ok).lc = IF ok THEN "Stopped" ELSE "Failed"
<1> DEFINE s == Transition(b, "Stopping")
           to == IF ok THEN "Stopped" ELSE "Failed"
<1>1. CanTransition(b.lc, "Stopping")
  BY DEF CanStop, CanTransition
<1>2. s \in Managed /\ s.lc = "Stopping"
  BY <1>1, TransitionMoves DEF Good, Lifecycles
<1>3. Stopped(b, ok) = SetLifecycle(s, to)
  BY DEF Stopped
<1>4. to \in Lifecycles /\ to \in {"Stopped", "Failed"}
  BY DEF Lifecycles
<1> HIDE DEF s
<1>5. CanTransition(s.lc, to)
  BY <1>2, <1>4 DEF CanTransition
<1>6. SetLifecycle(s, to) \in Managed /\ SetLifecycle(s, to).lc = to
  BY <1>2, <1>4, <1>5, SetLifecycleMoves
<1> QED
  BY <1>3, <1>4, <1>6 DEF Good

-----------------------------------------------------------------------------
\* What a result record says, with its Boolean field read off once and for all.
LEMMA ResultFields ==
    ASSUME NEW x \in BOOLEAN, NEW s, NEW o, o = [ok |-> x, session |-> s]
    PROVE  o.ok = x /\ o.session = s
OBVIOUS

\* A native start that succeeds leaves the session of a built-in open.
LEMMA StartFacts ==
    ASSUME NEW n \in Names, NEW s \in Sessions, NEW faults \in BOOLEAN,
           NEW o \in StartOutcomes(n, s, faults)
    PROVE  o.ok \in BOOLEAN /\ o.session \in Sessions /\ (n \in Builtin /\ o.ok => o.session = "open")
<1>1. \/ o = [ok |-> TRUE, session |-> s] /\ n \notin Builtin
      \/ o = [ok |-> TRUE, session |-> "open"]
      \/ \E t \in Sessions : o = [ok |-> FALSE, session |-> t]
  BY DEF StartOutcomes, NpcapStart, WinDivertOpen, WfpOpen, IpHelperStart, EtwStart, OkOrFailed,
         Ok, Failed, Sessions, Builtin
<1>2. CASE o = [ok |-> TRUE, session |-> s] /\ n \notin Builtin
  BY <1>2, ResultFields
<1>3. CASE o = [ok |-> TRUE, session |-> "open"]
  BY <1>3, ResultFields DEF Sessions
<1>4. CASE \E t \in Sessions : o = [ok |-> FALSE, session |-> t]
  BY <1>4, ResultFields
<1> QED
  BY <1>1, <1>2, <1>3, <1>4

\* A native stop that succeeds leaves the session of a built-in closed.
LEMMA StopFacts ==
    ASSUME NEW n \in Names, NEW s \in Sessions, NEW faults \in BOOLEAN,
           NEW o \in StopOutcomes(n, s, faults)
    PROVE  o.ok \in BOOLEAN /\ o.session \in Sessions /\ (n \in Builtin /\ o.ok => o.session = "closed")
<1>1. \/ o = [ok |-> TRUE, session |-> s] /\ n \notin Builtin
      \/ o = [ok |-> TRUE, session |-> "closed"]
      \/ \E t \in Sessions : o = [ok |-> FALSE, session |-> t]
  BY DEF StopOutcomes, NpcapStop, WinDivertClose, WfpClose, IpHelperStop, EtwStop, OkOrFailed,
         Ok, Failed, Sessions, Builtin
<1>2. CASE o = [ok |-> TRUE, session |-> s] /\ n \notin Builtin
  BY <1>2, ResultFields
<1>3. CASE o = [ok |-> TRUE, session |-> "closed"]
  BY <1>3, ResultFields DEF Sessions
<1>4. CASE \E t \in Sessions : o = [ok |-> FALSE, session |-> t]
  BY <1>4, ResultFields
<1> QED
  BY <1>1, <1>2, <1>3, <1>4

AllGood == \A n \in Names : Good(be[n])

\* The inductive invariant: typing, every backend good, and the two invariants
\* that relate the Engine's state to its sessions and threads.
LInv == TypeOK /\ AllGood /\ EngineMatchesNative /\ QuiescedAfterShutdown

\* stop_backend's native part, the case of a missing instance included.
LEMMA StopResultFacts ==
    ASSUME TypeOK, NEW n \in Names, NEW o \in StopResults(n)
    PROVE  o.ok \in BOOLEAN /\ o.session \in Sessions /\ (n \in Builtin /\ o.ok => o.session = "closed")
<1>1. native[n] \in Sessions /\ Faults \in BOOLEAN
  BY LifecycleAssumption DEF TypeOK
<1>2. CASE n \in Builtin /\ native[n] = "none"
  <2>1. o = [ok |-> FALSE, session |-> "none"]
    BY <1>2 DEF StopResults, Failed
  <2> QED
    BY <2>1, ResultFields DEF Sessions
<1>3. CASE ~(n \in Builtin /\ native[n] = "none")
  BY <1>1, <1>3, StopFacts DEF StopResults
<1> QED
  BY <1>2, <1>3

\* What a call must ensure about the one backend it touches.
SessionFits(n, b, s) ==
    n \in Builtin => /\ Available(b.lc) => s = "open"
                     /\ s = "open" /\ b.lc = "Stopped" => n = "iphelper"

\* A call that touches one backend keeps the backend part of the invariant if it
\* leaves that backend good and, while the Engine runs, with a fitting session.
LEMMA OneBackend ==
    ASSUME LInv, NEW n \in Names, NEW b, Good(b), NEW s \in Sessions,
           be' = [be EXCEPT ![n] = b], native' = [native EXCEPT ![n] = s],
           engine' = engine, engine = "Running" => SessionFits(n, b, s)
    PROVE  /\ be' \in [Names -> Managed] /\ native' \in [Names -> Sessions]
           /\ AllGood' /\ EngineMatchesNative'
<1>1. be' \in [Names -> Managed] /\ native' \in [Names -> Sessions]
  BY DEF LInv, TypeOK, Good
<1>2. \A k \in Names : be'[k] = (IF k = n THEN b ELSE be[k])
                        /\ native'[k] = (IF k = n THEN s ELSE native[k])
  BY DEF LInv, TypeOK
<1>3. AllGood'
  BY <1>2 DEF LInv, AllGood
<1>4. EngineMatchesNative'
  BY <1>2 DEF LInv, EngineMatchesNative, SessionFits, Names
<1> QED
  BY <1>1, <1>3, <1>4

-----------------------------------------------------------------------------
(* One lemma per call: it preserves the invariant.                          *)

\* The Engine before network_init: nothing registered, nothing open.
LEMMA InitInv == Init => LInv
<1> SUFFICES ASSUME Init PROVE LInv
  OBVIOUS
<1>1. AllGood
  BY NewIsGood DEF Init, AllGood
<1>2. TypeOK
  BY NewIsGood DEF Init, TypeOK, Good, Sessions, FailoverPolicies, Outcomes
<1> QED
  BY <1>1, <1>2 DEF Init, LInv, EngineMatchesNative, QuiescedAfterShutdown

\* network_init opens IP Helper and leaves every lifecycle Stopped.
LEMMA NetworkInitInv == ASSUME LInv, NetworkInit PROVE LInv'
<1>1. AllGood'
  BY NewIsGood DEF NetworkInit, AllGood
<1>2. TypeOK'
  BY NewIsGood DEF NetworkInit, TypeOK, Good, Sessions, FailoverPolicies, Outcomes, Names,
                   Capture, Reinjection
<1>3. EngineMatchesNative'
  BY NewIsGood DEF NetworkInit, EngineMatchesNative, Names, Available
<1> QED
  BY <1>1, <1>2, <1>3 DEF NetworkInit, LInv, QuiescedAfterShutdown

\* backend_register adds a backend that was never started.
LEMMA RegisterBackendInv ==
    ASSUME LInv, NEW n \in Custom, RegisterBackend(n) PROVE LInv'
<1>1. n \in Names /\ n \notin Builtin
  BY LifecycleAssumption DEF Names
<1>2. native[n] \in Sessions /\ native' = [native EXCEPT ![n] = native[n]]
  BY <1>1 DEF LInv, TypeOK, RegisterBackend
<1>3. /\ be' \in [Names -> Managed] /\ native' \in [Names -> Sessions]
      /\ AllGood' /\ EngineMatchesNative'
  BY <1>1, <1>2, NewIsGood, OneBackend DEF RegisterBackend, SessionFits
<1> QED
  BY <1>1, <1>3 DEF LInv, TypeOK, RegisterBackend, QuiescedAfterShutdown, sessionVars, selectVars

\* start_backend ends Running with an open session, or Failed, never in between.
LEMMA StartBackendInv ==
    ASSUME LInv, NEW n \in Names, StartBackend(n) PROVE LInv'
<1>1. PICK o \in StartOutcomes(n, native[n], Faults) :
        native' = [native EXCEPT ![n] = o.session] /\ be' = [be EXCEPT ![n] = Started(be[n], o.ok)]
  BY DEF StartBackend
<1>2. o.ok \in BOOLEAN /\ o.session \in Sessions /\ (n \in Builtin /\ o.ok => o.session = "open")
  BY StartFacts, LifecycleAssumption DEF LInv, TypeOK
<1>3. Good(be[n]) /\ CanStart(be[n].lc)
  BY DEF LInv, AllGood, StartBackend
<1>4. /\ Good(Started(be[n], o.ok))
      /\ ~o.ok => Started(be[n], o.ok).lc = "Failed"
      /\ Started(be[n], o.ok).lc # "Stopped"
  BY <1>2, <1>3, StartedGood
<1>5. SessionFits(n, Started(be[n], o.ok), o.session)
  BY <1>2, <1>4 DEF SessionFits, Available
<1>6. /\ be' \in [Names -> Managed] /\ native' \in [Names -> Sessions]
      /\ AllGood' /\ EngineMatchesNative'
  BY <1>1, <1>2, <1>4, <1>5, OneBackend DEF StartBackend
<1> QED
  BY <1>6 DEF LInv, TypeOK, StartBackend, QuiescedAfterShutdown, sessionVars, selectVars

\* What stop_backend leaves behind fits.
LEMMA StopFits ==
    ASSUME LInv, NEW n \in Names, CanStop(be[n].lc), NEW o \in StopResults(n)
    PROVE  /\ o.ok \in BOOLEAN /\ o.session \in Sessions
           /\ Good(Stopped(be[n], o.ok))
           /\ SessionFits(n, Stopped(be[n], o.ok), o.session)
<1>1. o.ok \in BOOLEAN /\ o.session \in Sessions /\ (n \in Builtin /\ o.ok => o.session = "closed")
  BY StopResultFacts DEF LInv
<1>2. /\ Good(Stopped(be[n], o.ok))
      /\ Stopped(be[n], o.ok).lc = IF o.ok THEN "Stopped" ELSE "Failed"
  BY <1>1, StoppedGood DEF LInv, AllGood
<1> QED
  BY <1>1, <1>2 DEF SessionFits, Available

\* Clearing a route keeps it well typed.
LEMMA ClearedTypes ==
    ASSUME NEW S, NEW route \in S \cup {None}, NEW n, NEW ok
    PROVE  Cleared(route, n, ok) \in S \cup {None}
BY DEF Cleared

\* stop_backend ends Stopped with the session gone, or Failed.
LEMMA StopBackendInv ==
    ASSUME LInv, NEW n \in Names, StopBackend(n) PROVE LInv'
<1>1. PICK o \in StopResults(n) :
        /\ native' = [native EXCEPT ![n] = o.session]
        /\ be' = [be EXCEPT ![n] = Stopped(be[n], o.ok)]
        /\ captureRoute' = Cleared(captureRoute, n, o.ok)
        /\ reinjectRoute' = Cleared(reinjectRoute, n, o.ok)
  BY DEF StopBackend
<1>2. /\ o.session \in Sessions
      /\ Good(Stopped(be[n], o.ok))
      /\ SessionFits(n, Stopped(be[n], o.ok), o.session)
  BY StopFits DEF StopBackend
<1>3. /\ be' \in [Names -> Managed] /\ native' \in [Names -> Sessions]
      /\ AllGood' /\ EngineMatchesNative'
  BY <1>1, <1>2, OneBackend DEF StopBackend
<1>4. captureRoute' \in Capture \cup {None} /\ reinjectRoute' \in Reinjection \cup {None}
  BY <1>1, ClearedTypes DEF LInv, TypeOK
<1> QED
  BY <1>3, <1>4 DEF LInv, TypeOK, StopBackend, QuiescedAfterShutdown, selectVars

\* restart_backend is a stop followed by a start.
LEMMA RestartBackendInv ==
    ASSUME LInv, NEW n \in Names, RestartBackend(n) PROVE LInv'
<1> DEFINE Second(o) == IF o.ok THEN StartOutcomes(n, o.session, Faults) ELSE {o}
           After(o, p) == IF o.ok THEN Started(Stopped(be[n], TRUE), p.ok) ELSE Stopped(be[n], FALSE)
<1>0. PICK o \in StopResults(n) : \E p \in Second(o) :
        /\ native' = [native EXCEPT ![n] = p.session]
        /\ be' = [be EXCEPT ![n] = After(o, p)]
        /\ captureRoute' = Cleared(captureRoute, n, o.ok)
        /\ reinjectRoute' = Cleared(reinjectRoute, n, o.ok)
  BY DEF RestartBackend
<1>1. PICK p \in Second(o) :
        /\ native' = [native EXCEPT ![n] = p.session]
        /\ be' = [be EXCEPT ![n] = After(o, p)]
        /\ captureRoute' = Cleared(captureRoute, n, o.ok)
        /\ reinjectRoute' = Cleared(reinjectRoute, n, o.ok)
  BY <1>0
<1>2. CanStop(be[n].lc) /\ Good(be[n])
  BY DEF RestartBackend, Available, CanStop, LInv, AllGood
<1>3. /\ o.ok \in BOOLEAN /\ o.session \in Sessions
      /\ Good(Stopped(be[n], o.ok))
      /\ SessionFits(n, Stopped(be[n], o.ok), o.session)
  BY <1>2, StopFits
<1>4. p.session \in Sessions /\ Good(After(o, p)) /\ SessionFits(n, After(o, p), p.session)
  <2>1. CASE o.ok = FALSE
    <3>1. p = o /\ After(o, p) = Stopped(be[n], o.ok)
      BY <2>1
    <3> QED
      BY <1>3, <3>1
  <2>2. CASE o.ok = TRUE
    <3>1. p \in StartOutcomes(n, o.session, Faults) /\ After(o, p) = Started(Stopped(be[n], TRUE), p.ok)
      BY <2>2
    <3>2. p.ok \in BOOLEAN /\ p.session \in Sessions /\ (n \in Builtin /\ p.ok => p.session = "open")
      BY <1>3, <3>1, StartFacts, LifecycleAssumption
    <3>3. Good(Stopped(be[n], TRUE)) /\ CanStart(Stopped(be[n], TRUE).lc)
      BY <1>2, StoppedGood DEF CanStart
    <3>4. /\ Good(After(o, p))
          /\ ~p.ok => After(o, p).lc = "Failed"
          /\ After(o, p).lc # "Stopped"
      BY <3>1, <3>2, <3>3, StartedGood
    <3> HIDE DEF After
    <3> QED
      BY <3>2, <3>4 DEF SessionFits, Available
  <2> QED
    BY <1>3, <2>1, <2>2
<1> HIDE DEF After, Second
<1>5. /\ be' \in [Names -> Managed] /\ native' \in [Names -> Sessions]
      /\ AllGood' /\ EngineMatchesNative'
  BY <1>1, <1>4, OneBackend DEF RestartBackend
<1>6. captureRoute' \in Capture \cup {None} /\ reinjectRoute' \in Reinjection \cup {None}
  BY <1>1, ClearedTypes DEF LInv, TypeOK
<1> QED
  BY <1>5, <1>6 DEF LInv, TypeOK, RestartBackend, QuiescedAfterShutdown, selectVars

\* Health reports move health and lifecycle together.
LEMMA RecordInv ==
    ASSUME LInv, NEW n \in Names, BackendRecordSuccess(n) \/ BackendRecordFailure(n)
    PROVE  LInv'
<1>1. PICK b : /\ b \in {RecordSuccess(be[n]), RecordFailure(be[n])}
               /\ be' = [be EXCEPT ![n] = b]
  BY DEF BackendRecordSuccess, BackendRecordFailure
<1>2. Good(b) /\ (Available(b.lc) => Available(be[n].lc)) /\ (b.lc = "Stopped" => be[n].lc = "Stopped")
  BY <1>1, RecordSuccessGood, RecordFailureGood DEF LInv, AllGood
<1>3. native[n] \in Sessions /\ native' = [native EXCEPT ![n] = native[n]]
  BY DEF LInv, TypeOK, BackendRecordSuccess, BackendRecordFailure
<1>4. engine = "Running" => SessionFits(n, b, native[n])
  BY <1>2 DEF LInv, EngineMatchesNative, SessionFits
<1>5. /\ be' \in [Names -> Managed] /\ native' \in [Names -> Sessions]
      /\ AllGood' /\ EngineMatchesNative'
  BY <1>1, <1>2, <1>3, <1>4, OneBackend DEF BackendRecordSuccess, BackendRecordFailure
<1> QED
  BY <1>5 DEF LInv, TypeOK, BackendRecordSuccess, BackendRecordFailure,
              QuiescedAfterShutdown, sessionVars, selectVars

\* isolate_failed_backend touches the failed backend only, and leaves it fitting.
LEMMA IsolatedFits ==
    ASSUME LInv, Running, NEW n \in Names, NEW o \in IsolateResults(n)
    PROVE  /\ o.session \in Sessions
           /\ \E b : /\ Isolated(n, o.ok) = [be EXCEPT ![n] = b]
                     /\ Good(b) /\ SessionFits(n, b, o.session)
<1>1. CASE Available(be[n].lc)
  <2>1. o \in StopResults(n) /\ Isolated(n, o.ok) = [be EXCEPT ![n] = Stopped(be[n], o.ok)]
    BY <1>1 DEF IsolateResults, Isolated
  <2>2. CanStop(be[n].lc)
    BY <1>1 DEF Available, CanStop
  <2> QED
    BY <2>1, <2>2, StopFits
<1>2. CASE ~Available(be[n].lc)
  <2>1. o = [ok |-> TRUE, session |-> native[n]] /\ Isolated(n, o.ok) = be
    BY <1>2 DEF IsolateResults, Ok, Isolated
  <2>2. o.session = native[n] /\ o.session \in Sessions
    BY <2>1, ResultFields DEF LInv, TypeOK
  <2>3. be = [be EXCEPT ![n] = be[n]] /\ Good(be[n])
    BY DEF LInv, TypeOK, AllGood
  <2>4. SessionFits(n, be[n], o.session)
    BY <2>2 DEF Running, LInv, EngineMatchesNative, SessionFits
  <2> QED
    BY <2>1, <2>2, <2>3, <2>4
<1> QED
  BY <1>1, <1>2

\* Isolating a failed backend leaves routes well typed.
LEMMA IsolatedRouteTypes ==
    ASSUME NEW S, NEW route \in S \cup {None}, NEW n, NEW ok
    PROVE  IsolatedRoute(route, n, ok) \in {route, None} /\ IsolatedRoute(route, n, ok) \in S \cup {None}
BY DEF IsolatedRoute, Cleared

\* The policy picks one of the candidates.
LEMMA PickFacts ==
    ASSUME NEW C, C # {}, C \subseteq Capture
    PROVE  Pick(C) \in C
BY DEF Pick, Capture

\* The round-robin cursor keeps its range.
LEMMA NextCursorTypes ==
    ASSUME cursor \in {0, 1}, NEW C
    PROVE  NextCursor(C) \in {0, 1}
BY DEF NextCursor

\* Failover of capture and reinjection keeps the invariant.
LEMMA FailoverInv ==
    ASSUME LInv, NEW n \in Names, FailoverCapture(n) \/ FailoverReinjection(n)
    PROVE  LInv'
<1> DEFINE Cands(o, capable) ==
             IF o.ok THEN FailoverCandidates(capable, n, Isolated(n, o.ok)) ELSE {}
           NewRoute(route, o, capable) ==
             IF Cands(o, capable) # {} THEN Pick(Cands(o, capable)) ELSE IsolatedRoute(route, n, o.ok)
<1>1. PICK o \in IsolateResults(n) :
        /\ native' = [native EXCEPT ![n] = o.session]
        /\ be' = Isolated(n, o.ok)
        /\ captureRoute' \in {NewRoute(captureRoute, o, Capture), IsolatedRoute(captureRoute, n, o.ok)}
        /\ reinjectRoute' \in {NewRoute(reinjectRoute, o, Reinjection), IsolatedRoute(reinjectRoute, n, o.ok)}
        /\ cursor' \in {NextCursor(Cands(o, Capture)), NextCursor(Cands(o, Reinjection))}
  BY DEF FailoverCapture, FailoverReinjection
<1>2. Running /\ engine' = engine
  BY DEF FailoverCapture, FailoverReinjection
<1>3. /\ o.session \in Sessions
      /\ \E b : be' = [be EXCEPT ![n] = b] /\ Good(b) /\ SessionFits(n, b, o.session)
  BY <1>1, <1>2, IsolatedFits
<1>4. /\ be' \in [Names -> Managed] /\ native' \in [Names -> Sessions]
      /\ AllGood' /\ EngineMatchesNative'
  BY <1>1, <1>2, <1>3, OneBackend
<1>5. Cands(o, Capture) \subseteq Capture /\ Cands(o, Reinjection) \subseteq Reinjection
  BY DEF FailoverCandidates
<1> HIDE DEF Cands
<1>6. captureRoute' \in Capture \cup {None}
  BY <1>1, <1>5, PickFacts, IsolatedRouteTypes DEF LInv, TypeOK
<1>7. reinjectRoute' \in Reinjection \cup {None}
  <2>1. Reinjection \subseteq Capture
    BY DEF Reinjection, Capture
  <2> QED
    BY <1>1, <1>5, <2>1, PickFacts, IsolatedRouteTypes DEF LInv, TypeOK
<1>8. cursor' \in {0, 1}
  BY <1>1, NextCursorTypes DEF LInv, TypeOK
<1> QED
  BY <1>2, <1>4, <1>6, <1>7, <1>8 DEF LInv, TypeOK, FailoverCapture, FailoverReinjection,
     QuiescedAfterShutdown

\* The calls that leave every backend alone.
LEMMA OtherCallsInv ==
    ASSUME LInv,
           \/ \E p \in Policies : SetFailoverPolicy(p)
           \/ \E capable \in {Capture, Reinjection} : BackendSelect(capable)
           \/ CaptureStart \/ CaptureStop \/ Reinject \/ ShutdownRefused
           \/ \E forwarding \in BOOLEAN : GatewayConfig(forwarding)
           \/ GatewayStart \/ GatewayStop
    PROVE  LInv'
<1>1. be' = be /\ native' = native /\ engine' = engine /\ registered' = registered
  BY DEF SetFailoverPolicy, BackendSelect, CaptureStart, CaptureStop, Reinject, ShutdownRefused,
         GatewayConfig, GatewayStart, GatewayStop
<1>2. AllGood' /\ EngineMatchesNative'
  BY <1>1 DEF LInv, AllGood, EngineMatchesNative
<1>3. CASE \E p \in Policies : SetFailoverPolicy(p)
  BY <1>1, <1>2, <1>3, LifecycleAssumption
     DEF SetFailoverPolicy, LInv, TypeOK, QuiescedAfterShutdown, sessionVars
<1>4. CASE \E capable \in {Capture, Reinjection} : BackendSelect(capable)
  <2>1. cursor' \in {0, 1}
    BY <1>4, NextCursorTypes DEF BackendSelect, LInv, TypeOK
  <2> QED
    BY <1>1, <1>2, <1>4, <2>1 DEF BackendSelect, LInv, TypeOK, QuiescedAfterShutdown, sessionVars
<1>5. CASE CaptureStart
  <2>1. capturing' \in BOOLEAN /\ engine = "Running"
    BY <1>5 DEF CaptureStart, Running
  <2> QED
    BY <1>1, <1>2, <1>5, <2>1 DEF CaptureStart, LInv, TypeOK, QuiescedAfterShutdown, selectVars
<1>8. CASE CaptureStop
  <2>1. capturing' \in BOOLEAN /\ ~capturing'
    BY <1>8 DEF CaptureStop
  <2>2. serving' = serving /\ gateway' = gateway
    BY <1>8 DEF CaptureStop
  <2>3. QuiescedAfterShutdown'
    BY <1>1, <2>1, <2>2 DEF LInv, QuiescedAfterShutdown
  <2> QED
    BY <1>1, <1>2, <1>8, <2>1, <2>3 DEF CaptureStop, LInv, TypeOK, selectVars
<1>9. CASE ShutdownRefused
  <2>1. capturing' \in BOOLEAN /\ ~capturing'
    BY <1>9 DEF ShutdownRefused
  <2>2. serving' = serving /\ gateway' = gateway
    BY <1>9 DEF ShutdownRefused
  <2>3. QuiescedAfterShutdown'
    BY <1>1, <2>1, <2>2 DEF LInv, QuiescedAfterShutdown
  <2>4. outcome' \in Outcomes
    BY <1>9 DEF ShutdownRefused, Outcomes
  <2> QED
    BY <1>1, <1>2, <1>9, <2>1, <2>3, <2>4 DEF ShutdownRefused, LInv, TypeOK, selectVars
<1>6. CASE Reinject
  BY <1>1, <1>2, <1>6 DEF Reinject, LInv, TypeOK, QuiescedAfterShutdown, selectVars, Outcomes
<1>7. CASE (\E forwarding \in BOOLEAN : GatewayConfig(forwarding)) \/ GatewayStart \/ GatewayStop
  <2>1. engine = "Running"
    BY <1>7 DEF GatewayConfig, GatewayStart, GatewayStop, Running
  <2>2. gateway' \in [on : BOOLEAN, ready : BOOLEAN]
    <3>1. gateway \in [on : BOOLEAN, ready : BOOLEAN]
      BY DEF LInv, TypeOK
    <3>2. \A x \in BOOLEAN : [gateway EXCEPT !.on = x] \in [on : BOOLEAN, ready : BOOLEAN]
      BY <3>1
    <3>3. (gateway.on \/ gateway.ready) \in BOOLEAN /\ ForwardingReady \in BOOLEAN
      BY DEF ForwardingReady, SomeAvailable
    <3>4. CASE \E forwarding \in BOOLEAN : GatewayConfig(forwarding)
      <4>1. gateway' = [on |-> FALSE, ready |-> ForwardingReady]
        BY <3>4 DEF GatewayConfig
      <4> QED
        BY <3>3, <4>1, Zenon
    <3>5. CASE GatewayStart
      <4>1. gateway' = [gateway EXCEPT !.on = gateway.on \/ gateway.ready]
        BY <3>5 DEF GatewayStart
      <4> QED
        BY <3>2, <3>3, <4>1, Zenon
    <3>6. CASE GatewayStop
      <4>1. gateway' = [gateway EXCEPT !.on = FALSE]
        BY <3>6 DEF GatewayStop
      <4> QED
        BY <3>2, <4>1, Zenon
    <3> QED
      BY <1>7, <3>4, <3>5, <3>6
  <2> QED
    BY <1>1, <1>2, <1>7, <2>1, <2>2 DEF GatewayConfig, GatewayStart, GatewayStop, LInv, TypeOK,
       QuiescedAfterShutdown, selectVars
<1> QED
  BY <1>3, <1>4, <1>5, <1>6, <1>7, <1>8, <1>9

\* mark_stopped or Failed during shutdown leaves a good backend good: the matrix
\* refuses Stopped from an available backend, and Failed is legal from there.
LEMMA ManagedAfterGood ==
    ASSUME NEW b, Good(b), CanStop(b.lc), NEW to \in {"Stopped", "Failed"}
    PROVE  Good(SetLifecycle(b, to))
<1>1. b \in Managed /\ to \in Lifecycles
  BY DEF Good, Lifecycles
<1>2. CASE CanTransition(b.lc, to)
  <2>1. SetLifecycle(b, to) \in Managed /\ SetLifecycle(b, to).lc = to
    BY <1>1, <1>2, SetLifecycleMoves
  <2> QED
    BY <2>1 DEF Good
<1>3. CASE ~CanTransition(b.lc, to)
  BY <1>3, SetLifecycleRefused
<1> QED
  BY <1>2, <1>3

\* shutdown: an Engine that is not gone is ShuttingDown, and then everything that
\* produces packets has been stopped first, whatever the later stages came to.
LEMMA ShutdownInv == ASSUME LInv, Shutdown PROVE LInv'
<1>1. PICK f \in NativeStops, actionStops \in (IF Faults THEN BOOLEAN ELSE {TRUE}) :
        /\ engine' = IF ShutdownResult(f, actionStops) = "ok" THEN "none" ELSE "ShuttingDown"
        /\ outcome' = ShutdownResult(f, actionStops)
        /\ be' = [n \in Names |-> ManagedAfter(n, f)]
        /\ native' = [n \in Names |-> SlotAfter(n, f)]
        /\ action' = (action /\ ShutdownResult(f, actionStops) = "native")
        /\ captureRoute' = IF ShutdownResult(f, actionStops) \in {"native", "action"}
                           THEN captureRoute ELSE None
        /\ reinjectRoute' = IF ShutdownResult(f, actionStops) \in {"native", "action"}
                            THEN reinjectRoute ELSE None
  BY DEF Shutdown
<1>2. \A n \in Names : Good(ManagedAfter(n, f))
  <2> SUFFICES ASSUME NEW n \in Names PROVE Good(ManagedAfter(n, f))
    OBVIOUS
  <2>1. Good(be[n])
    BY DEF LInv, AllGood
  <2>2. CASE n \in Stoppable
    <3> DEFINE to == IF f[n].ok THEN "Stopped" ELSE "Failed"
    <3>1. ManagedAfter(n, f) = SetLifecycle(be[n], to) /\ CanStop(be[n].lc)
      BY <2>2 DEF ManagedAfter, Stoppable
    <3>2. to \in {"Stopped", "Failed"}
      OBVIOUS
    <3> HIDE DEF to
    <3> QED
      BY <2>1, <3>1, <3>2, ManagedAfterGood
  <2>3. CASE n \notin Stoppable
    BY <2>1, <2>3 DEF ManagedAfter
  <2> QED
    BY <2>2, <2>3
<1>3. \A n \in Names : SlotAfter(n, f) \in Sessions
  <2> SUFFICES ASSUME NEW n \in Names PROVE SlotAfter(n, f) \in Sessions
    OBVIOUS
  <2>1. native[n] \in Sessions /\ "none" \in Sessions
    BY DEF LInv, TypeOK, Sessions
  <2>2. n \in Stoppable => f[n] \in [ok : BOOLEAN, session : Sessions]
    BY DEF NativeStops
  <2> QED
    BY <2>1, <2>2 DEF SlotAfter
<1>4. be' \in [Names -> Managed] /\ native' \in [Names -> Sessions] /\ AllGood'
  BY <1>1, <1>2, <1>3 DEF AllGood, Good
<1>5. ShutdownResult(f, actionStops) \in Outcomes
  BY DEF ShutdownResult, Outcomes
<1>6. captureRoute' \in Capture \cup {None} /\ reinjectRoute' \in Reinjection \cup {None}
  BY <1>1 DEF LInv, TypeOK
<1>7. action' \in BOOLEAN
  BY <1>1, Zenon
<1>8. capturing' = FALSE /\ serving' = FALSE /\ gateway' = [gateway EXCEPT !.on = FALSE]
  BY DEF Shutdown
<1>9. gateway' \in [on : BOOLEAN, ready : BOOLEAN] /\ ~gateway'.on
  <2>1. gateway \in [on : BOOLEAN, ready : BOOLEAN]
    BY DEF LInv, TypeOK
  <2>2. \A x \in BOOLEAN : /\ [gateway EXCEPT !.on = x] \in [on : BOOLEAN, ready : BOOLEAN]
                           /\ [gateway EXCEPT !.on = x].on = x
    BY <2>1
  <2> QED
    BY <1>8, <2>2, Zenon
<1>10. engine' \in {"none", "ShuttingDown"}
  BY <1>1
<1>11. TypeOK'
  BY <1>1, <1>4, <1>5, <1>6, <1>7, <1>8, <1>9, <1>10 DEF LInv, TypeOK, Shutdown, selectVars
<1>12. EngineMatchesNative' /\ QuiescedAfterShutdown'
  BY <1>8, <1>9, <1>10 DEF EngineMatchesNative, QuiescedAfterShutdown
<1> QED
  BY <1>4, <1>11, <1>12 DEF LInv

-----------------------------------------------------------------------------
\* Every step of the Engine, and every stuttering step, keeps the invariant.
LEMMA StepInv == LInv /\ [Next]_vars => LInv'
<1> SUFFICES ASSUME LInv, [Next]_vars PROVE LInv'
  OBVIOUS
<1>1. CASE NetworkInit
  BY <1>1, NetworkInitInv
<1>2. CASE \E n \in Custom : RegisterBackend(n)
  BY <1>2, RegisterBackendInv
<1>3. ASSUME NEW n \in Touched, BackendCall(n) PROVE LInv'
  <2>1. n \in Names
    BY LifecycleAssumption
  <2> QED
    BY <1>3, <2>1, StartBackendInv, StopBackendInv, RestartBackendInv, FailoverInv DEF BackendCall
<1>4. ASSUME NEW n \in Reported, BackendRecordSuccess(n) \/ BackendRecordFailure(n) PROVE LInv'
  <2>1. n \in Names
    BY LifecycleAssumption
  <2> QED
    BY <1>4, <2>1, RecordInv
<1>5. CASE Shutdown
  BY <1>5, ShutdownInv
<1>6. CASE UNCHANGED vars
  BY <1>6 DEF vars, sessionVars, selectVars, LInv, TypeOK, AllGood, EngineMatchesNative,
              QuiescedAfterShutdown
<1> QED
  BY <1>1, <1>2, <1>3, <1>4, <1>5, <1>6, OtherCallsInv DEF Next

\* LInv holds in every state the control plane can reach.
THEOREM LifecycleInvariant == Spec => []LInv
<1>1. Init => LInv
  BY InitInv
<1>2. LInv /\ [Next]_vars => LInv'
  BY StepInv
<1> QED
  BY <1>1, <1>2, PTL DEF Spec

\* The types of the control plane's state (EngineRuntime, BackendManager).
THEOREM LifecycleTypeOK == Spec => []TypeOK
<1>1. LInv => TypeOK
  BY DEF LInv
<1> QED
  BY <1>1, LifecycleInvariant, PTL

\* No backend stays in Starting or Stopping once a call has returned
\* (start_backend, stop_backend, restart_backend, the fail-overs, shutdown).
THEOREM NeverStuck == Spec => []NoTransientAtRest
<1>1. LInv => NoTransientAtRest
  BY DEF LInv, AllGood, Good, NoTransientAtRest
<1> QED
  BY <1>1, LifecycleInvariant, PTL

\* What the manager reports as available has an open native session, and only
\* initialisation opens a session behind a Stopped backend.
THEOREM EngineAndNativeAgree == Spec => []EngineMatchesNative
<1>1. LInv => EngineMatchesNative
  BY DEF LInv
<1> QED
  BY <1>1, LifecycleInvariant, PTL

\* A backend the selectors may offer is one whose health permits its use.  The
\* stronger fact of Good is what is inductive: a Running backend is Healthy and a
\* Degraded one Degraded (record_success, record_failure, set_lifecycle).
THEOREM UnhealthyIsNotOffered == Spec => []UnhealthyNotAvailable
<1>1. LInv => UnhealthyNotAvailable
  BY DEF LInv, AllGood, Good, UnhealthyNotAvailable, Available, HealthPermits
<1> QED
  BY <1>1, LifecycleInvariant, PTL

\* A shutdown that stops half-way has silenced every producer first (shutdown).
THEOREM QuiescentShutdown == Spec => []QuiescedAfterShutdown
<1>1. LInv => QuiescedAfterShutdown
  BY DEF LInv
<1> QED
  BY <1>1, LifecycleInvariant, PTL

-----------------------------------------------------------------------------
\* A route may be kept, cleared, or moved to a backend that is fit to carry it.
RouteFits(old, new, states) ==
    new \notin {old, None} => Available(states[new].lc) /\ states[new].health = "Healthy"

\* What RoutesMoveToHealthy says of one step.
RoutesFit ==
    /\ RouteFits(captureRoute, captureRoute', be')
    /\ RouteFits(reinjectRoute, reinjectRoute', be')

\* stop_backend and restart_backend only ever clear a route.
LEMMA ClearedFits ==
    ASSUME NEW route, NEW n, NEW ok, NEW states
    PROVE  RouteFits(route, Cleared(route, n, ok), states)
BY DEF RouteFits, Cleared

\* Neither does isolate_failed_backend point a route anywhere.
LEMMA IsolatedRouteFits ==
    ASSUME NEW route, NEW n, NEW ok, NEW states
    PROVE  RouteFits(route, IsolatedRoute(route, n, ok), states)
BY DEF RouteFits, IsolatedRoute, Cleared

\* Whatever the policy, the successor select_healthy_backend_for_failover names is
\* available and healthy in the states it was asked about.
LEMMA PickFits ==
    ASSUME NEW route, NEW n, NEW states, NEW capable, capable \subseteq Capture,
           FailoverCandidates(capable, n, states) # {}
    PROVE  RouteFits(route, Pick(FailoverCandidates(capable, n, states)), states)
<1>1. FailoverCandidates(capable, n, states) \subseteq Capture
  BY DEF FailoverCandidates
<1>2. Pick(FailoverCandidates(capable, n, states)) \in FailoverCandidates(capable, n, states)
  BY <1>1, PickFacts
<1> QED
  BY <1>2 DEF FailoverCandidates, RouteFits

\* Both fail-overs choose among the states the isolation left behind, and those
\* are the states the call leaves behind.
LEMMA FailoverFits ==
    ASSUME NEW n, FailoverCapture(n) \/ FailoverReinjection(n)
    PROVE  RoutesFit
<1>1. Capture \subseteq Capture /\ Reinjection \subseteq Capture
  BY DEF Capture, Reinjection
<1>2. CASE FailoverCapture(n)
  <2> DEFINE Cands(o) == IF o.ok THEN FailoverCandidates(Capture, n, Isolated(n, o.ok)) ELSE {}
  <2>1. PICK o \in IsolateResults(n) :
          /\ be' = Isolated(n, o.ok)
          /\ captureRoute' = IF Cands(o) # {} THEN Pick(Cands(o))
                             ELSE IsolatedRoute(captureRoute, n, o.ok)
          /\ reinjectRoute' = IsolatedRoute(reinjectRoute, n, o.ok)
    BY <1>2 DEF FailoverCapture
  <2>2. Cands(o) # {} => Cands(o) = FailoverCandidates(Capture, n, be')
    BY <2>1
  <2> HIDE DEF Cands
  <2> QED
    BY <1>1, <2>1, <2>2, PickFits, IsolatedRouteFits DEF RoutesFit
<1>3. CASE FailoverReinjection(n)
  <2> DEFINE Cands(o) == IF o.ok THEN FailoverCandidates(Reinjection, n, Isolated(n, o.ok)) ELSE {}
  <2>1. PICK o \in IsolateResults(n) :
          /\ be' = Isolated(n, o.ok)
          /\ captureRoute' = IsolatedRoute(captureRoute, n, o.ok)
          /\ reinjectRoute' = IF Cands(o) # {} THEN Pick(Cands(o))
                              ELSE IsolatedRoute(reinjectRoute, n, o.ok)
    BY <1>3 DEF FailoverReinjection
  <2>2. Cands(o) # {} => Cands(o) = FailoverCandidates(Reinjection, n, be')
    BY <2>1
  <2> HIDE DEF Cands
  <2> QED
    BY <1>1, <2>1, <2>2, PickFits, IsolatedRouteFits DEF RoutesFit
<1> QED
  BY <1>2, <1>3

\* Every call that starts and ends in a running Engine keeps, clears or moves the
\* routes as it may; initialisation and shutdown do not start and end there.
LEMMA StepRoutesFit ==
    ASSUME [Next]_vars, engine = "Running", engine' = "Running"
    PROVE  RoutesFit
<1>1. ASSUME captureRoute' = captureRoute, reinjectRoute' = reinjectRoute PROVE RoutesFit
  BY <1>1 DEF RoutesFit, RouteFits
<1>2. ~NetworkInit /\ ~Shutdown /\ ~ShutdownRefused
  BY DEF NetworkInit, Shutdown, ShutdownRefused
<1>3. ASSUME NEW n \in Touched, BackendCall(n) PROVE RoutesFit
  <2>1. CASE StartBackend(n)
    BY <1>1, <2>1 DEF StartBackend, sessionVars
  <2>2. CASE StopBackend(n)
    BY <2>2, ClearedFits DEF StopBackend, RoutesFit
  <2>3. CASE RestartBackend(n)
    BY <2>3, ClearedFits DEF RestartBackend, RoutesFit
  <2> QED
    BY <1>3, <2>1, <2>2, <2>3, FailoverFits DEF BackendCall
<1>4. CASE \/ \E n \in Custom : RegisterBackend(n)
           \/ \E n \in Reported : BackendRecordSuccess(n)
           \/ \E n \in Reported : BackendRecordFailure(n)
           \/ \E p \in Policies : SetFailoverPolicy(p)
           \/ \E capable \in {Capture, Reinjection} : BackendSelect(capable)
           \/ UNCHANGED vars
  BY <1>1, <1>4 DEF RegisterBackend, BackendRecordSuccess, BackendRecordFailure,
     SetFailoverPolicy, BackendSelect, sessionVars, vars
<1>5. CASE \/ CaptureStart \/ CaptureStop \/ Reinject
           \/ \E forwarding \in BOOLEAN : GatewayConfig(forwarding)
           \/ GatewayStart \/ GatewayStop
  BY <1>1, <1>5 DEF CaptureStart, CaptureStop, Reinject, GatewayConfig, GatewayStart, GatewayStop
<1> QED
  BY <1>2, <1>3, <1>4, <1>5 DEF Next

\* While the Engine runs, a route moves only to a backend that is available and
\* healthy once the call returns (failover_capture_backend,
\* failover_reinjection_backend, stop_backend, restart_backend).
THEOREM RoutesStayFit == Spec => RoutesMoveToHealthy
<1>1. [Next]_vars =>
        [engine = "Running" /\ engine' = "Running" =>
            \A old_new \in {<<captureRoute, captureRoute'>>, <<reinjectRoute, reinjectRoute'>>} :
                old_new[2] \notin {old_new[1], None} =>
                    Available(be'[old_new[2]].lc) /\ be'[old_new[2]].health = "Healthy"]_vars
  BY StepRoutesFit DEF RoutesFit, RouteFits
<1> QED
  BY <1>1, PTL DEF Spec, RoutesMoveToHealthy
=============================================================================
