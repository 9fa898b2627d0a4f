-------------------------- MODULE SelectionProofs --------------------------
(***************************************************************************)
(* Proofs about the choice of a backend, for any number of backends and    *)
(* worker threads and any width of the counters that the threads do not    *)
(* exhaust.  LoadBalancer: a backend's in-flight count is exact, a search  *)
(* that comes back empty missed nobody, and the three selectors agree.     *)
(* Failover: its candidates, index, active one and state fit together but  *)
(* for the names of candidates the Host renamed in place.                  *)
(***************************************************************************)
EXTENDS MCSelection, ListProofs

PCs == {"idle", "picking", "chosen", "counting", "working", "reporting", "subtracting"}

ThreadRecords ==
    [pc : PCs, kind : Kinds \cup {None}, cap : Capability \cup {None}, todo : SUBSET Backends,
     best : Backends \cup {None}, least : Nat]

\* The types, and the places in which a thread has a backend, or a kind of work.
ThreadsGood ==
    /\ thread \in [Threads -> ThreadRecords]
    /\ \A t \in Threads : /\ thread[t].pc \notin {"idle", "picking"} => thread[t].best \in Backends
                          /\ thread[t].pc = "picking" => thread[t].kind \in Kinds

\* What keeps the counters exact.  Counters are not forgotten while a report
\* holds the lock; those that were not forgotten under running work exist from
\* ensure_counters on, and then a report finds at least itself in them.
CountersGood ==
    /\ load \in [Backends -> Nat \cup {None}]
    /\ clean \in [Backends -> BOOLEAN]
    /\ \A t \in Threads :
          LET b == thread[t].best
          IN  /\ thread[t].pc = "subtracting" => load[b] # None /\ thread[t].least \in {0, 1}
              /\ thread[t].pc = "subtracting" /\ clean[b] => thread[t].least = 1
              /\ thread[t].pc = "counting" /\ clean[b] => load[b] # None
    /\ LoadIsExact

\* What a search has not seen yet holds every backend that was there all the time.
SearchesGood ==
    /\ steady \in [Threads -> SUBSET Backends]
    /\ \A t \in Threads :
          /\ thread[t].pc # "picking" => steady[t] = {}
          /\ thread[t].pc = "picking" /\ thread[t].best = None => steady[t] \subseteq thread[t].todo
          /\ \A b \in steady[t] : Operational(b)

BalancerInv == ThreadsGood /\ CountersGood /\ SearchesGood

-----------------------------------------------------------------------------
\* A kind of work names known capabilities.
LEMMA WorkCaps ==
    \A k \in WorkKind : PrimaryCapability[k] \in Capability /\ FallbackCapability[k] \subseteq Capability
  BY DEF WorkKind, PrimaryCapability, FallbackCapability, Capability, Code

\* Counting up and down without reaching the width.
LEMMA ModType == \A x \in Nat : Word > 0 => x % Word \in Nat
  BY BalancerAssumption

LEMMA ModSmall == \A x \in Nat : x < Word => x % Word = x
  BY BalancerAssumption

LEMMA ModWrap == \A x \in Nat : 1 <= x /\ x < Word => (x + Word - 1) % Word = x - 1
  BY BalancerAssumption

LEMMA WordPositive == Word > 0
<1>1. Cardinality(Threads) \in Nat BY BalancerAssumption, FS_CardinalityType
<1> QED BY <1>1, BalancerAssumption

\* The threads at work on a backend are finitely many, and fewer than Word.
LEMMA WorkingFinite ==
    \A b : IsFiniteSet(Working(b)) /\ Cardinality(Working(b)) \in Nat /\ Cardinality(Working(b)) < Word
<1> SUFFICES ASSUME NEW b
             PROVE  IsFiniteSet(Working(b)) /\ Cardinality(Working(b)) \in Nat /\ Cardinality(Working(b)) < Word
  OBVIOUS
<1>1. Working(b) \subseteq Threads BY DEF Working
<1>2. IsFiniteSet(Working(b)) /\ Cardinality(Working(b)) <= Cardinality(Threads)
  BY <1>1, BalancerAssumption, FS_Subset
<1>3. Cardinality(Working(b)) \in Nat /\ Cardinality(Threads) \in Nat
  BY <1>2, BalancerAssumption, FS_CardinalityType
<1> QED BY <1>2, <1>3, BalancerAssumption

-----------------------------------------------------------------------------
(* Steps.                                                                   *)

\* The threads move as their types say.
LEMMA ThreadsStep ==
    ASSUME ThreadsGood, load \in [Backends -> Nat \cup {None}], [LbNext]_lbVars
    PROVE  ThreadsGood'
<1> USE DEF ThreadsGood
<1>0. ASSUME UNCHANGED thread PROVE ThreadsGood' BY <1>0
<1>i. Idle \in ThreadRecords /\ Idle.pc = "idle" /\ Idle.best = None BY DEF Idle, ThreadRecords, PCs
<1>m. ASSUME NEW t \in Threads, NEW r \in ThreadRecords, thread' = [thread EXCEPT ![t] = r],
             r.pc \notin {"idle", "picking"} => r.best \in Backends,
             r.pc = "picking" => r.kind \in Kinds
      PROVE  ThreadsGood'
  BY <1>m
<1>l. \A b \in Backends : LoadOf(b) \in Nat BY BalancerAssumption DEF LoadOf
<1>k. ASSUME NEW t \in Threads, NEW kind \in Kinds, NEW cap \in Capability, Look(t, kind, cap)
      PROVE  ThreadsGood'
  <2> DEFINE r == [pc |-> "picking", kind |-> kind, cap |-> cap, todo |-> FindCapable(cap),
                   best |-> None, least |-> 0]
  <2>1. FindCapable(cap) \subseteq Backends BY DEF FindCapable
  <2>2. r \in ThreadRecords BY <2>1 DEF ThreadRecords, PCs
  <2>3. thread' = [thread EXCEPT ![t] = r] BY <1>k DEF Look
  <2>4. r.pc = "picking" /\ r.kind = kind OBVIOUS
  <2> HIDE DEF r
  <2> QED BY <1>m, <2>2, <2>3, <2>4
<1>1. ASSUME NEW t \in Threads, NEW kind \in Kinds, Select(t, kind) PROVE ThreadsGood'
  BY <1>1, <1>k, WorkCaps, BalancerAssumption DEF Select
<1>2. ASSUME NEW t \in Threads, Visit(t) PROVE ThreadsGood'
  <2>1. PICK b \in thread[t].todo :
          LET better == Eligible(b) /\ (thread[t].best = None \/ LoadOf(b) < thread[t].least)
          IN  thread' = [thread EXCEPT ![t].todo = @ \ {b},
                                       ![t].best = IF better THEN b ELSE @,
                                       ![t].least = IF better THEN LoadOf(b) ELSE @]
    BY <1>2 DEF Visit
  <2> DEFINE better == Eligible(b) /\ (thread[t].best = None \/ LoadOf(b) < thread[t].least)
             r == [thread[t] EXCEPT !.todo = @ \ {b}, !.best = IF better THEN b ELSE @,
                                    !.least = IF better THEN LoadOf(b) ELSE @]
  <2>2. thread[t] \in ThreadRecords /\ thread[t].pc = "picking" /\ thread[t].kind \in Kinds
    BY <1>2 DEF Visit
  <2>3. b \in Backends BY <2>2 DEF ThreadRecords
  <2>4. thread' = [thread EXCEPT ![t] = r] BY <2>1
  <2> HIDE DEF better
  <2>5. LoadOf(b) \in Nat BY <1>l, <2>3
  <2>6. r \in ThreadRecords /\ r.pc = "picking" /\ r.kind \in Kinds
    <3>1. CASE better BY <2>2, <2>3, <2>5, <3>1 DEF ThreadRecords
    <3>2. CASE ~better BY <2>2, <3>2 DEF ThreadRecords
    <3> QED BY <3>1, <3>2
  <2> HIDE DEF r
  <2> QED BY <1>m, <2>4, <2>6
<1>3. ASSUME NEW t \in Threads, Decide(t) PROVE ThreadsGood'
  <2>0. thread[t] \in ThreadRecords /\ thread[t].kind \in Kinds BY <1>3 DEF Decide
  <2>1. CASE thread[t].best # None
    <3> DEFINE r == [Idle EXCEPT !.pc = "chosen", !.best = thread[t].best]
    <3>1. thread' = [thread EXCEPT ![t] = r] BY <1>3, <2>1 DEF Decide
    <3>2. thread[t].best \in Backends BY <2>0, <2>1 DEF ThreadRecords
    <3>3. r \in ThreadRecords /\ r.pc = "chosen" /\ r.best \in Backends
      BY <3>2 DEF Idle, ThreadRecords, PCs
    <3> HIDE DEF r
    <3> QED BY <1>m, <3>1, <3>3
  <2>2. CASE thread[t].best = None /\ NextFallback(t) # {}
    <3>1. PICK cap \in NextFallback(t) : Look(t, thread[t].kind, cap) BY <1>3, <2>2 DEF Decide
    <3>2. cap \in Capability BY <2>0, <3>1, WorkCaps, BalancerAssumption DEF NextFallback
    <3> QED BY <1>k, <2>0, <3>1, <3>2
  <2>3. CASE thread[t].best = None /\ NextFallback(t) = {}
    <3>1. thread' = [thread EXCEPT ![t] = Idle] BY <1>3, <2>3 DEF Decide
    <3> QED BY <1>m, <1>i, <3>1
  <2> QED BY <2>1, <2>2, <2>3
<1>4. ASSUME NEW t \in Threads, NEW from \in {"chosen", "working"}, NEW to \in {"counting", "reporting"},
             Ensure(t, from, to)
      PROVE  ThreadsGood'
  <2> DEFINE r == [thread[t] EXCEPT !.pc = to]
  <2>1. thread' = [thread EXCEPT ![t] = r] BY <1>4 DEF Ensure
  <2>2. thread[t] \in ThreadRecords /\ thread[t].best \in Backends BY <1>4 DEF Ensure
  <2>3. r \in ThreadRecords /\ r.best \in Backends /\ r.pc = to BY <2>2 DEF ThreadRecords, PCs
  <2> HIDE DEF r
  <2> QED BY <1>m, <2>1, <2>3
<1>5. ASSUME NEW t \in Threads, CountStarted(t) PROVE ThreadsGood'
  <2> DEFINE r == [thread[t] EXCEPT !.pc = "working"]
  <2>1. thread' = [thread EXCEPT ![t] = r] BY <1>5 DEF CountStarted
  <2>2. thread[t] \in ThreadRecords /\ thread[t].best \in Backends BY <1>5 DEF CountStarted
  <2>3. r \in ThreadRecords /\ r.best \in Backends /\ r.pc = "working" BY <2>2 DEF ThreadRecords, PCs
  <2> HIDE DEF r
  <2> QED BY <1>m, <2>1, <2>3
<1>6. ASSUME NEW t \in Threads, LoadForReport(t) PROVE ThreadsGood'
  <2>1. thread[t] \in ThreadRecords /\ thread[t].best \in Backends BY <1>6 DEF LoadForReport
  <2>2. CASE load[thread[t].best] = None
    <3>1. thread' = [thread EXCEPT ![t] = Idle] BY <1>6, <2>2 DEF LoadForReport
    <3> QED BY <1>m, <1>i, <3>1
  <2>3. CASE load[thread[t].best] # None
    <3> DEFINE n == IF load[thread[t].best] = 0 THEN 0 ELSE 1
               r == [thread[t] EXCEPT !.pc = "subtracting", !.least = n]
    <3>1. thread' = [thread EXCEPT ![t] = r] BY <1>6, <2>3 DEF LoadForReport
    <3>2. n \in Nat OBVIOUS
    <3> HIDE DEF n
    <3>3. r \in ThreadRecords /\ r.best \in Backends /\ r.pc = "subtracting"
      BY <2>1, <3>2 DEF ThreadRecords, PCs
    <3> HIDE DEF r
    <3> QED BY <1>m, <3>1, <3>3
  <2> QED BY <2>2, <2>3
<1>7. ASSUME NEW t \in Threads, SubtractReport(t) PROVE ThreadsGood'
  BY <1>7, <1>m, <1>i DEF SubtractReport
<1>8. ASSUME Control PROVE ThreadsGood'
  BY <1>0, <1>8 DEF Control, Register, Unregister, ManagerStart, ManagerStop, Report, ManagerStarted,
                    ManagerStopped, Forget
<1>9. ASSUME Work PROVE ThreadsGood'
  <2>1. ASSUME NEW t \in Threads, ReportStarted(t) \/ ReportDone(t) PROVE ThreadsGood'
    BY <1>4, <2>1 DEF ReportStarted, ReportDone
  <2> QED BY <1>1, <1>2, <1>3, <1>5, <1>6, <1>7, <1>9, <2>1 DEF Work
<1> QED BY <1>0, <1>8, <1>9 DEF LbNext, lbVars

\* A step that changes neither counters nor who works on what keeps them.
LEMMA CountersKept ==
    ASSUME ThreadsGood, CountersGood, UNCHANGED <<load, clean>>, ThreadsGood',
           \A t \in Threads : \/ thread'[t] = thread[t]
                              \/ /\ thread[t].pc \in {"idle", "picking"}
                                 /\ thread'[t].pc \in {"idle", "picking", "chosen"}
    PROVE  CountersGood'
<1>1. \A b : Working(b)' = Working(b) BY DEF Working
<1>2. LoadIsExact' BY <1>1 DEF CountersGood, LoadIsExact, LoadOf
<1>3. ASSUME NEW t \in Threads
      PROVE  LET b == thread'[t].best
             IN  /\ thread'[t].pc = "subtracting" => load[b] # None /\ thread'[t].least \in {0, 1}
                 /\ thread'[t].pc = "subtracting" /\ clean[b] => thread'[t].least = 1
                 /\ thread'[t].pc = "counting" /\ clean[b] => load[b] # None
  <2>1. CASE thread'[t] = thread[t] BY <2>1 DEF CountersGood
  <2>2. CASE thread'[t].pc \in {"idle", "picking", "chosen"} BY <2>2
  <2> QED BY <2>1, <2>2
<1> QED BY <1>2, <1>3 DEF CountersGood

\* A thread among those at work has a counter that counts it.
LEMMA CountedOnce ==
    ASSUME CountersGood, NEW b \in Backends, clean[b], NEW t \in Working(b)
    PROVE  load[b] \in Nat /\ load[b] >= 1 /\ load[b] = Cardinality(Working(b))
<1>1. LoadOf(b) = Cardinality(Working(b)) BY DEF CountersGood, LoadIsExact
<1>2. Cardinality(Working(b)) # 0 BY WorkingFinite, FS_EmptySet
<1>3. Cardinality(Working(b)) \in Nat BY WorkingFinite
<1>4. load[b] \in Nat \cup {None} BY DEF CountersGood
<1>5. load[b] # None BY <1>1, <1>2 DEF LoadOf
<1>6. LoadOf(b) = load[b] BY <1>5 DEF LoadOf
<1> QED BY <1>1, <1>2, <1>3, <1>4, <1>5, <1>6

\* ensure_counters leaves every load as it was.
LEMMA EnsureCounters ==
    ASSUME ThreadsGood, CountersGood, NEW t \in Threads,
           \/ Ensure(t, "chosen", "counting")
           \/ Ensure(t, "working", "reporting")
    PROVE  CountersGood'
<1> DEFINE b == thread[t].best
<1>1. b \in Backends BY DEF ThreadsGood, Ensure
<1>2. load' = [load EXCEPT ![b] = LoadOf(b)] /\ UNCHANGED clean BY DEF Ensure
<1>3. load \in [Backends -> Nat \cup {None}] /\ LoadOf(b) \in Nat
  BY <1>1, BalancerAssumption DEF CountersGood, LoadOf
<1>4. /\ load' \in [Backends -> Nat \cup {None}]
      /\ \A c \in Backends : c # b => load'[c] = load[c]
      /\ load'[b] \in Nat /\ load'[b] # None /\ load'[b] = LoadOf(b)
  BY <1>1, <1>2, <1>3, BalancerAssumption
<1>5. \A c \in Backends : LoadOf(c)' = LoadOf(c) BY <1>4 DEF LoadOf
<1>6. /\ \A u \in Threads : u # t => thread'[u] = thread[u]
      /\ thread'[t].best = b
      /\ \/ thread[t].pc = "chosen" /\ thread'[t].pc = "counting"
         \/ thread[t].pc = "working" /\ thread'[t].pc = "reporting"
  BY DEF Ensure, ThreadsGood, ThreadRecords
<1>7. \A c : Working(c)' = Working(c) BY <1>6 DEF Working
<1>8. LoadIsExact' BY <1>2, <1>5, <1>7 DEF CountersGood, LoadIsExact
<1>9. \A u \in Threads : u # t => thread'[u].best = thread[u].best
  BY <1>6
<1>10. \A c \in Backends : load[c] # None => load'[c] # None BY <1>4
<1>11. ASSUME NEW u \in Threads
       PROVE  LET c == thread'[u].best
              IN  /\ thread'[u].pc = "subtracting" => load'[c] # None /\ thread'[u].least \in {0, 1}
                  /\ thread'[u].pc = "subtracting" /\ clean'[c] => thread'[u].least = 1
                  /\ thread'[u].pc = "counting" /\ clean'[c] => load'[c] # None
  <2>1. CASE u = t BY <1>4, <1>6, <2>1
  <2>2. CASE u # t
    <3>1. thread'[u] = thread[u] BY <1>6, <2>2
    <3>2. thread[u].pc \in {"subtracting", "counting"} => thread[u].best \in Backends BY DEF ThreadsGood
    <3> QED BY <1>2, <1>10, <3>1, <3>2 DEF CountersGood
  <2> QED BY <2>1, <2>2
<1> HIDE DEF b
<1> QED BY <1>2, <1>4, <1>8, <1>11 DEF CountersGood

\* report_started counts its thread.
LEMMA CountsUp ==
    ASSUME ThreadsGood, CountersGood, NEW t \in Threads, CountStarted(t)
    PROVE  CountersGood'
<1> DEFINE b == thread[t].best
           n == IF load[b] = None THEN None ELSE (load[b] + 1) % Word
<1>1. b \in Backends /\ thread[t].pc = "counting" BY DEF ThreadsGood, CountStarted
<1>2. load' = [load EXCEPT ![b] = n] /\ UNCHANGED clean BY DEF CountStarted
<1>3. load \in [Backends -> Nat \cup {None}] BY DEF CountersGood
<1>4. n \in Nat \cup {None} /\ (load[b] # None => n # None)
  BY <1>1, <1>3, ModType, WordPositive, BalancerAssumption
<1>5. /\ \A u \in Threads : u # t => thread'[u] = thread[u]
      /\ thread'[t].best = b /\ thread'[t].pc = "working"
  BY DEF CountStarted, ThreadsGood, ThreadRecords
<1>6. ASSUME clean[b] PROVE n = Cardinality(Working(b)) + 1
  <2>1. load[b] # None BY <1>1, <1>6 DEF CountersGood
  <2>2. load[b] = Cardinality(Working(b)) BY <1>1, <1>6, <2>1 DEF CountersGood, LoadIsExact, LoadOf
  <2>3. Working(b) \cup {t} \subseteq Threads /\ t \notin Working(b) BY <1>1 DEF Working
  <2>4. Cardinality(Working(b) \cup {t}) = Cardinality(Working(b)) + 1 BY <2>3, WorkingFinite, FS_AddElement
  <2>5. Cardinality(Working(b) \cup {t}) <= Cardinality(Threads) BY <2>3, BalancerAssumption, FS_Subset
  <2>6. Cardinality(Threads) \in Nat /\ Cardinality(Working(b)) \in Nat
    BY WorkingFinite, BalancerAssumption, FS_CardinalityType
  <2>7. Cardinality(Working(b)) + 1 < Word BY <2>4, <2>5, <2>6, BalancerAssumption
  <2>8. n = (Cardinality(Working(b)) + 1) % Word BY <2>1, <2>2
  <2> QED BY <2>6, <2>7, <2>8, ModSmall
<1> HIDE DEF n
<1>7. /\ load' \in [Backends -> Nat \cup {None}] /\ load'[b] = n
      /\ \A c \in Backends : c # b => load'[c] = load[c]
  BY <1>1, <1>2, <1>3, <1>4
<1>8. Working(b)' = Working(b) \cup {t} /\ t \notin Working(b) BY <1>1, <1>5 DEF Working
<1>9. \A c : c # b => Working(c)' = Working(c) BY <1>5 DEF Working
<1>10. Cardinality(Working(b)') = Cardinality(Working(b)) + 1 BY <1>8, WorkingFinite, FS_AddElement
<1>11. ASSUME NEW c \in Backends, clean'[c] PROVE LoadOf(c)' = Cardinality(Working(c)')
  <2>1. CASE c = b
    <3>1. n = Cardinality(Working(b)) + 1 BY <1>2, <1>6, <1>11, <2>1
    <3>2. n # None BY <3>1, WorkingFinite, BalancerAssumption
    <3>3. Cardinality(Working(c)') = n BY <1>5, <1>10, <2>1, <3>1
    <3>4. LoadOf(c)' = n BY <1>7, <2>1, <3>2 DEF LoadOf
    <3> QED BY <3>3, <3>4
  <2>2. CASE c # b
    <3>1. LoadOf(c) = Cardinality(Working(c)) BY <1>2, <1>11 DEF CountersGood, LoadIsExact
    <3>2. LoadOf(c)' = LoadOf(c) BY <1>7, <2>2 DEF LoadOf
    <3> QED BY <1>9, <2>2, <3>1, <3>2
  <2> QED BY <2>1, <2>2
<1>12. \A c \in Backends : load[c] # None => load'[c] # None BY <1>4, <1>7
<1>13. ASSUME NEW u \in Threads
       PROVE  LET c == thread'[u].best
              IN  /\ thread'[u].pc = "subtracting" => load'[c] # None /\ thread'[u].least \in {0, 1}
                  /\ thread'[u].pc = "subtracting" /\ clean'[c] => thread'[u].least = 1
                  /\ thread'[u].pc = "counting" /\ clean'[c] => load'[c] # None
  <2>1. CASE u = t BY <1>5, <2>1
  <2>2. CASE u # t
    <3>1. thread'[u] = thread[u] BY <1>5, <2>2
    <3>2. thread[u].pc \in {"subtracting", "counting"} => thread[u].best \in Backends BY DEF ThreadsGood
    <3> QED BY <1>2, <1>12, <3>1, <3>2 DEF CountersGood
  <2> QED BY <2>1, <2>2
<1> HIDE DEF b
<1>14. LoadIsExact' BY <1>11 DEF LoadIsExact
<1>15. clean' \in [Backends -> BOOLEAN] BY <1>2 DEF CountersGood
<1> QED BY <1>7, <1>13, <1>14, <1>15 DEF CountersGood

\* The first half of a report only looks; a thread whose counters are gone stops
\* being one the counters stand for.
LEMMA ReportLoads ==
    ASSUME ThreadsGood, CountersGood, NEW t \in Threads, LoadForReport(t)
    PROVE  CountersGood'
<1> DEFINE b == thread[t].best
<1>1. b \in Backends /\ thread[t].pc = "reporting" BY DEF ThreadsGood, LoadForReport
<1>2. UNCHANGED <<load, clean>> /\ \A u \in Threads : u # t => thread'[u] = thread[u]
  BY DEF LoadForReport, ThreadsGood
<1>3. t \in Working(b) BY <1>1 DEF Working
<1>4. clean[b] => load[b] \in Nat /\ load[b] >= 1 BY <1>1, <1>3, CountedOnce
<1>5. CASE load[b] = None
  <2>1. thread'[t] = Idle BY <1>5 DEF LoadForReport, ThreadsGood
  <2>2. ~clean[b] BY <1>4, <1>5, BalancerAssumption
  <2>3. thread'[t].pc = "idle" BY <2>1 DEF Idle
  <2>4. \A c : c # b => Working(c)' = Working(c) BY <1>2, <2>3 DEF Working
  <2>5. LoadIsExact' BY <1>2, <2>2, <2>4 DEF CountersGood, LoadIsExact, LoadOf
  <2>6. ASSUME NEW u \in Threads
        PROVE  LET c == thread'[u].best
               IN  /\ thread'[u].pc = "subtracting" => load[c] # None /\ thread'[u].least \in {0, 1}
                   /\ thread'[u].pc = "subtracting" /\ clean[c] => thread'[u].least = 1
                   /\ thread'[u].pc = "counting" /\ clean[c] => load[c] # None
    <3>1. CASE u = t BY <2>3, <3>1
    <3>2. CASE u # t BY <1>2, <3>2 DEF CountersGood
    <3> QED BY <3>1, <3>2
  <2> QED BY <1>2, <2>5, <2>6 DEF CountersGood
<1>6. CASE load[b] # None
  <2> DEFINE n == IF load[b] = 0 THEN 0 ELSE 1
  <2>1. thread'[t] = [thread[t] EXCEPT !.pc = "subtracting", !.least = n]
    BY <1>6 DEF LoadForReport, ThreadsGood
  <2>2. n \in {0, 1} /\ (clean[b] => n = 1) BY <1>4
  <2> HIDE DEF n
  <2>3. thread'[t].pc = "subtracting" /\ thread'[t].least = n /\ thread'[t].best = b
    BY <2>1 DEF ThreadsGood, ThreadRecords
  <2>4. \A c : Working(c)' = Working(c) BY <1>1, <1>2, <2>3 DEF Working
  <2>5. LoadIsExact' BY <1>2, <2>4 DEF CountersGood, LoadIsExact, LoadOf
  <2>6. ASSUME NEW u \in Threads
        PROVE  LET c == thread'[u].best
               IN  /\ thread'[u].pc = "subtracting" => load[c] # None /\ thread'[u].least \in {0, 1}
                   /\ thread'[u].pc = "subtracting" /\ clean[c] => thread'[u].least = 1
                   /\ thread'[u].pc = "counting" /\ clean[c] => load[c] # None
    <3>1. CASE u = t BY <1>6, <2>2, <2>3, <3>1
    <3>2. CASE u # t BY <1>2, <3>2 DEF CountersGood
    <3> QED BY <3>1, <3>2
  <2> QED BY <1>2, <2>5, <2>6 DEF CountersGood
<1> QED BY <1>5, <1>6

\* The second half takes the thread out of the count.
LEMMA CountsDown ==
    ASSUME ThreadsGood, CountersGood, NEW t \in Threads, SubtractReport(t)
    PROVE  CountersGood'
<1>1. PICK b \in Backends : b = thread[t].best BY DEF ThreadsGood, SubtractReport
<1> DEFINE n == (load[b] + Word - thread[t].least) % Word
<1>2. /\ thread[t].pc = "subtracting" /\ load[b] \in Nat /\ load[b] # None
      /\ thread[t].least \in {0, 1} /\ (clean[b] => thread[t].least = 1)
  BY <1>1 DEF CountersGood, SubtractReport
<1>3. load' = [load EXCEPT ![b] = n] /\ UNCHANGED clean BY <1>1 DEF SubtractReport
<1>4. n \in Nat
  <2>1. load[b] + Word - thread[t].least \in Nat BY <1>2, WordPositive, BalancerAssumption
  <2> QED BY <2>1, ModType, WordPositive
<1>5. thread'[t] = Idle /\ \A u \in Threads : u # t => thread'[u] = thread[u]
  BY DEF SubtractReport, ThreadsGood
<1>6. thread'[t].pc = "idle" BY <1>5 DEF Idle
<1>7. t \in Working(b) BY <1>1, <1>2 DEF Working
<1>8. ASSUME clean[b] PROVE n = Cardinality(Working(b)) - 1
  <2>1. load[b] >= 1 /\ load[b] = Cardinality(Working(b)) BY <1>7, <1>8, CountedOnce
  <2>2. load[b] < Word BY <2>1, WorkingFinite
  <2>3. n = (load[b] + Word - 1) % Word BY <1>2, <1>8
  <2> QED BY <1>2, <2>1, <2>2, <2>3, ModWrap
<1> HIDE DEF n
<1>9. /\ load' \in [Backends -> Nat \cup {None}] /\ load'[b] = n /\ n # None
      /\ \A c \in Backends : c # b => load'[c] = load[c]
  BY <1>3, <1>4, BalancerAssumption DEF CountersGood
<1>10. Working(b)' = Working(b) \ {t} BY <1>1, <1>5, <1>6 DEF Working
<1>11. \A c : c # b => Working(c)' = Working(c) BY <1>1, <1>5, <1>6 DEF Working
<1>12. Cardinality(Working(b)') = Cardinality(Working(b)) - 1
  BY <1>7, <1>10, WorkingFinite, FS_RemoveElement
<1>13. ASSUME NEW c \in Backends, clean'[c] PROVE LoadOf(c)' = Cardinality(Working(c)')
  <2>1. CASE c = b
    <3>1. n = Cardinality(Working(b)) - 1 BY <1>3, <1>8, <1>13, <2>1
    <3>2. LoadOf(c)' = n BY <1>9, <2>1 DEF LoadOf
    <3> QED BY <1>12, <2>1, <3>1, <3>2
  <2>2. CASE c # b
    <3>1. LoadOf(c) = Cardinality(Working(c)) BY <1>3, <1>13 DEF CountersGood, LoadIsExact
    <3>2. LoadOf(c)' = LoadOf(c) BY <1>9, <2>2 DEF LoadOf
    <3> QED BY <1>11, <2>2, <3>1, <3>2
  <2> QED BY <2>1, <2>2
<1>14. ASSUME NEW u \in Threads
       PROVE  LET c == thread'[u].best
              IN  /\ thread'[u].pc = "subtracting" => load'[c] # None /\ thread'[u].least \in {0, 1}
                  /\ thread'[u].pc = "subtracting" /\ clean'[c] => thread'[u].least = 1
                  /\ thread'[u].pc = "counting" /\ clean'[c] => load'[c] # None
  <2>1. CASE u = t BY <1>6, <2>1
  <2>2. CASE u # t
    <3>1. thread'[u] = thread[u] BY <1>5, <2>2
    <3>2. thread[u].pc \in {"subtracting", "counting"} => thread[u].best \in Backends BY DEF ThreadsGood
    <3>3. \A c \in Backends : load[c] # None => load'[c] # None BY <1>9
    <3> QED BY <1>3, <3>1, <3>2, <3>3 DEF CountersGood
  <2> QED BY <2>1, <2>2
<1>15. LoadIsExact' BY <1>13 DEF LoadIsExact
<1>16. clean' \in [Backends -> BOOLEAN] BY <1>3 DEF CountersGood
<1> QED BY <1>9, <1>14, <1>15, <1>16 DEF CountersGood

\* Forgetting counters nobody stands behind leaves nothing to count; the others
\* are marked as forgotten under running work.
LEMMA ForgetsCounters ==
    ASSUME ThreadsGood, CountersGood, Forget
    PROVE  CountersGood'
<1> DEFINE d == control.backend
<1>1. /\ load' = [load EXCEPT ![d] = None] /\ clean' = [clean EXCEPT ![d] = Outstanding(d) = {}]
      /\ UNCHANGED thread /\ MapFree
  BY DEF Forget
<1>2. PICK e : e = d OBVIOUS
<1> HIDE DEF d
<1>3. /\ load' = [load EXCEPT ![e] = None] /\ clean' = [clean EXCEPT ![e] = Outstanding(e) = {}]
      /\ load \in [Backends -> Nat \cup {None}] /\ clean \in [Backends -> BOOLEAN]
  BY <1>1, <1>2 DEF CountersGood
<1>4. load' \in [Backends -> Nat \cup {None}] BY <1>3
<1>5. clean' \in [Backends -> BOOLEAN]
  <2>1. (Outstanding(e) = {}) \in BOOLEAN OBVIOUS
  <2> QED BY <1>3, <2>1
<1>6. \A c \in Backends : c # e => load'[c] = load[c] /\ clean'[c] = clean[c] BY <1>3
<1>7. e \in Backends => load'[e] = None /\ (clean'[e] <=> Outstanding(e) = {}) BY <1>3
<1>8. \A c : Working(c)' = Working(c) BY <1>1 DEF Working
<1>9. ASSUME NEW c \in Backends, clean'[c] PROVE LoadOf(c)' = Cardinality(Working(c)')
  <2>1. CASE c = e
    <3>1. Working(c) = {} BY <1>7, <1>9, <2>1 DEF Outstanding
    <3>2. LoadOf(c)' = 0 BY <1>7, <2>1 DEF LoadOf
    <3> QED BY <1>8, <3>1, <3>2, FS_EmptySet
  <2>2. CASE c # e
    <3>1. LoadOf(c) = Cardinality(Working(c)) BY <1>6, <1>9, <2>2 DEF CountersGood, LoadIsExact
    <3>2. LoadOf(c)' = LoadOf(c) BY <1>6, <2>2 DEF LoadOf
    <3> QED BY <1>8, <3>1, <3>2
  <2> QED BY <2>1, <2>2
<1>10. ASSUME NEW u \in Threads
       PROVE  LET c == thread'[u].best
              IN  /\ thread'[u].pc = "subtracting" => load'[c] # None /\ thread'[u].least \in {0, 1}
                  /\ thread'[u].pc = "subtracting" /\ clean'[c] => thread'[u].least = 1
                  /\ thread'[u].pc = "counting" /\ clean'[c] => load'[c] # None
  <2>1. thread'[u] = thread[u] /\ thread[u].pc # "subtracting" BY <1>1 DEF MapFree
  <2>2. ASSUME thread[u].pc = "counting", clean'[thread[u].best] PROVE load'[thread[u].best] # None
    <3>1. thread[u].best \in Backends BY <2>2 DEF ThreadsGood
    <3>2. u \in Outstanding(thread[u].best) BY <2>2 DEF Outstanding
    <3>3. thread[u].best # e BY <1>7, <2>2, <3>1, <3>2
    <3> QED BY <1>6, <2>2, <3>1, <3>3 DEF CountersGood
  <2> QED BY <2>1, <2>2
<1>11. LoadIsExact' BY <1>9 DEF LoadIsExact
<1> QED BY <1>4, <1>5, <1>10, <1>11 DEF CountersGood

\* Every step keeps the counters.
LEMMA CountersStep ==
    ASSUME ThreadsGood, CountersGood, [LbNext]_lbVars, ThreadsGood'
    PROVE  CountersGood'
<1>1. ASSUME UNCHANGED <<thread, load, clean>> PROVE CountersGood' BY <1>1, CountersKept
<1>2. ASSUME Control PROVE CountersGood'
  BY <1>1, <1>2, ForgetsCounters
     DEF Control, Register, Unregister, ManagerStart, ManagerStop, Report, ManagerStarted, ManagerStopped
<1>3. ASSUME NEW t \in Threads, (\E kind \in Kinds : Select(t, kind)) \/ Visit(t) \/ Decide(t)
      PROVE  CountersGood'
  <2>1. UNCHANGED <<load, clean>> /\ thread[t].pc \in {"idle", "picking"}
    BY <1>3 DEF Select, Visit, Decide
  <2>2. \E r : thread' = [thread EXCEPT ![t] = r] /\ r.pc \in {"idle", "picking", "chosen"}
    <3>1. CASE \E kind \in Kinds : Select(t, kind) BY <3>1 DEF Select, Look
    <3>2. CASE Visit(t)
      <4>1. PICK b \in thread[t].todo :
              LET better == Eligible(b) /\ (thread[t].best = None \/ LoadOf(b) < thread[t].least)
              IN  thread' = [thread EXCEPT ![t].todo = @ \ {b},
                                           ![t].best = IF better THEN b ELSE @,
                                           ![t].least = IF better THEN LoadOf(b) ELSE @]
        BY <3>2 DEF Visit
      <4> DEFINE better == Eligible(b) /\ (thread[t].best = None \/ LoadOf(b) < thread[t].least)
                 r == [thread[t] EXCEPT !.todo = @ \ {b}, !.best = IF better THEN b ELSE @,
                                        !.least = IF better THEN LoadOf(b) ELSE @]
      <4>2. thread' = [thread EXCEPT ![t] = r] BY <4>1
      <4>3. thread[t] \in ThreadRecords /\ thread[t].pc = "picking" BY <3>2 DEF ThreadsGood, Visit
      <4> HIDE DEF better
      <4>4. r.pc = "picking" BY <4>3 DEF ThreadRecords
      <4> QED BY <4>2, <4>4
    <3>3. CASE Decide(t)
      <4>1. CASE thread[t].best # None
        <5>1. thread' = [thread EXCEPT ![t] = [Idle EXCEPT !.pc = "chosen", !.best = thread[t].best]]
          BY <3>3, <4>1 DEF Decide
        <5>2. [Idle EXCEPT !.pc = "chosen", !.best = thread[t].best].pc = "chosen" BY DEF Idle
        <5> QED BY <5>1, <5>2
      <4>2. CASE thread[t].best = None /\ NextFallback(t) # {}
        BY <3>3, <4>2 DEF Decide, Look
      <4>3. CASE thread[t].best = None /\ NextFallback(t) = {}
        <5>1. thread' = [thread EXCEPT ![t] = Idle] BY <3>3, <4>3 DEF Decide
        <5>2. Idle.pc = "idle" BY DEF Idle
        <5> QED BY <5>1, <5>2
      <4> QED BY <4>1, <4>2, <4>3
    <3> QED BY <1>3, <3>1, <3>2, <3>3
  <2>3. PICK r : thread' = [thread EXCEPT ![t] = r] /\ r.pc \in {"idle", "picking", "chosen"} BY <2>2
  <2>4. thread'[t] = r /\ \A u \in Threads : u # t => thread'[u] = thread[u] BY <2>3 DEF ThreadsGood
  <2> QED BY <2>1, <2>3, <2>4, CountersKept
<1>4. ASSUME Work PROVE CountersGood'
  <2>1. ASSUME NEW t \in Threads, ReportStarted(t) \/ ReportDone(t) PROVE CountersGood'
    BY <2>1, EnsureCounters DEF ReportStarted, ReportDone
  <2> QED BY <1>3, <1>4, <2>1, CountsUp, ReportLoads, CountsDown DEF Work
<1> QED BY <1>1, <1>2, <1>4 DEF LbNext, lbVars

\* What the history of a search becomes.
LEMMA SteadyNext ==
    ASSUME TrackSteady, steady \in [Threads -> SUBSET Backends], NEW t \in Threads
    PROVE  /\ thread'[t].pc # "picking" => steady'[t] = {}
           /\ thread'[t].pc = "picking" /\ thread'[t].cap # thread[t].cap =>
                 steady'[t] = {b \in Backends : Operational(b) /\ Supports(b, thread'[t].cap)}
           /\ thread'[t].pc = "picking" /\ thread'[t].cap = thread[t].cap =>
                 steady'[t] = {b \in steady[t] : Operational(b)'}
<1> DEFINE h(u) == CASE thread'[u].pc # "picking" -> {}
                     [] thread'[u].pc = "picking" /\ thread'[u].cap # thread[u].cap ->
                          {b \in Backends : Operational(b) /\ Supports(b, thread'[u].cap)}
                     [] OTHER -> {b \in steady[u] : Operational(b)'}
<1>1. steady' = [u \in Threads |-> h(u)] BY DEF TrackSteady
<1>2. steady'[t] = h(t) BY <1>1
<1>3. thread'[t].pc # "picking" => h(t) = {} OBVIOUS
<1>4. thread'[t].pc = "picking" /\ thread'[t].cap # thread[t].cap =>
        h(t) = {b \in Backends : Operational(b) /\ Supports(b, thread'[t].cap)}
  OBVIOUS
<1>5. thread'[t].pc = "picking" /\ thread'[t].cap = thread[t].cap => h(t) = {b \in steady[t] : Operational(b)'}
  OBVIOUS
<1> HIDE DEF h
<1> QED BY <1>2, <1>3, <1>4, <1>5

\* A search another thread makes loses what stops being operational only.
LEMMA SearchKept ==
    ASSUME SearchesGood, TrackSteady, NEW t \in Threads, thread'[t] = thread[t]
    PROVE  /\ steady'[t] \subseteq Backends
           /\ thread'[t].pc # "picking" => steady'[t] = {}
           /\ thread'[t].pc = "picking" /\ thread'[t].best = None => steady'[t] \subseteq thread'[t].todo
           /\ \A b \in steady'[t] : Operational(b)'
<1>1. steady \in [Threads -> SUBSET Backends] BY DEF SearchesGood
<1>2. CASE thread[t].pc # "picking" BY <1>1, <1>2, SteadyNext
<1>3. CASE thread[t].pc = "picking"
  <2>1. steady'[t] = {b \in steady[t] : Operational(b)'} BY <1>1, <1>3, SteadyNext
  <2> HIDE DEF Operational
  <2>2. steady'[t] \subseteq steady[t] /\ \A b \in steady'[t] : Operational(b)' BY <2>1
  <2> QED BY <1>1, <1>3, <2>2 DEF SearchesGood
<1> QED BY <1>2, <1>3

\* A new search starts with everybody who is capable and available.
LEMMA SearchStarts ==
    ASSUME ThreadsGood, SearchesGood, TrackSteady, UNCHANGED managerVars,
           NEW t \in Threads, NEW kind, NEW cap, Look(t, kind, cap), steady[t] = {}
    PROVE  /\ thread'[t].pc = "picking"
           /\ steady'[t] \subseteq Backends
           /\ steady'[t] \subseteq thread'[t].todo
           /\ \A b \in steady'[t] : Operational(b)'
<1>1. steady \in [Threads -> SUBSET Backends] BY DEF SearchesGood
<1>2. thread'[t] = [pc |-> "picking", kind |-> kind, cap |-> cap, todo |-> FindCapable(cap),
                    best |-> None, least |-> 0]
  BY DEF Look, ThreadsGood
<1>3. thread'[t].pc = "picking" /\ thread'[t].cap = cap /\ thread'[t].todo = FindCapable(cap) BY <1>2
<1>4. \A b : Operational(b)' <=> Operational(b) BY DEF managerVars, Operational
<1>5. CASE thread'[t].cap # thread[t].cap
  <2>1. steady'[t] = {b \in Backends : Operational(b) /\ Supports(b, cap)}
    BY <1>1, <1>3, <1>5, SteadyNext
  <2>2. \A b \in steady'[t] : b \in FindCapable(cap) BY <2>1 DEF FindCapable, Operational
  <2> QED BY <1>3, <1>4, <2>1, <2>2
<1>6. CASE thread'[t].cap = thread[t].cap
  <2>1. steady'[t] = {b \in steady[t] : Operational(b)'} BY <1>1, <1>3, <1>6, SteadyNext
  <2>2. steady'[t] = {} BY <2>1
  <2> QED BY <1>3, <2>2
<1> QED BY <1>5, <1>6

\* Every step keeps the searches.
LEMMA SearchesStep ==
    ASSUME ThreadsGood, SearchesGood, [LbNext]_lbVars, ThreadsGood'
    PROVE  SearchesGood'
<1> DEFINE Good(t) == /\ steady'[t] \subseteq Backends
                      /\ thread'[t].pc # "picking" => steady'[t] = {}
                      /\ thread'[t].pc = "picking" /\ thread'[t].best = None => steady'[t] \subseteq thread'[t].todo
                      /\ \A b \in steady'[t] : Operational(b)'
<1>0. CASE UNCHANGED lbVars
  BY <1>0 DEF lbVars, managerVars, SearchesGood, Operational
<1>1. CASE LbNext
  <2>1. TrackSteady BY <1>1 DEF LbNext
  <2>2. steady \in [Threads -> SUBSET Backends] BY DEF SearchesGood
  <2>3. ASSUME \A t \in Threads : Good(t) PROVE SearchesGood'
    <3>1. steady' \in [Threads -> SUBSET Backends]
      <4>1. \E h : steady' = [u \in Threads |-> h[u]] /\ DOMAIN h = Threads
        <5>1. DOMAIN steady' = Threads BY <2>1 DEF TrackSteady
        <5>2. steady' = [u \in Threads |-> steady'[u]] BY <2>1, <5>1 DEF TrackSteady
        <5> QED BY <5>1, <5>2
      <4> QED BY <2>3, <4>1
    <3> QED BY <2>3, <3>1 DEF SearchesGood
  <2>4. ASSUME NEW u \in Threads, thread'[u] = thread[u] PROVE Good(u)
    BY <2>1, <2>4, SearchKept
  <2>5. ASSUME NEW u \in Threads, thread'[u].pc # "picking" PROVE Good(u)
    <3>1. steady'[u] = {} BY <2>1, <2>2, <2>5, SteadyNext
    <3> QED BY <2>5, <3>1
  <2>6. ASSUME NEW u \in Threads, NEW kind, NEW cap, Look(u, kind, cap), steady[u] = {},
               UNCHANGED managerVars
        PROVE  Good(u)
    BY <2>1, <2>6, SearchStarts
  <2>7. ASSUME NEW u \in Threads, Visit(u) PROVE Good(u)
    <3>1. PICK b \in thread[u].todo :
            LET better == Eligible(b) /\ (thread[u].best = None \/ LoadOf(b) < thread[u].least)
            IN  thread' = [thread EXCEPT ![u].todo = @ \ {b},
                                         ![u].best = IF better THEN b ELSE @,
                                         ![u].least = IF better THEN LoadOf(b) ELSE @]
      BY <2>7 DEF Visit
    <3> DEFINE better == Eligible(b) /\ (thread[u].best = None \/ LoadOf(b) < thread[u].least)
    <3>2. thread[u] \in ThreadRecords /\ thread[u].pc = "picking" /\ UNCHANGED managerVars
      BY <2>7 DEF ThreadsGood, Visit
    <3>3. thread'[u] = [thread[u] EXCEPT !.todo = @ \ {b}, !.best = IF better THEN b ELSE @,
                                         !.least = IF better THEN LoadOf(b) ELSE @]
      BY <3>1 DEF ThreadsGood
    <3>4. b \in Backends BY <3>2 DEF ThreadRecords
    <3>5. thread'[u].best = None => ~Eligible(b) /\ thread[u].best = None
      <4>1. thread'[u].best = IF better THEN b ELSE thread[u].best BY <3>2, <3>3 DEF ThreadRecords
      <4>2. b # None BY <3>4, BalancerAssumption
      <4> QED BY <4>1, <4>2
    <3> HIDE DEF better
    <3>6. thread'[u].pc = "picking" /\ thread'[u].cap = thread[u].cap /\ thread'[u].todo = thread[u].todo \ {b}
      BY <3>2, <3>3 DEF ThreadRecords
    <3>7. steady'[u] = {c \in steady[u] : Operational(c)'} BY <2>1, <2>2, <3>6, SteadyNext
    <3>8. steady'[u] \subseteq steady[u] /\ steady[u] \subseteq Backends /\ \A c \in steady'[u] : Operational(c)'
      BY <2>2, <3>7
    <3>9. ASSUME thread'[u].best = None PROVE steady'[u] \subseteq thread'[u].todo
      <4>1. steady[u] \subseteq thread[u].todo /\ \A c \in steady[u] : Operational(c)
        BY <3>2, <3>5, <3>9 DEF SearchesGood
      <4>2. b \notin steady[u] BY <3>5, <3>9, <4>1 DEF Eligible, Operational
      <4> QED BY <3>6, <3>8, <4>1, <4>2
    <3> QED BY <3>6, <3>8, <3>9
  <2>8. ASSUME NEW u \in Threads, Decide(u) PROVE Good(u)
    <3>1. thread[u].pc = "picking" /\ thread[u].todo = {} /\ UNCHANGED managerVars BY <2>8 DEF Decide
    <3>2. CASE thread[u].best # None
      <4>1. thread'[u] = [Idle EXCEPT !.pc = "chosen", !.best = thread[u].best]
        BY <2>8, <3>2 DEF Decide, ThreadsGood
      <4>2. thread'[u].pc = "chosen" BY <4>1 DEF Idle
      <4> QED BY <2>5, <4>2
    <3>3. CASE thread[u].best = None /\ NextFallback(u) # {}
      <4>1. PICK cap : Look(u, thread[u].kind, cap) BY <2>8, <3>3 DEF Decide
      <4>2. steady[u] = {} BY <3>1, <3>3 DEF SearchesGood
      <4> QED BY <2>6, <3>1, <4>1, <4>2
    <3>4. CASE thread[u].best = None /\ NextFallback(u) = {}
      <4>1. thread'[u] = Idle BY <2>8, <3>4 DEF Decide, ThreadsGood
      <4>2. thread'[u].pc = "idle" BY <4>1 DEF Idle
      <4> QED BY <2>5, <4>2
    <3> QED BY <3>2, <3>3, <3>4
  <2>9. ASSUME NEW u \in Threads, NEW kind \in Kinds, Select(u, kind) PROVE Good(u)
    <3>1. Look(u, kind, PrimaryCapability[kind]) /\ UNCHANGED managerVars /\ thread[u].pc = "idle"
      BY <2>9 DEF Select
    <3>2. steady[u] = {} BY <3>1 DEF SearchesGood
    <3> QED BY <2>6, <3>1, <3>2
  <2>10. ASSUME NEW u \in Threads,
                ReportStarted(u) \/ CountStarted(u) \/ ReportDone(u) \/ LoadForReport(u) \/ SubtractReport(u)
         PROVE  Good(u)
    <3>1. CASE ReportStarted(u) \/ CountStarted(u) \/ ReportDone(u)
      <4>1. thread'[u].pc \in {"counting", "working", "reporting"}
        BY <3>1 DEF ReportStarted, CountStarted, ReportDone, Ensure, ThreadsGood, ThreadRecords
      <4> QED BY <2>5, <4>1
    <3>2. CASE LoadForReport(u)
      <4>1. CASE load[thread[u].best] = None
        <5>1. thread'[u] = Idle BY <3>2, <4>1 DEF LoadForReport, ThreadsGood
        <5> QED BY <2>5, <5>1 DEF Idle
      <4>2. CASE load[thread[u].best] # None
        <5> DEFINE n == IF load[thread[u].best] = 0 THEN 0 ELSE 1
        <5>1. thread'[u] = [thread[u] EXCEPT !.pc = "subtracting", !.least = n]
          BY <3>2, <4>2 DEF LoadForReport, ThreadsGood
        <5> HIDE DEF n
        <5>2. thread'[u].pc = "subtracting" BY <5>1 DEF ThreadsGood, ThreadRecords
        <5> QED BY <2>5, <5>2
      <4> QED BY <4>1, <4>2
    <3>3. CASE SubtractReport(u)
      <4>1. thread'[u] = Idle BY <3>3 DEF SubtractReport, ThreadsGood
      <4> QED BY <2>5, <4>1 DEF Idle
    <3> QED BY <2>10, <3>1, <3>2, <3>3
  <2>11. CASE Control
    <3>1. UNCHANGED thread
      BY <2>11 DEF Control, Register, Unregister, ManagerStart, ManagerStop, Report, ManagerStarted,
                   ManagerStopped, Forget
    <3> QED BY <2>3, <2>4, <3>1
  <2>12. CASE Work
    <3>1. PICK u \in Threads : \/ \E kind \in Kinds : Select(u, kind)
                               \/ Visit(u) \/ Decide(u)
                               \/ ReportStarted(u) \/ CountStarted(u)
                               \/ ReportDone(u) \/ LoadForReport(u) \/ SubtractReport(u)
      BY <2>12 DEF Work
    <3>2. \A w \in Threads : w # u => thread'[w] = thread[w]
      BY <3>1 DEF ThreadsGood, Select, Look, Visit, Decide, ReportStarted, CountStarted, ReportDone,
                  Ensure, LoadForReport, SubtractReport
    <3>3. Good(u) BY <2>7, <2>8, <2>9, <2>10, <3>1
    <3> HIDE DEF Good
    <3> QED BY <2>3, <2>4, <3>2, <3>3
  <2> QED BY <1>1, <2>11, <2>12 DEF LbNext
<1> QED BY <1>0, <1>1

-----------------------------------------------------------------------------
\* BalancerInv holds in every reachable state.
THEOREM BalancerInvariant == LbSpec => []BalancerInv
<1>1. LbInit => BalancerInv
  <2> SUFFICES ASSUME LbInit PROVE BalancerInv
    OBVIOUS
  <2>1. \A t \in Threads : thread[t] = Idle BY DEF LbInit
  <2>2. Idle \in ThreadRecords /\ Idle.pc = "idle" BY DEF Idle, ThreadRecords, PCs
  <2>3. ThreadsGood BY <2>1, <2>2 DEF LbInit, ThreadsGood
  <2>4. \A b : Working(b) = {} BY <2>1, <2>2 DEF Working
  <2>5. LoadIsExact BY <2>4, FS_EmptySet DEF LbInit, LoadIsExact, LoadOf
  <2>6. CountersGood BY <2>1, <2>2, <2>5 DEF LbInit, CountersGood
  <2>7. SearchesGood BY <2>1, <2>2 DEF LbInit, SearchesGood
  <2> QED BY <2>3, <2>6, <2>7 DEF BalancerInv
<1>2. BalancerInv /\ [LbNext]_lbVars => BalancerInv'
  <2> SUFFICES ASSUME BalancerInv, [LbNext]_lbVars PROVE BalancerInv'
    OBVIOUS
  <2>1. ThreadsGood' BY ThreadsStep DEF BalancerInv, CountersGood
  <2> QED BY <2>1, CountersStep, SearchesStep DEF BalancerInv
<1> QED BY <1>1, <1>2, PTL DEF LbSpec

\* However reports that load and subtract separately, starts and stops interleave,
\* the in-flight count of a backend is the number of threads at work on it, unless
\* its counters were forgotten under running work (load_balancer.rs report_started,
\* report_completed, forget).
THEOREM LoadStaysExact == LbSpec => []LoadIsExact
<1>1. BalancerInv => LoadIsExact BY DEF BalancerInv, CountersGood
<1> QED BY <1>1, BalancerInvariant, PTL

\* A search that finds no backend missed none that was capable and operational all
\* the time it looked (load_balancer.rs pick_backend_for_capability).
THEOREM SearchesMissNobody == LbSpec => []NoSteadyBackendMissed
<1>1. BalancerInv => NoSteadyBackendMissed
  BY DEF BalancerInv, SearchesGood, NoSteadyBackendMissed
<1> QED BY <1>1, BalancerInvariant, PTL

-----------------------------------------------------------------------------
(* The capability tables.                                                   *)

\* The list of the sort keys has every capability.
LEMMA SortOrderCovers ==
    /\ SortOrder \in Seq(Capability)
    /\ \A c \in Capability : \E i \in DOMAIN SortOrder : SortOrder[i] = c
<1>1. DOMAIN SortOrder = 1 .. 35 BY DEF SortOrder
<1>2. \A i \in 1 .. 35 : SortOrder[i] \in Capability BY DEF SortOrder, Capability, Code
<1>3. SortOrder \in Seq(Capability) BY DEF SortOrder, Capability, Code
<1>4. \A c \in Capability : \E i \in 1 .. 35 : SortOrder[i] = c BY DEF SortOrder, Capability, Code
<1> QED BY <1>1, <1>3, <1>4

\* A set of capabilities is listed in full.
LEMMA ListedInFull ==
    ASSUME NEW caps \in SUBSET Capability
    PROVE  ToSet(Listed(caps)) = caps
<1> DEFINE I == {i \in DOMAIN SortOrder : SortOrder[i] \in caps}
           r == Picked(SortOrder, I)
<1>1. /\ \A k \in DOMAIN r : \E i \in I : r[k] = SortOrder[i]
      /\ \A i \in I : \E k \in DOMAIN r : r[k] = SortOrder[i]
  BY SortOrderCovers, PickedElements
<1>2. \A c \in caps : \E i \in I : SortOrder[i] = c BY SortOrderCovers
<1>3. \A i \in I : SortOrder[i] \in caps OBVIOUS
<1> HIDE DEF I, r
<1>4. ToSet(r) = caps BY <1>1, <1>2, <1>3 DEF ToSet
<1> QED BY <1>4 DEF Listed, r, I

\* The five tables of capabilities say the same (capabilities.rs, known.rs,
\* complementarity.rs, failover.rs, registry.rs).
LEMMA TablesHold == TablesAgree /\ PrimariesDeclare
<1>1. \A v \in DOMAIN FromU16 : FromU16[v] \in Capability /\ Code[FromU16[v]] = v
  BY DEF FromU16, Capability, Code
<1>2. \A c \in Capability : Code[c] \in DOMAIN FromU16 BY DEF FromU16, Capability, Code
<1>3. DOMAIN FromU16 = {Code[c] : c \in Capability} BY <1>1, <1>2
<1>4. AllKnown = SortOrder BY DEF AllKnown, SortOrder
<1>5. ToSet(AllKnown) = Capability BY <1>4, SortOrderCovers DEF ToSet
<1>6. \A i, j \in DOMAIN AllKnown : i < j => Code[AllKnown[i]] < Code[AllKnown[j]] BY DEF AllKnown, Code
<1>7. \A b \in DOMAIN Declared : Declared[b] \subseteq Capability
  BY DEF Declared, NpcapCapabilities, WinDivertCapabilities, WfpCapabilities, IpHelperCapabilities,
         EtwCapabilities, Capability, Code
<1>8. \A k \in WorkKind : {PrimaryCapability[k]} \cup FallbackCapability[k] \subseteq Capability
  BY WorkCaps
<1>9. PrimariesDeclare
  BY DEF PrimariesDeclare, MatrixPrimary, Declared, NpcapCapabilities, WinDivertCapabilities,
         WfpCapabilities, IpHelperCapabilities, EtwCapabilities, Capability, Code
<1> QED BY <1>1, <1>3, <1>4, <1>5, <1>6, <1>7, <1>8, <1>9 DEF TablesAgree

-----------------------------------------------------------------------------
(* The failover coordinator and the capability registry.                    *)

\* A name no rename touched has one candidate or none, and is indexed and
\* active only with one.
FailoverGood ==
    /\ pool \in Seq(CandidateRecords)
    /\ \A i, j \in DOMAIN pool : pool[i].name = pool[j].name /\ pool[i].name \notin renamed => i = j
    /\ \A n \in Spellings \ renamed : n \in index <=> n \in PoolNames
    /\ \A n \in Spellings \ renamed : active = n => n \in index
    /\ \A n \in index : n \in Spellings /\ Trimmed[n] # Blank
    /\ state \in FailoverStates
    /\ state = "Active" => active # NoCandidate
    /\ state \in {"Disabled", "Failed"} => active = NoCandidate

RegistryGood ==
    /\ \A n \in DOMAIN registry : n \in Spellings /\ Trimmed[n] = n /\ n # Blank
    /\ \A n \in DOMAIN registry : registry[n] \subseteq CandidateCaps

\* Sorting moves the candidates and nothing else.
LEMMA SortedFacts ==
    ASSUME NEW s \in Seq(CandidateRecords)
    PROVE  /\ Sorted(s) \in Seq(CandidateRecords) /\ DOMAIN Sorted(s) = DOMAIN s
           /\ \E at : /\ at \in [DOMAIN s -> DOMAIN s]
                      /\ \A k \in DOMAIN s : Sorted(s)[k] = s[at[k]]
                      /\ \A i \in DOMAIN s : \E k \in DOMAIN s : at[k] = i
                      /\ \A k, l \in DOMAIN s : at[k] = at[l] => k = l
<1> DEFINE D == DOMAIN s
           R == {p \in D \X D : Earlier(s, p[1], p[2])}
           at == Ranked(D, R)
<1>1. Len(s) \in Nat /\ D = 1 .. Len(s) /\ \A i \in D : s[i] \in CandidateRecords OBVIOUS
<1>2. IsFiniteSet(D) /\ Cardinality(D) = Len(s)
  <2>1. 1 \in Int /\ Len(s) \in Int BY <1>1
  <2>2. /\ IsFiniteSet(1 .. Len(s))
        /\ Cardinality(1 .. Len(s)) = IF 1 > Len(s) THEN 0 ELSE Len(s) - 1 + 1
    BY <2>1, FS_Interval
  <2> QED BY <1>1, <2>2
<1>3. \A i, j \in D : <<i, j>> \in R <=> Earlier(s, i, j) OBVIOUS
<1>4. Sorted(s) = [k \in D |-> s[at[k]]] BY DEF Sorted
<1> HIDE DEF D, R
<1>5. \A i \in D : i \in Nat /\ s[i].name \in Nat /\ s[i].priority \in Nat
  <2>1. \A i \in D : i \in Nat BY <1>1
  <2>2. \A r \in CandidateRecords : r.name \in Nat /\ r.priority \in Nat
    BY FailoverAssumption DEF CandidateRecords
  <2> QED BY <1>1, <2>1, <2>2
<1>6. Orders(R, D)
  <2>1. \A i \in D : ~Earlier(s, i, i) BY <1>5 DEF Earlier, Before
  <2>2. \A i, j, k \in D : Earlier(s, i, j) /\ Earlier(s, j, k) => Earlier(s, i, k)
    BY <1>5 DEF Earlier, Before
  <2>3. \A i, j \in D : i = j \/ Earlier(s, i, j) \/ Earlier(s, j, i) BY <1>5 DEF Earlier, Before
  <2> QED BY <1>3, <2>1, <2>2, <2>3 DEF Orders
<1>7. /\ DOMAIN at = 1 .. Cardinality(D) /\ at \in Seq(D)
      /\ \A k \in 1 .. Cardinality(D) : at[k] \in D
      /\ \A i \in D : \E k \in 1 .. Cardinality(D) : at[k] = i
      /\ \A i, j \in 1 .. Cardinality(D) : at[i] = at[j] => i = j
  BY <1>2, <1>6, RankedFacts
<1> HIDE DEF at
<1>8. 1 .. Cardinality(D) = D BY <1>1, <1>2
<1>9. at \in [D -> D] BY <1>1, <1>2, <1>7
<1>10. Sorted(s) \in Seq(CandidateRecords)
  <2>1. \A k \in D : s[at[k]] \in CandidateRecords BY <1>1, <1>9
  <2>2. Sorted(s) \in [1 .. Len(s) -> CandidateRecords] BY <1>1, <1>4, <2>1
  <2> QED BY <1>1, <2>2
<1>11. DOMAIN Sorted(s) = D /\ \A k \in D : Sorted(s)[k] = s[at[k]] BY <1>4
<1>12. /\ \A i \in D : \E k \in D : at[k] = i
       /\ \A k, l \in D : at[k] = at[l] => k = l
  BY <1>7, <1>8
<1> QED BY <1>9, <1>10, <1>11, <1>12 DEF D

\* get_mut and unregister find a candidate of that name.
LEMMA FindFacts ==
    ASSUME pool \in Seq(CandidateRecords), NEW name \in PoolNames
    PROVE  Find(name) \in DOMAIN pool /\ pool[Find(name)].name = name
<1> DEFINE T == {i \in DOMAIN pool : pool[i].name = name}
<1>1. T \in SUBSET Nat /\ T # {} BY DEF PoolNames
<1>2. PICK m \in T : \A n \in T : m <= n BY <1>1, LeastNatural
<1> QED BY <1>2 DEF Find

\* A registration sorts the pool again, with the new candidate in it.
LEMMA RegisterKeepsGood ==
    ASSUME FailoverGood, NEW name \in Spellings, NEW priority \in Priorities, NEW caps \in SUBSET CandidateCaps,
           FailoverRegister(name, priority, caps)
    PROVE  FailoverGood'
<1> DEFINE new == [name |-> name, priority |-> priority, caps |-> caps]
           s == Append(pool, new)
           n == Len(pool)
<1>1. /\ Trimmed[name] # Blank /\ name \notin PoolNames /\ pool' = Sorted(s)
      /\ index' = index \cup {name} /\ active' = active /\ renamed' = renamed
      /\ state' = IF state = "Failed" THEN "Ready" ELSE state
  BY DEF FailoverRegister
<1>2. new \in CandidateRecords /\ new.name = name BY DEF CandidateRecords
<1> HIDE DEF new
<1>3. pool \in Seq(CandidateRecords) /\ n \in Nat /\ DOMAIN pool = 1 .. n BY DEF FailoverGood
<1>4. /\ s \in Seq(CandidateRecords) /\ DOMAIN s = 1 .. n + 1 /\ s[n + 1] = new
      /\ \A i \in 1 .. n : s[i] = pool[i]
  BY <1>2, <1>3
<1> HIDE DEF s
<1>5. /\ pool' \in Seq(CandidateRecords) /\ DOMAIN pool' = DOMAIN s
      /\ \E at : /\ at \in [DOMAIN s -> DOMAIN s]
                 /\ \A k \in DOMAIN s : pool'[k] = s[at[k]]
                 /\ \A i \in DOMAIN s : \E k \in DOMAIN s : at[k] = i
                 /\ \A k, l \in DOMAIN s : at[k] = at[l] => k = l
  <2> DEFINE P(q) == /\ q \in Seq(CandidateRecords) /\ DOMAIN q = DOMAIN s
                     /\ \E at : /\ at \in [DOMAIN s -> DOMAIN s]
                                /\ \A k \in DOMAIN s : q[k] = s[at[k]]
                                /\ \A i \in DOMAIN s : \E k \in DOMAIN s : at[k] = i
                                /\ \A k, l \in DOMAIN s : at[k] = at[l] => k = l
  <2>1. P(Sorted(s)) BY <1>4, SortedFacts
  <2>2. P(pool') BY <1>1, <2>1, Zenon
  <2> QED BY <2>2
<1>6. PICK at : /\ at \in [DOMAIN s -> DOMAIN s]
                /\ \A k \in DOMAIN s : pool'[k] = s[at[k]]
                /\ \A i \in DOMAIN s : \E k \in DOMAIN s : at[k] = i
                /\ \A k, l \in DOMAIN s : at[k] = at[l] => k = l
  BY <1>5
<1>7. \A i \in 1 .. n : pool[i].name # name BY <1>1, <1>3 DEF PoolNames
<1>8. \A i, j \in DOMAIN s : s[i].name = s[j].name /\ s[i].name \notin renamed => i = j
  <2> SUFFICES ASSUME NEW i \in DOMAIN s, NEW j \in DOMAIN s, s[i].name = s[j].name, s[i].name \notin renamed
               PROVE  i = j
    OBVIOUS
  <2>1. (i \in 1 .. n \/ i = n + 1) /\ (j \in 1 .. n \/ j = n + 1) BY <1>3, <1>4
  <2>2. CASE i \in 1 .. n /\ j \in 1 .. n BY <1>3, <1>4, <2>2 DEF FailoverGood
  <2>3. CASE i = n + 1 \/ j = n + 1 BY <1>2, <1>4, <1>7, <2>1, <2>3
  <2> QED BY <2>1, <2>2, <2>3
<1>9. \A i, j \in DOMAIN pool' : pool'[i].name = pool'[j].name /\ pool'[i].name \notin renamed' => i = j
  <2>1. \A k \in DOMAIN s : at[k] \in DOMAIN s /\ pool'[k].name = s[at[k]].name BY <1>6
  <2> SUFFICES ASSUME NEW i \in DOMAIN s, NEW j \in DOMAIN s, s[at[i]].name = s[at[j]].name,
                      s[at[i]].name \notin renamed
               PROVE  i = j
    <3>1. DOMAIN pool' = DOMAIN s /\ renamed' = renamed BY <1>1, <1>5
    <3> QED BY <2>1, <3>1
  <2>2. at[i] = at[j] BY <1>8, <2>1
  <2> QED BY <1>6, <2>2
<1>10. PoolNames' = {s[i].name : i \in DOMAIN s}
  <2>1. \A k \in DOMAIN s : at[k] \in DOMAIN s /\ pool'[k].name = s[at[k]].name BY <1>6
  <2>2. \A i \in DOMAIN s : \E k \in DOMAIN s : pool'[k].name = s[i].name BY <1>6, <2>1
  <2>3. PoolNames' = {pool'[k].name : k \in DOMAIN s}
    <3>1. DOMAIN pool' = DOMAIN s BY <1>5
    <3> QED BY <3>1 DEF PoolNames
  <2>4. \A y : y \in PoolNames' <=> \E k \in DOMAIN s : y = pool'[k].name BY <2>3
  <2>5. ASSUME NEW y \in PoolNames' PROVE \E i \in DOMAIN s : y = s[i].name
    <3>1. PICK k \in DOMAIN s : y = pool'[k].name BY <2>4
    <3> QED BY <2>1, <3>1
  <2>6. ASSUME NEW i \in DOMAIN s PROVE s[i].name \in PoolNames'
    <3>1. PICK k \in DOMAIN s : pool'[k].name = s[i].name BY <2>2
    <3> QED BY <2>4, <3>1
  <2> QED BY <2>5, <2>6
<1>11. PoolNames' = PoolNames \cup {name}
  <2>1. \A i \in DOMAIN s : s[i].name \in PoolNames \cup {name}
    <3>1. \A i \in DOMAIN s : i \in 1 .. n \/ i = n + 1 BY <1>3, <1>4
    <3> QED BY <1>2, <1>3, <1>4, <3>1 DEF PoolNames
  <2>2. \A x \in PoolNames \cup {name} : \E i \in DOMAIN s : s[i].name = x
    <3>1. n + 1 \in DOMAIN s /\ \A i \in 1 .. n : i \in DOMAIN s BY <1>3, <1>4
    <3> QED BY <1>2, <1>3, <1>4, <3>1 DEF PoolNames
  <2> QED BY <1>10, <2>1, <2>2
<1>12. /\ \A m \in Spellings \ renamed' : m \in index' <=> m \in PoolNames'
       /\ \A m \in Spellings \ renamed' : active' = m => m \in index'
       /\ \A m \in index' : m \in Spellings /\ Trimmed[m] # Blank
  BY <1>1, <1>11 DEF FailoverGood
<1>13. /\ state' \in FailoverStates
       /\ state' = "Active" => active' # NoCandidate
       /\ state' \in {"Disabled", "Failed"} => active' = NoCandidate
  BY <1>1 DEF FailoverGood, FailoverStates
<1> QED BY <1>5, <1>9, <1>12, <1>13 DEF FailoverGood

\* A removal takes the first candidate of the name out of the pool: the only
\* one, where nothing was renamed.
LEMMA UnregisterKeepsGood ==
    ASSUME FailoverGood, NEW name \in Spellings, FailoverUnregister(name)
    PROVE  FailoverGood'
<1> DEFINE x == Find(name)
           I == DOMAIN pool \ {x}
           n == Cardinality(I)
<1>1. /\ name \in PoolNames /\ pool' = Picked(pool, I) /\ index' = index \ {name} /\ renamed' = renamed
      /\ active' = IF active = name THEN NoCandidate ELSE active
      /\ state' = IF active = name THEN "Ready" ELSE state
  BY DEF FailoverUnregister
<1>2. pool \in Seq(CandidateRecords) BY DEF FailoverGood
<1>3. x \in DOMAIN pool /\ pool[x].name = name BY <1>1, <1>2, FindFacts
<1> HIDE DEF x
<1>4. I \in SUBSET DOMAIN pool /\ \A i \in DOMAIN pool : i \in I \/ i = x OBVIOUS
<1>41. x \notin I OBVIOUS
<1> HIDE DEF I
<1>5. /\ pool' \in Seq(CandidateRecords) /\ Len(pool') = n /\ n \in Nat
      /\ \E at : Listing(at, I) /\ \A k \in 1 .. n : pool'[k] = pool[at[k]]
  BY <1>1, <1>2, <1>4, PickedFacts
<1>6. PICK at : Listing(at, I) /\ \A k \in 1 .. n : pool'[k] = pool[at[k]] BY <1>5
<1>7. /\ at \in [1 .. n -> I]
      /\ \A i \in I : \E k \in 1 .. n : at[k] = i
      /\ \A k, l \in 1 .. n : at[k] = at[l] => k = l
  BY <1>6 DEF Listing
<1>8. DOMAIN pool' = 1 .. n BY <1>5
<1> HIDE DEF n
<1>9. \A i, j \in DOMAIN pool' : pool'[i].name = pool'[j].name /\ pool'[i].name \notin renamed' => i = j
  <2>1. \A i, j \in I : pool[i].name = pool[j].name /\ pool[i].name \notin renamed => i = j
    BY <1>4 DEF FailoverGood
  <2> QED BY <1>1, <1>6, <1>7, <1>8, <2>1
<1>10. PoolNames' = {pool[i].name : i \in I}
  <2>1. \A k \in DOMAIN pool' : \E i \in I : pool'[k].name = pool[i].name BY <1>6, <1>7, <1>8
  <2>2. \A i \in I : \E k \in DOMAIN pool' : pool'[k].name = pool[i].name BY <1>6, <1>7, <1>8
  <2> QED BY <2>1, <2>2 DEF PoolNames
<1>11. \A m : m # name => (m \in PoolNames' <=> m \in PoolNames) BY <1>3, <1>4, <1>10 DEF PoolNames
<1>12. name \notin renamed => name \notin PoolNames'
  <2>1. name \notin renamed => \A i \in I : pool[i].name # name
    BY <1>3, <1>4, <1>41 DEF FailoverGood
  <2> QED BY <1>10, <2>1
<1>13. \A m \in Spellings \ renamed' : m \in index' <=> m \in PoolNames'
  BY <1>1, <1>11, <1>12 DEF FailoverGood
<1>14. /\ \A m \in Spellings \ renamed' : active' = m => m \in index'
       /\ \A m \in index' : m \in Spellings /\ Trimmed[m] # Blank
  BY <1>1, FailoverAssumption DEF FailoverGood
<1>15. /\ state' \in FailoverStates
       /\ state' = "Active" => active' # NoCandidate
       /\ state' \in {"Disabled", "Failed"} => active' = NoCandidate
  BY <1>1 DEF FailoverGood, FailoverStates
<1> QED BY <1>5, <1>9, <1>13, <1>14, <1>15 DEF FailoverGood

\* A change in place leaves the other candidates and their names alone.
LEMMA ReviseKeepsGood ==
    ASSUME FailoverGood, NEW name \in Spellings, NEW new \in CandidateRecords, Revise(name, new)
    PROVE  FailoverGood'
<1>1. /\ name \in PoolNames /\ pool' = [pool EXCEPT ![Find(name)] = new]
      /\ UNCHANGED <<active, state, index>>
      /\ renamed' = IF new.name = name THEN renamed ELSE renamed \cup {name, new.name}
  BY DEF Revise
<1>2. pool \in Seq(CandidateRecords) BY DEF FailoverGood
<1>3. PICK x \in DOMAIN pool : pool[x].name = name /\ pool' = [pool EXCEPT ![x] = new]
  BY <1>1, <1>2, FindFacts
<1>4. pool' \in Seq(CandidateRecords) /\ DOMAIN pool' = DOMAIN pool BY <1>2, <1>3
<1>5. \A k \in DOMAIN pool : pool'[k] = IF k = x THEN new ELSE pool[k] BY <1>2, <1>3
<1>6. CASE new.name = name
  <2>1. \A k \in DOMAIN pool : pool'[k].name = pool[k].name BY <1>3, <1>5, <1>6
  <2>2. PoolNames' = PoolNames BY <1>4, <2>1 DEF PoolNames
  <2>3. renamed' = renamed BY <1>1, <1>6
  <2> QED BY <1>1, <1>4, <2>1, <2>2, <2>3 DEF FailoverGood
<1>7. CASE new.name # name
  <2>1. renamed' = renamed \cup {name, new.name} BY <1>1, <1>7
  <2>2. \A m \in Spellings \ renamed' : m \in PoolNames' <=> m \in PoolNames
    <3> SUFFICES ASSUME NEW m \in Spellings \ renamed' PROVE m \in PoolNames' <=> m \in PoolNames OBVIOUS
    <3>1. m # name /\ m # new.name BY <2>1
    <3>2. \A k \in DOMAIN pool : pool'[k].name = m <=> pool[k].name = m BY <1>3, <1>5, <3>1
    <3> QED BY <1>4, <3>2 DEF PoolNames
  <2>3. \A i, j \in DOMAIN pool' : pool'[i].name = pool'[j].name /\ pool'[i].name \notin renamed' => i = j
    <3> SUFFICES ASSUME NEW i \in DOMAIN pool', NEW j \in DOMAIN pool',
                        pool'[i].name = pool'[j].name, pool'[i].name \notin renamed'
                 PROVE  i = j
      OBVIOUS
    <3>1. i # x /\ j # x BY <1>4, <1>5, <2>1
    <3>2. pool'[i] = pool[i] /\ pool'[j] = pool[j] BY <1>4, <1>5, <3>1
    <3> QED BY <1>4, <2>1, <3>2 DEF FailoverGood
  <2> QED BY <1>1, <1>4, <2>1, <2>2, <2>3 DEF FailoverGood
<1> QED BY <1>6, <1>7

LEMMA FailoverStep == FailoverGood /\ RegistryGood /\ [FoNext]_foVars => FailoverGood' /\ RegistryGood'
<1> SUFFICES ASSUME FailoverGood, RegistryGood, [FoNext]_foVars PROVE FailoverGood' /\ RegistryGood' OBVIOUS
<1>1. ASSUME UNCHANGED registry PROVE RegistryGood' BY <1>1 DEF RegistryGood
<1>2. ASSUME UNCHANGED coordinator PROVE FailoverGood'
  BY <1>2 DEF coordinator, FailoverGood, PoolNames
<1>3. ASSUME NEW name \in Spellings, NEW priority \in Priorities, NEW caps \in SUBSET CandidateCaps,
             FailoverRegister(name, priority, caps)
      PROVE  FailoverGood' /\ RegistryGood'
  BY <1>1, <1>3, RegisterKeepsGood DEF FailoverRegister
<1>4. ASSUME NEW name \in Spellings, NEW caps \in SUBSET CandidateCaps, RegisterBackend(name, caps)
      PROVE  FailoverGood' /\ RegistryGood'
  <2>1. /\ Trimmed[name] \in Spellings /\ Trimmed[name] # Blank
        /\ Trimmed[Trimmed[name]] = Trimmed[name]
    BY <1>4, FailoverAssumption DEF RegisterBackend
  <2>2. registry' = With(registry, Trimmed[name], caps) BY <1>4 DEF RegisterBackend
  <2>3. RegistryGood' BY <2>1, <2>2 DEF RegistryGood, With
  <2> QED BY <1>2, <1>4, <2>3 DEF RegisterBackend
<1>5. ASSUME NEW name \in Spellings, FailoverUnregister(name) PROVE FailoverGood' /\ RegistryGood'
  BY <1>1, <1>5, UnregisterKeepsGood DEF FailoverUnregister
<1>6. ASSUME NEW name \in Spellings, UnregisterBackend(name) PROVE FailoverGood' /\ RegistryGood'
  <2>1. registry' = Without(registry, Trimmed[name]) BY <1>6 DEF UnregisterBackend
  <2>2. RegistryGood' BY <2>1 DEF RegistryGood, Without
  <2> QED BY <1>2, <1>6, <2>2 DEF UnregisterBackend
<1>7. ASSUME NEW c \in CandidateCaps, ActivateBest(c) PROVE FailoverGood' /\ RegistryGood'
  <2>1. PICK best \in SelectBest(c) : active' = pool[best].name BY <1>7 DEF ActivateBest
  <2>2. UNCHANGED <<pool, index, renamed, registry>> /\ state' = "Active" BY <1>7 DEF ActivateBest
  <2>3. best \in DOMAIN pool BY <2>1 DEF SelectBest, Capable
  <2>4. active' \in PoolNames /\ active' \in Spellings
    <3>1. pool[best] \in CandidateRecords BY <2>3 DEF FailoverGood
    <3> QED BY <2>1, <2>3, <3>1 DEF PoolNames, CandidateRecords
  <2>5. active' # NoCandidate BY <2>4, FailoverAssumption
  <2>6. \A m \in Spellings \ renamed' : active' = m => m \in index' BY <2>2, <2>4 DEF FailoverGood
  <2>7. PoolNames' = PoolNames BY <2>2 DEF PoolNames
  <2>8. FailoverGood' BY <2>2, <2>5, <2>6, <2>7 DEF FailoverGood, FailoverStates
  <2> QED BY <1>1, <2>2, <2>8
<1>8. ASSUME NEW name \in Spellings, NEW new \in CandidateRecords, Revise(name, new)
      PROVE  FailoverGood' /\ RegistryGood'
  <2>1. UNCHANGED registry BY <1>8 DEF Revise
  <2> QED BY <1>1, <1>8, <2>1, ReviseKeepsGood
<1>80. ASSUME UNCHANGED <<pool, index, renamed, registry>>, state' \in FailoverStates,
              active' = NoCandidate, state' # "Active"
       PROVE  FailoverGood' /\ RegistryGood'
  <2>1. PoolNames' = PoolNames BY <1>80 DEF PoolNames
  <2> QED BY <1>1, <1>80, <2>1, FailoverAssumption DEF FailoverGood
<1>81. ASSUME UNCHANGED <<pool, index, renamed, registry, active>>,
              state' \in {"Ready", "Degraded"} \/ state' = state
       PROVE  FailoverGood' /\ RegistryGood'
  <2>1. PoolNames' = PoolNames BY <1>81 DEF PoolNames
  <2> QED BY <1>1, <1>81, <2>1 DEF FailoverGood, FailoverStates
<1>9. CASE Deactivate BY <1>80, <1>9 DEF Deactivate, Settle, FailoverStates
<1>10. CASE MarkDegraded BY <1>81, <1>10 DEF MarkDegraded, Settle
<1>11. CASE MarkReady BY <1>81, <1>11 DEF MarkReady, Settle
<1>12. CASE MarkFailed BY <1>80, <1>12 DEF MarkFailed, FailoverStates
<1>13. CASE Disable BY <1>80, <1>13 DEF Disable, FailoverStates
<1>14. CASE FailoverClear
  <2>1. pool' = <<>> /\ PoolNames' = {} /\ index' = {} BY <1>14 DEF FailoverClear, PoolNames
  <2> QED BY <1>1, <1>14, <2>1, FailoverAssumption DEF FailoverClear, FailoverGood, FailoverStates
<1>15. CASE RegistryClear
  <2>1. RegistryGood' BY <1>15 DEF RegistryClear, RegistryGood, NoEntries
  <2> QED BY <1>2, <1>15, <2>1 DEF RegistryClear
<1>16. CASE UNCHANGED foVars BY <1>1, <1>2, <1>16 DEF foVars
<1>17. CASE CoordinatorNext
  BY <1>3, <1>5, <1>7, <1>8, <1>9, <1>10, <1>11, <1>12, <1>13, <1>14, <1>17 DEF CoordinatorNext
<1>18. CASE RegistryNext BY <1>4, <1>6, <1>15, <1>18 DEF RegistryNext
<1> QED BY <1>16, <1>17, <1>18 DEF FoNext

LEMMA FailoverStarts == FoInit => FailoverGood /\ RegistryGood
<1> SUFFICES ASSUME FoInit PROVE FailoverGood /\ RegistryGood OBVIOUS
<1>1. PoolNames = {} /\ index = {} BY DEF FoInit, PoolNames
<1>2. DOMAIN registry = {} BY DEF FoInit, NoEntries
<1> QED BY <1>1, <1>2, FailoverAssumption DEF FoInit, FailoverGood, RegistryGood, FailoverStates

LEMMA GoodGivesFailoverInv == FailoverGood /\ RegistryGood => FailoverInv
<1> SUFFICES ASSUME FailoverGood, RegistryGood PROVE FailoverInv OBVIOUS
<1>1. ASSUME NEW n \in Spellings \ renamed
      PROVE  Cardinality({i \in DOMAIN pool : pool[i].name = n}) = IF n \in index THEN 1 ELSE 0
  <2> DEFINE I == {i \in DOMAIN pool : pool[i].name = n}
  <2>1. CASE n \in index
    <3>1. PICK i \in DOMAIN pool : pool[i].name = n BY <2>1 DEF FailoverGood, PoolNames
    <3>2. I = {i} BY <3>1 DEF FailoverGood
    <3> QED BY <2>1, <3>2, FS_Singleton
  <2>2. CASE n \notin index
    <3>1. I = {} BY <2>2 DEF FailoverGood, PoolNames
    <3> QED BY <2>2, <3>1, FS_EmptySet
  <2> QED BY <2>1, <2>2
<1>2. \A n \in Spellings \ renamed : active = n => n \in index BY DEF FailoverGood
<1>3. \A name \in Spellings, c \in CandidateCaps :
        RegistrySupports(name, c) <=> Trimmed[name] \in BackendsWith(c)
  BY DEF RegistrySupports, BackendsWith
<1>4. ASSUME NEW n \in DOMAIN registry PROVE ToSet(RegistrySnapshot[n]) = registry[n]
  <2>1. registry[n] \in SUBSET Capability BY FailoverAssumption DEF RegistryGood
  <2>2. RegistrySnapshot[n] = Listed(registry[n]) BY DEF RegistrySnapshot
  <2> QED BY <2>1, <2>2, ListedInFull
<1>5. \A n \in DOMAIN registry : Trimmed[n] = n /\ n # Blank BY DEF RegistryGood
<1>6. /\ \A n \in index : Trimmed[n] # Blank
      /\ state \in FailoverStates
      /\ state = "Active" => active # NoCandidate
      /\ state \in {"Disabled", "Failed"} => active = NoCandidate
  BY DEF FailoverGood
<1> QED BY <1>1, <1>2, <1>3, <1>4, <1>5, <1>6 DEF FailoverInv

\* The failover coordinator and the capability registry stay coherent over any
\* sequence of Host calls, but for the names of candidates the Host renamed in
\* place (failover.rs, registry.rs).
THEOREM FailoverStaysCoherent == FoSpec => []FailoverInv
<1>1. FoInit => FailoverGood /\ RegistryGood BY FailoverStarts
<1>2. FailoverGood /\ RegistryGood /\ [FoNext]_foVars => (FailoverGood /\ RegistryGood)' BY FailoverStep
<1>3. FailoverGood /\ RegistryGood => FailoverInv BY GoodGivesFailoverInv
<1> QED BY <1>1, <1>2, <1>3, PTL DEF FoSpec

-----------------------------------------------------------------------------
(* The selectors of the BackendManager.                                     *)

\* A backend that is available is not unhealthy, and a control call in
\* progress has a backend.
ManagerGood ==
    /\ registered \subseteq Backends
    /\ be \in [Backends -> Managed]
    /\ \A b \in Backends : Available(be[b].lc) => be[b].health # "Unhealthy"
    /\ control \in [pc : {"idle", "starting", "stopping", "forgetting"}, backend : Backends \cup {None}]
    /\ control.pc # "idle" => control.backend \in Backends

Sound(m) == m \in Managed /\ (Available(m.lc) => m.health # "Unhealthy")

\* What the manager's calls make of one backend.
LEMMA SoundCalls ==
    ASSUME NEW m, Sound(m)
    PROVE  /\ \A to \in {"Starting", "Stopping"} : Sound(Transition(m, to))
           /\ \A to \in {"Running", "Failed", "Stopped"} : Sound(SetLifecycle(m, to))
           /\ Sound(RecordSuccess(m))
           /\ Sound(RecordFailure(m))
           /\ Sound(NewManaged)
<1>1. m = [lc |-> m.lc, health |-> m.health, fails |-> m.fails, recov |-> m.recov]
      /\ m.lc \in Lifecycles /\ m.health \in Healths
      /\ m.fails \in 0 .. FailureThreshold /\ m.recov \in 0 .. RecoveryThreshold
      /\ (Available(m.lc) => m.health # "Unhealthy")
  BY DEF Sound, Managed
<1>2. FailureThreshold \in Nat /\ FailureThreshold > 0 /\ RecoveryThreshold \in Nat /\ RecoveryThreshold > 0
  BY ThresholdAssumption
<1>3. ASSUME NEW to \in {"Starting", "Stopping"} PROVE Sound(Transition(m, to))
  BY <1>1, <1>3 DEF Transition, Sound, Managed, Available, Lifecycles, Healths
<1>4. ASSUME NEW to \in {"Running", "Failed", "Stopped"} PROVE Sound(SetLifecycle(m, to))
  <2>1. CASE to = "Stopped"
    BY <1>1, <2>1 DEF SetLifecycle, Transition, Sound, Managed, Available, Lifecycles, Healths
  <2>2. CASE to # "Stopped" /\ ~CanTransition(m.lc, to)
    <3>1. SetLifecycle(m, to) = m BY <2>2 DEF SetLifecycle, Transition
    <3> QED BY <3>1
  <2>3. CASE to # "Stopped" /\ CanTransition(m.lc, to)
    <3> DEFINE h == IF to = "Running" THEN "Healthy" ELSE "Unhealthy"
               n == Transition(m, to)
    <3>1. SetLifecycle(m, to) = ForceHealth(n, h) BY <1>4, <2>3 DEF SetLifecycle
    <3>2. n \in Managed /\ n.lc = to BY <1>1, <2>3 DEF Transition, Managed, Lifecycles
    <3>3. h \in Healths /\ (Available(to) => h # "Unhealthy") BY <1>4 DEF Healths, Available
    <3> HIDE DEF h, n
    <3>4. 0 \in 0 .. FailureThreshold /\ 0 \in 0 .. RecoveryThreshold BY <1>2
    <3>5. ForceHealth(n, h) \in Managed /\ ForceHealth(n, h).lc = to /\ ForceHealth(n, h).health = h
      BY <3>2, <3>3, <3>4 DEF ForceHealth, Managed
    <3> QED BY <3>1, <3>3, <3>5 DEF Sound
  <2> QED BY <1>4, <2>1, <2>2, <2>3
<1>5. Sound(RecordSuccess(m))
  <2> DEFINE n == MonitorSuccess(m)
  <2>1. /\ n \in Managed /\ n.lc = m.lc /\ n.health \in {"Healthy", "Degraded"}
    <3> DEFINE healthy == m.health \in {"Unknown", "Healthy"} \/ m.recov + 1 >= RecoveryThreshold
               r == IF healthy THEN 0 ELSE m.recov + 1
               h == IF healthy THEN "Healthy" ELSE "Degraded"
    <3>1. r \in 0 .. RecoveryThreshold /\ 0 \in 0 .. FailureThreshold BY <1>1, <1>2
    <3>2. h \in {"Healthy", "Degraded"} /\ h \in Healths BY DEF Healths
    <3>3. n = [m EXCEPT !.fails = 0, !.recov = r, !.health = h] BY DEF MonitorSuccess
    <3>4. m \in Managed BY DEF Sound
    <3> HIDE DEF r, h, healthy, n
    <3> QED BY <3>1, <3>2, <3>3, <3>4 DEF Managed
  <2>2. RecordSuccess(m) = IF n.health = "Healthy" /\ n.lc = "Degraded" THEN Transition(n, "Running") ELSE n
    BY DEF RecordSuccess
  <2> HIDE DEF n
  <2>3. Sound(n) BY <2>1 DEF Sound
  <2>4. n.lc = "Degraded" => CanTransition(n.lc, "Running") BY DEF CanTransition
  <2>5. n.lc = "Degraded" /\ n.health = "Healthy" => Sound(Transition(n, "Running"))
    BY <2>1 DEF Transition, Sound, Managed, Lifecycles
  <2> QED BY <2>2, <2>3, <2>5
<1>6. Sound(RecordFailure(m))
  <2> DEFINE n == MonitorFailure(m)
  <2>1. /\ n \in Managed /\ n.lc = m.lc /\ n.health \in {"Unhealthy", "Degraded"}
    <3> DEFINE f == IF m.fails < FailureThreshold THEN m.fails + 1 ELSE FailureThreshold
               h == IF f >= FailureThreshold THEN "Unhealthy" ELSE "Degraded"
    <3>1. f \in 0 .. FailureThreshold /\ 0 \in 0 .. RecoveryThreshold BY <1>1, <1>2
    <3>2. h \in {"Unhealthy", "Degraded"} /\ h \in Healths BY DEF Healths
    <3>3. n = [m EXCEPT !.recov = 0, !.fails = f, !.health = h] BY DEF MonitorFailure
    <3>4. m \in Managed BY DEF Sound
    <3> HIDE DEF f, h, n
    <3> QED BY <3>1, <3>2, <3>3, <3>4 DEF Managed
  <2>2. RecordFailure(m) = CASE n.health = "Unhealthy" -> Transition(n, "Failed")
                             [] n.health = "Degraded" /\ n.lc = "Running" -> Transition(n, "Degraded")
                             [] OTHER -> n
    BY DEF RecordFailure
  <2> HIDE DEF n
  <2>3. CASE n.health = "Unhealthy"
    <3>1. RecordFailure(m) = Transition(n, "Failed") BY <2>2, <2>3
    <3>2. CanTransition("Running", "Failed") /\ CanTransition("Degraded", "Failed") BY DEF CanTransition
    <3>3. Sound(Transition(n, "Failed"))
      BY <2>1, <3>2 DEF Transition, Sound, Managed, Available, Lifecycles
    <3> QED BY <3>1, <3>3
  <2>4. CASE n.health = "Degraded"
    <3>1. Sound(n) /\ Sound(Transition(n, "Degraded"))
      BY <2>1, <2>4 DEF Transition, Sound, Managed, Lifecycles
    <3> QED BY <2>2, <2>4, <3>1
  <2> QED BY <2>1, <2>3, <2>4
<1>7. Sound(NewManaged) BY <1>2 DEF Sound, NewManaged, Managed, Available, Lifecycles, Healths
<1> QED BY <1>3, <1>4, <1>5, <1>6, <1>7

LEMMA SoundChange ==
    ASSUME ManagerGood, NEW b \in Backends, NEW m, Sound(m), be' = [be EXCEPT ![b] = m]
    PROVE  /\ be' \in [Backends -> Managed]
           /\ \A a \in Backends : Available(be'[a].lc) => be'[a].health # "Unhealthy"
  BY DEF ManagerGood, Sound

LEMMA SoundBackends == ManagerGood => \A b \in Backends : Sound(be[b])
  BY DEF ManagerGood, Sound

\* Control calls keep it; the work of threads does not touch the manager.
LEMMA ManagerStep == ManagerGood /\ [LbNext]_lbVars => ManagerGood'
<1> SUFFICES ASSUME ManagerGood, [LbNext]_lbVars PROVE ManagerGood' OBVIOUS
<1> DEFINE BeGood == /\ be' \in [Backends -> Managed]
                     /\ \A a \in Backends : Available(be'[a].lc) => be'[a].health # "Unhealthy"
           Pcs == {"idle", "starting", "stopping", "forgetting"}
           Controls == [pc : Pcs, backend : Backends \cup {None}]
<1>1. registered \subseteq Backends /\ control \in Controls
      /\ (control.pc # "idle" => control.backend \in Backends)
  BY DEF ManagerGood
<1>2. be' = be => BeGood BY DEF ManagerGood
<1>3. \A b \in Backends : Sound(be[b]) BY SoundBackends
<1>4. ASSUME NEW b \in Backends, NEW m, Sound(m), be' = [be EXCEPT ![b] = m] PROVE BeGood
  BY <1>4, SoundChange
<1>5. ASSUME UNCHANGED managerVars PROVE ManagerGood' BY <1>5 DEF managerVars, ManagerGood
<1>6. [pc |-> "idle", backend |-> None] \in Controls OBVIOUS
<1>7. \A b \in Backends : [pc |-> "starting", backend |-> b] \in Controls
                          /\ [pc |-> "stopping", backend |-> b] \in Controls
  OBVIOUS
<1>8. ASSUME BeGood, registered' \subseteq Backends, control' \in Controls,
             control'.pc # "idle" => control'.backend \in Backends
      PROVE  ManagerGood'
  BY <1>8 DEF ManagerGood
<1> HIDE DEF BeGood
<1>9. ASSUME NEW b \in Backends, Register(b) PROVE ManagerGood'
  BY <1>1, <1>2, <1>8, <1>9 DEF Register
<1>10. ASSUME NEW b \in Backends, Unregister(b) PROVE ManagerGood'
  <2>1. Sound(NewManaged) BY <1>3, SoundCalls
  <2>2. BeGood BY <1>4, <1>10, <2>1 DEF Unregister
  <2> QED BY <1>1, <1>8, <1>10, <2>2 DEF Unregister
<1>11. ASSUME NEW b \in Backends, ManagerStart(b) PROVE ManagerGood'
  <2>1. Sound(Transition(be[b], "Starting")) BY <1>3, SoundCalls
  <2>2. BeGood BY <1>4, <1>11, <2>1 DEF ManagerStart
  <2> QED BY <1>1, <1>7, <1>8, <1>11, <2>2 DEF ManagerStart
<1>12. ASSUME NEW b \in Backends, ManagerStop(b) PROVE ManagerGood'
  <2>1. Sound(Transition(be[b], "Stopping")) BY <1>3, SoundCalls
  <2>2. BeGood BY <1>4, <1>12, <2>1 DEF ManagerStop
  <2> QED BY <1>1, <1>7, <1>8, <1>12, <2>2 DEF ManagerStop
<1>13. ASSUME NEW b \in Backends, Report(b) PROVE ManagerGood'
  <2>1. Sound(RecordSuccess(be[b])) /\ Sound(RecordFailure(be[b])) BY <1>3, SoundCalls
  <2>2. BeGood BY <1>4, <1>13, <2>1 DEF Report
  <2> QED BY <1>1, <1>8, <1>13, <2>2 DEF Report
<1>14. ASSUME NEW ok \in BOOLEAN, ManagerStarted(ok) PROVE ManagerGood'
  <2> DEFINE b == control.backend
             m == IF ok THEN RecordSuccess(SetLifecycle(be[b], "Running")) ELSE SetLifecycle(be[b], "Failed")
  <2>1. b \in Backends BY <1>1, <1>14 DEF ManagerStarted
  <2>2. Sound(SetLifecycle(be[b], "Running")) /\ Sound(SetLifecycle(be[b], "Failed")) BY <1>3, <2>1, SoundCalls
  <2>3. Sound(RecordSuccess(SetLifecycle(be[b], "Running"))) BY <2>2, SoundCalls
  <2>4. Sound(m) BY <2>2, <2>3
  <2>5. be' = [be EXCEPT ![b] = m] BY <1>14 DEF ManagerStarted
  <2> HIDE DEF m
  <2>6. BeGood BY <1>4, <2>1, <2>4, <2>5
  <2> QED BY <1>1, <1>6, <1>8, <1>14, <2>6 DEF ManagerStarted
<1>15. ASSUME NEW ok \in BOOLEAN, ManagerStopped(ok) PROVE ManagerGood'
  <2> DEFINE b == control.backend
             m == SetLifecycle(be[b], IF ok THEN "Stopped" ELSE "Failed")
  <2>1. b \in Backends BY <1>1, <1>15 DEF ManagerStopped
  <2>2. Sound(SetLifecycle(be[b], "Stopped")) /\ Sound(SetLifecycle(be[b], "Failed")) BY <1>3, <2>1, SoundCalls
  <2>3. Sound(m) BY <2>2
  <2>4. be' = [be EXCEPT ![b] = m] BY <1>15 DEF ManagerStopped
  <2> HIDE DEF m
  <2>5. BeGood BY <1>4, <2>1, <2>3, <2>4
  <2>6. [control EXCEPT !.pc = "forgetting"] \in Controls
        /\ [control EXCEPT !.pc = "forgetting"].backend = b
    BY <1>1
  <2>7. control' \in Controls /\ (control'.pc # "idle" => control'.backend \in Backends)
    BY <1>6, <1>15, <2>1, <2>6 DEF ManagerStopped
  <2> QED BY <1>1, <1>8, <1>15, <2>5, <2>7 DEF ManagerStopped
<1>16. CASE Forget
  BY <1>1, <1>2, <1>6, <1>8, <1>16 DEF Forget
<1>17. CASE Control
  BY <1>9, <1>10, <1>11, <1>12, <1>13, <1>14, <1>15, <1>16, <1>17 DEF Control
<1>18. CASE Work
  <2>1. PICK t \in Threads :
          \/ \E kind \in Kinds : Select(t, kind)
          \/ Visit(t) \/ Decide(t)
          \/ ReportStarted(t) \/ CountStarted(t)
          \/ ReportDone(t) \/ LoadForReport(t) \/ SubtractReport(t)
    BY <1>18 DEF Work
  <2>2. UNCHANGED managerVars
    BY <2>1 DEF Select, Visit, Decide, ReportStarted, CountStarted, ReportDone, LoadForReport, SubtractReport, Ensure
  <2> QED BY <1>5, <2>2
<1>19. CASE UNCHANGED lbVars BY <1>5, <1>19 DEF lbVars
<1> QED BY <1>17, <1>18, <1>19 DEF LbNext

\* Of any set of backends the first by name is one of them.
LEMMA FirstIsOne ==
    ASSUME NEW S \in SUBSET Backends
    PROVE  /\ S # {} => First(S) \in S
           /\ S = {} => First(S) = None
<1>1. CASE S = {} BY <1>1 DEF First
<1>2. CASE S # {}
  <2> DEFINE T == {i \in DOMAIN Names : Names[i] \in S}
  <2>1. DOMAIN Names = 1 .. Len(Names) /\ Len(Names) \in Nat BY BalancerAssumption
  <2>2. T \in SUBSET Nat /\ T # {} BY <1>2, <2>1 DEF Backends
  <2>3. PICK i \in T : \A j \in T : i <= j BY <2>2, LeastNatural
  <2>4. \A j \in 1 .. i - 1 : Names[j] \notin S
    <3> SUFFICES ASSUME NEW j \in 1 .. i - 1, Names[j] \in S PROVE FALSE OBVIOUS
    <3>1. i \in 1 .. Len(Names) BY <2>1
    <3>2. j \in T BY <2>1, <3>1
    <3>3. i <= j /\ j <= i - 1 /\ i \in Int /\ j \in Int BY <2>3, <3>1, <3>2
    <3> QED BY <3>3
  <2>5. Names[i] \in S /\ IsFirst(Names[i], S) BY <2>4 DEF IsFirst
  <2>6. \E b \in S : IsFirst(b, S) BY <2>5
  <2>7. First(S) = CHOOSE b \in S : IsFirst(b, S) BY <1>2 DEF First
  <2> QED BY <1>2, <2>6, <2>7
<1> QED BY <1>1, <1>2

\* A set of backends is finite and listed in full.
LEMMA OrderedFacts ==
    ASSUME NEW S \in SUBSET Backends
    PROVE  /\ IsFiniteSet(S) /\ Cardinality(S) \in Nat
           /\ Ordered(S) \in Seq(S) /\ Cardinality(S) <= Len(Ordered(S))
<1> DEFINE I == {i \in DOMAIN Names : Names[i] \in S}
           f == [i \in I |-> Names[i]]
           r == Picked(Names, I)
<1>1. Names \in Seq(Backends) /\ I \in SUBSET DOMAIN Names BY BalancerAssumption
<1>2. IsFiniteSet(I) /\ r \in Seq(Backends) /\ Len(r) = Cardinality(I) /\ Cardinality(I) \in Nat
  BY <1>1, PickedFacts
<1>3. \A k \in DOMAIN r : \E i \in I : r[k] = Names[i] BY <1>1, PickedElements
<1>4. f \in Surjection(I, S) BY DEF Surjection, Backends
<1>5. IsFiniteSet(S) /\ Cardinality(S) <= Cardinality(I) BY <1>2, <1>4, FS_Surjection
<1>6. Cardinality(S) \in Nat BY <1>5, FS_CardinalityType
<1>7. \A k \in DOMAIN r : r[k] \in S BY <1>3
<1>8. Ordered(S) = r BY DEF Ordered
<1> HIDE DEF r
<1>9. r \in Seq(S)
  <2>1. DOMAIN r = 1 .. Len(r) /\ Len(r) \in Nat BY <1>2
  <2>2. r \in [1 .. Len(r) -> S] BY <1>2, <1>7, <2>1
  <2> QED BY <2>1, <2>2
<1> QED BY <1>2, <1>5, <1>6, <1>8, <1>9

\* A policy picks one of the candidates it is given, a healthy one when it
\* prefers that and there is one.
LEMMA PolicyPicks ==
    ASSUME NEW S \in SUBSET Backends, NEW policy \in {"None", "PreferPrimary", "PreferHealthy", "RoundRobin"}
    PROVE  /\ S = {} => SelectFromCandidates(policy, 1, S) = None
           /\ S # {} => SelectFromCandidates(policy, 1, S) \in S
           /\ (policy = "PreferHealthy" /\ {b \in S : be[b].health = "Healthy"} # {}) =>
                 SelectFromCandidates(policy, 1, S) \in {b \in S : be[b].health = "Healthy"}
<1> DEFINE picked == SelectFromCandidates(policy, 1, S)
           healthy == {b \in S : be[b].health = "Healthy"}
           preferred(good) == IF good = {} THEN First(S) ELSE First(good)
<1>1. CASE S = {} BY <1>1 DEF SelectFromCandidates
<1>2. CASE S # {}
  <2>1. First(S) \in S BY <1>2, FirstIsOne
  <2>2. ASSUME NEW good \in SUBSET S PROVE preferred(good) \in S /\ (good # {} => preferred(good) \in good)
    <3>1. good \in SUBSET Backends OBVIOUS
    <3>2. good # {} => First(good) \in good BY <3>1, FirstIsOne
    <3> QED BY <2>1, <3>2
  <2> HIDE DEF preferred
  <2>3. CASE policy = "PreferPrimary"
    <3>1. picked = preferred(S \cap PrimaryRole) BY <1>2, <2>3 DEF SelectFromCandidates, preferred
    <3> QED BY <1>2, <2>2, <2>3, <3>1
  <2>4. CASE policy = "PreferHealthy"
    <3>1. picked = preferred(healthy) BY <1>2, <2>4 DEF SelectFromCandidates, preferred
    <3> QED BY <1>2, <2>2, <2>4, <3>1
  <2>5. CASE policy = "RoundRobin"
    <3> DEFINE n == Cardinality(S)
               r == Ordered(S)
    <3>1. picked = r[(1 % n) + 1] BY <1>2, <2>5 DEF SelectFromCandidates
    <3>2. IsFiniteSet(S) /\ n \in Nat /\ r \in Seq(S) /\ n <= Len(r) BY OrderedFacts
    <3>3. n # 0 BY <1>2, <3>2, FS_EmptySet
    <3> HIDE DEF n, r
    <3>4. 1 % n \in 0 .. n - 1 BY <3>2, <3>3
    <3>5. DOMAIN r = 1 .. Len(r) /\ Len(r) \in Nat BY <3>2
    <3>6. (1 % n) + 1 \in DOMAIN r
      <4> DEFINE x == 1 % n
      <4>1. x \in 0 .. n - 1 BY <3>4
      <4> HIDE DEF x
      <4>2. x + 1 \in 1 .. Len(r) BY <3>2, <3>5, <4>1
      <4> QED BY <3>5, <4>2 DEF x
    <3>7. r[(1 % n) + 1] \in S BY <3>2, <3>6
    <3> QED BY <1>2, <2>5, <3>1, <3>7
  <2>6. CASE policy = "None"
    <3>1. picked = First(S) BY <1>2, <2>6 DEF SelectFromCandidates
    <3> QED BY <1>2, <2>1, <2>6, <3>1
  <2> QED BY <2>3, <2>4, <2>5, <2>6
<1> QED BY <1>1, <1>2

\* What the coverage report says about a capability.
LEMMA CoverageFacts ==
    ASSUME ManagerGood, NEW c
    PROVE  /\ Usable(Coverage(c).status) <=> \E b \in Backends : Operational(b) /\ Supports(b, c)
           /\ Usable(Coverage(c).status) => Coverage(c).active # None
           /\ Coverage(c).active # None => /\ Coverage(c).active \in Backends
                                           /\ Operational(Coverage(c).active)
                                           /\ Supports(Coverage(c).active, c)
           /\ Coverage(c).status = "Lost" => Coverage(c).primary \cup Coverage(c).fallbacks # {}
<1> DEFINE declaring == {b \in registered : Supports(b, c)}
           primary   == declaring \cap MatrixPrimary(c)
           fallbacks == declaring \ MatrixPrimary(c)
           P == {b \in primary : Operational(b)}
           F == {b \in fallbacks : Operational(b)}
           serving == IF P # {} THEN First(P) ELSE First(F)
           status == CASE P # {} -> "Available"
                       [] P = {} /\ F # {} -> "Degraded"
                       [] declaring = {} -> "Unavailable"
                       [] OTHER -> "Lost"
<1>1. Coverage(c) = [primary |-> primary, fallbacks |-> fallbacks, active |-> serving, status |-> status]
  BY DEF Coverage
<1>2. P \in SUBSET Backends /\ F \in SUBSET Backends BY DEF ManagerGood
<1>3. (P # {} \/ F # {}) <=> \E b \in Backends : Operational(b) /\ Supports(b, c)
  BY DEF ManagerGood, Operational
<1>4. \A b \in P \cup F : b \in Backends /\ Operational(b) /\ Supports(b, c) BY <1>2
<1>5. primary \cup fallbacks = declaring OBVIOUS
<1>6. /\ Coverage(c).primary = primary /\ Coverage(c).fallbacks = fallbacks
      /\ Coverage(c).active = serving /\ Coverage(c).status = status
  BY <1>1
<1>7. None \notin Backends BY BalancerAssumption
<1>8. /\ P # {} => First(P) \in P
      /\ F # {} => First(F) \in F
      /\ F = {} => First(F) = None
  BY <1>2, FirstIsOne
<1>81. declaring = {} => P = {} /\ F = {} OBVIOUS
<1> HIDE DEF P, F, primary, fallbacks, declaring
<1>9. /\ Usable(status) <=> P # {} \/ F # {}
      /\ status = "Lost" => declaring # {}
  <2>1. CASE P # {}
    <3>1. status = "Available" BY <1>81, <2>1
    <3> QED BY <2>1, <3>1 DEF Usable
  <2>2. CASE P = {} /\ F # {}
    <3>1. status = "Degraded" BY <1>81, <2>2
    <3> QED BY <2>2, <3>1 DEF Usable
  <2>3. CASE P = {} /\ F = {} /\ declaring = {}
    <3>1. status = "Unavailable" BY <2>3
    <3> QED BY <2>3, <3>1 DEF Usable
  <2>4. CASE P = {} /\ F = {} /\ declaring # {}
    <3>1. status = "Lost" BY <2>4
    <3> QED BY <2>4, <3>1 DEF Usable
  <2> QED BY <2>1, <2>2, <2>3, <2>4
<1>10. /\ P # {} \/ F # {} => serving \in P \cup F
       /\ ~(P # {} \/ F # {}) => serving = None
  BY <1>8
<1>11. serving # None => serving \in P \cup F BY <1>10
<1>12. P # {} \/ F # {} => serving # None BY <1>2, <1>7, <1>10
<1> HIDE DEF serving, status
<1> QED BY <1>3, <1>4, <1>5, <1>6, <1>9, <1>11, <1>12

\* The requirement selector's candidates are those of the capability.
LEMMA RequirementsFind ==
    ASSUME ManagerGood, NEW c
    PROVE  FindCapableRequirements({[capability |-> c, required |-> TRUE]}) = FindCapable(c)
<1> DEFINE need == {[capability |-> c, required |-> TRUE]}
<1>1. ASSUME NEW available PROVE Satisfied(CheckRequirements(available, need)) <=> c \in available
  <2> DEFINE missing == {r \in need : r.capability \notin available}
             required == {r.capability : r \in {q \in missing : q.required}}
             optional == {r.capability : r \in {q \in missing : ~q.required}}
  <2>1. CheckRequirements(available, need) = [missingRequired |-> required, missingOptional |-> optional]
    BY DEF CheckRequirements
  <2>2. CASE c \in available
    <3>1. missing = {} BY <2>2
    <3>2. required = {} BY <3>1
    <3> HIDE DEF required, optional
    <3> QED BY <2>1, <2>2, <3>2 DEF Satisfied
  <2>3. CASE c \notin available
    <3> DEFINE q == [capability |-> c, required |-> TRUE]
    <3>1. q \in missing /\ q.required /\ q.capability = c BY <2>3
    <3>2. c \in required BY <3>1
    <3> HIDE DEF required, optional
    <3> QED BY <2>1, <2>3, <3>2 DEF Satisfied
  <2> QED BY <2>2, <2>3
<1> HIDE DEF need
<1>2. FindCapableRequirements(need) = FindCapable(c)
  BY <1>1 DEF FindCapableRequirements, FindCapable, Supports, ManagerGood
<1> QED BY <1>2 DEF need

LEMMA SelectorsHold == ManagerGood => SelectorsAgree
<1> SUFFICES ASSUME ManagerGood PROVE SelectorsAgree OBVIOUS
<1>1. TablesAgree /\ PrimariesDeclare BY TablesHold
<1>2. \A b \in Backends : (b \in registered /\ Available(be[b].lc)) <=> Eligible(b)
  BY DEF ManagerGood, Eligible
<1>3. \A b \in Backends : Operational(b) <=> Eligible(b) BY DEF Operational, Eligible
<1>4. ASSUME NEW c \in Wanted
      PROVE  LET capable == FindCapable(c)
                 healthy == FindHealthyCapable(c)
                 report  == CoverageReport[c]
                 need    == {[capability |-> c, required |-> TRUE]}
             IN /\ FindCapableRequirements(need) = capable
                /\ Usable(report.status) <=> capable # {}
                /\ Usable(report.status) => report.active \in capable
                /\ report.status = "Lost" => report.primary \cup report.fallbacks # {}
                /\ \A policy \in {"None", "PreferPrimary", "PreferHealthy", "RoundRobin"} :
                     LET picked == SelectBackendForRequirements(policy, 1, need)
                     IN /\ picked = None <=> capable = {}
                        /\ picked # None => picked \in capable
                        /\ (policy = "PreferHealthy" /\ healthy # {}) => picked \in healthy
  <2> DEFINE capable == FindCapable(c)
             healthy == FindHealthyCapable(c)
             report  == CoverageReport[c]
             need    == {[capability |-> c, required |-> TRUE]}
  <2>1. FindCapableRequirements(need) = capable BY RequirementsFind
  <2>2. c \in ToSet(AllKnown) BY <1>1, BalancerAssumption DEF TablesAgree
  <2>3. report = Coverage(c) BY <2>2 DEF CoverageReport
  <2>4. \A b \in Backends : b \in capable <=> Operational(b) /\ Supports(b, c)
    BY <1>2, <1>3 DEF FindCapable, Supports
  <2>5. capable \in SUBSET Backends BY DEF FindCapable
  <2>6. healthy = {b \in capable : be[b].health = "Healthy"} BY DEF FindHealthyCapable
  <2>7. None \notin Backends BY BalancerAssumption
  <2> HIDE DEF capable, healthy, report, need
  <2>8. Usable(report.status) <=> capable # {} BY <2>3, <2>4, <2>5, CoverageFacts
  <2>9. Usable(report.status) => report.active \in capable BY <2>3, <2>4, CoverageFacts
  <2>10. report.status = "Lost" => report.primary \cup report.fallbacks # {} BY <2>3, CoverageFacts
  <2>11. ASSUME NEW policy \in {"None", "PreferPrimary", "PreferHealthy", "RoundRobin"}
         PROVE  LET picked == SelectBackendForRequirements(policy, 1, need)
                IN /\ picked = None <=> capable = {}
                   /\ picked # None => picked \in capable
                   /\ (policy = "PreferHealthy" /\ healthy # {}) => picked \in healthy
    <3> DEFINE picked == SelectBackendForRequirements(policy, 1, need)
    <3>1. picked = SelectFromCandidates(policy, 1, capable) BY <2>1 DEF SelectBackendForRequirements
    <3>2. /\ capable = {} => picked = None
          /\ capable # {} => picked \in capable
          /\ (policy = "PreferHealthy" /\ {b \in capable : be[b].health = "Healthy"} # {}) =>
                picked \in {b \in capable : be[b].health = "Healthy"}
      BY <2>5, <3>1, PolicyPicks
    <3> HIDE DEF picked
    <3>3. picked = None <=> capable = {} BY <2>5, <2>7, <3>2
    <3>4. picked # None => picked \in capable BY <3>2
    <3>5. (policy = "PreferHealthy" /\ healthy # {}) => picked \in healthy BY <2>6, <3>2
    <3> QED BY <3>3, <3>4, <3>5 DEF picked
  <2> QED BY <2>1, <2>8, <2>9, <2>10, <2>11 DEF capable, healthy, report, need
<1>5. ASSUME NEW source \in Backends \cup {None}
      PROVE  LET plan == Coordinate(source, Wanted)
             IN (plan.complete /\ (source = None \/ Operational(source)))
                  => \A c \in Wanted : \E b \in plan.participated : Operational(b) /\ Supports(b, c)
  <2> DEFINE plan == Coordinate(source, Wanted)
             provider(c) == IF source # None /\ Supports(source, c) THEN source ELSE Coverage(c).active
             missing == {c \in Wanted : provider(c) = None}
  <2>1. plan.complete = (missing = {}) /\ plan.participated = {provider(c) : c \in Wanted \ missing}
    BY DEF Coordinate
  <2> SUFFICES ASSUME plan.complete, source = None \/ Operational(source), NEW c \in Wanted
               PROVE  \E b \in plan.participated : Operational(b) /\ Supports(b, c)
    OBVIOUS
  <2>2. missing = {} BY <2>1
  <2>3. provider(c) \in plan.participated BY <2>1, <2>2
  <2>4. provider(c) # None BY <2>2
  <2>5. Operational(provider(c)) /\ Supports(provider(c), c)
    <3>1. CASE source # None /\ Supports(source, c) BY <3>1
    <3>2. CASE ~(source # None /\ Supports(source, c))
      <4>1. provider(c) = Coverage(c).active BY <3>2
      <4>2. Coverage(c).active # None BY <2>4, <4>1
      <4>3. Operational(Coverage(c).active) /\ Supports(Coverage(c).active, c) BY <4>2, CoverageFacts
      <4> QED BY <4>1, <4>3
    <3> QED BY <3>1, <3>2
  <2> QED BY <2>3, <2>5
<1> QED BY <1>1, <1>2, <1>4, <1>5 DEF SelectorsAgree

LEMMA ManagerStarts == LbInit => ManagerGood
<1> SUFFICES ASSUME LbInit PROVE ManagerGood OBVIOUS
<1>1. NewManaged \in Managed /\ ~Available(NewManaged.lc)
  BY ThresholdAssumption DEF NewManaged, Managed, Available, Lifecycles, Healths
<1> QED BY <1>1 DEF LbInit, ManagerGood

\* The manager's selectors give the same answer about a capability whatever
\* control calls and reports came before (selection.rs, complementarity.rs,
\* coordination.rs, load_balancer.rs).
THEOREM SelectorsNeverDisagree == LbSpec => []SelectorsAgree
<1>1. LbInit => ManagerGood BY ManagerStarts
<1>2. ManagerGood /\ [LbNext]_lbVars => ManagerGood' BY ManagerStep
<1>3. ManagerGood => SelectorsAgree BY SelectorsHold
<1> QED BY <1>1, <1>2, <1>3, PTL DEF LbSpec

\* A step of the composition is one of the balancer and one of the coordinator,
\* at most one of which does something.
LEMMA SelectionSteps == [Next]_vars => [LbNext]_lbVars /\ [FoNext]_foVars
<1> SUFFICES ASSUME [Next]_vars PROVE [LbNext]_lbVars /\ [FoNext]_foVars OBVIOUS
<1>1. CASE UNCHANGED vars BY <1>1 DEF vars
<1>2. CASE LbNext /\ UNCHANGED foVars BY <1>2
<1>3. CASE Control /\ TrackSteady /\ UNCHANGED foVars BY <1>3 DEF LbNext
<1>4. CASE (CoordinatorNext \/ RegistryNext) /\ UNCHANGED lbVars BY <1>4 DEF FoNext
<1> QED BY <1>1, <1>2, <1>3, <1>4 DEF Next

\* The same, as the runs state it: while control calls are made and nobody works.
THEOREM SelectorsAgreeInSelection == Spec => []SelectorsInv
<1>1. Init => ManagerGood BY ManagerStarts DEF Init
<1>2. ManagerGood /\ [Next]_vars => ManagerGood' BY ManagerStep, SelectionSteps
<1>3. ManagerGood => SelectorsInv BY SelectorsHold DEF SelectorsInv
<1> QED BY <1>1, <1>2, <1>3, PTL DEF Spec
=============================================================================
