---------------------------- MODULE GatewayProofs ----------------------------
(***************************************************************************)
(* Proofs about GatewayCapability and its tables, for every set of         *)
(* endpoints, tuples and neighbors, and for every limit; and about the     *)
(* routing state it works with, for every system the backend may query,    *)
(* every width of an address and every table.                              *)
(*                                                                         *)
(* What the Gateway's tables must keep is stated about a table that is     *)
(* passed in, so that it can be said of the purged table an insert works   *)
(* on as well.                                                             *)
(***************************************************************************)
EXTENDS MCGateway, ListProofs

ConnGood(c) ==
    /\ DOMAIN c \subseteq ConnKeys
    /\ IsFiniteSet(DOMAIN c) /\ Cardinality(DOMAIN c) <= MaxConnections
    /\ \A k \in DOMAIN c : c[k] \in [state : ConnStates, seen : Nat, timeout : Nat \ {0}]

\* The bindings n and their two indexes o and x, ids below next.
NatGood(n, o, x, next) ==
    /\ next \in Nat \ {0} /\ DOMAIN n \subseteq 1 .. (next - 1)
    /\ IsFiniteSet(DOMAIN n) /\ Cardinality(DOMAIN n) <= MaxNat
    /\ \A id \in DOMAIN n : n[id] \in [original : Originals, translated : Translations,
                                       seen : Nat, timeout : Nat \ {0}]
    /\ \A id \in DOMAIN n : /\ n[id].original \in DOMAIN o /\ o[n[id].original] = id
                            /\ n[id].translated \in DOMAIN x /\ x[n[id].translated] = id
    /\ \A t \in DOMAIN o : o[t] \in DOMAIN n /\ n[o[t]].original = t
    /\ \A t \in DOMAIN x : x[t] \in DOMAIN n /\ n[x[t]].translated = t

NeighGood(c) ==
    /\ DOMAIN c \subseteq Neighbors
    /\ IsFiniteSet(DOMAIN c) /\ Cardinality(DOMAIN c) <= MaxNeighbors
    /\ \A k \in DOMAIN c : /\ k[2] # 0
                           /\ c[k].state \in NeighborStates
                           /\ c[k].expires \in Nat \cup {None}

TablesGood ==
    /\ now \in Nat
    /\ ConnGood(conn)
    /\ NatGood(nat, byOriginal, byTranslated, nextId)
    /\ NeighGood(neigh)

LifeGood ==
    /\ state \in GatewayStates
    /\ enabled \in BOOLEAN /\ policy \in BOOLEAN
    /\ caps \subseteq GatewayCaps
    /\ enabled <=> state \in {"Active", "Degraded"}

\* The inductive invariant: GatewayInv, and that the tables are finite.
CapabilityInv == TablesGood /\ LifeGood

-----------------------------------------------------------------------------
(* The limits.                                                             *)

\* What is left of a table that was within its limit is within it.
LEMMA FewerFit ==
    ASSUME NEW S, IsFiniteSet(S), NEW n \in Nat, Cardinality(S) <= n, NEW T \in SUBSET S
    PROVE  IsFiniteSet(T) /\ Cardinality(T) <= n
<1>1. IsFiniteSet(T) /\ Cardinality(T) <= Cardinality(S) BY FS_Subset
<1>2. Cardinality(S) \in Nat /\ Cardinality(T) \in Nat BY <1>1, FS_CardinalityType
<1> QED BY <1>1, <1>2

\* A table that is not full has room for one more key, or has it already.
LEMMA OneMoreFits ==
    ASSUME NEW S, IsFiniteSet(S), NEW n \in Nat, NEW k,
           (k \in S /\ Cardinality(S) <= n) \/ ~(Cardinality(S) >= n)
    PROVE  IsFiniteSet(S \cup {k}) /\ Cardinality(S \cup {k}) <= n
<1>1. IsFiniteSet(S \cup {k}) /\ Cardinality(S \cup {k}) = IF k \in S THEN Cardinality(S) ELSE Cardinality(S) + 1
  BY FS_AddElement
<1>2. Cardinality(S) \in Nat BY FS_CardinalityType
<1> QED BY <1>1, <1>2

\* An empty table.
LEMMA EmptyTable == DOMAIN Empty = {} /\ IsFiniteSet({}) /\ \A n \in Nat : Cardinality({}) <= n
<1>1. DOMAIN Empty = {} BY DEF Empty
<1>2. IsFiniteSet({}) /\ Cardinality({}) = 0 BY FS_EmptySet
<1> QED BY <1>1, <1>2

\* What Put and Without make of a table.
LEMMA PutEntry ==
    ASSUME NEW f, NEW k, NEW e
    PROVE  /\ DOMAIN Put(f, k, e) = DOMAIN f \cup {k}
           /\ Put(f, k, e)[k] = e
           /\ \A x \in DOMAIN f : x # k => Put(f, k, e)[x] = f[x]
  BY DEF Put

LEMMA WithoutEntries ==
    ASSUME NEW f, NEW S
    PROVE  /\ DOMAIN Without(f, S) = DOMAIN f \ S
           /\ \A x \in DOMAIN f \ S : Without(f, S)[x] = f[x]
  BY DEF Without, Restrict

LEMMA KeptEntries ==
    ASSUME NEW f, NEW S
    PROVE  DOMAIN Restrict(f, S) = S /\ \A x \in S : Restrict(f, S)[x] = f[x]
  BY DEF Restrict

-----------------------------------------------------------------------------
(* Connections.                                                            *)

LEMMA ConnKeep ==
    ASSUME NEW c, ConnGood(c), NEW S \in SUBSET DOMAIN c
    PROVE  ConnGood(Restrict(c, S))
<1>1. IsFiniteSet(S) /\ Cardinality(S) <= MaxConnections
  BY FewerFit, GatewayTablesAssumption DEF ConnGood
<1> QED BY <1>1, KeptEntries DEF ConnGood

LEMMA ConnPut ==
    ASSUME NEW c, ConnGood(c), NEW k \in ConnKeys,
           NEW e \in [state : ConnStates, seen : Nat, timeout : Nat \ {0}],
           k \in DOMAIN c \/ ~(Cardinality(DOMAIN c) >= MaxConnections)
    PROVE  ConnGood(Put(c, k, e))
<1>1. IsFiniteSet(DOMAIN c \cup {k}) /\ Cardinality(DOMAIN c \cup {k}) <= MaxConnections
  BY OneMoreFits, GatewayTablesAssumption DEF ConnGood
<1> DEFINE f == Put(c, k, e)
<1>2. DOMAIN f = DOMAIN c \cup {k} /\ f[k] = e /\ \A x \in DOMAIN c : x # k => f[x] = c[x] BY DEF Put
<1> HIDE DEF f
<1>3. DOMAIN f \subseteq ConnKeys BY <1>2 DEF ConnGood
<1>4. \A x \in DOMAIN f : f[x] \in [state : ConnStates, seen : Nat, timeout : Nat \ {0}]
  BY <1>2 DEF ConnGood
<1>5. ConnGood(f) BY <1>1, <1>2, <1>3, <1>4 DEF ConnGood
<1> QED BY <1>5 DEF f

LEMMA ConnLiveGood ==
    ASSUME ConnGood(conn)
    PROVE  /\ ConnGood(ConnLive) /\ DOMAIN ConnLive = {k \in DOMAIN conn : ~Expired(conn[k])}
           /\ \A k \in DOMAIN ConnLive : ConnLive[k] = conn[k]
  BY ConnKeep, KeptEntries DEF ConnLive

\* The connection actions keep the table.
LEMMA ConnSteps ==
    ASSUME ConnGood(conn), now \in Nat, NEW k \in ConnKeys,
           \/ \E t \in Timeouts : ConnInsert(k, t)
           \/ \E s \in ConnStates : ConnTransition(k, s)
           \/ ConnRecord(k)
           \/ ConnRemove(k)
    PROVE  ConnGood(conn')
<1>1. ASSUME NEW t \in Timeouts, ConnInsert(k, t) PROVE ConnGood(conn')
  <2>1. NewConnection(t) \in [state : ConnStates, seen : Nat, timeout : Nat \ {0}]
    BY <1>1, GatewayTablesAssumption DEF ConnInsert, NewConnection, ConnStates
  <2>2. ConnGood(ConnLive) BY ConnLiveGood
  <2>6. conn' = ConnInserted(k, t) BY <1>1 DEF ConnInsert
  <2>3. CASE k \in DOMAIN ConnLive \/ Cardinality(DOMAIN ConnLive) >= MaxConnections
    <3>1. conn' = ConnLive BY <2>3, <2>6 DEF ConnInserted
    <3> QED BY <2>2, <3>1
  <2>4. CASE ~(k \in DOMAIN ConnLive \/ Cardinality(DOMAIN ConnLive) >= MaxConnections)
    <3>1. conn' = Put(ConnLive, k, NewConnection(t)) BY <2>4, <2>6 DEF ConnInserted
    <3>2. ConnGood(Put(ConnLive, k, NewConnection(t))) BY <2>1, <2>2, <2>4, ConnPut
    <3> QED BY <3>1, <3>2
  <2> QED BY <2>3, <2>4
<1>2. ASSUME NEW s \in ConnStates, ConnTransition(k, s) PROVE ConnGood(conn')
  <2>1. k \in DOMAIN conn /\ conn' = [conn EXCEPT ![k].state = s, ![k].seen = now] BY <1>2 DEF ConnTransition
  <2>2. DOMAIN conn' = DOMAIN conn BY <2>1
  <2>3. \A j \in DOMAIN conn : j # k => conn'[j] = conn[j] BY <2>1
  <2>4. conn'[k] = [conn[k] EXCEPT !.state = s, !.seen = now] BY <2>1
  <2>5. conn'[k] \in [state : ConnStates, seen : Nat, timeout : Nat \ {0}]
    BY <2>1, <2>4 DEF ConnGood
  <2> QED BY <2>2, <2>3, <2>5 DEF ConnGood
<1>3. ASSUME ConnRecord(k) PROVE ConnGood(conn')
  <2>1. k \in DOMAIN conn /\ conn' = [conn EXCEPT ![k].seen = now] BY <1>3 DEF ConnRecord
  <2>2. DOMAIN conn' = DOMAIN conn /\ \A j \in DOMAIN conn : j # k => conn'[j] = conn[j] BY <2>1
  <2>3. conn'[k] = [conn[k] EXCEPT !.seen = now] BY <2>1
  <2>4. conn'[k] \in [state : ConnStates, seen : Nat, timeout : Nat \ {0}]
    BY <2>1, <2>3 DEF ConnGood
  <2> QED BY <2>2, <2>4 DEF ConnGood
<1>4. ASSUME ConnRemove(k) PROVE ConnGood(conn')
  <2>1. conn' = Restrict(conn, DOMAIN conn \ {k}) BY <1>4 DEF ConnRemove, Without
  <2>2. ConnGood(Restrict(conn, DOMAIN conn \ {k})) BY ConnKeep
  <2> QED BY <2>1, <2>2
<1> QED BY <1>1, <1>2, <1>3, <1>4

-----------------------------------------------------------------------------
(* Address translation.  The indexes are inverses of the table, so taking   *)
(* out the tuples of some bindings takes out no other binding's tuple.      *)

LEMMA NatTake ==
    ASSUME NEW n, NEW o, NEW x, NEW next, NatGood(n, o, x, next), NEW ids \in SUBSET DOMAIN n
    PROVE  NatGood(Without(n, ids), Without(o, {n[id].original : id \in ids}),
                   Without(x, {n[id].translated : id \in ids}), next)
<1> DEFINE n1 == Without(n, ids)
           oldO == {n[id].original : id \in ids}
           oldX == {n[id].translated : id \in ids}
           o1 == Without(o, oldO)
           x1 == Without(x, oldX)
<1>1. DOMAIN n1 = DOMAIN n \ ids /\ \A id \in DOMAIN n \ ids : n1[id] = n[id] BY WithoutEntries
<1>2. DOMAIN o1 = DOMAIN o \ oldO /\ \A t \in DOMAIN o \ oldO : o1[t] = o[t] BY WithoutEntries
<1>3. DOMAIN x1 = DOMAIN x \ oldX /\ \A t \in DOMAIN x \ oldX : x1[t] = x[t] BY WithoutEntries
<1>4. IsFiniteSet(DOMAIN n1) /\ Cardinality(DOMAIN n1) <= MaxNat
  <2>1. DOMAIN n \ ids \in SUBSET DOMAIN n OBVIOUS
  <2> QED BY <1>1, <2>1, FewerFit, GatewayTablesAssumption DEF NatGood
<1>5. ASSUME NEW id \in DOMAIN n1
      PROVE  /\ n1[id].original \in DOMAIN o1 /\ o1[n1[id].original] = id
             /\ n1[id].translated \in DOMAIN x1 /\ x1[n1[id].translated] = id
             /\ n1[id] = n[id] /\ id \in DOMAIN n
  <2>1. id \in DOMAIN n /\ id \notin ids /\ n1[id] = n[id] BY <1>1, <1>5
  <2>2. n[id].original \in DOMAIN o /\ o[n[id].original] = id
        /\ n[id].translated \in DOMAIN x /\ x[n[id].translated] = id
    BY <2>1 DEF NatGood
  <2>3. n[id].original \notin oldO
    <3>1. SUFFICES ASSUME NEW j \in ids, n[id].original = n[j].original PROVE FALSE OBVIOUS
    <3>2. o[n[j].original] = j BY DEF NatGood
    <3> QED BY <2>1, <2>2, <3>1, <3>2
  <2>4. n[id].translated \notin oldX
    <3>1. SUFFICES ASSUME NEW j \in ids, n[id].translated = n[j].translated PROVE FALSE OBVIOUS
    <3>2. x[n[j].translated] = j BY DEF NatGood
    <3> QED BY <2>1, <2>2, <3>1, <3>2
  <2> QED BY <1>2, <1>3, <2>1, <2>2, <2>3, <2>4
<1>6. ASSUME NEW t \in DOMAIN o1 PROVE o1[t] \in DOMAIN n1 /\ n1[o1[t]].original = t
  <2>1. t \in DOMAIN o /\ t \notin oldO /\ o1[t] = o[t] BY <1>2, <1>6
  <2>2. o[t] \in DOMAIN n /\ n[o[t]].original = t BY <2>1 DEF NatGood
  <2>3. o[t] \notin ids BY <2>1, <2>2
  <2> QED BY <1>1, <2>1, <2>2, <2>3
<1>7. ASSUME NEW t \in DOMAIN x1 PROVE x1[t] \in DOMAIN n1 /\ n1[x1[t]].translated = t
  <2>1. t \in DOMAIN x /\ t \notin oldX /\ x1[t] = x[t] BY <1>3, <1>7
  <2>2. x[t] \in DOMAIN n /\ n[x[t]].translated = t BY <2>1 DEF NatGood
  <2>3. x[t] \notin ids BY <2>1, <2>2
  <2> QED BY <1>1, <2>1, <2>2, <2>3
<1>8. \A id \in DOMAIN n1 : id \in DOMAIN n /\ n1[id] = n[id] BY <1>5
<1> HIDE DEF n1, oldO, oldX, o1, x1
<1>9. NatGood(n1, o1, x1, next) BY <1>4, <1>5, <1>6, <1>7, <1>8 DEF NatGood
<1> QED BY <1>9 DEF n1, oldO, oldX, o1, x1

LEMMA NatPut ==
    ASSUME NEW n, NEW o, NEW x, NEW next, NatGood(n, o, x, next),
           NEW b \in [original : Originals, translated : Translations, seen : Nat, timeout : Nat \ {0}],
           ~(Cardinality(DOMAIN n) >= MaxNat), b.original \notin DOMAIN o, b.translated \notin DOMAIN x
    PROVE  NatGood(Put(n, next, b), Put(o, b.original, next), Put(x, b.translated, next), next + 1)
<1> DEFINE n1 == Put(n, next, b)
           p == b.original
           r == b.translated
           o1 == Put(o, p, next)
           x1 == Put(x, r, next)
           D == DOMAIN n
           Od == DOMAIN o
           Xd == DOMAIN x
<1>0. /\ next \in Nat \ {0} /\ D \subseteq 1 .. (next - 1) /\ IsFiniteSet(D)
      /\ \A id \in D : n[id] \in [original : Originals, translated : Translations,
                                  seen : Nat, timeout : Nat \ {0}]
      /\ \A id \in D : /\ n[id].original \in Od /\ o[n[id].original] = id
                       /\ n[id].translated \in Xd /\ x[n[id].translated] = id
      /\ \A t \in Od : o[t] \in D /\ n[o[t]].original = t
      /\ \A t \in Xd : x[t] \in D /\ n[x[t]].translated = t
  BY DEF NatGood
<1>n. next \notin D BY <1>0
<1>1. DOMAIN n1 = D \cup {next} /\ n1[next] = b /\ \A id \in D : n1[id] = n[id] BY <1>n DEF Put
<1>2. DOMAIN o1 = Od \cup {p} /\ o1[p] = next /\ \A t \in Od : o1[t] = o[t] BY DEF Put
<1>3. DOMAIN x1 = Xd \cup {r} /\ x1[r] = next /\ \A t \in Xd : x1[t] = x[t] BY DEF Put
<1>4. IsFiniteSet(DOMAIN n1) /\ Cardinality(DOMAIN n1) <= MaxNat
  BY <1>0, <1>1, OneMoreFits, GatewayTablesAssumption
<1>5. next + 1 \in Nat \ {0} /\ D \cup {next} \subseteq 1 .. (next + 1 - 1) BY <1>0
<1> HIDE DEF n1, o1, x1, p, r, D, Od, Xd
<1>6. \A id \in DOMAIN n1 : n1[id] \in [original : Originals, translated : Translations,
                                        seen : Nat, timeout : Nat \ {0}]
  BY <1>0, <1>1
<1>7. ASSUME NEW id \in DOMAIN n1
      PROVE  /\ n1[id].original \in DOMAIN o1 /\ o1[n1[id].original] = id
             /\ n1[id].translated \in DOMAIN x1 /\ x1[n1[id].translated] = id
  <2>1. CASE id = next BY <1>1, <1>2, <1>3, <2>1 DEF p, r
  <2>2. CASE id # next
    <3>1. id \in D /\ n1[id] = n[id] BY <1>1, <1>7, <2>2
    <3>2. /\ n[id].original \in Od /\ o[n[id].original] = id
          /\ n[id].translated \in Xd /\ x[n[id].translated] = id
      BY <1>0, <3>1
    <3> QED BY <1>2, <1>3, <3>1, <3>2
  <2> QED BY <2>1, <2>2
<1>8. ASSUME NEW t \in DOMAIN o1 PROVE o1[t] \in DOMAIN n1 /\ n1[o1[t]].original = t
  <2>1. CASE t = p BY <1>1, <1>2, <2>1 DEF p
  <2>2. CASE t # p
    <3>1. t \in Od /\ o1[t] = o[t] BY <1>2, <1>8, <2>2
    <3>2. o[t] \in D /\ n[o[t]].original = t BY <1>0, <3>1
    <3> QED BY <1>1, <3>1, <3>2
  <2> QED BY <2>1, <2>2
<1>9. ASSUME NEW t \in DOMAIN x1 PROVE x1[t] \in DOMAIN n1 /\ n1[x1[t]].translated = t
  <2>1. CASE t = r BY <1>1, <1>3, <2>1 DEF r
  <2>2. CASE t # r
    <3>1. t \in Xd /\ x1[t] = x[t] BY <1>3, <1>9, <2>2
    <3>2. x[t] \in D /\ n[x[t]].translated = t BY <1>0, <3>1
    <3> QED BY <1>1, <3>1, <3>2
  <2> QED BY <2>1, <2>2
<1>10. NatGood(n1, o1, x1, next + 1) BY <1>1, <1>4, <1>5, <1>6, <1>7, <1>8, <1>9 DEF NatGood
<1> QED BY <1>10 DEF n1, o1, x1, p, r

\* The NAT actions keep the table and its indexes.
LEMMA NatSteps ==
    ASSUME NatGood(nat, byOriginal, byTranslated, nextId), now \in Nat,
           \/ \E o \in Originals, x \in Translations, t \in Timeouts : NatInsert(o, x, t)
           \/ \E id \in 1 .. MaxNatId : NatTouch(id) \/ NatRemove(id)
           \/ SetNat(NatRemoved(NatExpired)) /\ UNCHANGED nextId
    PROVE  NatGood(nat', byOriginal', byTranslated', nextId')
<1>r. ASSUME NEW ids \in SUBSET DOMAIN nat
      PROVE  NatGood(NatRemoved(ids).nat, NatRemoved(ids).byOriginal, NatRemoved(ids).byTranslated, nextId)
  BY NatTake DEF NatRemoved
<1>e. NatExpired \in SUBSET DOMAIN nat BY DEF NatExpired
<1>1. ASSUME NEW o \in Originals, NEW x \in Translations, NEW t \in Timeouts, NatInsert(o, x, t)
      PROVE  NatGood(nat', byOriginal', byTranslated', nextId')
  <2> DEFINE q == NatRemoved(NatExpired)
             b == [original |-> o, translated |-> x, seen |-> now, timeout |-> t]
             refused == \/ Cardinality(DOMAIN q.nat) >= MaxNat
                        \/ o \in DOMAIN q.byOriginal
                        \/ x \in DOMAIN q.byTranslated
  <2>1. NatGood(q.nat, q.byOriginal, q.byTranslated, nextId) BY <1>r, <1>e
  <2>2. \/ refused /\ SetNat(q) /\ UNCHANGED nextId
        \/ /\ ~refused /\ t # 0
           /\ nat' = Put(q.nat, nextId, b) /\ byOriginal' = Put(q.byOriginal, o, nextId)
           /\ byTranslated' = Put(q.byTranslated, x, nextId) /\ nextId' = nextId + 1
    BY <1>1 DEF NatInsert
  <2>b. t # 0 => /\ b \in [original : Originals, translated : Translations, seen : Nat, timeout : Nat \ {0}]
                 /\ b.original = o /\ b.translated = x
    BY GatewayTablesAssumption
  <2> HIDE DEF q, b
  <2>3. CASE refused /\ SetNat(q) /\ UNCHANGED nextId BY <2>1, <2>3 DEF SetNat
  <2>4. CASE /\ ~refused /\ t # 0
             /\ nat' = Put(q.nat, nextId, b) /\ byOriginal' = Put(q.byOriginal, o, nextId)
             /\ byTranslated' = Put(q.byTranslated, x, nextId) /\ nextId' = nextId + 1
    <3>1. NatGood(Put(q.nat, nextId, b), Put(q.byOriginal, o, nextId), Put(q.byTranslated, x, nextId), nextId + 1)
      BY <2>1, <2>4, <2>b, NatPut
    <3> QED BY <2>4, <3>1
  <2> QED BY <2>2, <2>3, <2>4
<1>2. ASSUME NEW id \in 1 .. MaxNatId, NatTouch(id)
      PROVE  NatGood(nat', byOriginal', byTranslated', nextId')
  <2>1. /\ id \in DOMAIN nat /\ nat' = [nat EXCEPT ![id].seen = now]
        /\ byOriginal' = byOriginal /\ byTranslated' = byTranslated /\ nextId' = nextId
    BY <1>2 DEF NatTouch
  <2>2. DOMAIN nat' = DOMAIN nat /\ \A j \in DOMAIN nat : j # id => nat'[j] = nat[j] BY <2>1
  <2>3. nat[id] \in [original : Originals, translated : Translations, seen : Nat, timeout : Nat \ {0}]
    BY <2>1 DEF NatGood
  <2>4. nat'[id] = [nat[id] EXCEPT !.seen = now] BY <2>1
  <2>5. /\ nat'[id] \in [original : Originals, translated : Translations, seen : Nat, timeout : Nat \ {0}]
        /\ nat'[id].original = nat[id].original /\ nat'[id].translated = nat[id].translated
    BY <2>3, <2>4
  <2>6. \A j \in DOMAIN nat : /\ nat'[j].original = nat[j].original /\ nat'[j].translated = nat[j].translated
                              /\ nat'[j] \in [original : Originals, translated : Translations,
                                              seen : Nat, timeout : Nat \ {0}]
    BY <2>2, <2>5 DEF NatGood
  <2> QED BY <2>1, <2>2, <2>6 DEF NatGood
<1>3. ASSUME NEW id \in 1 .. MaxNatId, NatRemove(id)
      PROVE  NatGood(nat', byOriginal', byTranslated', nextId')
  <2>1. {id} \in SUBSET DOMAIN nat /\ SetNat(NatRemoved({id})) /\ nextId' = nextId BY <1>3 DEF NatRemove
  <2> QED BY <1>r, <2>1 DEF SetNat
<1>4. ASSUME SetNat(NatRemoved(NatExpired)), nextId' = nextId
      PROVE  NatGood(nat', byOriginal', byTranslated', nextId')
  BY <1>r, <1>e, <1>4 DEF SetNat
<1> QED BY <1>1, <1>2, <1>3, <1>4

-----------------------------------------------------------------------------
(* Neighbors.                                                              *)

LEMMA NeighKeep ==
    ASSUME NEW c, NeighGood(c), NEW S \in SUBSET DOMAIN c
    PROVE  NeighGood(Restrict(c, S))
<1>1. IsFiniteSet(S) /\ Cardinality(S) <= MaxNeighbors
  BY FewerFit, GatewayTablesAssumption DEF NeighGood
<1> QED BY <1>1, KeptEntries DEF NeighGood

LEMMA NeighPut ==
    ASSUME NEW c, NeighGood(c), NEW k \in Neighbors, k[2] # 0,
           NEW e, e.state \in NeighborStates, e.expires \in Nat \cup {None},
           k \in DOMAIN c \/ ~(Cardinality(DOMAIN c) >= MaxNeighbors)
    PROVE  NeighGood(Put(c, k, e))
<1>1. IsFiniteSet(DOMAIN c \cup {k}) /\ Cardinality(DOMAIN c \cup {k}) <= MaxNeighbors
  BY OneMoreFits, GatewayTablesAssumption DEF NeighGood
<1> DEFINE f == Put(c, k, e)
<1>2. DOMAIN f = DOMAIN c \cup {k} /\ f[k] = e /\ \A x \in DOMAIN c : x # k => f[x] = c[x] BY DEF Put
<1> HIDE DEF f
<1>3. NeighGood(f) BY <1>1, <1>2 DEF NeighGood
<1> QED BY <1>3 DEF f

LEMMA NeighLiveGood ==
    ASSUME NeighGood(neigh)
    PROVE  NeighGood(NeighLive) /\ DOMAIN NeighLive = {k \in DOMAIN neigh : ~NeighborExpired(neigh[k])}
  BY NeighKeep, KeptEntries DEF NeighLive

\* The neighbor actions keep the cache.
LEMMA NeighSteps ==
    ASSUME NeighGood(neigh), now \in Nat, NEW k \in Neighbors,
           \/ \E s \in NeighborReports :
                \/ \E ttl \in Timeouts \cup {None} :
                      \/ NeighborInsert(k, NewNeighbor(s, ttl))
                      \/ NeighborUpsert(k, NewNeighbor(s, ttl))
                \/ NeighborSetState(k, s)
           \/ NeighborRemove(k)
    PROVE  NeighGood(neigh')
<1>1. ASSUME NEW s \in NeighborReports, NEW ttl \in Timeouts \cup {None},
             NeighborInsert(k, NewNeighbor(s, ttl)) \/ NeighborUpsert(k, NewNeighbor(s, ttl))
      PROVE  NeighGood(neigh')
  <2> DEFINE e == NewNeighbor(s, ttl)
  <2>1. e.state \in NeighborStates /\ e.expires \in Nat \cup {None}
    <3>1. ttl # None => now + ttl \in Nat BY GatewayTablesAssumption
    <3> QED BY <3>1, GatewayTablesAssumption DEF NewNeighbor
  <2>2. NeighGood(NeighLive) BY NeighLiveGood
  <2>3. k[2] # 0 BY <1>1 DEF NeighborInsert, NeighborUpsert
  <2>4. \/ neigh' = NeighLive
        \/ /\ neigh' = Put(NeighLive, k, e)
           /\ k \in DOMAIN NeighLive \/ ~(Cardinality(DOMAIN NeighLive) >= MaxNeighbors)
    <3>1. CASE NeighborInsert(k, e)
      <4>1. CASE k \in DOMAIN NeighLive \/ Cardinality(DOMAIN NeighLive) >= MaxNeighbors
        BY <3>1, <4>1 DEF NeighborInsert
      <4>2. CASE ~(k \in DOMAIN NeighLive \/ Cardinality(DOMAIN NeighLive) >= MaxNeighbors)
        BY <3>1, <4>2 DEF NeighborInsert
      <4> QED BY <4>1, <4>2
    <3>2. CASE NeighborUpsert(k, e)
      <4>1. CASE k \notin DOMAIN NeighLive /\ Cardinality(DOMAIN NeighLive) >= MaxNeighbors
        BY <3>2, <4>1 DEF NeighborUpsert
      <4>2. CASE ~(k \notin DOMAIN NeighLive /\ Cardinality(DOMAIN NeighLive) >= MaxNeighbors)
        BY <3>2, <4>2 DEF NeighborUpsert
      <4> QED BY <4>1, <4>2
    <3> QED BY <1>1, <3>1, <3>2
  <2> HIDE DEF e
  <2>5. k \in DOMAIN NeighLive \/ ~(Cardinality(DOMAIN NeighLive) >= MaxNeighbors) => NeighGood(Put(NeighLive, k, e))
    BY <2>1, <2>2, <2>3, NeighPut
  <2> QED BY <2>2, <2>4, <2>5
<1>2. ASSUME NEW s \in NeighborReports, NeighborSetState(k, s) PROVE NeighGood(neigh')
  <2>1. k \in DOMAIN neigh /\ neigh' = [neigh EXCEPT ![k].state = s] BY <1>2 DEF NeighborSetState
  <2>2. DOMAIN neigh' = DOMAIN neigh /\ \A j \in DOMAIN neigh : j # k => neigh'[j] = neigh[j] BY <2>1
  <2>3. neigh'[k] = [neigh[k] EXCEPT !.state = s] BY <2>1
  <2>4. neigh'[k].expires = neigh[k].expires BY <2>3
  <2>5. neigh'[k].state \in NeighborStates BY <2>3, GatewayTablesAssumption DEF NeighborStates
  <2> QED BY <2>1, <2>2, <2>4, <2>5 DEF NeighGood
<1>3. ASSUME NeighborRemove(k) PROVE NeighGood(neigh')
  <2>1. neigh' = Restrict(neigh, DOMAIN neigh \ {k}) BY <1>3 DEF NeighborRemove, Without
  <2>2. NeighGood(Restrict(neigh, DOMAIN neigh \ {k})) BY NeighKeep
  <2> QED BY <2>1, <2>2
<1> QED BY <1>1, <1>2, <1>3

-----------------------------------------------------------------------------
(* The capability.                                                         *)

LEMMA EmptyGood == /\ ConnGood(Empty) /\ NeighGood(Empty)
                   /\ \A next \in Nat \ {0} : NatGood(Empty, Empty, Empty, next)
  BY EmptyTable, GatewayTablesAssumption DEF ConnGood, NeighGood, NatGood

\* A step on the tables keeps them.
LEMMA TablesStep ==
    ASSUME TablesGood, TablesNext
    PROVE  TablesGood'
<1> USE DEF TablesGood, tableVars, natVars
<1>1. ASSUME NEW t \in 0 .. MaxNow, Clock(t) PROVE TablesGood'
  <2>1. now' \in Nat BY <1>1, GatewayTablesAssumption DEF Clock
  <2> QED BY <1>1, <2>1 DEF Clock
<1>2. ASSUME NEW k \in ConnKeys,
             \/ \E t \in Timeouts : ConnInsert(k, t)
             \/ \E s \in ConnStates : ConnTransition(k, s)
             \/ ConnRecord(k)
             \/ ConnRemove(k)
      PROVE  TablesGood'
  <2>1. ConnGood(conn') BY <1>2, ConnSteps
  <2>2. UNCHANGED <<now, natVars, neigh>> BY <1>2 DEF ConnInsert, ConnTransition, ConnRecord, ConnRemove
  <2> QED BY <2>1, <2>2
<1>3. ASSUME \/ \E o \in Originals, x \in Translations, t \in Timeouts : NatInsert(o, x, t)
             \/ \E id \in 1 .. MaxNatId : NatTouch(id) \/ NatRemove(id)
      PROVE  TablesGood'
  <2>1. NatGood(nat', byOriginal', byTranslated', nextId') BY <1>3, NatSteps
  <2>2. UNCHANGED <<now, conn, neigh>> BY <1>3 DEF NatInsert, NatTouch, NatRemove
  <2> QED BY <2>1, <2>2
<1>4. ASSUME NEW k \in Neighbors,
             \/ \E s \in NeighborReports :
                  \/ \E ttl \in Timeouts \cup {None} :
                        \/ NeighborInsert(k, NewNeighbor(s, ttl))
                        \/ NeighborUpsert(k, NewNeighbor(s, ttl))
                  \/ NeighborSetState(k, s)
             \/ NeighborRemove(k)
      PROVE  TablesGood'
  <2>1. NeighGood(neigh') BY <1>4, NeighSteps
  <2>2. UNCHANGED <<now, conn, natVars>>
    BY <1>4 DEF NeighborInsert, NeighborUpsert, NeighborSetState, NeighborRemove
  <2> QED BY <2>1, <2>2
<1>5. ASSUME CleanupExpired PROVE TablesGood'
  <2>1. ConnGood(conn') BY <1>5, ConnLiveGood DEF CleanupExpired
  <2>2. NeighGood(neigh') BY <1>5, NeighLiveGood DEF CleanupExpired
  <2>3. NatGood(nat', byOriginal', byTranslated', nextId') BY <1>5, NatSteps DEF CleanupExpired
  <2> QED BY <1>5, <2>1, <2>2, <2>3 DEF CleanupExpired
<1> QED BY <1>1, <1>2, <1>3, <1>4, <1>5 DEF TablesNext

\* A configuration offers capabilities of the Gateway only.
LEMMA ConfigurationCaps == \A c \in Configurations : c.enabled \in BOOLEAN /\ c.caps \subseteq GatewayCaps
<1> SUFFICES ASSUME NEW c \in Configurations PROVE c.enabled \in BOOLEAN /\ c.caps \subseteq GatewayCaps
  OBVIOUS
<1>1. PICK k \in GatewayConfigs \X CapabilitySets :
        c = [enabled |-> PolicyOf(k[1]).enabled, caps |-> Offered(k[1], k[2])]
  BY DEF Configurations
<1>2. k[2] \subseteq GatewayCaps BY CapabilitySetsAssumption
<1>3. Offered(k[1], k[2]) \subseteq GatewayCaps BY <1>2 DEF Offered, GatewayCaps, ForwardingCaps
<1>4. PolicyOf(k[1]).enabled \in BOOLEAN BY DEF PolicyOf
<1> QED BY <1>1, <1>3, <1>4

\* The administrative operations keep the flag and the state machine together.
LEMMA LifeStep ==
    ASSUME LifeGood, LifecycleNext
    PROVE  LifeGood' /\ UNCHANGED <<now, tableVars>>
<1> USE DEF LifeGood, Transition, CanMoveTo, GatewayStates
<1>1. CASE Start BY <1>1 DEF Start, CanStart, MayStart
<1>2. CASE Stop BY <1>2 DEF Stop
<1>3. CASE Degrade BY <1>3 DEF Degrade
<1>4. CASE Fail BY <1>4 DEF Fail
<1>5. CASE \E on \in BOOLEAN : SetPolicy(on) BY <1>5 DEF SetPolicy
<1> QED BY <1>1, <1>2, <1>3, <1>4, <1>5 DEF LifecycleNext

\* Every step of the capability keeps its invariant.
LEMMA CapabilityStep == CapabilityInv /\ [GatewayNext]_gatewayVars => CapabilityInv'
<1> SUFFICES ASSUME CapabilityInv, [GatewayNext]_gatewayVars PROVE CapabilityInv'
  OBVIOUS
<1> USE DEF CapabilityInv
<1>1. CASE TablesNext /\ UNCHANGED lifeVars
  <2>1. TablesGood' BY <1>1, TablesStep
  <2> QED BY <1>1, <2>1 DEF lifeVars, LifeGood
<1>2. CASE RuntimeClear
  BY <1>2, EmptyGood DEF RuntimeClear, ClearState, lifeVars, LifeGood, TablesGood, NatGood
<1>3. CASE LifecycleNext
  <2>1. LifeGood' /\ UNCHANGED <<now, tableVars>> BY <1>3, LifeStep
  <2> QED BY <2>1 DEF tableVars, TablesGood
<1>4. CASE Reconfigure
  <2>1. PICK c \in Configurations : Configure(c.enabled, c.caps) BY <1>4 DEF Reconfigure
  <2>2. c.enabled \in BOOLEAN /\ c.caps \subseteq GatewayCaps BY ConfigurationCaps
  <2>3. TablesGood' BY <2>1, EmptyGood DEF Configure, TablesGood
  <2>4. LifeGood' BY <2>1, <2>2 DEF Configure, LifeGood, GatewayStates
  <2> QED BY <2>3, <2>4
<1>5. CASE UNCHANGED gatewayVars
  BY <1>5 DEF gatewayVars, tableVars, lifeVars, TablesGood, LifeGood
<1> QED BY <1>1, <1>2, <1>3, <1>4, <1>5 DEF GatewayNext

\* CapabilityInv holds in every reachable state.
THEOREM CapabilityInvariant == GatewaySpec => []CapabilityInv
<1>1. GatewayInit => CapabilityInv
  <2> SUFFICES ASSUME GatewayInit PROVE CapabilityInv
    OBVIOUS
  <2>1. /\ now = 0 /\ conn = Empty /\ neigh = Empty
        /\ nat = Empty /\ byOriginal = Empty /\ byTranslated = Empty /\ nextId = 1
    BY DEF GatewayInit, TablesInit
  <2>2. TablesGood BY <2>1, EmptyGood DEF TablesGood
  <2>3. LifeGood BY DEF GatewayInit, LifeGood, GatewayStates
  <2> QED BY <2>2, <2>3 DEF CapabilityInv
<1> QED BY <1>1, CapabilityStep, PTL DEF GatewaySpec

\* What gateway_config accepts and gateway_start refuses, whatever policies the
\* Host passes and whatever backends offer.
LEMMA AcceptedCanStart == ConfiguredCanStart
<1> SUFFICES ASSUME NEW c \in GatewayConfigs, NEW available \in CapabilitySets, ConfigAccepted(c, available)
             PROVE  /\ PolicyOf(c).enabled /\ PolicyOf(c).forwarding.enabled =>
                         StartAccepts(PolicyOf(c), Offered(c, available), "Idle")
                    /\ StartAccepts(PolicyOf(c), Offered(c, available), "Idle") <=>
                         PolicyOf(c).enabled /\ ForwardingCaps \subseteq available
                    /\ PolicyOf(c).forwarding.enabled =>
                          \E i, j \in KnownInterfaces : i # j /\ {i, j} \subseteq Needed(PolicyOf(c))
  BY DEF ConfiguredCanStart
<1> DEFINE q == PolicyOf(c)
<1>1. ValidPolicy(q) /\ Needed(q) \subseteq KnownInterfaces
      /\ (q.forwarding.enabled => ForwardingCaps \subseteq available)
  BY DEF ConfigAccepted, Accepts
<1>2. q.nat.enabled => "nat" \in Offered(c, available) BY DEF Offered
<1>3. ForwardingCaps \subseteq available <=> ForwardingCaps \subseteq Offered(c, available)
  BY DEF Offered, ForwardingCaps
<1>4. q.enabled \in BOOLEAN BY DEF PolicyOf
<1> HIDE DEF q
<1>5. StartAccepts(q, Offered(c, available), "Idle") <=> q.enabled /\ ForwardingCaps \subseteq available
  BY <1>1, <1>2, <1>3, <1>4 DEF StartAccepts, MayStart
<1>6. ASSUME q.forwarding.enabled
      PROVE  \E i, j \in KnownInterfaces : i # j /\ {i, j} \subseteq Needed(q)
  <2>1. q.forwarding.ingress # q.forwarding.egress
    BY <1>1, <1>6 DEF ValidPolicy, ValidForwarding
  <2>2. {q.forwarding.ingress, q.forwarding.egress} \subseteq Needed(q) BY <1>6 DEF Needed
  <2> QED BY <1>1, <2>1, <2>2
<1> QED BY <1>1, <1>5, <1>6 DEF q

\* The capability's types and limits, the two NAT indexes, its two records of
\* being started and what configuring and starting ask of a policy agree at every
\* moment, for every limit of the tables (GatewayCapability, nat.rs, policy.rs).
THEOREM CapabilityConsistent == GatewaySpec => []GatewayInv
<1>1. CapabilityInv => GatewayInv
  <2> SUFFICES ASSUME CapabilityInv PROVE GatewayInv
    OBVIOUS
  <2> USE DEF CapabilityInv, TablesGood, LifeGood
  <2>1. TablesTypeOK BY DEF TablesTypeOK, ConnGood, NatGood, NeighGood
  <2>2. NatIndexesAgree
    BY DEF NatIndexesAgree, NatGood, NatLookupOriginal, NatLookupTranslated
  <2>3. EnabledMatchesState BY DEF EnabledMatchesState
  <2> QED BY <2>1, <2>2, <2>3, AcceptedCanStart DEF GatewayInv, GatewayTypeOK
<1> QED BY <1>1, CapabilityInvariant, PTL

\* An expired connection never keeps a new one out, in any reachable state
\* (ConnectionStateTable::insert).
THEOREM ExpiredMakeRoom == GatewaySpec => []InsertMakesRoom
<1>1. CapabilityInv => InsertMakesRoom
  <2> SUFFICES ASSUME CapabilityInv, NEW k \in ConnKeys, NEW t \in Timeouts \ {0}, ~ConnLookup(k),
                      Cardinality({c \in ConnKeys : ConnLookup(c)}) < MaxConnections
               PROVE  /\ k \in DOMAIN ConnInserted(k, t)
                      /\ \A c \in DOMAIN ConnInserted(k, t) : ~Expired(ConnInserted(k, t)[c])
    BY DEF InsertMakesRoom
  <2>1. ConnGood(conn) /\ now \in Nat BY DEF CapabilityInv, TablesGood
  <2>2. /\ DOMAIN ConnLive = {c \in DOMAIN conn : ~Expired(conn[c])}
        /\ \A c \in DOMAIN ConnLive : ConnLive[c] = conn[c]
    BY <2>1, ConnLiveGood
  <2>3. {c \in ConnKeys : ConnLookup(c)} = DOMAIN ConnLive BY <2>1, <2>2 DEF ConnLookup, ConnGood
  <2>4. ~(Cardinality(DOMAIN ConnLive) >= MaxConnections)
    <3>1. IsFiniteSet(DOMAIN ConnLive) BY <2>1, ConnLiveGood DEF ConnGood
    <3>2. Cardinality(DOMAIN ConnLive) \in Nat BY <3>1, FS_CardinalityType
    <3> QED BY <2>3, <3>2, GatewayTablesAssumption
  <2>5. k \notin DOMAIN ConnLive BY <2>2 DEF ConnLookup
  <2>6. ConnInserted(k, t) = Put(ConnLive, k, NewConnection(t)) BY <2>4, <2>5 DEF ConnInserted
  <2>7. ~Expired(NewConnection(t))
    BY <2>1, GatewayTablesAssumption DEF Expired, Elapsed, NewConnection
  <2> DEFINE f == Put(ConnLive, k, NewConnection(t))
  <2>8. DOMAIN f = DOMAIN ConnLive \cup {k} /\ f[k] = NewConnection(t)
        /\ \A c \in DOMAIN ConnLive : c # k => f[c] = ConnLive[c]
    BY DEF Put
  <2> HIDE DEF f
  <2>9. k \in DOMAIN f /\ \A c \in DOMAIN f : ~Expired(f[c])
    BY <2>2, <2>7, <2>8
  <2> QED BY <2>6, <2>9 DEF f
<1> QED BY <1>1, CapabilityInvariant, PTL

\* A connection's state never moves back, and a closed or failed one stays so,
\* until it is removed or, expired, replaced (can_transition_to, insert).
THEOREM ConnectionsAdvance == GatewaySpec => ConnectionsOnlyAdvance
<1> DEFINE Advances == \A k \in DOMAIN conn \cap DOMAIN conn' :
          \/ conn'[k].state = conn[k].state
          \/ ConnRank(conn[k].state) < ConnRank(conn'[k].state)
          \/ Expired(conn[k]) /\ conn'[k] = NewConnection(conn'[k].timeout)
<1>1. CapabilityInv /\ [GatewayNext]_gatewayVars => [Advances]_conn
  <2> SUFFICES ASSUME CapabilityInv, [GatewayNext]_gatewayVars PROVE [Advances]_conn
    OBVIOUS
  <2>0. ConnGood(conn) BY DEF CapabilityInv, TablesGood
  <2>l. ASSUME conn' = ConnLive PROVE Advances BY <2>0, <2>l, ConnLiveGood
  <2>1. ASSUME NEW k \in ConnKeys, NEW t \in Timeouts, ConnInsert(k, t) PROVE Advances
    <3>1. conn' = ConnInserted(k, t) BY <2>1 DEF ConnInsert
    <3>2. CASE k \in DOMAIN ConnLive \/ Cardinality(DOMAIN ConnLive) >= MaxConnections
      <4>1. conn' = ConnLive BY <3>1, <3>2 DEF ConnInserted
      <4> QED BY <2>l, <4>1
    <3>3. CASE ~(k \in DOMAIN ConnLive \/ Cardinality(DOMAIN ConnLive) >= MaxConnections)
      <4>1. conn' = Put(ConnLive, k, NewConnection(t)) BY <3>1, <3>3 DEF ConnInserted
      <4>2. DOMAIN conn' = DOMAIN ConnLive \cup {k} /\ conn'[k] = NewConnection(t)
            /\ \A c \in DOMAIN ConnLive : c # k => conn'[c] = ConnLive[c]
        BY <4>1 DEF Put
      <4>3. conn'[k].timeout = t BY <4>2 DEF NewConnection
      <4>4. k \in DOMAIN conn => Expired(conn[k]) BY <2>0, <3>3, ConnLiveGood
      <4> QED BY <2>0, <4>2, <4>3, <4>4, ConnLiveGood
    <3> QED BY <3>2, <3>3
  <2>2. ASSUME NEW k \in ConnKeys, NEW s \in ConnStates, ConnTransition(k, s) PROVE Advances
    <3>1. /\ k \in DOMAIN conn /\ s # conn[k].state /\ CanTransition(conn[k].state, s)
          /\ conn' = [conn EXCEPT ![k].state = s, ![k].seen = now]
      BY <2>2 DEF ConnTransition
    <3>2. \A j \in DOMAIN conn : j # k => conn'[j] = conn[j] BY <3>1
    <3>3. conn[k] \in [state : ConnStates, seen : Nat, timeout : Nat \ {0}] BY <2>0, <3>1 DEF ConnGood
    <3>4. conn'[k] = [conn[k] EXCEPT !.state = s, !.seen = now] BY <3>1
    <3>5. conn'[k].state = s BY <3>3, <3>4
    <3>6. ConnRank(conn[k].state) < ConnRank(s) BY <3>1, <3>3 DEF CanTransition, ConnRank, ConnStates
    <3> QED BY <3>2, <3>5, <3>6
  <2>3. ASSUME NEW k \in ConnKeys, ConnRecord(k) PROVE Advances
    <3>1. k \in DOMAIN conn /\ conn' = [conn EXCEPT ![k].seen = now] BY <2>3 DEF ConnRecord
    <3>2. \A j \in DOMAIN conn : j # k => conn'[j] = conn[j] BY <3>1
    <3>3. conn'[k] = [conn[k] EXCEPT !.seen = now] BY <3>1
    <3>4. conn'[k].state = conn[k].state BY <3>3
    <3> QED BY <3>2, <3>4
  <2>4. ASSUME NEW k \in ConnKeys, ConnRemove(k) PROVE Advances
    <3>1. conn' = Without(conn, {k}) BY <2>4 DEF ConnRemove
    <3>2. \A j \in DOMAIN conn' : conn'[j] = conn[j] BY <3>1 DEF Without, Restrict
    <3> QED BY <3>2
  <2>5. ASSUME conn' = Empty PROVE Advances BY <2>5, EmptyTable
  <2>6. CASE TablesNext /\ UNCHANGED lifeVars
    <3>1. \/ UNCHANGED conn
          \/ \E k \in ConnKeys : \/ \E t \in Timeouts : ConnInsert(k, t)
                                 \/ \E s \in ConnStates : ConnTransition(k, s)
                                 \/ ConnRecord(k)
                                 \/ ConnRemove(k)
          \/ conn' = ConnLive
      BY <2>6 DEF TablesNext, Clock, tableVars, NatInsert, NatTouch, NatRemove, NeighborInsert,
                  NeighborUpsert, NeighborSetState, NeighborRemove, CleanupExpired
    <3> QED BY <2>l, <2>1, <2>2, <2>3, <2>4, <3>1
  <2>7. CASE RuntimeClear BY <2>5, <2>7 DEF RuntimeClear, ClearState
  <2>8. CASE LifecycleNext
    BY <2>8 DEF LifecycleNext, Start, Stop, Degrade, Fail, SetPolicy, tableVars
  <2>9. CASE Reconfigure BY <2>5, <2>9 DEF Reconfigure, Configure
  <2>10. CASE UNCHANGED gatewayVars BY <2>10 DEF gatewayVars, tableVars
  <2> QED BY <2>6, <2>7, <2>8, <2>9, <2>10 DEF GatewayNext
<1> QED BY <1>1, CapabilityInvariant, PTL DEF GatewaySpec, ConnectionsOnlyAdvance

\* No live connection, translation or neighbor is lost unless it is removed by
\* name, the Host clears the runtime or gateway_config replaces the capability.
THEOREM NothingLiveDiscarded == GatewaySpec => OnlyHostDiscards
<1> DEFINE Kept == /\ \A k \in DOMAIN ConnLive \ DOMAIN conn' : ConnRemove(k)
                   /\ \A id \in DOMAIN nat \ (NatExpired \cup DOMAIN nat') : NatRemove(id)
                   /\ \A k \in DOMAIN NeighLive \ DOMAIN neigh' : NeighborRemove(k)
<1>1. CapabilityInv /\ [GatewayNext]_gatewayVars => [RuntimeClear \/ Reconfigure \/ Kept]_gatewayVars
  <2> SUFFICES ASSUME CapabilityInv, GatewayNext PROVE RuntimeClear \/ Reconfigure \/ Kept
    OBVIOUS
  <2>0. /\ DOMAIN ConnLive \subseteq DOMAIN conn /\ DOMAIN NeighLive \subseteq DOMAIN neigh
    BY ConnLiveGood, NeighLiveGood DEF CapabilityInv, TablesGood
  <2>n. DOMAIN NatRemoved(NatExpired).nat = DOMAIN nat \ NatExpired
    BY WithoutEntries DEF NatRemoved
  <2>u. ASSUME DOMAIN ConnLive \subseteq DOMAIN conn', DOMAIN nat \subseteq NatExpired \cup DOMAIN nat',
               DOMAIN NeighLive \subseteq DOMAIN neigh'
        PROVE  Kept
    BY <2>u
  <2>1. ASSUME NEW k \in ConnKeys, NEW t \in Timeouts, ConnInsert(k, t) PROVE Kept
    <3>1. conn' = ConnInserted(k, t) /\ UNCHANGED <<nat, neigh>> BY <2>1 DEF ConnInsert, natVars
    <3>2. DOMAIN ConnLive \subseteq DOMAIN ConnInserted(k, t)
      <4>1. DOMAIN Put(ConnLive, k, NewConnection(t)) = DOMAIN ConnLive \cup {k} BY DEF Put
      <4>2. ConnInserted(k, t) = ConnLive \/ ConnInserted(k, t) = Put(ConnLive, k, NewConnection(t))
        BY DEF ConnInserted
      <4> QED BY <4>1, <4>2
    <3> QED BY <2>0, <2>u, <3>1, <3>2
  <2>2. ASSUME NEW k \in ConnKeys, ConnRemove(k) PROVE Kept
    <3>1. DOMAIN conn' = DOMAIN conn \ {k} /\ UNCHANGED <<nat, neigh>>
      BY <2>2, WithoutEntries DEF ConnRemove, natVars
    <3>2. \A j \in DOMAIN ConnLive \ DOMAIN conn' : j = k BY <2>0, <3>1
    <3> QED BY <2>0, <2>2, <3>1, <3>2
  <2>3. ASSUME NEW o \in Originals, NEW x \in Translations, NEW t \in Timeouts, NatInsert(o, x, t) PROVE Kept
    <3>1. UNCHANGED <<conn, neigh>> BY <2>3 DEF NatInsert
    <3>2. nat' = NatRemoved(NatExpired).nat
          \/ \E e : nat' = Put(NatRemoved(NatExpired).nat, nextId, e)
      BY <2>3 DEF NatInsert, SetNat
    <3>3. DOMAIN nat \ NatExpired \subseteq DOMAIN nat'
      <4>1. CASE nat' = NatRemoved(NatExpired).nat BY <2>n, <4>1
      <4>2. ASSUME NEW e, nat' = Put(NatRemoved(NatExpired).nat, nextId, e)
            PROVE  DOMAIN nat \ NatExpired \subseteq DOMAIN nat'
        <5>1. DOMAIN nat' = DOMAIN NatRemoved(NatExpired).nat \cup {nextId} BY <4>2 DEF Put
        <5> QED BY <2>n, <5>1
      <4> QED BY <3>2, <4>1, <4>2
    <3> QED BY <2>0, <2>u, <3>1, <3>3
  <2>4. ASSUME NEW id \in 1 .. MaxNatId, NatRemove(id) PROVE Kept
    <3>1. DOMAIN nat' = DOMAIN nat \ {id} /\ UNCHANGED <<conn, neigh>>
      BY <2>4, WithoutEntries DEF NatRemove, SetNat, NatRemoved
    <3>2. \A j \in DOMAIN nat \ (NatExpired \cup DOMAIN nat') : j = id BY <3>1
    <3> QED BY <2>0, <2>4, <3>1, <3>2
  <2>5. ASSUME NEW k \in Neighbors, NEW e, NeighborInsert(k, e) \/ NeighborUpsert(k, e) PROVE Kept
    <3>1. UNCHANGED <<conn, nat>> BY <2>5 DEF NeighborInsert, NeighborUpsert, natVars
    <3>2. DOMAIN NeighLive \subseteq DOMAIN neigh'
      <4>1. DOMAIN Put(NeighLive, k, e) = DOMAIN NeighLive \cup {k} BY DEF Put
      <4>2. neigh' = NeighLive \/ neigh' = Put(NeighLive, k, e)
        BY <2>5 DEF NeighborInsert, NeighborUpsert
      <4> QED BY <4>1, <4>2
    <3> QED BY <2>0, <2>u, <3>1, <3>2
  <2>6. ASSUME NEW k \in Neighbors, NeighborRemove(k) PROVE Kept
    <3>1. DOMAIN neigh' = DOMAIN neigh \ {k} /\ UNCHANGED <<conn, nat>>
      BY <2>6, WithoutEntries DEF NeighborRemove, natVars
    <3>2. \A j \in DOMAIN NeighLive \ DOMAIN neigh' : j = k BY <2>0, <3>1
    <3> QED BY <2>0, <2>6, <3>1, <3>2
  <2>7. ASSUME CleanupExpired PROVE Kept
    <3>1. conn' = ConnLive /\ neigh' = NeighLive /\ nat' = NatRemoved(NatExpired).nat
      BY <2>7 DEF CleanupExpired, SetNat
    <3> QED BY <2>n, <2>u, <3>1
  <2>8. ASSUME DOMAIN conn' = DOMAIN conn, DOMAIN nat' = DOMAIN nat, DOMAIN neigh' = DOMAIN neigh PROVE Kept
    BY <2>0, <2>u, <2>8
  <2>9. ASSUME NEW k \in ConnKeys, NEW s, ConnTransition(k, s) \/ ConnRecord(k) PROVE Kept
    BY <2>8, <2>9 DEF ConnTransition, ConnRecord, natVars
  <2>10. ASSUME NEW id, NatTouch(id) PROVE Kept BY <2>8, <2>10 DEF NatTouch
  <2>11. ASSUME NEW k, NEW s, NeighborSetState(k, s) PROVE Kept BY <2>8, <2>11 DEF NeighborSetState, natVars
  <2>12. ASSUME NEW t, Clock(t) PROVE Kept BY <2>8, <2>12 DEF Clock, tableVars
  <2>13. ASSUME LifecycleNext PROVE Kept
    BY <2>8, <2>13 DEF LifecycleNext, Start, Stop, Degrade, Fail, SetPolicy, tableVars
  <2>14. ASSUME TablesNext PROVE Kept
    BY <2>1, <2>2, <2>3, <2>4, <2>5, <2>6, <2>7, <2>9, <2>10, <2>11, <2>12, <2>14 DEF TablesNext
  <2> QED BY <2>13, <2>14 DEF GatewayNext
<1> QED BY <1>1, CapabilityInvariant, PTL DEF GatewaySpec, OnlyHostDiscards

-----------------------------------------------------------------------------
(* The backend's refresh.                                                  *)

\* The queries whose result stands: all nine after a complete refresh, none
\* when a refresh failed.
Stage == IF at = 0 THEN IF fresh THEN 10 ELSE 1 ELSE at

\* The routes are those of the system, of the families F.
RoutesExact(F) ==
    /\ \A r \in ToSet(routes) : r \in ToSet(osRoutes) /\ r.ifc # 0 /\ r.fam \in F
    /\ \A r \in ToSet(osRoutes) :
          r.ifc # 0 /\ r.fam \in F => \E s \in ToSet(routes) : SameRoute(r, s)

UsableNeighbors == {n \in osNeighs : n.ifc # 0}
NeighborRows(fam) == {n \in osNeighs : n.fam = fam /\ n.ifc # 0}

\* Half way through the neighbors, those of the first family are the system's.
FirstNeighbors ==
    /\ NeighborRows(4) \subseteq neighs
    /\ seen = {NeighborKeyOf(n) : n \in NeighborRows(4)}
    /\ \A m \in neighs : NeighborKeyOf(m) \in seen => m \in NeighborRows(4)

\* The connections met so far, of the tables T.
ConnsMet(T) == {c \in osConns : c.paired /\ c.table \in T}
FirstConnections(T) == seen = ConnsMet(T) /\ seen \subseteq conns

\* While the system stands still, each query leaves its part of the tables exact.
RefreshGood ==
    quiet =>
        /\ Stage > 1 => ifs = osIfs
        /\ Stage = 3 => RoutesExact({4})
        /\ Stage > 3 => RoutesExact({4, 6})
        /\ Stage = 5 => FirstNeighbors
        /\ Stage > 5 => neighs = UsableNeighbors
        /\ Stage = 7 => FirstConnections({"tcp4"})
        /\ Stage = 8 => FirstConnections({"tcp4", "tcp6"})
        /\ Stage = 9 => FirstConnections({"tcp4", "tcp6", "udp4"})
        /\ Stage = 10 => conns = {c \in osConns : c.paired}

\* The backend keeps one route a way, the system lists an address of an interface
\* once, and no refresh is complete while one is running.
HelperGood ==
    /\ HelperTypeOK
    /\ routes \in Seq(OsRoutes) /\ osRoutes \in Seq(OsRoutes)
    /\ \A k, l \in DOMAIN routes : SameRoute(routes[k], routes[l]) => k = l
    /\ \A m, n \in osNeighs : SameNeighbor(m, n) => m = n
    /\ at # 0 => ~fresh

HelperInv == HelperGood /\ RefreshGood

-----------------------------------------------------------------------------
(* The route table: what RouteTable::insert, row after row, makes of it.   *)

\* new holds the rows old and R, one of those that go the same way.
Merged(new, old, R) ==
    /\ new \in Seq(OsRoutes)
    /\ \A k \in DOMAIN new : new[k] \in R \/ \E j \in DOMAIN old : new[k] = old[j]
    /\ \A j \in DOMAIN old : \E k \in DOMAIN new : SameRoute(old[j], new[k])
    /\ \A r \in R : \E k \in DOMAIN new : SameRoute(r, new[k])
    /\ \A k, l \in DOMAIN new : SameRoute(new[k], new[l]) => k = l

LEMMA OneInserted ==
    ASSUME NEW t \in Seq(OsRoutes), NEW r \in OsRoutes,
           \A k, l \in DOMAIN t : SameRoute(t[k], t[l]) => k = l
    PROVE  Merged(RouteInsert(t, r), t, {r})
<1> DEFINE u == RouteInsert(t, r)
<1>0. SameRoute(r, r) /\ \A k \in DOMAIN t : SameRoute(t[k], t[k]) BY DEF SameRoute
<1>1. CASE \E k \in DOMAIN t : SameRoute(t[k], r)
  <2>1. u = [k \in DOMAIN t |-> IF SameRoute(t[k], r) THEN r ELSE t[k]] BY <1>1 DEF RouteInsert
  <2>2. DOMAIN t = 1 .. Len(t) /\ Len(t) \in Nat OBVIOUS
  <2>3. DOMAIN u = DOMAIN t
        /\ \A k \in DOMAIN t : u[k] = IF SameRoute(t[k], r) THEN r ELSE t[k]
    BY <2>1
  <2>4. \A k \in DOMAIN t : u[k] \in OsRoutes BY <2>3
  <2>5. u \in Seq(OsRoutes) BY <2>1, <2>2, <2>4
  <2> HIDE DEF u
  <2>6. \A k \in DOMAIN t : SameRoute(t[k], u[k]) BY <1>0, <2>3
  <2>7. \E k \in DOMAIN t : u[k] = r BY <1>1, <2>3
  <2>8. \A k, l \in DOMAIN t : SameRoute(u[k], u[l]) => k = l
    <3> SUFFICES ASSUME NEW k \in DOMAIN t, NEW l \in DOMAIN t, SameRoute(u[k], u[l]) PROVE k = l OBVIOUS
    <3>1. SameRoute(t[k], t[l]) BY <2>6 DEF SameRoute
    <3> QED BY <3>1
  <2>9. Merged(u, t, {r}) BY <1>0, <2>3, <2>5, <2>6, <2>7, <2>8 DEF Merged
  <2> QED BY <2>9 DEF u
<1>2. CASE ~\E k \in DOMAIN t : SameRoute(t[k], r)
  <2>1. u = Append(t, r) BY <1>2 DEF RouteInsert
  <2>2. u \in Seq(OsRoutes) /\ DOMAIN t = 1 .. Len(t) /\ DOMAIN u = 1 .. Len(t) + 1 /\ Len(t) \in Nat
        /\ u[Len(t) + 1] = r /\ \A k \in DOMAIN t : u[k] = t[k]
    BY <2>1
  <2> HIDE DEF u
  <2>3. \A k \in DOMAIN u : k \in DOMAIN t \/ k = Len(t) + 1 BY <2>2
  <2>4. \A k \in DOMAIN t : k \in DOMAIN u /\ Len(t) + 1 \in DOMAIN u BY <2>2
  <2>5. Len(t) + 1 \in DOMAIN u BY <2>2
  <2>6. \A k, l \in DOMAIN u : SameRoute(u[k], u[l]) => k = l
    <3> SUFFICES ASSUME NEW k \in DOMAIN u, NEW l \in DOMAIN u, SameRoute(u[k], u[l]) PROVE k = l OBVIOUS
    <3>1. CASE k \in DOMAIN t /\ l \in DOMAIN t BY <2>2, <3>1
    <3>2. CASE k \in DOMAIN t /\ l = Len(t) + 1 BY <1>2, <2>2, <3>2
    <3>3. CASE k = Len(t) + 1 /\ l \in DOMAIN t
      <4>1. SameRoute(t[l], r) BY <2>2, <3>3 DEF SameRoute
      <4> QED BY <1>2, <3>3, <4>1
    <3>4. CASE k = Len(t) + 1 /\ l = Len(t) + 1 BY <3>4
    <3> QED BY <2>3, <3>1, <3>2, <3>3, <3>4
  <2>7. Merged(u, t, {r}) BY <1>0, <2>2, <2>3, <2>4, <2>5, <2>6 DEF Merged
  <2> QED BY <2>7 DEF u
<1> QED BY <1>1, <1>2

LEMMA AllInserted ==
    ASSUME NEW t \in Seq(OsRoutes), NEW rows \in Seq(OsRoutes),
           \A k, l \in DOMAIN t : SameRoute(t[k], t[l]) => k = l
    PROVE  Merged(Inserted(t, rows), t, ToSet(rows))
<1> DEFINE n == Len(rows)
           X == {u \in Seq(OsRoutes) : \A k, l \in DOMAIN u : SameRoute(u[k], u[l]) => k = l}
           step == [p \in (1 .. n) \X X |-> RouteInsert(p[2], rows[p[1]])]
<1>1. n \in Nat /\ DOMAIN rows = 1 .. n /\ \A k \in 1 .. n : rows[k] \in OsRoutes OBVIOUS
<1>2. t \in X OBVIOUS
<1>3. \A k \in 1 .. n, u \in X : RouteInsert(u, rows[k]) \in X
  <2> TAKE k \in 1 .. n, u \in X
  <2>1. Merged(RouteInsert(u, rows[k]), u, {rows[k]}) BY <1>1, OneInserted
  <2> QED BY <2>1 DEF Merged
<1> HIDE DEF X
<1>4. step \in [(1 .. n) \X X -> X]
  <2>1. \A p \in (1 .. n) \X X : step[p] \in X BY <1>3
  <2> QED BY <2>1
<1>5. PICK f \in [0 .. n -> X] : f[0] = t /\ \A k \in 1 .. n : f[k] = step[<<k, f[k - 1]>>]
  <2>1. n \in Nat BY <1>1
  <2> HIDE DEF step, n
  <2>2. \E f : Computation(f, X, n, t, step) BY <1>2, <1>4, <2>1, StepsExist
  <2> QED BY <2>2 DEF Computation
<1> DEFINE F(g) == [k \in 0 .. n |-> IF k = 0 THEN t ELSE RouteInsert(g[k - 1], rows[k])]
           up == CHOOSE g : g = F(g)
<1>6. \A k \in 1 .. n : f[k] = RouteInsert(f[k - 1], rows[k])
  <2> TAKE k \in 1 .. n
  <2>1. k - 1 \in 0 .. n BY <1>1
  <2>2. f[k - 1] \in X BY <1>5, <2>1
  <2>3. <<k, f[k - 1]>> \in (1 .. n) \X X BY <2>2
  <2> QED BY <1>5, <2>3
<1>7. f = F(f)
  <2>1. \A k \in 0 .. n : f[k] = IF k = 0 THEN t ELSE RouteInsert(f[k - 1], rows[k])
    BY <1>1, <1>5, <1>6
  <2>2. f = [k \in 0 .. n |-> f[k]] BY <1>5
  <2> QED BY <2>1, <2>2
<1>8. up = F(up) BY <1>7
<1>9. Inserted(t, rows) = up[n] BY DEF Inserted
<1>10. up[0] = t /\ \A k \in 1 .. n : up[k] = RouteInsert(up[k - 1], rows[k])
  <2>1. \A k \in 0 .. n : up[k] = F(up)[k] BY <1>8
  <2> HIDE DEF up
  <2> QED BY <1>1, <2>1
<1> HIDE DEF up
<1> DEFINE R(k) == {rows[j] : j \in 1 .. k}
           S == {k \in 0 .. n : Merged(up[k], t, R(k))}
<1>11. 0 \in S
  <2>1. R(0) = {} OBVIOUS
  <2>2. \A k \in DOMAIN t : SameRoute(t[k], t[k]) BY DEF SameRoute
  <2>3. Merged(t, t, {}) BY <2>2 DEF Merged
  <2>4. Merged(up[0], t, R(0)) BY <1>10, <2>1, <2>3
  <2>5. 0 \in 0 .. n BY <1>1
  <2> HIDE DEF R
  <2> QED BY <2>4, <2>5
<1>12. ASSUME NEW k \in 1 .. n, k - 1 \in S PROVE k \in S
  <2> DEFINE a == up[k - 1]
             b == up[k]
             A == R(k - 1)
             r == rows[k]
  <2>1. Merged(a, t, A) BY <1>12
  <2>2. Merged(b, a, {r})
    <3>1. b = RouteInsert(a, r) /\ r \in OsRoutes BY <1>1, <1>10
    <3>2. a \in Seq(OsRoutes) /\ \A i, j \in DOMAIN a : SameRoute(a[i], a[j]) => i = j BY <2>1 DEF Merged
    <3> QED BY <3>1, <3>2, OneInserted
  <2>3. R(k) = A \cup {r}
    <3>1. k \in Nat OBVIOUS
    <3>2. \A j \in 1 .. k : j \in 1 .. k - 1 \/ j = k BY <3>1
    <3>3. \A j \in 1 .. k - 1 : j \in 1 .. k BY <3>1
    <3>4. k \in 1 .. k BY <3>1
    <3> QED BY <3>2, <3>3, <3>4
  <2> HIDE DEF a, b, A, r, R
  <2>4. \A i \in DOMAIN b : b[i] \in A \cup {r} \/ \E j \in DOMAIN t : b[i] = t[j] BY <2>1, <2>2 DEF Merged
  <2>5. \A j \in DOMAIN t : \E i \in DOMAIN b : SameRoute(t[j], b[i])
    <3> TAKE j \in DOMAIN t
    <3>1. PICK i \in DOMAIN a : SameRoute(t[j], a[i]) BY <2>1 DEF Merged
    <3>2. PICK l \in DOMAIN b : SameRoute(a[i], b[l]) BY <2>2 DEF Merged
    <3> QED BY <3>1, <3>2 DEF SameRoute
  <2>6. \A x \in A \cup {r} : \E i \in DOMAIN b : SameRoute(x, b[i])
    <3> TAKE x \in A \cup {r}
    <3>1. CASE x = r BY <2>2, <3>1 DEF Merged
    <3>2. CASE x \in A
      <4>1. PICK i \in DOMAIN a : SameRoute(x, a[i]) BY <2>1, <3>2 DEF Merged
      <4>2. PICK l \in DOMAIN b : SameRoute(a[i], b[l]) BY <2>2 DEF Merged
      <4> QED BY <4>1, <4>2 DEF SameRoute
    <3> QED BY <3>1, <3>2
  <2>7. Merged(b, t, A \cup {r}) BY <2>2, <2>4, <2>5, <2>6 DEF Merged
  <2>8. Merged(up[k], t, R(k)) BY <2>3, <2>7 DEF b
  <2>9. k \in 0 .. n BY <1>1
  <2> QED BY <2>8, <2>9
<1> HIDE DEF S
<1>13. n \in S
  <2> HIDE DEF n
  <2>1. 0 .. n \subseteq S BY <1>1, <1>11, <1>12, UpTo
  <2>2. n \in 0 .. n BY <1>1
  <2> QED BY <2>1, <2>2
<1>14. R(n) = ToSet(rows) BY <1>1 DEF ToSet
<1> HIDE DEF R
<1> QED BY <1>9, <1>13, <1>14 DEF S
-----------------------------------------------------------------------------
(* The steps of the backend.                                               *)

\* The rows a query takes are rows the system lists.
LEMMA RouteRowsFacts ==
    ASSUME osRoutes \in Seq(OsRoutes), NEW fam
    PROVE  /\ RouteRows(fam) \in Seq(OsRoutes)
           /\ ToSet(RouteRows(fam)) = {r \in ToSet(osRoutes) : r.fam = fam /\ r.ifc # 0}
<1> DEFINE I == {k \in DOMAIN osRoutes : osRoutes[k].fam = fam /\ osRoutes[k].ifc # 0}
           p == Picked(osRoutes, I)
<1>1. I \in SUBSET DOMAIN osRoutes /\ RouteRows(fam) = p BY DEF RouteRows
<1>2. \A i \in DOMAIN osRoutes : i \in I <=> osRoutes[i].fam = fam /\ osRoutes[i].ifc # 0 OBVIOUS
<1> HIDE DEF I
<1>3. /\ p \in Seq(OsRoutes)
      /\ \A k \in DOMAIN p : \E i \in I : p[k] = osRoutes[i]
      /\ \A i \in I : \E k \in DOMAIN p : p[k] = osRoutes[i]
  BY <1>1, PickedElements
<1> HIDE DEF p
<1>4. \A r \in ToSet(p) : r \in ToSet(osRoutes) /\ r.fam = fam /\ r.ifc # 0 BY <1>1, <1>2, <1>3 DEF ToSet
<1>5. \A r \in ToSet(osRoutes) : r.fam = fam /\ r.ifc # 0 => r \in ToSet(p) BY <1>2, <1>3 DEF ToSet
<1> QED BY <1>1, <1>3, <1>4, <1>5

\* A query of the routes leaves the rows of its family beside the ones before it.
LEMMA FetchRoutesFacts ==
    ASSUME HelperGood, NEW fam, FetchRoutes(fam)
    PROVE  Merged(routes', RouteBase(fam), {r \in ToSet(osRoutes) : r.fam = fam /\ r.ifc # 0})
<1>1. /\ RouteBase(fam) \in Seq(OsRoutes)
      /\ \A k, l \in DOMAIN RouteBase(fam) : SameRoute(RouteBase(fam)[k], RouteBase(fam)[l]) => k = l
  BY DEF RouteBase, HelperGood
<1>2. RouteRows(fam) \in Seq(OsRoutes) BY RouteRowsFacts DEF HelperGood
<1>3. Merged(Inserted(RouteBase(fam), RouteRows(fam)), RouteBase(fam), ToSet(RouteRows(fam)))
  BY <1>1, <1>2, AllInserted
<1>4. ToSet(RouteRows(fam)) = {r \in ToSet(osRoutes) : r.fam = fam /\ r.ifc # 0} BY RouteRowsFacts DEF HelperGood
<1>5. routes' = Inserted(RouteBase(fam), RouteRows(fam)) BY DEF FetchRoutes
<1> QED BY <1>3, <1>4, <1>5
\* The backend has nothing in its tables.
LEMMA NothingKept ==
    ASSUME SetTables(NoTables)
    PROVE  ifs' = [i \in Interfaces |-> Absent] /\ routes' = <<>> /\ neighs' = {} /\ conns' = {}
  BY DEF SetTables, NoTables

LEMMA QueryIs ==
    ASSUME at \in 1 .. 9, Fetch(Queries[at])
    PROVE  \/ at = 1 /\ FetchInterfaces
           \/ at = 2 /\ FetchRoutes(4)
           \/ at = 3 /\ FetchRoutes(6)
           \/ at = 4 /\ FetchNeighbors(4)
           \/ at = 5 /\ FetchNeighbors(6)
           \/ at = 6 /\ FetchConnections("tcp4")
           \/ at = 7 /\ FetchConnections("tcp6")
           \/ at = 8 /\ FetchConnections("udp4")
           \/ at = 9 /\ FetchConnections("udp6")
<1>1. at = 1 \/ at = 2 \/ at = 3 \/ at = 4 \/ at = 5 \/ at = 6 \/ at = 7 \/ at = 8 \/ at = 9 OBVIOUS
<1> QED BY <1>1 DEF Fetch, Queries

\* HelperGood, of the tables alone.
TablesFit ==
    /\ ifs \in [Interfaces -> OperStates \cup {Absent}]
    /\ routes \in Seq(OsRoutes)
    /\ \A k, l \in DOMAIN routes : SameRoute(routes[k], routes[l]) => k = l
    /\ neighs \subseteq OsNeighbors
    /\ conns \subseteq OsConnections

SystemFits ==
    /\ osIfs \in [Interfaces -> OperStates \cup {Absent}]
    /\ osRoutes \in Seq(OsRoutes)
    /\ osNeighs \subseteq OsNeighbors
    /\ \A m, n \in osNeighs : SameNeighbor(m, n) => m = n
    /\ osConns \subseteq OsConnections

LEMMA HelperParts ==
    HelperGood <=> /\ TablesFit /\ SystemFits
                   /\ at \in 0 .. 9 /\ (at # 0 => running) /\ (at # 0 => ~fresh)
                   /\ running \in BOOLEAN /\ quiet \in BOOLEAN /\ fresh \in BOOLEAN
<1>1. ASSUME NEW s \in Seq(OsRoutes) PROVE ToSet(s) \subseteq OsRoutes BY DEF ToSet
<1>2. Len(Queries) = 9 BY DEF Queries
<1> QED BY <1>1, <1>2 DEF HelperGood, HelperTypeOK, TablesFit, SystemFits

LEMMA SystemStep == ASSUME SystemFits, OsChange PROVE SystemFits'
<1>1. ASSUME NEW i \in Interfaces, NEW s \in {"Up", "Down", Absent},
             osIfs' = [osIfs EXCEPT ![i] = s] /\ UNCHANGED <<osRoutes, osNeighs, osConns>>
      PROVE  SystemFits'
  BY <1>1 DEF SystemFits, OperStates
<1>2. ASSUME NEW r \in OsRoutes \ ToSet(osRoutes),
             osRoutes' = Append(osRoutes, r) /\ UNCHANGED <<osIfs, osNeighs, osConns>>
      PROVE  SystemFits'
  BY <1>2 DEF SystemFits
<1>3. ASSUME NEW r, osRoutes' = Picked(osRoutes, {k \in DOMAIN osRoutes : osRoutes[k] # r}),
             UNCHANGED <<osIfs, osNeighs, osConns>>
      PROVE  SystemFits'
  <2> DEFINE I == {k \in DOMAIN osRoutes : osRoutes[k] # r}
  <2>1. I \in SUBSET DOMAIN osRoutes /\ osRoutes' = Picked(osRoutes, I) BY <1>3
  <2> HIDE DEF I
  <2>2. osRoutes' \in Seq(OsRoutes) BY <2>1, PickedElements DEF SystemFits
  <2> QED BY <1>3, <2>2 DEF SystemFits
<1>4. ASSUME NEW n \in OsNeighbors, osNeighs' = {m \in osNeighs : ~SameNeighbor(m, n)} \cup {n},
             UNCHANGED <<osIfs, osRoutes, osConns>>
      PROVE  SystemFits'
  <2>1. osNeighs' \subseteq OsNeighbors BY <1>4 DEF SystemFits
  <2>2. \A m, k \in osNeighs' : SameNeighbor(m, k) => m = k
    <3>1. \A m \in osNeighs' : m = n \/ (m \in osNeighs /\ ~SameNeighbor(m, n)) BY <1>4 DEF SameNeighbor
    <3>2. \A m : SameNeighbor(n, m) => SameNeighbor(m, n) BY DEF SameNeighbor
    <3> QED BY <3>1, <3>2 DEF SystemFits
  <2> QED BY <1>4, <2>1, <2>2 DEF SystemFits
<1>5. ASSUME NEW n \in OsNeighbors, osNeighs' = osNeighs \ {n}, UNCHANGED <<osIfs, osRoutes, osConns>>
      PROVE  SystemFits'
  BY <1>5 DEF SystemFits
<1>6. ASSUME NEW c \in OsConnections, UNCHANGED <<osIfs, osRoutes, osNeighs>>,
             osConns' = IF c \in osConns THEN osConns \ {c} ELSE osConns \cup {c}
      PROVE  SystemFits'
  BY <1>6 DEF SystemFits
<1> QED BY <1>1, <1>2, <1>3, <1>4, <1>5, <1>6 DEF OsChange

LEMMA SystemStill == ASSUME SystemFits, UNCHANGED osVars PROVE SystemFits' BY DEF SystemFits, osVars

\* A query, one that fails too, leaves tables that fit.
LEMMA FetchFits ==
    ASSUME HelperGood, at # 0, Fetch(Queries[at]) PROVE TablesFit'
<1>1. TablesFit /\ SystemFits /\ at \in 1 .. 9 BY HelperParts
<1>2. CASE FetchInterfaces BY <1>1, <1>2 DEF FetchInterfaces, TablesFit, SystemFits
<1>3. ASSUME NEW fam, FetchRoutes(fam) PROVE TablesFit'
  <2>1. /\ routes' \in Seq(OsRoutes)
        /\ \A k, l \in DOMAIN routes' : SameRoute(routes'[k], routes'[l]) => k = l
    BY <1>3, FetchRoutesFacts DEF Merged
  <2> QED BY <1>1, <1>3, <2>1 DEF FetchRoutes, TablesFit
<1>4. ASSUME NEW fam, FetchNeighbors(fam) PROVE TablesFit'
  <2>1. neighs' \subseteq OsNeighbors BY <1>1, <1>4 DEF FetchNeighbors, NeighborRetain, TablesFit, SystemFits
  <2> QED BY <1>1, <1>4, <2>1 DEF FetchNeighbors, TablesFit
<1>5. ASSUME NEW q, FetchConnections(q) PROVE TablesFit'
  <2>1. conns' \subseteq OsConnections BY <1>1, <1>5 DEF FetchConnections, ConnRows, TablesFit, SystemFits
  <2> QED BY <1>1, <1>5, <2>1 DEF FetchConnections, TablesFit
<1> QED BY <1>1, <1>2, <1>3, <1>4, <1>5, QueryIs

LEMMA FailedFits ==
    ASSUME HelperGood, NEW q, FetchFailed(q) PROVE TablesFit'
<1>1. TablesFit /\ SystemFits BY HelperParts
<1>2. routes' = <<>> \/ routes' = routes BY DEF FetchFailed, RouteBase
<1>3. conns' \subseteq OsConnections
  <2>1. CASE conns' = conns BY <1>1, <2>1 DEF TablesFit
  <2>2. ASSUME NEW S \in SUBSET ConnRows(q), conns' = conns \cup (S \ ConnRefused(q))
        PROVE  conns' \subseteq OsConnections
    <3>1. S \subseteq OsConnections BY <1>1 DEF ConnRows, SystemFits
    <3> QED BY <1>1, <2>2, <3>1 DEF TablesFit
  <2> QED BY <2>1, <2>2 DEF FetchFailed
<1>4. ifs' = ifs /\ neighs' = neighs BY DEF FetchFailed
<1>5. routes' \in Seq(OsRoutes)
  <2>1. <<>> \in Seq(OsRoutes) /\ routes \in Seq(OsRoutes) BY <1>1 DEF TablesFit
  <2> QED BY <1>2, <2>1
<1>6. \A k, l \in DOMAIN routes' : SameRoute(routes'[k], routes'[l]) => k = l BY <1>1, <1>2 DEF TablesFit
<1> QED BY <1>1, <1>3, <1>4, <1>5, <1>6 DEF TablesFit

LEMMA EmptyFits == ASSUME SetTables(NoTables) PROVE TablesFit'
  BY NothingKept DEF TablesFit

\* What StateNext does to the backend.
HelperNext ==
    \/ OsChange \/ HelperStart \/ HelperStop \/ Query \/ QueryFails \/ ClearTables
    \/ InitializeFails \/ Dispose
    \/ UNCHANGED helperVars

LEMMA StateNextIs == ASSUME StateNext PROVE HelperNext
  BY DEF StateNext, HelperNext, Initialize, RefreshStep, Synchronize, BackendRestart, BackendStop,
         RefreshFails, BackendClear

LEMMA HelperStep == HelperGood /\ HelperNext => HelperGood'
<1> SUFFICES ASSUME HelperGood, HelperNext PROVE HelperGood' OBVIOUS
<1> DEFINE Rest == /\ at \in 0 .. 9 /\ (at # 0 => running) /\ (at # 0 => ~fresh)
                   /\ running \in BOOLEAN /\ quiet \in BOOLEAN /\ fresh \in BOOLEAN
<1>0. TablesFit /\ SystemFits /\ Rest BY HelperParts
<1>p. TablesFit' /\ SystemFits' /\ Rest' => HelperGood' BY HelperParts, PTL
<1>t. UNCHANGED helperTables => TablesFit' BY <1>0 DEF TablesFit, helperTables
<1>1. CASE OsChange
  <2>1. SystemFits' BY <1>0, <1>1, SystemStep
  <2>2. Rest' BY <1>0, <1>1 DEF OsChange
  <2> QED BY <1>1, <1>p, <1>t, <2>1, <2>2 DEF OsChange
<1>2. CASE HelperStart \/ HelperStop
  <2>1. Rest'
    <3>1. CASE HelperStart
      <4>1. at' = 1 /\ running' = TRUE /\ quiet' = TRUE /\ fresh' = FALSE BY <3>1 DEF HelperStart
      <4>2. at' \in 0 .. 9 BY <4>1
      <4> QED BY <4>1, <4>2
    <3>2. CASE HelperStop
      <4>1. UNCHANGED at /\ UNCHANGED quiet /\ UNCHANGED fresh /\ running' = FALSE /\ at = 0 BY <3>2 DEF HelperStop
      <4> QED BY <1>0, <4>1
    <3> QED BY <1>2, <3>1, <3>2
  <2>2. UNCHANGED osVars /\ UNCHANGED helperTables BY <1>2 DEF HelperStart, HelperStop
  <2> QED BY <1>0, <1>p, <1>t, <2>1, <2>2, SystemStill
<1>3. CASE Query
  <2>1. TablesFit' /\ UNCHANGED osVars BY <1>3, FetchFits DEF Query
  <2>2. Len(Queries) = 9 BY DEF Queries
  <2>3. Rest' BY <1>0, <1>3, <2>2 DEF Query
  <2> QED BY <1>0, <1>p, <2>1, <2>3, SystemStill
<1>4. CASE QueryFails
  <2>1. TablesFit' /\ UNCHANGED osVars BY <1>4, FailedFits DEF QueryFails
  <2>2. at' = 0 /\ running' = FALSE /\ quiet' = quiet /\ fresh' = fresh BY <1>4 DEF QueryFails
  <2>4. at' \in 0 .. 9 BY <2>2
  <2>3. Rest' BY <1>0, <2>2, <2>4
  <2> QED BY <1>0, <1>p, <2>1, <2>3, SystemStill
<1>5. CASE ClearTables \/ InitializeFails \/ Dispose
  <2>1. TablesFit' /\ UNCHANGED osVars BY <1>5, EmptyFits DEF ClearTables, InitializeFails, Dispose
  <2>2. /\ at' = 0 /\ quiet' = quiet
        /\ running' = running \/ running' = FALSE
        /\ fresh' = fresh \/ fresh' = FALSE
    BY <1>5 DEF ClearTables, InitializeFails, Dispose
  <2>4. at' \in 0 .. 9 BY <2>2
  <2>3. Rest' BY <1>0, <2>2, <2>4
  <2> QED BY <1>0, <1>p, <2>1, <2>3, SystemStill
<1>6. CASE UNCHANGED helperVars
  <2>1. UNCHANGED helperTables /\ UNCHANGED osVars BY <1>6 DEF helperVars
  <2>2. Rest' BY <1>0, <1>6 DEF helperVars
  <2> QED BY <1>0, <1>p, <1>t, <2>1, <2>2, SystemStill
<1> QED BY <1>1, <1>2, <1>3, <1>4, <1>5, <1>6 DEF HelperNext
-----------------------------------------------------------------------------
(* A query at a time, the tables become exact.                             *)

LEMMA RoutesStep ==
    ASSUME HelperGood, UNCHANGED osVars
    PROVE  /\ FetchRoutes(4) => RoutesExact({4})'
           /\ FetchRoutes(6) /\ RoutesExact({4}) => RoutesExact({4, 6})'
<1> DEFINE Rows(fam) == {r \in ToSet(osRoutes) : r.fam = fam /\ r.ifc # 0}
<1>o. ToSet(osRoutes') = ToSet(osRoutes) BY DEF osVars
<1>1. ASSUME FetchRoutes(4) PROVE RoutesExact({4})'
  <2>1. Merged(routes', <<>>, Rows(4)) BY <1>1, FetchRoutesFacts DEF RouteBase
  <2>2. \A r \in ToSet(routes') : r \in Rows(4) BY <2>1 DEF Merged, ToSet
  <2>3. \A r \in Rows(4) : \E s \in ToSet(routes') : SameRoute(r, s) BY <2>1 DEF Merged, ToSet
  <2> QED BY <1>o, <2>2, <2>3 DEF RoutesExact
<1>2. ASSUME FetchRoutes(6), RoutesExact({4}) PROVE RoutesExact({4, 6})'
  <2>0. RouteBase(6) = routes BY DEF RouteBase
  <2>1. Merged(routes', routes, Rows(6)) BY <1>2, <2>0, FetchRoutesFacts
  <2>2. \A r \in ToSet(routes') : r \in Rows(6) \/ r \in ToSet(routes) BY <2>1 DEF Merged, ToSet
  <2>3. \A r \in ToSet(routes') : r \in ToSet(osRoutes) /\ r.ifc # 0 /\ r.fam \in {4, 6}
    BY <1>2, <2>2 DEF RoutesExact
  <2>4. \A r \in Rows(6) : \E s \in ToSet(routes') : SameRoute(r, s) BY <2>1 DEF Merged, ToSet
  <2>5. \A r \in ToSet(routes) : \E s \in ToSet(routes') : SameRoute(r, s) BY <2>1 DEF Merged, ToSet
  <2>6. ASSUME NEW r \in ToSet(osRoutes), r.ifc # 0, r.fam = 4
        PROVE  \E s \in ToSet(routes') : SameRoute(r, s)
    <3>1. PICK q \in ToSet(routes) : SameRoute(r, q) BY <1>2, <2>6 DEF RoutesExact
    <3>2. PICK s \in ToSet(routes') : SameRoute(q, s) BY <2>5
    <3> QED BY <3>1, <3>2 DEF SameRoute
  <2> QED BY <1>o, <2>3, <2>4, <2>6 DEF RoutesExact
<1> QED BY <1>1, <1>2

LEMMA NeighborsStep ==
    ASSUME HelperGood, UNCHANGED osVars
    PROVE  /\ FetchNeighbors(4) => FirstNeighbors'
           /\ FetchNeighbors(6) /\ FirstNeighbors => neighs' = UsableNeighbors
<1>0. osNeighs' = osNeighs BY DEF osVars
<1>f. \A n \in osNeighs : n.fam \in {4, 6} BY IpHelperAssumption DEF HelperGood, HelperTypeOK
<1>s. \A m, n : SameNeighbor(m, n) <=> NeighborKeyOf(m) = NeighborKeyOf(n) BY DEF SameNeighbor, NeighborKeyOf
<1>u. \A m, n \in osNeighs : NeighborKeyOf(m) = NeighborKeyOf(n) => m = n BY <1>s DEF HelperGood
<1> DEFINE rows(fam) == {n \in osNeighs : n.fam = fam /\ n.ifc # 0}
           merged(fam) == {m \in neighs : \A n \in rows(fam) : ~SameNeighbor(m, n)} \cup rows(fam)
<1>1. ASSUME FetchNeighbors(4) PROVE FirstNeighbors'
  <2>1. neighs' = merged(4) /\ seen' = {NeighborKeyOf(n) : n \in rows(4)} BY <1>1 DEF FetchNeighbors
  <2>2. NeighborRows(4)' = rows(4) BY <1>0 DEF NeighborRows
  <2>3. \A m \in neighs' : NeighborKeyOf(m) \in seen' => m \in rows(4) BY <1>s, <2>1
  <2> HIDE DEF rows
  <2> QED BY <2>1, <2>2, <2>3 DEF FirstNeighbors, NeighborKeyOf
<1>2. ASSUME FetchNeighbors(6), FirstNeighbors PROVE neighs' = UsableNeighbors
  <2> DEFINE keys == {NeighborKeyOf(n) : n \in rows(6)} \cup seen
  <2>1. neighs' = {m \in merged(6) : NeighborKeyOf(m) \in keys} BY <1>2 DEF FetchNeighbors, NeighborRetain
  <2>2. /\ rows(4) \subseteq neighs /\ seen = {NeighborKeyOf(n) : n \in rows(4)}
        /\ \A m \in neighs : NeighborKeyOf(m) \in seen => m \in rows(4)
    BY <1>2 DEF FirstNeighbors, NeighborRows
  <2>3. \A n \in UsableNeighbors : n \in rows(4) \/ n \in rows(6) BY <1>f DEF UsableNeighbors
  <2>4. \A n : n \in rows(4) \/ n \in rows(6) => n \in UsableNeighbors BY DEF UsableNeighbors
  <2>5. \A n \in rows(4), m \in rows(6) : ~SameNeighbor(n, m)
    <3> SUFFICES ASSUME NEW n \in rows(4), NEW m \in rows(6), SameNeighbor(n, m) PROVE FALSE OBVIOUS
    <3>1. n = m BY <1>s, <1>u
    <3> QED BY <3>1
  <2> HIDE DEF rows
  <2>6. \A n \in rows(4) : n \in neighs' BY <2>1, <2>2, <2>5
  <2>7. \A n \in rows(6) : n \in neighs' BY <2>1
  <2>8. ASSUME NEW m \in neighs' PROVE m \in rows(4) \/ m \in rows(6)
    <3>1. m \in merged(6) /\ NeighborKeyOf(m) \in keys BY <2>1
    <3>2. CASE m \in rows(6) BY <3>2
    <3>3. CASE m \in neighs /\ \A n \in rows(6) : ~SameNeighbor(m, n)
      <4>1. NeighborKeyOf(m) \in seen BY <1>s, <3>1, <3>3
      <4> QED BY <2>2, <3>3, <4>1
    <3> QED BY <3>1, <3>2, <3>3
  <2>9. neighs' \subseteq UsableNeighbors BY <2>4, <2>8
  <2>10. UsableNeighbors \subseteq neighs' BY <2>3, <2>6, <2>7
  <2> QED BY <2>9, <2>10
<1> QED BY <1>1, <1>2

LEMMA ConnectionsStep ==
    ASSUME HelperGood, UNCHANGED osVars
    PROVE  /\ FetchConnections("tcp4") => FirstConnections({"tcp4"})'
           /\ FetchConnections("tcp6") /\ FirstConnections({"tcp4"}) => FirstConnections({"tcp4", "tcp6"})'
           /\ FetchConnections("udp4") /\ FirstConnections({"tcp4", "tcp6"})
                => FirstConnections({"tcp4", "tcp6", "udp4"})'
           /\ FetchConnections("udp6") /\ FirstConnections({"tcp4", "tcp6", "udp4"})
                => conns' = {c \in osConns : c.paired}
<1>0. osConns' = osConns BY DEF osVars
<1>1. \A c \in osConns : c.table \in {"tcp4", "tcp6", "udp4", "udp6"}
  BY IpHelperAssumption DEF HelperGood, HelperTypeOK
<1> USE DEF FetchConnections, FirstConnections, ConnsMet, ConnRows
<1>2. ASSUME FetchConnections("tcp4") PROVE FirstConnections({"tcp4"})' BY <1>0, <1>2
<1>3. ASSUME FetchConnections("tcp6"), FirstConnections({"tcp4"}) PROVE FirstConnections({"tcp4", "tcp6"})'
  BY <1>0, <1>3
<1>4. ASSUME FetchConnections("udp4"), FirstConnections({"tcp4", "tcp6"})
      PROVE  FirstConnections({"tcp4", "tcp6", "udp4"})'
  BY <1>0, <1>4
<1>5. ASSUME FetchConnections("udp6"), FirstConnections({"tcp4", "tcp6", "udp4"})
      PROVE  conns' = {c \in osConns : c.paired}
  <2>1. conns' = (conns \cup ConnRows("udp6")) \cap (ConnRows("udp6") \cup seen) BY <1>5
  <2>2. ConnRows("udp6") \cup seen = {c \in osConns : c.paired} BY <1>1, <1>5
  <2>3. seen \subseteq conns BY <1>5
  <2> HIDE DEF FetchConnections, FirstConnections, ConnRows
  <2> QED BY <2>1, <2>2, <2>3
<1> QED BY <1>2, <1>3, <1>4, <1>5
\* A table that a query does not touch, of a system that stands still, stays exact.
LEMMA PartsStay ==
    ASSUME UNCHANGED osVars
    PROVE  /\ UNCHANGED ifs => (ifs = osIfs)' = (ifs = osIfs)
           /\ \A F : UNCHANGED routes => RoutesExact(F)' = RoutesExact(F)
           /\ UNCHANGED neighs => (neighs = UsableNeighbors)' = (neighs = UsableNeighbors)
<1>1. osIfs' = osIfs /\ osRoutes' = osRoutes /\ osNeighs' = osNeighs BY DEF osVars
<1> QED BY <1>1 DEF RoutesExact, UsableNeighbors

LEMMA QueryExact ==
    ASSUME HelperGood, RefreshGood, Query PROVE RefreshGood'
<1> SUFFICES ASSUME quiet' PROVE RefreshGood' BY DEF RefreshGood
<1>1. at \in 1 .. 9 /\ at # 0 /\ Fetch(Queries[at]) BY HelperParts DEF Query
<1>2. UNCHANGED osVars /\ quiet' = quiet BY DEF Query
<1>3. Stage = at /\ Stage' = at + 1
  <2>1. Len(Queries) = 9 BY DEF Queries
  <2>2. at' = (IF at = 9 THEN 0 ELSE at + 1) /\ fresh' = (at = 9) BY <2>1 DEF Query
  <2>3. CASE at = 9
    <3>1. at' = 0 /\ fresh' = TRUE BY <2>2, <2>3
    <3> QED BY <1>1, <2>3, <3>1 DEF Stage
  <2>4. CASE at # 9
    <3>1. at' = at + 1 /\ at' # 0 BY <1>1, <2>2, <2>4
    <3> QED BY <1>1, <3>1 DEF Stage
  <2> QED BY <2>3, <2>4
<1>4. /\ Stage > 1 => ifs = osIfs
      /\ Stage = 3 => RoutesExact({4})
      /\ Stage > 3 => RoutesExact({4, 6})
      /\ Stage = 5 => FirstNeighbors
      /\ Stage > 5 => neighs = UsableNeighbors
      /\ Stage = 7 => FirstConnections({"tcp4"})
      /\ Stage = 8 => FirstConnections({"tcp4", "tcp6"})
      /\ Stage = 9 => FirstConnections({"tcp4", "tcp6", "udp4"})
  BY <1>2 DEF RefreshGood
<1> DEFINE After == /\ Stage' > 1 => (ifs = osIfs)'
                    /\ Stage' = 3 => RoutesExact({4})'
                    /\ Stage' > 3 => RoutesExact({4, 6})'
                    /\ Stage' = 5 => FirstNeighbors'
                    /\ Stage' > 5 => (neighs = UsableNeighbors)'
                    /\ Stage' = 7 => FirstConnections({"tcp4"})'
                    /\ Stage' = 8 => FirstConnections({"tcp4", "tcp6"})'
                    /\ Stage' = 9 => FirstConnections({"tcp4", "tcp6", "udp4"})'
                    /\ Stage' = 10 => (conns = {c \in osConns : c.paired})'
<1>5. After => RefreshGood' BY DEF RefreshGood
<1> HIDE DEF Stage
<1>6. CASE at = 1 /\ FetchInterfaces
  <2>1. (ifs = osIfs)' BY <1>2, <1>6 DEF FetchInterfaces, osVars
  <2> QED BY <1>3, <1>5, <1>6, <2>1
<1>7. CASE at = 2 /\ FetchRoutes(4)
  <2>1. ifs' = ifs BY <1>7 DEF FetchRoutes
  <2>2. (ifs = osIfs)' BY <1>2, <1>3, <1>4, <1>7, <2>1, PartsStay
  <2>3. RoutesExact({4})' BY <1>2, <1>7, RoutesStep
  <2> QED BY <1>3, <1>5, <1>7, <2>2, <2>3
<1>8. CASE at = 3 /\ FetchRoutes(6)
  <2>1. ifs' = ifs BY <1>8 DEF FetchRoutes
  <2>2. (ifs = osIfs)' BY <1>2, <1>3, <1>4, <1>8, <2>1, PartsStay
  <2>3. RoutesExact({4, 6})' BY <1>2, <1>3, <1>4, <1>8, RoutesStep
  <2> QED BY <1>3, <1>5, <1>8, <2>2, <2>3
<1>9. CASE at = 4 /\ FetchNeighbors(4)
  <2>1. UNCHANGED ifs /\ UNCHANGED routes BY <1>9 DEF FetchNeighbors
  <2>2. (ifs = osIfs)' /\ RoutesExact({4, 6})' BY <1>2, <1>3, <1>4, <1>9, <2>1, PartsStay
  <2>3. FirstNeighbors' BY <1>2, <1>9, NeighborsStep
  <2> QED BY <1>3, <1>5, <1>9, <2>2, <2>3
<1>10. CASE at = 5 /\ FetchNeighbors(6)
  <2>1. UNCHANGED ifs /\ UNCHANGED routes BY <1>10 DEF FetchNeighbors
  <2>2. (ifs = osIfs)' /\ RoutesExact({4, 6})' BY <1>2, <1>3, <1>4, <1>10, <2>1, PartsStay
  <2>3. neighs' = UsableNeighbors BY <1>2, <1>3, <1>4, <1>10, NeighborsStep
  <2>4. (neighs = UsableNeighbors)' BY <1>2, <2>3 DEF UsableNeighbors, osVars
  <2> QED BY <1>3, <1>5, <1>10, <2>2, <2>4
<1>11. ASSUME NEW q, FetchConnections(q), at > 5
       PROVE  (ifs = osIfs)' /\ RoutesExact({4, 6})' /\ (neighs = UsableNeighbors)'
  <2>1. UNCHANGED ifs /\ UNCHANGED routes /\ UNCHANGED neighs BY <1>11 DEF FetchConnections
  <2>2. Stage > 1 /\ Stage > 3 /\ Stage > 5 BY <1>1, <1>3, <1>11
  <2> QED BY <1>2, <1>4, <2>1, <2>2, PartsStay
<1>12. CASE at = 6 /\ FetchConnections("tcp4")
  <2>1. FirstConnections({"tcp4"})' BY <1>2, <1>12, ConnectionsStep
  <2> QED BY <1>3, <1>5, <1>11, <1>12, <2>1
<1>13. CASE at = 7 /\ FetchConnections("tcp6")
  <2>1. FirstConnections({"tcp4", "tcp6"})' BY <1>2, <1>3, <1>4, <1>13, ConnectionsStep
  <2> QED BY <1>3, <1>5, <1>11, <1>13, <2>1
<1>14. CASE at = 8 /\ FetchConnections("udp4")
  <2>1. FirstConnections({"tcp4", "tcp6", "udp4"})' BY <1>2, <1>3, <1>4, <1>14, ConnectionsStep
  <2> QED BY <1>3, <1>5, <1>11, <1>14, <2>1
<1>15. CASE at = 9 /\ FetchConnections("udp6")
  <2>1. conns' = {c \in osConns : c.paired} BY <1>2, <1>3, <1>4, <1>15, ConnectionsStep
  <2>2. (conns = {c \in osConns : c.paired})' BY <1>2, <2>1 DEF osVars
  <2> QED BY <1>3, <1>5, <1>11, <1>15, <2>2
<1> QED BY <1>1, <1>6, <1>7, <1>8, <1>9, <1>10, <1>12, <1>13, <1>14, <1>15, QueryIs

LEMMA RefreshStepGood == HelperGood /\ RefreshGood /\ HelperNext => RefreshGood'
<1> SUFFICES ASSUME HelperGood, RefreshGood, HelperNext PROVE RefreshGood' OBVIOUS
<1>0. at # 0 => ~fresh BY DEF HelperGood
<1>q. ASSUME ~quiet' PROVE RefreshGood' BY <1>q DEF RefreshGood
<1>s. ASSUME Stage' = 1 PROVE RefreshGood' BY <1>s DEF RefreshGood
<1>1. CASE OsChange BY <1>1, <1>q DEF OsChange
<1>2. CASE HelperStart
  <2>1. at' = 1 BY <1>2 DEF HelperStart
  <2> QED BY <1>s, <2>1 DEF Stage
<1>3. CASE HelperStop \/ UNCHANGED helperVars
  <2>1. UNCHANGED osVars /\ UNCHANGED <<helperTables, at, seen, quiet, fresh>> BY <1>3 DEF HelperStop, helperVars
  <2>2. UNCHANGED <<ifs, routes, neighs, conns, at, seen, quiet, fresh, osIfs, osRoutes, osNeighs, osConns>>
    BY <2>1 DEF osVars, helperTables
  <2>3. Stage' = Stage BY <2>2 DEF Stage
  <2> QED BY <2>2, <2>3 DEF RefreshGood, RoutesExact, FirstNeighbors, NeighborRows, UsableNeighbors,
                             FirstConnections, ConnsMet
<1>4. CASE Query BY <1>4, QueryExact
<1>5. CASE QueryFails \/ ClearTables \/ InitializeFails \/ Dispose
  <2>1. at' = 0 /\ ~fresh' BY <1>0, <1>5 DEF QueryFails, ClearTables, InitializeFails, Dispose
  <2> QED BY <1>s, <2>1 DEF Stage
<1> QED BY <1>1, <1>2, <1>3, <1>4, <1>5 DEF HelperNext

-----------------------------------------------------------------------------
(* The store.                                                              *)

IsSnapshot(s) ==
    /\ s = [tables |-> s.tables, dns |-> s.dns, gen |-> s.gen]
    /\ s.gen \in 0 .. MaxGeneration

\* The inductive part: an unedited copy is no newer than the store, and until the
\* counter saturates it is the store when it is as new.
StoreGood ==
    /\ IsSnapshot(store) /\ IsSnapshot(copy) /\ copyEdited \in BOOLEAN
    /\ ~copyEdited => /\ copy.gen <= store.gen
                      /\ copy.gen = store.gen /\ store.gen < MaxGeneration => copy = store

\* A change counts a generation, until the counter saturates.
LEMMA CountedFacts ==
    ASSUME NEW s, IsSnapshot(s)
    PROVE  /\ IsSnapshot(Counted(s))
           /\ Counted(s).gen = (IF s.gen < MaxGeneration THEN s.gen + 1 ELSE s.gen)
<1>0. s.gen \in Nat /\ s.gen <= MaxGeneration /\ MaxGeneration \in Nat BY StateStoreAssumption DEF IsSnapshot
<1>1. Counted(s) = [tables |-> s.tables, dns |-> s.dns,
                    gen |-> IF s.gen < MaxGeneration THEN s.gen + 1 ELSE s.gen]
  BY DEF Counted, IsSnapshot
<1> QED BY <1>0, <1>1 DEF IsSnapshot

LEMMA ClearedFacts ==
    ASSUME NEW s, IsSnapshot(s)
    PROVE  /\ IsSnapshot(ClearedSnapshot(s)) /\ ClearedSnapshot(s).gen >= s.gen
           /\ \E c : IsSnapshot(c) /\ c.gen = s.gen /\ ClearedSnapshot(s) = Counted(c)
<1> DEFINE c == [s EXCEPT !.tables = [p \in Parts |-> <<>>], !.dns.servers = <<>>]
<1>1. IsSnapshot(c) /\ c.gen = s.gen
  <2> DEFINE d == [s.dns EXCEPT !.servers = <<>>]
             e == [p \in Parts |-> <<>>]
             u == [s EXCEPT !.tables = e]
  <2>1. u = [tables |-> e, dns |-> s.dns, gen |-> s.gen]
    <3> HIDE DEF e
    <3> QED BY DEF IsSnapshot
  <2>2. c = [u EXCEPT !.dns.servers = <<>>] OBVIOUS
  <2>3. [u EXCEPT !.dns.servers = <<>>] = [tables |-> e, dns |-> d, gen |-> s.gen]
    <3> HIDE DEF e, u
    <3> QED BY <2>1
  <2>4. c = [tables |-> e, dns |-> d, gen |-> s.gen] BY <2>2, <2>3
  <2> HIDE DEF c, d, e
  <2> QED BY <2>4 DEF IsSnapshot
<1>2. ClearedSnapshot(s) = Counted(c) BY DEF ClearedSnapshot
<1> HIDE DEF c
<1>3. s.gen \in Nat /\ s.gen <= MaxGeneration BY StateStoreAssumption DEF IsSnapshot
<1> QED BY <1>1, <1>2, <1>3, CountedFacts

\* A step that counts the store up from a snapshot no older than the store.
LEMMA StoreCounts ==
    ASSUME StoreGood, NEW s, IsSnapshot(s), s.gen >= store.gen, store' = Counted(s),
           UNCHANGED <<copy, copyEdited>>
    PROVE  StoreGood'
<1>1. IsSnapshot(store') /\ store'.gen = IF s.gen < MaxGeneration THEN s.gen + 1 ELSE s.gen BY CountedFacts
<1>2. copy' = copy /\ copyEdited' = copyEdited OBVIOUS
<1>3. /\ s.gen \in Nat /\ store.gen \in Nat /\ copy.gen \in Nat /\ MaxGeneration \in Nat
      /\ s.gen <= MaxGeneration
  BY StateStoreAssumption DEF StoreGood, IsSnapshot
<1>4. ~copyEdited => copy.gen <= store.gen BY DEF StoreGood
<1>5. ~copyEdited' => copy'.gen <= store'.gen /\ (copy'.gen = store'.gen /\ store'.gen < MaxGeneration => copy' = store')
  <2> SUFFICES ASSUME ~copyEdited PROVE copy.gen <= store'.gen /\ (copy.gen = store'.gen => ~(store'.gen < MaxGeneration))
    BY <1>2
  <2> QED BY <1>1, <1>3, <1>4
<1>6. IsSnapshot(copy') /\ copyEdited' \in BOOLEAN BY <1>2 DEF StoreGood
<1> QED BY <1>1, <1>5, <1>6 DEF StoreGood

LEMMA StoreStep == StoreGood /\ [StoreNext]_storeVars => StoreGood'
<1> SUFFICES ASSUME StoreGood, [StoreNext]_storeVars PROVE StoreGood' OBVIOUS
<1>0. IsSnapshot(store) /\ IsSnapshot(copy) BY DEF StoreGood
<1>n. store.gen \in Nat /\ store.gen >= store.gen BY <1>0 DEF IsSnapshot
<1>1. ASSUME NEW p, NEW rows, StoreSet(p, rows) PROVE StoreGood'
  <2> DEFINE s == [store EXCEPT !.tables[p] = rows]
  <2>1. IsSnapshot(s) /\ s.gen = store.gen BY <1>0 DEF IsSnapshot
  <2>2. store' = Counted(s) /\ UNCHANGED <<copy, copyEdited>> BY <1>1 DEF StoreSet
  <2> HIDE DEF s
  <2> QED BY <1>n, <2>1, <2>2, StoreCounts
<1>2. ASSUME NEW d, StoreSetDns(d) PROVE StoreGood'
  <2> DEFINE s == [store EXCEPT !.dns = d]
  <2>1. IsSnapshot(s) /\ s.gen = store.gen BY <1>0 DEF IsSnapshot
  <2>2. store' = Counted(s) /\ UNCHANGED <<copy, copyEdited>> BY <1>2 DEF StoreSetDns
  <2> HIDE DEF s
  <2> QED BY <1>n, <2>1, <2>2, StoreCounts
<1>3. CASE StoreClear
  <2>1. PICK s : IsSnapshot(s) /\ s.gen = store.gen /\ ClearedSnapshot(store) = Counted(s) BY <1>0, ClearedFacts
  <2>2. store' = Counted(s) /\ UNCHANGED <<copy, copyEdited>> BY <1>3, <2>1 DEF StoreClear
  <2> QED BY <1>n, <2>1, <2>2, StoreCounts
<1>4. CASE StoreReplace
  <2> DEFINE s == [copy EXCEPT !.gen = store.gen]
  <2>1. IsSnapshot(s) /\ s.gen = store.gen BY <1>0 DEF IsSnapshot
  <2>2. store' = Counted(s) /\ UNCHANGED <<copy, copyEdited>> BY <1>4 DEF StoreReplace
  <2> HIDE DEF s
  <2> QED BY <1>n, <2>1, <2>2, StoreCounts
<1>5. CASE StoreUpdate
  <2>0. UNCHANGED <<copy, copyEdited>> BY <1>5 DEF StoreUpdate
  <2>1. ASSUME store' = Counted(ClearedSnapshot(store)) PROVE StoreGood'
    BY <1>0, <2>0, <2>1, ClearedFacts, StoreCounts
  <2>2. ASSUME NEW d, store' = Counted(ServerAdded(store, d)) PROVE StoreGood'
    <3>1. IsSnapshot(ServerAdded(store, d)) /\ ServerAdded(store, d).gen = store.gen
      <4>1. CASE Contains(store.dns.servers, d) BY <1>0, <4>1 DEF ServerAdded
      <4>2. CASE ~Contains(store.dns.servers, d)
        <5>1. ServerAdded(store, d) = [store EXCEPT !.dns.servers = Append(store.dns.servers, d)]
          BY <4>2 DEF ServerAdded
        <5> QED BY <1>0, <5>1 DEF IsSnapshot
      <4> QED BY <4>1, <4>2
    <3> QED BY <1>n, <2>0, <2>2, <3>1, StoreCounts
  <2>3. ASSUME NEW d, store' = Counted(ServerRemoved(store, d)) PROVE StoreGood'
    <3>1. IsSnapshot(ServerRemoved(store, d)) /\ ServerRemoved(store, d).gen = store.gen
      BY <1>0 DEF ServerRemoved, IsSnapshot
    <3> QED BY <1>n, <2>0, <2>3, <3>1, StoreCounts
  <2> QED BY <1>5, <2>1, <2>2, <2>3 DEF StoreUpdate
<1>6. CASE StoreSnapshot
  <2>1. copy' = store /\ store' = store /\ copyEdited' = FALSE BY <1>6 DEF StoreSnapshot
  <2> QED BY <1>0, <1>n, <2>1 DEF StoreGood
<1>7. CASE EditCopy
  <2>1. copyEdited' = TRUE /\ store' = store BY <1>7 DEF EditCopy
  <2>2. IsSnapshot(copy')
    <3>1. ASSUME NEW p, NEW rows, copy' = [copy EXCEPT !.tables[p] = rows] PROVE IsSnapshot(copy')
      BY <1>0, <3>1 DEF IsSnapshot
    <3>2. ASSUME copy' = ClearedSnapshot(copy) PROVE IsSnapshot(copy') BY <1>0, <3>2, ClearedFacts
    <3> QED BY <1>7, <3>1, <3>2 DEF EditCopy
  <2> QED BY <1>0, <2>1, <2>2 DEF StoreGood
<1>8. CASE UNCHANGED storeVars
  <2>1. store' = store /\ copy' = copy /\ copyEdited' = copyEdited BY <1>8 DEF storeVars
  <2> QED BY <2>1 DEF StoreGood
<1> QED BY <1>1, <1>2, <1>3, <1>4, <1>5, <1>6, <1>7, <1>8 DEF StoreNext

LEMMA StoreTells == StoreGood => GenerationTells
<1> SUFFICES ASSUME StoreGood PROVE GenerationTells OBVIOUS
<1>1. ~copyEdited /\ copy.gen = store.gen /\ store.gen < MaxGeneration => copy = store BY DEF StoreGood
<1>2. IsEmpty(store) => ~IsConfigured(store) BY DEF IsEmpty, IsConfigured
<1>3. ASSUME NEW p \in Parts, NEW key, IsEmpty(store) PROVE Find(store, p, key) = 0
  <2>1. store.tables[p] = <<>> BY <1>3 DEF IsEmpty
  <2>2. {k \in DOMAIN store.tables[p] : store.tables[p][k].key = key} = {} BY <2>1
  <2> QED BY <2>2 DEF Find
<1> QED BY <1>1, <1>2, <1>3 DEF GenerationTells

-----------------------------------------------------------------------------
(* What the Engine knows, and the table filled from it.                    *)

\* It is a sequence; what its elements are does not matter.
IsList(s) == s \in Seq(ToSet(s))

NetGood ==
    /\ engine \in {"none", "initializing", "ready"}
    /\ IF engine = "ready" THEN net.gen = 5 ELSE net = EmptyNet
    /\ net.neighs \subseteq OsNeighbors
    /\ IsList(net.routes)
    /\ \A r \in ToSet(net.routes) : r.len \in Nat /\ r.metric \in Nat
    /\ \A g \in net.gws : \E r \in ToSet(net.routes) : r.len = 0 /\ r.ifc = g.ifc /\ r.hop = g.addr

\* Every installable route, and nothing else, as an entry, in their order.
Filled == fwd = [k \in DOMAIN InstalledRows |-> EntryFrom(InstalledRows[k])]

SyncGood == ~edited => fwd = <<>> \/ Filled

LEMMA EmptyNetGood ==
    /\ EmptyNet.neighs = {} /\ EmptyNet.gws = {} /\ EmptyNet.routes = <<>>
    /\ ToSet(<<>>) = {} /\ IsList(<<>>)
  BY DEF EmptyNet, ToSet, IsList

Snapshot(i, r, n, g, m) == [ifs |-> i, routes |-> r, neighs |-> n, gws |-> g, gen |-> m]

\* Each part is replaced, and counted.
LEMMA SetParts ==
    ASSUME NEW i, NEW r, NEW n, NEW g, NEW m \in Nat, NEW v
    PROVE  /\ SetInterfaces(Snapshot(i, r, n, g, m), v) = Snapshot(v, r, n, g, m + 1)
           /\ SetAddresses(Snapshot(i, r, n, g, m)) = Snapshot(i, r, n, g, m + 1)
           /\ SetRoutes(Snapshot(i, r, n, g, m), v) = Snapshot(i, v, n, g, m + 1)
           /\ SetNeighbors(Snapshot(i, r, n, g, m), v) = Snapshot(i, r, v, g, m + 1)
           /\ SetGateways(Snapshot(i, r, n, g, m), v) = Snapshot(i, r, n, v, m + 1)
<1>2. ASSUME NEW a, NEW b, NEW c, NEW d PROVE SetAddresses(Snapshot(a, b, c, d, m)) = Snapshot(a, b, c, d, m + 1)
  BY DEF SetAddresses, Snapshot
<1>1. SetInterfaces(Snapshot(i, r, n, g, m), v) = Snapshot(v, r, n, g, m + 1)
  <2>1. SetInterfaces(Snapshot(i, r, n, g, m), v) = SetAddresses([Snapshot(i, r, n, g, m) EXCEPT !.ifs = v])
    BY DEF SetInterfaces, SetAddresses
  <2>2. [Snapshot(i, r, n, g, m) EXCEPT !.ifs = v] = Snapshot(v, r, n, g, m) BY DEF Snapshot
  <2> QED BY <1>2, <2>1, <2>2
<1>3. SetRoutes(Snapshot(i, r, n, g, m), v) = Snapshot(i, v, n, g, m + 1)
  <2>1. SetRoutes(Snapshot(i, r, n, g, m), v) = SetAddresses([Snapshot(i, r, n, g, m) EXCEPT !.routes = v])
    BY DEF SetRoutes, SetAddresses
  <2>2. [Snapshot(i, r, n, g, m) EXCEPT !.routes = v] = Snapshot(i, v, n, g, m) BY DEF Snapshot
  <2> QED BY <1>2, <2>1, <2>2
<1>4. SetNeighbors(Snapshot(i, r, n, g, m), v) = Snapshot(i, r, v, g, m + 1)
  <2>1. SetNeighbors(Snapshot(i, r, n, g, m), v) = SetAddresses([Snapshot(i, r, n, g, m) EXCEPT !.neighs = v])
    BY DEF SetNeighbors, SetAddresses
  <2>2. [Snapshot(i, r, n, g, m) EXCEPT !.neighs = v] = Snapshot(i, r, v, g, m) BY DEF Snapshot
  <2> QED BY <1>2, <2>1, <2>2
<1>5. SetGateways(Snapshot(i, r, n, g, m), v) = Snapshot(i, r, n, v, m + 1)
  <2>1. SetGateways(Snapshot(i, r, n, g, m), v) = SetAddresses([Snapshot(i, r, n, g, m) EXCEPT !.gws = v])
    BY DEF SetGateways, SetAddresses
  <2>2. [Snapshot(i, r, n, g, m) EXCEPT !.gws = v] = Snapshot(i, r, n, v, m) BY DEF Snapshot
  <2> QED BY <1>2, <2>1, <2>2
<1> QED BY <1>1, <1>2, <1>3, <1>4, <1>5

LEMMA SynchronizeGood == ASSUME HelperGood, NetGood, Synchronize PROVE NetGood'
<1> DEFINE rs == [k \in DOMAIN routes |-> StateRoute(k)]
<1>1. net = EmptyNet BY DEF Synchronize, NetGood
<1>2. net' = [ifs |-> ifs, routes |-> rs, neighs |-> neighs, gws |-> StateGateways, gen |-> 5]
  <2> HIDE DEF rs
  <2>1. net' = SetGateways(SetNeighbors(SetRoutes(SetAddresses(SetInterfaces(net, ifs)), rs), neighs), StateGateways)
    BY DEF Synchronize, rs
  <2>2. net = Snapshot([i \in Interfaces |-> Absent], <<>>, {}, {}, 0) BY <1>1 DEF EmptyNet, Snapshot
  <2>3. SetInterfaces(net, ifs) = Snapshot(ifs, <<>>, {}, {}, 1) BY <2>2, SetParts
  <2>4. SetAddresses(SetInterfaces(net, ifs)) = Snapshot(ifs, <<>>, {}, {}, 2) BY <2>3, SetParts
  <2>5. SetRoutes(SetAddresses(SetInterfaces(net, ifs)), rs) = Snapshot(ifs, rs, {}, {}, 3) BY <2>4, SetParts
  <2>6. SetNeighbors(SetRoutes(SetAddresses(SetInterfaces(net, ifs)), rs), neighs) = Snapshot(ifs, rs, neighs, {}, 4)
    BY <2>5, SetParts
  <2>7. net' = Snapshot(ifs, rs, neighs, StateGateways, 5) BY <2>1, <2>6, SetParts
  <2> QED BY <2>7 DEF Snapshot
<1>3. engine' = "ready" BY DEF Synchronize
<1>4. DOMAIN routes = 1 .. Len(routes) /\ Len(routes) \in Nat /\ \A k \in DOMAIN routes : routes[k] \in OsRoutes
  BY DEF HelperGood
<1>5. IsList(rs)
  <2>1. DOMAIN rs = 1 .. Len(routes) BY <1>4
  <2>2. \A k \in DOMAIN rs : rs[k] \in ToSet(rs) BY DEF ToSet
  <2>3. rs = [k \in 1 .. Len(routes) |-> rs[k]] BY <1>4
  <2> HIDE DEF rs
  <2> QED BY <1>4, <2>1, <2>2, <2>3 DEF IsList
<1>6. \A k \in DOMAIN routes : /\ rs[k] \in ToSet(rs) /\ rs[k].len = routes[k].len /\ rs[k].metric = routes[k].metric
                               /\ rs[k].ifc = routes[k].ifc /\ rs[k].hop = routes[k].hop
  BY DEF ToSet, StateRoute
<1>7. \A r \in ToSet(rs) : r.len \in Nat /\ r.metric \in Nat
  <2>1. \A r \in ToSet(rs) : \E k \in DOMAIN routes : r = rs[k] BY DEF ToSet
  <2> HIDE DEF rs
  <2> QED BY <1>4, <1>6, <2>1, IpHelperAssumption
<1>8. \A g \in StateGateways : \E r \in ToSet(rs) : r.len = 0 /\ r.ifc = g.ifc /\ r.hop = g.addr
  <2> HIDE DEF rs
  <2> SUFFICES ASSUME NEW g \in StateGateways PROVE \E r \in ToSet(rs) : r.len = 0 /\ r.ifc = g.ifc /\ r.hop = g.addr
    OBVIOUS
  <2>1. PICK k \in DOMAIN routes : routes[k].len = 0 /\ g = [ifc |-> routes[k].ifc, addr |-> routes[k].hop, reachable |-> TRUE]
    BY DEF StateGateways
  <2>2. g.ifc = routes[k].ifc /\ g.addr = routes[k].hop BY <2>1
  <2> QED BY <1>6, <2>1, <2>2
<1>9. neighs \subseteq OsNeighbors BY DEF HelperGood, HelperTypeOK
<1> HIDE DEF rs
<1> QED BY <1>2, <1>3, <1>5, <1>7, <1>8, <1>9 DEF NetGood

LEMMA NetStep == HelperGood /\ NetGood /\ StateNext => NetGood'
<1> SUFFICES ASSUME HelperGood, NetGood, StateNext PROVE NetGood' OBVIOUS
<1>1. CASE UNCHANGED stateVars
  <2>1. engine' = engine /\ net' = net BY <1>1 DEF stateVars
  <2> QED BY <2>1 DEF NetGood, EmptyNet
<1>2. CASE Initialize \/ InitializeFails
  <2>1. engine' \in {"none", "initializing"} /\ net' = net /\ net = EmptyNet
    BY <1>2 DEF Initialize, InitializeFails, NetGood
  <2> QED BY <2>1 DEF NetGood, EmptyNet
<1>3. CASE Synchronize BY <1>3, SynchronizeGood
<1>4. CASE Dispose
  <2>1. engine' = "none" /\ net' = EmptyNet BY <1>4 DEF Dispose
  <2> QED BY <2>1, EmptyNetGood DEF NetGood, EmptyNet
<1> QED BY <1>1, <1>2, <1>3, <1>4 DEF StateNext, RefreshStep, BackendRestart, BackendStop, RefreshFails, BackendClear

LEMMA SyncFills == ASSUME SyncFromNetworkState PROVE Filled'
<1>1. net' = net BY DEF SyncFromNetworkState, stateVars
<1>2. InstalledRows' = InstalledRows BY <1>1 DEF InstalledRows, Installable
<1> QED BY <1>2 DEF SyncFromNetworkState, Filled

LEMMA SyncStep == NetGood /\ SyncGood /\ [RoutingNext]_routingVars => SyncGood'
<1> SUFFICES ASSUME NetGood, SyncGood, [RoutingNext]_routingVars PROVE SyncGood' OBVIOUS
<1>1. ASSUME net' = net, fwd' = fwd, edited' = edited PROVE SyncGood'
  <2>1. Filled => Filled' BY <1>1 DEF Filled, InstalledRows, Installable
  <2> QED BY <1>1, <2>1 DEF SyncGood
<1>2. CASE StateNext /\ engine' = engine /\ UNCHANGED <<fwd, edited>>
  <2>1. net' = net
    BY <1>2 DEF StateNext, stateVars, Initialize, RefreshStep, InitializeFails, Synchronize, BackendRestart, BackendStop,
                RefreshFails, BackendClear, Dispose
  <2> QED BY <1>1, <1>2, <2>1
<1>3. CASE fwd' = <<>> BY <1>3 DEF SyncGood
<1>4. CASE SyncFromNetworkState BY <1>4, SyncFills DEF SyncGood
<1>5. CASE edited' = TRUE BY <1>5 DEF SyncGood
<1>6. CASE UNCHANGED routingVars BY <1>1, <1>6 DEF routingVars, stateVars
<1> QED BY <1>2, <1>3, <1>4, <1>5, <1>6 DEF RoutingNext, Add, RemoveEntry, SetEnabled

\* An index among the candidates with the longest prefix is found, the last of
\* them: max_by_key has an answer whenever something matches.
LEMMA LookupFinds ==
    ASSUME NEW n \in Nat, DOMAIN fwd = 1 .. n, \A k \in 1 .. n : fwd[k].len \in Nat, NEW a, Candidates(a) # {}
    PROVE  /\ Lookup(a) \in Candidates(a)
           /\ \A j \in Candidates(a) : \/ fwd[j].len < fwd[Lookup(a)].len
                                       \/ fwd[j].len = fwd[Lookup(a)].len /\ j <= Lookup(a)
<1> DEFINE f == [k \in 1 .. n |-> fwd[k].len]
           C == Candidates(a)
           M == {k \in C : \A j \in C : fwd[j].len <= fwd[k].len}
<1>2. C \in SUBSET (1 .. n) /\ C # {} BY DEF Candidates
<1>3. f \in [1 .. n -> Nat] OBVIOUS
<1>c. C = Candidates(a) OBVIOUS
<1> HIDE DEF C
<1>4. PICK k \in C : \A j \in C : f[j] <= f[k]
  <2> HIDE DEF f
  <2> QED BY <1>2, <1>3, GreatestAt
<1>5. k \in M BY <1>2, <1>4
<1>6. M \in SUBSET Nat /\ M # {} /\ \A m \in M : m <= n
  <2>1. \A m \in M : m \in 1 .. n BY <1>2
  <2> HIDE DEF M
  <2> QED BY <1>5, <2>1
<1>7. \A m \in M : m \in C /\ \A j \in C : fwd[j].len <= fwd[m].len OBVIOUS
<1>m. \A j \in C, m \in M : fwd[j].len = fwd[m].len => j \in M OBVIOUS
<1>8. Lookup(a) = Max(M) BY <1>2 DEF Lookup, C
<1> HIDE DEF M
<1>9. PICK m \in M : \A l \in M : l <= m BY <1>6, GreatestNatural
<1>10. \E x \in M : \A y \in M : x >= y BY <1>6, <1>9
<1>11. Max(M) \in M /\ \A y \in M : Max(M) >= y BY <1>10 DEF Max
<1>12. ASSUME NEW j \in C
       PROVE  \/ fwd[j].len < fwd[Lookup(a)].len
              \/ fwd[j].len = fwd[Lookup(a)].len /\ j <= Lookup(a)
  <2> DEFINE l == Lookup(a)
  <2>1. l \in M /\ l \in C /\ j \in 1 .. n /\ l \in 1 .. n BY <1>2, <1>7, <1>8, <1>11
  <2>2. fwd[j].len \in Nat /\ fwd[l].len \in Nat /\ fwd[j].len <= fwd[l].len BY <1>7, <2>1
  <2>3. fwd[j].len = fwd[l].len => j <= l BY <1>m, <1>8, <1>11, <2>1
  <2> QED BY <2>2, <2>3
<1>13. Lookup(a) \in C BY <1>7, <1>8, <1>11
<1> QED
  <2>1. \A j \in C : \/ fwd[j].len < fwd[Lookup(a)].len
                     \/ fwd[j].len = fwd[Lookup(a)].len /\ j <= Lookup(a)
    BY <1>12
  <2> QED BY <1>c, <1>13, <2>1

\* The rows of a filled table: the installable ones, in the NetworkState's order.
LEMMA FilledFacts ==
    ASSUME NetGood, Filled
    PROVE  \E n, pos :
             /\ n \in Nat /\ DOMAIN fwd = 1 .. n /\ DOMAIN InstalledRows = 1 .. n
             /\ \A k \in 1 .. n : /\ pos[k] \in DOMAIN net.routes /\ Installable(net.routes[pos[k]])
                                   /\ InstalledRows[k] = net.routes[pos[k]]
                                   /\ fwd[k] = EntryFrom(net.routes[pos[k]])
                                   /\ net.routes[pos[k]].len \in Nat /\ net.routes[pos[k]].metric \in Nat
             /\ \A i \in DOMAIN net.routes : Installable(net.routes[i]) => \E k \in 1 .. n : pos[k] = i
             /\ \A k, l \in 1 .. n : k <= l => pos[k] <= pos[l]
<1> DEFINE I == {k \in DOMAIN net.routes : Installable(net.routes[k])}
           T == ToSet(net.routes)
           n == Cardinality(I)
<1>1. net.routes \in Seq(T) /\ I \in SUBSET DOMAIN net.routes BY DEF NetGood, IsList
<1>2. InstalledRows = Picked(net.routes, I) BY DEF InstalledRows
<1>3. \A i \in DOMAIN net.routes : i \in I <=> Installable(net.routes[i]) OBVIOUS
<1>4. \A i \in DOMAIN net.routes : net.routes[i] \in T /\ i \in Nat
  <2>1. \A i \in DOMAIN net.routes : net.routes[i] \in T BY DEF ToSet
  <2>2. DOMAIN net.routes = 1 .. Len(net.routes) BY <1>1
  <2> QED BY <2>1, <2>2
<1>5. \A r \in T : r.len \in Nat /\ r.metric \in Nat BY DEF NetGood
<1> HIDE DEF I, T
<1>6. /\ n \in Nat /\ Picked(net.routes, I) \in Seq(T) /\ Len(Picked(net.routes, I)) = n
      /\ \E pos : Listing(pos, I) /\ \A k \in 1 .. n : Picked(net.routes, I)[k] = net.routes[pos[k]]
  BY <1>1, PickedFacts
<1> HIDE DEF n
<1>7. PICK pos : Listing(pos, I) /\ \A k \in 1 .. n : InstalledRows[k] = net.routes[pos[k]] BY <1>2, <1>6
<1>8. DOMAIN InstalledRows = 1 .. n BY <1>2, <1>6
<1>9. DOMAIN fwd = 1 .. n /\ \A k \in 1 .. n : fwd[k] = EntryFrom(InstalledRows[k]) BY <1>8 DEF Filled
<1>10. /\ \A k \in 1 .. n : pos[k] \in I
       /\ \A i \in I : \E k \in 1 .. n : pos[k] = i
       /\ \A k, l \in 1 .. n : k < l => pos[k] < pos[l]
  BY <1>7 DEF Listing, n
<1>11. \A k \in 1 .. n : pos[k] \in DOMAIN net.routes /\ Installable(net.routes[pos[k]]) /\ pos[k] \in Nat
  BY <1>1, <1>3, <1>4, <1>10
<1>12. \A k, l \in 1 .. n : k <= l => pos[k] <= pos[l]
  <2> TAKE k, l \in 1 .. n
  <2>1. k = l \/ k < l \/ l < k BY <1>6
  <2> QED BY <1>6, <1>10, <1>11, <2>1
<1>13. \A k \in 1 .. n : /\ fwd[k] = EntryFrom(net.routes[pos[k]])
                         /\ net.routes[pos[k]].len \in Nat /\ net.routes[pos[k]].metric \in Nat
  BY <1>4, <1>5, <1>7, <1>9, <1>11
<1> QED BY <1>3, <1>6, <1>7, <1>8, <1>9, <1>10, <1>11, <1>12, <1>13

LEMMA SyncedRoutes == NetGood /\ SyncGood => SyncedTableRoutes
<1> SUFFICES ASSUME NetGood, SyncGood, ~edited, fwd # <<>>, NEW a \in Addresses
             PROVE  IF Lookup(a) = 0 THEN Installed(a) = {}
                    ELSE \E k \in Installed(a) :
                           /\ fwd[Lookup(a)] = EntryFrom(net.routes[k])
                           /\ \A j \in Installed(a) :
                                 \/ net.routes[j].len < net.routes[k].len
                                 \/ net.routes[j].len = net.routes[k].len /\ j <= k
  BY DEF SyncedTableRoutes
<1>1. Filled BY DEF SyncGood
<1>2. PICK n, pos :
        /\ n \in Nat /\ DOMAIN fwd = 1 .. n
        /\ \A k \in 1 .. n : /\ pos[k] \in DOMAIN net.routes /\ Installable(net.routes[pos[k]])
                              /\ fwd[k] = EntryFrom(net.routes[pos[k]])
                              /\ net.routes[pos[k]].len \in Nat
        /\ \A i \in DOMAIN net.routes : Installable(net.routes[i]) => \E k \in 1 .. n : pos[k] = i
        /\ \A k, l \in 1 .. n : k <= l => pos[k] <= pos[l]
  <2> HIDE DEF Filled
  <2> QED BY <1>1, FilledFacts
<1> DEFINE C == Candidates(a)
           R == Installed(a)
<1>3. \A r : /\ Matches(EntryFrom(r), a) <=> Matches(r, a)
             /\ EntryFrom(r).len = r.len /\ EntryFrom(r).enabled = r.enabled
  BY DEF Matches, EntryFrom
<1>4. \A i : i \in R <=> i \in DOMAIN net.routes /\ Installable(net.routes[i]) /\ Matches(net.routes[i], a)
  BY DEF Installed
<1>5. \A r : Installable(r) => r.enabled BY DEF Installable, RouteUsable
<1>6. \A k : k \in C <=> k \in DOMAIN fwd /\ fwd[k].enabled /\ Matches(fwd[k], a) BY DEF Candidates
<1> HIDE DEF C, R
<1>7. \A k \in 1 .. n : k \in C <=> pos[k] \in R BY <1>2, <1>3, <1>4, <1>5, <1>6
<1>8. \A i \in R : \E k \in 1 .. n : pos[k] = i BY <1>2, <1>4
<1>9. CASE C = {}
  <2>1. R = {} BY <1>7, <1>8, <1>9
  <2>2. Lookup(a) = 0 BY <1>9 DEF Lookup, C
  <2> QED BY <2>1, <2>2 DEF R
<1>10. CASE C # {}
  <2> DEFINE k == Lookup(a)
  <2>1. /\ k \in C
        /\ \A j \in C : fwd[j].len < fwd[k].len \/ (fwd[j].len = fwd[k].len /\ j <= k)
    <3>1. \A j \in 1 .. n : fwd[j].len \in Nat BY <1>2, <1>3
    <3> QED BY <1>2, <1>10, <3>1, LookupFinds DEF C
  <2> HIDE DEF k
  <2>2. k \in 1 .. n BY <1>2, <1>6, <2>1
  <2>3. pos[k] \in R /\ fwd[k] = EntryFrom(net.routes[pos[k]]) BY <1>2, <1>7, <2>1, <2>2
  <2>4. ASSUME NEW j \in R
        PROVE  \/ net.routes[j].len < net.routes[pos[k]].len
               \/ net.routes[j].len = net.routes[pos[k]].len /\ j <= pos[k]
    <3>1. PICK m \in 1 .. n : pos[m] = j BY <1>8
    <3>2. m \in C BY <1>7, <3>1
    <3>3. fwd[m].len = net.routes[j].len /\ fwd[k].len = net.routes[pos[k]].len BY <1>2, <1>3, <2>2, <3>1
    <3>4. m <= k => j <= pos[k] BY <1>2, <2>2, <3>1
    <3> QED BY <2>1, <3>2, <3>3, <3>4
  <2> QED BY <2>2, <2>3, <2>4 DEF k, R
<1> QED BY <1>9, <1>10
-----------------------------------------------------------------------------
(* The routing table and the prefix tests.                                 *)

\* A row of the table: its prefix and metric are what its answers compare.
IsRow(e) == {"fam", "dest", "len", "metric"} \subseteq DOMAIN e /\ e.len \in Nat /\ e.metric \in Nat

TableGood == IsList(table) /\ \A k \in DOMAIN table : IsRow(table[k])

LEMMA LeastIn == ASSUME NEW K \in SUBSET Nat, K # {} PROVE Min(K) \in K
<1>1. PICK m \in K : \A k \in K : m <= k BY LeastNatural
<1>2. \E x \in K : \A y \in K : x <= y BY <1>1
<1> QED BY <1>2 DEF Min

LEMMA TableStep == TableGood /\ [TableNext]_table => TableGood'
<1> SUFFICES ASSUME TableGood, [TableNext]_table PROVE TableGood' OBVIOUS
<1>0. DOMAIN table = 1 .. Len(table) /\ Len(table) \in Nat BY DEF TableGood, IsList
<1> DEFINE t == table'
<1>l. ASSUME NEW n \in Nat, DOMAIN t = 1 .. n, t = [k \in 1 .. n |-> t[k]], \A k \in 1 .. n : IsRow(t[k])
      PROVE  TableGood'
  <2>1. \A k \in 1 .. n : t[k] \in ToSet(t) BY <1>l DEF ToSet
  <2> HIDE DEF t
  <2>2. t \in Seq(ToSet(t)) BY <1>l, <2>1
  <2> QED BY <1>l, <2>2 DEF TableGood, IsList, t
<1>1. ASSUME NEW e \in TableRoutes, TableAdd(e) PROVE TableGood'
  <2>1. t = Append(table, e) BY <1>1 DEF TableAdd
  <2>2. IsRow(e) BY PathAssumption DEF IsRow
  <2>3. DOMAIN t = 1 .. Len(table) + 1 /\ t = [k \in 1 .. Len(table) + 1 |-> t[k]] /\ t[Len(table) + 1] = e
        /\ \A k \in 1 .. Len(table) : t[k] = table[k]
    <3> DEFINE S == ToSet(table) \cup {e}
    <3>1. table \in Seq(S) /\ e \in S BY DEF TableGood, IsList
    <3> HIDE DEF S, t
    <3>2. t \in Seq(S) /\ Len(t) = Len(table) + 1 BY <2>1, <3>1
    <3>3. DOMAIN t = 1 .. Len(table) + 1 /\ t = [k \in 1 .. Len(table) + 1 |-> t[k]] BY <3>2
    <3>4. t[Len(table) + 1] = e /\ \A k \in 1 .. Len(table) : t[k] = table[k] BY <2>1, <3>1
    <3> QED BY <3>3, <3>4
  <2> HIDE DEF t
  <2>4. \A k \in 1 .. Len(table) + 1 : IsRow(t[k])
    <3> TAKE k \in 1 .. Len(table) + 1
    <3>1. k \in 1 .. Len(table) \/ k = Len(table) + 1 BY <1>0
    <3> QED BY <1>0, <2>2, <2>3, <3>1 DEF TableGood
  <2>5. Len(table) + 1 \in Nat BY <1>0
  <2> QED BY <1>l, <2>3, <2>4, <2>5
<1>2. ASSUME NEW e, TableRemove(e) PROVE TableGood'
  <2> DEFINE I == {k \in DOMAIN table : ~SameEntry(e, table[k])}
  <2>1. I \in SUBSET DOMAIN table /\ t = Picked(table, I) BY <1>2 DEF TableRemove
  <2> HIDE DEF I, t
  <2>2. t \in Seq(ToSet(table)) /\ \A k \in DOMAIN t : \E i \in I : t[k] = table[i]
    BY <2>1, PickedElements DEF TableGood, IsList
  <2>3. \A k \in DOMAIN t : IsRow(t[k]) BY <2>1, <2>2 DEF TableGood
  <2>4. Len(t) \in Nat /\ DOMAIN t = 1 .. Len(t) /\ t = [k \in 1 .. Len(t) |-> t[k]] BY <2>2
  <2> QED BY <1>l, <2>3, <2>4
<1>3. ASSUME NEW e, NEW on, TableSetEnabled(e, on) PROVE TableGood'
  <2> DEFINE K == {k \in DOMAIN table : SameEntry(table[k], e)}
  <2>1. K \in SUBSET Nat /\ K # {} /\ K \subseteq DOMAIN table /\ t = [table EXCEPT ![Min(K)].enabled = on]
    BY <1>0, <1>3 DEF TableSetEnabled
  <2> HIDE DEF K, t
  <2>2. Min(K) \in DOMAIN table BY <2>1, LeastIn
  <2>3. DOMAIN t = 1 .. Len(table) /\ t = [k \in 1 .. Len(table) |-> t[k]] BY <1>0, <2>1
  <2>4. ASSUME NEW k \in DOMAIN table PROVE IsRow(t[k])
    <3>1. CASE k # Min(K) BY <2>1, <3>1 DEF TableGood
    <3>2. CASE k = Min(K)
      <4>1. t[k] = [table[k] EXCEPT !.enabled = on] BY <2>1, <3>2
      <4>2. IsRow(table[k]) BY DEF TableGood
      <4> QED BY <4>1, <4>2 DEF IsRow
    <3> QED BY <3>1, <3>2
  <2> QED BY <1>0, <1>l, <2>3, <2>4
<1>4. CASE TableClear
  <2>1. t = <<>> BY <1>4 DEF TableClear
  <2>2. DOMAIN t = 1 .. 0 /\ t = [k \in 1 .. 0 |-> t[k]] BY <2>1
  <2> HIDE DEF t
  <2> QED BY <1>l, <2>2
<1>5. CASE UNCHANGED table BY <1>5 DEF TableGood
<1> QED BY <1>1, <1>2, <1>3, <1>4, <1>5 DEF TableNext

\* A mask keeps the leading bits.
LEMMA Masked ==
    ASSUME NEW v \in Words, NEW w \in Words, NEW len \in 0 .. Bits
    PROVE  /\ And(v, Mask(len)) = And(w, Mask(len)) <=> \A i \in 1 .. len : v[i] = w[i]
           /\ And(And(v, Mask(len)), Mask(len)) = And(v, Mask(len))
<1>0. Bits \in Nat /\ len \in Nat /\ len <= Bits BY ForwardingAssumption
<1>1. \A i \in 1 .. Bits : Mask(len)[i] = IF i <= len THEN 1 ELSE 0
  <2> TAKE i \in 1 .. Bits
  <2>1. CASE len = 0
    <3>1. Mask(len) = Unspecified BY <2>1 DEF Mask
    <3>2. ~(i <= len) BY <1>0, <2>1
    <3>3. Mask(len)[i] = 0 BY <3>1 DEF Unspecified
    <3> QED BY <3>2, <3>3
  <2>2. CASE len # 0
    <3>1. Mask(len)[i] = IF i + (Bits - len) <= Bits THEN Ones[i + (Bits - len)] ELSE 0
      BY <2>2 DEF Mask, ShiftLeft
    <3>2. CASE i <= len
      <4>1. i + (Bits - len) \in 1 .. Bits /\ i + (Bits - len) <= Bits BY <1>0, <3>2
      <4> QED BY <3>1, <3>2, <4>1 DEF Ones
    <3>3. CASE ~(i <= len)
      <4>1. ~(i + (Bits - len) <= Bits) BY <1>0, <3>3
      <4> QED BY <3>1, <3>3, <4>1
    <3> QED BY <3>2, <3>3
  <2> QED BY <2>1, <2>2
<1>2. ASSUME NEW x PROVE And(x, Mask(len)) = [i \in 1 .. Bits |-> IF x[i] = 1 /\ i <= len THEN 1 ELSE 0]
  BY <1>1 DEF And
<1>3. \A i \in 1 .. Bits : v[i] \in {0, 1} /\ w[i] \in {0, 1} BY DEF Words
<1>4. ASSUME And(v, Mask(len)) = And(w, Mask(len)), NEW i \in 1 .. len PROVE v[i] = w[i]
  <2>1. i \in 1 .. Bits /\ i <= len BY <1>0
  <2>2. (IF v[i] = 1 /\ i <= len THEN 1 ELSE 0) = (IF w[i] = 1 /\ i <= len THEN 1 ELSE 0) BY <1>2, <1>4, <2>1
  <2> QED BY <1>3, <2>1, <2>2
<1>5. ASSUME \A i \in 1 .. len : v[i] = w[i] PROVE And(v, Mask(len)) = And(w, Mask(len))
  <2>1. \A i \in 1 .. Bits : i <= len => v[i] = w[i] BY <1>0, <1>5
  <2>2. [i \in 1 .. Bits |-> IF v[i] = 1 /\ i <= len THEN 1 ELSE 0]
          = [i \in 1 .. Bits |-> IF w[i] = 1 /\ i <= len THEN 1 ELSE 0]
    BY <2>1
  <2> QED BY <1>2, <2>2
<1>6. And(And(v, Mask(len)), Mask(len)) = And(v, Mask(len))
  <2> DEFINE x == And(v, Mask(len))
  <2>1. x = [i \in 1 .. Bits |-> IF v[i] = 1 /\ i <= len THEN 1 ELSE 0] BY <1>2
  <2>2. And(x, Mask(len)) = [i \in 1 .. Bits |-> IF x[i] = 1 /\ i <= len THEN 1 ELSE 0] BY <1>2
  <2> HIDE DEF x
  <2>3. \A i \in 1 .. Bits : x[i] = 1 /\ i <= len <=> v[i] = 1 /\ i <= len BY <2>1
  <2>4. And(x, Mask(len)) = x BY <2>1, <2>2, <2>3
  <2> QED BY <2>4 DEF x
<1> QED BY <1>4, <1>5, <1>6

\* The prefix 0 matches everything, masked or not.
LEMMA NoPrefix == ASSUME NEW v, NEW w PROVE And(v, Mask(0)) = And(w, Mask(0))
<1>1. Mask(0) = Unspecified BY DEF Mask
<1>2. \A i \in 1 .. Bits : Mask(0)[i] = 0 BY <1>1 DEF Unspecified
<1> HIDE DEF Mask
<1> QED BY <1>2 DEF And

LEMMA Matchers == MatchersAgree
<1> SUFFICES ASSUME NEW e \in TableRoutes, NEW a \in Addresses, ValidPrefix(e.len)
             PROVE  /\ Matches(e, a) <=> SamePrefix(e, a)
                    /\ EntryMatches(e, a) <=> SamePrefix(e, a)
                    /\ RouteContains(e, a) <=> SamePrefix(e, a)
                    /\ AddressContains(e, a) <=> SamePrefix(e, a)
                    /\ AddressContains(e, [fam |-> e.fam, bits |-> AddressPrefix(e)])
  BY DEF MatchersAgree
<1>1. e.dest \in Words /\ a.bits \in Words /\ e.len \in 0 .. Bits BY PathAssumption DEF Addresses, ValidPrefix
<1> DEFINE same == And(e.dest, Mask(e.len)) = And(a.bits, Mask(e.len))
           bits == \A i \in 1 .. e.len : e.dest[i] = a.bits[i]
<1>2. same <=> bits BY <1>1, Masked
<1>3. And(AddressPrefix(e), Mask(e.len)) = And(e.dest, Mask(e.len)) BY <1>1, Masked DEF AddressPrefix
<1>4. e.len = 0 => same BY NoPrefix
<1>5. SamePrefix(e, a) <=> e.fam = a.fam /\ bits BY DEF SamePrefix
<1>6. Matches(e, a) <=> e.fam = a.fam /\ (e.len = 0 \/ same) BY DEF Matches
<1>7. EntryMatches(e, a) <=> e.fam = a.fam /\ (e.len # 0 => same) BY DEF EntryMatches
<1>8. RouteContains(e, a) <=> e.fam = a.fam /\ same BY DEF RouteContains, NetworkPrefix
<1>9. AddressContains(e, a) <=> e.fam = a.fam /\ same BY DEF AddressContains
<1>10. AddressContains(e, [fam |-> e.fam, bits |-> AddressPrefix(e)]) BY <1>3 DEF AddressContains
<1> HIDE DEF same, bits
<1> QED BY <1>2, <1>4, <1>5, <1>6, <1>7, <1>8, <1>9, <1>10

\* What "best" means: of the longest prefixes a cheapest one, the last of several.
Beats(rows, b, j) ==
    \/ rows[j].len < rows[b].len
    \/ /\ rows[j].len = rows[b].len
       /\ \/ rows[j].metric > rows[b].metric
          \/ rows[j].metric = rows[b].metric /\ j <= b

LEMMA BestFinds ==
    ASSUME NEW rows, NEW n \in Nat, DOMAIN rows = 1 .. n,
           \A k \in 1 .. n : rows[k].len \in Nat /\ rows[k].metric \in Nat,
           NEW a, RowMatches(rows, a) # {}
    PROVE  /\ Best(rows, a) \in RowMatches(rows, a)
           /\ \A j \in RowMatches(rows, a) : Beats(rows, Best(rows, a), j)
<1> DEFINE f == [k \in 1 .. n |-> rows[k].len]
           C == RowMatches(rows, a)
           B == {k \in C : \A j \in C : NotAfter(rows[j], rows[k])}
<1>2. C \in SUBSET (1 .. n) /\ C # {} BY DEF RowMatches
<1>r. \A k \in 1 .. n : rows[k].len \in Nat /\ rows[k].metric \in Nat OBVIOUS
<1>3. f \in [1 .. n -> Nat] BY <1>r
<1> HIDE DEF C
<1>4. PICK k \in C : \A j \in C : f[j] <= f[k]
  <2> HIDE DEF f
  <2> QED BY <1>2, <1>3, GreatestAt
<1>5. \A j \in C : rows[j].len <= rows[k].len BY <1>2, <1>4
<1> DEFINE D == {j \in C : rows[j].len = rows[k].len}
           M == {rows[j].metric : j \in D}
<1>6. M \in SUBSET Nat /\ M # {}
  <2>1. rows[k].metric \in M OBVIOUS
  <2>2. \A j \in D : rows[j].metric \in Nat BY <1>2, <1>r
  <2> HIDE DEF D
  <2> QED BY <2>1, <2>2
<1>7. \A m \in M : \E j \in D : m = rows[j].metric OBVIOUS
<1>8. \A j \in D : rows[j].metric \in M OBVIOUS
<1> HIDE DEF M
<1>9. PICK m \in M : \A x \in M : m <= x BY <1>6, LeastNatural
<1>10. PICK b \in D : m = rows[b].metric BY <1>7
<1>11. ASSUME NEW j \in C PROVE NotAfter(rows[j], rows[b])
  <2>1. rows[b].len = rows[k].len /\ rows[j].len <= rows[k].len BY <1>5
  <2>2. rows[b].metric \in Nat /\ rows[j].metric \in Nat /\ rows[j].len \in Nat /\ rows[b].len \in Nat BY <1>2, <1>r
  <2>3. CASE rows[j].len = rows[b].len
    <3>1. j \in D BY <2>1, <2>3
    <3>2. rows[b].metric <= rows[j].metric BY <1>8, <1>9, <1>10, <3>1
    <3> QED BY <2>2, <2>3, <3>2 DEF NotAfter
  <2>4. CASE rows[j].len # rows[b].len BY <2>1, <2>2, <2>4 DEF NotAfter
  <2> QED BY <2>3, <2>4
<1>12. b \in B BY <1>11
<1>13. B \in SUBSET Nat /\ B # {} /\ \A x \in B : x <= n
  <2>1. \A x \in B : x \in 1 .. n BY <1>2
  <2> HIDE DEF B
  <2> QED BY <1>12, <2>1
<1>14. \A x \in B : x \in C /\ \A j \in C : NotAfter(rows[j], rows[x]) OBVIOUS
<1>15. Best(rows, a) = Max(B) BY <1>2 DEF Best, C
<1>b. \A x \in B, j \in C : rows[j].len = rows[x].len /\ rows[j].metric = rows[x].metric => j \in B BY DEF NotAfter
<1> HIDE DEF B
<1>16. PICK g \in B : \A l \in B : l <= g BY <1>13, GreatestNatural
<1>17. \E x \in B : \A y \in B : x >= y BY <1>13, <1>16
<1>18. Max(B) \in B /\ \A y \in B : Max(B) >= y BY <1>17 DEF Max
<1>19. ASSUME NEW j \in C PROVE Beats(rows, Best(rows, a), j)
  <2> DEFINE l == Best(rows, a)
  <2>1. l \in B /\ l \in C /\ j \in 1 .. n /\ l \in 1 .. n BY <1>2, <1>14, <1>15, <1>18
  <2>2. /\ rows[j].len \in Nat /\ rows[l].len \in Nat /\ rows[j].metric \in Nat /\ rows[l].metric \in Nat
        /\ NotAfter(rows[j], rows[l])
    BY <1>14, <1>r, <2>1
  <2>3. rows[j].len = rows[l].len /\ rows[j].metric = rows[l].metric => j <= l BY <1>b, <1>15, <1>18, <2>1
  <2> HIDE DEF l
  <2>4. Beats(rows, l, j) BY <2>2, <2>3 DEF NotAfter, Beats
  <2> QED BY <2>4 DEF l
<1> QED BY <1>14, <1>15, <1>18, <1>19 DEF C

LEMMA BestWins == TableGood => BestRouteWins
<1> SUFFICES ASSUME TableGood, NEW a \in Addresses
             PROVE  LET b == Best(table, a)
                        C == {k \in DOMAIN table : table[k].enabled /\ RouteContains(table[k], a)}
                    IN  IF b = 0 THEN C = {} ELSE b \in C /\ \A k \in C : Beats(table, b, k)
  BY DEF BestRouteWins, Beats
<1> DEFINE C == {k \in DOMAIN table : table[k].enabled /\ RouteContains(table[k], a)}
           b == Best(table, a)
<1>1. \A e : EntryMatches(e, a) <=> RouteContains(e, a)
  <2> TAKE e
  <2>1. e.len = 0 => And(e.dest, Mask(e.len)) = And(a.bits, Mask(e.len)) BY NoPrefix
  <2> QED BY <2>1 DEF EntryMatches, RouteContains, NetworkPrefix
<1>2. C = RowMatches(table, a) BY <1>1 DEF RowMatches
<1>3. PICK n \in Nat : DOMAIN table = 1 .. n BY DEF TableGood, IsList
<1>4. \A k \in 1 .. n : table[k].len \in Nat /\ table[k].metric \in Nat BY <1>3 DEF TableGood, IsRow
<1>5. C \subseteq 1 .. n BY <1>3
<1> HIDE DEF C
<1>6. CASE C = {}
  <2>1. b = 0 BY <1>2, <1>6 DEF Best
  <2> QED BY <1>6, <2>1 DEF C
<1>7. CASE C # {}
  <2>1. b \in C /\ \A k \in C : Beats(table, b, k) BY <1>2, <1>3, <1>4, <1>7, BestFinds
  <2>2. b # 0 BY <1>5, <2>1
  <2> QED BY <2>1, <2>2 DEF C
<1> QED BY <1>6, <1>7

LEMMA TiesDiffer == NetGood /\ SyncGood => TiesAside
<1> SUFFICES ASSUME NetGood, SyncGood, ~edited, fwd # <<>>, NEW a \in Addresses
             PROVE  /\ Lookup(a) = 0 <=> Best(InstalledRows, a) = 0
                    /\ Lookup(a) # 0 =>
                         /\ Best(InstalledRows, a) <= Lookup(a)
                         /\ InstalledRows[Best(InstalledRows, a)].len = InstalledRows[Lookup(a)].len
                         /\ InstalledRows[Best(InstalledRows, a)].metric <= InstalledRows[Lookup(a)].metric
  BY DEF TiesAside
<1> DEFINE rows == InstalledRows
           C == Candidates(a)
           l == Lookup(a)
           b == Best(rows, a)
<1>1. Filled BY DEF SyncGood
<1>2. PICK n \in Nat :
        /\ DOMAIN fwd = 1 .. n /\ DOMAIN rows = 1 .. n
        /\ \A k \in 1 .. n : /\ Installable(rows[k]) /\ fwd[k] = EntryFrom(rows[k])
                              /\ rows[k].len \in Nat /\ rows[k].metric \in Nat
  <2> HIDE DEF Filled
  <2> QED BY <1>1, FilledFacts
<1> HIDE DEF rows
<1>3. \A k \in 1 .. n : fwd[k].len = rows[k].len /\ fwd[k].enabled /\ rows[k].enabled
  BY <1>2 DEF EntryFrom, Installable, RouteUsable
<1>4. \A k \in 1 .. n : Matches(fwd[k], a) <=> EntryMatches(rows[k], a)
  BY <1>2 DEF EntryFrom, Matches, EntryMatches
<1>5. C = RowMatches(rows, a) BY <1>2, <1>3, <1>4 DEF Candidates, RowMatches
<1>6. C \subseteq 1 .. n BY <1>2 DEF Candidates
<1> HIDE DEF C
<1>7. CASE C = {}
  <2>1. l = 0 BY <1>7 DEF Lookup, C
  <2>2. b = 0 BY <1>5, <1>7 DEF Best
  <2> QED BY <2>1, <2>2 DEF rows
<1>8. CASE C # {}
  <2>1. l \in C /\ \A j \in C : fwd[j].len < fwd[l].len \/ (fwd[j].len = fwd[l].len /\ j <= l)
    <3>1. \A k \in 1 .. n : fwd[k].len \in Nat BY <1>2, <1>3
    <3> QED BY <1>2, <1>8, <3>1, LookupFinds DEF C
  <2>2. b \in C /\ \A j \in C : Beats(rows, b, j) BY <1>2, <1>5, <1>8, BestFinds
  <2> HIDE DEF l, b
  <2>3. l \in 1 .. n /\ b \in 1 .. n BY <1>6, <2>1, <2>2
  <2>4. /\ rows[l].len \in Nat /\ rows[b].len \in Nat /\ rows[l].metric \in Nat /\ rows[b].metric \in Nat
        /\ fwd[l].len = rows[l].len /\ fwd[b].len = rows[b].len
    BY <1>2, <1>3, <2>3
  <2>5. rows[b].len < rows[l].len \/ (rows[b].len = rows[l].len /\ b <= l) BY <2>1, <2>2, <2>4
  <2>6. rows[l].len < rows[b].len \/ (rows[l].len = rows[b].len /\ rows[b].metric <= rows[l].metric)
    <3>1. Beats(rows, b, l) BY <2>1, <2>2
    <3> QED BY <2>4, <3>1 DEF Beats
  <2>7. b <= l /\ rows[b].len = rows[l].len /\ rows[b].metric <= rows[l].metric BY <2>4, <2>5, <2>6
  <2>8. l # 0 /\ b # 0 BY <2>3
  <2> QED BY <2>7, <2>8 DEF l, b, rows
<1> QED BY <1>7, <1>8

LEMMA ResolvedLeaves == ResolvedCanLeave
<1> SUFFICES ASSUME NEW a \in Addresses, NEW n \in ResolvedBy(a)
             PROVE  EgressAccepts(Resolve(a), n.mac) <=> n.addr # Unspecified /\ n.mac # "zero"
  BY DEF ResolvedCanLeave
<1>1. InterfaceOperational(net, Resolve(a).ifc) /\ n.addr = Resolve(a).hop
  BY DEF ResolvedBy
<1>2. Resolve(a).ifc # 0 BY <1>1, IpHelperAssumption DEF InterfaceOperational
<1> QED BY <1>1, <1>2 DEF EgressAccepts

LEMMA IngressOwn == IngressFindsOwn
<1> SUFFICES ASSUME NEW o \in IngressPackets, ConnectionFound(o)
             PROVE  /\ o.transport \in {"Tcp", "Udp"}
                    /\ <<o.src, o.dst>> \in DOMAIN conn /\ ~Expired(conn[<<o.src, o.dst>>])
  BY DEF IngressFindsOwn
<1>1. ConnectionKeyOf(o) # None /\ ConnLookup(ConnectionKeyOf(o)) BY DEF ConnectionFound
<1>2. o.transport \in {"Tcp", "Udp"} /\ ConnectionKeyOf(o) = <<o.src, o.dst>> BY <1>1 DEF ConnectionKeyOf
<1> QED BY <1>1, <1>2 DEF ConnLookup

-----------------------------------------------------------------------------
(* The whole: each part steps by its own relation, or rests.               *)

\* The inductive invariant of the routing state, the routing table and the store.
RoutingInv == HelperGood /\ RefreshGood /\ NetGood /\ SyncGood /\ TableGood /\ StoreGood

LEMMA PartsStep ==
    ASSUME [Next]_vars
    PROVE  [RoutingNext]_routingVars /\ [TableNext]_table /\ [StoreNext]_storeVars
<1>1. CASE scenario = "traffic" /\ GatewayNext /\ UNCHANGED <<routingVars, table, storeVars>> BY <1>1
<1>2. CASE scenario = "routing" /\ RoutingNext /\ UNCHANGED <<gatewayVars, table, storeVars>> BY <1>2
<1>3. CASE scenario = "table" /\ TableNext /\ UNCHANGED <<gatewayVars, routingVars, storeVars>> BY <1>3
<1>4. CASE scenario = "store" /\ StoreNext /\ UNCHANGED <<gatewayVars, routingVars, table>> BY <1>4
<1>5. CASE UNCHANGED vars BY <1>5 DEF vars
<1> QED BY <1>1, <1>2, <1>3, <1>4, <1>5 DEF Next

\* A step of the routing state is one of the backend and the Engine, or leaves both.
LEMMA RoutingSteps ==
    ASSUME [RoutingNext]_routingVars
    PROVE  StateNext \/ (UNCHANGED helperVars /\ UNCHANGED stateVars)
  BY DEF RoutingNext, routingVars, SyncFromNetworkState, Add, RemoveEntry, SetEnabled

LEMMA RoutingStart == Init => RoutingInv
<1> SUFFICES ASSUME Init PROVE RoutingInv OBVIOUS
<1> USE DEF Init, RoutingInit, StateInit, HelperInit
<1>1. HelperGood
  <2>1. TablesFit
    <3>1. ifs = [i \in Interfaces |-> Absent] /\ routes = <<>> /\ neighs = {} /\ conns = {} BY DEF NoTables
    <3> QED BY <3>1 DEF TablesFit
  <2>2. SystemFits
    <3>1. PICK r \in OsRoutes : osRoutes = <<r>> OBVIOUS
    <3>2. osRoutes \in Seq(OsRoutes) BY <3>1
    <3>3. osIfs \in [Interfaces -> {"Up", "Down"}] /\ osNeighs = {} /\ osConns = {} OBVIOUS
    <3> QED BY <3>2, <3>3 DEF SystemFits, OperStates
  <2>3. at = 0 /\ running = FALSE /\ quiet = FALSE /\ fresh = FALSE OBVIOUS
  <2>4. at \in 0 .. 9 BY <2>3
  <2> QED BY <2>1, <2>2, <2>3, <2>4, HelperParts
<1>2. RefreshGood BY DEF RefreshGood
<1>3. engine = "none" /\ net = EmptyNet /\ fwd = <<>> OBVIOUS
<1>4. NetGood BY <1>3, EmptyNetGood DEF NetGood
<1>5. SyncGood BY <1>3 DEF SyncGood
<1>6. TableGood
  <2>1. table = <<>> BY DEF PathInit
  <2> QED BY <2>1, EmptyNetGood DEF TableGood
<1>7. StoreGood
  <2>1. store = DefaultSnapshot /\ copy = DefaultSnapshot /\ copyEdited = FALSE BY DEF StoreInit
  <2>2. IsSnapshot(DefaultSnapshot) BY StateStoreAssumption DEF IsSnapshot, DefaultSnapshot
  <2>3. store.gen \in Nat BY <2>1, <2>2 DEF IsSnapshot
  <2>4. copy.gen <= store.gen /\ copy = store BY <2>1, <2>3
  <2>5. IsSnapshot(store) /\ IsSnapshot(copy) /\ copyEdited \in BOOLEAN BY <2>1, <2>2
  <2> QED BY <2>4, <2>5 DEF StoreGood
<1> QED BY <1>1, <1>2, <1>4, <1>5, <1>6, <1>7 DEF RoutingInv

LEMMA RoutingStep == RoutingInv /\ [Next]_vars => RoutingInv'
<1> SUFFICES ASSUME RoutingInv, [Next]_vars PROVE RoutingInv' OBVIOUS
<1>1. [RoutingNext]_routingVars /\ [TableNext]_table /\ [StoreNext]_storeVars BY PartsStep
<1>2. StateNext \/ (UNCHANGED helperVars /\ UNCHANGED stateVars) BY <1>1, RoutingSteps
<1>3. HelperNext BY <1>2, StateNextIs DEF HelperNext
<1>4. HelperGood' /\ RefreshGood' BY <1>3, HelperStep, RefreshStepGood DEF RoutingInv
<1>5. NetGood'
  <2>1. CASE StateNext BY <2>1, NetStep DEF RoutingInv
  <2>2. CASE UNCHANGED stateVars
    <3>1. engine' = engine /\ net' = net BY <2>2 DEF stateVars
    <3> QED BY <3>1 DEF RoutingInv, NetGood, EmptyNet
  <2> QED BY <1>2, <2>1, <2>2
<1>6. SyncGood' BY <1>1, SyncStep DEF RoutingInv
<1>7. TableGood' BY <1>1, TableStep DEF RoutingInv
<1>8. StoreGood' BY <1>1, StoreStep DEF RoutingInv
<1> QED BY <1>4, <1>5, <1>6, <1>7, <1>8 DEF RoutingInv

\* In every run the parts keep what each relies on (IpHelperBackend, NetworkState,
\* ForwardingTable, RoutingTable).
THEOREM RoutingInvariant == Spec => []RoutingInv
<1>1. RoutingInv /\ UNCHANGED vars => RoutingInv' BY RoutingStep
<1> QED BY RoutingStart, RoutingStep, PTL DEF Spec

\* The Engine sees complete refreshes only, whatever fails on the way, and a
\* generation tells whether a copy is current (init.rs initialize,
\* NetworkState::generation).
THEOREM NetworkSound == Spec => []NetworkInv
<1>1. RoutingInv => NetworkInv
  <2> SUFFICES ASSUME RoutingInv PROVE NetworkInv OBVIOUS
  <2>1. EngineSeesRefreshes BY DEF RoutingInv, HelperGood, NetGood, EngineSeesRefreshes
  <2>2. GenerationTells BY StoreTells DEF RoutingInv
  <2> QED BY <2>1, <2>2 DEF NetworkInv
<1> QED BY <1>1, RoutingInvariant, PTL

\* A complete refresh of a system that stands still is exact, whatever earlier
\* refreshes left in the tables (refresh_all of the four tables).
THEOREM RefreshExact == Spec => []RefreshIsExact
<1>1. RoutingInv => RefreshIsExact
  <2> SUFFICES ASSUME RoutingInv, fresh, quiet, at = 0
               PROVE  /\ ifs = osIfs
                      /\ \A r \in ToSet(routes) : r \in ToSet(osRoutes) /\ r.ifc # 0
                      /\ \A r \in ToSet(osRoutes) : r.ifc # 0 => \E s \in ToSet(routes) : SameRoute(r, s)
                      /\ \A k, l \in DOMAIN routes : SameRoute(routes[k], routes[l]) => k = l
                      /\ neighs = {n \in osNeighs : n.ifc # 0}
                      /\ conns = {c \in osConns : c.paired}
    BY DEF RefreshIsExact
  <2>1. Stage = 10 BY DEF Stage
  <2>2. /\ ifs = osIfs /\ RoutesExact({4, 6}) /\ neighs = UsableNeighbors
        /\ conns = {c \in osConns : c.paired}
    BY <2>1 DEF RoutingInv, RefreshGood
  <2>3. \A r \in ToSet(osRoutes) : r.fam \in {4, 6}
    BY IpHelperAssumption DEF RoutingInv, HelperGood, HelperTypeOK
  <2>4. \A k, l \in DOMAIN routes : SameRoute(routes[k], routes[l]) => k = l BY DEF RoutingInv, HelperGood
  <2> QED BY <2>2, <2>3, <2>4 DEF RoutesExact, UsableNeighbors
<1> QED BY <1>1, RoutingInvariant, PTL

\* What the tables that hold routes decide, for addresses of any width: each by
\* the longest prefix, alike but for rows of one prefix, where one goes by metric
\* and the other by place (forwarding.rs, routing.rs, routes.rs, addresses.rs).
THEOREM RoutesChosen == Spec => []RoutingAgrees
<1>1. RoutingInv => RoutingAgrees
  BY SyncedRoutes, Matchers, BestWins, TiesDiffer, ResolvedLeaves, IngressOwn DEF RoutingInv, RoutingAgrees
<1> QED BY <1>1, RoutingInvariant, PTL
=============================================================================
