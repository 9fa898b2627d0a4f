----------------------------- MODULE ListProofs -----------------------------
(***************************************************************************)
(* What sorted and filtered lists contain (Lists), and the facts about     *)
(* natural numbers that the proofs of the components share.                *)
(***************************************************************************)
EXTENDS Lists, Integers, FiniteSetTheorems, NaturalsInduction, TLAPS

\* Fewer elements come before a than before b when a comes before b.
LEMMA RankGrows ==
    ASSUME NEW S, IsFiniteSet(S), NEW R, Orders(R, S)
    PROVE  /\ Cardinality(S) \in Nat
           /\ \A a \in S : Rank(S, R, a) \in 0 .. Cardinality(S) - 1
           /\ \A a, b \in S : <<a, b>> \in R => Rank(S, R, a) < Rank(S, R, b)
<1> DEFINE P(a) == {b \in S : <<b, a>> \in R}
           n == Cardinality(S)
<1>1. n \in Nat BY FS_CardinalityType
<1>2. ASSUME NEW a \in S PROVE IsFiniteSet(P(a)) /\ Cardinality(P(a)) \in Nat
  <2>1. P(a) \in SUBSET S OBVIOUS
  <2>2. IsFiniteSet(P(a)) BY <2>1, FS_Subset
  <2> QED BY <2>2, FS_CardinalityType
<1>3. ASSUME NEW a \in S PROVE Cardinality(P(a)) < n
  <2>1. P(a) \in SUBSET S OBVIOUS
  <2>2. a \notin P(a) BY DEF Orders
  <2>3. Cardinality(P(a)) <= n /\ Cardinality(P(a)) # n BY <2>1, <2>2, FS_Subset
  <2> QED BY <1>1, <1>2, <2>3
<1>4. ASSUME NEW a \in S, NEW b \in S, <<a, b>> \in R PROVE Cardinality(P(a)) < Cardinality(P(b))
  <2>1. P(a) \in SUBSET P(b) BY <1>4 DEF Orders
  <2>2. a \notin P(a) /\ a \in P(b) BY <1>4 DEF Orders
  <2>3. IsFiniteSet(P(b)) BY <1>2
  <2>4. Cardinality(P(a)) <= Cardinality(P(b)) /\ Cardinality(P(a)) # Cardinality(P(b))
    BY <2>1, <2>2, <2>3, FS_Subset
  <2> QED BY <1>2, <2>4
<1>5. \A a \in S : Rank(S, R, a) = Cardinality(P(a)) BY DEF Rank
<1> HIDE DEF P
<1>6. \A a \in S : Rank(S, R, a) \in 0 .. n - 1 BY <1>1, <1>2, <1>3, <1>5
<1>7. \A a, b \in S : <<a, b>> \in R => Rank(S, R, a) < Rank(S, R, b) BY <1>4, <1>5
<1> QED BY <1>1, <1>6, <1>7

\* A sorted list has every element once, at the place its rank says.
LEMMA RankedFacts ==
    ASSUME NEW S, IsFiniteSet(S), NEW R, Orders(R, S)
    PROVE  /\ Cardinality(S) \in Nat
           /\ DOMAIN Ranked(S, R) = 1 .. Cardinality(S)
           /\ Ranked(S, R) \in Seq(S) /\ Len(Ranked(S, R)) = Cardinality(S)
           /\ \A k \in 1 .. Cardinality(S) : Ranked(S, R)[k] \in S
           /\ \A a \in S : \E k \in 1 .. Cardinality(S) : Ranked(S, R)[k] = a
           /\ \A i, j \in 1 .. Cardinality(S) : i < j => <<Ranked(S, R)[i], Ranked(S, R)[j]>> \in R
           /\ \A i, j \in 1 .. Cardinality(S) : Ranked(S, R)[i] = Ranked(S, R)[j] => i = j
<1> DEFINE n == Cardinality(S)
           f == Ranked(S, R)
           rank == [a \in S |-> Rank(S, R, a)]
           T == 0 .. n - 1
<1>1. n \in Nat /\ \A a \in S : rank[a] \in T BY RankGrows
<1>2. \A a, b \in S : <<a, b>> \in R => rank[a] < rank[b] BY RankGrows
<1>3. \A a, b \in S : rank[a] = rank[b] => a = b
  <2> SUFFICES ASSUME NEW a \in S, NEW b \in S, rank[a] = rank[b], a # b PROVE FALSE OBVIOUS
  <2>1. <<a, b>> \in R \/ <<b, a>> \in R BY DEF Orders
  <2>2. rank[a] < rank[b] \/ rank[b] < rank[a] BY <1>2, <2>1
  <2>3. rank[a] \in Int BY <1>1
  <2> HIDE DEF rank
  <2> QED BY <2>2, <2>3
<1>4. rank \in Injection(S, T)
  <2>1. rank \in [S -> T] BY <1>1
  <2>2. \A a, b \in DOMAIN rank : rank[a] = rank[b] => a = b BY <1>3
  <2> HIDE DEF rank
  <2> QED BY <2>1, <2>2 DEF Injection, IsInjective
<1>5. IsFiniteSet(T) /\ Cardinality(T) = n
  <2>1. 0 \in Int /\ n - 1 \in Int BY <1>1
  <2>2. IsFiniteSet(0 .. n - 1) /\ Cardinality(0 .. n - 1) = IF 0 > n - 1 THEN 0 ELSE n - 1 - 0 + 1
    BY <2>1, FS_Interval
  <2> QED BY <1>1, <2>2
<1>6. rank \in Surjection(S, T) BY <1>4, <1>5, FS_Injection
<1>7. \A k \in T : \E a \in S : rank[a] = k BY <1>6 DEF Surjection
<1>8. \A k \in 1 .. n : k - 1 \in T BY <1>1
<1>9. \A k \in 1 .. n : \E a \in S : Rank(S, R, a) = k - 1 BY <1>7, <1>8
<1>10. DOMAIN f = 1 .. n /\ \A k \in 1 .. n : f[k] = CHOOSE a \in S : Rank(S, R, a) = k - 1 BY DEF Ranked
<1>11. \A k \in 1 .. n : f[k] \in S /\ rank[f[k]] = k - 1
  <2> SUFFICES ASSUME NEW k \in 1 .. n PROVE f[k] \in S /\ rank[f[k]] = k - 1 OBVIOUS
  <2>1. \E a \in S : Rank(S, R, a) = k - 1 BY <1>9
  <2>2. f[k] = CHOOSE a \in S : Rank(S, R, a) = k - 1 BY <1>10
  <2>3. f[k] \in S /\ Rank(S, R, f[k]) = k - 1 BY <2>1, <2>2
  <2> QED BY <2>3
<1> HIDE DEF rank, T, f, n
<1>12. \A i, j \in 1 .. n : i < j => <<f[i], f[j]>> \in R
  <2> SUFFICES ASSUME NEW i \in 1 .. n, NEW j \in 1 .. n, i < j PROVE <<f[i], f[j]>> \in R OBVIOUS
  <2>1. rank[f[i]] = i - 1 /\ rank[f[j]] = j - 1 /\ f[i] \in S /\ f[j] \in S BY <1>11
  <2>2. i \in Int /\ j \in Int BY <1>1
  <2>3. f[i] # f[j] BY <2>1, <2>2
  <2>4. <<f[j], f[i]>> \in R => rank[f[j]] < rank[f[i]] BY <1>2, <2>1
  <2>5. <<f[j], f[i]>> \notin R BY <2>1, <2>2, <2>4
  <2> QED BY <2>1, <2>3, <2>5 DEF Orders
<1>13. \A i, j \in 1 .. n : f[i] = f[j] => i = j
  <2> SUFFICES ASSUME NEW i \in 1 .. n, NEW j \in 1 .. n, f[i] = f[j] PROVE i = j OBVIOUS
  <2>1. i - 1 = j - 1 BY <1>11
  <2>2. i \in Int /\ j \in Int BY <1>1
  <2> QED BY <2>1, <2>2
<1>14. \A a \in S : \E k \in 1 .. n : f[k] = a
  <2> SUFFICES ASSUME NEW a \in S PROVE \E k \in 1 .. n : f[k] = a OBVIOUS
  <2> DEFINE k == rank[a] + 1
  <2>1. rank[a] \in T BY <1>1
  <2>2. k \in 1 .. n /\ k - 1 = rank[a] BY <1>1, <2>1 DEF T
  <2>3. f[k] \in S /\ rank[f[k]] = rank[a] BY <1>11, <2>2
  <2>4. f[k] = a BY <1>3, <2>3
  <2> QED BY <2>2, <2>4
<1>15. f \in Seq(S) /\ Len(f) = n
  <2>1. f = [k \in 1 .. n |-> f[k]] BY <1>10 DEF f, Ranked, n
  <2>2. f \in [1 .. n -> S] BY <1>11, <2>1
  <2> QED BY <1>1, <1>10, <2>2
<1> QED BY <1>1, <1>10, <1>11, <1>12, <1>13, <1>14, <1>15 DEF f, n

\* at lists the places I in their order.
Listing(at, I) ==
    /\ Cardinality(I) \in Nat
    /\ at \in [1 .. Cardinality(I) -> I]
    /\ \A i \in I : \E k \in 1 .. Cardinality(I) : at[k] = i
    /\ \A k, l \in 1 .. Cardinality(I) : k < l => at[k] < at[l]
    /\ \A k, l \in 1 .. Cardinality(I) : at[k] = at[l] => k = l

LEMMA InOrderFacts ==
    ASSUME NEW I \in SUBSET Nat, IsFiniteSet(I)
    PROVE  Listing(InOrder(I), I)
<1> DEFINE R == {p \in I \X I : p[1] < p[2]}
           n == Cardinality(I)
           at == Ranked(I, R)
<1>1. \A a, b \in I : <<a, b>> \in R <=> a < b OBVIOUS
<1> HIDE DEF R
<1>2. \A a \in I : a \in Int OBVIOUS
<1>3. Orders(R, I) BY <1>1, <1>2 DEF Orders
<1>4. /\ n \in Nat /\ DOMAIN at = 1 .. n /\ \A k \in 1 .. n : at[k] \in I
      /\ \A a \in I : \E k \in 1 .. n : at[k] = a
      /\ \A k, l \in 1 .. n : k < l => <<at[k], at[l]>> \in R
      /\ \A k, l \in 1 .. n : at[k] = at[l] => k = l
  BY <1>3, RankedFacts
<1>5. at \in [1 .. n -> I] BY <1>4 DEF Ranked
<1>6. InOrder(I) = at BY DEF InOrder, R
<1> HIDE DEF at, n
<1>7. \A k, l \in 1 .. n : k < l => at[k] < at[l] BY <1>1, <1>4
<1>8. Listing(at, I) BY <1>4, <1>5, <1>7 DEF Listing, n
<1> QED BY <1>6, <1>8

\* A filtered list has the elements at the chosen places, and no others.
LEMMA PickedFacts ==
    ASSUME NEW S, NEW s \in Seq(S), NEW I \in SUBSET DOMAIN s
    PROVE  /\ Cardinality(I) \in Nat /\ IsFiniteSet(I)
           /\ Picked(s, I) \in Seq(S) /\ Len(Picked(s, I)) = Cardinality(I)
           /\ \E at : /\ Listing(at, I)
                      /\ \A k \in 1 .. Cardinality(I) : Picked(s, I)[k] = s[at[k]]
<1> DEFINE n == Cardinality(I)
           at == InOrder(I)
           r == Picked(s, I)
<1>1. DOMAIN s = 1 .. Len(s) /\ Len(s) \in Nat /\ \A i \in DOMAIN s : s[i] \in S OBVIOUS
<1>2. I \in SUBSET Nat BY <1>1
<1>3. IsFiniteSet(I)
  <2>1. 1 \in Int /\ Len(s) \in Int BY <1>1
  <2>2. IsFiniteSet(1 .. Len(s)) BY <2>1, FS_Interval
  <2> QED BY <1>1, <2>2, FS_Subset
<1>4. Listing(at, I) BY <1>2, <1>3, InOrderFacts
<1>5. n \in Nat /\ at \in [1 .. n -> I] BY <1>4 DEF Listing
<1>6. r = [k \in 1 .. n |-> s[at[k]]] BY <1>5 DEF Picked
<1> HIDE DEF at, n, r
<1>7. \A k \in 1 .. n : s[at[k]] \in S BY <1>1, <1>5
<1>8. r \in Seq(S) /\ Len(r) = n BY <1>5, <1>6, <1>7
<1>9. \A k \in 1 .. n : r[k] = s[at[k]] BY <1>6
<1> QED BY <1>3, <1>4, <1>5, <1>8, <1>9 DEF n, r

\* ... so a filtered list of distinct elements has distinct elements.
LEMMA PickedElements ==
    ASSUME NEW S, NEW s \in Seq(S), NEW I \in SUBSET DOMAIN s
    PROVE  /\ Picked(s, I) \in Seq(S)
           /\ \A k \in DOMAIN Picked(s, I) : \E i \in I : Picked(s, I)[k] = s[i]
           /\ \A i \in I : \E k \in DOMAIN Picked(s, I) : Picked(s, I)[k] = s[i]
           /\ (\A i, j \in I : s[i] = s[j] => i = j)
                => \A k, l \in DOMAIN Picked(s, I) : Picked(s, I)[k] = Picked(s, I)[l] => k = l
<1> DEFINE n == Cardinality(I)
           r == Picked(s, I)
<1>1. n \in Nat /\ r \in Seq(S) /\ Len(r) = n BY PickedFacts
<1>2. PICK at : Listing(at, I) /\ \A k \in 1 .. n : r[k] = s[at[k]] BY PickedFacts
<1>3. DOMAIN r = 1 .. n BY <1>1
<1> HIDE DEF r, n
<1>4. at \in [1 .. n -> I] /\ \A i \in I : \E k \in 1 .. n : at[k] = i BY <1>2 DEF Listing, n
<1>5. \A k, l \in 1 .. n : at[k] = at[l] => k = l BY <1>2 DEF Listing, n
<1>6. \A k \in DOMAIN r : \E i \in I : r[k] = s[i] BY <1>2, <1>3, <1>4
<1>7. \A i \in I : \E k \in DOMAIN r : r[k] = s[i] BY <1>2, <1>3, <1>4
<1>8. ASSUME \A i, j \in I : s[i] = s[j] => i = j,
             NEW k \in DOMAIN r, NEW l \in DOMAIN r, r[k] = r[l]
      PROVE  k = l
  <2>1. at[k] \in I /\ at[l] \in I /\ s[at[k]] = s[at[l]] BY <1>2, <1>3, <1>4, <1>8
  <2>2. at[k] = at[l] BY <1>8, <2>1
  <2> QED BY <1>3, <1>5, <2>2
<1> QED BY <1>1, <1>6, <1>7, <1>8 DEF r

-----------------------------------------------------------------------------
(* Natural numbers.                                                         *)

LessThan == {ss \in Nat \X Nat : ss[1] < ss[2]}

\* A set of naturals that has an element has a least one.
LEMMA LeastNatural ==
    ASSUME NEW T \in SUBSET Nat, T # {}
    PROVE  \E m \in T : \A n \in T : m <= n
<1>1. IsWellFoundedOn(LessThan, Nat) BY NatLessThanWellFounded DEF OpToRel, LessThan
<1>2. PICK m \in T : \A n \in T : ~(<<n, m>> \in LessThan) BY <1>1, WFMin
<1>3. ASSUME NEW n \in T PROVE m <= n
  <2>1. <<n, m>> \notin LessThan BY <1>2
  <2>2. n \in Nat /\ m \in Nat OBVIOUS
  <2>3. ~(n < m) BY <2>1, <2>2 DEF LessThan
  <2> QED BY <2>2, <2>3
<1> QED BY <1>3

\* A bounded one has a greatest.
LEMMA GreatestNatural ==
    ASSUME NEW T \in SUBSET Nat, T # {}, NEW b \in Nat, \A n \in T : n <= b
    PROVE  \E m \in T : \A n \in T : n <= m
<1> DEFINE U == {c \in Nat : \A n \in T : n <= c}
<1>1. b \in U /\ U \in SUBSET Nat OBVIOUS
<1>2. PICK c \in U : \A d \in U : c <= d BY <1>1, LeastNatural
<1>3. c \in Nat /\ \A n \in T : n <= c OBVIOUS
<1>4. c \in T
  <2> SUFFICES ASSUME c \notin T PROVE FALSE OBVIOUS
  <2>1. \A n \in T : n < c BY <1>3
  <2>2. PICK n \in T : TRUE OBVIOUS
  <2>3. c - 1 \in Nat BY <1>3, <2>1, <2>2
  <2>4. \A k \in T : k <= c - 1 BY <1>3, <2>1
  <2>5. c - 1 \in U BY <2>3, <2>4
  <2>6. c <= c - 1 BY <1>2, <2>5
  <2> QED BY <1>3, <2>6
<1> QED BY <1>3, <1>4

\* What holds of 0 and is passed on from k - 1 to k holds up to n.
LEMMA UpTo ==
    ASSUME NEW n \in Nat, NEW S, 0 \in S, \A k \in 1 .. n : k - 1 \in S => k \in S
    PROVE  0 .. n \subseteq S
<1> DEFINE T == {k \in 0 .. n : k \notin S}
<1> SUFFICES ASSUME T # {} PROVE FALSE OBVIOUS
<1>1. T \in SUBSET Nat OBVIOUS
<1>2. PICK m \in T : \A k \in T : m <= k BY <1>1, LeastNatural
<1>3. m \in 1 .. n BY <1>2
<1>4. m - 1 \in 0 .. n /\ m - 1 \notin T BY <1>2, <1>3
<1> QED BY <1>2, <1>3, <1>4

\* f[k] is what k steps from base give.
Computation(f, X, n, base, step) ==
    /\ f \in [0 .. n -> X]
    /\ f[0] = base
    /\ \A k \in 1 .. n : f[k] = step[<<k, f[k - 1]>>]

\* A computation of n steps exists.
LEMMA StepsExist ==
    ASSUME NEW X, NEW n \in Nat, NEW base \in X, NEW step \in [(1 .. n) \X X -> X]
    PROVE  \E f : Computation(f, X, n, base, step)
<1> DEFINE Computes(f, m) == f[0] = base /\ \A k \in 1 .. m : f[k] = step[<<k, f[k - 1]>>]
           S == {m \in 0 .. n : \E f \in [0 .. m -> X] : Computes(f, m)}
<1>1. 0 \in S
  <2> DEFINE f == [i \in 0 .. 0 |-> base]
  <2>1. f \in [0 .. 0 -> X] /\ Computes(f, 0) OBVIOUS
  <2>2. \E g \in [0 .. 0 -> X] : Computes(g, 0) BY <2>1
  <2> HIDE DEF Computes
  <2> QED BY <2>2
<1>2. ASSUME NEW m \in 1 .. n, m - 1 \in S PROVE m \in S
  <2>1. PICK f \in [0 .. m - 1 -> X] : Computes(f, m - 1) BY <1>2
  <2> DEFINE g == [k \in 0 .. m |-> IF k = m THEN step[<<m, f[m - 1]>>] ELSE f[k]]
  <2>2. f[m - 1] \in X BY <2>1
  <2>3. step[<<m, f[m - 1]>>] \in X BY <2>2
  <2>4. g \in [0 .. m -> X]
    <3>1. \A k \in 0 .. m : g[k] \in X
      <4> TAKE k \in 0 .. m
      <4>1. CASE k = m BY <2>3, <4>1
      <4>2. CASE k # m
        <5>1. k \in 0 .. m - 1 BY <4>2
        <5> QED BY <2>1, <4>2, <5>1
      <4> QED BY <4>1, <4>2
    <3> QED BY <3>1
  <2>5. Computes(g, m)
    <3>1. g[0] = base BY <2>1
    <3>2. ASSUME NEW k \in 1 .. m PROVE g[k] = step[<<k, g[k - 1]>>]
      <4>1. g[k - 1] = f[k - 1] BY <3>2
      <4>2. CASE k = m
        <5>1. g[m] = step[<<m, f[m - 1]>>] OBVIOUS
        <5> QED BY <4>1, <4>2, <5>1
      <4>3. CASE k # m
        <5>1. k \in 1 .. m - 1 /\ k \in 0 .. m BY <4>3
        <5>2. f[k] = step[<<k, f[k - 1]>>] BY <2>1, <5>1
        <5>3. g[k] = f[k] BY <4>3, <5>1
        <5> QED BY <4>1, <5>2, <5>3
      <4> QED BY <4>2, <4>3
    <3> QED BY <3>1, <3>2
  <2> HIDE DEF Computes, g
  <2> QED BY <2>4, <2>5
<1> HIDE DEF S
<1>3. 0 .. n \subseteq S BY <1>1, <1>2, UpTo
<1>4. n \in S BY <1>3
<1>5. PICK f \in [0 .. n -> X] : Computes(f, n) BY <1>4 DEF S
<1>6. Computation(f, X, n, base, step) BY <1>5 DEF Computation
<1> QED BY <1>6

\* Finitely many naturals, some of them looked at: one is the greatest.
LEMMA GreatestAt ==
    ASSUME NEW n \in Nat, NEW f \in [1 .. n -> Nat], NEW C \in SUBSET (1 .. n), C # {}
    PROVE  \E k \in C : \A j \in C : f[j] <= f[k]
<1> DEFINE S == {m \in 0 .. n : \E b \in Nat : \A j \in 1 .. m : f[j] <= b}
           T == {f[j] : j \in C}
<1>1. 0 \in S BY 0 \in Nat
<1>2. ASSUME NEW m \in 1 .. n, m - 1 \in S PROVE m \in S
  <2>1. PICK b \in Nat : \A j \in 1 .. m - 1 : f[j] <= b BY <1>2
  <2>2. b + f[m] \in Nat /\ f[m] \in Nat OBVIOUS
  <2>3. ASSUME NEW j \in 1 .. m PROVE f[j] <= b + f[m]
    <3>1. j \in 1 .. n /\ f[j] \in Nat OBVIOUS
    <3>2. CASE j = m BY <2>2, <3>2
    <3>3. CASE j # m
      <4>1. j \in 1 .. m - 1 BY <3>3
      <4> QED BY <2>1, <2>2, <3>1, <4>1
    <3> QED BY <3>2, <3>3
  <2>4. \E c \in Nat : \A j \in 1 .. m : f[j] <= c BY <2>2, <2>3
  <2>5. m \in 0 .. n OBVIOUS
  <2> QED BY <2>4, <2>5
<1>3. PICK b \in Nat : \A j \in 1 .. n : f[j] <= b
  <2> HIDE DEF S
  <2>1. 0 .. n \subseteq S BY <1>1, <1>2, UpTo
  <2>2. n \in 0 .. n OBVIOUS
  <2>3. n \in S BY <2>1, <2>2
  <2> QED BY <2>3 DEF S
<1>4. T \in SUBSET Nat /\ T # {} /\ \A x \in T : x <= b BY <1>3
<1>5. \A j \in C : f[j] \in T OBVIOUS
<1>6. \A x \in T : \E j \in C : x = f[j] OBVIOUS
<1> HIDE DEF T
<1>7. PICK g \in T : \A x \in T : x <= g BY <1>4, GreatestNatural
<1> QED BY <1>5, <1>6, <1>7

-----------------------------------------------------------------------------
(* Sums.                                                                    *)

\* f[k] is the sum of the first k numbers of s.
Sums(f, s) ==
    /\ f \in [0 .. Len(s) -> Int]
    /\ f[0] = 0
    /\ \A k \in 1 .. Len(s) : f[k] = f[k - 1] + s[k]

LEMMA TotalSums == ASSUME NEW s \in Seq(Nat) PROVE \E f : Sums(f, s) /\ Total(s) = f[Len(s)]
<1> DEFINE n == Len(s)
           step == [p \in (1 .. n) \X Int |-> p[2] + s[p[1]]]
<1>1. n \in Nat /\ \A k \in 1 .. n : s[k] \in Int OBVIOUS
<1>2. step \in [(1 .. n) \X Int -> Int]
  <2>1. \A p \in (1 .. n) \X Int : step[p] \in Int BY <1>1
  <2> QED BY <2>1
<1>3. PICK f \in [0 .. n -> Int] : f[0] = 0 /\ \A k \in 1 .. n : f[k] = step[<<k, f[k - 1]>>]
  <2>1. n \in Nat /\ 0 \in Int BY <1>1
  <2> HIDE DEF step, n
  <2>2. \E f : Computation(f, Int, n, 0, step) BY <1>2, <2>1, StepsExist
  <2> QED BY <2>2 DEF Computation
<1> DEFINE F(g) == [k \in 0 .. n |-> IF k = 0 THEN 0 ELSE g[k - 1] + s[k]]
           up == CHOOSE g : g = F(g)
<1>4. \A k \in 1 .. n : f[k] = f[k - 1] + s[k]
  <2> TAKE k \in 1 .. n
  <2>1. k - 1 \in 0 .. n BY <1>1
  <2>2. <<k, f[k - 1]>> \in (1 .. n) \X Int BY <1>3, <2>1
  <2> QED BY <1>3, <2>2
<1>5. f = F(f)
  <2>1. \A k \in 0 .. n : f[k] = IF k = 0 THEN 0 ELSE f[k - 1] + s[k] BY <1>1, <1>3, <1>4
  <2>2. f = [k \in 0 .. n |-> f[k]] BY <1>3
  <2> QED BY <2>1, <2>2
<1>6. up = F(up) BY <1>5
<1>7. Total(s) = up[n] BY DEF Total
<1>8. up[0] = 0 /\ \A k \in 1 .. n : up[k] = up[k - 1] + s[k]
  <2>1. \A k \in 0 .. n : up[k] = F(up)[k] BY <1>6
  <2> HIDE DEF up
  <2> QED BY <1>1, <2>1
<1>9. up = [k \in 0 .. n |-> up[k]]
  <2>1. DOMAIN F(up) = 0 .. n OBVIOUS
  <2> HIDE DEF up
  <2> QED BY <1>6, <2>1
<1> HIDE DEF up
<1> DEFINE S == {k \in 0 .. n : up[k] = f[k]}
<1>10. 0 \in S BY <1>1, <1>3, <1>8
<1>11. ASSUME NEW k \in 1 .. n, k - 1 \in S PROVE k \in S BY <1>4, <1>8, <1>11
<1>12. n \in Nat BY <1>1
<1>13. 0 .. n \subseteq S
  <2> HIDE DEF S, n
  <2> QED BY <1>10, <1>11, <1>12, UpTo
<1>14. \A k \in 0 .. n : up[k] \in Int BY <1>3, <1>13
<1>15. up \in [0 .. n -> Int] BY <1>9, <1>14
<1>16. Sums(up, s) BY <1>8, <1>15 DEF Sums
<1> QED BY <1>7, <1>16

\* Any such f ends in the sum.
LEMMA SumsEnd == ASSUME NEW s \in Seq(Nat), NEW g, Sums(g, s) PROVE Total(s) = g[Len(s)]
<1> DEFINE n == Len(s)
<1>1. PICK f : Sums(f, s) /\ Total(s) = f[n] BY TotalSums
<1>2. n \in Nat OBVIOUS
<1> DEFINE S == {k \in 0 .. n : g[k] = f[k]}
<1>3. 0 \in S BY <1>1, <1>2 DEF Sums
<1>4. ASSUME NEW k \in 1 .. n, k - 1 \in S PROVE k \in S BY <1>1, <1>4 DEF Sums
<1>5. 0 .. n \subseteq S
  <2> HIDE DEF S, n
  <2> QED BY <1>2, <1>3, <1>4, UpTo
<1>6. n \in S BY <1>2, <1>5
<1> QED BY <1>1, <1>6

LEMMA TotalNatural ==
    ASSUME NEW s \in Seq(Nat)
    PROVE  /\ Total(s) \in Nat
           /\ (\A k \in DOMAIN s : s[k] <= 1) => Total(s) <= Len(s)
           /\ (\A k \in DOMAIN s : s[k] = 0) => Total(s) = 0
<1> DEFINE n == Len(s)
           few == \A k \in DOMAIN s : s[k] <= 1
           none == \A k \in DOMAIN s : s[k] = 0
<1>1. PICK f : Sums(f, s) /\ Total(s) = f[n] BY TotalSums
<1>2. n \in Nat /\ DOMAIN s = 1 .. n /\ \A k \in 1 .. n : s[k] \in Nat OBVIOUS
<1> DEFINE S == {k \in 0 .. n : f[k] \in Nat /\ (few => f[k] <= k) /\ (none => f[k] = 0)}
<1>3. 0 \in S BY <1>1, <1>2 DEF Sums
<1>4. ASSUME NEW k \in 1 .. n, k - 1 \in S PROVE k \in S
  <2>1. f[k] = f[k - 1] + s[k] /\ f[k - 1] \in Nat /\ s[k] \in Nat BY <1>1, <1>2, <1>4 DEF Sums
  <2>2. few => s[k] <= 1 /\ f[k - 1] <= k - 1 BY <1>2, <1>4
  <2>3. none => s[k] = 0 /\ f[k - 1] = 0 BY <1>2, <1>4
  <2>4. k \in 0 .. n BY <1>2
  <2> HIDE DEF few, none
  <2>5. few => f[k] <= k BY <2>1, <2>2
  <2>6. none => f[k] = 0 BY <2>1, <2>3
  <2>7. f[k] \in Nat BY <2>1
  <2> QED BY <2>4, <2>5, <2>6, <2>7
<1>5. 0 .. n \subseteq S
  <2>1. n \in Nat BY <1>2
  <2> HIDE DEF S, n
  <2> QED BY <1>3, <1>4, <2>1, UpTo
<1>6. n \in S BY <1>2, <1>5
<1> QED BY <1>1, <1>6

LEMMA TotalAppend ==
    ASSUME NEW s \in Seq(Nat), NEW x \in Nat
    PROVE  Append(s, x) \in Seq(Nat) /\ Total(Append(s, x)) = Total(s) + x
<1> DEFINE n == Len(s)
           t == Append(s, x)
<1>1. PICK f : Sums(f, s) /\ Total(s) = f[n] BY TotalSums
<1>2. n \in Nat /\ t \in Seq(Nat) /\ Len(t) = n + 1 /\ t[n + 1] = x /\ \A k \in 1 .. n : t[k] = s[k] OBVIOUS
<1> DEFINE g == [k \in 0 .. n + 1 |-> IF k = n + 1 THEN f[n] + x ELSE f[k]]
<1>3. f \in [0 .. n -> Int] /\ f[0] = 0 /\ \A k \in 1 .. n : f[k] = f[k - 1] + s[k] BY <1>1 DEF Sums
<1> HIDE DEF t, n
<1>4. \A k \in 0 .. n + 1 : g[k] \in Int
  <2> TAKE k \in 0 .. n + 1
  <2>1. n \in 0 .. n BY <1>2
  <2>2. CASE k = n + 1 BY <1>3, <2>1, <2>2
  <2>3. CASE k # n + 1
    <3>1. k \in 0 .. n BY <1>2, <2>3
    <3> QED BY <1>3, <2>3, <3>1
  <2> QED BY <2>2, <2>3
<1>5. g[0] = 0 BY <1>2, <1>3
<1>6. ASSUME NEW k \in 1 .. n + 1 PROVE g[k] = g[k - 1] + t[k]
  <2>1. k - 1 \in 0 .. n + 1 /\ k - 1 # n + 1 BY <1>2
  <2>2. g[k - 1] = f[k - 1] BY <2>1
  <2>3. CASE k = n + 1 BY <1>2, <2>2, <2>3
  <2>4. CASE k # n + 1
    <3>1. k \in 1 .. n /\ k \in 0 .. n + 1 BY <1>2, <2>4
    <3>2. g[k] = f[k] BY <2>4, <3>1
    <3> QED BY <1>2, <1>3, <2>2, <3>1, <3>2
  <2> QED BY <2>3, <2>4
<1>7. g \in [0 .. n + 1 -> Int] BY <1>4
<1>8. g[n + 1] = f[n] + x BY <1>2
<1> HIDE DEF g
<1>9. Sums(g, t) BY <1>2, <1>5, <1>6, <1>7 DEF Sums
<1>10. Total(t) = g[n + 1] BY <1>2, <1>9, SumsEnd
<1> QED BY <1>1, <1>2, <1>8, <1>10 DEF t

LEMMA TotalFront ==
    ASSUME NEW s \in Seq(Nat), s # <<>>
    PROVE  Head(s) \in Nat /\ Tail(s) \in Seq(Nat) /\ Total(s) = Head(s) + Total(Tail(s))
<1> DEFINE n == Len(s)
           t == Tail(s)
<1>1. PICK f : Sums(f, s) /\ Total(s) = f[n] BY TotalSums
<1>2. /\ n \in Nat /\ n >= 1 /\ t \in Seq(Nat) /\ Len(t) = n - 1 /\ Head(s) = s[1] /\ s[1] \in Nat
      /\ \A k \in 1 .. n - 1 : t[k] = s[k + 1]
  OBVIOUS
<1> DEFINE g == [k \in 0 .. n - 1 |-> f[k + 1] - s[1]]
<1>3. f \in [0 .. n -> Int] /\ f[0] = 0 /\ \A k \in 1 .. n : f[k] = f[k - 1] + s[k] BY <1>1 DEF Sums
<1> HIDE DEF t, n
<1>4. \A k \in 0 .. n - 1 : g[k] = f[k + 1] - s[1] /\ g[k] \in Int
  <2> TAKE k \in 0 .. n - 1
  <2>1. k + 1 \in 0 .. n BY <1>2
  <2> QED BY <1>2, <1>3, <2>1
<1>5. g \in [0 .. n - 1 -> Int] BY <1>4
<1> HIDE DEF g
<1>6. g[0] = 0
  <2>1. 1 \in 1 .. n /\ 0 \in 0 .. n - 1 BY <1>2
  <2>2. f[1] = f[0] + s[1] BY <1>3, <2>1
  <2>3. g[0] = f[1] - s[1] BY <1>4, <2>1
  <2> QED BY <1>2, <1>3, <2>2, <2>3
<1>7. ASSUME NEW k \in 1 .. n - 1 PROVE g[k] = g[k - 1] + t[k]
  <2>1. k \in 0 .. n - 1 /\ k - 1 \in 0 .. n - 1 /\ k + 1 \in 1 .. n /\ k \in 0 .. n BY <1>2
  <2>2. g[k] = f[k + 1] - s[1] /\ g[k - 1] = f[k] - s[1] BY <1>4, <2>1
  <2>3. f[k + 1] = f[k + 1 - 1] + s[k + 1] BY <1>3, <2>1
  <2>4. k + 1 - 1 = k /\ t[k] = s[k + 1] /\ f[k] \in Int
    <3>1. f \in [0 .. n -> Int] BY <1>3
    <3>2. f[k] \in Int BY <2>1, <3>1
    <3>3. t[k] = s[k + 1] BY <1>2
    <3>4. k + 1 - 1 = k BY <1>2
    <3> QED BY <3>2, <3>3, <3>4
  <2>5. s[k + 1] \in Nat /\ s[1] \in Nat BY <1>2, <2>1 DEF n
  <2>6. f[k + 1] = f[k] + s[k + 1] BY <2>3, <2>4
  <2> QED BY <2>2, <2>4, <2>5, <2>6
<1>8. Sums(g, t) BY <1>2, <1>5, <1>6, <1>7 DEF Sums
<1>9. Total(t) = g[n - 1] BY <1>2, <1>8, SumsEnd
<1>10. g[n - 1] = f[n] - s[1] /\ f[n] \in Int
  <2>1. n - 1 \in 0 .. n - 1 /\ n - 1 + 1 = n /\ n \in 0 .. n BY <1>2
  <2> QED BY <1>3, <1>4, <2>1
<1>11. Total(s) = Head(s) + Total(t) BY <1>1, <1>2, <1>9, <1>10 DEF n
<1> QED BY <1>2, <1>11 DEF t

\* t is s except at i.
SameBut(s, t, i) == Len(s) = Len(t) /\ \A k \in 1 .. Len(s) : k # i => t[k] = s[k]

\* One number changes.
LEMMA TotalChanged ==
    ASSUME NEW s \in Seq(Nat), NEW t \in Seq(Nat), NEW i \in 1 .. Len(s), SameBut(s, t, i)
    PROVE  Total(t) + s[i] = Total(s) + t[i]
<1> DEFINE n == Len(s)
<1>1. PICK f : Sums(f, s) /\ Total(s) = f[n] BY TotalSums
<1>2. n \in Nat /\ \A k \in 1 .. n : s[k] \in Nat /\ t[k] \in Nat BY DEF SameBut
<1>3. f \in [0 .. n -> Int] /\ f[0] = 0 /\ \A k \in 1 .. n : f[k] = f[k - 1] + s[k] BY <1>1 DEF Sums
<1>4. i \in 1 .. n /\ Len(t) = n BY DEF SameBut
<1>5. PICK d \in Int : t[i] = s[i] + d
  <2>1. t[i] - s[i] \in Int /\ t[i] = s[i] + (t[i] - s[i]) BY <1>2, <1>4
  <2> QED BY <2>1
<1> DEFINE g == [k \in 0 .. n |-> IF k < i THEN f[k] ELSE f[k] + d]
<1>6. \A k \in 1 .. n : k # i => t[k] = s[k] BY DEF SameBut
<1> HIDE DEF n
<1>7. \A k \in 0 .. n : /\ k < i => g[k] = f[k]
                        /\ k >= i => g[k] = f[k] + d
                        /\ g[k] \in Int
  <2> TAKE k \in 0 .. n
  <2>1. f[k] \in Int BY <1>3
  <2>2. g[k] = IF k < i THEN f[k] ELSE f[k] + d OBVIOUS
  <2>3. k \in Int /\ i \in Int BY <1>2, <1>4
  <2> HIDE DEF g
  <2> QED BY <2>1, <2>2, <2>3
<1>8. g \in [0 .. n -> Int] BY <1>7
<1> HIDE DEF g
<1>9. g[0] = 0
  <2>1. 0 \in 0 .. n /\ 0 < i BY <1>2, <1>4
  <2> QED BY <1>3, <1>7, <2>1
<1>10. ASSUME NEW k \in 1 .. n PROVE g[k] = g[k - 1] + t[k]
  <2>1. k \in 0 .. n /\ k - 1 \in 0 .. n BY <1>2
  <2>2. f[k] = f[k - 1] + s[k] /\ f[k - 1] \in Int /\ s[k] \in Int BY <1>2, <1>3, <2>1
  <2>3. CASE k < i
    <3>1. g[k] = f[k] /\ g[k - 1] = f[k - 1] BY <1>2, <1>4, <1>7, <2>1, <2>3
    <3>2. t[k] = s[k] BY <1>4, <1>6, <2>3
    <3> QED BY <2>2, <3>1, <3>2
  <2>4. CASE k = i
    <3>1. g[k] = f[k] + d /\ g[k - 1] = f[k - 1] BY <1>2, <1>4, <1>7, <2>1, <2>4
    <3> QED BY <1>5, <2>2, <2>4, <3>1
  <2>5. CASE k > i
    <3>1. g[k] = f[k] + d /\ g[k - 1] = f[k - 1] + d BY <1>2, <1>4, <1>7, <2>1, <2>5
    <3>2. t[k] = s[k] BY <1>4, <1>6, <2>5
    <3> QED BY <1>5, <2>2, <3>1, <3>2
  <2> QED BY <1>4, <2>3, <2>4, <2>5
<1>11. Sums(g, t) BY <1>4, <1>8, <1>9, <1>10 DEF Sums
<1>12. Total(t) = g[n] BY <1>4, <1>11, SumsEnd
<1>13. n \in 0 .. n /\ n >= i /\ f[n] \in Int BY <1>2, <1>3, <1>4
<1>14. g[n] = f[n] + d BY <1>7, <1>13
<1>15. s[i] \in Int BY <1>2, <1>4
<1>16. Total(s) = f[n] BY <1>1 DEF n
<1>17. \A x, y, z \in Int : (x + y) + z = x + (z + y) OBVIOUS
<1>18. (f[n] + d) + s[i] = f[n] + (s[i] + d) BY <1>13, <1>15, <1>17
<1> QED BY <1>5, <1>12, <1>14, <1>16, <1>18
=============================================================================
