------------------------------- MODULE Lists -------------------------------
(***************************************************************************)
(* Lists as the code builds them from other collections, said by what they *)
(* are rather than by how they are computed: a sorted list gives every     *)
(* element the place its rank says, and a filtered list keeps the chosen   *)
(* places in their order.                                                  *)
(***************************************************************************)
EXTENDS Naturals, Sequences, FiniteSets

\* R orders the elements of S strictly, any two of them.
Orders(R, S) ==
    /\ \A a \in S : <<a, a>> \notin R
    /\ \A a, b, c \in S : <<a, b>> \in R /\ <<b, c>> \in R => <<a, c>> \in R
    /\ \A a, b \in S : a = b \/ <<a, b>> \in R \/ <<b, a>> \in R

\* How many elements of S come before a.
Rank(S, R, a) == Cardinality({b \in S : <<b, a>> \in R})

\* The elements of S, sorted by R.
Ranked(S, R) == [k \in 1 .. Cardinality(S) |-> CHOOSE a \in S : Rank(S, R, a) = k - 1]

\* A set of places, first place first.
InOrder(I) == Ranked(I, {p \in I \X I : p[1] < p[2]})

\* The elements of s at the places I, in their order in s.
Picked(s, I) == LET at == InOrder(I) IN [k \in DOMAIN at |-> s[at[k]]]

\* The sum of a list of numbers.
Total(s) ==
    LET upTo[k \in 0 .. Len(s)] == IF k = 0 THEN 0 ELSE upTo[k - 1] + s[k]
    IN  upTo[Len(s)]
=============================================================================
