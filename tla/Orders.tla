------------------------------- MODULE Orders -------------------------------
(* Sets listed in an order, as a sort or an ORDER BY does whose columns tell *)
(* all rows apart, and sums.                                                 *)
EXTENDS Naturals, Sequences, FiniteSets

\* The elements of S by the number of those before them.
Enumerate(S, R) ==
  [i \in 1..Cardinality(S) |-> CHOOSE x \in S : Cardinality({y \in S : <<y, x>> \in R}) = i - 1]

\* The elements of S, the earlier before the later.
ListOf(S, Before(_, _)) == Enumerate(S, {p \in S \X S : Before(p[1], p[2])})

\* The sum of the numbers of a list.
Total(s) == LET t[i \in 0..Len(s)] == IF i = 0 THEN 0 ELSE t[i - 1] + s[i] IN t[Len(s)]

\* The sum of the numbers w gives the elements of S: there are as many units.
Weight(S, w) == Cardinality(UNION {{x} \X (1..w[x]) : x \in S})
=============================================================================
