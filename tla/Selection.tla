------------------------------ MODULE Selection ------------------------------
(***************************************************************************)
(* WHERE: what a query keeps of a sequence, in the order of the sequence.  *)
(***************************************************************************)
EXTENDS Naturals, FiniteSets

\* The n-th of a set of numbers.
Place(P, n) == CHOOSE i \in P : Cardinality({j \in P : j < i}) = n - 1

\* What a sequence has at a set of its positions.
Kept(s, positions) == [n \in 1..Cardinality(positions) |-> s[Place(positions, n)]]
=============================================================================
