----------------------------- MODULE Selections -----------------------------
(***************************************************************************)
(* The entries of a vector at given positions, in order: the records that  *)
(* a filter keeps, the nodes that make up a history.                       *)
(***************************************************************************)
EXTENDS Naturals, FiniteSets

UpTo(S, i) == {j \in S : j <= i}

\* The entries of v at the positions in S, in order.
Selection(v, S) ==
  [n \in 1..Cardinality(S) |-> v[CHOOSE i \in S : Cardinality(UpTo(S, i)) = n]]
=============================================================================
