----------------------------- MODULE Selections -----------------------------
(* The elements of a sequence at given positions, in their order: SelectSeq,   *)
(* defined by what it yields rather than by recursion.                         *)
EXTENDS Naturals, Sequences, FiniteSets

\* The positions of a finite set, in increasing order: the k-th one has k - 1
\* positions of the set before it.
Positions(I) ==
  [k \in 1 .. Cardinality(I) |-> CHOOSE i \in I : Cardinality({j \in I : j < i}) = k - 1]

Selected(q, I) == LET p == Positions(I) IN [k \in DOMAIN p |-> q[p[k]]]
=============================================================================
