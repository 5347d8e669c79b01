--------------------------- MODULE MCSupportSweep ---------------------------
(* Rows of three slices with two leaves each. *)
EXTENDS PartialBoard

CONSTANTS a, b

MCLeaf == {a, b}

\* One slice, or none, carries a partition restriction.
Restrictions == {[i \in 1 .. N |-> IF i = s THEN {a} ELSE {a, b}] : s \in 0 .. N}

\* Every pair of relations without the empty ones, which the first visit decides.
Walks == [1 .. (N - 1) -> (SUBSET (MCLeaf \X MCLeaf)) \ {{}}]

\* At most one leaf of a slice is interesting.
Interests == {f \in [1 .. N -> SUBSET MCLeaf] : \A i \in 1 .. N : Cardinality(f[i]) <= 1}

\* With the filter, every pattern of interest, captured; without it, both edges and
\* both kinds of row.
MCInputs ==
  [edge: Walks, leftEdge: {{a}, {a, b}}, rightEdge: {{b}, {a, b}}, interesting: Interests,
   allowed: Restrictions, bcaf: {TRUE}, partial: {TRUE}]
  \cup
  [edge: Walks, leftEdge: {{a, b}}, rightEdge: {{a, b}, {a}},
   interesting: {[i \in 1 .. N |-> {}]}, allowed: Restrictions, bcaf: {FALSE},
   partial: BOOLEAN]
=============================================================================
