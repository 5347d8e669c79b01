--------------------------- MODULE PartitionPlan ---------------------------
(***************************************************************************)
(* The planner of rlife partition (partition.cpp, make_plan).  The leaves  *)
(* of a slice are cut into contiguous parts.  The ideal boundaries make    *)
(* the parts equally long; each one is moved within a slack to where its   *)
(* two neighbouring leaves part as near to the root as possible, so that   *)
(* the trees of the parts share few nodes.                                 *)
(***************************************************************************)
EXTENDS SliceTree

VARIABLES
  source,     \* the tree of the slice
  parts,      \* --parts
  slack,      \* the slack in leaves
  boundary,   \* boundaries: where each part begins, and the number of leaves
  part,       \* the boundary being placed
  step,       \* "idle", "interval", "descend", "planned" or "logic_error"
  node,       \* shallowest_boundary: the node whose children are looked at,
  depth,      \* its depth,
  window      \* and the boundaries allowed, the interval from low to high

search == <<node, depth, window>>
planVars == <<source, parts, slack, boundary, part, step, node, depth, window>>

LeafCount == Cardinality(Leaves(source))

Smaller(m, n) == IF m < n THEN m ELSE n
Larger(m, n) == IF m < n THEN n ELSE m
Distance(m, n) == IF m > n THEN m - n ELSE n - m

\* balanced_boundary: the first parts are longer by a leaf.
BalancedBoundary(k) == (LeafCount \div parts) * k + Smaller(LeafCount % parts, k)

\* Mistake: the part before may be left empty.
LowestTouching ==
  LET ideal == BalancedBoundary(part) IN
    Larger(IF ideal > slack THEN ideal - slack ELSE 1, boundary[part - 1])

\* The interval of a boundary: within the slack, and every part has a leaf.
Lowest ==
  LET ideal == BalancedBoundary(part) IN
    Larger(IF ideal > slack THEN ideal - slack ELSE 1, boundary[part - 1] + 1)

Highest ==
  LET ideal == BalancedBoundary(part) IN
    Smaller(IF ideal <= LeafCount - 1 - slack THEN ideal + slack ELSE LeafCount - 1,
            LeafCount - (parts - part))

\* extreme_descendant_leaf: the ordinal of the first or last leaf below a node.
ExtremeLeaf(n, d, last) ==
  LET at[e \in d .. Deep(source)] ==
        IF e = d THEN n
        ELSE FirstChild(source, at[e - 1])
             + IF last THEN Cardinality(source.mask[at[e - 1]]) - 1 ELSE 0
  IN  at[Deep(source)] - LeafBegin(source)

Children == FirstChild(source, node) .. (FirstChild(source, node) + Cardinality(source.mask[node]) - 1)

\* Boundaries between two children that are allowed.
Candidates ==
  {b \in window : \E c \in Children \ {FirstChild(source, node)} : b = ExtremeLeaf(c, depth + 1, FALSE)}

\* Boundaries allowed that lie inside a child, between two of its leaves.
Nested(c) ==
  {b \in window : ExtremeLeaf(c, depth + 1, FALSE) < b /\ b <= ExtremeLeaf(c, depth + 1, TRUE)}

-----------------------------------------------------------------------------
Idle ==
  /\ parts = 0 /\ slack = 0 /\ boundary = <<>> /\ part = 0 /\ step = "idle"
  /\ node = 0 /\ depth = 0 /\ window = {}

\* A loaded tree.
PlanInit == WellFormed(source) /\ NoDeadEnd(source) /\ Idle

\* At least two parts, no more than leaves.  The slack is a percentage of a part below 50,
\* rounded down: less than half a part.
Begin ==
  /\ step = "idle"
  /\ \E p \in 2 .. LeafCount :
       /\ parts' = p
       /\ slack' \in 0 .. ((LeafCount - 1) \div (2 * p))
       /\ boundary' = [k \in 0 .. p |-> IF k = p THEN LeafCount ELSE 0]
  /\ part' = 1 /\ step' = "interval"
  /\ UNCHANGED <<source, search>>

\* make_plan's loop, up to the call of shallowest_boundary.
Interval ==
  /\ step = "interval"
  /\ window' = Lowest .. Highest /\ node' = 0 /\ depth' = 0
  /\ step' = IF Lowest > Highest THEN "logic_error" ELSE "descend"
  /\ UNCHANGED <<source, parts, slack, boundary, part>>

\* Mistake: the first candidate is taken.
NearestFirst(b, ideal) == \A c \in Candidates : b <= c

\* The nearest candidate to the ideal boundary, the lower one of two.
Nearest(b, ideal) ==
  \A c \in Candidates : \/ Distance(b, ideal) < Distance(c, ideal)
                        \/ Distance(b, ideal) = Distance(c, ideal) /\ b <= c

Place ==
  /\ step = "descend" /\ depth < Deep(source)
  /\ \E b \in Candidates :
       Nearest(b, BalancedBoundary(part)) /\ boundary' = [boundary EXCEPT ![part] = b]
  /\ part' = part + 1
  /\ step' = IF part + 1 = parts THEN "planned" ELSE "interval"
  /\ UNCHANGED <<source, parts, slack, search>>

Holding == {c \in Children : Nested(c) # {}}

\* No boundary between the children: go on in the first one that can hold it.  Without
\* such a child, or at a leaf, the planner throws.
Narrow ==
  /\ step = "descend" /\ (depth < Deep(source) => Candidates = {})
  /\ IF depth < Deep(source) /\ Holding # {}
     THEN /\ \E c \in Holding :
               /\ \A d \in Holding : c <= d
               /\ node' = c /\ depth' = depth + 1 /\ window' = Nested(c)
          /\ UNCHANGED step
     ELSE step' = "logic_error" /\ UNCHANGED search
  /\ UNCHANGED <<source, parts, slack, boundary, part>>

PlanNext == Begin \/ Interval \/ Place \/ Narrow

PlanSpec == PlanInit /\ [][PlanNext]_planVars

-----------------------------------------------------------------------------
\* apply_partition_restriction: the leaves of the slice, expanded by a row or not, that
\* part k + 1 leaves tagged.
Admitted(k, expansion) ==
  (expansion * boundary[k]) .. (expansion * boundary[k + 1] - 1)

\* The parts divide the search: each is given a leaf at least, and every leaf of the row
\* that applies the restriction belongs to exactly one part, so that no solution is lost
\* or found twice.
PlanDivides ==
  step = "planned" =>
    \A expansion \in {1, 4} :
      /\ \A k \in 0 .. (parts - 1) : Admitted(k, expansion) # {}
      /\ \A x \in 0 .. (expansion * LeafCount - 1) :
           \E k \in 0 .. (parts - 1) : x \in Admitted(k, expansion)
      /\ \A j, k \in 0 .. (parts - 1) :
           j # k => Admitted(j, expansion) \cap Admitted(k, expansion) = {}

\* lca_depth: how far the lineages of the leaves beside a boundary agree.
LcaDepth(b) ==
  LET left == Lineage(source, LeafBegin(source) + b - 1)
      right == Lineage(source, LeafBegin(source) + b)
  IN  Cardinality({d \in 1 .. Deep(source) : \A e \in 1 .. d : left[e] = right[e]})

\* The descent by intervals finds what is asked for: it never fails, and no boundary of
\* the interval has a shallower common ancestor, or is as shallow and nearer to the ideal.
PlanShallow ==
  /\ step # "logic_error"
  /\ step \in {"interval", "planned"} /\ part > 1 =>
       LET placed == part - 1
           ideal == BalancedBoundary(placed)
           first == Larger(ideal - slack, boundary[placed - 1] + 1)
           last == Smaller(ideal + slack, LeafCount - (parts - placed))
           chosen == boundary[placed]
       IN /\ chosen \in first .. last
          /\ \A b \in (first .. last) \ {chosen} :
               \/ LcaDepth(chosen) < LcaDepth(b)
               \/ /\ LcaDepth(chosen) = LcaDepth(b)
                  /\ Distance(chosen, ideal) <= Distance(b, ideal)
=============================================================================
