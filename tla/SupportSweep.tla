---------------------------- MODULE SupportSweep ----------------------------
(***************************************************************************)
(* One row of the search: Solver::prune_supported (solver.hpp), from the   *)
(* boundary marks to the planes handed to reification.                     *)
(*                                                                         *)
(* The row is a chain of N neighbouring slices.  A leaf of slice i and a   *)
(* leaf of slice i+1 are related when the pair walk visits them together   *)
(* (they overlap, every rule table accepts them and no older clause byte   *)
(* rejects them); the walk itself is the field `edge' of the input.  A     *)
(* right sweep marks the leaves that reach the right boundary (R) and,     *)
(* with the bcaf filter, those that do so through an interesting leaf (S); *)
(* a left sweep does the same from the left (L, P) and keeps the edges     *)
(* that survive.  Within a relation the edges are visited in any order:    *)
(* workers take batches dynamically and publish marks with atomic OR.      *)
(***************************************************************************)
EXTENDS Naturals, FiniteSets

CONSTANTS
  N,        \* number of slices (width - 1)
  Leaf,     \* leaf ordinals of a slice
  NoLeaf,   \* no leaf captured in a slice yet
  Inputs    \* the rows considered

Slice == 1 .. N
Relation == 1 .. (N - 1)   \* relation i joins slices i and i+1
Edge == Leaf \X Leaf

(***************************************************************************)
(* What a row starts from: the walked pairs, the leaves each boundary      *)
(* admits, the leaves whose first window of labels is not all zero, the    *)
(* leaves a pending partition allows, whether the bcaf filter is active at *)
(* this height, and whether a partial board is captured on the way.        *)
(***************************************************************************)
Input == [edge: [Relation -> SUBSET Edge], leftEdge: SUBSET Leaf,
          rightEdge: SUBSET Leaf, interesting: [Slice -> SUBSET Leaf],
          allowed: [Slice -> SUBSET Leaf], bcaf: BOOLEAN, partial: BOOLEAN]

ASSUME SweepAssumption == /\ N \in Nat \ {0, 1}
                          /\ NoLeaf \notin Leaf
                          /\ Inputs \subseteq Input

VARIABLES
  in,       \* the row's input; never changes
  phase,    \* "boundary", "right", "left", "retain" or "done"
  at,       \* the relation being walked
  todo,     \* its edges not visited yet
  L, R,     \* normal[i].left, normal[i].right
  P, S,     \* witness[i][0], witness[i][1]
  gate,     \* next_gates[i]: the surviving edges of relation i
  keep,     \* the keep plane of each slice
  board,    \* partial_lineages: the leaf captured in each slice, or NoLeaf
  seen,     \* partial_seen
  result    \* "running", "supported", "exhausted" or "logic_error"

vars == <<in, phase, at, todo, L, R, P, S, gate, keep, board, seen, result>>

Empty == [i \in Slice |-> {}]

\* A row's first state: nothing is marked.
Init ==
  /\ in \in Inputs
  /\ phase = "boundary" /\ at = N - 1 /\ todo = {}
  /\ L = Empty /\ R = Empty /\ P = Empty /\ S = Empty
  /\ gate = [i \in Relation |-> {}] /\ keep = Empty
  /\ board = [i \in Slice |-> NoLeaf] /\ seen = FALSE
  /\ result = "running"

(***************************************************************************)
(* seed_suffix and seed_prefix: an interesting leaf that is reached is its *)
(* own witness.                                                            *)
(***************************************************************************)
Seed(i, reached) == IF in.bcaf THEN reached \cap in.interesting[i] ELSE {}

\* mark_boundary on both ends, then the right end's restriction and seed.
MarkBoundaries ==
  /\ phase = "boundary"
  /\ LET r == in.rightEdge \cap in.allowed[N] IN
       /\ R' = [R EXCEPT ![N] = r]
       /\ S' = [S EXCEPT ![N] = Seed(N, r)]
  /\ L' = [L EXCEPT ![1] = in.leftEdge]
  /\ phase' = "right" /\ todo' = in.edge[at]
  /\ UNCHANGED <<in, at, P, gate, keep, board, seen, result>>

\* Mistake: a plain store where the mark has to be an atomic OR.
RightVisitStores(e) ==
  /\ phase = "right" /\ e \in todo
  /\ todo' = todo \ {e}
  /\ LET reaches == e[2] \in R[at + 1]
         witnessed == reaches /\ in.bcaf /\ e[2] \in S[at + 1]
     IN /\ R' = [R EXCEPT ![at] = IF reaches THEN {e[1]} ELSE @]
        /\ S' = [S EXCEPT ![at] = IF witnessed THEN {e[1]} ELSE @]
  /\ UNCHANGED <<in, phase, at, L, P, gate, keep, board, seen, result>>

\* A worker visits one edge of the right sweep.
RightVisit(e) ==
  /\ phase = "right" /\ e \in todo
  /\ todo' = todo \ {e}
  /\ LET reaches == e[2] \in R[at + 1]
         witnessed == reaches /\ in.bcaf /\ e[2] \in S[at + 1]
     IN /\ R' = [R EXCEPT ![at] = IF reaches THEN @ \cup {e[1]} ELSE @]
        /\ S' = [S EXCEPT ![at] = IF witnessed THEN @ \cup {e[1]} ELSE @]
  /\ UNCHANGED <<in, phase, at, L, P, gate, keep, board, seen, result>>

\* Mistake: the inner slices are restricted and never seeded.
RightRelationUnseeded ==
  /\ phase = "right" /\ todo = {} /\ at > 1
  /\ R' = [R EXCEPT ![at] = @ \cap in.allowed[at]]
  /\ at' = at - 1 /\ todo' = in.edge[at - 1]
  /\ UNCHANGED <<in, phase, L, P, S, gate, keep, board, seen, result>>

\* Every batch of the relation is done: restrict, then seed, then the next one.
RightRelationDone ==
  /\ phase = "right" /\ todo = {} /\ at > 1
  /\ LET r == R[at] \cap in.allowed[at] IN
       /\ R' = [R EXCEPT ![at] = r]
       /\ S' = [S EXCEPT ![at] = @ \cup Seed(at, r)]
  /\ at' = at - 1 /\ todo' = in.edge[at - 1]
  /\ UNCHANGED <<in, phase, L, P, gate, keep, board, seen, result>>

(***************************************************************************)
(* The retention rule of live_leaf.                                        *)
(***************************************************************************)
Live(i, left, right, prefix, suffix) ==
  left \cap right \cap (IF in.bcaf THEN prefix \cup suffix ELSE Leaf)

Interested(i, x) == ~in.bcaf \/ x \in in.interesting[i]

\* The right sweep ends; the left one starts from its restricted, seeded end.
\* A capture takes a live leaf of the first slice, the lowest one in the code.
TurnAround ==
  /\ phase = "right" /\ todo = {} /\ at = 1
  /\ LET r == R[1] \cap in.allowed[1]
         s == S[1] \cup Seed(1, r)
         l == L[1] \cap in.allowed[1]
         p == Seed(1, l)
         live == Live(1, l, r, p, s)
     IN /\ R' = [R EXCEPT ![1] = r] /\ S' = [S EXCEPT ![1] = s]
        /\ L' = [L EXCEPT ![1] = l] /\ P' = [P EXCEPT ![1] = p]
        /\ \/ /\ in.partial /\ live = {}
              /\ phase' = "done" /\ result' = "exhausted"
              /\ UNCHANGED <<todo, board, seen>>
           \/ /\ in.partial
              /\ \E x \in live : /\ board' = [board EXCEPT ![1] = x]
                                 /\ seen' = Interested(1, x)
              /\ phase' = "left" /\ todo' = in.edge[1]
              /\ UNCHANGED result
           \/ /\ ~in.partial
              /\ phase' = "left" /\ todo' = in.edge[1]
              /\ UNCHANGED <<board, seen, result>>
  /\ UNCHANGED <<in, at, gate, keep>>

\* Mistake: an edge that only the left boundary reaches passes the gate.
LeftVisitOneSided(e) ==
  /\ phase = "left" /\ e \in todo
  /\ todo' = todo \ {e}
  /\ LET reached == e[1] \in L[at]
         prefix == reached /\ in.bcaf /\ e[1] \in P[at]
         final == reached /\ (in.bcaf => (e[1] \in P[at] \/ e[2] \in S[at + 1]))
     IN /\ L' = [L EXCEPT ![at + 1] = IF reached THEN @ \cup {e[2]} ELSE @]
        /\ P' = [P EXCEPT ![at + 1] = IF prefix THEN @ \cup {e[2]} ELSE @]
        /\ gate' = [gate EXCEPT ![at] = IF final THEN @ \cup {e} ELSE @]
  /\ UNCHANGED <<in, phase, at, R, S, keep, board, seen, result>>

\* A worker visits one edge of the left sweep: visit_batch.
LeftVisit(e) ==
  /\ phase = "left" /\ e \in todo
  /\ todo' = todo \ {e}
  /\ LET reached == e[1] \in L[at]
         normal == reached /\ e[2] \in R[at + 1]
         prefix == normal /\ in.bcaf /\ e[1] \in P[at]
         final == normal /\ (in.bcaf => (e[1] \in P[at] \/ e[2] \in S[at + 1]))
     IN /\ L' = [L EXCEPT ![at + 1] = IF reached THEN @ \cup {e[2]} ELSE @]
        /\ P' = [P EXCEPT ![at + 1] = IF prefix THEN @ \cup {e[2]} ELSE @]
        /\ gate' = [gate EXCEPT ![at] = IF final THEN @ \cup {e} ELSE @]
  /\ UNCHANGED <<in, phase, at, R, S, keep, board, seen, result>>

\* Mistake: the first surviving edge of the captured leaf, interesting or not.
ContinuationsUnwitnessed == {y \in Leaf : <<board[at], y>> \in gate[at]}

\* What consider_partial_batch may pick after `at': an edge of the captured leaf
\* that has been interesting already or still will be.
Continuations ==
  {y \in Leaf : /\ <<board[at], y>> \in gate[at]
                /\ in.bcaf => (seen \/ y \in S[at + 1])}

\* Every batch of the left relation is done.  No surviving edge ends the search;
\* a capture that cannot continue is the code's logic_error.
LeftRelationDone ==
  /\ phase = "left" /\ todo = {}
  /\ LET l == L[at + 1] \cap in.allowed[at + 1] IN
       /\ L' = [L EXCEPT ![at + 1] = l]
       /\ P' = [P EXCEPT ![at + 1] = @ \cup Seed(at + 1, l)]
  /\ \/ /\ gate[at] = {}
        /\ phase' = "done" /\ result' = "exhausted"
        /\ UNCHANGED <<at, todo, board, seen>>
     \/ /\ gate[at] # {} /\ in.partial /\ Continuations = {}
        /\ phase' = "done" /\ result' = "logic_error"
        /\ UNCHANGED <<at, todo, board, seen>>
     \/ /\ gate[at] # {}
        /\ \/ /\ in.partial
              /\ \E y \in Continuations :
                   /\ board' = [board EXCEPT ![at + 1] = y]
                   /\ seen' = (seen \/ Interested(at + 1, y))
           \/ ~in.partial /\ UNCHANGED <<board, seen>>
        /\ IF at = N - 1 THEN /\ phase' = "retain" /\ UNCHANGED <<at, todo>>
                         ELSE /\ at' = at + 1 /\ todo' = in.edge[at + 1]
                              /\ UNCHANGED phase
        /\ UNCHANGED result
  /\ UNCHANGED <<in, R, S, gate, keep>>

\* The keep planes, and reification's answer: an empty plane ends the search.
Retain ==
  /\ phase = "retain"
  /\ keep' = [i \in Slice |-> Live(i, L[i], R[i], P[i], S[i])]
  /\ result' = IF in.partial /\ in.bcaf /\ ~seen THEN "logic_error"
               ELSE IF \E i \in Slice : keep'[i] = {} THEN "exhausted" ELSE "supported"
  /\ phase' = "done"
  /\ UNCHANGED <<in, at, todo, L, R, P, S, gate, board, seen>>

Next ==
  \/ MarkBoundaries
  \/ \E e \in todo : RightVisit(e)
  \/ RightRelationDone
  \/ TurnAround
  \/ \E e \in todo : LeftVisit(e)
  \/ LeftRelationDone
  \/ Retain

Spec == Init /\ [][Next]_vars

-----------------------------------------------------------------------------
\* Mistake: both clause bytes have to pass.
FilteredEdgesBoth(i) ==
  {e \in in.edge[i] : /\ e[1] \in keep[i] /\ e[2] \in keep[i + 1]
                      /\ in.bcaf => (e[1] \in P[i] /\ e[2] \in S[i + 1])}

\* What the next row's pair walk keeps of relation i after this row
\* (filter_historical_pair_clause): the clause bytes hold P and S of the leaves
\* that reification retained.
FilteredEdges(i) ==
  {e \in in.edge[i] : /\ e[1] \in keep[i] /\ e[2] \in keep[i + 1]
                      /\ in.bcaf => (e[1] \in P[i] \/ e[2] \in S[i + 1])}

(***************************************************************************)
(* The reference: complete rows, one leaf per slice, from boundary to      *)
(* boundary; with the filter only those that are interesting somewhere.    *)
(***************************************************************************)
Row == [Slice -> Leaf]

Joins(c, p, i, j) ==
  /\ \A k \in i .. j : p[k] \in c.allowed[k]
  /\ \A k \in i .. (j - 1) : <<p[k], p[k + 1]>> \in c.edge[k]

Complete(c) == {p \in Row : /\ p[1] \in c.leftEdge /\ p[N] \in c.rightEdge
                            /\ Joins(c, p, 1, N)}

Surviving(c) ==
  {p \in Complete(c) : c.bcaf => \E k \in Slice : p[k] \in c.interesting[k]}

TypeOK ==
  /\ in \in Inputs
  /\ phase \in {"boundary", "right", "left", "retain", "done"}
  /\ at \in Relation /\ todo \subseteq Edge
  /\ L \in [Slice -> SUBSET Leaf] /\ R \in [Slice -> SUBSET Leaf]
  /\ P \in [Slice -> SUBSET Leaf] /\ S \in [Slice -> SUBSET Leaf]
  /\ gate \in [Relation -> SUBSET Edge]
  /\ keep \in [Slice -> SUBSET Leaf]
  /\ board \in [Slice -> Leaf \cup {NoLeaf}] /\ seen \in BOOLEAN
  /\ result \in {"running", "supported", "exhausted", "logic_error"}

\* Retention keeps exactly the leaves that lie on a surviving complete row:
\* nothing live is dropped and no dead leaf is carried to the next row, whatever
\* the order in which the workers visited the edges.
RetentionExact ==
  result = "supported" => \A i \in Slice : keep[i] = {p[i] : p \in Surviving(in)}

\* The surviving edges of a relation are exactly the steps of surviving rows.
GateExact ==
  result = "supported" =>
    \A i \in Relation : gate[i] = {<<p[i], p[i + 1]>> : p \in Surviving(in)}

\* The search is declared exhausted exactly when no complete row survives, also
\* on the early return from the middle of the left sweep.
ExhaustionSound ==
  /\ result = "exhausted" => Surviving(in) = {}
  /\ result = "supported" => Surviving(in) # {}

\* The captured partial never loses its edge or its witness: the two throws of
\* the reconstruction are unreachable, and the board it returns is a surviving row.
CaptureSound ==
  /\ result # "logic_error"
  /\ result = "supported" /\ in.partial => board \in Surviving(in)

\* Clause bytes of the retained leaves stand for the edge relation: the next walk
\* recovers exactly the gate of this row, so a rejected pair never comes back.
ClausesRecoverGate ==
  result = "supported" => \A i \in Relation : FilteredEdges(i) = gate[i]
=============================================================================
