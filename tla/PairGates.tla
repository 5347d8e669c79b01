----------------------------- MODULE PairGates -----------------------------
(***************************************************************************)
(* The gate of two neighbouring slices (solver.hpp, PairGate) from row to  *)
(* row.  The pairs of leaves that survive a row are those that a depth-    *)
(* first walk of both trees reaches; a gate holds their number and, for a  *)
(* solver with several workers, a sparse index: the paths of some pairs    *)
(* and their ordinals.  A worker restarts the walk at an indexed path and  *)
(* goes on to the next one.  What it emits is a segment of the next gate,  *)
(* and the segments are appended in order after the last worker is done.   *)
(***************************************************************************)
EXTENDS IndexedExecutor, Integers, SequencesExt

CONSTANTS
  Branch,      \* positions of geometry_pair_triple_order: pairs of child labels
  Quantum,     \* index_quantum (2^14)
  FirstHeight, \* the row at which the gate is first looked at
  LastHeight,  \* and the last one (bound)
  FirstTrees,  \* the trees at the first row: with each node its ancestors
  Kept(_)      \* for a set of pairs, what rows may keep of their extensions (bound)

\* A terminal batch crosses at most one restart boundary.
ASSUME GateAssumption ==
  /\ Branch \subseteq Nat /\ IsFiniteSet(Branch) /\ Branch # {}
  /\ Quantum \in Nat /\ Quantum >= Cardinality(Branch)

\* The search is not over at its first row.
ASSUME TreeAssumption ==
  /\ FirstHeight \in Nat \ {0}
  /\ \A T \in FirstTrees :
       /\ T \subseteq Seq(Branch) /\ IsFiniteSet(T)
       /\ \A p \in T : Len(p) <= FirstHeight /\ \A d \in 0 .. Len(p) : SubSeq(p, 1, d) \in T
       /\ \E p \in T : Len(p) = FirstHeight

VARIABLES
  tree,      \* the paths in both trees that the walk takes, complete or not
  height,    \* the length of complete paths, pair_gate_depth_
  gate,      \* pair_gates_[i]
  parallel,  \* more than one worker, not verbose
  kept,      \* the labels with which the row that is swept extends a path
  segments,  \* what each range of the index has emitted
  phase      \* "idle", "walk", "exhausted", "failed" or "logic_error"

gateVars == <<tree, height, gate, parallel, kept, segments, phase>>

\* PairGate, with an index for paths of some depth or without (0).
Fresh(depth) == [count |-> 0, depth |-> depth, starts |-> <<>>, paths |-> <<>>]

IndexReady(g, depth) ==
  /\ g.depth = depth /\ g.starts # <<>> /\ Len(g.paths) = Len(g.starts)
  /\ Head(g.starts) = 0 /\ Last(g.starts) < g.count
  /\ \A k \in 2 .. Len(g.starts) : g.starts[k - 1] < g.starts[k]

\* append; a segment without pairs is passed over.
AppendSegment(g, segment) ==
  IF segment.count = 0 THEN g
  ELSE [g EXCEPT !.count = @ + segment.count, !.paths = @ \o segment.paths,
                 !.starts = @ \o [k \in DOMAIN segment.starts |-> g.count + segment.starts[k]]]

\* The label above n others.
Nth(labels, n) == CHOOSE b \in labels : Cardinality({c \in labels : c < b}) = n

\* Mistake: the path of the first pair of the batch.
AppendBatchFirst(g, path, labels) ==
  LET ordinal == (Quantum - (g.count % Quantum)) % Quantum
      counted == [g EXCEPT !.count = @ + Cardinality(labels)]
  IN  IF ordinal < Cardinality(labels)
      THEN [counted EXCEPT !.starts = Append(@, g.count + ordinal), !.paths = Append(@, Append(path, Min(labels)))]
      ELSE counted

\* append_final_edges: a batch of extensions of a path, one of which may be indexed.
AppendBatch(g, path, labels) ==
  LET ordinal == (Quantum - (g.count % Quantum)) % Quantum
      counted == [g EXCEPT !.count = @ + Cardinality(labels)]
  IN  IF ordinal < Cardinality(labels)
      THEN [counted EXCEPT !.starts = Append(@, g.count + ordinal),
                           !.paths = Append(@, Append(path, Nth(labels, ordinal)))]
      ELSE counted

-----------------------------------------------------------------------------
Active(path) == {b \in Branch : Append(path, b) \in tree}

Before(p, q) ==
  \E d \in DOMAIN p : p[d] < q[d] /\ \A e \in 1 .. (d - 1) : p[e] = q[e]

Pairs == {p \in tree : Len(p) = height}

\* The order of the serial walk: depth first, branches by position.
Serial ==
  [i \in 1 .. Cardinality(Pairs) |->
     CHOOSE p \in Pairs : Cardinality({q \in Pairs : Before(q, p)}) = i - 1]

\* A worker's place in the walk: its path, and the branches not yet taken on the way.
At(path) ==
  [path |-> path,
   rest |-> [d \in DOMAIN path |-> {b \in Active(SubSeq(path, 1, d - 1)) : path[d] < b}]]

Onward(place, b, rest) == [path |-> Append(place.path, b), rest |-> Append(place.rest, rest)]

\* Down along the first branches, to a complete path or a dead end.
Descend(place) ==
  LET down[n \in 0 .. height] ==
        IF n = 0 THEN place
        ELSE LET above == down[n - 1]
                 active == Active(above.path)
             IN  IF Len(above.path) = height \/ active = {} THEN above
                 ELSE Onward(above, Min(active), active \ {Min(active)})
  IN  down[height]

\* Back to the last branch that is left, and down; from the last one, to the root.
Turn(place) ==
  LET open == {d \in DOMAIN place.rest : place.rest[d] # {}} IN
    IF open = {} THEN At(<<>>)
    ELSE LET d == Max(open)
             b == Min(place.rest[d])
             parent == [path |-> SubSeq(place.path, 1, d - 1), rest |-> SubSeq(place.rest, 1, d - 1)]
         IN  Descend(Onward(parent, b, place.rest[d] \ {b}))

\* The next complete path; past the last one, the root.
Advance(place) ==
  LET turned[n \in 0 .. Cardinality(tree)] ==
        IF n = 0 THEN Turn(place)
        ELSE LET dead == turned[n - 1]
             IN  IF Len(dead.path) \in {0, height} THEN dead ELSE Turn(dead)
  IN  turned[Cardinality(tree)]

\* The pairs of one range of the index, from its path to the next range.
RangeLength(k) ==
  (IF k + 1 = Len(gate.starts) THEN gate.count ELSE gate.starts[k + 2]) - gate.starts[k + 1]

Visited(k) ==
  LET place[i \in 1 .. RangeLength(k)] ==
        IF i = 1 THEN At(gate.paths[k + 1]) ELSE Advance(place[i - 1])
  IN  [i \in 1 .. RangeLength(k) |-> place[i].path]

\* The two exceptions of a walk: its path is not in the trees, or it ends too early.
Lost(k) == \E i \in 1 .. RangeLength(k) : Visited(k)[i] \notin Pairs

\* What a range has emitted after n pairs.
Emitted(k, n) ==
  LET emitted[i \in 0 .. n] ==
        IF i = 0 THEN Fresh(height + 1)
        ELSE LET path == Visited(k)[i] IN AppendBatch(emitted[i - 1], path, kept[path])
  IN  emitted[n]

\* The segments in the order of their ranges.
Merged(depth) ==
  LET merged[k \in 0 .. Len(segments)] ==
        IF k = 0 THEN Fresh(depth) ELSE AppendSegment(merged[k - 1], segments[k])
  IN  merged[Len(segments)]

\* An index of pairs in order, built by a serial walk.
Indexed(order, depth) ==
  LET size == (Len(order) + Quantum - 1) \div Quantum
  IN  [count |-> Len(order), depth |-> depth,
       starts |-> [k \in 1 .. size |-> (k - 1) * Quantum],
       paths |-> [k \in 1 .. size |-> order[(k - 1) * Quantum + 1]]]

Unindexed(order) == [Fresh(0) EXCEPT !.count = Len(order)]

-----------------------------------------------------------------------------
GatesInit ==
  /\ Init
  /\ tree \in FirstTrees /\ height = FirstHeight
  /\ parallel \in BOOLEAN
  /\ gate = IF parallel THEN Indexed(Serial, height) ELSE Unindexed(Serial)
  /\ kept = <<>> /\ segments = <<>> /\ phase = "idle"

\* What a row keeps: any labels, of those that the bound admits.
Labels == {labels \in Kept(Pairs) : labels \in [Pairs -> SUBSET Branch]}

\* Reification: the paths of the pairs that are kept, and pairs of nodes that both stay
\* because of others.
Reified(labels, dead) ==
  dead \cup UNION {{SubSeq(p, 1, d) : d \in 0 .. height} \cup {Append(p, b) : b \in labels[p]} :
                     p \in {q \in Pairs : labels[q] # {}}}

\* A row swept by one worker, or by several without an index.
SweepSerial ==
  /\ phase = "idle" /\ height < LastHeight
  /\ ~(parallel /\ IndexReady(gate, height))
  /\ \E labels \in Labels, dead \in {{}, tree} : tree' = Reified(labels, dead)
  /\ height' = height + 1
  /\ gate' = IF parallel THEN Indexed(Serial', height') ELSE Unindexed(Serial')
  /\ phase' = IF gate'.count = 0 THEN "exhausted" ELSE "idle"
  /\ UNCHANGED <<parallel, kept, segments, vars>>

\* walk_candidate_pair_batches_parallel: a task per range of the index.
Dispatch ==
  /\ phase = "idle" /\ height < LastHeight
  /\ parallel /\ IndexReady(gate, height)
  /\ Call(Len(gate.starts))
  /\ kept' \in Labels
  /\ segments' = [k \in 1 .. Len(gate.starts) |-> Fresh(height + 1)]
  /\ phase' = "walk"
  /\ UNCHANGED <<tree, height, gate, parallel>>

\* walk_indexed_gate_range of one task.
WalkRange(w) ==
  /\ Complete(w) /\ ~Lost(task[w])
  /\ segments' = [segments EXCEPT ![task[w] + 1] = Emitted(task[w], RangeLength(task[w]))]
  /\ UNCHANGED <<tree, height, gate, parallel, kept, phase>>

\* It may be out of memory at any pair.
AbandonRange(w) ==
  /\ Throw(w)
  /\ \E n \in 0 .. (RangeLength(task[w]) - 1) :
       segments' = [segments EXCEPT ![task[w] + 1] = Emitted(task[w], n)]
  /\ UNCHANGED <<tree, height, gate, parallel, kept, phase>>

Schedule ==
  /\ Return \/ \E w \in Worker : Take(w) \/ Check(w) \/ Exchange(w) \/ Keep(w)
  /\ UNCHANGED gateVars

\* Behind the barrier: the segments that hold pairs are appended in order.
Merge ==
  /\ phase = "walk" /\ outcome = "returned"
  /\ \E dead \in {{}, tree} : tree' = Reified(kept, dead)
  /\ height' = height + 1
  /\ gate' = Merged(height + 1)
  /\ phase' = IF gate'.count = 0 THEN "exhausted"
              ELSE IF \A k \in DOMAIN segments :
                        segments[k].count = 0 \/ IndexReady(segments[k], height')
                   THEN "idle" ELSE "logic_error"
  /\ kept' = <<>> /\ segments' = <<>>
  /\ UNCHANGED <<parallel, vars>>

GiveUp ==
  /\ phase = "walk" /\ outcome = "rethrown" /\ phase' = "failed"
  /\ kept' = <<>> /\ segments' = <<>>
  /\ UNCHANGED <<tree, height, gate, parallel, vars>>

\* A checkpoint loaded with another number of workers; the index is in the checkpoint.
Resume ==
  /\ phase = "idle" /\ parallel' = ~parallel
  /\ gate' = IF parallel' /\ ~IndexReady(gate, height) THEN Indexed(Serial, height) ELSE gate
  /\ UNCHANGED <<tree, height, kept, segments, phase, vars>>

GatesNext ==
  \/ SweepSerial \/ Dispatch \/ Schedule \/ Merge \/ GiveUp \/ Resume
  \/ \E w \in Worker : WalkRange(w) \/ AbandonRange(w)

GatesSpec == GatesInit /\ [][GatesNext]_<<vars, gateVars>>

-----------------------------------------------------------------------------
\* Whoever resumes with more or fewer workers, and however the segments fell, the gate
\* counts the pairs of the serial walk, and the walks of its ranges, each restarted from
\* an indexed path, make up the serial walk: every pair is visited, once, by one range.
RangesDivide ==
  /\ phase # "logic_error"
  /\ phase = "idle" =>
       /\ gate.count = Len(Serial)
       /\ parallel => IndexReady(gate, height)
       /\ IndexReady(gate, height) =>
            Serial = FlattenSeq([k \in 1 .. Len(gate.starts) |-> Visited(k - 1)])
=============================================================================
