----------------------------- MODULE Completion -----------------------------
(***************************************************************************)
(* Does the current row complete a pattern?  A complete row does when no   *)
(* leaf of it has a cell in the last short window of rows, and some leaf   *)
(* has one in the long window.  The question is asked twice.  With the     *)
(* bcaf filter, the left sweep of prune_supported carries completion tags  *)
(* along its surviving edges and remembers a negative answer.  Otherwise,  *)
(* and to build the board, find_completion sweeps the retained edges from  *)
(* the right and follows its tags from the left (solver.hpp).              *)
(***************************************************************************)
EXTENDS Naturals, FiniteSets

CONSTANTS
  N,        \* number of slices
  Leaf,     \* leaf ordinals of a slice
  NoLeaf,
  Inputs    \* retained rows, see Input

Slice == 1 .. N
Relation == 1 .. (N - 1)

(***************************************************************************)
(* gate: the surviving edges, which are also the edges that later walks    *)
(* visit; valid: leaves without a cell in the short window; recent: valid  *)
(* leaves with a cell in the long window; cached: the left sweep carries   *)
(* completion tags.                                                        *)
(***************************************************************************)
Input == [gate: [Relation -> SUBSET (Leaf \X Leaf)], valid: [Slice -> SUBSET Leaf],
          recent: [Slice -> SUBSET Leaf], cached: BOOLEAN]

Row == [Slice -> Leaf]

Rows(c) == {p \in Row : \A i \in Relation : <<p[i], p[i + 1]>> \in c.gate[i]}

\* Every edge lies on a complete row: what prune_supported leaves.
Supported(c) == \A i \in Relation : c.gate[i] = {<<p[i], p[i + 1]>> : p \in Rows(c)}

ASSUME CompletionAssumption ==
  /\ N \in Nat \ {0, 1} /\ NoLeaf \notin Leaf
  /\ \A c \in Inputs : /\ c \in Input /\ Supported(c)
                       /\ \A i \in Slice : c.recent[i] \subseteq c.valid[i]

VARIABLES
  in,
  phase,    \* "left", "scan", "right", "first", "follow" or "done"
  at,       \* the relation being walked
  todo,     \* its edges not visited yet
  prefix,   \* completion_prefix: per slice, the tags of valid and interesting
  suffix,   \* the same from the right
  board,    \* the leaves of the reconstruction
  seen,     \* seen_interesting
  result    \* "running", "none", "completion" or "logic_error"

vars == <<in, phase, at, todo, prefix, suffix, board, seen, result>>

Tags == [valid: SUBSET Leaf, recent: SUBSET Leaf]
NoTags == [i \in Slice |-> [valid |-> {}, recent |-> {}]]

\* Leaves that keep their place: ends of surviving edges.
Kept(i) == IF i = N THEN {e[2] : e \in in.gate[N - 1]} ELSE {e[1] : e \in in.gate[i]}

\* find_completion: its first tags are those of the last slice.
LastTags(c, leaves) ==
  [NoTags EXCEPT ![N] = [valid |-> leaves \cap c.valid[N], recent |-> leaves \cap c.recent[N]]]

Init ==
  /\ in \in Inputs
  /\ board = [i \in Slice |-> NoLeaf] /\ seen = FALSE /\ result = "running"
  /\ IF in.cached
     THEN /\ phase = "left" /\ at = 1 /\ todo = in.gate[1]
          /\ prefix = [NoTags EXCEPT ![1].valid = Kept(1)] /\ suffix = NoTags
     ELSE /\ phase = "right" /\ at = N - 1 /\ todo = in.gate[N - 1]
          /\ prefix = NoTags /\ suffix = LastTags(in, Kept(N))

\* visit_batch: the tags of a surviving edge's left leaf go to its right leaf, if
\* the left leaf's own labels allow it.
LeftVisit(e) ==
  /\ phase = "left" /\ e \in todo
  /\ todo' = todo \ {e}
  /\ LET valid == e[1] \in prefix[at].valid /\ e[1] \in in.valid[at]
         recent == valid /\ (e[1] \in prefix[at].recent \/ e[1] \in in.recent[at])
     IN prefix' = [prefix EXCEPT ![at + 1] =
          [valid |-> IF valid THEN @.valid \cup {e[2]} ELSE @.valid,
           recent |-> IF recent THEN @.recent \cup {e[2]} ELSE @.recent]]
  /\ UNCHANGED <<in, phase, at, suffix, board, seen, result>>

LeftRelationDone ==
  /\ phase = "left" /\ todo = {}
  /\ IF at = N - 1 THEN phase' = "scan" /\ UNCHANGED <<at, todo>>
                   ELSE at' = at + 1 /\ todo' = in.gate[at + 1] /\ UNCHANGED phase
  /\ UNCHANGED <<in, prefix, suffix, board, seen, result>>

\* Mistake: only the last leaf is asked.
ScanRecentOnly ==
  \E x \in Kept(N) : x \in prefix[N].valid /\ x \in in.recent[N]

\* The live leaves of the last slice, with their own labels.
Scan ==
  \E x \in Kept(N) :
    /\ x \in prefix[N].valid /\ x \in in.valid[N]
    /\ x \in in.recent[N] \/ x \in prefix[N].recent

\* A negative answer is kept for find_completion; a positive one is worked out there.
Scanned ==
  /\ phase = "scan"
  /\ IF Scan THEN /\ phase' = "right" /\ at' = N - 1 /\ todo' = in.gate[N - 1]
                  /\ suffix' = LastTags(in, Kept(N))
                  /\ UNCHANGED result
             ELSE /\ phase' = "done" /\ result' = "none"
                  /\ UNCHANGED <<at, todo, suffix>>
  /\ UNCHANGED <<in, prefix, board, seen>>

\* find_completion walks a relation of retained edges.
RightVisit(e) ==
  /\ phase = "right" /\ e \in todo
  /\ todo' = todo \ {e}
  /\ LET valid == e[2] \in suffix[at + 1].valid /\ e[1] \in in.valid[at]
         recent == valid /\ (e[2] \in suffix[at + 1].recent \/ e[1] \in in.recent[at])
     IN suffix' = [suffix EXCEPT ![at] =
          [valid |-> IF valid THEN @.valid \cup {e[1]} ELSE @.valid,
           recent |-> IF recent THEN @.recent \cup {e[1]} ELSE @.recent]]
  /\ UNCHANGED <<in, phase, at, prefix, board, seen, result>>

RightRelationDone ==
  /\ phase = "right" /\ todo = {}
  /\ IF at = 1 THEN phase' = "first" /\ UNCHANGED <<at, todo>>
               ELSE at' = at - 1 /\ todo' = in.gate[at - 1] /\ UNCHANGED phase
  /\ UNCHANGED <<in, prefix, suffix, board, seen, result>>

\* The first leaf of a completion, the lowest one in the code.
First ==
  /\ phase = "first"
  /\ \/ /\ suffix[1].recent = {}
        /\ phase' = "done" /\ result' = "none" /\ UNCHANGED <<board, seen>>
     \/ \E x \in suffix[1].recent :
          /\ board' = [board EXCEPT ![1] = x] /\ seen' = (x \in in.recent[1])
          /\ phase' = "follow" /\ UNCHANGED result
  /\ UNCHANGED <<in, at, todo, prefix, suffix>>

\* Mistake: any valid leaf will do.
SuccessorsValid ==
  {y \in Leaf : <<board[at], y>> \in in.gate[at] /\ y \in suffix[at + 1].valid}

\* reconstruct_end: the next leaf is interesting until one has been.
Successors ==
  {y \in Leaf : /\ <<board[at], y>> \in in.gate[at]
                /\ y \in IF seen THEN suffix[at + 1].valid ELSE suffix[at + 1].recent}

\* find_current_right throws without a successor; which one comes first depends on
\* the walk.
Follow ==
  /\ phase = "follow"
  /\ \/ /\ Successors = {}
        /\ phase' = "done" /\ result' = "logic_error" /\ UNCHANGED <<at, board, seen>>
     \/ \E y \in Successors :
          LET found == seen \/ y \in in.recent[at + 1] IN
            /\ board' = [board EXCEPT ![at + 1] = y] /\ seen' = found
            /\ IF at < N - 1 THEN at' = at + 1 /\ UNCHANGED <<phase, result>>
               ELSE /\ phase' = "done" /\ UNCHANGED at
                    /\ result' = IF found THEN "completion" ELSE "logic_error"
  /\ UNCHANGED <<in, todo, prefix, suffix>>

Next ==
  \/ \E e \in todo : LeftVisit(e) \/ RightVisit(e)
  \/ LeftRelationDone \/ Scanned \/ RightRelationDone \/ First \/ Follow

Spec == Init /\ [][Next]_vars

-----------------------------------------------------------------------------
\* The complete rows that end the pattern.
Completions(c) ==
  {p \in Rows(c) : /\ \A i \in Slice : p[i] \in c.valid[i]
                   /\ \E i \in Slice : p[i] \in c.recent[i]}

\* A completion is reported exactly when the row holds one: the answer that the left
\* sweep keeps and the one that find_completion works out, or works out again after a
\* restart, agree, in whatever order the edges are visited.
DetectionExact ==
  result \in {"none", "completion"} => (result = "completion") = (Completions(in) # {})

\* The reconstruction never loses its way, and the board it shows completes the pattern.
BoardCompletes ==
  /\ result # "logic_error"
  /\ result = "completion" => board \in Completions(in)
=============================================================================
