------------------------------- MODULE Reify -------------------------------
(***************************************************************************)
(* Reification of a slice tree: the leaves that a sweep keeps, and their   *)
(* ancestors, become the new tree, in the same order.  reify does it in    *)
(* place; reify_parallel_group has workers that take tasks of a phase in   *)
(* any order and at the same time.  Bits of the tags are set by a plain    *)
(* load and store of their word; a task owns whole words.  Words of the    *)
(* new tree that two tasks fill are written with atomic OR.  The trees of  *)
(* a group share nothing, so one tree stands for all.                      *)
(***************************************************************************)
EXTENDS SliceTree, Sequences, SequencesExt

CONSTANTS
  None,
  NodesPerTagWord,       \* tags in one word of PackedTags (64)
  CloseWordsPerTask,     \* close_words_per_task
  CompactNodesPerTask,   \* compact_nodes_per_task
  Inputs                 \* trees with kept leaves, see Input

\* keep: the kept leaves; clauseDepth: bcaf_first_child_depth_, 0 without clauses.  A new
\* row has just been appended to the tree.
Input(i) ==
  /\ WellFormed(i.tree) /\ Deep(i.tree) > 0
  /\ i.keep \subseteq Leaves(i.tree) /\ i.clauseDepth \in 0 .. Deep(i.tree)
  /\ i.parallel \in BOOLEAN

ASSUME ReifyAssumption ==
  /\ {NodesPerTagWord, CloseWordsPerTask, CompactNodesPerTask} \subseteq Nat \ {0}
  /\ \A i \in Inputs : Input(i)

VARIABLES
  in,       \* the input
  tree,     \* the stored tree
  tags,     \* the nodes whose tag is set
  phase,    \* "close", "count", "emit", "finalize", "compact" or "done"
  level,    \* the level being closed
  task,     \* per task, its next node
  loaded,   \* per task, the tag word it is about to store, or None
  live,     \* live_per_level
  offset,   \* live_offsets: where each task's output begins
  output,   \* masks of the new tree, by node
  clause,   \* clause bytes of the new tree by node: the old node and its labels
  cursor,   \* in place: the first child of the next node, and the nodes written
  result    \* "running", "retained", "empty" or "logic_error"

vars == <<in, tree, tags, phase, level, task, loaded, live, offset, output, clause, cursor, result>>

Height == Deep(in.tree)

Init ==
  /\ in \in Inputs
  /\ tree = in.tree /\ tags = in.keep
  /\ phase = "close" /\ level = Height - 1
  /\ task = <<>> /\ loaded = <<>> /\ offset = <<>> /\ output = <<>> /\ clause = <<>>
  /\ live = [d \in 0 .. Height |-> IF d = Height THEN Cardinality(in.keep) ELSE 0]
  /\ cursor = [child |-> 1, write |-> 0, pending |-> <<>>]
  /\ result = "running"

Shape == <<in, tree>>

Finish(r) == phase' = "done" /\ result' = r

\* The numbers of a set, from the lowest on.
Ascending(S) == [i \in 1 .. Cardinality(S) |-> CHOOSE n \in S : Cardinality({m \in S : m < n}) = i - 1]

-----------------------------------------------------------------------------
\* Mistake: tasks that are cut from the level's first node on.
CloseTasksUnaligned ==
  LET size == NodesPerTagWord * CloseWordsPerTask
      begin == tree.level[level]
      end == tree.level[level + 1]
  IN  {<<begin + k * size, Min({end, begin + (k + 1) * size})>> :
         k \in 0 .. ((end - begin - 1) \div size)}

\* Tasks of the level that is closed: whole tag words, cut to the level.
CloseTasks ==
  LET size == NodesPerTagWord * CloseWordsPerTask
      begin == tree.level[level]
      end == tree.level[level + 1]
      firstWord == begin \div NodesPerTagWord
      pastWord == (end + NodesPerTagWord - 1) \div NodesPerTagWord
      words == {w \in firstWord .. (pastWord - 1) : (w - firstWord) % CloseWordsPerTask = 0}
  IN  {<<Max({begin, w * NodesPerTagWord}), Min({end, w * NodesPerTagWord + size})>> : w \in words}

TagWord(n) == {m \in 0 .. (tree.level[Height + 1] - 1) : m \div NodesPerTagWord = n \div NodesPerTagWord}

CloseBegin ==
  /\ in.parallel /\ phase = "close" /\ task = <<>>
  /\ task' = [t \in CloseTasks |-> t[1]]
  /\ loaded' = [t \in CloseTasks |-> None]
  /\ UNCHANGED <<Shape, tags, phase, level, live, offset, output, clause, cursor, result>>

\* execute_group_close: one node, dead, or live and its word read ...
CloseVisit(t) ==
  /\ phase = "close" /\ task[t] < t[2] /\ loaded[t] = None
  /\ LET n == task[t]
         first == FirstChild(tree, n)
     IN IF tags \cap (first .. (first + Cardinality(tree.mask[n]) - 1)) = {}
        THEN task' = [task EXCEPT ![t] = @ + 1] /\ UNCHANGED loaded
        ELSE loaded' = [loaded EXCEPT ![t] = tags \cap TagWord(n)] /\ UNCHANGED task
  /\ UNCHANGED <<Shape, tags, phase, level, live, offset, output, clause, cursor, result>>

\* ... and stored with its tag.
CloseStore(t) ==
  /\ phase = "close" /\ loaded[t] # None
  /\ LET n == task[t] IN tags' = (tags \ TagWord(n)) \cup loaded[t] \cup {n}
  /\ loaded' = [loaded EXCEPT ![t] = None]
  /\ task' = [task EXCEPT ![t] = @ + 1]
  /\ live' = [live EXCEPT ![level] = @ + 1]
  /\ UNCHANGED <<Shape, phase, level, offset, output, clause, cursor, result>>

\* The barrier behind a level; above the root, an empty tree ends the search.
CloseLevelDone ==
  /\ phase = "close" /\ task # <<>> /\ \A t \in DOMAIN task : task[t] = t[2]
  /\ task' = <<>> /\ loaded' = <<>>
  /\ IF level > 0 THEN level' = level - 1 /\ UNCHANGED <<phase, result>>
     ELSE /\ UNCHANGED level
          /\ IF live[0] = 0 THEN Finish("empty") ELSE phase' = "count" /\ UNCHANGED result
  /\ UNCHANGED <<Shape, tags, live, offset, output, clause, cursor>>

-----------------------------------------------------------------------------
Tasks == 0 .. ((LeafBegin(tree) - 1) \div CompactNodesPerTask)

InTask(k) == {n \in Inner(tree) : n \div CompactNodesPerTask = k}

\* Level boundaries of the new tree.
NewLevel ==
  LET begin[d \in 0 .. (Height + 1)] == IF d = 0 THEN 0 ELSE begin[d - 1] + live[d - 1] IN begin

Retained == NewLevel[Height + 1]

\* Mistake: the level of the first child instead of its parent's.
ClauseBeginAll == NewLevel[in.clauseDepth]

\* retained_bcaf_begin: the first new node with a clause byte.
ClauseBegin == NewLevel[in.clauseDepth - 1]

\* execute_group_count and the prefix sums.  Tags that the closing lost would show here.
Count ==
  /\ phase = "count"
  /\ LET before(k) == Cardinality({n \in tags : n < LeafBegin(tree) /\ n \div CompactNodesPerTask < k})
         last == Max(Tasks) + 1
     IN /\ offset' = [k \in 0 .. last |-> before(k)]
        /\ IF before(last) + live[Height] # Retained
           THEN Finish("logic_error") /\ UNCHANGED <<task, output>>
           ELSE /\ phase' = "emit" /\ UNCHANGED result
                /\ task' = [k \in Tasks |-> 0]
                /\ output' = [n \in 0 .. (NewLevel[Height] - 1) |-> {}]
  /\ UNCHANGED <<Shape, tags, level, loaded, live, clause, cursor>>

\* Mistake: the tags of the children are taken for their labels.
RetainedMaskCompact(mask, first) ==
  {i \in 0 .. (Cardinality(mask) - 1) : first + i \in tags}

\* scatter_compact_bits: the labels whose children are tagged.
RetainedMask(mask, first) ==
  {l \in mask : first + Cardinality({k \in mask : k < l}) \in tags}

\* The clause bytes once nodes are written from position `from' on, by the old nodes.
Clauses(nodes, from, masks) ==
  LET parents == {i \in DOMAIN nodes : /\ in.clauseDepth > 0
                                       /\ nodes[i] >= in.tree.level[in.clauseDepth - 1]}
      written == {from + i - 1 - ClauseBegin : i \in parents}
  IN  [p \in written \cup DOMAIN clause |->
         IF p \notin written THEN clause[p]
         ELSE LET i == p + ClauseBegin + 1 - from IN <<nodes[i], masks[i]>>]

\* The nodes of task k still to be written, in order.
Emitting(k) ==
  LET nodes == Ascending(InTask(k) \cap tags) IN SubSeq(nodes, task[k] + 1, Len(nodes))

\* execute_parallel_emit up to a flush: a word of its own is stored, a word that the
\* task enters or leaves in the middle is combined with what others have put there.
EmitWord(k) ==
  /\ phase = "emit" /\ Emitting(k) # <<>>
  /\ LET from == offset[k] + task[k]
         word == {p \in DOMAIN output : p \div NodesPerWord = from \div NodesPerWord}
         taken == Min({Len(Emitting(k)), NodesPerWord - (from % NodesPerWord)})
         nodes == SubSeq(Emitting(k), 1, taken)
         masks == [i \in 1 .. taken |-> RetainedMask(tree.mask[nodes[i]], FirstChild(tree, nodes[i]))]
         written == [p \in word |-> IF p \in from .. (from + taken - 1) THEN masks[p - from + 1] ELSE {}]
     IN /\ output' = [p \in DOMAIN output |->
                        IF p \notin word THEN output[p]
                        ELSE IF taken = NodesPerWord THEN written[p] ELSE output[p] \cup written[p]]
        /\ clause' = Clauses(nodes, from, masks)
        /\ task' = [task EXCEPT ![k] = @ + taken]
  /\ UNCHANGED <<Shape, tags, phase, level, loaded, live, offset, cursor, result>>

EmitDone ==
  /\ phase = "emit" /\ \A k \in Tasks : Emitting(k) = <<>>
  /\ IF \A k \in Tasks : offset[k] + task[k] = offset[k + 1]
     THEN phase' = "finalize" /\ UNCHANGED result
     ELSE Finish("logic_error")
  /\ UNCHANGED <<Shape, tags, level, task, loaded, live, offset, output, clause, cursor>>

\* The end of both variants: levels, and a rank directory that has to fit the count.
Store(masks) ==
  LET new == [level |-> NewLevel, mask |-> masks] IN
    /\ tree' = new
    /\ Finish(IF live[0] # 1 \/ Bits(new, DOMAIN masks) + 1 # Retained
              THEN "logic_error" ELSE "retained")

\* execute_group_finalize.
Finalize ==
  /\ phase = "finalize"
  /\ Store(output)
  /\ UNCHANGED <<in, tags, level, task, loaded, live, offset, output, clause, cursor>>

-----------------------------------------------------------------------------
\* close_dfs: every node above a kept leaf, counted by level.
CloseSerial ==
  /\ ~in.parallel /\ phase = "close"
  /\ LET closed[d \in 0 .. Height] ==
           IF d = Height THEN in.keep
           ELSE {n \in tree.level[d] .. (tree.level[d + 1] - 1) :
                   \E l \in tree.mask[n] : Child(tree, n, l) \in closed[d + 1]}
     IN /\ tags' = UNION {closed[d] : d \in 0 .. Height}
        /\ live' = [d \in 0 .. Height |-> Cardinality(closed[d])]
        /\ IF closed[0] = {} THEN Finish("empty")
                             ELSE phase' = "compact" /\ UNCHANGED result
  /\ level' = 0
  /\ UNCHANGED <<Shape, task, loaded, offset, output, clause, cursor>>

(***************************************************************************)
(* The stable compaction in place.  level counts the source words; a word  *)
(* is read as a whole before anything is written into it.  Masks wait in   *)
(* cursor.pending until they fill a word.                                  *)
(***************************************************************************)
CompactWord ==
  /\ phase = "compact" /\ level * NodesPerWord < LeafBegin(in.tree)
  /\ LET word == {n \in Inner(in.tree) : n \div NodesPerWord = level}
         first(n) == cursor.child + Bits(tree, {m \in word : m < n})
         kept == Ascending(word \cap tags)
         masks == [i \in DOMAIN kept |-> RetainedMask(tree.mask[kept[i]], first(kept[i]))]
         waiting == cursor.pending \o masks
         full == NodesPerWord * (Len(waiting) \div NodesPerWord)
         begin == cursor.write - Len(cursor.pending)
         mask(n) == IF n \in begin .. (begin + full - 1) THEN waiting[n - begin + 1] ELSE tree.mask[n]
     IN /\ tree' = [level |-> tree.level, mask |-> [n \in DOMAIN tree.mask |-> mask(n)]]
        /\ cursor' = [child |-> cursor.child + Bits(tree, word), write |-> cursor.write + Len(masks),
                      pending |-> SubSeq(waiting, full + 1, Len(waiting))]
        /\ clause' = Clauses(kept, cursor.write, masks)
  /\ level' = level + 1
  /\ UNCHANGED <<in, tags, phase, task, loaded, live, offset, output, result>>

\* The last word, the checks of the cursors, and the new size.
CompactDone ==
  /\ phase = "compact" /\ level * NodesPerWord >= LeafBegin(in.tree)
  /\ LET begin == cursor.write - Len(cursor.pending)
         mask(n) == IF n >= begin THEN cursor.pending[n - begin + 1] ELSE tree.mask[n]
     IN IF \/ cursor.child # in.tree.level[Height + 1]
           \/ cursor.write + live[Height] # Retained
        THEN Finish("logic_error") /\ UNCHANGED tree
        ELSE Store([n \in 0 .. (cursor.write - 1) |-> mask(n)])
  /\ UNCHANGED <<in, tags, level, task, loaded, live, offset, output, clause, cursor>>

Next ==
  \/ CloseBegin \/ CloseLevelDone \/ Count \/ EmitDone \/ Finalize
  \/ \E t \in DOMAIN task : CloseVisit(t) \/ CloseStore(t)
  \/ \E k \in Tasks : EmitWord(k)
  \/ CloseSerial \/ CompactWord \/ CompactDone

Spec == Init /\ [][Next]_vars

-----------------------------------------------------------------------------
\* The new tree holds the label sequences of the kept leaves, in the same order, and
\* no others: no task of a phase destroys what another one has written.  The search is
\* found empty exactly when no leaf is kept.
LineagesKept ==
  /\ result \in {"empty", "retained"} => (result = "empty") = (in.keep = {})
  /\ result = "retained" =>
    /\ Cardinality(Leaves(tree)) = Cardinality(in.keep)
    /\ \A x \in in.keep :
         Lineage(tree, LeafBegin(tree) + Cardinality({y \in in.keep : y < x})) = Lineage(in.tree, x)

\* Going up by rank and select and down by rank meet: every leaf of the new tree is
\* where its labels lead.
DescentInverts ==
  result = "retained" => \A x \in Leaves(tree) : Descend(tree, Lineage(tree, x)) = x

Ancestor(t, x, d) ==
  LET path == Lineage(t, x)
      at[e \in 0 .. d] == IF e = 0 THEN 0 ELSE Child(t, at[e - 1], path[e])
  IN  at[d]

\* A clause byte stays with its node, with the labels that are left to it: bytes and
\* masks are compacted to different positions, which have to agree.
ClausesFollow ==
  result = "retained" /\ in.clauseDepth > 0 =>
    \A d \in (in.clauseDepth - 1) .. (Height - 1), x \in in.keep :
      LET new == LeafBegin(tree) + Cardinality({y \in in.keep : y < x})
          parent == Ancestor(tree, new, d)
          at == parent - tree.level[in.clauseDepth - 1]
      IN  at \in DOMAIN clause /\ clause[at] = <<Ancestor(in.tree, x, d), tree.mask[parent]>>

\* None of the alignment checks fails: every phase counts what the previous one left.
AccountingHolds == result # "logic_error"
=============================================================================
