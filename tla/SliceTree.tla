----------------------------- MODULE SliceTree -----------------------------
(***************************************************************************)
(* The packed tree of one slice (succinct_slice_tree.hpp).  Nodes are      *)
(* numbered breadth-first; a tree stores the child labels of its inner     *)
(* nodes and where each level begins, nothing else.  Children and parents  *)
(* are found by counting child bits: a rank directory holds the count      *)
(* before each chunk of words, and before each word within its chunk.      *)
(***************************************************************************)
EXTENDS Integers, FiniteSets, FiniteSetsExt

CONSTANTS
  Label,          \* labels of a row in a slice, as numbers
  NodesPerWord,   \* node masks in one word of words_ (16)
  WordsPerChunk   \* words_per_absolute_chunk (512)

ASSUME TreeAssumption ==
  /\ Label \subseteq Nat /\ IsFiniteSet(Label)
  /\ {NodesPerWord, WordsPerChunk} \subseteq Nat \ {0}

\* A tree is a record of its levels' first nodes and the masks of its inner nodes.
Deep(tree) == Cardinality(DOMAIN tree.level) - 2
LeafBegin(tree) == tree.level[Deep(tree)]
Leaves(tree) == LeafBegin(tree) .. (tree.level[Deep(tree) + 1] - 1)
Inner(tree) == 0 .. (LeafBegin(tree) - 1)

\* Number of child bits of some nodes.
Bits(tree, nodes) == Cardinality({bit \in nodes \X Label : bit[2] \in tree.mask[bit[1]]})

\* from_checkpoint: no level begins before the one above it, and each holds the children
\* of the level above.  A node without a child is not refused.
WellFormed(tree) ==
  /\ Deep(tree) \in Nat /\ tree.level \in [0 .. (Deep(tree) + 1) -> Nat]
  /\ tree.level[0] = 0 /\ tree.level[1] = 1
  /\ \A d \in 0 .. Deep(tree) : tree.level[d] <= tree.level[d + 1]
  /\ tree.mask \in [Inner(tree) -> SUBSET Label]
  /\ \A d \in 0 .. (Deep(tree) - 1) :
       Bits(tree, tree.level[d] .. (tree.level[d + 1] - 1)) = tree.level[d + 2] - tree.level[d + 1]

\* Every branch reaches the leaves, as reification leaves it.
NoDeadEnd(tree) == \A n \in Inner(tree) : tree.mask[n] # {}

InWord(tree, w) ==
  (w * NodesPerWord) .. (Min({LeafBegin(tree), (w + 1) * NodesPerWord}) - 1)

\* rebuild_rank_directory.
RankDirectory(tree) ==
  LET words == 0 .. (LeafBegin(tree) \div NodesPerWord)
      total == [w \in words |-> Bits(tree, 0 .. (Min({LeafBegin(tree), w * NodesPerWord}) - 1))]
      absolute == [w \in words |-> total[(w \div WordsPerChunk) * WordsPerChunk]]
  IN  [absolute |-> absolute, relative |-> [w \in words |-> total[w] - absolute[w]]]

RankBefore(tree, w) == LET rank == RankDirectory(tree) IN rank.absolute[w] + rank.relative[w]

\* child_block: the first child.
FirstChild(tree, n) ==
  LET w == n \div NodesPerWord IN
    RankBefore(tree, w) + Bits(tree, (w * NodesPerWord) .. (n - 1)) + 1

\* child_from_word.
Child(tree, n, l) == FirstChild(tree, n) + Cardinality({k \in tree.mask[n] : k < l})

\* word_count_for_nodes of the inner nodes: no search goes beyond these words.
Words(tree) == (LeafBegin(tree) + NodesPerWord - 1) \div NodesPerWord

RankAfter(tree, w) == RankBefore(tree, w) + Bits(tree, InWord(tree, w))

\* Mistake: a word that ends just before the bit is taken for the one that holds it.
FirstWordEarly(tree, rank, first, last) ==
  LET search[r \in (0 .. Words(tree)) \X (0 .. Words(tree))] ==
        LET middle == r[1] + (r[2] - r[1]) \div 2 IN
          IF r[1] >= r[2] THEN r[1]
          ELSE IF RankAfter(tree, middle) < rank THEN search[<<middle + 1, r[2]>>]
          ELSE search[<<r[1], middle>>]
  IN  search[<<first, last>>]

\* The binary search of parent_link: the first word, up to last, after which there are
\* more than `rank' child bits.
FirstWord(tree, rank, first, last) ==
  LET search[r \in (0 .. Words(tree)) \X (0 .. Words(tree))] ==
        LET middle == r[1] + (r[2] - r[1]) \div 2 IN
          IF r[1] >= r[2] THEN r[1]
          ELSE IF RankAfter(tree, middle) <= rank THEN search[<<middle + 1, r[2]>>]
          ELSE search[<<r[1], middle>>]
  IN  search[<<first, last>>]

\* No parent was found: one of the exceptions of parent_link.
NoLink == <<-1, -1>>

(***************************************************************************)
(* parent_link of a node at depth d: the word that holds the node's bit,   *)
(* and in it the bit left when as many lower ones have been cleared as the *)
(* directory leaves over.  It has to be there, and of a node one level up. *)
(***************************************************************************)
ParentLink(tree, node, d) ==
  LET w == FirstWord(tree, node - 1, tree.level[d - 1] \div NodesPerWord,
                     (tree.level[d] + NodesPerWord - 1) \div NodesPerWord)
      below(n, l) == Bits(tree, (w * NodesPerWord) .. (n - 1))
                     + Cardinality({k \in tree.mask[n] : k < l})
      links == {link \in InWord(tree, w) \X Label :
                  /\ link[2] \in tree.mask[link[1]]
                  /\ below(link[1], link[2]) = node - 1 - RankBefore(tree, w)
                  /\ link[1] \in tree.level[d - 1] .. (tree.level[d] - 1)}
  IN  IF links = {} THEN NoLink ELSE CHOOSE link \in links : TRUE

\* lineage: the labels from the root to a leaf.
Lineage(tree, leaf) ==
  LET link[d \in 1 .. Deep(tree)] ==
        ParentLink(tree, IF d = Deep(tree) THEN leaf ELSE link[d + 1][1], d)
  IN  [d \in 1 .. Deep(tree) |-> link[d][2]]

\* The node that a sequence of labels leads to.
Descend(tree, path) ==
  LET at[d \in 0 .. Deep(tree)] == IF d = 0 THEN 0 ELSE Child(tree, at[d - 1], path[d])
  IN  at[Deep(tree)]
=============================================================================
