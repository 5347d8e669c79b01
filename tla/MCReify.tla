------------------------------ MODULE MCReify ------------------------------
(* Trees of three levels below the root with two labels, whose last level is *)
(* uniform, as after a new row of tails.  What a row retains is what the     *)
(* partition command plans over.                                             *)
EXTENDS Reify, PartitionPlan

MCInit == Init /\ Idle /\ source = tree

\* Both variants retain the same trees, with or without clauses: one is planned over.
MCNext ==
  \/ Next /\ source' = tree' /\ UNCHANGED <<parts, slack, boundary, part, step, search>>
  \/ /\ result = "retained" /\ ~in.parallel /\ in.clauseDepth = 0
     /\ PlanNext /\ UNCHANGED vars

MCSpec == MCInit /\ [][MCNext]_<<vars, planVars>>

Masks == SUBSET {0, 1} \ {{}}

\* The three levels of inner nodes.
Forms ==
  UNION {UNION {{<<<<m>>, f, [i \in 1 .. MapThenSumSet(LAMBDA k : Cardinality(f[k]), DOMAIN f) |-> u]>> :
                   u \in Masks} : f \in [1 .. Cardinality(m) -> Masks]} : m \in Masks}

Width(row) == MapThenSumSet(LAMBDA k : Cardinality(row[k]), DOMAIN row)

Tree(form) ==
  LET all == FlattenSeq(form)
      sizes == <<1>> \o [i \in DOMAIN form |-> Width(form[i])]
  IN  [level |-> [d \in 0 .. Len(sizes) |-> MapThenSumSet(LAMBDA i : sizes[i], 1 .. d)],
       mask |-> [n \in 0 .. (Len(all) - 1) |-> all[n + 1]]]

\* Trees with more leaves than a slack of one can span: a deep one, a lopsided one and
\* one whose nodes have many children.
Large ==
  LET both(n) == [i \in 1 .. n |-> {0, 1}]
  IN  {<<both(1), both(2), both(4), both(8)>>,
       <<both(1), <<{0}, {0, 1}>>, <<{0, 1}, {1}, {0, 1}>>, both(5)>>,
       <<<<Label>>, <<{0, 1, 3}, {1}, {0, 2, 3}, Label>>>>}

MCInputs ==
  UNION {{[tree |-> Tree(f), keep |-> k, clauseDepth |-> c, parallel |-> p] :
            k \in SUBSET Leaves(Tree(f)), c \in 0 .. 3, p \in BOOLEAN} : f \in Forms}
  \cup {[tree |-> Tree(f), keep |-> Leaves(Tree(f)), clauseDepth |-> 0, parallel |-> FALSE] : f \in Large}
=============================================================================
