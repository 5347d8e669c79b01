---------------------------- MODULE MCCompletion ----------------------------
(* Three slices with two leaves each. *)
EXTENDS Completion

CONSTANTS a, b

MCLeaf == {a, b}

Gates == {g \in [1 .. (N - 1) -> (SUBSET (MCLeaf \X MCLeaf)) \ {{}}] :
            \A i \in 1 .. (N - 2) : {e[2] : e \in g[i]} = {e[1] : e \in g[i + 1]}}

\* One leaf that is not valid at most, and two that are recent.
Labels == {l \in [1 .. N -> [MCLeaf -> {"dead", "plain", "recent"}]] :
             LET labelled(label) == {x \in (1 .. N) \X MCLeaf : l[x[1]][x[2]] = label}
             IN  Cardinality(labelled("dead")) <= 1 /\ Cardinality(labelled("recent")) <= 2}

MCInputs ==
  {[gate |-> g, valid |-> [i \in 1 .. N |-> {x \in MCLeaf : l[i][x] # "dead"}],
    recent |-> [i \in 1 .. N |-> {x \in MCLeaf : l[i][x] = "recent"}], cached |-> c] :
     g \in Gates, l \in Labels, c \in BOOLEAN}
=============================================================================
