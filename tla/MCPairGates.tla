---------------------------- MODULE MCPairGates ----------------------------
(* Two branches everywhere.  Gates start as every set of pairs of depth two;  *)
(* a row keeps any extensions of these.                                      *)
EXTENDS PairGates

Paths(depth) == UNION {[1 .. d -> Branch] : d \in 0 .. depth}

\* Every set of complete paths, with the inner nodes that it needs and with all of them.
MCFirstTrees ==
  UNION {{pairs \cup Paths(FirstHeight - 1),
          UNION {{SubSeq(p, 1, d) : d \in 0 .. FirstHeight} : p \in pairs}} :
           pairs \in SUBSET [1 .. FirstHeight -> Branch] \ {{}}}

\* The first row keeps anything, a later one all or the same labels everywhere.
MCKept(pairs) ==
  IF \A p \in pairs : Len(p) = FirstHeight
  THEN [pairs -> SUBSET Branch]
  ELSE {[p \in pairs |-> labels] : labels \in {{0}, {0, 1}}}
=============================================================================
