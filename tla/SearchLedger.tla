---------------------------- MODULE SearchLedger ----------------------------
(***************************************************************************)
(* What a managed search promises, whatever happens to the processes that  *)
(* run it.  The search space is a set of open branches.  An open branch is *)
(* closed by one final result, or replaced by all the parts of one split,  *)
(* each of which is open or already has its result; nothing is dropped and *)
(* nothing is reported twice.  The outcome is decided once, from results.  *)
(***************************************************************************)
EXTENDS Naturals, FiniteSets

CONSTANTS
  Root,     \* the branch a search starts with
  Parts,    \* --parts: how many parts a split has
  Split     \* names of splits

Id == {Root} \cup (Split \X (1 .. Parts))
Final == {"exhausted", "halt", "completion"}

VARIABLES
  open,     \* branches still to be searched
  closed,   \* final results, as pairs of a branch and a reason
  outcome   \* "none" until the search is complete

vars == <<open, closed, outcome>>

Init == open = {Root} /\ closed = {} /\ outcome = "none"

Decided(results, default) ==
  IF \E r \in results : r[2] = "completion" THEN "completion" ELSE default

\* A branch reaches its final result; a completion ends the whole search.
Close(b, reason) ==
  /\ outcome = "none" /\ b \in open
  /\ open' = open \ {b}
  /\ closed' = closed \cup {<<b, reason>>}
  /\ outcome' = Decided({<<b, reason>>}, "none")

\* A branch is divided into the parts of a fresh split: results gives those parts
\* that ended within their first row.
Divide(b, s, results) ==
  LET parts == {<<s, k>> : k \in 1 .. Parts} IN
    /\ outcome = "none" /\ b \in open
    /\ \A d \in open \cup {r[1] : r \in closed} : d \notin parts
    /\ open' = (open \ {b}) \cup {d \in parts : \A r \in results : r[1] # d}
    /\ closed' = closed \cup results
    /\ outcome' = Decided(results, "none")

\* Nothing is left to search.
Finish ==
  /\ outcome = "none" /\ open = {}
  /\ outcome' = IF \E r \in closed : r[2] = "halt" THEN "halt" ELSE "exhausted"
  /\ UNCHANGED <<open, closed>>

\* The results of some of the parts of a split, one each.
Reports(s) ==
  UNION {{{<<<<s, k>>, f[k]>> : k \in K} : f \in [K -> Final]} : K \in SUBSET (1 .. Parts)}

Next ==
  \/ \E b \in open, reason \in Final : Close(b, reason)
  \/ \E b \in open, s \in Split : \E results \in Reports(s) : Divide(b, s, results)
  \/ Finish

Spec == Init /\ [][Next]_vars
=============================================================================
