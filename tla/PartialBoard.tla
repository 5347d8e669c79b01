---------------------------- MODULE PartialBoard ----------------------------
(***************************************************************************)
(* The partial board that a run shows when it stops behind a row, at the   *)
(* memory cap, the halt position or the end of a part.  Whether the sweeps *)
(* capture it on their way is decided before them; the cap may be reached  *)
(* later, and a run resumed from the row's checkpoint has captured         *)
(* nothing.  Then the board is worked out again from the retained leaves:  *)
(* reconstruct_interesting with the filter, reconstruct_any without        *)
(* (solver.hpp).                                                           *)
(***************************************************************************)
EXTENDS SupportSweep

VARIABLES
  stage,    \* "sweep", "mark", "follow", "shown" or "logic_error"
  here,     \* the relation being walked
  left,     \* its edges not visited yet
  suffix,   \* leaves from which an interesting one is reached
  image,    \* the leaves of the reconstruction
  lit       \* reconstruct_interesting's `seen'

partial == <<stage, here, left, suffix, image, lit>>
allVars == <<vars, partial>>

PartialInit ==
  /\ Init
  /\ stage = "sweep" /\ here = N - 1 /\ left = {} /\ suffix = Empty
  /\ image = [i \in Slice |-> NoLeaf] /\ lit = FALSE

Sweeping == Next /\ UNCHANGED partial

\* reconstruct_partial: the captured board, if there is one.
Recall ==
  /\ stage = "sweep" /\ result = "supported" /\ in.partial
  /\ stage' = "shown" /\ image' = board
  /\ UNCHANGED <<vars, here, left, suffix, lit>>

\* reconstruct_any: a retained leaf of the first slice, and any edges from there.
RebuildAny ==
  /\ stage = "sweep" /\ result = "supported" /\ ~in.bcaf
  /\ \E x \in keep[1] : image' = [image EXCEPT ![1] = x]
  /\ stage' = "follow" /\ here' = 1 /\ lit' = TRUE
  /\ UNCHANGED <<vars, left, suffix>>

\* reconstruct_interesting: marks from the right, beginning with the last slice.
RebuildInteresting ==
  /\ stage = "sweep" /\ result = "supported" /\ in.bcaf
  /\ suffix' = [suffix EXCEPT ![N] = keep[N] \cap in.interesting[N]]
  /\ stage' = "mark" /\ here' = N - 1 /\ left' = FilteredEdges(N - 1)
  /\ UNCHANGED <<vars, image, lit>>

\* A worker visits one of the edges that the clause bytes leave.
Mark(e) ==
  /\ stage = "mark" /\ e \in left
  /\ left' = left \ {e}
  /\ suffix' = [suffix EXCEPT ![here] =
       IF e[2] \in suffix[here + 1] \/ e[1] \in in.interesting[here] THEN @ \cup {e[1]} ELSE @]
  /\ UNCHANGED <<vars, stage, here, image, lit>>

MarkDone ==
  /\ stage = "mark" /\ left = {} /\ here > 1
  /\ here' = here - 1 /\ left' = FilteredEdges(here - 1)
  /\ UNCHANGED <<vars, stage, suffix, image, lit>>

\* The lowest marked leaf of the first slice in the code.
Begin ==
  /\ stage = "mark" /\ left = {} /\ here = 1
  /\ \/ /\ suffix[1] = {}
        /\ stage' = "logic_error" /\ UNCHANGED <<image, lit>>
     \/ \E x \in suffix[1] :
          /\ image' = [image EXCEPT ![1] = x] /\ lit' = (x \in in.interesting[1])
          /\ stage' = "follow"
  /\ UNCHANGED <<vars, here, left, suffix>>

\* Mistake: any successor will do.
SuccessorsAny == {y \in Leaf : <<image[here], y>> \in FilteredEdges(here)}

\* find_current_right's candidates: marked ones until an interesting leaf is found.
Successors ==
  {y \in Leaf : <<image[here], y>> \in FilteredEdges(here) /\ (lit \/ y \in suffix[here + 1])}

\* It throws without one, and the end throws if nothing interesting was found.
Follow ==
  /\ stage = "follow"
  /\ \/ /\ Successors = {}
        /\ stage' = "logic_error" /\ UNCHANGED <<here, image, lit>>
     \/ \E y \in Successors :
          LET found == lit \/ y \in in.interesting[here + 1] IN
            /\ image' = [image EXCEPT ![here + 1] = y] /\ lit' = found
            /\ IF here < N - 1 THEN here' = here + 1 /\ UNCHANGED stage
               ELSE /\ stage' = IF found THEN "shown" ELSE "logic_error"
                    /\ UNCHANGED here
  /\ UNCHANGED <<vars, left, suffix>>

PartialNext ==
  \/ Sweeping
  \/ Recall \/ RebuildAny \/ RebuildInteresting
  \/ \E e \in left : Mark(e)
  \/ MarkDone \/ Begin \/ Follow

PartialSpec == PartialInit /\ [][PartialNext]_allVars

-----------------------------------------------------------------------------
\* Captured on the way or worked out afterwards, the board shown is a row that
\* survived, and neither of the reconstruction's exceptions is ever thrown.
PartialShown ==
  /\ stage # "logic_error"
  /\ stage = "shown" => image \in Surviving(in)
=============================================================================
