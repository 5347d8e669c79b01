---------------------------- MODULE MCSolverRun ----------------------------
(* Extensions under every way of saving, and the materialization of two parts. *)
EXTENDS SolverRun

\* marked: a partition spec may name a source whose row holds a completion, or has
\* reached the halt position.
Extensions ==
  {o \in [save: {"none", "final", "every", "pause"}, haltOnEnds: BOOLEAN, halt: {None, 0, 2},
          parts: {0}, pending: BOOLEAN, marked: BOOLEAN] :
     o.marked \/ o.halt = 0 => o.pending}

Materializations ==
  [save: {"final"}, haltOnEnds: BOOLEAN, halt: {None}, parts: {2}, pending: {TRUE},
   marked: BOOLEAN]

MCOptions == Extensions \cup Materializations
=============================================================================
