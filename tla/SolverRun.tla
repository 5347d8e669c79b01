----------------------------- MODULE SolverRun -----------------------------
(***************************************************************************)
(* One rlife process: the row loop of Solver::run with its exits, the      *)
(* checkpoint and status it leaves, and the materialization of the parts   *)
(* of a split, which runs one Solver after the other in one process.       *)
(*                                                                         *)
(* What the rows contain is decided by `space', which a solver never sees  *)
(* but row by row: the height at which a search is exhausted and the       *)
(* heights at which it contains a completion.  A process may be killed or  *)
(* interrupted anywhere and started again from any checkpoint it left.     *)
(***************************************************************************)
EXTENDS Naturals, FiniteSets

CONSTANTS
  None,
  Options,        \* command lines: see SolverRunAssumption
  MaxRows,        \* bound: every search is exhausted within this many rows
  SaveEvery,      \* --save every:N
  MaxSignals, MaxKills   \* bounds on what interferes

\* Why a run ends.
Reasons == {"exhausted", "completion", "halt", "row_limit", "interrupted", "memory_cap"}

ASSUME SolverRunAssumption ==
  /\ None \notin Nat /\ None \notin Reasons
  /\ MaxRows \in Nat \ {0} /\ SaveEvery \in Nat \ {0}
  /\ MaxSignals \in Nat /\ MaxKills \in Nat
  /\ \A o \in Options :
       /\ o.save \in {"none", "final", "every", "pause"}
       /\ o.haltOnEnds \in BOOLEAN /\ o.halt \in Nat \cup {None}
       /\ o.parts \in Nat /\ o.pending \in BOOLEAN /\ o.marked \in BOOLEAN
       \* Only the row of a partition's source can hold a completion or be the last.
       /\ o.marked \/ o.halt = 0 => o.pending
       /\ o.parts > 0 => o.save = "final" /\ o.halt = None /\ o.pending

VARIABLES
  opt,      \* the command line
  space,    \* what the search with each name holds; name 0 is an extension's
  files,    \* checkpoints, by name and height
  status,   \* status files, by name
  pc,       \* where the process is; "none" without a process
  name,     \* the search this Solver runs
  solver,   \* the Solver object
  flag,     \* checkpoint_interrupt_requested_; None while SIGINT still kills
  told,     \* the handler has announced the exit after the current row
  used      \* signals and kills so far

vars == <<opt, space, files, status, pc, name, solver, flag, told, used>>

Names == IF opt.parts = 0 THEN {0} ELSE 1 .. opt.parts
First == IF opt.parts = 0 THEN 0 ELSE 1

Spaces == [end: 1 .. MaxRows, ends: SUBSET (1 .. (MaxRows - 1))]

Fresh == [height |-> 0, rows |-> 0, pending |-> FALSE, completion |-> FALSE,
          exhausted |-> FALSE, saved |-> None, capped |-> FALSE, reason |-> None]

Init ==
  /\ opt \in Options
  /\ space \in [Names -> Spaces]
  /\ files = <<>> /\ status = <<>>
  /\ pc = "none" /\ name = 0 /\ solver = Fresh /\ flag = None /\ told = FALSE
  /\ used = [signal |-> 0, kill |-> 0]


-----------------------------------------------------------------------------
\* A new process; its handler is not installed yet.
Start ==
  /\ pc = "none"
  /\ pc' = "construct" /\ name' = First /\ flag' = None /\ told' = FALSE
  /\ solver' = Fresh
  /\ UNCHANGED <<opt, space, files, status, used>>

\* Solver::Solver: the handler first, which forgets an earlier request, then the
\* checkpoint.  An extension begins anew or from any checkpoint of its own; the parts
\* of a split and a partition spec begin from the source's row with a restriction
\* still to be applied.
Construct ==
  /\ pc = "construct"
  /\ flag' = IF opt.save # "none" THEN FALSE ELSE flag
  /\ \/ solver' = [Fresh EXCEPT !.pending = opt.pending, !.completion = opt.marked,
                                !.capped = solver.capped]
     \/ \E f \in DOMAIN files :
          /\ opt.parts = 0
          /\ solver' = [Fresh EXCEPT !.height = f[2], !.exhausted = files[f].exhausted,
                                     !.completion = files[f].completion]
  /\ pc' = "open"
  /\ UNCHANGED <<opt, space, files, status, name, told, used>>

Halted == opt.halt # None /\ solver.height >= opt.halt

Ending(reason) == solver' = [solver EXCEPT !.reason = reason] /\ pc' = "finish"

OpenReasonForgetful(capped) ==
  IF solver.exhausted THEN "exhausted"
  ELSE IF Halted THEN "halt"
  ELSE IF flag = TRUE THEN "interrupted"
  ELSE IF capped /\ ~solver.pending THEN "memory_cap"
  ELSE None

\* Why run() returns before its first row, in the order of its tests.  A pending
\* restriction is applied whatever the memory.
OpenReason(capped) ==
  IF solver.exhausted THEN "exhausted"
  ELSE IF solver.completion /\ opt.haltOnEnds THEN "completion"
  ELSE IF Halted THEN "halt"
  ELSE IF flag = TRUE THEN "interrupted"
  ELSE IF capped /\ ~solver.pending THEN "memory_cap"
  ELSE None

\* A restriction that is still to be applied does not go with an end at this row.
Refused == solver.pending /\ ((solver.completion /\ opt.haltOnEnds) \/ Halted)

\* The throw of a spec that would halt before its restriction is applied: no status.
Refuse ==
  /\ pc = "open" /\ ~solver.exhausted /\ Refused
  /\ pc' = "none"
  /\ UNCHANGED <<opt, space, files, status, name, solver, flag, told, used>>

\* Peak memory only grows: a process that has reached the cap stays there.
Open ==
  /\ pc = "open" /\ (solver.exhausted \/ ~Refused)
  /\ \E capped \in {solver.capped, TRUE} :
       IF OpenReason(capped) # None THEN Ending(OpenReason(capped))
       ELSE solver' = [solver EXCEPT !.capped = capped] /\ pc' = "top"
  /\ UNCHANGED <<opt, space, files, status, name, flag, told, used>>

TopUnchecked ==
  /\ pc = "top"
  /\ solver' = [solver EXCEPT !.completion = FALSE] /\ pc' = "sweep"
  /\ UNCHANGED <<opt, space, files, status, name, flag, told, used>>

\* The top of the row loop.
Top ==
  /\ pc = "top"
  /\ IF flag = TRUE THEN Ending("interrupted")
                    ELSE solver' = [solver EXCEPT !.completion = FALSE] /\ pc' = "sweep"
  /\ UNCHANGED <<opt, space, files, status, name, flag, told, used>>

\* One row: a new level of tails, the support sweeps, the completion scan.
Sweep ==
  /\ pc = "sweep"
  /\ LET h == solver.height + 1
         swept == [solver EXCEPT !.height = h, !.pending = FALSE]
     IN IF h = space[name].end
        THEN solver' = [swept EXCEPT !.exhausted = TRUE, !.reason = "exhausted"]
             /\ pc' = "finish"
        ELSE /\ solver' = [swept EXCEPT !.rows = @ + 1,
                                        !.completion = h \in space[name].ends]
             /\ pc' = "decide"
  /\ UNCHANGED <<opt, space, files, status, name, flag, told, used>>

RowReasonLimitLate(capped) ==
  IF solver.completion /\ opt.haltOnEnds THEN "completion"
  ELSE IF Halted THEN "halt"
  ELSE IF opt.parts > 0 /\ solver.rows > 1 THEN "row_limit"
  ELSE IF flag = TRUE THEN "interrupted"
  ELSE IF capped THEN "memory_cap"
  ELSE None

\* Why run() returns after a row, in the order of its tests; a part has row_limit 1.
RowReason(capped) ==
  IF solver.completion /\ opt.haltOnEnds THEN "completion"
  ELSE IF Halted THEN "halt"
  ELSE IF opt.parts > 0 /\ solver.rows >= 1 THEN "row_limit"
  ELSE IF flag = TRUE THEN "interrupted"
  ELSE IF capped THEN "memory_cap"
  ELSE None

SavedUnmarked ==
  [k \in DOMAIN files \cup {<<name, solver.height>>} |->
     IF k = <<name, solver.height>>
     THEN [exhausted |-> solver.exhausted, completion |-> FALSE]
     ELSE files[k]]

\* save_checkpoint: written aside and renamed, so a file is there whole or not at all.
Saved ==
  [k \in DOMAIN files \cup {<<name, solver.height>>} |->
     IF k = <<name, solver.height>>
     THEN [exhausted |-> solver.exhausted, completion |-> solver.completion]
     ELSE files[k]]

\* The tests after a row, and the periodic save of a row that does not end the run.
Decide ==
  /\ pc = "decide"
  /\ \E capped \in {solver.capped, TRUE} :
       IF RowReason(capped) # None
       THEN Ending(RowReason(capped)) /\ UNCHANGED files
       ELSE /\ pc' = "top"
            /\ IF opt.save = "every" /\ solver.height % SaveEvery = 0
               THEN /\ files' = Saved
                    /\ solver' = [solver EXCEPT !.capped = capped, !.saved = solver.height]
               ELSE /\ solver' = [solver EXCEPT !.capped = capped]
                    /\ UNCHANGED files
  /\ UNCHANGED <<opt, space, status, name, flag, told, used>>

\* finish and finish_interrupted: nothing is saved before a pending restriction has
\* been applied, nor, when pausing, for a search that has ended.
Saves ==
  /\ opt.save # "none"
  /\ ~(solver.reason = "interrupted" /\ solver.pending)
  /\ ~(opt.save = "pause" /\ solver.reason \in {"completion", "exhausted"})

Finish ==
  /\ pc = "finish" /\ pc' = "report"
  /\ IF Saves /\ solver.saved # solver.height
     THEN files' = Saved /\ solver' = [solver EXCEPT !.saved = solver.height]
     ELSE UNCHANGED <<files, solver>>
  /\ UNCHANGED <<opt, space, status, name, flag, told, used>>

\* write_status names a checkpoint only if this Solver has saved this very row.
Report ==
  LET s == [reason |-> solver.reason, height |-> solver.height,
            checkpoint |-> IF solver.saved = solver.height THEN <<name, solver.height>> ELSE None,
            exit |-> IF solver.reason = "interrupted" THEN 130 ELSE 0,
            exhausted |-> solver.exhausted, completion |-> solver.completion]
  IN status' = [k \in DOMAIN status \cup {name} |-> IF k = name THEN s ELSE status[k]]

\* The process exits, or goes on to the next part with a Solver of its own.
Return ==
  /\ pc = "report"
  /\ Report
  /\ IF name < opt.parts /\ solver.reason # "interrupted"
     THEN /\ pc' = "construct" /\ name' = name + 1
          /\ solver' = [Fresh EXCEPT !.capped = solver.capped]
     ELSE pc' = "none" /\ UNCHANGED <<name, solver>>
  /\ UNCHANGED <<opt, space, files, flag, told, used>>

-----------------------------------------------------------------------------
\* SIGINT: the handler announces the exit; without a handler it kills.
Signal ==
  /\ pc # "none" /\ used.signal < MaxSignals
  /\ used' = [used EXCEPT !.signal = @ + 1]
  /\ IF flag = None THEN pc' = "none" /\ UNCHANGED <<flag, told>>
                    ELSE flag' = TRUE /\ told' = TRUE /\ UNCHANGED pc
  /\ UNCHANGED <<opt, space, files, status, name, solver>>

\* The process dies where it is, a failed write included.
Kill ==
  /\ pc # "none" /\ used.kill < MaxKills
  /\ used' = [used EXCEPT !.kill = @ + 1]
  /\ pc' = "none"
  /\ UNCHANGED <<opt, space, files, status, name, solver, flag, told>>

Next ==
  \/ Start \/ Construct \/ Refuse \/ Open \/ Top \/ Sweep \/ Decide \/ Finish \/ Return
  \/ Signal \/ Kill

Spec == Init /\ [][Next]_vars

-----------------------------------------------------------------------------
Height == 0 .. MaxRows

\* The event that ends a search: the first of its rows that is exhausted, holds a
\* halting completion, or reaches the halt position.
Final(n) ==
  LET ends(h) == \/ h = space[n].end
                 \/ h \in space[n].ends /\ opt.haltOnEnds
                 \/ opt.halt # None /\ h >= opt.halt
      last == CHOOSE h \in 1 .. space[n].end : ends(h) /\ \A g \in 1 .. (h - 1) : ~ends(g)
  IN  <<last, IF last = space[n].end THEN "exhausted"
              ELSE IF last \in space[n].ends /\ opt.haltOnEnds THEN "completion" ELSE "halt">>

\* However often an extension is interrupted, stopped at its memory cap, killed, and
\* resumed from whichever checkpoint, the final result it reports is the one an
\* undisturbed run reports.
OutcomeStable ==
  opt.parts = 0 /\ 0 \in DOMAIN status /\ status[0].reason \in {"exhausted", "completion", "halt"}
    => <<status[0].height, status[0].reason>> = Final(0)

\* A checkpoint named by a status is there, and holds what the status says of the row.
StatusBacked ==
  \A k \in DOMAIN status : status[k].checkpoint # None =>
    /\ status[k].checkpoint = <<k, status[k].height>>
    /\ status[k].checkpoint \in DOMAIN files
    /\ files[status[k].checkpoint] = [exhausted |-> status[k].exhausted,
                                     completion |-> status[k].completion]

\* A part that reports success has applied its restriction to exactly one row beyond
\* the source and left that row's checkpoint, as partition_status expects.
PartsOneRow ==
  opt.parts > 0 =>
    \A k \in DOMAIN status : status[k].exit = 0 =>
      status[k].height = 1 /\ status[k].checkpoint = <<k, 1>>

\* "Will exit after completing the current row": no row begins after the announcement.
InterruptHonoured == [][pc = "top" /\ pc' = "sweep" => ~told]_vars

\* It is honoured by every process with a single Solver.
ExtensionInterruptHonoured == [][opt.parts = 0 /\ pc = "top" /\ pc' = "sweep" => ~told]_vars
=============================================================================
