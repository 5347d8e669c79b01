# A verification project for rlife (llsss-ng)

rlife searches for spaceships and other periodic patterns of Life-like rules, one
row after another.  It keeps every partial result of a row at once: the row is cut
into overlapping *slices*, each slice is a packed tree of the columns that are
still possible there, and a sweep over neighbouring slices throws away what cannot
be part of a complete row.  A Python manager runs the solver again and again: it
extends a search until memory is full, divides it into parts, and goes on with one
part after another.

The project has one TLA+ module per component, TLC configurations for small
instances, and TLAPS proofs for what matters most.  Paths below are relative to
`src/`; the C++ is in `src/rlife`, the manager in `scripts/rlife_manager.py`.

## 1. Inventory

| component | code | state | operations |
|---|---|---|---|
| search manager | `scripts/rlife_manager.py` (`Manager`) | `state.json`: state, outcome, active operation, stack of branches, counters, progress; the status files and checkpoints of its solvers | create, run, drive_extension, drive_partition, configure, archive, pause, fail, finish |
| manager lock | `RunLock` in the same file | `manager.lock` | enter, exit |
| solver run loop | `solver.hpp` 585-848, `checkpoint.hpp` 190-201, 490-656 | height, exhausted and completion flags, last saved height, the process-wide interrupt flag | construct or load, run a row, save, write the status, finish |
| partial boards | `solver.hpp` 2682-2799 | marks of a search of its own | recall the captured board, reconstruct one |
| partition materialization | `partition.cpp` 262-319 | one Solver per part | run each part for one row |
| partition planner | `partition.cpp` 426-585 | boundaries of the parts | choose a slice, cut its leaves into intervals |
| support and filter sweeps | `solver.hpp` 2019-2523 | bit planes over leaves, pair gates, clause bytes | right sweep, left sweep, restriction, retention |
| completion detection | `solver.hpp` 1197, 2412-2423, 2630-2680 | completion tags | find a complete row that ends the pattern |
| pair walkers and gates | `solver.hpp` 128-252, 1437-1800, 1991-2017 | segments of edges, sparse index of walk paths | append, index, restart a walk, dispatch to workers |
| slice tree | `succinct_slice_tree.hpp` | packed levels, rank directory, lineage | reify (serial and parallel), tails, iterate |
| indexed executor | `indexed_executor.cpp` | next task, first failure | execute |
| checkpoint format | `checkpoint.hpp` | the file | encode, checksum, decode, validate |
| geometry | `geometry.hpp`, `geometry_render.hpp` | the factorization of a movement, the spots of a tile | parse, coordinate maps, windows, edge modes |
| geometry acceptance | `geometry_acceptance.hpp` | projections per subtile phase, compact lookups | build the interior and both edges |
| rule table | `rule.hpp` | a table that never changes | parse, look up |
| the rest | `main.cpp`, `util.hpp`, `get-rows.lua`, ... | none | dispatch, formatting |

How they interact.  The manager starts `rlife` for an *extension* or a *partition*
and waits.  The solver saves a checkpoint (written aside, then renamed), then a
status file that names it, then exits.  The manager reads the status, changes its
manifest in memory, saves it, and only then retires checkpoints that no branch
needs.  Ctrl-C reaches the manager, which forwards it; the solver's handler sets a
flag that is tested between rows.  Within a row, the sweep hands batches of edges
to workers that set bits of shared planes with atomic OR; the finished planes go to
reification, which rebuilds every tree in parallel.

What is hard here, and what would be correct:

* **Crashes between two saves of the manager.**  No branch may be dropped, closed
  twice or divided twice; a payload may only go away when no manifest on disk needs
  it; every branch must remain startable.
* **Ctrl-C, low disk space, a killed solver, a solver that ends otherwise at the
  same moment.**  A noted Ctrl-C must stop the manager; statuses that are stale,
  partial or of an earlier try must not be taken for new ones.
* **Progress in exact fractions.**  Finished and remaining shares always add up to
  the whole search, also with branches that were closed inside a split.
* **Processes that outlive their manager.**  A solver has a session of its own; when
  only the manager is killed, it goes on beside the one that `resume` starts.
* **Two managers on one directory**, and a manifest that is read before the lock is
  taken.
* **Exits of the row loop in a fixed order**, several of which may apply to the
  same row; a resumed run must report what an undisturbed one reports.
* **The sweeps.**  Six planes, two directions, an optional filter, an optional
  restriction, early returns, any number of workers: the leaves kept must be exactly
  those on a surviving complete row.
* **Clause bytes**, which stand for the edge relation of older rows, and boards that
  are worked out from them after the row, where the sweeps captured none.
* **A skewed lattice**, in which a cell has many names: every equation of the rule has
  to be imposed once, on the right row, with truncated histories and mirrored edges.
* **Parallel reification** with bits set without atomics, and the executor that
  skips tasks after a failure.
* **Boundaries in the planner, segment offsets in the gates, floor division in the
  geometry**: numeric edges.

`PROJECT.json` lists each hazard at its line with the properties that cover it.

## 2. The modules

| module | models |
|---|---|
| `SupportSweep`, `MCSupportSweep`, `SupportSweepProofs` | one row's sweeps; all its properties proved |
| `PartialBoard` | the board shown behind a row, captured or reconstructed; proved in `SupportSweepProofs` |
| `SearchLedger`, `Manager`, `MCManager`, `ManagerProofs` | what a managed search promises; the manager, which implements it; the refinement and the invariants proved |
| `RunLock`, `RunLockProofs` | the lock file, one step per system call, and the manifest behind it; proved |
| `SolverRun`, `MCSolverRun`, `SolverRunProofs` | the row loop, checkpoint and status, materialization of parts; proved |
| `Completion`, `MCCompletion`, `CompletionProofs` | does the row end a pattern, asked in two ways; proved |
| `SliceTree`, `Reify`, `MCReify` | packed trees; reification in place and by parallel tasks |
| `PartitionPlan` | the boundaries of the parts of a slice |
| `SliceTreeProofs` | all properties of the two modules above, proved |
| `IndexedExecutor` | the team of workers behind every parallel phase |
| `PairGates`, `MCPairGates`, `PairGatesProofs` | the gates' sparse index from row to row, walked by that team; both proved |
| `Geometry`, `GeometryProofs` | the lattice of a movement; all its properties proved |
| `GeometryAcceptance`, `MCGeometry` | the equations compiled from it, for rows and for edges; proved in `GeometryProofs` |

Which module builds on which: `PartialBoard` on `SupportSweep`, whose row it continues;
`Manager` instantiates `SearchLedger`, which it refines; `Reify` works on the trees of
`SliceTree`, and `MCReify` composes it with `PartitionPlan`; `PairGates` runs its walks on
`IndexedExecutor`; `GeometryAcceptance` runs behind `Geometry`.

### SupportSweep

The row is a chain of `N` slices (the code's `slices_`), `Leaf` the ordinals of the
leaves of one slice.  `in` is what the row starts from: the pairs that the walk
visits (`edge`), the leaves that `mark_boundary` admits at both ends, the leaves
outside `local_prefix_uninteresting_range` (`interesting`), the leaves that
`apply_partition_restriction` leaves (`allowed`), and whether the filter is active
and a partial board is captured.  `L`, `R` are `normal[i].left` and `.right`, `P`,
`S` are `witness[i][0]` and `[1]`, `gate` is `next_gates`, `keep` the plane given to
reification, `board` and `seen` the captured board.

`RightVisit` and `LeftVisit` are a worker's visit of one edge: `todo` is a set and
any edge may be next, which covers the serial loop, the batches and every
interleaving of workers, since marks are only ever ORed in and the planes that are
read belong to a relation that is finished.  `RightRelationDone`, `TurnAround`,
`LeftRelationDone` and `Retain` are the code after each barrier, in its order:
restrict, seed, continue, with both early returns.  `FilteredEdges` is
`filter_historical_pair_clause` for one older row.

The reference is `Surviving`: complete rows from boundary to boundary within the
restriction, with the filter those that are interesting in some slice.

### PartialBoard

`emit_final_partial` shows a board when a run stops behind a row.  Whether the sweeps
capture one is decided before them, from a flag that may change during them, and a
resumed run has captured nothing; so `Recall` is there beside `RebuildAny` and
`RebuildInteresting`, and any of them may follow a retained row in which it is possible.
The code walks the edges that the clause bytes leave, `FilteredEdges` of the sweeps.
`Mark` is the visit of one edge by one worker, `MarkDone` the end of a relation, `Begin`
the choice of a first leaf, `Follow` one `find_current_right`, which takes any of its
`Successors` (the code: the first one of the walk).  Both exceptions are the stage
"logic_error".

### SearchLedger and Manager

`SearchLedger` is the promise: open branches, closed branches with one final result
each, one outcome.  `Manager` is the code.  `disk` is the manifest as saved; every
action that changes it is one `save()`.  `pc` says where the manager stands between
saves: a crash (`Crash`) may come at any of these points.  `status` and `files` are
the status files and checkpoints of the work directory, `archive` the archive,
`proc` the solver process, `read` what `drive_partition` has read of the statuses of the
parts, once.  A solver's end has three steps of its own (`SolverSave`,
`SolverReport`, `SolverExit`), and dies between any two (`SolverDie`).  The removal
of one retired file is one step (`DeleteRetired`, `ArchiveCopy`, `ArchiveUnlink`).

A partition process that finds no slice with a leaf for each part ends with status 1
before its first part (`choose_slice`, `partition.cpp` 452-453), and since the manager
always gives the same number of parts and no `--slice`, so does the one of every resume.
The constant `Narrow` is the set of checkpoints of which that is true: a split of one of
them is `Refused`, and its process is never `Startable`.

`pc` and the code: "boot" is `run` up to the deletion of retired checkpoints,
"begin" the rest of its prologue, "loop" its while loop, "check" is
`ensure_disk_space`, which leads to `then`; "launch", "materialize" and "wait" are
`run_command`; "consume" and "consumed" are the two halves of `drive_extension`
after the process, "divide" and "divided" those of `drive_partition`.

`Crash` has two forms.  The machine stops, and the solver with it; or the manager alone
is killed, and its process becomes an `orphan`, which goes on saving, reporting and
starting the next part while a resumed manager starts another one for the same split in
the same directory.  Both compute the same rows (`PartResults`), so that a status may be
replaced but not changed.  The constant `Orphans` names the operations whose process may
survive.  The status of an orphaned extension belongs to an attempt that the resumed
manager has forgotten and never reads, and such orphans are not run.

### RunLock

`lock` is the file with its creator and the pid in it, which is `None` between
`O_EXCL` and the write.  Each manager goes through check, read, probe, unlink,
create, write one system call at a time.  `manifest` is `state.json`, as the set of
managers whose work it has, `memory` the copy that a manager opened before `__enter__`;
`Save` replaces the whole file.  `met`, `beside` and `contended` are history: who was
alive together with whom, who was inside when this manager was started, and whether
two managers were ever entering at once.

### SolverRun

`space` says what each search holds: the height at which it is exhausted and the
heights at which a completion exists.  The solver only learns it row by row.  `pc`
follows `run()`: "open" the tests before the first row, "top" the test at the head
of the loop, "sweep" the row, "decide" the tests after it, then `finish` (save) and
the status.  `flag` is `checkpoint_interrupt_requested_`, `None` until a handler is
installed.  The materialization of parts is the same process constructing one
Solver after the other.

A partition spec may name a source whose row holds a completion (`marked`) or has
reached the halt position (`halt` 0).  If the spec's own options would end the search
there, before its restriction has been applied, `run()` throws (`Refuse`): the process
ends without a status or a checkpoint.  That throw is what makes `OutcomeStable` and
`PartsOneRow` true of such sources: without it the source's own
row, restricted by nothing, would be reported as the result.

### Completion

`in` is a retained row: the surviving edges, and for each leaf whether its labels
leave the last short window of rows empty (`valid`) and, if so, have a cell in the
long one (`recent`).  These windows are the geometry's.  With `cached`, the left
sweep carries `completion_prefix` (`LeftVisit`) and `Scanned` keeps a negative
answer; every other question goes to `find_completion` (`RightVisit`, `First`) and
`reconstruct_end` (`Follow`).  The code takes the first successor that a walk meets,
in parallel the first of the first segment; the model takes any, so the properties
hold whatever the order of walks is.  The reference is `Completions`: rows along
surviving edges whose leaves are all valid and one of which is recent.

The edges are an input that `SupportSweep` justifies: `GateExact` and
`ClausesRecoverGate` say that later walks visit just the surviving edges, each of
which lies on a complete row.

### SliceTree and Reify

`SliceTree` has the packed tree as a record of level boundaries and child masks, and
the operators that count in it: the rank directory in chunks, first child, child,
and `ParentLink`, from which `Lineage` reads a leaf's labels.  The latter is the code's
binary search over the counts behind the words of two levels (`FirstWord`), then a select
of the bit in that word, modelled by what it finds; a search that goes astray finds
nothing or a node of another level, which is one of its exceptions (`NoLink`).
`WellFormed` is what `from_checkpoint` demands of a tree (its leaves have no masks in the
model), `NoDeadEnd` that every branch reaches the leaves, which it does not demand.

`Reify` is one call of `reify` or `reify_parallel_group` on one tree.  `CloseVisit`
and `CloseStore` are `PackedTags::set` torn apart, the load and the store of a word,
since nothing makes it atomic; `CloseTasks` cuts a level into tasks of whole words.
`Count` is the count phase with its prefix sums, `EmitWord` the work of an emission
task up to the next flush, which is a plain store or an atomic OR as in the code.
`CompactWord` is one source word of the compaction in place, which reads the word
and writes what is full.  `Store` is the end of both, with the checks of the level
accounting and of `rebuild_rank_directory`.  A clause byte is represented by the
node it belonged to and the labels left to it.  Trees of a group share no data, so
one stands for all.

While a task closes a level it reads tags of children that may share a word with
tags another task is storing.  The builds read and write such a word as a whole, and
the child's bit in it does not change, so the model reads the bit.

### PartitionPlan

`make_plan` over one tree, one boundary after the other: `Interval` is the loop body
up to the call of `shallowest_boundary`, `Place` and `Narrow` are the two ends of
that function's loop body.  `window` is the set of boundaries from its `low` to its
`high`; `Nested` is the window of a child.  The slack is any number of leaves that a
percentage below 50 of an average part rounds down to.  Both exceptions of the code
are the step "logic_error".  `Admitted` is what `apply_partition_restriction` leaves
of a part, in the slice or in the slice expanded by a uniform row.  The reference is
`LcaDepth`, read from the lineages of the two leaves beside a boundary: the descent,
which never compares lineages, must find the shallowest boundary of the interval, and
among those the nearest to the ideal.

The planner works on the trees that a row retained, so `MCReify` composes it with
`Reify`: what was reified is planned over.  In `PlanInit` the tree is any well-formed one
without dead ends; reification stores no others (`ReifyStoresTrees`), and one with a dead
end, from a file that it did not write, is an exception of `extreme_descendant_leaf`.

### IndexedExecutor

`next` is the dynamic schedule, `pc` and `task` what each worker does.  `Check`
reads the failure flag, or an old value of it (relaxed ordering); `Exchange` is the
compare and exchange, `Keep` the store of the exception, which only its winner does.
The barrier is `Return`'s guard.  `Call` is the next use of the executor, with fresh
local variables.

### PairGates

One gate from row to row, on top of the executor: `Dispatch` calls it with a task per
range of the index, `WalkRange` is a task that runs to its end, `AbandonRange` one that
throws after some of its pairs, and `Merge` or `GiveUp` what the caller does behind the
barrier.  `tree` is the set of paths that the depth-first walk of both slice trees
takes, also those that lead to no pair of leaves; `Serial` is the order of that walk.
A worker's place in its walk is the path and the branches it has not taken, which the
code keeps in frames: `At` rebuilds them from an indexed path, `Advance` backs out to
the deepest one and goes down again.  What a row keeps (`kept`) comes from
`SupportSweep`.  `Resume` is a checkpoint loaded with one worker or several, which
builds an index only if there is none.  Paths are sequences of branches; their packing
in words of 64 bits is not modelled.

### Geometry

`GeometryNext` is `parse`: the tests of the movement, one step per pass of
`extended_gcd`, the test against `std::gcd`, one step per spot that `build_spots`
expands, the test of their number.  Each exception is a final `pc` of its own.
`Quotient` and `Remainder` are the language's division, towards zero; `floor_div` and
`floor_mod` are built on them as in the code, and so are `cell`, `shift`, `to_physical`,
`reflect` and the windows.  A coordinate is a record `u`, `v`, `w` scaled by the number of
spots, as in the code.  The reference is the plane: `ShipCell` identifies physical cells
that the ship's movement takes into each other, which is also the image that
`render_phase_montage` draws a cell in.

### GeometryAcceptance

`AcceptanceNext` is the construction of the solver's tables: `validate_edges`, then one
step per subtile phase of the interior, the choice of a compact lookup, one step per edge
and phase.  A *read* is a row counted back from the candidate and a column.  A table of
masks is modelled by the equations that it was filled from, each a tuple of sets of reads,
and by the reads that form its key: what the rule makes of the equations does not matter
here.  `Group` is the greedy assignment of equations to projections within the budget of
five rows or ten bits.  A compact lookup (`OneProjection`, `GatheredOffsets`,
`ThreeOffsets`) is known by what each digit of its key stands for.  `EdgeConditions` has
the equalities between two reads of one mirrored cell first and then the equations, as the
code does.

The references derive the same conditions on physical cells from a candidate row with all
the history that it can have (`Strip`), by steps in the plane and in time, without shifts
on the lattice, truncated windows or grouping: `PhysicalEquations`, and `PhysicalMirror` for the edges.

## 3. Runs

| run | what it shows | bounds |
|---|---|---|
| `sweep` | every visiting order gives exactly the surviving leaves, edges and clause bytes; exhaustion is declared only rightly; the captured board never loses its way; the board shown behind the row, captured or reconstructed, is a surviving row | 3 slices, 2 leaves, all nonempty walks, one restricted slice, at most one interesting leaf per slice |
| `manager_keep` | both orders, with 2 splits and a pending partition spec: implements the ledger, can always be resumed, progress is conserved and always printable, a pause holds, breadth-first takes the shallowest | 2 parts, 2 splits, 2 rows; two troubles of two crashes, one Ctrl-C and one dead solver; or a crash that leaves a partition process behind, which counts as two |
| `manager_retire` | all three retention settings and changes between them, with a low disk and a crash, a dead solver or a partition process left behind: no needed checkpoint goes, nothing is lost in archival; a search that keeps its payloads ends, or comes to stay at a split that no slice allows | 2 parts, 1 split, 2 rows, 6 attempts; the first row's checkpoint is too narrow to divide, later ones are not |
| `lock` | among managers that enter one at a time: exclusion, and what a manager saved is lost only to one that was started while it was inside; a refusal needs a living manager | 3 managers, 2 deaths |
| `solver` | extensions and partition specs in every save mode and the materialization of two parts, from sources that may end the search themselves: stable outcome, backed statuses, one row per part, announced exits kept | 3 rows, save every second, one signal, one kill |
| `completion` | the left sweep's tags and `find_completion` agree with the definition, the board completes the pattern | 3 slices, 2 leaves, every supported set of edges, at most one invalid and two recent leaves |
| `reify` | both variants keep exactly the chosen leaves, labels, order and clause bytes; no alignment check fails; the new tree can be walked up and down; a plan over it divides the search, at the shallowest boundaries | trees of 3 levels and 2 labels, every set of kept leaves, words of 3 nodes, tag words of 2, tasks of one word and of two nodes; every number of parts and slack |
| `gates` | a normal return means that all ranges were walked; the restarted walks of the ranges make up the serial walk, in every gate | 2 workers, any task may fail, rows 2 to 4 with 2 branches, every first gate, an index entry every 2 pairs |
| `geometry` | the factorization, the lattice and its shifts and mirrors name physical cells; the tables hold exactly the equations of those cells and of their mirror images; compact lookups read the rows that their tables were built for | both lattices: every displacement and period up to 4, also the ones that are refused; orthogonal 1 and 2 in 5, 1 to 4 in 7, 0, 2, 3 and 4 in 6, 5 in 5; diagonal 1 in 5, 1 to 3 in 6; columns -1 to 2; five pairs of edges |
| `manager_restart` | finding 1 | retention "delete", 1 crash |
| `lock_mutex` | finding 2 | 3 managers, no death |
| `solver_parts` | finding 3 | 2 parts, 2 rows |

Why the bounds are enough.  Three slices have an inner slice, which is the only one
that both receives and passes on marks in both sweeps, and two relations, so that a
mark of one relation is stale in the next; two leaves suffice for a leaf that is
supported and one that is not.  The proofs lift these bounds altogether.  Two splits
give a branch at depth 2, next to one of depth 1 on the stack, which is what the
order of the queue, the digits of the progress and the counters by depth depend on.
A crash may fall on every point between two saves.  Each pair of a crash, a second
one, a Ctrl-C and a dead solver occurs in `ManagerKeep`, in any order, and so does a
surviving partition process after any one of them; `MaxTroubles` is the bound.  A single
split is enough for retirement, which compares the payloads of a branch with
those of its parts; the second row there gives a search two checkpoints to be divided at,
of which one is too narrow (`MCManager!RootNarrow`).  In the other two runs of the manager
every checkpoint can be divided, so that the splits they are about take place.  Three managers are needed for one to hold the lock
while two contend.  Three rows allow a checkpoint before, at and after a
periodic save, a completion and the halt position to coincide or not.

In `reify`, words of
three nodes and tag words of two make the borders of words, levels and tasks fall
everywhere with respect to each other, with up to fifteen nodes; the code's sizes
(16, 64 and thousands) only make such borders rarer.  Three larger trees (sixteen leaves, a lopsided one, one
with four labels) are there for the planner, which has a slack of one or more only if
a part can have three leaves.  Two
chunks of the rank directory occur from the third word on.  In `gates`, an index
entry every two pairs makes batches of two cross it or end at it, and gates of up to
eight pairs give up to four ranges, more than workers, so that a task is taken after a
failure, seen or not.  The first row keeps any extensions of the pairs, which leaves
empty segments and short ranges for the second, which keeps all, or one everywhere.
Pairs of nodes without a pair of leaves below are all gone or all there.

In `geometry`, the periods up to four contain every greatest common divisor from one to
four on both lattices, movements without displacement and at the speed of light, and odd and
even halves for the glides.  The longer ones are there for what needs them: the compact
lookup of coprime movements, its variant for period seven, which displacement 4
does not take, the keys of two spots, and tiles of five and six.

Deadlock is checked except where the system really stops: a row, a tree, a question,
the last gate or the tables of a movement that are done, all
managers of the lock gone, and the retention run, where attempts are capped and a
finished or failed search with no settings left to change has nothing more to do.

### Fairness

`Manager!FairSpec` assumes weak fairness of three things: the manager's own steps
(`Run`), because it is a sequential program that only waits for its solver or the
disk check; the solver's steps (`Solve`), because each row of a finite search
terminates; and `Resume`, which is the operator who starts the manager again
whenever it has stopped.  The code itself guarantees nothing after a stop; README 320
makes `resume` the remedy, and `Terminates` says that the remedy works, as long as the
setting is to keep payloads: with deletion or archival, finding 1 stands in the way.
There is one thing that the remedy does not help with, and the property names it: a split
that is `Refused` is refused again at every resume, so that the search may stay there for
ever (`Stuck`).  Without that exception the run finds such a behaviour: a checkpoint whose
slices all have fewer leaves than there are parts reaches the memory cap, and
`drive_partition` fails with the same message each time.
Crashes, signals and deaths have no fairness and are bounded, and neither has a process
that has lost its manager, which may stop at any point.

## 4. Findings

1. `manager_restart`: `Manager.run` deletes retired checkpoints (line 1111) before it
   consumes the status of the active attempt.  After a crash between the solver's
   status and the manager's save, that status names a checkpoint which is neither
   active nor queued, and with deletion configured it is unlinked.  The status is
   then refused, with `initial` already cleared, and a root branch is left without
   any checkpoint: later resumes fail on building the command.  README 320-322 says
   that `resume` retries.  An `archive` command in the same place moves that checkpoint
   away just as well; it is then whole in the archive.
2. `lock_mutex`: a lock file whose pid is not written yet counts as stale, and
   "stale" removes whatever file has that name.  Two managers that start together
   both get in, against the message of line 125.  (A manager that is started beside
   another and gets in after its exit is no contention; it works on the manifest that it
   read before, and overwrites what the other saved.  `LossUncontended` says that this is
   the only way in which managers that enter one at a time lose each other's work.)
3. `solver_parts`: "Will exit after completing the current row" does not hold in a
   materialization: a part returns by its row limit before the interrupt is tested,
   and the next part's Solver clears the flag.

## 5. Proofs

`SupportSweepProofs` proves, for every number of slices from two, every set of
leaves and every set of inputs, that `Spec` implies `[]TypeOK`, and each of
`RetentionExact`, `GateExact`, `ExhaustionSound`, `CaptureSound` and
`ClausesRecoverGate`.  The only assumption is `SweepAssumption`.  None of the five is
inductive: they speak of the end of the row.  The invariant `Phases` says, phase by
phase, that a finished plane marks exactly the leaves from which a partial row leads
to that boundary (with the witness planes: an interesting one), that the plane being
written is what the visited edges make of the finished one next to it, that the
gates hold exactly the visited edges that pass, and that the captured board is a row
so far that can still be continued.  The lemmas `RightStep` and `LeftStep` extend a
partial row by one edge; `EdgeOnRow` and `LeafOnRow` glue a row from the left and
one from the right together, which turns marks into complete rows.

`SupportSweepProofs` also proves `PartialShown` for every row.  `PartialSpec` implies the
specification of the sweeps, so what is proved of a retained row can be used (`Base`).
The invariant says of the marks that each leads to an interesting leaf along surviving
edges (`Led`), and that every surviving row whose rest is interesting has its mark once
its edge has been visited (`MarkInv`); so the first slice has a mark.  Of the way so far
it says that it is on retained leaves, and that it is marked until something interesting
has been met (`FollowInv`).  A way from end to end through retained leaves is a surviving
row (`WayIsRow`), since every retained edge lies on one.

`CompletionProofs` proves `DetectionExact` and `BoardCompletes`, also for every row and
order of edges: each tag stands for a way to its end of the row that keeps what the tag
promises, and every completion has its tags along its way.

`SolverRunProofs` proves `OutcomeStable`, `StatusBacked`, `PartsOneRow` and
`ExtensionInterruptHonoured`, for every command line, search, number of parts, signals and
kills.  The invariant is about what does not depend on the history: a file or a solver at
height h of search n holds `Contents(n, h)`, whoever computed it, and no row before h ends
the search (`Reachable`).  A restriction is pending just at the row of a partition's source
(`RowInv`), where nothing is saved and, since `run()` would have thrown, no final reason is
given.  For parts it says that a solver is at its one row, and for the
interrupt that nothing clears the flag once it has been announced (`Announced`).

`RunLockProofs` proves, for any number of managers, that while no two managers were
ever entering at the same time they exclude each other (`ExclusiveUncontended`), and that
work missing from the manifest has been overwritten by a manager that read it while the
author of that work was inside (`LossUncontended`), whatever the managers' exits, deaths and
takeovers.  The invariant `Serial` adds that the lock then names the manager inside, and
that a manager entering beside it is still before its refusal; `Known` and `Lost` say of
every saved or remembered manifest which work it may lack, and through whom.  `RefusedByTheLiving` needs no such condition; its
invariant `Met` says that whoever created the file, or wrote the pid, that a manager has
found since it looked was alive beside it.  What the code does not guarantee, exclusion
under contention, is finding 2.

`PairGatesProofs` proves, for any team and any calls with any number of tasks, type
correctness, `ReturnComplete` and `OneKeeper`, that one worker at most ever writes the
exception pointer, from `ExecutorAssumption`.  The invariant `Accounted` says
that every task handed out has run, has thrown, is in a worker's hands, or was
skipped after a failure; that a throw leads to the flag or to a worker about to set
it, and the flag to a kept exception or to the one worker about to keep it.  At the
barrier nobody is about to do anything, so without an exception no task was skipped.

On top of it the same module proves that the gates use the executor as specified
(`GatesImplement`), and `RangesDivide`, for every tree, branching, quantum, team, and history
of rows, failures and resumptions.  The argument has three layers:

* The walk.  Paths are ranked by how many pairs come before them (`RankOrder`), and `Serial`
  lists the pairs by rank (`SerialIs`).  Places in the walk keep their path's later branches
  (`OnwardIs`); `Descend` and `Turn` pass over no pair (`DescendIs`, `TurnIs`), so that
  `Advance` from the pair of one rank reaches the pair of the next, whatever dead ends lie
  between (`AdvanceIs`, `AdvanceSerial`), and the walk of a range from a path with its rank
  is that stretch of `Serial` (`RangeIs`, `VisitedIs`), which concatenated give it back
  (`FlattenIs`).
* The index.  A gate indexes an order of paths if its entries are ranks with the paths of
  these ranks, one in every quantum.  An indexed serial walk does (`IndexedIs`), a batch of
  extensions keeps it (`BatchIs`: at most one boundary falls into it), and so does an appended
  segment (`SegmentIs`).  The pairs of the next row, in order, are the extensions of this
  row's pairs in order, and the ranges' shares one after the other (`RankSplit`): that is what
  makes `Emitted` and `Merged` an index of the next row (`EmittedIs`, `MergedIs`,
  `ReifiedIs`).
* The team.  `GateInv` says that the trees are closed under prefixes, that each range whose
  task has run has emitted all that its pairs keep (`Walked`), and that a task is in the hands
  of one worker (`Owned`), so that no segment is written twice.  Behind the barrier
  `ReturnComplete` makes all the segments complete; no range is ever `Lost`, and the branch to
  `logic_error` is never taken.

The assumptions are `ExecutorAssumption`, `GateAssumption` (a batch is no larger than the
quantum, which `append_final_edges` relies on) and `TreeAssumption`.

`ManagerProofs` proves that `Manager` implements `SearchLedger` (`ManagerKeepsLedger`), step
by step, and `LiveKept`, `NothingLost`, `PauseHolds`, `ShallowestFirst`, `ProgressConserved`,
`DigitsExact`, and `Restartable` for searches that keep their payloads, for any number of
parts, splits, attempts and troubles, any traversals and retentions, and processes of either
kind left behind.  None of these is inductive.  The invariant relates the manifest on disk to
everything a crash leaves beside it:

* `Typed`, `Control` and `Noted` say where the manager is: what the active operation must
  be for the manager to be at a label, and that a noted Ctrl-C leads only to labels that
  start nothing.
* `Reports` and `Divisible` say what can be read of a solver: a status of an extension never
  names a row limit, a complete set of statuses divides the branch once.
* `Naming` and `Capped` say that names are fresh: whatever status or name of a branch exists
  is older than the counters in the manifest, so that no crash makes a number be used twice.
* `Ordered` is the order of a breadth-first stack.
* `LiveKept`, `Held`, `NothingLost` and `Kept` say where payloads are, with what the manager
  has read but not yet saved.

The actions are grouped by what they do to the manifest: `Idle` ones leave it, `Booking`
ones change how a branch is worked on, `Continued` and `Concluded` are the two ends of an
extension.  Progress needs two more parts, `Deep` and `Stacked` (depths are bounded by the
splits so far), and sums over all depths.  These are recursive functions; their existence,
and induction over the depth, are derived from the least element of a set of numbers
(`Least`, `AllNumbers`).  Assumptions: `ManagerAssumption` and `NoneAssumption`.

`GeometryProofs` proves `BezoutKept`, `LatticeExact`, `ShiftTranslates`, `ReflectionSound` and
`EveryPhaseDrawn` for every movement and every finite set of columns.  `Looping` is the
invariant of `extended_gcd`: both remainders are combinations of the inputs and keep their
common divisors, so it ends with a Bezout pair for `std::gcd`.  `Place` is the unreduced
coordinate of a physical cell, `Lattice` the set of all of them; `PlaceMoves` says that the
lattice repeats by whole tiles in each coordinate, and `PlaceExact` that `to_physical` undoes
`Place`.  `Exploring` is the invariant of `build_spots`: the spots found so far are distinct
points of one tile, and closed under the generators as far as they are expanded.  What is
closed contains the whole tile (`AllReached`, since going on in one direction leads back),
and the tile has as many points as parse expects (`SpotCount`, by a bijection with the
numbers of a spot across and along the tile), so "geometry lattice has the wrong
determinant" is never thrown, whatever the movement.  For the rest: a shift moves the
numerators of the physical coordinates by the step and by whole periods of the ship; a
mirror image of a place is a place, half a period later for a glide, which is what the
parities in `edge_compatible` are for (`GlideHalves`, `MirrorPlace`); and the window has at
every time a row with the right W (`PlaceInWindow`, `RowCell`).  Assumptions:
`MovementsAssumption` and `ColumnsAssumption`.

The second half of `GeometryProofs` proves what `build` compiles from that lattice,
`InteriorExact`, `BoundaryExact` and `FastReads`, for every movement and every pair of edge
modes.  Its steps:

* *Rows above rows.*  A row some tiles higher is the same row with a larger W (`CellAbove`),
  and so is its mirror image (`ReflectAbove`).  Hence no row above the history window lies as
  low as a cell of an equation of the candidate (`RowBound`): the cells that the physical
  columns tell of such an equation, or their mirror images, are those that the window tells
  (`PartnerLow`, `SamePlain`, `SameMirror`).
* *Grouping.*  `Group` keeps every item and the budget, whatever the order in which the
  items come, as long as each of them fits alone (`GroupedIs`).
* *Interior.*  Two reads of the window never share a cell (`NeverAliased`, the
  exception of `build_interior`).  The cells of an equation lie in at most six rows
  (`SameClass`), one of them the candidate's, so that five earlier rows are enough
  (`FewRows`), and the projections hold the equations of the physical cells (`InteriorFor`).
* *Edges.*  A cell is read at most once as it is and once in the mirror (`ToldTwice`), so
  that a tie is imposed between its first read and the other.  The conditions are the ties
  and the equations of the new cells and of their images (`NewStands`, `ConditionsAre`),
  each with ten reads at the most: the exception of `build_boundary` is never thrown
  (`NeverOverBudget`), and the tables are those of the physical mirror image (`BoundaryFor`).
  A tie of two earlier reads was imposed when the later of their rows was the candidate
  (`AliasTied`).
* *Compact lookups.*  The digits of the reordered key, the gathered bytes and the packed
  registers name the rows that they were built for (`OneRight`, `FourAscending`), so do the
  three keys that share rows (`ThreeRight`), and the first row that is checked in a phase
  has its whole window below it (`FirstRow`).

`AInv` is the inductive invariant of `build`: while `parse` runs, that of `parse` and
untouched tables; from then on a finished lattice and only edges that it accepts
(`Accepted`), and whatever is compiled so far is right (`InteriorDone`, `LayoutDone`,
`BoundaryDone`), up to the phase and the side at work (`EdgesDone`).  One assumption more:
`EdgePairsAssumption`, that an input names two edge modes.

`SliceTreeProofs` proves `LineagesKept`, `DescentInverts`, `ClausesFollow` and
`AccountingHolds` for every well-formed tree, every set of kept leaves and every size of
words, chunks, tag words and tasks, in place and in parallel, in every order of the tasks;
and `PlanShallow` and `PlanDivides` for every tree, number of parts and slack.  It goes in
four steps.

* *Counting.*  The number of a node in a set (`Rank`) and the child bits before a node
  (`Before`) are related by the levels (`LevelBefore`): a child is the node behind the bits
  before it (`ChildIs`), every node but the root is one child exactly (`ChildExists`,
  `ChildInjective`), the rank directory counts the same (`RankDirectoryCounts`), the
  binary search of `parent_link` ends at the word that holds the node's bit (`FirstWordIs`,
  by induction over the length of the range), and with the select there it finds the parent
  (`ParentLinkIs`).  A way from
  the root (`PathTo`) is unique, `descend` follows it and `lineage` reads its labels back.
* *Compaction*, as a relation between two trees: if the live nodes are those above a live
  leaf (`LiveAbove`) and each has moved to its rank with the labels of its live children
  (`Compacted`), the new tree is well formed, without dead ends, and has the same ways to
  the kept leaves, in their order (`CompactedShape`, `CompactedPath`, `CompactedLineages`).
* *Reification* arrives at that relation.  `ReifyInv` has one part for each phase.
  `Closing`: below the current level tags are exact, on it they are exact for the nodes that
  a task has passed, and a word that a task has loaded is still what the tags say, because
  no other task owns that word (`CloseTasksAre`): the plain load and store loses nothing.
  `Counting` and `Writing`: offsets are ranks of the first nodes of tasks; what a task has
  emitted is in place, the rest of its range is empty, so that the OR into a shared word adds
  up.  `Compacting`: words in front of the masks that wait are of the new tree, words not yet
  read of the old one, and the write position never passes the read position.  `Ending` and
  `Finished`: everything is in place, so no check can fail.
* *The planner.*  `PlanInv` says that the boundaries so far increase, leave a leaf to each
  part to come and are at most the slack above their ideals; since ideals grow by a leaf at
  least, the next interval has room (`IntervalOpen`, the first exception of `make_plan`).
  While a boundary is sought, the interval is whole and strictly inside the leaves below the
  node looked at (`Descending`): then a boundary between two children has the node as its
  common ancestor, every other boundary lies inside a child and is deeper (`CandidateIs`,
  `NestedIs`, `Divided`), and without a candidate the whole interval is inside one child
  (`NarrowKeeps`).  A leaf has no boundary inside, so the descent ends (`NotLeaf`), and the
  second exception is unreachable too.

The only assumptions are `TreeAssumption` and `ReifyAssumption`.

Assumptions are those named in the modules: constants are numbers, sets of the kinds used,
and markers such as `None` differ from what they mark.

Only model-checked: liveness (`Terminates`), since fairness and ENABLED are beyond
the prover; `Restartable` for searches that archive, where payloads come back from the
archive (with deletion it does not hold: finding 1).  Every other property of a passing run
is a theorem.  Type invariants are proved (of the
sweep, the lock and the executor) or part of an inductive invariant, and not run on their own.

## 6. What the models leave out

* The manager: artifacts, events and the RLE results rebuilt from them;
  `halt_w_position`, which only makes some results final earlier; argument parsing;
  an `OSError` in the middle of a deletion; a `PermissionError` from `kill`.
* An extension whose manager was killed alone: the resumed manager forgets its attempt,
  so it only leaves files that no status the manager reads will name.  Two processes
  materializing the same part also share the name of the temporary file; the loser's
  rename fails, which is a death of a solver in the model.
* Pids are never used again by another process.
* Files are whole or absent: the rename is atomic and survives; the machine's caches
  are not modelled.  A copy in the archive has the contents of its source.
* The memory cap is not reached after the last split (`MaxPartitions`), and a search
  has at most `MaxHeight` or `MaxRows` rows.
* A row's inputs enter `SupportSweep` as sets: the walk itself, the tables that
  accept a pair and the trees are not in it.  A pattern with a single slice has no
  sweep to speak of and is excluded.
* An exception inside a task of reification: `IndexedExecutor` shows that it reaches
  the caller, which gives the row up.  `expand_leaves` and the walks over leaves.
* In the planner: which slice `choose_slice` takes, a static choice (that it may find none
  is in `Manager`); `spanning_nodes`, which is printed; spec files, names of parts and the
  preflight of their outputs.
* A managed search that begins with a partition spec whose source ends the search
  (`SolverRun!Refuse`) fails in its first attempt and again at every resume, like a split
  that is refused; `Terminates` is run for searches without a pending restriction.
  Other failures that every retry repeats (a missing binary, a full disk that stays full,
  an unreadable file) are outside the model.
* The geometry: names of positions and edges, the widths of integers (movements are far
  smaller), and of rendering all but the image that a cell is drawn in.  The rule table: a
  pure function of the rule, which enters no property here.
* The checkpoint format: encoding, checksum and the validation of a loaded file, a pure
  function; a run is resumed with the filter it was started with.
* Formatting, logging, command lines, and the row extraction script.

## 7. Plan

The parts named in the first plan are done.  What could follow:

1. Extensions that outlive their manager, together with deletion: their checkpoints have
   names of earlier attempts.
2. `choose_slice` and the spec files of a partition; validation of a loaded checkpoint
   against the options of the run.
