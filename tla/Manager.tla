------------------------------ MODULE Manager ------------------------------
(***************************************************************************)
(* scripts/rlife_manager.py: one manager process drives one search through *)
(* a sequence of solver processes.  Its manifest state.json is replaced    *)
(* atomically; everything the manager knows between two saves is lost in a *)
(* crash.  The solver leaves checkpoints and, after each of them, a status *)
(* file; the manager reads a status, saves what follows from it and then   *)
(* retires the payloads nobody needs.                                      *)
(*                                                                         *)
(* Every save of the manager is one action, as is every single removal of  *)
(* a file, every save and status of a solver, and every exit: a crash can  *)
(* fall between any two.  A solver may outlive a manager that is killed.   *)
(***************************************************************************)
EXTENDS Integers, Sequences, FiniteSets, SequencesExt

CONSTANTS
  None,
  Parts,           \* --parts
  Traversals,      \* traversal orders in use: "dfs", "bfs"
  Retentions,      \* retention settings in use: "keep", "delete", "archive"
  Pending,         \* the search starts from a partition spec
  Narrow,          \* checkpoints without a slice of at least `Parts' leaves
  MaxPartitions,   \* bound: splits; the memory cap is not reached after the last
  MaxHeight,       \* bound: rows
  MaxAttempts,     \* bound: attempts after which nobody resumes any more
  Orphans,         \* bound: operations whose process may survive its manager
  MaxCrashes, MaxSignals, MaxDeaths, MaxLows,  \* bounds on what goes wrong
  MaxTroubles      \* bound: crashes, signals and deaths together

ASSUME ManagerAssumption ==
  /\ Parts \in Nat /\ Parts >= 2
  /\ Traversals \subseteq {"dfs", "bfs"} /\ Traversals # {}
  /\ Retentions \subseteq {"keep", "delete", "archive"} /\ Retentions # {}
  /\ Pending \in BOOLEAN /\ Orphans \subseteq {"extend", "split"}
  /\ {MaxPartitions, MaxHeight, MaxAttempts} \subseteq Nat
  /\ {MaxCrashes, MaxSignals, MaxDeaths, MaxLows, MaxTroubles} \subseteq Nat

Partition == 1 .. MaxPartitions
Depth == 0 .. MaxPartitions

\* Branches and status files are named by a pair: <<0, attempt>> or <<partition, part>>.
Name == Nat \X Nat

\* A checkpoint's name says where it is, which branch it belongs to, and its row.
Payload == Nat \X Name \X Nat

\* new_branch
Branch ==
  [id : Name, checkpoint : Payload \cup {None}, height : Nat, depth : Nat, initial : BOOLEAN]

\* The manifest's active operation.
Operation ==
  [action : {"extend", "split"}, branch : Branch,
   attempt : Nat \cup {None}, partition : Nat \cup {None}]

ASSUME NarrowAssumption == Narrow \subseteq Payload

ASSUME NoneAssumption == None \notin Nat \cup Payload \cup Operation

VARIABLES
  disk,     \* state.json
  files,    \* checkpoint payloads in the work directory: <<directory, name, height>>
  archive,  \* checkpoint payloads in the archive directory
  status,   \* status files by attempt <<0, n>> or part <<partition, k>>
  pc,       \* where the manager is; "down" without a manager process
  then,     \* where a passed disk check leads
  read,     \* drive_partition's statuses of all parts
  noted,    \* run_command's `interrupted'
  proc,     \* the solver process
  orphan,   \* one that has lost its manager, and what it was started for
  used      \* how often each kind of trouble has struck

vars == <<disk, files, archive, status, pc, then, read, noted, proc, orphan, used>>

NoProc == [stage |-> "none", part |-> 0, flag |-> FALSE, out |-> None, rc |-> None]
Started(part) == [NoProc EXCEPT !.stage = "run", !.part = part]
NoOrphan == [proc |-> NoProc, of |-> None]

RootBranch ==
  [id |-> <<0, 0>>, checkpoint |-> None, height |-> 0, depth |-> 0, initial |-> TRUE]

Extending(branch) ==
  [action |-> "extend", branch |-> branch, attempt |-> None, partition |-> None]

\* Manager.create, then its run with no retired files.
Init ==
  /\ disk \in [state: {"running"}, outcome: {"none"}, traversal: Traversals, retention: Retentions,
               active: {Extending(RootBranch)}, stack: {<<>>}, nextAttempt: {1},
               nextPartition: {1}, terminal: {[r \in {"exhausted", "halt", "completion"} |-> 0]},
               completed: {[d \in Depth |-> 0]}, results: {{}}]
  /\ files = {} /\ archive = {} /\ status = <<>>
  /\ pc = "begin" /\ then = "loop" /\ read = None /\ noted = FALSE
  /\ proc = NoProc /\ orphan = NoOrphan
  /\ used = [crash |-> 0, signal |-> 0, death |-> 0, low |-> 0]

active == disk.active
branch == active.branch

\* The branches that are still to be searched, according to the saved manifest.
Open == ToSet(disk.stack) \cup (IF active = None THEN {} ELSE {branch})

LiveQueuedOnly == {b.checkpoint : b \in ToSet(disk.stack)} \ {None}

\* live_checkpoint_paths
Live == {b.checkpoint : b \in Open} \ {None}

\* retired_checkpoint_paths: payloads some status file names, except the live ones
\* and those of the partition being materialized.
Retired ==
  {f \in files : /\ \E s \in DOMAIN status : status[s].checkpoint = f
                 /\ f \notin Live
                 /\ active # None /\ active.action = "split" => f[1] # active.partition}

-----------------------------------------------------------------------------
\* The disk reserve: ensure_disk_space.
DiskOk ==
  /\ pc = "check" /\ pc' = then /\ then' = "loop"
  /\ UNCHANGED <<disk, files, archive, status, read, noted, proc, orphan, used>>

Paused == [disk EXCEPT !.state = "paused"]

DiskLow ==
  /\ pc = "check" /\ used.low < MaxLows
  /\ used' = [used EXCEPT !.low = @ + 1]
  /\ IF disk.retention = "archive" THEN pc' = "reclaim" /\ UNCHANGED disk
                                   ELSE pc' = "down" /\ disk' = Paused
  /\ UNCHANGED <<files, archive, status, then, read, noted, proc, orphan>>

\* archive_checkpoint copies first; a copy that is already there is verified.
ArchiveCopy(f) ==
  /\ pc \in {"reclaim", "archive"} /\ f \in Retired \ archive
  /\ archive' = archive \cup {f}
  /\ UNCHANGED <<disk, files, status, pc, then, read, noted, proc, orphan, used>>

ArchiveUnlinkUncopied(f) ==
  /\ pc \in {"reclaim", "archive"} /\ f \in Retired
  /\ files' = files \ {f}
  /\ UNCHANGED <<disk, archive, status, pc, then, read, noted, proc, orphan, used>>

ArchiveUnlink(f) ==
  /\ pc \in {"reclaim", "archive"} /\ f \in Retired \cap archive
  /\ files' = files \ {f}
  /\ UNCHANGED <<disk, archive, status, pc, then, read, noted, proc, orphan, used>>

\* After any number of payloads there is room again, or nothing more can be moved.
Reclaimed ==
  /\ pc = "reclaim"
  /\ \/ pc' = then /\ UNCHANGED disk
     \/ pc' = "down" /\ disk' = Paused
  /\ UNCHANGED <<files, archive, status, then, read, noted, proc, orphan, used>>

-----------------------------------------------------------------------------
\* Retired payloads are unlinked one by one: delete_retired_checkpoints.
Sweeping == {"boot", "configured", "consumed", "divided"}

DeleteRetired(f) ==
  /\ pc \in Sweeping /\ disk.retention = "delete" /\ f \in Retired
  /\ files' = files \ {f}
  /\ UNCHANGED <<disk, archive, status, pc, then, read, noted, proc, orphan, used>>

Swept == disk.retention = "delete" => Retired = {}

\* configure(): deletion and archival exclude each other.
Settable == {r \in Retentions : {disk.retention, r} # {"delete", "archive"} /\ r # "keep"}

\* main: resume, with or without a new setting.
Resume ==
  /\ pc = "down" /\ disk.nextAttempt <= MaxAttempts
  /\ \E r \in Settable \cup {disk.retention} : disk' = [disk EXCEPT !.retention = r]
  /\ pc' = "boot" /\ read' = None /\ noted' = FALSE
  /\ UNCHANGED <<files, archive, status, then, proc, orphan, used>>

\* The configure and archive commands.
Configure(r) ==
  /\ pc = "down" /\ r \in Settable /\ r # disk.retention
  /\ disk' = [disk EXCEPT !.retention = r]
  /\ pc' = "configured"
  /\ UNCHANGED <<files, archive, status, then, read, noted, proc, orphan, used>>

Archive ==
  /\ pc = "down" /\ "archive" \in Settable
  /\ disk' = [disk EXCEPT !.retention = "archive"]
  /\ pc' = "archive"
  /\ UNCHANGED <<files, archive, status, then, read, noted, proc, orphan, used>>

\* An archival that fails ends its command early.
CommandDone ==
  /\ \/ pc = "configured" /\ Swept
     \/ pc = "archive"
  /\ pc' = "down"
  /\ UNCHANGED <<disk, files, archive, status, then, read, noted, proc, orphan, used>>

\* run(): a finished search only reports.
Boot ==
  /\ pc = "boot" /\ Swept
  /\ pc' = IF disk.state = "complete" THEN "down" ELSE "begin"
  /\ UNCHANGED <<disk, files, archive, status, then, read, noted, proc, orphan, used>>

\* run(): an attempt without a status is forgotten.
Begin ==
  /\ pc = "begin"
  /\ disk' = [disk EXCEPT
       !.state = "running",
       !.active = IF /\ @ # None /\ @.action = "extend" /\ @.attempt # None
                     /\ <<0, @.attempt>> \notin DOMAIN status
                  THEN [@ EXCEPT !.attempt = None] ELSE @]
  /\ pc' = "check" /\ then' = "loop"
  /\ UNCHANGED <<files, archive, status, read, noted, proc, orphan, used>>

Quiet == UNCHANGED <<files, archive, status, read, noted, proc, orphan, used>>

StartBranch ==
  /\ pc = "loop" /\ active = None /\ disk.stack # <<>>
  /\ disk' = [disk EXCEPT !.active = Extending(Last(disk.stack)), !.stack = Front(@)]
  /\ UNCHANGED <<pc, then>> /\ Quiet

FinishIfDone ==
  /\ pc = "loop" /\ active = None /\ disk.stack = <<>>
  /\ disk' = [disk EXCEPT !.state = "complete",
                          !.outcome = IF disk.terminal["halt"] > 0 THEN "halt" ELSE "exhausted"]
  /\ pc' = "down"
  /\ UNCHANGED then /\ Quiet

Doing(action) == pc = "loop" /\ active # None /\ active.action = action

-----------------------------------------------------------------------------
AllocateAttemptStarted ==
  /\ Doing("extend") /\ active.attempt = None
  /\ disk' = [disk EXCEPT !.active.attempt = disk.nextAttempt, !.nextAttempt = @ + 1,
                          !.active.branch.initial = FALSE]
  /\ UNCHANGED <<pc, then>> /\ Quiet

\* drive_extension, up to the launch.
AllocateAttempt ==
  /\ Doing("extend") /\ active.attempt = None
  /\ disk' = [disk EXCEPT !.active.attempt = disk.nextAttempt, !.nextAttempt = @ + 1]
  /\ UNCHANGED <<pc, then>> /\ Quiet

\* A status that is already there is consumed without a process.
BeginExtension ==
  /\ Doing("extend") /\ active.attempt # None
  /\ IF <<0, active.attempt>> \in DOMAIN status
     THEN pc' = "consume" /\ UNCHANGED then
     ELSE pc' = "check" /\ then' = "launch"
  /\ UNCHANGED disk /\ Quiet

\* command_for_extension puts `--load None' into a command that cannot be printed:
\* the TypeError of a branch without a checkpoint ends the manager.
Launch ==
  /\ pc = "launch"
  /\ IF branch.initial \/ branch.checkpoint # None
     THEN pc' = "wait" /\ proc' = Started(1)
     ELSE pc' = "down" /\ UNCHANGED proc
  /\ UNCHANGED <<disk, files, archive, status, then, read, noted, orphan, used>>

Fail == [disk EXCEPT !.state = "failed"]

\* The solver has left no status.
ReapNothing ==
  /\ pc = "wait" /\ active.action = "extend" /\ proc.stage = "exited"
  /\ <<0, active.attempt>> \notin DOMAIN status
  /\ proc' = NoProc
  /\ LET m == [disk EXCEPT !.active.attempt = None] IN
       IF noted
       THEN disk' = [m EXCEPT !.state = "paused"] /\ pc' = "down" /\ UNCHANGED <<then, used>>
       ELSE \/ /\ used.low < MaxLows /\ used' = [used EXCEPT !.low = @ + 1]
               /\ disk' = m /\ pc' = "check" /\ then' = "loop"
            \/ /\ disk' = [m EXCEPT !.state = "failed"] /\ pc' = "down"
               /\ UNCHANGED <<then, used>>
  /\ UNCHANGED <<files, archive, status, read, noted, orphan>>

ReapStatus ==
  /\ pc = "wait" /\ active.action = "extend" /\ proc.stage = "exited"
  /\ <<0, active.attempt>> \in DOMAIN status
  /\ proc' = NoProc
  /\ IF proc.rc = status[<<0, active.attempt>>].exit
     THEN pc' = "consume" /\ UNCHANGED disk
     ELSE pc' = "down" /\ disk' = Fail
  /\ UNCHANGED <<files, archive, status, then, read, noted, orphan, used>>

ClosingAtDeepest(m, depth, results) ==
  [m EXCEPT !.terminal = [r \in DOMAIN @ |-> @[r] + Cardinality({x \in results : x[2] = r})],
            !.completed[m.nextPartition - 1] = @ + Cardinality(results),
            !.results = @ \cup results]

\* The manifest with the final results of some branches of the same depth.
Closing(m, depth, results) ==
  [m EXCEPT !.terminal = [r \in DOMAIN @ |-> @[r] + Cardinality({x \in results : x[2] = r})],
            !.completed[depth] = @ + Cardinality(results),
            !.results = @ \cup results]

CloseActive(m, reason) ==
  [Closing(m, branch.depth, {<<branch.id, reason>>}) EXCEPT !.active = None]

\* What the status of an extension turns the manifest into.
Consumed(s) ==
  LET taken == [disk EXCEPT !.active.branch.height = s.height,
                            !.active.branch.initial = FALSE, !.active.attempt = None]
      m == IF s.checkpoint = None THEN taken
           ELSE [taken EXCEPT !.active.branch.checkpoint = s.checkpoint]
      interrupted == IF s.checkpoint # None THEN [m EXCEPT !.state = "paused"]
                     ELSE IF branch.initial
                     THEN [m EXCEPT !.active.branch.initial = TRUE, !.state = "paused"]
                     ELSE [m EXCEPT !.state = "failed"]
  IN  IF s.checkpoint # None /\ s.checkpoint \notin files THEN [taken EXCEPT !.state = "failed"]
      ELSE CASE s.reason = "memory_cap" ->
                  [m EXCEPT !.active.action = "split", !.active.partition = None]
             [] s.reason = "interrupted" -> interrupted
             [] s.reason = "completion" ->
                  [CloseActive(m, s.reason) EXCEPT !.state = "complete", !.outcome = "completion"]
             [] OTHER -> CloseActive(m, s.reason)

\* A failed consumption leaves at once; the others go on to delete_retired.
Consume ==
  /\ pc = "consume"
  /\ disk' = Consumed(status[<<0, active.attempt>>])
  /\ pc' = IF disk'.state = "failed" THEN "down" ELSE "consumed"
  /\ UNCHANGED then /\ Quiet

AfterExtensionUnpaused ==
  /\ pc = "consumed" /\ Swept
  /\ IF disk.state # "running" THEN pc' = "down" /\ UNCHANGED then
                               ELSE pc' = "check" /\ then' = "loop"
  /\ UNCHANGED disk /\ Quiet

\* The end of drive_extension: a pause that arrived late, the disk, the next turn.
AfterExtension ==
  /\ pc = "consumed" /\ Swept
  /\ CASE disk.state # "running" -> pc' = "down" /\ UNCHANGED <<disk, then>>
       [] noted /\ disk.state = "running" -> pc' = "down" /\ disk' = Paused /\ UNCHANGED then
       [] OTHER -> pc' = "check" /\ then' = "loop" /\ UNCHANGED disk
  /\ Quiet

-----------------------------------------------------------------------------
PartDoneAtBase(k) ==
  LET key == <<active.partition, k>> IN
    /\ key \in DOMAIN status
    /\ status[key].reason # "interrupted" /\ status[key].exit = 0
    /\ status[key].height = branch.height
    /\ status[key].checkpoint \in files

\* partition_status: a part counts once its status and its checkpoint are there.
PartDone(k) ==
  LET key == <<active.partition, k>> IN
    /\ key \in DOMAIN status
    /\ status[key].reason # "interrupted" /\ status[key].exit = 0
    /\ status[key].height = branch.height + 1
    /\ status[key].checkpoint = <<active.partition, key, branch.height + 1>>
    /\ status[key].checkpoint \in files

Materialized == \A k \in 1 .. Parts : PartDone(k)

\* partition_statuses reads them once; what comes later is not seen.
Parted == [k \in 1 .. Parts |-> status[<<active.partition, k>>]]

AllocatePartition ==
  /\ Doing("split") /\ active.partition = None
  /\ disk' = [disk EXCEPT !.active.partition = disk.nextPartition, !.nextPartition = @ + 1]
  /\ UNCHANGED <<pc, then>> /\ Quiet

BeginSplit ==
  /\ Doing("split") /\ active.partition # None
  /\ IF Materialized THEN pc' = "divide" /\ read' = Parted /\ UNCHANGED then
                     ELSE pc' = "check" /\ then' = "materialize" /\ UNCHANGED read
  /\ UNCHANGED <<disk, files, archive, status, noted, proc, orphan, used>>

Materialize ==
  /\ pc = "materialize"
  /\ pc' = "wait" /\ proc' = Started(1)
  /\ UNCHANGED <<disk, files, archive, status, then, read, noted, orphan, used>>

\* The partition process has ended.  Without all parts, low disk space means
\* another round of the loop; anything else is a failure.
ReapSplit ==
  /\ pc = "wait" /\ active.action = "split" /\ proc.stage = "exited"
  /\ proc' = NoProc
  /\ \/ /\ noted \/ proc.rc = 130
        /\ disk' = Paused /\ pc' = "down" /\ UNCHANGED <<then, read, used>>
     \/ /\ ~(noted \/ proc.rc = 130) /\ ~Materialized
        /\ \/ /\ used.low < MaxLows /\ used' = [used EXCEPT !.low = @ + 1]
              /\ pc' = "check" /\ then' = "loop" /\ UNCHANGED disk
           \/ disk' = Fail /\ pc' = "down" /\ UNCHANGED <<then, used>>
        /\ UNCHANGED read
     \/ /\ ~(noted \/ proc.rc = 130) /\ Materialized
        /\ IF proc.rc # 0 THEN disk' = Fail /\ pc' = "down" /\ UNCHANGED then
                          ELSE pc' = "check" /\ then' = "divide" /\ UNCHANGED disk
        /\ read' = Parted /\ UNCHANGED used
  /\ UNCHANGED <<files, archive, status, noted, orphan>>

ChildAtDepth(k, d) ==
  [id |-> <<active.partition, k>>, checkpoint |-> read[k].checkpoint,
   height |-> read[k].height, depth |-> d, initial |-> FALSE]

ChildSameDepth(k) == ChildAtDepth(k, branch.depth)

Child(k) ==
  [id |-> <<active.partition, k>>, checkpoint |-> read[k].checkpoint,
   height |-> read[k].height, depth |-> branch.depth + 1, initial |-> FALSE]

Continues(k) == read[k].reason \in {"row_limit", "memory_cap"}

QueuedAlone(children) == Reverse(children)
QueuedLast(children) == disk.stack \o Reverse(children)

\* queue_children: the end of the stack is visited next.
Queued(children) ==
  IF disk.traversal = "dfs" THEN disk.stack \o Reverse(children) ELSE Reverse(children) \o disk.stack

\* The parts that go on, in ascending order.
Continuing ==
  LET K == {k \in 1 .. Parts : Continues(k)}
  IN  CHOOSE s \in [1 .. Cardinality(K) -> K] : \A i, j \in DOMAIN s : i < j => s[i] < s[j]

Children == [i \in DOMAIN Continuing |-> Child(Continuing[i])]

\* The results of the parts that have ended.
Ended == {<<Child(k).id, read[k].reason>> : k \in {k \in 1 .. Parts : ~Continues(k)}}

\* The parts replace the branch: the ones that go on are queued, the others closed.
Divide ==
  /\ pc = "divide"
  /\ LET completion == \E r \in Ended : r[2] = "completion"
     IN disk' = [Closing(disk, branch.depth + 1, Ended) EXCEPT
                   !.stack = Queued(Children), !.active = None,
                   !.state = IF completion THEN "complete" ELSE @,
                   !.outcome = IF completion THEN "completion" ELSE @]
  /\ pc' = "divided" /\ read' = None
  /\ UNCHANGED <<files, archive, status, then, noted, proc, orphan, used>>

AfterSplit ==
  /\ pc = "divided" /\ Swept
  /\ pc' = IF disk.state = "running" THEN "loop" ELSE "down"
  /\ UNCHANGED <<disk, then>> /\ Quiet

-----------------------------------------------------------------------------
(***************************************************************************)
(* The solver, as the manager sees it: it saves a checkpoint, writes a     *)
(* status that names it, and exits with the status's code.  A partition    *)
(* process does the first two for each part, and stops at the first one    *)
(* that is interrupted.  p is the process, a what it was started for.      *)
(***************************************************************************)
Working == {"run", "saved", "written"}

\* choose_slice finds no slice for the parts, however often it is asked.
Refused(a) == a.action = "split" /\ a.branch.checkpoint \in Narrow

Startable(a) == \/ a.action = "extend" /\ a.branch.initial
                \/ a.branch.checkpoint \in files /\ ~Refused(a)

Result(reason, height, checkpoint) ==
  [reason |-> reason, height |-> height, checkpoint |-> checkpoint,
   exit |-> IF reason = "interrupted" THEN 130 ELSE 0]

\* Any row may be the last: a final result, the memory cap, or a requested pause.
\* A pause before the row of a pending partition leaves no checkpoint.
ExtensionResults(p, a) ==
  LET reasons == {"exhausted", "halt", "completion"} \cup
                 (IF p.flag THEN {"interrupted"} ELSE {})
      rows == a.branch.height .. MaxHeight
      capped == IF disk.nextPartition <= MaxPartitions
                THEN a.branch.height .. (MaxHeight - 1) ELSE {}
  IN  {Result(r, h, <<0, a.branch.id, h>>) : r \in reasons, h \in rows}
      \cup {Result("memory_cap", h, <<0, a.branch.id, h>>) : h \in capped}
      \cup (IF p.flag /\ a.branch.initial /\ Pending
            THEN {Result("interrupted", a.branch.height, None)} ELSE {})

\* The row of a part gives the same result each time it is computed.
PartResults(p, a) ==
  LET h == a.branch.height + 1
      key == <<a.partition, p.part>>
      reasons == IF key \in DOMAIN status /\ status[key].reason # "interrupted"
                 THEN {status[key].reason} ELSE {"row_limit", "exhausted", "completion"}
  IN  {Result(r, h, <<a.partition, key, h>>) : r \in reasons}
      \cup (IF p.flag THEN {Result("interrupted", a.branch.height, None)} ELSE {})

Saving(p, a) ==
  {[p EXCEPT !.stage = "saved", !.out = out] :
     out \in IF a.action = "extend" THEN ExtensionResults(p, a) ELSE PartResults(p, a)}

SolverSave ==
  /\ proc.stage = "run" /\ Startable(active)
  /\ proc' \in Saving(proc, active)
  /\ files' = files \cup ({proc'.out.checkpoint} \ {None})
  /\ UNCHANGED <<disk, archive, status, pc, then, read, noted, orphan, used>>

StatusKey(p, a) == IF a.action = "extend" THEN <<0, a.attempt>> ELSE <<a.partition, p.part>>

\* The status is replaced by a rename.
Reported(p, a) ==
  [k \in DOMAIN status \cup {StatusKey(p, a)} |->
     IF k = StatusKey(p, a) THEN p.out ELSE status[k]]

\* The next part installs the Ctrl-C handler again, which clears its flag.
NextPart(p, a) ==
  IF a.action = "split" /\ p.out.exit = 0 /\ p.part < Parts
  THEN Started(p.part + 1)
  ELSE [p EXCEPT !.stage = "written"]

SolverReport ==
  /\ proc.stage = "saved"
  /\ status' = Reported(proc, active) /\ proc' = NextPart(proc, active)
  /\ UNCHANGED <<disk, files, archive, pc, then, read, noted, orphan, used>>

\* With its status written, or at once when the checkpoint to load is missing, or too
\* narrow to be divided.
SolverExit ==
  /\ proc.stage = "written" \/ (proc.stage = "run" /\ ~Startable(active))
  /\ proc' = [proc EXCEPT !.stage = "exited",
                          !.rc = IF proc.stage = "written" THEN proc.out.exit ELSE 1]
  /\ UNCHANGED <<disk, files, archive, status, pc, then, read, noted, orphan, used>>

\* The solver is killed, or a write fails.
SolverDie ==
  /\ proc.stage \in Working /\ used.death < MaxDeaths
  /\ used' = [used EXCEPT !.death = @ + 1]
  /\ proc' = [proc EXCEPT !.stage = "exited", !.rc = 1]
  /\ UNCHANGED <<disk, files, archive, status, pc, then, read, noted, orphan>>

\* Started in a session of its own, a solver goes on without its manager.
OrphanSave ==
  /\ orphan.proc.stage = "run" /\ Startable(orphan.of)
  /\ \E p \in Saving(orphan.proc, orphan.of) :
       /\ orphan' = [orphan EXCEPT !.proc = p]
       /\ files' = files \cup ({p.out.checkpoint} \ {None})
  /\ UNCHANGED <<disk, archive, status, pc, then, read, noted, proc, used>>

OrphanReport ==
  /\ orphan.proc.stage = "saved"
  /\ status' = Reported(orphan.proc, orphan.of)
  /\ LET p == NextPart(orphan.proc, orphan.of) IN
       orphan' = IF p.stage = "run" THEN [orphan EXCEPT !.proc = p] ELSE NoOrphan
  /\ UNCHANGED <<disk, files, archive, pc, then, read, noted, proc, used>>

OrphanExit ==
  /\ orphan.proc.stage = "run" /\ ~Startable(orphan.of)
  /\ orphan' = NoOrphan
  /\ UNCHANGED <<disk, files, archive, status, pc, then, read, noted, proc, used>>

\* Ctrl-C while run_command waits: remembered, and forwarded to the solver.
Interrupt ==
  /\ pc = "wait" /\ proc.stage # "none" /\ used.signal < MaxSignals
  /\ used' = [used EXCEPT !.signal = @ + 1]
  /\ noted' = TRUE /\ proc' = [proc EXCEPT !.flag = TRUE]
  /\ UNCHANGED <<disk, files, archive, status, pc, then, read, orphan>>

\* The machine stops, or the manager alone is ended by a signal: the solver it has
\* lost then counts as a dead one.
Crash ==
  /\ pc # "down" /\ used.crash < MaxCrashes
  /\ pc' = "down" /\ then' = "loop" /\ read' = None /\ noted' = FALSE /\ proc' = NoProc
  /\ \/ /\ orphan' = NoOrphan
        /\ used' = [used EXCEPT !.crash = @ + 1]
     \/ /\ proc.stage \in {"run", "saved"} /\ used.death < MaxDeaths /\ active.action \in Orphans
        /\ orphan' = [proc |-> proc, of |-> active]
        /\ used' = [used EXCEPT !.crash = @ + 1, !.death = @ + 1]
  /\ UNCHANGED <<disk, files, archive, status>>

Run ==
  \/ DiskOk \/ DiskLow \/ Reclaimed \/ Boot \/ Begin
  \/ \E f \in Retired : ArchiveCopy(f) \/ ArchiveUnlink(f) \/ DeleteRetired(f)
  \/ CommandDone \/ StartBranch \/ FinishIfDone
  \/ AllocateAttempt \/ BeginExtension \/ Launch \/ ReapNothing \/ ReapStatus
  \/ Consume \/ AfterExtension
  \/ AllocatePartition \/ BeginSplit \/ Materialize \/ ReapSplit \/ Divide \/ AfterSplit

Solve == SolverSave \/ SolverReport \/ SolverExit

Survive == OrphanSave \/ OrphanReport \/ OrphanExit

Commands == Resume \/ Archive \/ \E r \in Settable : Configure(r)

Trouble == used.crash + used.signal + used.death < MaxTroubles /\ (SolverDie \/ Interrupt \/ Crash)

Next == Run \/ Solve \/ Survive \/ Commands \/ Trouble

Spec == Init /\ [][Next]_vars

\* The operator resumes whenever the manager has stopped, and processes make progress.
FairSpec == Spec /\ WF_vars(Run) /\ WF_vars(Solve) /\ WF_vars(Resume)

-----------------------------------------------------------------------------
\* The manifest implements the ledger: through crashes, retries and stale statuses
\* no branch is dropped, closed twice or divided twice, and the outcome is decided
\* once.
Ledger == INSTANCE SearchLedger WITH
  Root <- <<0, 0>>, Split <- Partition,
  open <- {b.id : b \in Open}, closed <- disk.results, outcome <- disk.outcome
LedgerKept == Ledger!Spec

\* Every checkpoint that the manifest still needs is there, at every point where a
\* crash may hit: retirement never overtakes the save that releases a payload.
LiveKept == \A b \in Open : b.checkpoint # None => b.checkpoint \in files

\* Every branch that is still to be searched can be started again by resume.
Restartable == \A b \in Open : b.initial \/ b.checkpoint \in files

\* Parts to the nth.
Power[n \in Nat] == IF n = 0 THEN 1 ELSE Parts * Power[n - 1]

\* The share of the search that a branch at depth d stands for, in units of the smallest
\* share.
Share(d) == Power[MaxPartitions - d]

\* What n[d] branches at each depth d stand for.
Shares(n) ==
  LET upTo[d \in Depth] == (n[d] * Share(d)) + (IF d = 0 THEN 0 ELSE upTo[d - 1])
  IN  upTo[MaxPartitions]

\* The branches at depth d that a stack holds.
StackAt(stack, d) == Cardinality({i \in 1 .. Len(stack) : stack[i].depth = d})

OpenAt ==
  [d \in Depth |-> StackAt(disk.stack, d) + (IF active # None /\ branch.depth = d THEN 1 ELSE 0)]

Finished == Shares(disk.completed)

Remaining == Shares(OpenAt)

\* The finished and the open branches always make up the whole search, so the
\* progress estimate reaches 100% when, and only when, nothing is left.
ProgressConserved == Finished + Remaining = Share(0)

CurrentDepth ==
  IF active # None THEN branch.depth
  ELSE IF disk.stack # <<>> THEN Last(disk.stack).depth ELSE 0

\* A depth-first run can always show its progress as digits of the current depth:
\* progress_text does not raise, so reporting never turns a saved result into a failure.
DigitsExact ==
  disk.traversal = "dfs" =>
    LET depth == IF CurrentDepth > 1 THEN CurrentDepth ELSE 1
    IN  Finished = Share(0) \/ (Finished * Power[depth]) % Share(0) = 0

\* After a Ctrl-C was noted this manager starts no other solver.
PauseHolds == [][proc.stage = "none" /\ proc'.stage = "run" => ~noted]_vars

\* Breadth-first, the next branch is one of the shallowest.
ShallowestFirst ==
  [][active = None /\ active' # None /\ disk.traversal = "bfs" =>
       \A b \in Open : active'.branch.depth <= b.depth]_vars

\* Without deletion configured, every payload that a status names is in the work
\* directory or, whole, in the archive, whatever interrupts the move.
NothingLost ==
  disk.retention # "delete" =>
    \A k \in DOMAIN status :
      status[k].checkpoint # None => status[k].checkpoint \in files \cup archive

\* The search waits for the division of a checkpoint that cannot be divided.
Stuck == active # None /\ Refused(active)

\* A search that is resumed after every stop, and whose payloads stay where they are,
\* comes to its end, or to a split that no slice of its checkpoint allows and that every
\* resume tries again in vain: neither crashes, pauses and failed processes nor what
\* they leave behind ever keep it from going on.  Retirement at startup may take a
\* payload it needs: Restartable.
Terminates == [](disk.retention = "keep") => <>(disk.state = "complete") \/ <>[]Stuck
=============================================================================
