------------------------------ MODULE RunLock ------------------------------
(***************************************************************************)
(* manager.lock of scripts/rlife_manager.py: a file with the pid of the    *)
(* manager that may work on a directory, taken over from a manager that    *)
(* died.  Every system call on the file is a step, so managers started     *)
(* together interleave between them; a manager may die anywhere.  The      *)
(* manifest is read before the lock is taken and saved behind it.          *)
(***************************************************************************)
EXTENDS Naturals, FiniteSets

CONSTANTS
  Manager,      \* manager processes, named by their pids; no pid is used twice
  None,
  MaxDeaths     \* bound on the managers that die without a word

\* A lock file: the manager that created it, and the pid it holds once it is written.
File == [by: Manager, pid: Manager \cup {None}]

ASSUME RunLockAssumption ==
  /\ None \notin Manager \cup File
  /\ MaxDeaths \in Nat

VARIABLES
  lock,     \* the lock file, or None
  pc,       \* where each manager is
  read,     \* the pid a manager found in the lock file
  manifest, \* state.json: the managers whose work it has
  memory,   \* the manifest each manager works with
  met,        \* history: the managers that were alive in some manager's life
  beside,     \* history: the managers that were inside when one started
  contended,  \* history: two managers were entering at the same time
  deaths

saved == <<manifest, memory>>
history == <<met, beside, contended>>
vars == <<lock, pc, read, saved, history, deaths>>

Alive == {m \in Manager : pc[m] \notin {"new", "refused", "done", "dead"}}
Inside == {m \in Manager : pc[m] = "in"}

Init ==
  /\ lock = None
  /\ pc = [m \in Manager |-> "new"]
  /\ read = [m \in Manager |-> None]
  /\ manifest = {} /\ memory = [m \in Manager |-> {}]
  /\ met = [m \in Manager |-> {}] /\ beside = [m \in Manager |-> {}] /\ contended = FALSE
  /\ deaths = 0

Step(m, from, to) == pc[m] = from /\ pc' = [pc EXCEPT ![m] = to]

\* A process starts; until it has opened the manifest it touches nothing.
Start(m) ==
  /\ Step(m, "new", "check")
  /\ memory' = [memory EXCEPT ![m] = manifest]
  /\ beside' = [beside EXCEPT ![m] = Inside]
  /\ met' = [n \in Manager |-> IF n = m THEN Alive
                               ELSE IF n \in Alive THEN met[n] \cup {m} ELSE met[n]]
  /\ contended' = (contended \/ Alive \ Inside # {})
  /\ UNCHANGED <<lock, read, manifest, deaths>>

\* __enter__: is there a lock file?
Check(m) ==
  /\ Step(m, "check", IF lock = None THEN "create" ELSE "read")
  /\ UNCHANGED <<lock, read, saved, history, deaths>>

\* Its pid is read; a file that has gone meanwhile, or an empty one, counts as stale.
Read(m) ==
  LET pid == IF lock # None THEN lock.pid ELSE None IN
    /\ Step(m, "read", IF pid = None THEN "unlink" ELSE "probe")
    /\ read' = [read EXCEPT ![m] = pid]
    /\ UNCHANGED <<lock, saved, history, deaths>>

ProbeTrusting(m) ==
  /\ Step(m, "probe", "refused")
  /\ UNCHANGED <<lock, read, saved, history, deaths>>

\* Mistake: the way out removes the lock file even if the way in was refused.
ProbeReleasing(m) ==
  /\ Step(m, "probe", IF read[m] \in Alive THEN "refused" ELSE "unlink")
  /\ lock' = IF read[m] \in Alive THEN None ELSE lock
  /\ UNCHANGED <<read, saved, history, deaths>>

\* os.kill(pid, 0) tells whether that process lives.
Probe(m) ==
  /\ Step(m, "probe", IF read[m] \in Alive THEN "refused" ELSE "unlink")
  /\ UNCHANGED <<lock, read, saved, history, deaths>>

\* The stale file is removed, whichever file has that name by now.
Unlink(m) ==
  /\ Step(m, "unlink", "create")
  /\ lock' = None
  /\ UNCHANGED <<read, saved, history, deaths>>

\* O_CREAT | O_EXCL.
Create(m) ==
  /\ Step(m, "create", IF lock = None THEN "write" ELSE "refused")
  /\ lock' = IF lock = None THEN [by |-> m, pid |-> None] ELSE lock
  /\ UNCHANGED <<read, saved, history, deaths>>

WriteUnflushed(m) ==
  /\ Step(m, "write", "in")
  /\ UNCHANGED <<lock, read, saved, history, deaths>>

\* The pid goes into the file this manager created, if that is still the lock.
Write(m) ==
  /\ Step(m, "write", "in")
  /\ lock' = IF lock = [by |-> m, pid |-> None] THEN [by |-> m, pid |-> m] ELSE lock
  /\ UNCHANGED <<read, saved, history, deaths>>

\* Work of a manager, and the manifest with it: the whole file is replaced.
Save(m) ==
  /\ pc[m] = "in"
  /\ memory' = [memory EXCEPT ![m] = @ \cup {m}]
  /\ manifest' = memory'[m]
  /\ UNCHANGED <<lock, pc, read, history, deaths>>

\* __exit__ removes whatever is there.
Exit(m) ==
  /\ Step(m, "in", "done")
  /\ lock' = None
  /\ UNCHANGED <<read, saved, history, deaths>>

Die(m) ==
  /\ m \in Alive /\ deaths < MaxDeaths
  /\ pc' = [pc EXCEPT ![m] = "dead"]
  /\ deaths' = deaths + 1
  /\ UNCHANGED <<lock, read, saved, history>>

Acquire(m) == Check(m) \/ Read(m) \/ Probe(m) \/ Unlink(m) \/ Create(m) \/ Write(m)

Next == \E m \in Manager : Start(m) \/ Acquire(m) \/ Save(m) \/ Exit(m) \/ Die(m)

Spec == Init /\ [][Next]_vars

-----------------------------------------------------------------------------
TypeOK ==
  /\ lock \in File \cup {None}
  /\ pc \in [Manager -> {"new", "check", "read", "probe", "unlink", "create", "write", "in",
                         "done", "refused", "dead"}]
  /\ read \in [Manager -> Manager \cup {None}]
  /\ manifest \subseteq Manager /\ memory \in [Manager -> SUBSET Manager]
  /\ met \in [Manager -> SUBSET Manager] /\ beside \in [Manager -> SUBSET Manager]
  /\ contended \in BOOLEAN
  /\ deaths \in 0 .. MaxDeaths

\* "another manager process (pid {pid}) holds {path}": no two managers work on a
\* directory at the same time.
MutualExclusion == Cardinality(Inside) <= 1

\* As long as managers enter one at a time, the lock does that: through exits, deaths
\* and takeovers, a holder keeps every later manager out.
ExclusiveUncontended == ~contended => MutualExclusion

\* A manager that has saved remembers its own work.
Worked == {m \in Manager : m \in memory[m]}

\* The manifest is read before the lock is taken, so a manager that was started beside
\* another and gets in behind it works on an old one, and its saves wipe out what the
\* other saved in the meantime.  As long as managers enter one at a time, that is the
\* only way to lose work: if that of some manager is missing from the manifest, then one
\* that was started while it was inside has saved.
LossUncontended ==
  ~contended => \A m \in Worked \ manifest : \E n \in Worked : m \in beside[n]

\* Whatever a dead manager has left behind, a manager is turned away only if another
\* one lived beside it.
RefusedByTheLiving == \A m \in Manager : pc[m] = "refused" => met[m] # {}
=============================================================================
