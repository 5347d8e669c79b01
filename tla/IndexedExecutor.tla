-------------------------- MODULE IndexedExecutor --------------------------
(***************************************************************************)
(* execute_indexed_tasks (indexed_executor.cpp): a team of workers takes   *)
(* the tasks of a phase in their order, one at a time.  The first task     *)
(* that throws ends the phase: its exception is kept, the tasks that no    *)
(* worker has begun are skipped, and the caller gets the exception after   *)
(* the barrier.  The flag is read with relaxed ordering, so a worker may   *)
(* see an old value of it and run a task that it need not run.             *)
(***************************************************************************)
EXTENDS Naturals, FiniteSets

CONSTANTS
  Worker,
  None

ASSUME ExecutorAssumption ==
  /\ None \notin Nat
  /\ Worker # {} /\ IsFiniteSet(Worker)

VARIABLES
  taskCount, \* the number of tasks of the call
  next,      \* the next task of schedule(dynamic, 1)
  pc,        \* where each worker is
  task,      \* the task each worker has taken
  ran,       \* tasks that have run to their end
  threw,     \* tasks that threw
  failed,    \* the flag
  failure,   \* the task whose exception is kept
  outcome    \* "running", "returned" or "rethrown"

Task == 0 .. (taskCount - 1)

vars == <<taskCount, next, pc, task, ran, threw, failed, failure, outcome>>

\* No call yet.
Init ==
  /\ taskCount = 0 /\ next = 0
  /\ pc = [w \in Worker |-> "barrier"] /\ task = [w \in Worker |-> None]
  /\ ran = {} /\ threw = {}
  /\ failed = FALSE /\ failure = None
  /\ outcome = "returned"

\* A call with n tasks; one without tasks returns before there is a team.
Call(n) ==
  /\ outcome # "running"
  /\ taskCount' = n /\ next' = 0
  /\ pc' = [w \in Worker |-> "idle"] /\ task' = [w \in Worker |-> None]
  /\ ran' = {} /\ threw' = {}
  /\ failed' = FALSE /\ failure' = None
  /\ outcome' = "running"

Step(w, from, to) == pc[w] = from /\ pc' = [pc EXCEPT ![w] = to]

\* Without a task left, a worker waits at the barrier.
Take(w) ==
  IF next < taskCount
  THEN /\ Step(w, "idle", "check")
       /\ task' = [task EXCEPT ![w] = next] /\ next' = next + 1
       /\ UNCHANGED <<taskCount, ran, threw, failed, failure, outcome>>
  ELSE /\ Step(w, "idle", "barrier")
       /\ UNCHANGED <<taskCount, next, task, ran, threw, failed, failure, outcome>>

Check(w) ==
  /\ \E seen \in {FALSE, failed} : Step(w, "check", IF seen THEN "idle" ELSE "run")
  /\ UNCHANGED <<taskCount, next, task, ran, threw, failed, failure, outcome>>

Complete(w) ==
  /\ Step(w, "run", "idle")
  /\ ran' = ran \cup {task[w]}
  /\ UNCHANGED <<taskCount, next, task, threw, failed, failure, outcome>>

Throw(w) ==
  /\ Step(w, "run", "caught")
  /\ threw' = threw \cup {task[w]}
  /\ UNCHANGED <<taskCount, next, task, ran, failed, failure, outcome>>

\* compare_exchange_strong.
Exchange(w) ==
  /\ Step(w, "caught", IF failed THEN "idle" ELSE "keep")
  /\ failed' = TRUE
  /\ UNCHANGED <<taskCount, next, task, ran, threw, failure, outcome>>

Keep(w) ==
  /\ Step(w, "keep", "idle")
  /\ failure' = task[w]
  /\ UNCHANGED <<taskCount, next, task, ran, threw, failed, outcome>>

\* Mistake: the caller goes on with what there is.
ReturnAnyway ==
  /\ outcome = "running" /\ \A w \in Worker : pc[w] = "barrier"
  /\ outcome' = "returned" /\ task' = [w \in Worker |-> None]
  /\ UNCHANGED <<taskCount, next, pc, ran, threw, failed, failure>>

\* Behind the barrier the team is gone.
Return ==
  /\ outcome = "running" /\ \A w \in Worker : pc[w] = "barrier"
  /\ outcome' = IF failure # None THEN "rethrown" ELSE "returned"
  /\ task' = [w \in Worker |-> None]
  /\ UNCHANGED <<taskCount, next, pc, ran, threw, failed, failure>>

Next ==
  \/ \E w \in Worker : Take(w) \/ Check(w) \/ Complete(w) \/ Throw(w) \/ Exchange(w) \/ Keep(w)
  \/ Return
  \/ \E n \in Nat \ {0} : Call(n)

Spec == Init /\ [][Next]_vars

-----------------------------------------------------------------------------
TypeOK ==
  /\ taskCount \in Nat /\ next \in 0 .. taskCount
  /\ pc \in [Worker -> {"idle", "check", "run", "caught", "keep", "barrier"}]
  /\ task \in [Worker -> Task \cup {None}]
  /\ ran \subseteq Task /\ threw \subseteq Task
  /\ failed \in BOOLEAN /\ failure \in Task \cup {None}
  /\ outcome \in {"running", "returned", "rethrown"}

\* The caller goes on only when every task has run: skipped tasks, whose outputs hold
\* old contents, are never taken for done.
ReturnComplete == outcome = "returned" => ran = Task /\ threw = {}

\* The exception is kept by one worker only; the pointer is no atomic.
OneKeeper ==
  \A v, w \in Worker :
    pc[v] = "keep" /\ (pc[w] = "keep" \/ failure # None) => v = w /\ failure = None
=============================================================================
