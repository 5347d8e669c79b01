---------------------------- MODULE ManagerProofs ----------------------------
(***************************************************************************)
(* Proofs about Manager, for any number of parts and of splits, any bounds *)
(* on what goes wrong, any traversal and retention in use.  The inductive  *)
(* invariant IInv says, at every point where a crash may hit, how the      *)
(* saved manifest, the payloads, the statuses, the solver and a solver     *)
(* that has lost its manager fit together:                                 *)
(*   Typed, Control, Noted       where the manager is and what it is about *)
(*   Reports, Divisible          what statuses and results can be          *)
(*   Naming, Capped              numbers are fresh, and splits are left    *)
(*   Ordered                     the stack of a breadth-first search       *)
(*   LiveKept, Held, NothingLost, Kept      where the payloads are         *)
(* From it follow that the manifest implements SearchLedger, that a noted  *)
(* Ctrl-C is honoured, the order of a breadth-first search, and that no    *)
(* payload is lost.  The manager's actions are grouped by what they do to  *)
(* the manifest: Idle ones leave it, Booking ones only keep its books.     *)
(*                                                                         *)
(* The last part is about the progress estimate: the weighted count of all *)
(* finished and open branches never changes.  Its sums over all depths are *)
(* recursive functions; AllNumbers, induction over the natural numbers, is *)
(* proved from the least element of a set of them.                         *)
(***************************************************************************)
EXTENDS Manager, FiniteSetTheorems, SequenceTheorems, WellFoundedInduction, TLAPS

Reason == {"exhausted", "halt", "completion", "memory_cap", "row_limit", "interrupted"}

Status ==
  [reason : Reason, height : Nat, checkpoint : Payload \cup {None}, exit : {0, 130}]

Manifest ==
  [state : {"running", "paused", "failed", "complete"},
   outcome : {"none", "exhausted", "halt", "completion"},
   traversal : Traversals, retention : Retentions,
   active : Operation \cup {None}, stack : Seq(Branch),
   nextAttempt : Nat, nextPartition : Nat \ {0},
   terminal : [Ledger!Final -> Nat], completed : [Depth -> Nat],
   results : SUBSET (Name \X Ledger!Final)]

Process ==
  [stage : {"none", "run", "saved", "written", "exited"}, part : Nat, flag : BOOLEAN,
   out : Status \cup {None}, rc : {None, 0, 1, 130}]

Label ==
  {"begin", "check", "reclaim", "loop", "launch", "wait", "consume", "consumed", "materialize",
   "divide", "divided", "down", "boot", "configured", "archive"}

Typed ==
  /\ disk \in Manifest
  /\ DOMAIN status \subseteq Name /\ \A k \in DOMAIN status : status[k] \in Status
  /\ pc \in Label /\ then \in {"loop", "launch", "materialize", "divide"}
  /\ noted \in BOOLEAN
  /\ proc \in Process
  /\ orphan \in [proc : Process, of : Operation \cup {None}]

\* Where the manager is, or will be when the disk has room.
At(label) == pc = label \/ (pc \in {"check", "reclaim"} /\ then = label)

\* The operation a has what its process is started with.
Ready(a) ==
  /\ a \in Operation
  /\ a.action = "extend" => a.attempt \in 0 .. disk.nextAttempt - 1
  /\ a.action = "split" => a.partition \in 1 .. disk.nextPartition - 1

\* What the manager is about: the state it saved last agrees with where it is.
Control ==
  /\ disk.state = "complete" <=> disk.outcome # "none"
  /\ pc = "begin" => disk.state # "complete"
  /\ pc \in {"check", "reclaim", "loop", "launch", "wait", "consume", "materialize", "divide"}
       => disk.state = "running"
  /\ At("launch") \/ At("materialize") \/ At("divide") \/ pc \in {"wait", "consume"}
       => Ready(active)
  /\ At("launch") \/ pc = "consume" => active.action = "extend"
  /\ At("materialize") \/ At("divide") => active.action = "split"
  /\ pc = "consume" => <<0, active.attempt>> \in DOMAIN status
  /\ proc.stage # "none" => pc = "wait"

\* A noted Ctrl-C leads out of this manager.
Noted == noted => pc \in {"wait", "consume", "consumed", "down", "configured", "archive"}

\* A status names a checkpoint unless its row was interrupted; a branch that is
\* extended has no row limit.
Sound(out, extends) ==
  /\ out \in Status
  /\ out.checkpoint = None => out.reason = "interrupted"
  /\ extends => out.reason # "row_limit"

Reports ==
  /\ \A k \in DOMAIN status : Sound(status[k], k[1] = 0)
  /\ proc.stage \in {"saved", "written"} => Sound(proc.out, active.action = "extend")
  /\ orphan.proc.stage # "none" => Ready(orphan.of)
  /\ orphan.proc.stage \in {"saved", "written"} => Sound(orphan.proc.out, orphan.of.action = "extend")

\* The statuses read are those of finished parts of the split.
Divisible ==
  At("divide") =>
    /\ read \in [1 .. Parts -> Status]
    /\ \A k \in 1 .. Parts :
         /\ read[k].reason # "interrupted"
         /\ read[k].checkpoint = <<active.partition, <<active.partition, k>>, branch.height + 1>>

\* The names of all branches there are or have been closed.
Ids == {b.id : b \in Open} \cup {r[1] : r \in disk.results}

Distinct(stack) == \A i, j \in 1 .. Len(stack) : stack[i].id = stack[j].id => i = j

Naming ==
  /\ Distinct(disk.stack)
  /\ active # None => \A i \in 1 .. Len(disk.stack) : disk.stack[i].id # branch.id
  /\ \A id \in Ids : id[1] < disk.nextPartition
  /\ active # None /\ active.action = "split" /\ active.partition # None =>
       /\ active.partition \in Partition /\ active.partition < disk.nextPartition
       /\ \A id \in Ids : id[1] # active.partition
  /\ disk.terminal["halt"] > 0 <=> \E r \in disk.results : r[2] = "halt"

\* The cap is reached only while there are splits left.
Capped ==
  LET left == disk.nextPartition <= MaxPartitions
      extends(n) == active # None /\ active.action = "extend" /\ active.attempt = n
  IN  /\ active # None /\ active.action = "split" /\ active.partition = None => left
      /\ \A k \in DOMAIN status : k[1] = 0 => k[2] < disk.nextAttempt
      /\ active # None /\ active.attempt # None => active.attempt < disk.nextAttempt
      /\ \A k \in DOMAIN status :
           k[1] = 0 /\ extends(k[2]) /\ status[k].reason = "memory_cap" => left
      /\ proc.stage \in {"saved", "written"} /\ active.action = "extend" /\ proc.out.reason = "memory_cap" => left
      /\ orphan.proc.stage \in {"saved", "written"} /\ orphan.of.action = "extend"
         /\ extends(orphan.of.attempt) /\ orphan.proc.out.reason = "memory_cap" => left

\* Breadth-first, the stack holds branches of at most two depths, the deeper ones first.
Ordered ==
  disk.traversal = "bfs" =>
    /\ \A i, j \in 1 .. Len(disk.stack) :
         /\ i < j => disk.stack[i].depth >= disk.stack[j].depth
         /\ disk.stack[i].depth <= disk.stack[j].depth + 1
    /\ active # None => \A i \in 1 .. Len(disk.stack) :
         disk.stack[i].depth \in {branch.depth, branch.depth + 1}

\* A checkpoint that was saved but not reported yet is not lost either.
Held ==
  /\ At("divide") => \A k \in 1 .. Parts : read[k].checkpoint \in files
  /\ disk.retention # "delete" =>
       /\ proc.stage \in {"saved", "written"} /\ proc.out.checkpoint # None
            => proc.out.checkpoint \in files \cup archive
       /\ orphan.proc.stage \in {"saved", "written"} /\ orphan.proc.out.checkpoint # None
            => orphan.proc.out.checkpoint \in files \cup archive

\* With every payload kept, what is saved stays in the work directory.
Kept ==
  disk.retention = "keep" =>
    /\ pc \notin {"reclaim", "archive"}
    /\ Restartable
    /\ \A k \in DOMAIN status : status[k].checkpoint # None => status[k].checkpoint \in files
    /\ proc.stage \in {"saved", "written"} /\ proc.out.checkpoint # None
            => proc.out.checkpoint \in files
    /\ orphan.proc.stage \in {"saved", "written"} /\ orphan.proc.out.checkpoint # None
            => orphan.proc.out.checkpoint \in files

LEMMA ProcessTypes ==
  /\ NoProc \in Process
  /\ \A k \in Nat : Started(k) \in Process
  /\ \A p \in Process, s \in {"none", "run", "saved", "written", "exited"} :
       [p EXCEPT !.stage = s] \in Process
  /\ \A p \in Process, rc \in {0, 1, 130} : [p EXCEPT !.stage = "exited", !.rc = rc] \in Process
  /\ \A p \in Process : [p EXCEPT !.flag = TRUE] \in Process
  /\ \A p \in Process, out \in Status : [p EXCEPT !.stage = "saved", !.out = out] \in Process
<1>1. NoProc \in Process
  BY DEF Process, NoProc
<1>2. \A k \in Nat : Started(k) \in Process
  BY DEF Process, NoProc, Started
<1>3. \A p \in Process, s \in {"none", "run", "saved", "written", "exited"} :
        [p EXCEPT !.stage = s] \in Process
  BY DEF Process
<1>4. \A p \in Process, rc \in {0, 1, 130} : [p EXCEPT !.stage = "exited", !.rc = rc] \in Process
  BY DEF Process
<1>5. \A p \in Process : [p EXCEPT !.flag = TRUE] \in Process
  BY DEF Process
<1>6. \A p \in Process, out \in Status : [p EXCEPT !.stage = "saved", !.out = out] \in Process
  BY DEF Process
<1> QED
  BY <1>1, <1>2, <1>3, <1>4, <1>5, <1>6


LEMMA ConsumptionA ==
  ASSUME Typed, Control, Reports, Consume
  PROVE  LET s == status[<<0, active.attempt>>] IN
      /\ s \in Status /\ s.reason # "row_limit"
      /\ s.checkpoint = None => s.reason = "interrupted"
      /\ disk' = Consumed(s)
      /\ active \in Operation /\ active.action = "extend" /\ active.attempt \in Nat
      /\ <<0, active.attempt>> \in DOMAIN status
      /\ disk.state = "running" /\ disk.outcome = "none"
<1> DEFINE k == <<0, active.attempt>>
<1>1. Ready(active) /\ k \in DOMAIN status /\ active.action = "extend"
  BY DEF Consume, Control
<1>2. active \in Operation /\ active.attempt \in Nat
  BY <1>1 DEF Ready, Typed, Manifest
<1>3. status[k] \in Status /\ status[k].reason # "row_limit"
      /\ (status[k].checkpoint = None => status[k].reason = "interrupted")
  BY <1>1 DEF Reports, Sound
<1>4. disk.state = "running" /\ disk.outcome = "none"
  BY DEF Consume, Control
<1> QED
  BY <1>1, <1>2, <1>3, <1>4 DEF Consume

\* m is n but for its state, and its active operation, which is about the same branch.
SameSearch(m, n) ==
  /\ m \in Manifest /\ m.traversal = n.traversal /\ m.retention = n.retention
  /\ m.stack = n.stack /\ m.nextAttempt = n.nextAttempt /\ m.nextPartition = n.nextPartition
  /\ m.results = n.results /\ m.outcome = n.outcome
  /\ m.terminal = n.terminal /\ m.completed = n.completed
  /\ m.active \in Operation
  /\ m.active.branch.id = n.active.branch.id /\ m.active.branch.depth = n.active.branch.depth

LEMMA TakeStatus ==
  ASSUME NEW m \in Manifest, m.active \in Operation, NEW h \in Nat
  PROVE  LET t == [m EXCEPT !.active.branch.height = h, !.active.branch.initial = FALSE,
                            !.active.attempt = None]
         IN  /\ SameSearch(t, m) /\ t.state = m.state
             /\ t.active.attempt = None /\ t.active.action = m.active.action
             /\ t.active.branch.checkpoint = m.active.branch.checkpoint
  BY DEF Manifest, Operation, Branch, SameSearch

LEMMA TakeCheckpoint ==
  ASSUME NEW m \in Manifest, m.active \in Operation, NEW c \in Payload \cup {None}
  PROVE  LET u == [m EXCEPT !.active.branch.checkpoint = c]
         IN  /\ SameSearch(u, m) /\ u.state = m.state
             /\ u.active.attempt = m.active.attempt /\ u.active.action = m.active.action
             /\ u.active.branch.checkpoint = c
  BY DEF Manifest, Operation, Branch, SameSearch

LEMMA TakeInitial ==
  ASSUME NEW m \in Manifest, m.active \in Operation
  PROVE  LET u == [m EXCEPT !.active.branch.initial = TRUE, !.state = "paused"]
         IN  /\ SameSearch(u, m) /\ u.state = "paused"
             /\ u.active.attempt = m.active.attempt /\ u.active.action = m.active.action
             /\ u.active.branch.checkpoint = m.active.branch.checkpoint
             /\ u.active.branch.initial
  BY DEF Manifest, Operation, Branch, SameSearch

LEMMA TakeState ==
  ASSUME NEW m \in Manifest, m.active \in Operation, NEW s \in {"paused", "failed"}
  PROVE  LET u == [m EXCEPT !.state = s]
         IN  /\ SameSearch(u, m) /\ u.state = s /\ u.active = m.active
  BY DEF Manifest, Operation, Branch, SameSearch

LEMMA TakeSplit ==
  ASSUME NEW m \in Manifest, m.active \in Operation
  PROVE  LET u == [m EXCEPT !.active.action = "split", !.active.partition = None]
         IN  /\ SameSearch(u, m) /\ u.state = m.state
             /\ u.active.attempt = m.active.attempt /\ u.active.action = "split"
             /\ u.active.partition = None
             /\ u.active.branch.checkpoint = m.active.branch.checkpoint
  BY DEF Manifest, Operation, Branch, SameSearch

\* A consumption that goes on with the branch.
Continued(s) ==
  /\ SameSearch(disk', disk)
  /\ disk'.active.attempt = None
  /\ \/ /\ disk'.active.action = "split" /\ disk'.active.partition = None
        /\ s.reason = "memory_cap" /\ disk'.state = "running"
     \/ disk'.active.action = "extend" /\ disk'.state \in {"paused", "failed"}
  /\ \/ /\ s.checkpoint # None /\ s.checkpoint \notin files
        /\ disk'.active.branch.checkpoint = branch.checkpoint
     \/ /\ s.checkpoint # None /\ s.checkpoint \in files
        /\ disk'.active.branch.checkpoint = s.checkpoint
     \/ /\ s.checkpoint = None
        /\ disk'.active.branch.checkpoint = branch.checkpoint
        /\ branch.initial => disk'.active.branch.initial

\* The manifest t is m with the results of branches at depth d.
Closes(t, m, d, results) ==
  /\ t \in Manifest
  /\ t.traversal = m.traversal /\ t.retention = m.retention
  /\ t.nextAttempt = m.nextAttempt /\ t.nextPartition = m.nextPartition
  /\ t.results = m.results \cup results
  /\ t.terminal = [r \in Ledger!Final |-> m.terminal[r] + Cardinality({x \in results : x[2] = r})]
  /\ t.completed = [m.completed EXCEPT ![d] = @ + Cardinality(results)]

\* One that closes it.
Concluded(s) ==
  /\ s.reason \in Ledger!Final
  /\ Closes(disk', disk, branch.depth, {<<branch.id, s.reason>>})
  /\ disk'.active = None /\ disk'.stack = disk.stack
  /\ IF s.reason = "completion" THEN disk'.state = "complete" /\ disk'.outcome = "completion"
                                ELSE disk'.state = "running" /\ disk'.outcome = "none"

LEMMA SameSearchTrans ==
  ASSUME NEW l, NEW m, NEW n, SameSearch(l, m), SameSearch(m, n)
  PROVE  SameSearch(l, n)
  BY DEF SameSearch

LEMMA Closings ==
  ASSUME NEW m \in Manifest, NEW d, NEW results \in SUBSET (Name \X Ledger!Final), IsFiniteSet(results)
  PROVE  LET t == Closing(m, d, results)
         IN  /\ Closes(t, m, d, results)
             /\ t.state = m.state /\ t.outcome = m.outcome
             /\ t.active = m.active /\ t.stack = m.stack
<1> DEFINE count(r) == Cardinality({x \in results : x[2] = r})
           all == Cardinality(results)
           terminal == [r \in DOMAIN m.terminal |-> m.terminal[r] + count(r)]
           completed == [m.completed EXCEPT ![d] = @ + all]
<1>1. DOMAIN m.terminal = Ledger!Final /\ m.terminal \in [Ledger!Final -> Nat]
      /\ m.completed \in [Depth -> Nat]
  BY DEF Manifest
<1>2. \A r : count(r) \in Nat
  <2> TAKE r
  <2>1. {x \in results : x[2] = r} \subseteq results
    OBVIOUS
  <2> QED
    BY <2>1, FS_Subset, FS_CardinalityType
<1>3. all \in Nat
  BY FS_CardinalityType
<1>6. m.results \cup results \in SUBSET (Name \X Ledger!Final)
  BY DEF Manifest
<1>7. Closing(m, d, results) = [m EXCEPT !.terminal = terminal, !.completed = completed,
                                         !.results = m.results \cup results]
  BY DEF Closing, Manifest
<1> HIDE DEF count, all
<1>4. terminal \in [Ledger!Final -> Nat]
  <2>1. \A r \in Ledger!Final : m.terminal[r] + count(r) \in Nat
    BY <1>1, <1>2
  <2> QED
    BY <1>1, <2>1
<1>5. completed \in [Depth -> Nat]
  <2>1. \A x \in Depth : m.completed[x] \in Nat /\ m.completed[x] + all \in Nat
    BY <1>1, <1>3
  <2>2. completed = [x \in Depth |-> IF x = d THEN m.completed[x] + all ELSE m.completed[x]]
    BY <1>1
  <2> QED
    BY <2>1, <2>2
<1>8. terminal = [r \in Ledger!Final |-> m.terminal[r] + count(r)]
  BY <1>1
<1> HIDE DEF terminal, completed
<1>9. LET t == [m EXCEPT !.terminal = terminal, !.completed = completed,
                         !.results = m.results \cup results]
         IN  /\ t \in Manifest
             /\ t.state = m.state /\ t.outcome = m.outcome
             /\ t.traversal = m.traversal /\ t.retention = m.retention
             /\ t.active = m.active /\ t.stack = m.stack
             /\ t.nextAttempt = m.nextAttempt /\ t.nextPartition = m.nextPartition
             /\ t.results = m.results \cup results
             /\ t.terminal = terminal /\ t.completed = completed
  BY <1>4, <1>5, <1>6 DEF Manifest
<1> QED
  BY <1>7, <1>8, <1>9 DEF Closes, completed, count, all

LEMMA Consumption ==
  ASSUME Typed, Control, Reports, Consume
  PROVE  LET s == status[<<0, active.attempt>>] IN Continued(s) \/ Concluded(s)
<1> DEFINE s == status[<<0, active.attempt>>]
          taken == [disk EXCEPT !.active.branch.height = s.height,
                            !.active.branch.initial = FALSE, !.active.attempt = None]
          loaded == [taken EXCEPT !.active.branch.checkpoint = s.checkpoint]
          m == IF s.checkpoint = None THEN taken ELSE loaded
<1> SUFFICES Continued(s) \/ Concluded(s)
  OBVIOUS
<1>1. /\ s \in Status /\ s.reason # "row_limit"
      /\ s.checkpoint = None => s.reason = "interrupted"
      /\ disk' = Consumed(s)
      /\ active \in Operation /\ active.action = "extend"
      /\ disk.state = "running" /\ disk.outcome = "none"
      /\ disk \in Manifest /\ disk.active = active /\ branch = active.branch
  BY ConsumptionA DEF Typed, active, branch
<1> HIDE DEF s
<1>2. s.height \in Nat /\ s.checkpoint \in Payload \cup {None} /\ s.reason \in Reason
  BY <1>1 DEF Status
<1>3. /\ SameSearch(taken, disk) /\ taken.state = "running"
      /\ taken.active.attempt = None /\ taken.active.action = "extend"
      /\ taken.active.branch.checkpoint = branch.checkpoint
  BY <1>1, <1>2, TakeStatus
<1>4. Consumed(s) =
        IF s.checkpoint # None /\ s.checkpoint \notin files THEN [taken EXCEPT !.state = "failed"]
        ELSE CASE s.reason = "memory_cap" ->
                  [m EXCEPT !.active.action = "split", !.active.partition = None]
             [] s.reason = "interrupted" -> 
                 IF s.checkpoint # None THEN [m EXCEPT !.state = "paused"]
                     ELSE IF branch.initial
                     THEN [m EXCEPT !.active.branch.initial = TRUE, !.state = "paused"]
                     ELSE [m EXCEPT !.state = "failed"]
             [] s.reason = "completion" ->
                  [CloseActive(m, s.reason) EXCEPT !.state = "complete", !.outcome = "completion"]
             [] OTHER -> CloseActive(m, s.reason)
  BY DEF Consumed
<1> HIDE DEF taken
<1>5. taken \in Manifest /\ taken.active \in Operation
  BY <1>3 DEF SameSearch
<1>6. /\ SameSearch(loaded, taken) /\ loaded.state = taken.state
      /\ loaded.active.attempt = taken.active.attempt /\ loaded.active.action = taken.active.action
      /\ loaded.active.branch.checkpoint = s.checkpoint
  BY <1>2, <1>5, TakeCheckpoint
<1> HIDE DEF loaded
<1>7. /\ SameSearch(m, disk) /\ m.state = "running"
      /\ m.active.attempt = None /\ m.active.action = "extend"
      /\ m.active.branch.checkpoint = IF s.checkpoint = None THEN branch.checkpoint ELSE s.checkpoint
  BY <1>3, <1>6 DEF SameSearch
<1> HIDE DEF m
<1>8. m \in Manifest /\ m.active \in Operation
  BY <1>7 DEF SameSearch
<1>9. CASE s.checkpoint # None /\ s.checkpoint \notin files
  <2>1. disk' = [taken EXCEPT !.state = "failed"]
    BY <1>1, <1>4, <1>9
  <2> DEFINE u == [taken EXCEPT !.state = "failed"]
  <2>2. SameSearch(u, taken) /\ u.state = "failed" /\ u.active = taken.active
    BY <1>5, TakeState
  <2> HIDE DEF u
  <2>3. disk' = u
    BY <2>1 DEF u
  <2>4. SameSearch(disk', disk)
    BY <1>3, <2>2, <2>3, SameSearchTrans
  <2>5. disk'.active.attempt = None
    BY <1>3, <2>2, <2>3
  <2>6. disk'.active.action = "extend" /\ disk'.state = "failed"
    BY <1>3, <2>2, <2>3
  <2>7. disk'.active.branch.checkpoint = branch.checkpoint
    BY <1>3, <2>2, <2>3
  <2> QED
    BY <1>9, <2>4, <2>5, <2>6, <2>7 DEF Continued
<1>10. CASE s.reason = "memory_cap" /\ s.checkpoint \in files
  <2> DEFINE u == [m EXCEPT !.active.action = "split", !.active.partition = None]
  <2>1. disk' = u
    BY <1>1, <1>4, <1>10
  <2>2. /\ SameSearch(u, m) /\ u.state = m.state
             /\ u.active.attempt = m.active.attempt /\ u.active.action = "split"
             /\ u.active.partition = None
             /\ u.active.branch.checkpoint = m.active.branch.checkpoint
    BY <1>8, TakeSplit
  <2> HIDE DEF u
  <2> QED
    BY <1>1, <1>7, <1>10, <2>1, <2>2, SameSearchTrans DEF Continued
<1>11. CASE s.reason = "interrupted" /\ (s.checkpoint # None => s.checkpoint \in files)
  <2>1. CASE s.checkpoint = None /\ branch.initial
    <3> DEFINE u == [m EXCEPT !.active.branch.initial = TRUE, !.state = "paused"]
    <3>1. disk' = u
      BY <1>1, <1>4, <1>11, <2>1
    <3>2. /\ SameSearch(u, m) /\ u.state = "paused"
             /\ u.active.attempt = m.active.attempt /\ u.active.action = m.active.action
             /\ u.active.branch.checkpoint = m.active.branch.checkpoint
             /\ u.active.branch.initial
      BY <1>8, TakeInitial
    <3> HIDE DEF u
    <3> QED
      BY <1>1, <1>7, <2>1, <3>1, <3>2, SameSearchTrans DEF Continued
  <2>2. CASE ~(s.checkpoint = None /\ branch.initial)
    <3>1. PICK l \in {"paused", "failed"} : disk' = [m EXCEPT !.state = l]
      BY <1>1, <1>4, <1>11, <2>2
    <3> DEFINE u == [m EXCEPT !.state = l]
    <3>2. SameSearch(u, m) /\ u.state = l /\ u.active = m.active
      BY <1>8, TakeState
    <3>3. disk' = u
      BY <3>1
    <3> HIDE DEF u
    <3> QED
      BY <1>1, <1>7, <1>11, <2>2, <3>2, <3>3, SameSearchTrans DEF Continued
  <2> QED
    BY <2>1, <2>2
<1>12. CASE s.reason \in Ledger!Final /\ s.checkpoint \in files
  <2> DEFINE results == {<<branch.id, s.reason>>}
             t == Closing(m, branch.depth, results)
  <2>1. m.active.branch.id = branch.id /\ m.active.branch.depth = branch.depth 
     BY <1>1, <1>7 DEF SameSearch
  <2>2. /\ Closes(t, m, branch.depth, results)
        /\ t.state = m.state /\ t.outcome = m.outcome /\ t.active = m.active /\ t.stack = m.stack
    <3>1. results \in SUBSET (Name \X Ledger!Final)
      BY <1>1, <1>12 DEF Operation, Branch
    <3>2. IsFiniteSet(results)
      BY FS_EmptySet, FS_AddElement
    <3> HIDE DEF results
    <3> QED
      BY <1>8, <3>1, <3>2, Closings
  <2>3. disk' = IF s.reason = "completion" THEN [t EXCEPT !.active = None, !.state = "complete", !.outcome = "completion"]
           ELSE [t EXCEPT !.active = None]
    BY <1>1, <1>4, <1>12 DEF CloseActive, Ledger!Final
  <2>4. m.terminal = disk.terminal /\ m.completed = disk.completed /\ m.results = disk.results
        /\ m.outcome = "none" /\ m.stack = disk.stack /\ m.traversal = disk.traversal
        /\ m.retention = disk.retention /\ m.nextAttempt = disk.nextAttempt /\ m.nextPartition = disk.nextPartition
    BY <1>1, <1>7 DEF SameSearch
  <2> HIDE DEF t
  <2>5. Closes(t, disk, branch.depth, results)
    BY <2>2, <2>4 DEF Closes
  <2> HIDE DEF results
  <2> QED
    BY <1>7, <1>12, <2>2, <2>3, <2>4, <2>5 DEF Concluded, Manifest, results, Closes
<1> QED
  BY <1>1, <1>2, <1>9, <1>10, <1>11, <1>12 DEF Reason, Ledger!Final

\* Every non-empty set of numbers has a least one.
LEMMA Least ==
  ASSUME NEW T \in SUBSET Nat, T # {}
  PROVE  \E n \in T : \A m \in T : n <= m
<1>1. PICK n \in T : \A m \in T : ~ (<<m, n>> \in OpToRel(<, Nat))
  BY NatLessThanWellFounded, WFMin
<1>2. \A m \in T : ~ (m < n)
  BY <1>1 DEF OpToRel
<1> QED
  BY <1>2

Ascents(K) ==
  {s \in [1 .. Cardinality(K) -> K] : \A i, j \in DOMAIN s : i < j => s[i] < s[j]}

\* A finite set of numbers can be listed in ascending order.
LEMMA AscentExists ==
  ASSUME NEW n \in Nat, NEW K \in SUBSET (1 .. n)
  PROVE  Ascents(K) # {}
<1> DEFINE Bad == {b \in Nat : \E S \in SUBSET (1 .. b) : Ascents(S) = {}}
<1>1. SUFFICES Bad = {}
  OBVIOUS
<1>2. SUFFICES ASSUME Bad # {} PROVE FALSE
  OBVIOUS
<1>3. PICK b \in Bad : \A m \in Bad : b <= m
  BY <1>2, Least
<1>4. PICK S \in SUBSET (1 .. b) : Ascents(S) = {}
  BY <1>3
<1>5. b \in Nat
  BY <1>3
<1>6. CASE b = 0
  <2>1. S = {}
    BY <1>4, <1>6
  <2>2. Cardinality(S) = 0
    BY <2>1, FS_EmptySet
  <2>3. <<>> \in [1 .. 0 -> S]
    OBVIOUS
  <2>4. <<>> \in Ascents(S)
    BY <2>2, <2>3 DEF Ascents
  <2> QED
    BY <2>4, <1>4
<1>7. CASE b # 0 /\ b \notin S
  <2>1. b - 1 \in Nat /\ S \in SUBSET (1 .. b - 1)
    BY <1>4, <1>5, <1>7
  <2>2. b - 1 \in Bad
    BY <1>4, <2>1
  <2> QED
    BY <1>3, <1>5, <2>2
<1>8. CASE b # 0 /\ b \in S
  <2> DEFINE R == S \ {b}
             c == Cardinality(R)
  <2>1. b - 1 \in Nat /\ R \in SUBSET (1 .. b - 1)
    BY <1>4, <1>5, <1>8
  <2>2. b - 1 \notin Bad
    BY <1>3, <1>5
  <2>3. PICK r \in [1 .. c -> R] : \A i, j \in DOMAIN r : i < j => r[i] < r[j]
    BY <2>1, <2>2 DEF Ascents
  <2>4. IsFiniteSet(R)
    <3>1. IsFiniteSet(1 .. b - 1)
      BY <1>5, FS_Interval
    <3> QED
      BY <2>1, <3>1, FS_Subset
  <2>5. c \in Nat /\ Cardinality(S) = c + 1
    <3>1. S = R \cup {b} /\ b \notin R
      BY <1>8
    <3> QED
      BY <2>4, <3>1, FS_AddElement, FS_CardinalityType
  <2> HIDE DEF c, R
  <2> DEFINE s == [i \in 1 .. c + 1 |-> IF i = c + 1 THEN b ELSE r[i]]
  <2>6. \A i \in 1 .. c : r[i] \in R /\ r[i] \in S /\ r[i] \in 1 .. b - 1
    BY <2>1, <2>3 DEF R
  <2>7. s \in [1 .. c + 1 -> S]
    BY <1>8, <2>5, <2>6
  <2>8. \A i, j \in 1 .. c + 1 : i < j => s[i] < s[j]
    BY <1>5, <2>3, <2>5, <2>6
  <2>9. s \in Ascents(S)
    BY <2>5, <2>7, <2>8 DEF Ascents
  <2> QED
    BY <2>9, <1>4
<1> QED
  BY <1>5, <1>6, <1>7, <1>8

Goes == {k \in 1 .. Parts : Continues(k)}

\* The sequence of the parts that go on lists them all, once each.
LEMMA ContinuingLists ==
  LET n == Cardinality(Goes) IN
  /\ n \in Nat /\ IsFiniteSet(Goes)
  /\ Continuing \in [1 .. n -> Goes]
  /\ \A i, j \in 1 .. n : Continuing[i] = Continuing[j] => i = j
  /\ \A k \in Goes : \E i \in 1 .. n : Continuing[i] = k
<1> DEFINE n == Cardinality(Goes)
           s == Continuing
<1>1. Parts \in Nat /\ Goes \in SUBSET (1 .. Parts)
  BY ManagerAssumption DEF Goes
<1>2. IsFiniteSet(Goes) /\ n \in Nat
  <2>1. IsFiniteSet(1 .. Parts)
    BY <1>1, FS_Interval
  <2>2. IsFiniteSet(Goes)
    BY <1>1, <2>1, FS_Subset
  <2> QED
    BY <2>2, FS_CardinalityType
<1>3. s \in Ascents(Goes)
  <2>1. PICK t : t \in Ascents(Goes)
    BY <1>1, AscentExists
  <2>2. s = CHOOSE u \in [1 .. n -> Goes] : \A i, j \in DOMAIN u : i < j => u[i] < u[j]
    BY DEF Continuing, Goes
  <2> QED
    BY <2>1, <2>2 DEF Ascents
<1>4. s \in [1 .. n -> Goes] /\ \A i, j \in 1 .. n : i < j => s[i] < s[j]
  BY <1>3 DEF Ascents
<1> HIDE DEF n, s
<1>5. \A i \in 1 .. n : s[i] \in Nat
  <2>1. \A k \in Goes : k \in Nat
    BY <1>1
  <2> QED
    BY <1>4, <2>1
<1>6. \A i, j \in 1 .. n : s[i] = s[j] => i = j
  BY <1>2, <1>4, <1>5
<1>7. s \in Injection(1 .. n, Goes)
  BY <1>4, <1>6 DEF Injection, IsInjective
<1>8. s \in Surjection(1 .. n, Goes)
  <2>1. Cardinality(1 .. n) = n
    BY <1>2, FS_Interval
  <2> QED
    BY <1>2, <1>7, <2>1, FS_Injection DEF n
<1>9. \A k \in Goes : \E i \in 1 .. n : s[i] = k
  BY <1>8 DEF Surjection
<1> QED
  BY <1>2, <1>4, <1>6, <1>9 DEF n, s

LEMMA ReverseSeq ==
  ASSUME NEW B, NEW s \in Seq(B)
  PROVE  /\ Reverse(s) \in Seq(B) /\ Len(Reverse(s)) = Len(s)
         /\ \A i \in 1 .. Len(s) : Reverse(s)[i] = s[(Len(s) - i) + 1]
         /\ ToSet(Reverse(s)) = ToSet(s)
         /\ Distinct(s) => Distinct(Reverse(s))
<1> DEFINE n == Len(s)
           r == Reverse(s)
<1>1. n \in Nat /\ DOMAIN s = 1 .. n /\ \A i \in 1 .. n : s[i] \in B
  OBVIOUS
<1>2. r = [i \in 1 .. n |-> s[(n - i) + 1]]
  BY DEF Reverse
<1> HIDE DEF n, r
<1>3. \A i \in 1 .. n : (n - i) + 1 \in 1 .. n /\ (n - ((n - i) + 1)) + 1 = i
  BY <1>1
<1>4. r \in [1 .. n -> B]
  BY <1>1, <1>2, <1>3
<1>5. r \in Seq(B) /\ Len(r) = n
  BY <1>1, <1>4, IsASeq
<1>6. \A i \in 1 .. n : r[i] = s[(n - i) + 1]
  BY <1>2
<1>7. ToSet(r) = ToSet(s)
  <2>1. \A i \in DOMAIN r : \E j \in DOMAIN s : r[i] = s[j]
    BY <1>1, <1>3, <1>4, <1>6
  <2>2. \A j \in DOMAIN s : \E i \in DOMAIN r : r[i] = s[j]
    <3> SUFFICES ASSUME NEW j \in 1 .. n PROVE \E i \in DOMAIN r : r[i] = s[j]
      BY <1>1
    <3> DEFINE i == (n - j) + 1
    <3>1. i \in 1 .. n /\ (n - i) + 1 = j
      BY <1>1, <1>3
    <3> QED
      BY <1>4, <1>6, <3>1
  <2> QED
    BY <2>1, <2>2 DEF ToSet
<1>8. Distinct(s) => Distinct(r)
  <2> SUFFICES ASSUME Distinct(s), NEW i \in 1 .. n, NEW j \in 1 .. n, r[i].id = r[j].id PROVE i = j
    BY <1>5 DEF Distinct
  <2>1. r[i] = s[(n - i) + 1] /\ r[j] = s[(n - j) + 1]
    BY <1>6
  <2>2. (n - i) + 1 \in 1 .. n /\ (n - j) + 1 \in 1 .. n
    BY <1>1, <1>3
  <2>3. (n - i) + 1 = (n - j) + 1
    BY <1>1, <2>1, <2>2 DEF Distinct
  <2> QED
    BY <1>1, <2>3
<1> QED
  BY <1>5, <1>6, <1>7, <1>8 DEF n, r

LEMMA ConcatSeq ==
  ASSUME NEW B, NEW s \in Seq(B), NEW t \in Seq(B)
  PROVE  /\ s \o t \in Seq(B) /\ Len(s \o t) = Len(s) + Len(t)
         /\ \A i \in 1 .. Len(s) : (s \o t)[i] = s[i]
         /\ \A i \in (Len(s) + 1) .. (Len(s) + Len(t)) : (s \o t)[i] = t[i - Len(s)]
         /\ ToSet(s \o t) = ToSet(s) \cup ToSet(t)
         /\ /\ Distinct(s) /\ Distinct(t)
            /\ \A i \in 1 .. Len(s), j \in 1 .. Len(t) : s[i].id # t[j].id
            => Distinct(s \o t)
<1> DEFINE m == Len(s)
           n == Len(t)
           q == s \o t
<1>1. m \in Nat /\ n \in Nat /\ DOMAIN s = 1 .. m /\ DOMAIN t = 1 .. n
  OBVIOUS
<1>2. /\ q \in Seq(B) /\ Len(q) = m + n
      /\ \A i \in 1 .. (m + n) : q[i] = IF i <= m THEN s[i] ELSE t[i - m]
  BY ConcatProperties
<1>3. DOMAIN q = 1 .. (m + n)
  BY <1>2
<1> HIDE DEF m, n, q
<1>4. \A i \in 1 .. m : q[i] = s[i]
  BY <1>1, <1>2
<1>5. \A i \in (m + 1) .. (m + n) : q[i] = t[i - m]
  BY <1>1, <1>2
<1>6. ToSet(q) = ToSet(s) \cup ToSet(t)
  <2>1. \A i \in DOMAIN q : (\E j \in DOMAIN s : q[i] = s[j]) \/ (\E j \in DOMAIN t : q[i] = t[j])
    <3> SUFFICES ASSUME NEW i \in 1 .. (m + n)
                 PROVE  (\E j \in 1 .. m : q[i] = s[j]) \/ (\E j \in 1 .. n : q[i] = t[j])
      BY <1>1, <1>3
    <3>1. CASE i <= m
      BY <1>1, <1>4, <3>1
    <3>2. CASE i > m
      <4>1. i - m \in 1 .. n
        BY <1>1, <3>2
      <4> QED
        BY <1>1, <1>5, <3>2, <4>1
    <3> QED
      BY <1>1, <3>1, <3>2
  <2>2. \A j \in DOMAIN s : \E i \in DOMAIN q : q[i] = s[j]
    BY <1>1, <1>3, <1>4
  <2>3. \A j \in DOMAIN t : \E i \in DOMAIN q : q[i] = t[j]
    <3> SUFFICES ASSUME NEW j \in 1 .. n PROVE \E i \in DOMAIN q : q[i] = t[j]
      BY <1>1
    <3>1. m + j \in (m + 1) .. (m + n) /\ m + j \in 1 .. (m + n) /\ (m + j) - m = j
      BY <1>1
    <3>2. q[m + j] = t[(m + j) - m]
      BY <1>5, <3>1
    <3> QED
      BY <1>3, <3>1, <3>2
  <2> QED
    BY <2>1, <2>2, <2>3 DEF ToSet
<1>7. ASSUME Distinct(s), Distinct(t), \A i \in 1 .. m, j \in 1 .. n : s[i].id # t[j].id
      PROVE  Distinct(q)
  <2> SUFFICES ASSUME NEW i \in 1 .. (m + n), NEW j \in 1 .. (m + n), q[i].id = q[j].id
               PROVE  i = j
    BY <1>2 DEF Distinct
  <2>1. CASE i <= m /\ j <= m
    BY <1>1, <1>4, <1>7, <2>1 DEF Distinct, m
  <2>2. CASE i <= m /\ j > m
    <3>1. j - m \in 1 .. n /\ i \in 1 .. m
      BY <1>1, <2>2
    <3> QED
      BY <1>1, <1>4, <1>5, <1>7, <2>2, <3>1
  <2>3. CASE i > m /\ j <= m
    <3>1. i - m \in 1 .. n /\ j \in 1 .. m
      BY <1>1, <2>3
    <3> QED
      BY <1>1, <1>4, <1>5, <1>7, <2>3, <3>1
  <2>4. CASE i > m /\ j > m
    <3>1. i - m \in 1 .. n /\ j - m \in 1 .. n
      BY <1>1, <2>4
    <3>2. t[i - m].id = t[j - m].id
      BY <1>1, <1>5, <2>4
    <3>3. i - m = j - m
      BY <1>7, <3>1, <3>2 DEF Distinct, n
    <3> QED
      BY <1>1, <3>3
  <2> QED
    BY <1>1, <2>1, <2>2, <2>3, <2>4
<1> QED
  BY <1>2, <1>4, <1>5, <1>6, <1>7 DEF m, n, q

LEMMA DivisionInputs ==
  ASSUME Typed, Control, Divisible, Divide
  PROVE  /\ active \in Operation /\ branch \in Branch /\ active.partition \in Nat
         /\ active.action = "split"
         /\ disk.state = "running" /\ disk.outcome = "none"
         /\ read \in [1 .. Parts -> Status]
         /\ \A k \in 1 .. Parts :
              /\ read[k].reason # "interrupted"
              /\ read[k].checkpoint = <<active.partition, <<active.partition, k>>, branch.height + 1>>
              /\ read[k].checkpoint \in Payload
              /\ ~Continues(k) => read[k].reason \in Ledger!Final
<1>1. At("divide")
  BY DEF Divide, At
<1>2. Ready(active) /\ active.action = "split" /\ disk.state = "running" /\ disk.outcome = "none"
  BY <1>1 DEF Control, Divide
<1>3. active \in Operation /\ active.partition \in Nat
  BY <1>2 DEF Ready, Typed, Manifest
<1>4. branch \in Branch /\ branch.height \in Nat
  BY <1>3 DEF Operation, Branch, branch
<1>5. read \in [1 .. Parts -> Status]
  BY <1>1 DEF Divisible
<1>6. ASSUME NEW k \in 1 .. Parts
      PROVE  /\ read[k].reason # "interrupted"
             /\ read[k].checkpoint = <<active.partition, <<active.partition, k>>, branch.height + 1>>
             /\ read[k].checkpoint \in Payload
             /\ ~Continues(k) => read[k].reason \in Ledger!Final
  <2>1. /\ read[k].reason # "interrupted"
        /\ read[k].checkpoint = <<active.partition, <<active.partition, k>>, branch.height + 1>>
    BY <1>1 DEF Divisible
  <2>2. read[k].reason \in Reason
    BY <1>5 DEF Status
  <2>3. k \in Nat
    BY ManagerAssumption
  <2> QED
    BY <1>3, <1>4, <2>1, <2>2, <2>3 DEF Payload, Name, Continues, Reason, Ledger!Final
<1> QED
  BY <1>2, <1>3, <1>4, <1>5, <1>6

LEMMA ChildrenListed ==
  ASSUME Typed, Control, Divisible, Divide
  PROVE  /\ Children \in Seq(Branch)
         /\ Distinct(Children)
         /\ ToSet(Children) = {Child(k) : k \in Goes}
         /\ \A i \in 1 .. Len(Children) : \E k \in Goes : Children[i] = Child(k)
         /\ \A k \in 1 .. Parts : Child(k) \in Branch
<1> DEFINE n == Cardinality(Goes)
<1>1. /\ n \in Nat /\ Continuing \in [1 .. n -> Goes]
      /\ \A i, j \in 1 .. n : Continuing[i] = Continuing[j] => i = j
      /\ \A k \in Goes : \E i \in 1 .. n : Continuing[i] = k
  BY ContinuingLists
<1>2. \A k \in 1 .. Parts : Child(k) \in Branch
  <2> SUFFICES ASSUME NEW k \in 1 .. Parts PROVE Child(k) \in Branch
    OBVIOUS
  <2>1. <<active.partition, k>> \in Name /\ branch.depth + 1 \in Nat
    <3>1. active.partition \in Nat /\ branch \in Branch /\ k \in 1 .. Parts
      BY DivisionInputs
    <3>2. branch.depth \in Nat
      BY <3>1 DEF Branch
    <3> QED
      BY <3>1, <3>2, ManagerAssumption DEF Name
  <2>2. read[k].checkpoint \in Payload /\ read[k].height \in Nat
    BY DivisionInputs DEF Status
  <2> QED
    BY <2>1, <2>2 DEF Child, Branch
<1>3. \A k \in Goes : k \in 1 .. Parts
  BY DEF Goes
<1>4. Children = [i \in 1 .. n |-> Child(Continuing[i])]
  BY <1>1 DEF Children
<1> HIDE DEF n
<1>5. Children \in [1 .. n -> Branch]
  BY <1>1, <1>2, <1>3, <1>4
<1>6. Children \in Seq(Branch) /\ Len(Children) = n
  BY <1>1, <1>5, IsASeq
<1>7. \A i \in 1 .. n : Children[i] = Child(Continuing[i]) /\ Continuing[i] \in Goes
  BY <1>1, <1>4
<1>8. Distinct(Children)
  <2> SUFFICES ASSUME NEW i \in 1 .. n, NEW j \in 1 .. n, Children[i].id = Children[j].id
               PROVE  i = j
    BY <1>6 DEF Distinct
  <2>1. Child(Continuing[i]).id = <<active.partition, Continuing[i]>>
        /\ Child(Continuing[j]).id = <<active.partition, Continuing[j]>>
    BY DEF Child
  <2>2. Continuing[i] = Continuing[j]
    BY <1>7, <2>1
  <2> QED
    BY <1>1, <2>2
<1>9. ToSet(Children) = {Child(k) : k \in Goes}
  <2>1. \A k \in Goes : \E i \in DOMAIN Children : Children[i] = Child(k)
    BY <1>1, <1>5, <1>7
  <2>2. \A i \in DOMAIN Children : \E k \in Goes : Children[i] = Child(k)
    BY <1>5, <1>7
  <2> QED
    BY <2>1, <2>2 DEF ToSet
<1> QED
  BY <1>2, <1>6, <1>7, <1>8, <1>9

LEMMA EndedTyped ==
  ASSUME Typed, Control, Divisible, Divide
  PROVE  /\ Ended \in SUBSET (Name \X Ledger!Final) /\ IsFiniteSet(Ended)
         /\ Ended = {<<<<active.partition, k>>, read[k].reason>> : k \in (1 .. Parts) \ Goes}
<1> DEFINE E == (1 .. Parts) \ Goes
           f == [k \in E |-> <<Child(k).id, read[k].reason>>]
<1>1. E = {k \in 1 .. Parts : ~Continues(k)}
  BY DEF Goes
<1>2. \A k \in E : Child(k).id = <<active.partition, k>> /\ <<active.partition, k>> \in Name
  BY DivisionInputs, ManagerAssumption DEF Child, Name
<1>3. \A k \in E : read[k].reason \in Ledger!Final
  BY <1>1, DivisionInputs
<1>4. Ended = {<<Child(k).id, read[k].reason>> : k \in E}
  BY <1>1 DEF Ended
<1>5. IsFiniteSet(E)
  <2>1. IsFiniteSet(1 .. Parts)
    BY ManagerAssumption, FS_Interval
  <2> QED
    BY <2>1, FS_Subset
<1> HIDE DEF E
<1>6. f \in Surjection(E, Ended)
  BY <1>4 DEF Surjection
<1>7. IsFiniteSet(Ended)
  BY <1>5, <1>6, FS_Surjection
<1>8. Ended = {<<<<active.partition, k>>, read[k].reason>> : k \in E}
  BY <1>2, <1>4
<1>9. Ended \in SUBSET (Name \X Ledger!Final)
  BY <1>2, <1>3, <1>8
<1> QED
  BY <1>7, <1>8, <1>9 DEF E

LEMMA QueuedStack ==
  ASSUME Typed, Control, Divisible, Divide
  PROVE  LET q == Queued(Children) IN
         /\ q \in Seq(Branch)
         /\ ToSet(q) = ToSet(disk.stack) \cup {Child(k) : k \in Goes}
         /\ (\A i \in 1 .. Len(disk.stack) : disk.stack[i].id[1] # active.partition)
            /\ Distinct(disk.stack) => Distinct(q)
<1> DEFINE s == disk.stack
           c == Children
           r == Reverse(c)
<1>1. s \in Seq(Branch) /\ c \in Seq(Branch)
  BY ChildrenListed DEF Typed, Manifest
<1>2. /\ r \in Seq(Branch) /\ Len(r) = Len(c)
      /\ ToSet(r) = {Child(k) : k \in Goes}
      /\ Distinct(r)
      /\ \A i \in 1 .. Len(c) : r[i] = c[(Len(c) - i) + 1]
  BY <1>1, ChildrenListed, ReverseSeq
<1>3. \A i \in 1 .. Len(r) : r[i].id[1] = active.partition
  <2> SUFFICES ASSUME NEW i \in 1 .. Len(c) PROVE r[i].id[1] = active.partition
    BY <1>2
  <2>1. r[i] = c[(Len(c) - i) + 1] /\ (Len(c) - i) + 1 \in 1 .. Len(c)
    BY <1>1, <1>2
  <2>2. PICK k \in Goes : c[(Len(c) - i) + 1] = Child(k)
    BY <2>1, ChildrenListed
  <2> QED
    BY <2>1, <2>2 DEF Child
<1>4. Queued(c) = IF disk.traversal = "dfs" THEN s \o r ELSE r \o s
  BY DEF Queued
<1> HIDE DEF s, c, r
<1>5. \A q : (q = s \o r \/ q = r \o s) =>
        /\ q \in Seq(Branch)
        /\ ToSet(q) = ToSet(s) \cup ToSet(r)
        /\ (\A i \in 1 .. Len(s) : s[i].id[1] # active.partition) /\ Distinct(s) => Distinct(q)
  <2>1. (\A i \in 1 .. Len(s) : s[i].id[1] # active.partition) =>
          /\ \A i \in 1 .. Len(s), j \in 1 .. Len(r) : s[i].id # r[j].id
          /\ \A i \in 1 .. Len(r), j \in 1 .. Len(s) : r[i].id # s[j].id
    BY <1>3
  <2>2. /\ s \o r \in Seq(Branch) /\ ToSet(s \o r) = ToSet(s) \cup ToSet(r)
        /\ Distinct(s) /\ (\A i \in 1 .. Len(s), j \in 1 .. Len(r) : s[i].id # r[j].id)
             => Distinct(s \o r)
    BY <1>1, <1>2, ConcatSeq
  <2>3. /\ r \o s \in Seq(Branch) /\ ToSet(r \o s) = ToSet(s) \cup ToSet(r)
        /\ Distinct(s) /\ (\A i \in 1 .. Len(r), j \in 1 .. Len(s) : r[i].id # s[j].id)
             => Distinct(r \o s)
    BY <1>1, <1>2, ConcatSeq
  <2> QED
    BY <2>1, <2>2, <2>3
<1> QED
  BY <1>2, <1>4, <1>5 DEF s, c

LEMMA Division ==
  ASSUME Typed, Control, Divisible, Divide
  PROVE  /\ Closes(disk', disk, branch.depth + 1, Ended)
         /\ disk'.stack = Queued(Children) /\ disk'.active = None
         /\ IF \E r \in Ended : r[2] = "completion"
            THEN disk'.state = "complete" /\ disk'.outcome = "completion"
            ELSE disk'.state = "running" /\ disk'.outcome = "none"
<1> DEFINE t == Closing(disk, branch.depth + 1, Ended)
           completion == \E r \in Ended : r[2] = "completion"
<1>1. /\ Closes(t, disk, branch.depth + 1, Ended)
      /\ t.state = disk.state /\ t.outcome = disk.outcome
      /\ t.active = disk.active /\ t.stack = disk.stack
  BY EndedTyped, Closings DEF Typed
<1>2. disk' = [t EXCEPT !.stack = Queued(Children), !.active = None,
                   !.state = IF completion THEN "complete" ELSE t.state,
                   !.outcome = IF completion THEN "completion" ELSE t.outcome]
  BY DEF Divide
<1>3. disk.state = "running" /\ disk.outcome = "none"
  BY DivisionInputs
<1>4. Queued(Children) \in Seq(Branch)
  BY QueuedStack
<1> HIDE DEF t, completion
<1>5. CASE completion
  <2>1. disk' = [t EXCEPT !.stack = Queued(Children), !.active = None,
                          !.state = "complete", !.outcome = "completion"]
    BY <1>2, <1>5
  <2> QED
    BY <1>1, <1>4, <1>5, <2>1 DEF Closes, Manifest, completion
<1>6. CASE ~completion
  <2>1. disk' = [t EXCEPT !.stack = Queued(Children), !.active = None,
                          !.state = "running", !.outcome = "none"]
    BY <1>1, <1>2, <1>3, <1>6
  <2> QED
    BY <1>1, <1>4, <1>6, <2>1 DEF Closes, Manifest, completion
<1> QED
  BY <1>5, <1>6

-----------------------------------------------------------------------------
\* The step leaves the search as it is: another state or setting, or an attempt
\* forgotten.
Bookkept ==
  /\ disk' \in Manifest
  /\ disk'.traversal = disk.traversal /\ disk'.stack = disk.stack
  /\ disk'.results = disk.results /\ disk'.outcome = disk.outcome
  /\ disk'.terminal = disk.terminal /\ disk'.completed = disk.completed
  /\ disk'.nextAttempt = disk.nextAttempt /\ disk'.nextPartition = disk.nextPartition
  /\ \/ disk'.active = disk.active
     \/ /\ disk.active \in Operation /\ disk'.active \in Operation
        /\ disk'.active.action = disk.active.action /\ disk'.active.branch = disk.active.branch
        /\ disk'.active.partition = disk.active.partition /\ disk'.active.attempt = None

LEMMA NewState ==
  ASSUME disk \in Manifest, NEW l \in {"running", "paused", "failed"}, disk' = [disk EXCEPT !.state = l]
  PROVE  Bookkept /\ disk'.state = l /\ disk'.retention = disk.retention /\ disk'.active = disk.active
  BY DEF Bookkept, Manifest

LEMMA NewRetention ==
  ASSUME disk \in Manifest, NEW r \in Retentions, disk' = [disk EXCEPT !.retention = r]
  PROVE  Bookkept /\ disk'.state = disk.state /\ disk'.retention = r /\ disk'.active = disk.active
  BY DEF Bookkept, Manifest

LEMMA ForgottenAttempt ==
  ASSUME NEW m \in Manifest, m.active \in Operation
  PROVE  LET t == [m EXCEPT !.active.attempt = None] IN
         /\ t \in Manifest /\ t.active \in Operation
         /\ t.state = m.state /\ t.retention = m.retention
         /\ t.traversal = m.traversal /\ t.stack = m.stack
         /\ t.results = m.results /\ t.outcome = m.outcome
         /\ t.terminal = m.terminal /\ t.completed = m.completed
         /\ t.nextAttempt = m.nextAttempt /\ t.nextPartition = m.nextPartition
         /\ t.active.action = m.active.action /\ t.active.branch = m.active.branch
         /\ t.active.partition = m.active.partition /\ t.active.attempt = None
  BY DEF Manifest, Operation

LEMMA DiskStates ==
  ASSUME Typed, DiskLow \/ Reclaimed \/ AfterExtension \/ ReapStatus \/ ReapSplit
  PROVE  /\ Bookkept /\ disk'.retention = disk.retention /\ disk'.active = disk.active
         /\ disk'.state \in {disk.state, "paused", "failed"}
<1>1. disk \in Manifest
  BY DEF Typed
<1>2. disk' = disk \/ \E l \in {"paused", "failed"} : disk' = [disk EXCEPT !.state = l]
  BY DEF DiskLow, Reclaimed, AfterExtension, ReapStatus, ReapSplit, Paused, Fail
<1>3. CASE disk' = disk
  BY <1>1, <1>3 DEF Bookkept
<1> QED
  BY <1>1, <1>2, <1>3, NewState

LEMMA DiskSettings ==
  ASSUME Typed, Resume \/ Archive \/ \E r \in Settable : Configure(r)
  PROVE  /\ Bookkept /\ disk'.state = disk.state /\ disk'.active = disk.active
         /\ disk'.retention = "keep" => disk.retention = "keep"
         /\ disk'.retention # "delete" => disk.retention # "delete"
<1>1. disk \in Manifest /\ disk.retention \in Retentions
  BY DEF Typed, Manifest
<1>2. \A r \in Settable : r \in Retentions /\ r # "keep" /\ {disk.retention, r} # {"delete", "archive"}
  BY DEF Settable
<1>3. PICK r \in Settable \cup {disk.retention} : disk' = [disk EXCEPT !.retention = r]
  BY DEF Resume, Archive, Configure
<1>4. r \in Retentions
  BY <1>1, <1>2
<1>5. Bookkept /\ disk'.state = disk.state /\ disk'.retention = r /\ disk'.active = disk.active
  BY <1>1, <1>3, <1>4, NewRetention
<1>6. r \in {"keep", "delete", "archive"}
  BY <1>4, ManagerAssumption
<1> QED
  BY <1>2, <1>3, <1>5, <1>6

LEMMA DiskBegin ==
  ASSUME Typed, Begin
  PROVE  /\ Bookkept /\ disk'.retention = disk.retention /\ disk'.state = "running"
         /\ active' = active \/ active.action = "extend"
<1> DEFINE forget == /\ active # None /\ active.action = "extend" /\ active.attempt # None
                     /\ <<0, active.attempt>> \notin DOMAIN status
           m == [disk EXCEPT !.state = "running"]
<1>1. disk \in Manifest /\ active = disk.active /\ disk.active \in Operation \cup {None}
  BY DEF Typed, Manifest, active
<1>2. disk' = [disk EXCEPT !.state = "running",
                 !.active = IF forget THEN [disk.active EXCEPT !.attempt = None] ELSE disk.active]
  BY <1>1 DEF Begin
<1>3. CASE ~forget
  <2>1. disk' = m
    BY <1>1, <1>2, <1>3 DEF Manifest
  <2> QED
    BY <1>1, <2>1, NewState DEF active
<1>4. CASE forget
  <2>1. disk' = [m EXCEPT !.active.attempt = None]
    BY <1>1, <1>2, <1>4 DEF Manifest
  <2>2. m \in Manifest /\ m.active \in Operation /\ m.active = disk.active
    BY <1>1, <1>4 DEF Manifest
  <2>3. /\ m.state = "running" /\ m.retention = disk.retention
        /\ m.traversal = disk.traversal /\ m.stack = disk.stack
        /\ m.results = disk.results /\ m.outcome = disk.outcome
        /\ m.terminal = disk.terminal /\ m.completed = disk.completed
        /\ m.nextAttempt = disk.nextAttempt /\ m.nextPartition = disk.nextPartition
    BY <1>1 DEF Manifest
  <2> HIDE DEF m
  <2> DEFINE t == [m EXCEPT !.active.attempt = None]
  <2>4. /\ t \in Manifest /\ t.active \in Operation
         /\ t.state = m.state /\ t.retention = m.retention
         /\ t.traversal = m.traversal /\ t.stack = m.stack
         /\ t.results = m.results /\ t.outcome = m.outcome
         /\ t.terminal = m.terminal /\ t.completed = m.completed
         /\ t.nextAttempt = m.nextAttempt /\ t.nextPartition = m.nextPartition
         /\ t.active.action = m.active.action /\ t.active.branch = m.active.branch
         /\ t.active.partition = m.active.partition /\ t.active.attempt = None
    BY <2>2, ForgottenAttempt
  <2>5. disk' = t
    BY <2>1
  <2> HIDE DEF t
  <2> QED
    BY <1>4, <2>2, <2>3, <2>4, <2>5 DEF Bookkept
<1> QED
  BY <1>3, <1>4

LEMMA DiskReapNothing ==
  ASSUME Typed, Control, ReapNothing
  PROVE  /\ Bookkept /\ disk'.retention = disk.retention
         /\ disk'.state \in {"running", "paused", "failed"}
         /\ disk'.state # "running" => pc' = "down"
<1>1. disk \in Manifest /\ disk.state = "running" /\ active = disk.active /\ disk.active \in Operation
  BY DEF Typed, active, ReapNothing, Control, Ready
<1> DEFINE t == [disk EXCEPT !.active.attempt = None]
<1>2. \/ disk' = t
      \/ \E l \in {"paused", "failed"} : disk' = [t EXCEPT !.state = l] /\ pc' = "down"
  BY DEF ReapNothing
<1>3. /\ t \in Manifest /\ t.active \in Operation
         /\ t.state = disk.state /\ t.retention = disk.retention
         /\ t.traversal = disk.traversal /\ t.stack = disk.stack
         /\ t.results = disk.results /\ t.outcome = disk.outcome
         /\ t.terminal = disk.terminal /\ t.completed = disk.completed
         /\ t.nextAttempt = disk.nextAttempt /\ t.nextPartition = disk.nextPartition
         /\ t.active.action = disk.active.action /\ t.active.branch = disk.active.branch
         /\ t.active.partition = disk.active.partition /\ t.active.attempt = None
  BY <1>1, ForgottenAttempt
<1> HIDE DEF t
<1>4. CASE disk' = t
  BY <1>1, <1>3, <1>4 DEF Bookkept
<1>5. ASSUME NEW l \in {"paused", "failed"}, disk' = [t EXCEPT !.state = l]
      PROVE  Bookkept /\ disk'.retention = disk.retention /\ disk'.state = l
  <2>1. /\ disk' \in Manifest /\ disk'.state = l /\ disk'.active = t.active
        /\ disk'.retention = t.retention /\ disk'.traversal = t.traversal /\ disk'.stack = t.stack
        /\ disk'.results = t.results /\ disk'.outcome = t.outcome
        /\ disk'.terminal = t.terminal /\ disk'.completed = t.completed
        /\ disk'.nextAttempt = t.nextAttempt /\ disk'.nextPartition = t.nextPartition
    BY <1>3, <1>5 DEF Manifest
  <2> QED
    BY <1>1, <1>3, <2>1 DEF Bookkept
<1> QED
  BY <1>1, <1>2, <1>3, <1>4, <1>5

LEMMA DiskAllocateAttempt ==
  ASSUME Typed, AllocateAttempt
  PROVE  /\ disk' \in Manifest /\ disk'.state = disk.state /\ disk'.retention = disk.retention
         /\ disk'.traversal = disk.traversal /\ disk'.stack = disk.stack
         /\ disk'.results = disk.results /\ disk'.outcome = disk.outcome
         /\ disk'.terminal = disk.terminal /\ disk'.completed = disk.completed
         /\ disk'.nextAttempt = disk.nextAttempt + 1 /\ disk'.nextPartition = disk.nextPartition
         /\ disk.active \in Operation /\ disk'.active \in Operation
         /\ disk.active.action = "extend" /\ disk'.active.action = "extend"
         /\ disk'.active.branch = disk.active.branch /\ disk'.active.attempt = disk.nextAttempt
<1>1. disk \in Manifest /\ disk.active \in Operation /\ disk.active.action = "extend"
  BY DEF Typed, Manifest, AllocateAttempt, Doing, active
<1> DEFINE a == [disk.active EXCEPT !.attempt = disk.nextAttempt]
<1>2. disk.nextAttempt \in Nat /\ disk.nextAttempt + 1 \in Nat \ {0}
  BY <1>1 DEF Manifest
<1>3. /\ a \in Operation /\ a.action = disk.active.action /\ a.branch = disk.active.branch
      /\ a.partition = disk.active.partition /\ a.attempt = disk.nextAttempt
  BY <1>1, <1>2 DEF Operation
<1>4. disk' = [disk EXCEPT !.active = a, !.nextAttempt = disk.nextAttempt + 1]
  BY <1>1 DEF AllocateAttempt, Manifest
<1> HIDE DEF a
<1> QED
  BY <1>1, <1>2, <1>3, <1>4 DEF Manifest

LEMMA DiskAllocatePartition ==
  ASSUME Typed, AllocatePartition
  PROVE  /\ disk' \in Manifest /\ disk'.state = disk.state /\ disk'.retention = disk.retention
         /\ disk'.traversal = disk.traversal /\ disk'.stack = disk.stack
         /\ disk'.results = disk.results /\ disk'.outcome = disk.outcome
         /\ disk'.terminal = disk.terminal /\ disk'.completed = disk.completed
         /\ disk'.nextAttempt = disk.nextAttempt /\ disk'.nextPartition = disk.nextPartition + 1
         /\ disk.active \in Operation /\ disk'.active \in Operation
         /\ disk.active.action = "split" /\ disk'.active.action = "split"
         /\ disk.active.partition = None
         /\ disk'.active.branch = disk.active.branch
         /\ disk'.active.partition = disk.nextPartition
         /\ disk'.active.attempt = disk.active.attempt
<1>1. disk \in Manifest /\ disk.active \in Operation /\ disk.active.action = "split"
      /\ disk.active.partition = None
  BY DEF Typed, Manifest, AllocatePartition, Doing, active
<1> DEFINE a == [disk.active EXCEPT !.partition = disk.nextPartition]
<1>2. disk.nextPartition \in Nat /\ disk.nextPartition + 1 \in Nat \ {0}
  BY <1>1 DEF Manifest
<1>3. /\ a \in Operation /\ a.action = disk.active.action /\ a.branch = disk.active.branch
      /\ a.attempt = disk.active.attempt /\ a.partition = disk.nextPartition
  BY <1>1, <1>2 DEF Operation
<1>4. disk' = [disk EXCEPT !.active = a, !.nextPartition = disk.nextPartition + 1]
  BY <1>1 DEF AllocatePartition, Manifest
<1> HIDE DEF a
<1> QED
  BY <1>1, <1>2, <1>3, <1>4 DEF Manifest

LEMMA DiskStart ==
  ASSUME Typed, StartBranch
  PROVE  LET s == disk.stack
             n == Len(disk.stack) IN
         /\ s \in Seq(Branch) /\ n \in Nat \ {0} /\ disk.active = None
         /\ disk' \in Manifest /\ disk'.state = disk.state /\ disk'.retention = disk.retention
         /\ disk'.traversal = disk.traversal
         /\ disk'.results = disk.results /\ disk'.outcome = disk.outcome
         /\ disk'.terminal = disk.terminal /\ disk'.completed = disk.completed
         /\ disk'.nextAttempt = disk.nextAttempt /\ disk'.nextPartition = disk.nextPartition
         /\ disk'.active \in Operation /\ disk'.active.action = "extend"
         /\ disk'.active.attempt = None /\ disk'.active.branch = s[n]
         /\ Len(disk'.stack) = n - 1 /\ \A i \in 1 .. n - 1 : disk'.stack[i] = s[i]
<1> DEFINE s == disk.stack
           n == Len(s)
<1>1. disk \in Manifest /\ s \in Seq(Branch) /\ s # <<>> /\ disk.active = None
  BY DEF Typed, Manifest, StartBranch, active
<1>2. n \in Nat \ {0} /\ s[n] \in Branch
  BY <1>1, EmptySeq, LenProperties, ElementOfSeq
<1>3. Front(s) \in Seq(Branch) /\ Len(Front(s)) = n - 1 /\ \A i \in 1 .. n - 1 : Front(s)[i] = s[i]
  BY <1>1, <1>2 DEF Front
<1>4. Extending(s[n]) \in Operation /\ Extending(s[n]).action = "extend"
      /\ Extending(s[n]).attempt = None /\ Extending(s[n]).branch = s[n]
  BY <1>2 DEF Extending, Operation
<1>5. disk' = [disk EXCEPT !.active = Extending(s[n]), !.stack = Front(s)]
  BY <1>1 DEF StartBranch, Last, Manifest
<1> HIDE DEF s, n
<1>6. /\ disk' \in Manifest /\ disk'.state = disk.state /\ disk'.retention = disk.retention
      /\ disk'.traversal = disk.traversal
      /\ disk'.results = disk.results /\ disk'.outcome = disk.outcome
      /\ disk'.terminal = disk.terminal /\ disk'.completed = disk.completed
      /\ disk'.nextAttempt = disk.nextAttempt /\ disk'.nextPartition = disk.nextPartition
      /\ disk'.active = Extending(s[n]) /\ disk'.stack = Front(s)
  BY <1>1, <1>3, <1>4, <1>5 DEF Manifest
<1> QED
  BY <1>1, <1>2, <1>3, <1>4, <1>6 DEF s, n

LEMMA DiskFinish ==
  ASSUME Typed, FinishIfDone
  PROVE  /\ disk.active = None /\ disk.stack = <<>>
         /\ disk' \in Manifest /\ disk'.state = "complete" /\ disk'.retention = disk.retention
         /\ disk'.traversal = disk.traversal /\ disk'.active = None /\ disk'.stack = <<>>
         /\ disk'.results = disk.results
         /\ disk'.terminal = disk.terminal /\ disk'.completed = disk.completed
         /\ disk'.nextAttempt = disk.nextAttempt /\ disk'.nextPartition = disk.nextPartition
         /\ disk'.outcome = IF disk.terminal["halt"] > 0 THEN "halt" ELSE "exhausted"
<1>1. disk \in Manifest /\ disk.active = None /\ disk.stack = <<>>
  BY DEF Typed, FinishIfDone, active
<1> DEFINE o == IF disk.terminal["halt"] > 0 THEN "halt" ELSE "exhausted"
<1>2. disk' = [disk EXCEPT !.state = "complete", !.outcome = o]
  BY DEF FinishIfDone
<1>3. o \in {"halt", "exhausted"}
  OBVIOUS
<1> HIDE DEF o
<1>4. /\ disk' \in Manifest /\ disk'.state = "complete" /\ disk'.retention = disk.retention
         /\ disk'.traversal = disk.traversal /\ disk'.active = None /\ disk'.stack = <<>>
         /\ disk'.results = disk.results
         /\ disk'.terminal = disk.terminal /\ disk'.completed = disk.completed
         /\ disk'.nextAttempt = disk.nextAttempt /\ disk'.nextPartition = disk.nextPartition
         /\ disk'.outcome = o
  BY <1>1, <1>2, <1>3 DEF Manifest
<1> QED
  BY <1>1, <1>4 DEF o

\* The actions that only read the manifest.
Idle ==
  \/ DiskOk \/ Boot \/ CommandDone \/ BeginExtension \/ Launch \/ BeginSplit \/ Materialize \/ AfterSplit
  \/ \E f \in Retired : ArchiveCopy(f) \/ ArchiveUnlink(f) \/ DeleteRetired(f)
  \/ Solve \/ Survive \/ SolverDie \/ Interrupt \/ Crash \/ UNCHANGED vars

LEMMA DiskIdle ==
  ASSUME Idle PROVE disk' = disk
  BY DEF Idle, DiskOk, Boot, CommandDone, BeginExtension, Launch, BeginSplit, Materialize, AfterSplit,
         ArchiveCopy, ArchiveUnlink, DeleteRetired, Solve, SolverSave, SolverReport, SolverExit,
         Survive, OrphanSave, OrphanReport, OrphanExit, SolverDie, Interrupt, Crash, vars, Quiet

\* The ones that only keep its books.
Booking ==
  \/ DiskLow \/ Reclaimed \/ AfterExtension \/ ReapStatus \/ ReapSplit \/ Commands \/ Begin \/ ReapNothing

\* What a step may do to the manifest.
LEMMA Steps ==
  ASSUME [Next]_vars
  PROVE  \/ Idle \/ Booking \/ AllocateAttempt \/ AllocatePartition \/ StartBranch \/ FinishIfDone
         \/ Consume \/ Divide
  BY DEF Next, Run, Commands, Trouble, Idle, Booking

LEMMA DiskBooking ==
  ASSUME Typed, Control, Idle \/ Booking
  PROVE  /\ Bookkept
         /\ disk'.retention = "keep" => disk.retention = "keep"
         /\ disk'.retention # "delete" => disk.retention # "delete"
<1>1. CASE Idle
  BY <1>1, DiskIdle DEF Bookkept, Typed
<1>2. CASE Booking
  BY <1>2, DiskStates, DiskSettings, DiskBegin, DiskReapNothing DEF Booking, Commands
<1> QED
  BY <1>1, <1>2

LEMMA DiskTyped ==
  ASSUME Typed, Control, Divisible, Reports, [Next]_vars
  PROVE  disk' \in Manifest
<1>1. CASE Idle \/ Booking
  BY <1>1, DiskBooking DEF Bookkept
<1>2. CASE AllocateAttempt
  BY <1>2, DiskAllocateAttempt
<1>3. CASE AllocatePartition
  BY <1>3, DiskAllocatePartition
<1>4. CASE StartBranch
  BY <1>4, DiskStart
<1>5. CASE FinishIfDone
  BY <1>5, DiskFinish
<1>6. CASE Consume
  BY <1>6, Consumption DEF Continued, Concluded, SameSearch, Closes
<1>7. CASE Divide
  BY <1>7, Division DEF Closes
<1> QED
  BY <1>1, <1>2, <1>3, <1>4, <1>5, <1>6, <1>7, Steps

-----------------------------------------------------------------------------
\* A process saves results of its operation.
LEMMA SavingSound ==
  ASSUME Typed, Reports, NEW p \in Process, NEW a, Ready(a), NEW q \in Saving(p, a)
  PROVE  /\ q \in Process /\ q.stage = "saved"
         /\ Sound(q.out, a.action = "extend")
         /\ a.action = "extend" /\ q.out.reason = "memory_cap" => disk.nextPartition <= MaxPartitions
<1> DEFINE results == IF a.action = "extend" THEN ExtensionResults(p, a) ELSE PartResults(p, a)
<1>1. PICK out \in results : q = [p EXCEPT !.stage = "saved", !.out = out]
  BY DEF Saving
<1>2. a \in Operation /\ a.branch.id \in Name /\ a.branch.height \in Nat /\ p.part \in Nat
  BY DEF Ready, Operation, Branch, Process
<1>3. /\ Sound(out, a.action = "extend")
      /\ a.action = "extend" /\ out.reason = "memory_cap" => disk.nextPartition <= MaxPartitions
  <2>1. CASE a.action = "extend"
    <3>1. PICK r, h, c : /\ out = Result(r, h, c) /\ h \in Nat
                         /\ \/ c = <<0, a.branch.id, h>>
                            \/ c = None /\ r = "interrupted"
                         /\ r \in {"exhausted", "halt", "completion", "interrupted", "memory_cap"}
                         /\ r = "memory_cap" => disk.nextPartition <= MaxPartitions
      <4>1. MaxHeight \in Nat
        BY ManagerAssumption
      <4> DEFINE rows == a.branch.height .. MaxHeight
                 capped == IF disk.nextPartition <= MaxPartitions
                           THEN a.branch.height .. (MaxHeight - 1) ELSE {}
                 reasons == {"exhausted", "halt", "completion"} \cup
                            (IF p.flag THEN {"interrupted"} ELSE {})
      <4>2. /\ \A h \in rows : h \in Nat
            /\ \A h \in capped : h \in Nat /\ disk.nextPartition <= MaxPartitions
        BY <1>2, <4>1
      <4>3. reasons \subseteq {"exhausted", "halt", "completion", "interrupted"}
        OBVIOUS
      <4>4. \/ out \in {Result(r, h, <<0, a.branch.id, h>>) : r \in reasons, h \in rows}
            \/ out \in {Result("memory_cap", h, <<0, a.branch.id, h>>) : h \in capped}
            \/ out = Result("interrupted", a.branch.height, None)
        BY <1>1, <2>1 DEF ExtensionResults
      <4> HIDE DEF rows, capped, reasons
      <4>5. CASE out \in {Result(r, h, <<0, a.branch.id, h>>) : r \in reasons, h \in rows}
        <5>1. PICK r \in reasons, h \in rows : out = Result(r, h, <<0, a.branch.id, h>>)
          BY <4>5
        <5>2. r \in {"exhausted", "halt", "completion", "interrupted"} /\ h \in Nat
          BY <4>2, <4>3
        <5> QED
          BY <5>1, <5>2
      <4>6. CASE out \in {Result("memory_cap", h, <<0, a.branch.id, h>>) : h \in capped}
        BY <4>2, <4>6
      <4>7. CASE out = Result("interrupted", a.branch.height, None)
        BY <1>2, <4>7
      <4> QED
        BY <4>4, <4>5, <4>6, <4>7
    <3>2. c \in Payload \cup {None} /\ (c = None => r = "interrupted")
      BY <1>2, <3>1, NoneAssumption DEF Payload
    <3> QED
      BY <2>1, <3>1, <3>2 DEF Sound, Result, Status, Reason
  <2>2. CASE a.action = "split"
    <3>1. a.partition \in Nat /\ <<a.partition, p.part>> \in Name
      BY <1>2, <2>2 DEF Ready, Name, Typed, Manifest
    <3>2. PICK r, h, c : /\ out = Result(r, h, c) /\ h \in Nat
                         /\ \/ c = <<a.partition, <<a.partition, p.part>>, h>>
                            \/ c = None /\ r = "interrupted"
                         /\ r \in Reason
      <4> DEFINE key == <<a.partition, p.part>>
                 reasons == IF key \in DOMAIN status /\ status[key].reason # "interrupted"
                            THEN {status[key].reason} ELSE {"row_limit", "exhausted", "completion"}
      <4>1. reasons \subseteq Reason
        BY DEF Typed, Status, Reason
      <4>2. out \in {Result(r, a.branch.height + 1, <<a.partition, key, a.branch.height + 1>>) : r \in reasons}
                    \cup {Result("interrupted", a.branch.height, None)}
        BY <1>1, <2>2 DEF PartResults
      <4> HIDE DEF reasons
      <4> QED
        BY <1>2, <4>1, <4>2 DEF Reason
    <3>3. c \in Payload \cup {None} /\ (c = None => r = "interrupted")
      BY <3>1, <3>2, NoneAssumption DEF Payload, Name
    <3> QED
      BY <2>2, <3>2, <3>3 DEF Sound, Result, Status
  <2> QED
    BY <1>2, <2>1, <2>2 DEF Operation
<1>4. q \in Process /\ q.stage = "saved" /\ q.out = out
  <2>1. out \in Status
    BY <1>3 DEF Sound
  <2>2. [p EXCEPT !.stage = "saved", !.out = out] \in Process
    BY ONLY <2>1, ProcessTypes, p \in Process
  <2>3. q.stage = "saved" /\ q.out = out
    BY <1>1 DEF Process
  <2> QED
    BY <1>1, <2>2, <2>3
<1> QED
  BY <1>3, <1>4

\* Reporting adds one status to the others.
LEMMA Reporting ==
  ASSUME Typed, NEW p \in Process, NEW a, Ready(a), p.out \in Status
  PROVE  /\ StatusKey(p, a) \in Name
         /\ StatusKey(p, a)[1] = 0 <=> a.action = "extend"
         /\ a.action = "extend" => StatusKey(p, a) = <<0, a.attempt>>
         /\ DOMAIN Reported(p, a) = DOMAIN status \cup {StatusKey(p, a)}
         /\ \A k \in DOMAIN Reported(p, a) :
              Reported(p, a)[k] = IF k = StatusKey(p, a) THEN p.out ELSE status[k]
         /\ \A k \in DOMAIN Reported(p, a) : Reported(p, a)[k] \in Status
<1>1. a \in Operation /\ p.part \in Nat /\ disk.nextAttempt \in Nat /\ disk.nextPartition \in Nat
  BY DEF Ready, Process, Typed, Manifest
<1>4. StatusKey(p, a) \in Name /\ (StatusKey(p, a)[1] = 0 <=> a.action = "extend")
      /\ (a.action = "extend" => StatusKey(p, a) = <<0, a.attempt>>)
  <2>1. CASE a.action = "extend"
    <3>1. a.attempt \in Nat
      BY <1>1, <2>1 DEF Ready
    <3> QED
      BY <2>1, <3>1 DEF StatusKey, Name
  <2>2. CASE a.action = "split"
    <3>1. a.partition \in Nat \ {0}
      BY <1>1, <2>2 DEF Ready
    <3> QED
      BY <1>1, <2>2, <3>1 DEF StatusKey, Name
  <2> QED
    BY <1>1, <2>1, <2>2 DEF Operation
<1>5. /\ DOMAIN Reported(p, a) = DOMAIN status \cup {StatusKey(p, a)}
      /\ \A k \in DOMAIN Reported(p, a) :
              Reported(p, a)[k] = IF k = StatusKey(p, a) THEN p.out ELSE status[k]
  BY DEF Reported
<1> QED
  BY <1>4, <1>5 DEF Typed

LEMMA NextParting ==
  ASSUME NEW p \in Process, NEW a
  PROVE  /\ NextPart(p, a) \in Process
         /\ \/ NextPart(p, a).stage = "run"
            \/ NextPart(p, a).stage = "written" /\ NextPart(p, a).out = p.out
<1>1. CASE a.action = "split" /\ p.out.exit = 0 /\ p.part < Parts
  <2>1. p.part + 1 \in Nat
    BY DEF Process
  <2>2. NextPart(p, a) = Started(p.part + 1)
    BY <1>1 DEF NextPart
  <2>3. Started(p.part + 1) \in Process
    BY <2>1, ProcessTypes
  <2>4. Started(p.part + 1).stage = "run"
    BY DEF Started, NoProc
  <2> QED
    BY <2>2, <2>3, <2>4
<1>2. CASE ~(a.action = "split" /\ p.out.exit = 0 /\ p.part < Parts)
  <2>1. NextPart(p, a) = [p EXCEPT !.stage = "written"]
    BY <1>2 DEF NextPart
  <2> DEFINE q == [p EXCEPT !.stage = "written"]
  <2>2. q \in Process
    BY ProcessTypes
  <2>3. q.stage = "written" /\ q.out = p.out
    BY DEF Process
  <2> HIDE DEF q
  <2>4. NextPart(p, a) = q
    BY <2>1 DEF q
  <2> QED
    BY <2>2, <2>3, <2>4
<1> QED
  BY <1>1, <1>2

-----------------------------------------------------------------------------
\* Who writes what.
LEMMA StatusSteps ==
  ASSUME [Next]_vars
  PROVE  status' = status \/ SolverReport \/ OrphanReport
  BY DEF Next, Run, Solve, Survive, Commands, Trouble, vars, Quiet, DiskOk, DiskLow, Reclaimed, Boot,
         Begin, ArchiveCopy, ArchiveUnlink, DeleteRetired, CommandDone, StartBranch, FinishIfDone,
         AllocateAttempt, BeginExtension, Launch, ReapNothing, ReapStatus, Consume, AfterExtension,
         AllocatePartition, BeginSplit, Materialize, ReapSplit, Divide, AfterSplit, SolverSave,
         SolverExit, OrphanSave, OrphanExit, Resume, Archive, Configure, SolverDie, Interrupt, Crash

LEMMA ProcSteps ==
  ASSUME [Next]_vars
  PROVE  \/ proc' = proc \/ proc' = NoProc
         \/ (Launch \/ Materialize) /\ proc' = Started(1)
         \/ SolverSave \/ SolverReport \/ SolverExit \/ SolverDie \/ Interrupt
  BY DEF Next, Run, Solve, Survive, Commands, Trouble, vars, Quiet, DiskOk, DiskLow, Reclaimed, Boot,
         Begin, ArchiveCopy, ArchiveUnlink, DeleteRetired, CommandDone, StartBranch, FinishIfDone,
         AllocateAttempt, BeginExtension, Launch, ReapNothing, ReapStatus, Consume, AfterExtension,
         AllocatePartition, BeginSplit, Materialize, ReapSplit, Divide, AfterSplit,
         OrphanSave, OrphanReport, OrphanExit, Resume, Archive, Configure, Crash

LEMMA OrphanSteps ==
  ASSUME [Next]_vars
  PROVE  \/ orphan' = orphan \/ orphan' = NoOrphan
         \/ /\ Crash /\ orphan' = [proc |-> proc, of |-> active] /\ proc.stage \in {"run", "saved"}
         \/ OrphanSave \/ OrphanReport
  BY DEF Next, Run, Solve, Survive, Commands, Trouble, vars, Quiet, DiskOk, DiskLow, Reclaimed, Boot,
         Begin, ArchiveCopy, ArchiveUnlink, DeleteRetired, CommandDone, StartBranch, FinishIfDone,
         AllocateAttempt, BeginExtension, Launch, ReapNothing, ReapStatus, Consume, AfterExtension,
         AllocatePartition, BeginSplit, Materialize, ReapSplit, Divide, AfterSplit, SolverSave,
         SolverReport, SolverExit, OrphanExit, Resume, Archive, Configure, SolverDie, Interrupt, Crash

LEMMA FileSteps ==
  ASSUME [Next]_vars
  PROVE  \/ files' = files /\ archive \subseteq archive'
         \/ \E f \in Retired : /\ files' = files \ {f} /\ archive' = archive
                               /\ \/ disk.retention = "delete"
                                  \/ f \in archive /\ pc \in {"reclaim", "archive"}
                               /\ disk' = disk /\ status' = status
                               /\ pc' = pc /\ then' = then /\ proc' = proc /\ orphan' = orphan
                               /\ read' = read
         \/ SolverSave \/ OrphanSave
  BY DEF Next, Run, Solve, Survive, Commands, Trouble, vars, Quiet, DiskOk, DiskLow, Reclaimed, Boot,
         Begin, ArchiveCopy, ArchiveUnlink, DeleteRetired, CommandDone, StartBranch, FinishIfDone,
         AllocateAttempt, BeginExtension, Launch, ReapNothing, ReapStatus, Consume, AfterExtension,
         AllocatePartition, BeginSplit, Materialize, ReapSplit, Divide, AfterSplit,
         SolverReport, SolverExit, OrphanReport, OrphanExit, Resume, Archive, Configure, SolverDie,
         Interrupt, Crash

LEMMA LabelSteps ==
  ASSUME [Next]_vars, pc \in Label, then \in {"loop", "launch", "materialize", "divide"}, noted \in BOOLEAN
  PROVE  pc' \in Label /\ then' \in {"loop", "launch", "materialize", "divide"} /\ noted' \in BOOLEAN
  BY DEF Next, Run, Solve, Survive, Commands, Trouble, vars, Quiet, DiskOk, DiskLow, Reclaimed, Boot,
         Begin, ArchiveCopy, ArchiveUnlink, DeleteRetired, CommandDone, StartBranch, FinishIfDone,
         AllocateAttempt, BeginExtension, Launch, ReapNothing, ReapStatus, Consume, AfterExtension,
         AllocatePartition, BeginSplit, Materialize, ReapSplit, Divide, AfterSplit, SolverSave,
         SolverReport, SolverExit, OrphanSave, OrphanReport, OrphanExit, Resume, Archive, Configure,
         SolverDie, Interrupt, Crash, Label

-----------------------------------------------------------------------------
\* While there is a process, its manager waits for it.
LEMMA Attended ==
  ASSUME Typed, Control, proc.stage # "none"
  PROVE  pc = "wait" /\ Ready(active) /\ active \in Operation /\ disk.state = "running"
  BY DEF Control, Ready

LEMMA StatusTyped ==
  ASSUME Typed, Control, Reports, [Next]_vars
  PROVE  DOMAIN status' \subseteq Name /\ \A k \in DOMAIN status' : status'[k] \in Status
<1>1. CASE status' = status
  BY <1>1 DEF Typed
<1>2. CASE SolverReport
  <2>1. proc \in Process /\ Ready(active) /\ proc.out \in Status
    BY <1>2, Attended DEF SolverReport, Typed, Reports, Sound
  <2>2. status' = Reported(proc, active)
    BY <1>2 DEF SolverReport
  <2>3. /\ StatusKey(proc, active) \in Name
        /\ DOMAIN Reported(proc, active) = DOMAIN status \cup {StatusKey(proc, active)}
        /\ \A k \in DOMAIN Reported(proc, active) : Reported(proc, active)[k] \in Status
    BY <2>1, Reporting
  <2>4. DOMAIN status \subseteq Name
    BY DEF Typed
  <2> QED
    BY <2>2, <2>3, <2>4
<1>3. CASE OrphanReport
  <2>1. orphan.proc \in Process /\ Ready(orphan.of) /\ orphan.proc.out \in Status
    BY <1>3 DEF OrphanReport, Typed, Reports, Sound
  <2>2. status' = Reported(orphan.proc, orphan.of)
    BY <1>3 DEF OrphanReport
  <2>3. /\ StatusKey(orphan.proc, orphan.of) \in Name
        /\ DOMAIN Reported(orphan.proc, orphan.of) = DOMAIN status \cup {StatusKey(orphan.proc, orphan.of)}
        /\ \A k \in DOMAIN Reported(orphan.proc, orphan.of) : Reported(orphan.proc, orphan.of)[k] \in Status
    BY <2>1, Reporting
  <2>4. DOMAIN status \subseteq Name
    BY DEF Typed
  <2> QED
    BY <2>2, <2>3, <2>4
<1> QED
  BY <1>1, <1>2, <1>3, StatusSteps

LEMMA ProcTyped ==
  ASSUME Typed, Control, Reports, [Next]_vars
  PROVE  proc' \in Process
<1>1. proc \in Process
  BY DEF Typed
<1>2. CASE proc' = proc \/ proc' = NoProc \/ proc' = Started(1)
  BY <1>1, <1>2, ProcessTypes
<1>3. CASE SolverSave
  BY <1>1, <1>3, Attended, SavingSound DEF SolverSave
<1>4. CASE SolverReport
  BY <1>1, <1>4, NextParting DEF SolverReport
<1>5. CASE SolverExit
  <2> DEFINE rc == IF proc.stage = "written" THEN proc.out.exit ELSE 1
  <2>1. proc' = [proc EXCEPT !.stage = "exited", !.rc = rc]
    BY <1>5 DEF SolverExit
  <2>2. rc \in {0, 1, 130}
    BY <1>5 DEF SolverExit, Reports, Sound, Status
  <2> HIDE DEF rc
  <2> QED
    BY <1>1, <2>1, <2>2, ProcessTypes
<1>6. CASE SolverDie
  BY <1>1, <1>6, ProcessTypes DEF SolverDie
<1>7. CASE Interrupt
  BY <1>1, <1>7, ProcessTypes DEF Interrupt
<1> QED
  BY <1>2, <1>3, <1>4, <1>5, <1>6, <1>7, ProcSteps

LEMMA OrphanTyped ==
  ASSUME Typed, Control, Reports, [Next]_vars
  PROVE  orphan' \in [proc : Process, of : Operation \cup {None}]
<1>1. orphan \in [proc : Process, of : Operation \cup {None}] /\ proc \in Process
  BY DEF Typed
<1>0. NoOrphan \in [proc : Process, of : Operation \cup {None}]
  <2>1. NoProc \in Process
    BY ProcessTypes
  <2> QED
    BY <2>1 DEF NoOrphan
<1>2. CASE orphan' = orphan \/ orphan' = NoOrphan
  BY <1>0, <1>1, <1>2
<1>3. CASE Crash /\ orphan' = [proc |-> proc, of |-> active] /\ proc.stage \in {"run", "saved"}
  BY <1>1, <1>3, Attended
<1>4. CASE OrphanSave
  <2>1. Ready(orphan.of) /\ orphan.of \in Operation
    BY <1>4 DEF OrphanSave, Reports, Ready
  <2>2. PICK p \in Saving(orphan.proc, orphan.of) : orphan' = [orphan EXCEPT !.proc = p]
    BY <1>4 DEF OrphanSave
  <2>3. p \in Process
    BY <1>1, <2>1, SavingSound
  <2> QED
    BY <1>1, <2>2, <2>3
<1>5. CASE OrphanReport
  <2> DEFINE p == NextPart(orphan.proc, orphan.of)
  <2>1. p \in Process
    BY <1>1, NextParting
  <2>2. orphan' = [orphan EXCEPT !.proc = p] \/ orphan' = NoOrphan
    BY <1>5 DEF OrphanReport
  <2> HIDE DEF p
  <2> QED
    BY <1>0, <1>1, <2>1, <2>2
<1> QED
  BY <1>2, <1>3, <1>4, <1>5, OrphanSteps

LEMMA TypedStep ==
  ASSUME Typed, Control, Divisible, Reports, [Next]_vars
  PROVE  Typed'
<1>1. disk' \in Manifest
  BY DiskTyped
<1>2. pc' \in Label /\ then' \in {"loop", "launch", "materialize", "divide"} /\ noted' \in BOOLEAN
  BY LabelSteps DEF Typed
<1> QED
  BY <1>1, <1>2, StatusTyped, ProcTyped, OrphanTyped DEF Typed

-----------------------------------------------------------------------------
IInv ==
  /\ Typed /\ Control /\ Noted /\ Reports /\ Divisible /\ Naming /\ Capped /\ Ordered
  /\ LiveKept /\ Held /\ NothingLost /\ Kept

\* An operation that is about to be started or concluded has a number below the next.
LEMMA Numbered ==
  ASSUME Typed, Naming, Capped, active # None
  PROVE  /\ active \in Operation /\ active = disk.active /\ branch \in Branch
         /\ active.action = "extend" /\ active.attempt # None => Ready(active)
         /\ active.action = "split" /\ active.partition # None => Ready(active)
<1>1. active \in Operation /\ active = disk.active /\ branch \in Branch
  BY DEF Typed, Manifest, active, branch, Operation
<1>2. disk.nextAttempt \in Nat /\ disk.nextPartition \in Nat /\ MaxPartitions \in Nat
  BY ManagerAssumption DEF Typed, Manifest
<1>3. active.action = "extend" /\ active.attempt # None => Ready(active)
  BY <1>1, <1>2 DEF Capped, Ready, Operation
<1>4. active.action = "split" /\ active.partition # None => Ready(active)
  BY <1>1, <1>2 DEF Naming, Ready, Partition
<1> QED
  BY <1>1, <1>3, <1>4

\* The state of the manifest and the outcome agree after every step.
LEMMA OutcomeStep ==
  ASSUME Typed, Control, Divisible, Reports, [Next]_vars
  PROVE  disk'.state = "complete" <=> disk'.outcome # "none"
<1>1. disk.state = "complete" <=> disk.outcome # "none"
  BY DEF Control
<1>2. CASE Idle
  BY <1>1, <1>2, DiskIdle
<1>3. CASE Booking
  <2>1. disk'.outcome = disk.outcome
    BY <1>3, DiskBooking DEF Bookkept
  <2>2. disk'.state = disk.state \/ (disk.state # "complete" /\ disk'.state # "complete")
    <3>1. CASE DiskLow \/ Reclaimed \/ AfterExtension \/ ReapStatus \/ ReapSplit
      <4>1. disk.state = "running" \/ disk' = disk
        BY <3>1 DEF Control, DiskLow, Reclaimed, AfterExtension, ReapStatus, ReapSplit
      <4> QED
        BY <3>1, <4>1, DiskStates
    <3>4. CASE Commands
      BY <3>4, DiskSettings DEF Commands
    <3>2. CASE Begin
      BY <3>2, DiskBegin DEF Control, Begin
    <3>3. CASE ReapNothing
      BY <3>3, DiskReapNothing DEF Control, ReapNothing
    <3> QED
      BY <1>3, <3>1, <3>2, <3>3, <3>4 DEF Booking
  <2> QED
    BY <1>1, <2>1, <2>2
<1>4. CASE AllocateAttempt
  BY <1>1, <1>4, DiskAllocateAttempt
<1>5. CASE AllocatePartition
  BY <1>1, <1>5, DiskAllocatePartition
<1>6. CASE StartBranch
  BY <1>1, <1>6, DiskStart
<1>7. CASE FinishIfDone
  BY <1>7, DiskFinish
<1>8. CASE Consume
  <2> DEFINE s == status[<<0, active.attempt>>]
  <2>1. disk.outcome = "none"
    BY <1>8, ConsumptionA
  <2>2. CASE Continued(s)
    BY <2>1, <2>2 DEF Continued, SameSearch
  <2>3. CASE Concluded(s)
    BY <2>3 DEF Concluded
  <2> QED
    BY <1>8, <2>2, <2>3, Consumption
<1>9. CASE Divide
  BY <1>9, Division
<1> QED
  BY <1>2, <1>3, <1>4, <1>5, <1>6, <1>7, <1>8, <1>9, Steps

LEMMA WaitStep ==
  ASSUME Typed, Control, [Next]_vars
  PROVE  proc'.stage # "none" => pc' = "wait"
<1>1. proc.stage # "none" => pc = "wait"
  BY DEF Control
<1>2. NoProc.stage = "none"
  BY DEF NoProc
<1>3. CASE pc = "wait"
  <2>1. pc' = "wait" \/ proc' = NoProc
    BY <1>3 DEF Next, Run, Solve, Survive, Commands, Trouble, vars, Quiet, DiskOk, DiskLow, Reclaimed,
         Boot, Begin, ArchiveCopy, ArchiveUnlink, DeleteRetired, CommandDone, StartBranch, FinishIfDone,
         AllocateAttempt, BeginExtension, Launch, ReapNothing, ReapStatus, Consume, AfterExtension,
         AllocatePartition, BeginSplit, Materialize, ReapSplit, Divide, AfterSplit, SolverSave, Doing,
         SolverReport, SolverExit, OrphanSave, OrphanReport, OrphanExit, Resume, Archive, Configure,
         SolverDie, Interrupt, Crash, Sweeping
  <2> QED
    BY <1>2, <2>1
<1>4. CASE pc # "wait"
  <2>1. proc.stage = "none"
    BY <1>1, <1>4
  <2>2. \/ proc' = proc \/ proc' = NoProc
        \/ (Launch \/ Materialize) /\ proc' = Started(1)
    <3>1. ~SolverSave /\ ~SolverReport /\ ~SolverExit /\ ~SolverDie /\ ~Interrupt
      BY <2>1 DEF SolverSave, SolverReport, SolverExit, SolverDie, Interrupt, Working
    <3>2. \/ proc' = proc \/ proc' = NoProc
          \/ (Launch \/ Materialize) /\ proc' = Started(1)
          \/ SolverSave \/ SolverReport \/ SolverExit \/ SolverDie \/ Interrupt
      BY ProcSteps
    <3> QED
      BY <3>1, <3>2, Zenon
  <2>3. (Launch /\ proc' = Started(1)) => pc' = "wait"
    <3>1. Started(1).stage = "run" /\ NoProc.stage = "none"
      BY DEF Started, NoProc
    <3> QED
      BY <2>1, <3>1 DEF Launch
  <2>4. Materialize => pc' = "wait"
    BY DEF Materialize
  <2> QED
    BY <1>2, <2>1, <2>2, <2>3, <2>4
<1> QED
  BY <1>3, <1>4

\* What Control says of the manager's place, as it is after a step that keeps the
\* active operation: the rest of Control has lemmas of its own.
Placed ==
  /\ pc = "begin" => disk.state # "complete"
  /\ pc \in {"check", "reclaim", "loop", "launch", "wait", "consume", "materialize", "divide"}
       => disk.state = "running"
  /\ At("launch") \/ At("materialize") \/ At("divide") \/ pc \in {"wait", "consume"}
       => Ready(active)
  /\ At("launch") \/ pc = "consume" => active.action = "extend"
  /\ At("materialize") \/ At("divide") => active.action = "split"
  /\ pc = "consume" => <<0, active.attempt>> \in DOMAIN status

\* Away from the launches there is nothing to keep.
LEMMA Elsewhere ==
  ASSUME \/ pc' \in {"consumed", "divided", "down", "boot", "configured", "archive"}
         \/ pc' = "begin" /\ disk'.state # "complete"
         \/ pc' = "loop" /\ disk'.state = "running"
         \/ pc' \in {"check", "reclaim"} /\ then' = "loop" /\ disk'.state = "running"
  PROVE  Placed'
  BY DEF Placed, At

LEMMA SamePlace ==
  ASSUME Placed, disk' = disk, pc' = pc, then' = then, DOMAIN status \subseteq DOMAIN status'
  PROVE  Placed'
  BY DEF Placed, At, Ready, active

LEMMA PlacedStep ==
  ASSUME IInv, [Next]_vars
  PROVE  Placed'
<1> USE DEF IInv
<1>1. Placed
  BY DEF Placed, Control
<1>2. CASE DiskLow \/ Reclaimed \/ DiskOk
  <2>1. disk'.state = "running" \/ pc' = "down"
    BY <1>1, <1>2 DEF DiskLow, Reclaimed, DiskOk, Placed
  <2>2. pc' = "down" \/ disk' = disk
    BY <1>2 DEF DiskLow, Reclaimed, DiskOk
  <2>3. CASE pc' = "down"
    BY <2>3, Elsewhere
  <2>4. CASE pc' # "down"
    <3>1. then \in {"loop", "launch", "materialize", "divide"}
      BY DEF Typed
    <3>2. status' = status /\ disk' = disk
      BY <1>2, <2>2, <2>4 DEF DiskLow, Reclaimed, DiskOk
    <3>3. CASE DiskOk
      BY <1>1, <3>1, <3>2, <3>3 DEF DiskOk, Placed, At, Ready, active
    <3>4. CASE DiskLow
      BY <1>1, <2>4, <3>1, <3>2, <3>4 DEF DiskLow, Placed, At, Ready, active
    <3>5. CASE Reclaimed
      BY <1>1, <2>4, <3>1, <3>2, <3>5 DEF Reclaimed, Placed, At, Ready, active
    <3> QED
      BY <1>2, <3>3, <3>4, <3>5
  <2> QED
    BY <2>3, <2>4
<1>3. CASE Boot \/ CommandDone \/ Crash \/ Commands
  BY <1>3, Elsewhere DEF Boot, CommandDone, Crash, Commands, Resume, Archive, Configure
<1>4. CASE AfterExtension \/ AfterSplit
  BY <1>4, Elsewhere DEF AfterExtension, AfterSplit, Quiet
<1>5. CASE Begin
  BY <1>5, DiskBegin, Elsewhere DEF Begin
<1>6. CASE ReapNothing
  <2>1. pc' = "down" \/ (pc' = "check" /\ then' = "loop")
    BY <1>6 DEF ReapNothing
  <2> QED
    BY <1>6, <2>1, DiskReapNothing, Elsewhere
<1>7. CASE ReapStatus
  BY <1>1, <1>7, Elsewhere DEF ReapStatus, Placed, At, Ready, active
<1>8. CASE ReapSplit
  BY <1>1, <1>8, Elsewhere DEF ReapSplit, Placed, At, Ready, active
<1>9. CASE BeginExtension
  <2>1. Ready(active) /\ active.action = "extend" /\ disk.state = "running"
    BY <1>9, Numbered DEF BeginExtension, Doing, Control
  <2> QED
    BY <1>9, <2>1 DEF BeginExtension, Placed, At, Ready, active, Quiet
<1>10. CASE BeginSplit
  <2>1. Ready(active) /\ active.action = "split" /\ disk.state = "running"
    BY <1>10, Numbered DEF BeginSplit, Doing, Control
  <2> QED
    BY <1>10, <2>1 DEF BeginSplit, Placed, At, Ready, active
<1>11. CASE Launch \/ Materialize
  BY <1>1, <1>11 DEF Launch, Materialize, Placed, At, Ready, active
<1>12. CASE AllocateAttempt \/ AllocatePartition \/ StartBranch
  <2>1. disk'.state = "running"
    BY <1>12, DiskAllocateAttempt, DiskAllocatePartition, DiskStart
       DEF AllocateAttempt, AllocatePartition, StartBranch, Doing, Control
  <2>2. pc' = "loop"
    BY <1>12 DEF AllocateAttempt, AllocatePartition, StartBranch, Doing
  <2> QED
    BY <2>1, <2>2, Elsewhere
<1>13. CASE FinishIfDone \/ Consume \/ Divide
  BY <1>13, Elsewhere DEF FinishIfDone, Consume, Divide
<1>14. CASE \/ Solve \/ Survive \/ SolverDie \/ Interrupt \/ UNCHANGED vars
            \/ \E f \in Retired : ArchiveCopy(f) \/ ArchiveUnlink(f) \/ DeleteRetired(f)
  <2>1. disk' = disk /\ pc' = pc /\ then' = then
    BY <1>14 DEF ArchiveCopy, ArchiveUnlink, DeleteRetired, Solve, SolverSave, SolverReport, SolverExit,
         Survive, OrphanSave, OrphanReport, OrphanExit, SolverDie, Interrupt, vars
  <2>2. DOMAIN status \subseteq DOMAIN status'
    BY StatusSteps DEF SolverReport, OrphanReport, Reported
  <2> QED
    BY <1>1, <2>1, <2>2, SamePlace
<1> QED
  BY <1>2, <1>3, <1>4, <1>5, <1>6, <1>7, <1>8, <1>9, <1>10, <1>11, <1>12, <1>13, <1>14
     DEF Next, Run, Trouble

LEMMA ControlStep ==
  ASSUME IInv, [Next]_vars
  PROVE  Control'
  BY OutcomeStep, WaitStep, PlacedStep DEF IInv, Control, Placed

-----------------------------------------------------------------------------
LEMMA WaitKeeps ==
  ASSUME pc = "wait", [Next]_vars
  PROVE  proc' = NoProc \/ (disk' = disk /\ pc' = pc)
  BY DEF Next, Run, Solve, Survive, Commands, Trouble, vars, Quiet, DiskOk, DiskLow, Reclaimed, Boot,
         Begin, ArchiveCopy, ArchiveUnlink, DeleteRetired, CommandDone, StartBranch, FinishIfDone,
         AllocateAttempt, BeginExtension, Launch, ReapNothing, ReapStatus, Consume, AfterExtension,
         AllocatePartition, BeginSplit, Materialize, ReapSplit, Divide, AfterSplit, SolverSave,
         SolverReport, SolverExit, OrphanSave, OrphanReport, OrphanExit, Resume, Archive, Configure,
         SolverDie, Interrupt, Crash, Doing, Sweeping

LEMMA NotedStep ==
  ASSUME Noted, Control, Typed, [Next]_vars
  PROVE  Noted'
<1>1. CASE AfterExtension
  BY <1>1 DEF AfterExtension, Quiet, Noted, Typed, Paused
<1>2. CASE ReapNothing \/ ReapStatus \/ ReapSplit
  BY <1>2 DEF ReapNothing, ReapStatus, ReapSplit, Noted
<1>3. CASE Consume
  BY <1>3 DEF Consume, Quiet, Noted
<1>4. CASE ~AfterExtension /\ ~ReapNothing /\ ~ReapStatus /\ ~ReapSplit /\ ~Consume
  BY <1>4 DEF Noted, Next, Run, Solve, Survive, Commands, Trouble, vars, Quiet, DiskOk, DiskLow, 
         Reclaimed, Boot, Begin, ArchiveCopy, ArchiveUnlink, DeleteRetired, CommandDone, 
         StartBranch, FinishIfDone, AllocateAttempt, BeginExtension, Launch, 
         AllocatePartition, BeginSplit, Materialize, Divide, AfterSplit, SolverSave, 
         SolverReport, SolverExit, OrphanSave, OrphanReport, OrphanExit, Resume, Archive, 
         Configure, SolverDie, Interrupt, Crash, Doing
<1> QED
  BY <1>1, <1>2, <1>3, <1>4

LEMMA DivideSteps ==
  ASSUME [Next]_vars, At("divide")', Typed
  PROVE  \/ BeginSplit \/ ReapSplit
         \/ At("divide") /\ read' = read /\ disk' = disk
<1>1. CASE Idle
  BY <1>1 DEF At, Idle, Solve, Survive, Commands, Trouble, vars, Quiet, DiskOk, DiskLow, Reclaimed, Boot, 
         Begin, ArchiveCopy, ArchiveUnlink, DeleteRetired, CommandDone, StartBranch, 
         FinishIfDone, AllocateAttempt, BeginExtension, Launch, ReapNothing, ReapStatus, 
         Consume, AfterExtension, AllocatePartition, Materialize, ReapSplit, Divide, 
         AfterSplit, SolverSave, SolverReport, SolverExit, OrphanSave, OrphanReport, 
         OrphanExit, Resume, Archive, Configure, SolverDie, Interrupt, Crash, Doing
<1>2. CASE Booking
  BY <1>2 DEF At, Booking, Commands, DiskLow, Reclaimed, AfterExtension, ReapStatus, Resume, Archive,
         Configure, Begin, ReapNothing, Quiet
<1>3. CASE AllocateAttempt \/ AllocatePartition \/ StartBranch \/ FinishIfDone \/ Consume \/ Divide
  BY <1>3 DEF At, AllocateAttempt, AllocatePartition, StartBranch, FinishIfDone, Consume, Divide, Doing
<1> QED
  BY <1>1, <1>2, <1>3, Steps

LEMMA DivisibleStep ==
  ASSUME IInv, [Next]_vars
  PROVE  Divisible'
<1> SUFFICES ASSUME At("divide")' PROVE
      /\ read' \in [1 .. Parts -> Status]
      /\ \A k \in 1 .. Parts :
         /\ read'[k].reason # "interrupted"
         /\ read'[k].checkpoint = <<active'.partition, <<active'.partition, k>>, branch'.height + 1>>
  BY DEF Divisible
<1>1. CASE At("divide") /\ read' = read /\ disk' = disk
  BY <1>1 DEF IInv, Divisible, active, branch
<1>2. CASE BeginSplit \/ ReapSplit
  <2>1. Materialized /\ read' = Parted /\ disk' = disk
    BY <1>2 DEF BeginSplit, ReapSplit, At
  <2>2. \A k \in 1 .. Parts : PartDone(k)
    BY <2>1 DEF Materialized
  <2>3. \A k \in 1 .. Parts : Parted[k] \in Status
    BY <2>2 DEF PartDone, Parted, IInv, Typed
  <2>4. read' \in [1 .. Parts -> Status]
    BY <2>1, <2>3 DEF Parted
  <2>5. \A k \in 1 .. Parts :
         /\ read'[k].reason # "interrupted"
         /\ read'[k].checkpoint = <<active.partition, <<active.partition, k>>, branch.height + 1>>
    BY <2>1, <2>2 DEF PartDone, Parted
  <2> QED
    BY <2>1, <2>4, <2>5 DEF active, branch
<1> QED
  BY <1>1, <1>2, DivideSteps DEF IInv

-----------------------------------------------------------------------------
\* Attempts and partitions are numbered upwards.
LEMMA Numbers ==
  ASSUME Typed, Control, Divisible, Reports, [Next]_vars
  PROVE  /\ disk.nextAttempt \in Nat /\ disk'.nextAttempt \in Nat
         /\ disk.nextPartition \in Nat /\ disk'.nextPartition \in Nat
         /\ disk'.nextAttempt >= disk.nextAttempt /\ disk'.nextPartition >= disk.nextPartition
<1>1. disk.nextAttempt \in Nat /\ disk.nextPartition \in Nat
  BY DEF Typed, Manifest
<1>2. CASE Idle \/ Booking
  BY <1>1, <1>2, DiskBooking DEF Bookkept
<1>3. CASE AllocateAttempt
  BY <1>1, <1>3, DiskAllocateAttempt
<1>4. CASE AllocatePartition
  BY <1>1, <1>4, DiskAllocatePartition
<1>5. CASE StartBranch
  BY <1>1, <1>5, DiskStart
<1>6. CASE FinishIfDone
  BY <1>1, <1>6, DiskFinish
<1>7. CASE Consume
  <2>1. disk'.nextAttempt = disk.nextAttempt /\ disk'.nextPartition = disk.nextPartition
    BY <1>7, Consumption DEF Continued, SameSearch, Concluded, Closes
  <2> QED
    BY <1>1, <2>1
<1>8. CASE Divide
  BY <1>1, <1>8, Division DEF Closes
<1> QED
  BY <1>2, <1>3, <1>4, <1>5, <1>6, <1>7, <1>8, Steps

LEMMA StatusSound ==
  ASSUME Typed, Control, Reports, [Next]_vars
  PROVE  \A k \in DOMAIN status' : Sound(status'[k], k[1] = 0)
<1>1. \A k \in DOMAIN status : Sound(status[k], k[1] = 0)
  BY DEF Reports
<1>2. CASE status' = status
  BY <1>1, <1>2
<1>3. ASSUME NEW p \in Process, NEW a, Ready(a), Sound(p.out, a.action = "extend"),
             status' = Reported(p, a)
      PROVE  \A k \in DOMAIN status' : Sound(status'[k], k[1] = 0)
  <2>1. p.out \in Status
    BY <1>3 DEF Sound
  <2>2. /\ StatusKey(p, a)[1] = 0 <=> a.action = "extend"
        /\ DOMAIN Reported(p, a) = DOMAIN status \cup {StatusKey(p, a)}
        /\ \A k \in DOMAIN Reported(p, a) :
              Reported(p, a)[k] = IF k = StatusKey(p, a) THEN p.out ELSE status[k]
    BY <1>3, <2>1, Reporting
  <2> SUFFICES ASSUME NEW k \in DOMAIN Reported(p, a) PROVE Sound(Reported(p, a)[k], k[1] = 0)
    BY <1>3
  <2>3. CASE k = StatusKey(p, a)
    BY <1>3, <2>2, <2>3 DEF Sound
  <2>4. CASE k # StatusKey(p, a)
    BY <1>1, <2>2, <2>4
  <2> QED
    BY <2>3, <2>4
<1>4. CASE SolverReport
  BY <1>3, <1>4, Attended DEF SolverReport, Typed, Reports
<1>5. CASE OrphanReport
  BY <1>3, <1>5 DEF OrphanReport, Typed, Reports
<1> QED
  BY <1>2, <1>4, <1>5, StatusSteps

\* The process's own result.
LEMMA ResultSound ==
  ASSUME Typed, Control, Reports, [Next]_vars, proc'.stage \in {"saved", "written"}
  PROVE  /\ disk' = disk /\ proc'.out \in Status
         /\ Sound(proc'.out, active.action = "extend")
         /\ \/ proc.stage \in {"saved", "written"} /\ proc'.out = proc.out
            \/ SolverSave
<1>1. NoProc.stage = "none" /\ Started(1).stage = "run" /\ proc \in Process
  BY DEF NoProc, Started, Typed
<1>2. proc.stage \in {"saved", "written"} => Sound(proc.out, active.action = "extend")
  BY DEF Reports
<1>3. /\ disk' = disk
      /\ \/ proc.stage \in {"saved", "written"} /\ proc'.out = proc.out
         \/ SolverSave
  <2>1. CASE proc' = proc
    BY <1>1, <2>1, Attended, WaitKeeps
  <2>2. CASE SolverSave
    BY <2>2 DEF SolverSave
  <2>3. CASE SolverReport
    BY <1>1, <2>3, NextParting DEF SolverReport
  <2>4. CASE SolverExit
    BY <1>1, <2>4 DEF SolverExit, Process
  <2>5. CASE SolverDie
    BY <1>1, <2>5 DEF SolverDie, Process
  <2>6. CASE Interrupt
    BY <1>1, <2>6 DEF Interrupt, Process
  <2> QED
    BY <1>1, <2>1, <2>2, <2>3, <2>4, <2>5, <2>6, ProcSteps
<1>4. Sound(proc'.out, active.action = "extend")
  <2>1. CASE SolverSave
    BY <1>1, <2>1, Attended, SavingSound DEF SolverSave
  <2> QED
    BY <1>2, <1>3, <2>1
<1> QED
  BY <1>3, <1>4 DEF Sound

\* The result of a process that has lost its manager.
LEMMA OrphanSound ==
  ASSUME Typed, Control, Reports, [Next]_vars, orphan'.proc.stage # "none"
  PROVE  /\ Ready(orphan'.of)
         /\ orphan'.proc.stage \in {"saved", "written"} =>
              /\ Sound(orphan'.proc.out, orphan'.of.action = "extend")
              /\ \/ /\ orphan.proc.stage \in {"saved", "written"}
                    /\ orphan'.of = orphan.of /\ orphan'.proc.out = orphan.proc.out
                 \/ /\ Crash /\ orphan'.of = active /\ proc.stage \in {"saved", "written"}
                    /\ orphan'.proc.out = proc.out
                 \/ OrphanSave /\ orphan'.of = orphan.of
<1>1. NoOrphan.proc.stage = "none" /\ orphan \in [proc : Process, of : Operation \cup {None}]
  BY DEF NoOrphan, NoProc, Typed
<1>2. /\ orphan.proc.stage # "none" => Ready(orphan.of)
      /\ orphan.proc.stage \in {"saved", "written"} =>
           Sound(orphan.proc.out, orphan.of.action = "extend")
      /\ proc.stage \in {"saved", "written"} => Sound(proc.out, active.action = "extend")
  BY DEF Reports
<1>3. CASE orphan' = orphan \/ orphan' = NoOrphan
  BY <1>1, <1>2, <1>3
<1>4. CASE Crash /\ orphan' = [proc |-> proc, of |-> active] /\ proc.stage \in {"run", "saved"}
  <2>1. orphan'.proc = proc /\ orphan'.of = active
    BY <1>4
  <2> QED
    BY <1>2, <1>4, <2>1, Attended
<1>5. CASE OrphanSave
  <2>1. PICK p \in Saving(orphan.proc, orphan.of) : orphan' = [orphan EXCEPT !.proc = p]
    BY <1>5 DEF OrphanSave
  <2>2. orphan'.proc = p /\ orphan'.of = orphan.of
    BY <1>1, <2>1
  <2>3. Ready(orphan.of)
    BY <1>2, <1>5 DEF OrphanSave
  <2>4. p.stage = "saved" /\ Sound(p.out, orphan.of.action = "extend")
    BY <1>1, <2>3, SavingSound
  <2> QED
    BY <1>5, <2>2, <2>3, <2>4
<1>6. CASE OrphanReport
  <2>1. orphan' = [orphan EXCEPT !.proc = NextPart(orphan.proc, orphan.of)]
        /\ NextPart(orphan.proc, orphan.of).stage = "run"
    BY <1>1, <1>6 DEF OrphanReport
  <2>2. orphan'.proc.stage = "run" /\ orphan'.of = orphan.of
    BY <1>1, <2>1
  <2> QED
    BY <1>2, <1>6, <2>2 DEF OrphanReport
<1> QED
  BY <1>3, <1>4, <1>5, <1>6, OrphanSteps

LEMMA ReportsStep ==
  ASSUME Typed, Control, Divisible, Reports, [Next]_vars
  PROVE  Reports'
<1>1. \A k \in DOMAIN status' : Sound(status'[k], k[1] = 0)
  BY StatusSound
<1>2. proc'.stage \in {"saved", "written"} => Sound(proc'.out, active'.action = "extend")
  BY ResultSound DEF active
<1>3. ASSUME orphan'.proc.stage # "none"
      PROVE  Ready(orphan.of)'
  <2>1. Ready(orphan'.of)
    BY <1>3, OrphanSound
  <2> DEFINE a == orphan'.of
  <2>2. /\ a \in Operation
        /\ a.action = "extend" => a.attempt \in 0 .. disk.nextAttempt - 1
        /\ a.action = "split" => a.partition \in 1 .. disk.nextPartition - 1
    BY <2>1 DEF Ready
  <2> HIDE DEF a
  <2>3. /\ a \in Operation
        /\ a.action = "extend" => a.attempt \in 0 .. disk'.nextAttempt - 1
        /\ a.action = "split" => a.partition \in 1 .. disk'.nextPartition - 1
    BY <2>2, Numbers
  <2> QED
    BY <2>3 DEF Ready, a
<1>4. orphan'.proc.stage \in {"saved", "written"} =>
        Sound(orphan'.proc.out, orphan'.of.action = "extend")
  BY OrphanSound
<1> QED
  BY <1>1, <1>2, <1>3, <1>4 DEF Reports

-----------------------------------------------------------------------------
IdsOf(m) ==
  {m.stack[i].id : i \in 1 .. Len(m.stack)}
  \cup (IF m.active = None THEN {} ELSE {m.active.branch.id}) \cup {r[1] : r \in m.results}

OpenOf(m) == ToSet(m.stack) \cup (IF m.active = None THEN {} ELSE {m.active.branch})

LEMMA IdsAreOf ==
  ASSUME NEW m \in Manifest
  PROVE  {b.id : b \in OpenOf(m)} \cup {r[1] : r \in m.results} = IdsOf(m)
<1>1. m.stack \in Seq(Branch)
  BY DEF Manifest
<1>2. ToSet(m.stack) = {m.stack[i] : i \in 1 .. Len(m.stack)}
  BY <1>1 DEF ToSet
<1> QED
  BY <1>2 DEF IdsOf, OpenOf

LEMMA IdsAre ==
  /\ Open = OpenOf(disk) /\ Open' = OpenOf(disk')
  /\ disk \in Manifest => Ids = IdsOf(disk)
  /\ disk' \in Manifest => Ids' = IdsOf(disk')
<1>1. Open = OpenOf(disk) /\ Open' = OpenOf(disk')
  BY DEF Open, OpenOf, active, branch
<1> QED
  BY <1>1, IdsAreOf DEF Ids

LEMMA KeptNames ==
  ASSUME Typed, Typed', Naming,
         disk'.stack = disk.stack, disk'.results = disk.results, disk'.terminal = disk.terminal,
         disk'.nextPartition = disk.nextPartition,
         active' # None => active # None /\ branch'.id = branch.id,
         active' # None /\ active'.action = "split" /\ active'.partition # None
           => active.action = "split" /\ active'.partition = active.partition
  PROVE  Naming'
<1>1. Ids' \subseteq Ids
  BY DEF Ids, Open
<1> QED
  BY <1>1 DEF Naming, Distinct

\* How the halts are counted.
LEMMA HaltsCounted ==
  ASSUME NEW m \in Manifest, NEW t, NEW d, NEW results, IsFiniteSet(results), Closes(t, m, d, results),
         m.terminal["halt"] > 0 <=> \E r \in m.results : r[2] = "halt"
  PROVE  t.terminal["halt"] > 0 <=> \E r \in t.results : r[2] = "halt"
<1> DEFINE H == {x \in results : x[2] = "halt"}
<1>1. m.terminal["halt"] \in Nat /\ "halt" \in Ledger!Final
  BY DEF Manifest, Ledger!Final
<1>2. t.terminal["halt"] = m.terminal["halt"] + Cardinality(H) /\ t.results = m.results \cup results
  BY <1>1 DEF Closes
<1>3. IsFiniteSet(H)
  <2>1. H \subseteq results
    OBVIOUS
  <2> QED
    BY <2>1, FS_Subset
<1>4. Cardinality(H) \in Nat /\ (Cardinality(H) = 0 <=> H = {})
  BY <1>3, FS_CardinalityType, FS_EmptySet
<1> DEFINE c == Cardinality(H)
<1>5. c > 0 <=> \E r \in results : r[2] = "halt"
  BY <1>4
<1> HIDE DEF c, H
<1>6. c \in Nat /\ t.terminal["halt"] = m.terminal["halt"] + c
  BY <1>2, <1>4 DEF c
<1>7. t.terminal["halt"] > 0 <=> m.terminal["halt"] > 0 \/ c > 0
  BY <1>1, <1>6
<1> QED
  BY <1>2, <1>5, <1>7

LEMMA NamingKept ==
  ASSUME IInv, [Next]_vars, Idle \/ Booking \/ AllocateAttempt \/ FinishIfDone
  PROVE  Naming'
<1> USE DEF IInv
<1>1. Typed'
  BY TypedStep
<1>2. CASE Idle \/ Booking
  <2>1. Bookkept
    BY <1>2, DiskBooking
  <2>2. active' # None => active # None /\ branch'.id = branch.id
    BY <2>1, NoneAssumption DEF Bookkept, active, branch
  <2>3. active' # None /\ active'.action = "split" /\ active'.partition # None
           => active.action = "split" /\ active'.partition = active.partition
    BY <2>1 DEF Bookkept, active
  <2> QED
    BY <1>1, <2>1, <2>2, <2>3, KeptNames DEF Bookkept
<1>3. CASE AllocateAttempt
  <2>1. active' # None /\ active # None
    BY <1>3, DiskAllocateAttempt, NoneAssumption DEF active
  <2> QED
    BY <1>1, <1>3, <2>1, DiskAllocateAttempt, KeptNames DEF active, branch
<1>4. CASE FinishIfDone
  BY <1>1, <1>4, DiskFinish, KeptNames DEF active, branch
<1> QED
  BY <1>2, <1>3, <1>4

LEMMA NamingAllocated ==
  ASSUME IInv, [Next]_vars, AllocatePartition
  PROVE  Naming'
<1>1. Typed /\ Typed' /\ Naming /\ Capped
  BY TypedStep DEF IInv
<1>2. active # None /\ active' # None /\ branch' = branch
  BY <1>1, DiskAllocatePartition, NoneAssumption DEF active, branch
<1>3. Ids' = Ids
  BY <1>1, <1>2, DiskAllocatePartition DEF Ids, Open
<1>4. disk.nextPartition \in Nat \ {0} /\ disk.nextPartition <= MaxPartitions /\ MaxPartitions \in Nat
  BY <1>1, <1>2, DiskAllocatePartition, ManagerAssumption DEF Typed, Manifest, Capped, active
<1>5. active'.partition = disk.nextPartition /\ disk'.nextPartition = disk.nextPartition + 1
  BY <1>1, DiskAllocatePartition DEF active
<1>6. disk.nextPartition \in Partition /\ disk.nextPartition < disk'.nextPartition
  BY <1>4, <1>5 DEF Partition
<1>7. \A id \in Ids : id[1] < disk.nextPartition /\ id[1] \in Nat
  <2>1. disk \in Manifest /\ Ids = IdsOf(disk) /\ disk.stack \in Seq(Branch)
    BY <1>1, IdsAre DEF Typed, Manifest
  <2>2. \A i \in 1 .. Len(disk.stack) : disk.stack[i].id \in Name
    <3>1. \A i \in 1 .. Len(disk.stack) : disk.stack[i] \in Branch
      BY <2>1
    <3> QED
      BY <3>1 DEF Branch
  <2>3. disk.active # None => disk.active.branch.id \in Name
    BY <2>1 DEF Manifest, Operation, Branch
  <2>4. \A r \in disk.results : r[1] \in Name
    BY <2>1 DEF Manifest
  <2>5. \A id \in Ids : id \in Name
    BY <2>1, <2>2, <2>3, <2>4 DEF IdsOf
  <2> QED
    BY <1>1, <2>5 DEF Naming, Name
<1>8. \A id \in Ids' : id[1] < disk'.nextPartition /\ id[1] # active'.partition
  BY <1>3, <1>4, <1>5, <1>7
<1> QED
  BY <1>1, <1>2, <1>5, <1>6, <1>8, DiskAllocatePartition DEF Naming, Distinct

LEMMA NamingStarted ==
  ASSUME IInv, [Next]_vars, StartBranch
  PROVE  Naming'
<1> DEFINE s == disk.stack
           n == Len(disk.stack)
<1>1. Typed /\ Typed' /\ Naming
  BY TypedStep DEF IInv
<1>2. /\ n \in Nat \ {0} /\ disk.active = None
      /\ disk'.active \in Operation /\ disk'.active.action = "extend" /\ disk'.active.branch = s[n]
      /\ Len(disk'.stack) = n - 1 /\ \A i \in 1 .. n - 1 : disk'.stack[i] = s[i]
      /\ disk'.results = disk.results /\ disk'.terminal = disk.terminal
      /\ disk'.nextPartition = disk.nextPartition
  BY <1>1, DiskStart
<1>3. Distinct(s)
  BY <1>1 DEF Naming
<1>4. Ids' \subseteq Ids
  <2>1. Ids = IdsOf(disk) /\ Ids' = IdsOf(disk')
    BY <1>1, IdsAre DEF Typed
  <2>2. disk'.active # None
    BY <1>2, NoneAssumption
  <2>3. n - 1 \in Nat /\ n \in 1 .. n /\ \A i \in 1 .. n - 1 : i \in 1 .. n
    BY <1>2
  <2> QED
    BY <1>2, <2>1, <2>2, <2>3 DEF IdsOf
<1>5. Distinct(disk'.stack) /\ \A i \in 1 .. n - 1 : disk'.stack[i].id # branch'.id
  <2>1. \A i, j \in 1 .. n : s[i].id = s[j].id => i = j
    BY <1>3 DEF Distinct
  <2>2. n - 1 \in Nat /\ n \in 1 .. n /\ \A i \in 1 .. n - 1 : i \in 1 .. n /\ i # n
    BY <1>2
  <2>3. branch' = s[n]
    BY <1>2 DEF active, branch
  <2> HIDE DEF s, n
  <2>4. \A i, j \in 1 .. n - 1 : disk'.stack[i].id = disk'.stack[j].id => i = j
    BY <1>2, <2>1, <2>2
  <2> QED
    BY <1>2, <2>1, <2>2, <2>3, <2>4 DEF Distinct
<1> QED
  BY <1>1, <1>2, <1>4, <1>5 DEF Naming, active


LEMMA NamingConsumed ==
  ASSUME IInv, [Next]_vars, Consume
  PROVE  Naming'
<1> DEFINE s == status[<<0, active.attempt>>]
<1>1. /\ Typed /\ Typed' /\ Naming /\ Control /\ Reports
      /\ disk \in Manifest /\ disk' \in Manifest /\ active = disk.active /\ active # None
  <2>1. Typed /\ Typed' /\ Naming /\ Control /\ Reports
    BY TypedStep DEF IInv
  <2>2. active \in Operation
    BY <2>1, ConsumptionA
  <2> QED
    BY <2>1, <2>2, NoneAssumption DEF Typed, active
<1>2. CASE Continued(s)
  <2>1. SameSearch(disk', disk)
    BY <1>2 DEF Continued
  <2>2. branch'.id = branch.id
    BY <2>1 DEF SameSearch, branch, active
  <2>3. ~(active'.action = "split" /\ active'.partition # None)
    BY <1>2 DEF Continued, active
  <2> QED
    BY <1>1, <2>1, <2>2, <2>3, KeptNames DEF SameSearch
<1>3. CASE Concluded(s)
  <2>1. /\ Closes(disk', disk, branch.depth, {<<branch.id, s.reason>>})
        /\ disk'.active = None /\ disk'.stack = disk.stack
    BY <1>3 DEF Concluded
  <2>2. disk'.results = disk.results \cup {<<branch.id, s.reason>>}
        /\ disk'.nextPartition = disk.nextPartition
    BY <2>1 DEF Closes
  <2>3. Ids' \subseteq Ids
    <3>1. Ids = IdsOf(disk) /\ Ids' = IdsOf(disk')
      BY <1>1, IdsAre
    <3> QED
      BY <1>1, <2>1, <2>2, <3>1 DEF IdsOf, branch
  <2>4. disk'.terminal["halt"] > 0 <=> \E r \in disk'.results : r[2] = "halt"
    <3>1. IsFiniteSet({<<branch.id, s.reason>>})
      BY FS_Singleton
    <3>2. disk.terminal["halt"] > 0 <=> \E r \in disk.results : r[2] = "halt"
      BY <1>1 DEF Naming
    <3> QED
      BY <1>1, <2>1, <3>1, <3>2, HaltsCounted
  <2> QED
    BY <1>1, <2>1, <2>2, <2>3, <2>4 DEF Naming, Distinct, active
<1> QED
  BY <1>1, <1>2, <1>3, Consumption

LEMMA NamingDivided ==
  ASSUME IInv, [Next]_vars, Divide
  PROVE  Naming'
<1>1. /\ Typed /\ Typed' /\ Naming /\ Control /\ Divisible /\ disk' \in Manifest
      /\ disk \in Manifest /\ disk.stack \in Seq(Branch)
  BY TypedStep DEF IInv, Typed, Manifest
<1>2. active # None /\ active.action = "split" /\ active.partition # None /\ active.partition \in Nat
  BY <1>1, DivisionInputs, NoneAssumption
<1>3. /\ Closes(disk', disk, branch.depth + 1, Ended)
      /\ disk'.stack = Queued(Children) /\ disk'.active = None
  BY <1>1, Division
<1>4. disk'.results = disk.results \cup Ended /\ disk'.nextPartition = disk.nextPartition
  BY <1>3 DEF Closes
<1>5. Distinct(disk'.stack) /\ ToSet(disk'.stack) = ToSet(disk.stack) \cup {Child(k) : k \in Goes}
  <2>1. \A i \in 1 .. Len(disk.stack) : disk.stack[i].id[1] # active.partition
    <3>1. \A i \in 1 .. Len(disk.stack) : disk.stack[i].id \in Ids
      BY <1>1, IdsAre DEF IdsOf
    <3> QED
      BY <1>1, <1>2, <3>1 DEF Naming
  <2> QED
    BY <1>1, <1>3, <2>1, QueuedStack DEF Naming
<1>6. \A id \in Ids' : id \in Ids \/ id[1] = active.partition
  <2>1. \A b \in Open' : b \in ToSet(disk.stack) \/ \E k \in Goes : b = Child(k)
    BY <1>3, <1>5, IdsAre DEF OpenOf
  <2>2. \A k : Child(k).id[1] = active.partition
    BY DEF Child
  <2>3. \A r \in disk'.results : r \in disk.results \/ r[1][1] = active.partition
    BY <1>1, <1>4, EndedTyped
  <2>4. \A b \in ToSet(disk.stack) : b.id \in Ids
    BY DEF Ids, Open
  <2>5. \A r \in disk.results : r[1] \in Ids
    BY DEF Ids
  <2> QED
    BY <2>1, <2>2, <2>3, <2>4, <2>5 DEF Ids
<1>7. \A id \in Ids' : id[1] < disk'.nextPartition
  BY <1>1, <1>2, <1>4, <1>6 DEF Naming
<1>8. disk'.terminal["halt"] > 0 <=> \E r \in disk'.results : r[2] = "halt"
  BY <1>1, <1>3, EndedTyped, HaltsCounted DEF Naming
<1> QED
  BY <1>3, <1>5, <1>7, <1>8 DEF Naming, active

LEMMA NamingStep ==
  ASSUME IInv, [Next]_vars
  PROVE  Naming'
  BY NamingKept, NamingAllocated, NamingStarted, NamingConsumed, NamingDivided, Steps

-----------------------------------------------------------------------------
Extends(n) == active # None /\ active.action = "extend" /\ active.attempt = n

\* An attempt that the active operation has after a step, it had before or is new.
LEMMA ExtendsStep ==
  ASSUME IInv, [Next]_vars, NEW n \in Nat, Extends(n)'
  PROVE  /\ disk'.nextPartition = disk.nextPartition
         /\ Extends(n) \/ n = disk.nextAttempt
<1> USE DEF IInv
<1>0. n # None /\ None \notin Operation
  BY NoneAssumption
<1>1. CASE Idle \/ Booking
  BY <1>0, <1>1, DiskBooking DEF Bookkept, Extends, active
<1>2. CASE AllocateAttempt
  BY <1>2, DiskAllocateAttempt DEF Extends, active
<1>3. CASE AllocatePartition
  BY <1>3, DiskAllocatePartition DEF Extends, active
<1>4. CASE StartBranch
  BY <1>0, <1>4, DiskStart DEF Extends, active
<1>5. CASE FinishIfDone
  BY <1>5, DiskFinish DEF Extends, active
<1>6. CASE Consume
  BY <1>0, <1>6, Consumption DEF Continued, Concluded, Extends, active
<1>7. CASE Divide
  BY <1>7, Division DEF Extends, active
<1> QED
  BY <1>1, <1>2, <1>3, <1>4, <1>5, <1>6, <1>7, Steps

Left == disk.nextPartition <= MaxPartitions

\* Before a split is allocated there is one left.
LEMMA CappedSplit ==
  ASSUME IInv, [Next]_vars, active' # None, active'.action = "split", active'.partition = None
  PROVE  Left'
<1> USE DEF IInv
<1>1. active # None /\ active.action = "split" /\ active.partition = None => Left
  BY DEF Capped, Left
<1>2. CASE Idle \/ Booking
  BY <1>1, <1>2, DiskBooking, NoneAssumption DEF Bookkept, Left, active
<1>3. CASE AllocateAttempt
  BY <1>3, DiskAllocateAttempt DEF active
<1>4. CASE AllocatePartition
  BY <1>4, DiskAllocatePartition, NoneAssumption DEF active, Typed, Manifest
<1>5. CASE StartBranch
  BY <1>5, DiskStart DEF active
<1>6. CASE FinishIfDone
  BY <1>6, DiskFinish DEF active
<1>7. CASE Consume
  <2> DEFINE k == <<0, active.attempt>>
  <2>1. /\ k \in DOMAIN status /\ active # None /\ active.action = "extend"
        /\ active.attempt \in Nat
    BY <1>7, ConsumptionA, NoneAssumption
  <2>2. Continued(status[k]) /\ status[k].reason = "memory_cap"
    BY <1>7, Consumption DEF Continued, Concluded, active
  <2>3. k[1] = 0 /\ k[2] = active.attempt
    OBVIOUS
  <2>4. Left
    BY <2>1, <2>2, <2>3 DEF Capped, Left
  <2> QED
    BY <2>2, <2>4 DEF Continued, SameSearch, Left
<1>8. CASE Divide
  BY <1>8, Division DEF active
<1> QED
  BY <1>2, <1>3, <1>4, <1>5, <1>6, <1>7, <1>8, Steps

\* What is known of an attempt's status before and after it is written.
LEMMA StatusCapped ==
  ASSUME IInv, [Next]_vars, NEW k \in DOMAIN status', k[1] = 0
  PROVE  /\ k[2] \in Nat /\ k[2] < disk.nextAttempt
         /\ Extends(k[2]) /\ status'[k].reason = "memory_cap" => Left
<1> USE DEF IInv
<1>1. k \in Name /\ k[2] \in Nat /\ k = <<0, k[2]>>
  BY StatusTyped DEF Name
<1>2. CASE k \in DOMAIN status /\ status'[k] = status[k]
  BY <1>1, <1>2 DEF Capped, Left, Extends
<1>3. CASE SolverReport /\ k = StatusKey(proc, active) /\ status'[k] = proc.out
  <2>1. proc \in Process /\ Ready(active) /\ active # None /\ proc.out \in Status
    BY <1>3, Attended, NoneAssumption DEF SolverReport, Typed, Reports, Sound
  <2>2. active.action = "extend" /\ k = <<0, active.attempt>>
    BY <1>3, <2>1, Reporting
  <2>3. k[2] = active.attempt /\ k[2] < disk.nextAttempt
    BY <1>1, <2>1, <2>2 DEF Ready, Typed, Manifest
  <2>4. proc.stage = "saved"
    BY <1>3 DEF SolverReport
  <2> QED
    BY <1>1, <1>3, <2>2, <2>3, <2>4 DEF Capped, Left
<1>4. CASE OrphanReport /\ k = StatusKey(orphan.proc, orphan.of) /\ status'[k] = orphan.proc.out
  <2>1. orphan.proc \in Process /\ Ready(orphan.of) /\ orphan.proc.out \in Status
        /\ orphan.proc.stage = "saved"
    BY <1>4 DEF OrphanReport, Typed, Reports, Sound
  <2>2. orphan.of.action = "extend" /\ k = <<0, orphan.of.attempt>>
    BY <1>4, <2>1, Reporting
  <2>3. k[2] = orphan.of.attempt /\ k[2] < disk.nextAttempt
    BY <1>1, <2>1, <2>2 DEF Ready, Typed, Manifest
  <2> QED
    BY <1>1, <1>4, <2>1, <2>2, <2>3 DEF Capped, Left, Extends
<1>5. CASE SolverReport
  <2>1. \/ k = StatusKey(proc, active) /\ status'[k] = proc.out
        \/ k \in DOMAIN status /\ status'[k] = status[k]
    BY <1>5 DEF SolverReport, Reported
  <2> QED
    BY <1>2, <1>3, <1>5, <2>1
<1>6. CASE OrphanReport
  <2>1. \/ k = StatusKey(orphan.proc, orphan.of) /\ status'[k] = orphan.proc.out
        \/ k \in DOMAIN status /\ status'[k] = status[k]
    BY <1>6 DEF OrphanReport, Reported
  <2> QED
    BY <1>2, <1>4, <1>6, <2>1
<1> QED
  BY <1>2, <1>5, <1>6, StatusSteps

LEMMA CappedStep ==
  ASSUME IInv, [Next]_vars
  PROVE  Capped'
<1> USE DEF IInv
<1>1. /\ disk.nextAttempt \in Nat /\ disk'.nextAttempt \in Nat /\ disk'.nextAttempt >= disk.nextAttempt
      /\ Typed'
  BY Numbers, TypedStep
<1>2. \A k \in DOMAIN status' : k[1] = 0 => k[2] \in Nat /\ k[2] < disk.nextAttempt /\ k[2] < disk'.nextAttempt
  BY <1>1, StatusCapped
<1>3. active' # None /\ active'.attempt # None => active'.attempt < disk'.nextAttempt
  <2>1. active # None /\ active.attempt # None => active.attempt < disk.nextAttempt
    BY DEF Capped
  <2>2. CASE Idle \/ Booking
    BY <2>1, <2>2, DiskBooking, NoneAssumption DEF Bookkept, active
  <2>3. CASE AllocateAttempt
    BY <1>1, <2>3, DiskAllocateAttempt DEF active
  <2>4. CASE AllocatePartition
    BY <2>1, <2>4, DiskAllocatePartition, NoneAssumption DEF active
  <2>5. CASE StartBranch \/ FinishIfDone \/ Divide
    BY <2>5, DiskStart, DiskFinish, Division DEF active
  <2>6. CASE Consume
    BY <2>6, Consumption DEF Continued, Concluded, active
  <2> QED
    BY <2>2, <2>3, <2>4, <2>5, <2>6, Steps
<1>4. ASSUME NEW k \in DOMAIN status', k[1] = 0, Extends(k[2])', status'[k].reason = "memory_cap"
      PROVE  Left'
  BY <1>2, <1>4, ExtendsStep, StatusCapped DEF Left
<1>5. ASSUME proc'.stage \in {"saved", "written"}, active'.action = "extend", proc'.out.reason = "memory_cap"
      PROVE  Left'
  <2>1. disk' = disk /\ active' = active
    BY <1>5, ResultSound DEF active
  <2>2. CASE proc.stage \in {"saved", "written"} /\ proc'.out = proc.out
    BY <1>5, <2>1, <2>2 DEF Capped, Left
  <2>3. CASE SolverSave
    BY <1>5, <2>1, <2>3, Attended, SavingSound DEF SolverSave, Typed, Left
  <2> QED
    BY <1>5, <2>2, <2>3, ResultSound
<1>6. ASSUME orphan'.proc.stage \in {"saved", "written"}, orphan'.of.action = "extend",
             Extends(orphan.of.attempt)', orphan'.proc.out.reason = "memory_cap"
      PROVE  Left'
  <2>1. Ready(orphan'.of)
    BY <1>6, OrphanSound
  <2>2. PICK n \in Nat : n = orphan'.of.attempt /\ n < disk.nextAttempt
    BY <1>1, <1>6, <2>1 DEF Ready
  <2>3. Extends(n) /\ disk'.nextPartition = disk.nextPartition
    <3>1. active' # None /\ active'.action = "extend" /\ active'.attempt = n
      BY <1>6, <2>2 DEF Extends
    <3>2. Extends(n)'
      BY <3>1 DEF Extends
    <3> QED
      BY <1>1, <2>2, <3>2, ExtendsStep
  <2>4. CASE /\ orphan.proc.stage \in {"saved", "written"}
             /\ orphan'.of = orphan.of /\ orphan'.proc.out = orphan.proc.out
    BY <1>6, <2>2, <2>3, <2>4 DEF Capped, Extends, Left
  <2>5. CASE Crash /\ orphan'.of = active /\ proc.stage \in {"saved", "written"} /\ orphan'.proc.out = proc.out
    BY <1>6, <2>2, <2>3, <2>5 DEF Capped, Left
  <2>6. CASE OrphanSave /\ orphan'.of = orphan.of
    <3>1. PICK p \in Saving(orphan.proc, orphan.of) : orphan' = [orphan EXCEPT !.proc = p]
      BY <2>6 DEF OrphanSave
    <3>2. Ready(orphan.of) /\ orphan.proc \in Process /\ orphan'.proc = p
      BY <2>6, <3>1 DEF OrphanSave, Reports, Typed
    <3> QED
      BY <1>6, <2>3, <2>6, <3>1, <3>2, SavingSound DEF Left
  <2> QED
    BY <1>6, <2>4, <2>5, <2>6, OrphanSound
<1> QED
  BY <1>2, <1>3, <1>4, <1>5, <1>6, CappedSplit DEF Capped, Extends, Left

-----------------------------------------------------------------------------
LEMMA KeptOrder ==
  ASSUME Ordered, disk'.traversal = disk.traversal, disk'.stack = disk.stack,
         active' # None => active # None /\ branch'.depth = branch.depth
  PROVE  Ordered'
  BY DEF Ordered

LEMMA OrderStarted ==
  ASSUME Typed, Ordered, StartBranch
  PROVE  Ordered'
<1> SUFFICES ASSUME disk'.traversal = "bfs" PROVE Ordered'
  BY DEF Ordered
<1> DEFINE s == disk.stack
           t == disk'.stack
           n == Len(disk.stack)
<1>1. /\ n \in Nat \ {0} /\ s \in Seq(Branch) /\ disk'.traversal = disk.traversal
      /\ disk'.active.branch = s[n] /\ Len(t) = n - 1 /\ \A i \in 1 .. n - 1 : t[i] = s[i]
  BY DiskStart
<1>2. \A i, j \in 1 .. n : /\ i < j => s[i].depth >= s[j].depth
                           /\ s[i].depth <= s[j].depth + 1
  BY <1>1 DEF Ordered
<1>3. \A i \in 1 .. n : s[i].depth \in Nat
  <2>1. \A i \in 1 .. n : s[i] \in Branch
    BY <1>1
  <2> QED
    BY <2>1 DEF Branch
<1>4. n \in 1 .. n /\ \A i \in 1 .. n - 1 : i \in 1 .. n /\ i < n
  BY <1>1
<1>5. branch' = s[n]
  BY <1>1 DEF active, branch
<1> HIDE DEF s, n, t
<1>6. \A i, j \in 1 .. n - 1 : /\ i < j => t[i].depth >= t[j].depth
                               /\ t[i].depth <= t[j].depth + 1
  BY <1>1, <1>2, <1>4
<1>7. \A i \in 1 .. n - 1 : t[i].depth \in {branch'.depth, branch'.depth + 1}
  <2> SUFFICES ASSUME NEW i \in 1 .. n - 1 PROVE s[i].depth \in {s[n].depth, s[n].depth + 1}
    BY <1>1, <1>5
  <2>1. i \in 1 .. n /\ n \in 1 .. n /\ i < n
    BY <1>4
  <2>2. s[i].depth >= s[n].depth /\ s[i].depth <= s[n].depth + 1
    BY <1>2, <2>1
  <2>3. s[i].depth \in Nat /\ s[n].depth \in Nat
    BY <1>3, <2>1
  <2> QED
    BY <2>2, <2>3
<1> QED
  BY <1>1, <1>6, <1>7 DEF Ordered, t

LEMMA OrderDivided ==
  ASSUME Typed, Control, Divisible, Ordered, Divide
  PROVE  Ordered'
<1> SUFFICES ASSUME disk'.traversal = "bfs" PROVE Ordered'
  BY DEF Ordered
<1> DEFINE s == disk.stack
           c == Children
           r == Reverse(c)
           m == Len(r)
           n == Len(s)
           q == r \o s
           d == branch.depth
<1>1. /\ disk'.traversal = disk.traversal /\ disk'.active = None /\ disk'.stack = Queued(Children)
  BY Division DEF Closes
<1>2. disk'.stack = q
  BY <1>1 DEF Queued
<1>3. s \in Seq(Branch) /\ c \in Seq(Branch) /\ r \in Seq(Branch) /\ m = Len(c) /\ d \in Nat /\ active # None
      /\ \A i \in 1 .. Len(c) : r[i] = c[(Len(c) - i) + 1]
  BY ChildrenListed, ReverseSeq, DivisionInputs, NoneAssumption DEF Typed, Manifest, Branch
<1>4. \A i \in 1 .. m : r[i].depth = d + 1
  <2> SUFFICES ASSUME NEW i \in 1 .. Len(c) PROVE r[i].depth = d + 1
    BY <1>3
  <2>1. r[i] = c[(Len(c) - i) + 1] /\ (Len(c) - i) + 1 \in 1 .. Len(c)
    BY <1>3
  <2>2. PICK k \in Goes : c[(Len(c) - i) + 1] = Child(k)
    BY <2>1, ChildrenListed
  <2> QED
    BY <2>1, <2>2 DEF Child
<1>5. \A i, j \in 1 .. n : i < j => s[i].depth >= s[j].depth
  BY <1>1 DEF Ordered
<1>6. \A i \in 1 .. n : s[i].depth \in {d, d + 1}
  BY <1>1, <1>3 DEF Ordered
<1>7. /\ m \in Nat /\ n \in Nat /\ Len(q) = m + n
      /\ \A i \in 1 .. m : q[i] = r[i]
      /\ \A i \in (m + 1) .. (m + n) : q[i] = s[i - m]
  <2>1. s \in Seq(Branch) /\ r \in Seq(Branch)
    BY <1>3
  <2>2. m \in Nat /\ n \in Nat
    BY <2>1
  <2> HIDE DEF s, r
  <2> QED
    BY <2>1, <2>2, ConcatSeq
<1> HIDE DEF s, c, r, m, n, q, d
<1>8. \A i \in 1 .. (m + n) :
        /\ i <= m => q[i].depth = d + 1
        /\ i > m => i - m \in 1 .. n /\ q[i].depth = s[i - m].depth
  BY <1>4, <1>7
<1>9. \A i, j \in 1 .. (m + n) :
        /\ i < j => q[i].depth >= q[j].depth
        /\ q[i].depth <= q[j].depth + 1
  <2> SUFFICES ASSUME NEW i \in 1 .. (m + n), NEW j \in 1 .. (m + n)
               PROVE  /\ i < j => q[i].depth >= q[j].depth
                      /\ q[i].depth <= q[j].depth + 1
    OBVIOUS
  <2>1. q[i].depth \in {d, d + 1} /\ q[j].depth \in {d, d + 1}
    BY <1>6, <1>7, <1>8
  <2>2. q[i].depth <= q[j].depth + 1
    BY <1>3, <2>1
  <2>3. ASSUME i < j PROVE q[i].depth >= q[j].depth
    <3>1. CASE i <= m
      BY <1>3, <1>8, <2>1, <3>1
    <3>2. CASE i > m
      <4>1. j > m /\ i - m < j - m
        BY <1>7, <2>3, <3>2
      <4> QED
        BY <1>5, <1>8, <3>2, <4>1
    <3> QED
      BY <1>7, <3>1, <3>2
  <2> QED
    BY <2>2, <2>3
<1> QED
  BY <1>1, <1>2, <1>7, <1>9 DEF Ordered, active

LEMMA OrderedStep ==
  ASSUME IInv, [Next]_vars
  PROVE  Ordered'
<1> USE DEF IInv
<1>0. None \notin Operation
  BY NoneAssumption
<1>1. CASE Idle \/ Booking
  BY <1>0, <1>1, DiskBooking, KeptOrder DEF Bookkept, active, branch
<1>2. CASE AllocateAttempt
  BY <1>0, <1>2, DiskAllocateAttempt, KeptOrder DEF active, branch
<1>3. CASE AllocatePartition
  BY <1>0, <1>3, DiskAllocatePartition, KeptOrder DEF active, branch
<1>4. CASE FinishIfDone
  BY <1>4, DiskFinish, KeptOrder DEF active, branch
<1>5. CASE Consume
  <2>1. active # None
    BY <1>0, <1>5, ConsumptionA
  <2>2. CASE Continued(status[<<0, active.attempt>>])
    BY <2>1, <2>2, KeptOrder DEF Continued, SameSearch, active, branch
  <2>3. CASE Concluded(status[<<0, active.attempt>>])
    BY <2>3, KeptOrder DEF Concluded, Closes, active, branch
  <2> QED
    BY <1>5, <2>2, <2>3, Consumption
<1> QED
  BY <1>1, <1>2, <1>3, <1>4, <1>5, OrderStarted, OrderDivided, Steps

-----------------------------------------------------------------------------
LEMMA RetentionStep ==
  ASSUME IInv, [Next]_vars
  PROVE  /\ disk'.retention = "keep" => disk.retention = "keep"
         /\ disk'.retention # "delete" => disk.retention # "delete"
<1> USE DEF IInv
<1>1. CASE Idle \/ Booking
  BY <1>1, DiskBooking
<1>2. CASE AllocateAttempt \/ AllocatePartition \/ StartBranch \/ FinishIfDone
  BY <1>2, DiskAllocateAttempt, DiskAllocatePartition, DiskStart, DiskFinish
<1>3. CASE Consume \/ Divide
  BY <1>3, Consumption, Division DEF Continued, SameSearch, Concluded, Closes
<1> QED
  BY <1>1, <1>2, <1>3, Steps

Unloadable == \E k \in DOMAIN status : status[k].checkpoint # None /\ status[k].checkpoint \notin files

\* An open branch has the payload of one that was open before, or one that is there.
LEMMA OpenStep ==
  ASSUME IInv, [Next]_vars, NEW b \in Open'
  PROVE  \/ b.checkpoint \in files
         \/ \E c \in Open : /\ c.checkpoint = b.checkpoint
                            /\ (c.initial => b.initial) \/ Unloadable
<1> USE DEF IInv
<1>0. None \notin Operation
  BY NoneAssumption
<1>1. CASE disk'.stack = disk.stack /\ (active' # None => active # None /\ branch' = branch)
  BY <1>1 DEF Open
<1>2. CASE Idle \/ Booking
  BY <1>0, <1>1, <1>2, DiskBooking DEF Bookkept, active, branch
<1>3. CASE AllocateAttempt
  BY <1>0, <1>1, <1>3, DiskAllocateAttempt DEF active, branch
<1>4. CASE AllocatePartition
  BY <1>0, <1>1, <1>4, DiskAllocatePartition DEF active, branch
<1>5. CASE FinishIfDone
  BY <1>1, <1>5, DiskFinish DEF active, branch
<1>6. CASE StartBranch
  <2> DEFINE s == disk.stack
             t == disk'.stack
             n == Len(disk.stack)
  <2>1. /\ n \in Nat \ {0} /\ s \in Seq(Branch) /\ disk'.active.branch = s[n]
        /\ Len(t) = n - 1 /\ (\A i \in 1 .. n - 1 : t[i] = s[i]) /\ t \in Seq(Branch)
    BY <1>6, DiskStart DEF Manifest
  <2>2. DOMAIN s = 1 .. n /\ DOMAIN t = 1 .. n - 1
    BY <2>1
  <2>3. b \in ToSet(t) \/ b = s[n]
    BY <2>1 DEF Open, active, branch
  <2>4. \E i \in 1 .. n : b = s[i]
    BY <2>1, <2>2, <2>3 DEF ToSet
  <2>5. b \in ToSet(s)
    BY <2>2, <2>4 DEF ToSet
  <2> QED
    BY <2>5 DEF Open
<1>7. CASE Consume
  <2> DEFINE k == <<0, active.attempt>>
             s == status[k]
  <2>1. k \in DOMAIN status /\ active # None
    BY <1>0, <1>7, ConsumptionA
  <2>2. CASE Continued(s)
    <3>1. b \in ToSet(disk.stack) \/ b = branch'
      BY <2>2 DEF Open, Continued, SameSearch
    <3>2. CASE b \in ToSet(disk.stack)
      BY <3>2 DEF Open
    <3>3. CASE b = branch'
      <4>1. branch \in Open
        BY <2>1 DEF Open
      <4>2. \/ b.checkpoint \in files
            \/ Unloadable /\ b.checkpoint = branch.checkpoint
            \/ b.checkpoint = branch.checkpoint /\ (branch.initial => b.initial)
        BY <2>1, <2>2, <3>3 DEF Continued, Unloadable, active, branch
      <4> QED
        BY <4>1, <4>2
    <3> QED
      BY <3>1, <3>2, <3>3
  <2>3. CASE Concluded(s)
    BY <1>1, <2>3 DEF Concluded, active
  <2> QED
    BY <1>7, <2>2, <2>3, Consumption
<1>8. CASE Divide
  <2>1. disk'.stack = Queued(Children) /\ disk'.active = None
    BY <1>8, Division
  <2>2. b \in ToSet(disk.stack) \/ \E k \in Goes : b = Child(k)
    BY <1>8, <2>1, QueuedStack DEF Open, active
  <2>3. ASSUME NEW k \in Goes PROVE Child(k).checkpoint \in files
    BY <1>8 DEF Child, Goes, Divide, Held, At
  <2>4. CASE b \in ToSet(disk.stack)
    BY <2>4 DEF Open
  <2> QED
    BY <2>2, <2>3, <2>4
<1> QED
  BY <1>2, <1>3, <1>4, <1>5, <1>6, <1>7, <1>8, Steps

\* Files that disappear are retired ones, and are archived unless they are deleted.
LEMMA FilesKept ==
  ASSUME IInv, [Next]_vars
  PROVE  /\ \A b \in Open : b.checkpoint # None /\ b.checkpoint \in files => b.checkpoint \in files'
         /\ disk.retention # "delete" => files \cup archive \subseteq files' \cup archive'
         /\ disk.retention = "keep" => files \subseteq files'
<1>1. CASE files' = files /\ archive \subseteq archive'
  BY <1>1
<1>2. CASE SolverSave \/ OrphanSave
  BY <1>2 DEF SolverSave, OrphanSave
<1>3. ASSUME NEW f \in Retired, files' = files \ {f}, archive' = archive,
             \/ disk.retention = "delete"
             \/ f \in archive /\ pc \in {"reclaim", "archive"}
      PROVE  /\ \A b \in Open : b.checkpoint # None /\ b.checkpoint \in files => b.checkpoint \in files'
             /\ disk.retention # "delete" => files \cup archive \subseteq files' \cup archive'
             /\ disk.retention = "keep" => files \subseteq files'
  <2>1. \A b \in Open : b.checkpoint # None => b.checkpoint # f
    BY DEF Retired, Live
  <2>2. disk.retention # "keep"
    BY <1>3 DEF IInv, Kept
  <2> QED
    BY <1>3, <2>1, <2>2
<1> QED
  BY <1>1, <1>2, <1>3, FileSteps

LEMMA LiveKeptStep ==
  ASSUME IInv, [Next]_vars
  PROVE  LiveKept'
<1> SUFFICES ASSUME NEW b \in Open', b.checkpoint # None PROVE b.checkpoint \in files'
  BY DEF LiveKept
<1>1. CASE disk' = disk
  <2>1. b \in Open
    BY <1>1 DEF Open, active, branch
  <2> QED
    BY <2>1, FilesKept DEF IInv, LiveKept
<1>2. CASE files' = files
  BY <1>2, OpenStep DEF IInv, LiveKept
<1> QED
  BY <1>1, <1>2, FileSteps DEF SolverSave, OrphanSave

-----------------------------------------------------------------------------
\* Where a result that is saved but not reported comes from.
LEMMA SavedSteps ==
  ASSUME IInv, [Next]_vars, proc'.stage \in {"saved", "written"}, proc'.out.checkpoint # None
  PROVE  \/ proc.stage \in {"saved", "written"} /\ proc.out = proc'.out
         \/ proc'.out.checkpoint \in files'
<1>1. CASE SolverSave
  BY <1>1 DEF SolverSave
<1> QED
  BY <1>1, ResultSound DEF IInv

LEMMA OrphanSavedSteps ==
  ASSUME IInv, [Next]_vars, orphan'.proc.stage \in {"saved", "written"},
         orphan'.proc.out.checkpoint # None
  PROVE  \/ orphan.proc.stage \in {"saved", "written"} /\ orphan.proc.out = orphan'.proc.out
         \/ proc.stage \in {"saved", "written"} /\ proc.out = orphan'.proc.out
         \/ orphan'.proc.out.checkpoint \in files'
<1>1. CASE OrphanSave
  <2>1. PICK p \in Saving(orphan.proc, orphan.of) :
          /\ orphan' = [orphan EXCEPT !.proc = p]
          /\ files' = files \cup ({p.out.checkpoint} \ {None})
    BY <1>1 DEF OrphanSave
  <2>2. orphan'.proc = p
    BY <2>1 DEF IInv, Typed
  <2> QED
    BY <2>1, <2>2
<1> QED
  BY <1>1, OrphanSound DEF IInv

\* Every status was there before or is a result that was saved.
LEMMA StatusFrom ==
  ASSUME IInv, [Next]_vars, NEW k \in DOMAIN status'
  PROVE  \/ k \in DOMAIN status /\ status'[k] = status[k]
         \/ proc.stage = "saved" /\ status'[k] = proc.out
         \/ orphan.proc.stage = "saved" /\ status'[k] = orphan.proc.out
<1>1. CASE status' = status
  BY <1>1
<1>2. CASE SolverReport
  BY <1>2 DEF SolverReport, Reported
<1>3. CASE OrphanReport
  BY <1>3 DEF OrphanReport, Reported
<1> QED
  BY <1>1, <1>2, <1>3, StatusSteps

LEMMA ReadHeld ==
  ASSUME IInv, [Next]_vars, At("divide")'
  PROVE  \A k \in 1 .. Parts : read'[k].checkpoint \in files'
<1>1. CASE BeginSplit \/ ReapSplit
  <2>1. Materialized /\ read' = Parted /\ files' = files
    BY <1>1 DEF BeginSplit, ReapSplit, At
  <2> QED
    BY <2>1 DEF Materialized, PartDone, Parted
<1>2. CASE At("divide") /\ read' = read /\ disk' = disk
  <2> SUFFICES ASSUME NEW k \in 1 .. Parts PROVE read[k].checkpoint \in files'
    BY <1>2
  <2>1. /\ read[k].checkpoint \in files
        /\ read[k].checkpoint = <<active.partition, <<active.partition, k>>, branch.height + 1>>
    BY <1>2 DEF IInv, Held, Divisible
  <2>2. active # None /\ active.action = "split"
    BY <1>2, NoneAssumption DEF IInv, Control, Ready
  <2>3. \A f \in Retired : f # read[k].checkpoint
    BY <2>1, <2>2 DEF Retired
  <2>4. files' = files \/ (\E f \in Retired : files' = files \ {f}) \/ SolverSave \/ OrphanSave
    BY FileSteps
  <2> QED
    BY <2>1, <2>3, <2>4 DEF SolverSave, OrphanSave
<1> QED
  BY <1>1, <1>2, DivideSteps DEF IInv

LEMMA HeldStep ==
  ASSUME IInv, [Next]_vars
  PROVE  Held'
<1>1. At("divide")' => \A k \in 1 .. Parts : read'[k].checkpoint \in files'
  BY ReadHeld
<1>2. ASSUME disk'.retention # "delete"
      PROVE  /\ proc'.stage \in {"saved", "written"} /\ proc'.out.checkpoint # None
                  => proc'.out.checkpoint \in files' \cup archive'
             /\ orphan'.proc.stage \in {"saved", "written"} /\ orphan'.proc.out.checkpoint # None
                  => orphan'.proc.out.checkpoint \in files' \cup archive'
  <2>1. disk.retention # "delete" /\ files \cup archive \subseteq files' \cup archive'
    BY <1>2, RetentionStep, FilesKept
  <2>2. /\ proc.stage \in {"saved", "written"} /\ proc.out.checkpoint # None
            => proc.out.checkpoint \in files \cup archive
        /\ orphan.proc.stage \in {"saved", "written"} /\ orphan.proc.out.checkpoint # None
            => orphan.proc.out.checkpoint \in files \cup archive
    BY <2>1 DEF IInv, Held
  <2> QED
    BY <2>1, <2>2, SavedSteps, OrphanSavedSteps
<1> QED
  BY <1>1, <1>2 DEF Held

LEMMA NothingLostStep ==
  ASSUME IInv, [Next]_vars
  PROVE  NothingLost'
<1> SUFFICES ASSUME disk'.retention # "delete", NEW k \in DOMAIN status', status'[k].checkpoint # None
             PROVE  status'[k].checkpoint \in files' \cup archive'
  BY DEF NothingLost
<1>1. disk.retention # "delete" /\ files \cup archive \subseteq files' \cup archive'
  BY RetentionStep, FilesKept
<1> QED
  BY <1>1, StatusFrom DEF IInv, NothingLost, Held

LEMMA KeptStep ==
  ASSUME IInv, [Next]_vars
  PROVE  Kept'
<1> SUFFICES ASSUME disk'.retention = "keep" PROVE Kept'
  BY DEF Kept
<1>1. disk.retention = "keep" /\ files \subseteq files'
  BY RetentionStep, FilesKept
<1>2. /\ pc \notin {"reclaim", "archive"} /\ Restartable
      /\ \A k \in DOMAIN status : status[k].checkpoint # None => status[k].checkpoint \in files
      /\ proc.stage \in {"saved", "written"} /\ proc.out.checkpoint # None
            => proc.out.checkpoint \in files
      /\ orphan.proc.stage \in {"saved", "written"} /\ orphan.proc.out.checkpoint # None
            => orphan.proc.out.checkpoint \in files
  BY <1>1 DEF IInv, Kept
<1>3. pc' \notin {"reclaim", "archive"}
  <2>1. ~Archive
    <3>1. disk \in Manifest
      BY DEF IInv, Typed
    <3> QED
      BY <3>1 DEF Archive, Manifest
  <2>2. then \in {"loop", "launch", "materialize", "divide"}
    BY DEF IInv, Typed
  <2> QED
    BY <1>1, <1>2, <2>1, <2>2
       DEF Next, Run, Solve, Survive, Commands, Trouble, vars, Quiet, DiskOk, DiskLow,
         Reclaimed, Boot, Begin, ArchiveCopy, ArchiveUnlink, DeleteRetired, CommandDone, StartBranch,
         FinishIfDone, AllocateAttempt, BeginExtension, Launch, ReapNothing, ReapStatus, Consume,
         AfterExtension, AllocatePartition, BeginSplit, Materialize, ReapSplit, Divide, AfterSplit,
         SolverSave, SolverReport, SolverExit, OrphanSave, OrphanReport, OrphanExit, Resume,
         Configure, SolverDie, Interrupt, Crash
<1>4. \A k \in DOMAIN status' : status'[k].checkpoint # None => status'[k].checkpoint \in files'
  BY <1>1, <1>2, StatusFrom
<1>5. /\ proc'.stage \in {"saved", "written"} /\ proc'.out.checkpoint # None
            => proc'.out.checkpoint \in files'
      /\ orphan'.proc.stage \in {"saved", "written"} /\ orphan'.proc.out.checkpoint # None
            => orphan'.proc.out.checkpoint \in files'
  BY <1>1, <1>2, SavedSteps, OrphanSavedSteps
<1>6. Restartable'
  <2> SUFFICES ASSUME NEW b \in Open' PROVE b.initial \/ b.checkpoint \in files'
    BY DEF Restartable
  <2>1. ~Unloadable
    BY <1>2 DEF Unloadable
  <2> QED
    BY <1>1, <1>2, <2>1, OpenStep DEF Restartable
<1> QED
  BY <1>3, <1>4, <1>5, <1>6 DEF Kept

-----------------------------------------------------------------------------
LEMMA RootStarts ==
  /\ RootBranch \in Branch /\ RootBranch.checkpoint = None /\ RootBranch.initial
  /\ RootBranch.id = <<0, 0>> /\ RootBranch.depth = 0
  /\ Extending(RootBranch) \in Operation /\ Extending(RootBranch).action = "extend"
  /\ Extending(RootBranch).attempt = None /\ Extending(RootBranch).branch = RootBranch
  /\ Extending(RootBranch).partition = None
<1>1. RootBranch \in Branch /\ RootBranch.checkpoint = None /\ RootBranch.initial
      /\ RootBranch.id = <<0, 0>> /\ RootBranch.depth = 0
  BY DEF RootBranch, Branch, Name
<1> QED
  BY <1>1 DEF Extending, Operation

\* The invariant holds when a search is created.
LEMMA IInvInit ==
  ASSUME Init
  PROVE  IInv
<1>1. /\ disk.state = "running" /\ disk.outcome = "none" /\ disk.traversal \in Traversals
      /\ disk.retention \in Retentions /\ disk.active = Extending(RootBranch) /\ disk.stack = <<>>
      /\ disk.nextAttempt = 1 /\ disk.nextPartition = 1
      /\ disk.terminal = [r \in {"exhausted", "halt", "completion"} |-> 0]
      /\ disk.completed = [d \in Depth |-> 0] /\ disk.results = {}
  BY DEF Init
<1>2. /\ files = {} /\ archive = {} /\ status = <<>> /\ DOMAIN status = {}
      /\ pc = "begin" /\ then = "loop" /\ noted = FALSE /\ proc = NoProc /\ orphan = NoOrphan
  BY DEF Init
<1>3. RootBranch \in Branch /\ RootBranch.checkpoint = None /\ RootBranch.initial
      /\ RootBranch.id = <<0, 0>> /\ RootBranch.depth = 0
  BY RootStarts
<1>4. /\ Extending(RootBranch) \in Operation /\ Extending(RootBranch).action = "extend"
      /\ Extending(RootBranch).attempt = None /\ Extending(RootBranch).branch = RootBranch
      /\ Extending(RootBranch).partition = None
  BY RootStarts
<1>5. active = Extending(RootBranch) /\ active # None /\ branch = RootBranch
  BY <1>1, <1>4, NoneAssumption DEF active, branch
<1>6. NoProc \in Process /\ NoProc.stage = "none" /\ NoOrphan.proc = NoProc
      /\ NoOrphan \in [proc : Process, of : Operation \cup {None}]
  BY ProcessTypes DEF NoProc, NoOrphan
<1>7. disk \in Manifest
  <2>1. /\ [r \in {"exhausted", "halt", "completion"} |-> 0] \in [Ledger!Final -> Nat]
        /\ [d \in Depth |-> 0] \in [Depth -> Nat]
    BY DEF Ledger!Final
  <2>2. disk \in [state: {"running"}, outcome: {"none"}, traversal: Traversals, retention: Retentions,
               active: {Extending(RootBranch)}, stack: {<<>>}, nextAttempt: {1},
               nextPartition: {1}, terminal: {[r \in {"exhausted", "halt", "completion"} |-> 0]},
               completed: {[d \in Depth |-> 0]}, results: {{}}]
    BY DEF Init
  <2>3. <<>> \in Seq(Branch) /\ 1 \in Nat \ {0}
    OBVIOUS
  <2> QED
    BY <1>4, <2>1, <2>2, <2>3 DEF Manifest
<1>8. Typed
  BY <1>2, <1>6, <1>7 DEF Typed, Label
<1>9. Open = {RootBranch}
  BY <1>1, <1>5 DEF Open, ToSet
<1>10. Control /\ Noted /\ Reports /\ Divisible
  BY <1>1, <1>2, <1>6 DEF Control, Noted, Reports, Divisible, At
<1>11. Naming
  <2>1. Ids = {<<0, 0>>}
    BY <1>1, <1>3, <1>9 DEF Ids
  <2>2. ~(disk.terminal["halt"] > 0)
    BY <1>1
  <2>3. Len(disk.stack) = 0
    BY <1>1
  <2> QED
    BY <1>1, <1>4, <1>5, <2>1, <2>2, <2>3 DEF Naming, Distinct
<1>12. Capped
  BY <1>1, <1>2, <1>4, <1>5, <1>6 DEF Capped
<1>13. Ordered
  <2>1. Len(disk.stack) = 0
    BY <1>1
  <2> QED
    BY <2>1 DEF Ordered
<1>14. LiveKept /\ Held /\ NothingLost /\ Kept
  BY <1>2, <1>3, <1>6, <1>9 DEF LiveKept, Held, NothingLost, Kept, Restartable, At
<1> QED
  BY <1>8, <1>10, <1>11, <1>12, <1>13, <1>14 DEF IInv

LEMMA IInvStep ==
  ASSUME IInv, [Next]_vars
  PROVE  IInv'
  BY TypedStep, ControlStep, NotedStep, ReportsStep, DivisibleStep, NamingStep, CappedStep,
     OrderedStep, LiveKeptStep, HeldStep, NothingLostStep, KeptStep DEF IInv

\* The invariant is inductive.
THEOREM ManagerInvariant == Spec => []IInv
<1>1. Init => IInv
  BY IInvInit
<1>2. IInv /\ [Next]_vars => IInv'
  BY IInvStep
<1> QED
  BY <1>1, <1>2, PTL DEF Spec

\* live_checkpoint_paths and the retirement of the rest: for any number of parts, of splits,
\* crashes and surviving solvers, no payload goes that the saved manifest names.
THEOREM LivePayloadsKept == Spec => []LiveKept
  BY ManagerInvariant, PTL DEF IInv

\* archive_checkpoint: without deletion configured, what a status names is in one of the two
\* directories.
THEOREM PayloadsNotLost == Spec => []NothingLost
  BY ManagerInvariant, PTL DEF IInv

\* With payloads kept where they are, every open branch can be resumed.
THEOREM KeptSearchRestartable == Spec => [](disk.retention = "keep" => Restartable)
<1>1. IInv => (disk.retention = "keep" => Restartable)
  BY DEF IInv, Kept
<1> QED
  BY <1>1, ManagerInvariant, PTL


\* The same for the searches that are run with payloads kept.
THEOREM KeepingSearchesRestartable ==
  ASSUME Retentions = {"keep"} PROVE Spec => []Restartable
<1>1. IInv => Restartable
  BY DEF IInv, Kept, Typed, Manifest
<1> QED
  BY <1>1, ManagerInvariant, PTL

\* run_command's `interrupted' and its callers: after a noted Ctrl-C, whatever the solver
\* makes of it, this manager starts no other one.
THEOREM PauseHonoured == Spec => PauseHolds
<1>1. ASSUME IInv, [Next]_vars
      PROVE  [proc.stage = "none" /\ proc'.stage = "run" => ~noted]_vars
  <2> SUFFICES ASSUME proc.stage = "none", proc'.stage = "run" PROVE ~noted
    BY <1>1
  <2>1. ~SolverSave /\ ~SolverReport /\ ~SolverExit /\ ~SolverDie /\ ~Interrupt
    BY DEF SolverSave, SolverReport, SolverExit, SolverDie, Interrupt, Working
  <2>2. \/ proc' = proc \/ proc' = NoProc
        \/ (Launch \/ Materialize) /\ proc' = Started(1)
        \/ SolverSave \/ SolverReport \/ SolverExit \/ SolverDie \/ Interrupt
    BY <1>1, ProcSteps
  <2>3. NoProc.stage = "none"
    BY DEF NoProc
  <2>4. Launch \/ Materialize
    BY <2>1, <2>2, <2>3
  <2>5. pc \in {"launch", "materialize"}
    BY <2>4 DEF Launch, Materialize
  <2> QED
    BY <1>1, <2>5 DEF IInv, Noted
<1> QED
  BY <1>1, ManagerInvariant, PTL DEF Spec, PauseHolds

\* queue_children and start_branch: however often the search is divided, a breadth-first
\* one goes on with one of its shallowest branches.
THEOREM ShallowestGoesFirst == Spec => ShallowestFirst
<1>1. ASSUME IInv, [Next]_vars
      PROVE  [active = None /\ active' # None /\ disk.traversal = "bfs" =>
                 \A b \in Open : active'.branch.depth <= b.depth]_vars
  <2> SUFFICES ASSUME active = None, active' # None, disk.traversal = "bfs", NEW b \in Open
               PROVE  active'.branch.depth <= b.depth
    BY <1>1
  <2>1. StartBranch
    <3>1. CASE Idle \/ Booking
      BY <1>1, <3>1, DiskBooking, NoneAssumption DEF IInv, Bookkept, active
    <3>2. CASE AllocateAttempt \/ AllocatePartition
      BY <1>1, <3>2, DiskAllocateAttempt, DiskAllocatePartition, NoneAssumption DEF IInv, active
    <3>3. CASE FinishIfDone
      BY <1>1, <3>3, DiskFinish DEF IInv, active
    <3>4. CASE Consume
      BY <1>1, <3>4, ConsumptionA, NoneAssumption DEF IInv
    <3>5. CASE Divide
      BY <1>1, <3>5, DivisionInputs, NoneAssumption DEF IInv
    <3> QED
      BY <1>1, <3>1, <3>2, <3>3, <3>4, <3>5, Steps
  <2> DEFINE s == disk.stack
             n == Len(disk.stack)
  <2>2. /\ s \in Seq(Branch) /\ n \in Nat \ {0} /\ disk'.active.branch = s[n]
    BY <1>1, <2>1, DiskStart DEF IInv
  <2>3. b \in ToSet(s)
    BY DEF Open
  <2>4. PICK i \in 1 .. n : b = s[i]
    BY <2>2, <2>3 DEF ToSet
  <2>5. i < n => s[i].depth >= s[n].depth
    BY <1>1, <2>2 DEF IInv, Ordered
  <2>6. s[i].depth \in Nat /\ s[n].depth \in Nat
    <3>1. s[i] \in Branch /\ s[n] \in Branch
      BY <2>2
    <3> QED
      BY <3>1 DEF Branch
  <2>7. s[n].depth <= s[i].depth
    BY <2>2, <2>5, <2>6
  <2> QED
    BY <2>2, <2>4, <2>7 DEF active
<1> QED
  BY <1>1, ManagerInvariant, PTL DEF Spec, ShallowestFirst

-----------------------------------------------------------------------------
\* The refinement: what each step of the manifest is to the ledger.
OpenIds == {b.id : b \in Open}

LEMMA OpenIdsOf ==
  ASSUME NEW m \in Manifest
  PROVE  {b.id : b \in OpenOf(m)} = {m.stack[i].id : i \in 1 .. Len(m.stack)}
                                    \cup (IF m.active = None THEN {} ELSE {m.active.branch.id})
<1>1. m.stack \in Seq(Branch)
  BY DEF Manifest
<1>2. ToSet(m.stack) = {m.stack[i] : i \in 1 .. Len(m.stack)}
  BY <1>1 DEF ToSet
<1> QED
  BY <1>2 DEF OpenOf

LEMMA LedgerStutters ==
  ASSUME disk'.results = disk.results, disk'.outcome = disk.outcome, OpenIds' = OpenIds
  PROVE  UNCHANGED Ledger!vars
  BY DEF Ledger!vars, OpenIds

LEMMA SameOpenIds ==
  ASSUME disk'.stack = disk.stack, active = None <=> active' = None,
         active # None => branch'.id = branch.id
  PROVE  OpenIds' = OpenIds
  BY DEF OpenIds, Open

LEMMA LedgerKeeps ==
  ASSUME IInv, [Next]_vars, Idle \/ Booking \/ AllocateAttempt \/ AllocatePartition
  PROVE  UNCHANGED Ledger!vars
<1> USE DEF IInv
<1>0. None \notin Operation
  BY NoneAssumption
<1>1. CASE Idle \/ Booking
  BY <1>0, <1>1, DiskBooking, SameOpenIds, LedgerStutters DEF Bookkept, active, branch
<1>2. CASE AllocateAttempt
  BY <1>0, <1>2, DiskAllocateAttempt, SameOpenIds, LedgerStutters DEF active, branch
<1>3. CASE AllocatePartition
  BY <1>0, <1>3, DiskAllocatePartition, SameOpenIds, LedgerStutters DEF active, branch
<1> QED
  BY <1>1, <1>2, <1>3

LEMMA LedgerStarts ==
  ASSUME IInv, [Next]_vars, StartBranch
  PROVE  UNCHANGED Ledger!vars
<1> DEFINE s == disk.stack
           t == disk'.stack
           n == Len(disk.stack)
<1>1. /\ n \in Nat \ {0} /\ disk.active = None
      /\ disk' \in Manifest /\ disk'.results = disk.results /\ disk'.outcome = disk.outcome
      /\ disk'.active \in Operation /\ disk'.active.branch = s[n]
      /\ Len(t) = n - 1 /\ \A i \in 1 .. n - 1 : t[i] = s[i]
  BY DiskStart DEF IInv
<1>2. disk \in Manifest /\ disk'.active # None
  BY <1>1, NoneAssumption DEF IInv, Typed
<1>3. OpenIds = {s[i].id : i \in 1 .. n}
  BY <1>1, <1>2, IdsAre, OpenIdsOf DEF OpenIds
<1>4. OpenIds' = {t[i].id : i \in 1 .. n - 1} \cup {s[n].id}
  BY <1>1, <1>2, IdsAre, OpenIdsOf DEF OpenIds
<1> HIDE DEF s, t, n
<1>5. {t[i].id : i \in 1 .. n - 1} = {s[i].id : i \in 1 .. n - 1}
  BY <1>1
<1>6. \A i \in 1 .. n : i \in 1 .. n - 1 \/ i = n
  BY <1>1
<1>7. (\A i \in 1 .. n - 1 : i \in 1 .. n) /\ n \in 1 .. n
  BY <1>1
<1>8. OpenIds' = OpenIds
  BY <1>3, <1>4, <1>5, <1>6, <1>7
<1> QED
  BY <1>1, <1>8, LedgerStutters

LEMMA LedgerFinishes ==
  ASSUME IInv, [Next]_vars, FinishIfDone
  PROVE  Ledger!Finish
<1>1. /\ disk.active = None /\ disk.stack = <<>> /\ disk'.active = None /\ disk'.stack = <<>>
      /\ disk'.results = disk.results
      /\ disk'.outcome = IF disk.terminal["halt"] > 0 THEN "halt" ELSE "exhausted"
  BY DiskFinish DEF IInv
<1>2. disk.outcome = "none"
  BY DEF IInv, Control, FinishIfDone
<1>3. disk.terminal["halt"] > 0 <=> \E r \in disk.results : r[2] = "halt"
  BY DEF IInv, Naming
<1>4. Open = {} /\ Open' = {}
  BY <1>1 DEF Open, ToSet, active
<1> QED
  BY <1>1, <1>2, <1>3, <1>4 DEF Ledger!Finish

LEMMA LedgerCloses ==
  ASSUME IInv, [Next]_vars, Consume
  PROVE  (\E b \in OpenIds, reason \in Ledger!Final : Ledger!Close(b, reason)) \/ UNCHANGED Ledger!vars
<1> DEFINE s == status[<<0, active.attempt>>]
<1>1. active # None /\ disk.outcome = "none" /\ disk.active = active /\ disk \in Manifest
  BY ConsumptionA, NoneAssumption DEF IInv, active, Typed
<1>2. CASE Continued(s)
  <2>1. OpenIds' = OpenIds
    BY <1>1, <1>2, SameOpenIds, NoneAssumption DEF Continued, SameSearch, active, branch
  <2> QED
    BY <1>2, <2>1, LedgerStutters DEF Continued, SameSearch
<1>3. CASE Concluded(s)
  <2>1. /\ s.reason \in Ledger!Final
        /\ disk'.results = disk.results \cup {<<branch.id, s.reason>>}
        /\ disk'.active = None /\ disk'.stack = disk.stack /\ disk' \in Manifest
        /\ disk'.outcome = IF s.reason = "completion" THEN "completion" ELSE "none"
    BY <1>3 DEF Concluded, Closes
  <2>2. branch.id \in OpenIds
    BY <1>1 DEF OpenIds, Open
  <2>3. OpenIds = {disk.stack[i].id : i \in 1 .. Len(disk.stack)} \cup {branch.id}
    BY <1>1, IdsAre, OpenIdsOf DEF OpenIds, branch
  <2>4. OpenIds' = {disk.stack[i].id : i \in 1 .. Len(disk.stack)}
    BY <2>1, IdsAre, OpenIdsOf DEF OpenIds
  <2>5. \A i \in 1 .. Len(disk.stack) : disk.stack[i].id # branch.id
    BY <1>1 DEF IInv, Naming
  <2>6. OpenIds' = OpenIds \ {branch.id}
    BY <2>3, <2>4, <2>5
  <2>7. disk'.outcome = Ledger!Decided({<<branch.id, s.reason>>}, "none")
    BY <2>1 DEF Ledger!Decided
  <2> HIDE DEF s
  <2>8. PICK b, reason : b = branch.id /\ reason = s.reason
    OBVIOUS
  <2>9. Ledger!Close(b, reason)
    BY <1>1, <2>1, <2>2, <2>6, <2>7, <2>8 DEF Ledger!Close, OpenIds
  <2> QED
    BY <2>1, <2>2, <2>8, <2>9
<1> QED
  BY <1>2, <1>3, Consumption DEF IInv


\* The results of the ended parts are what the ledger lets a split report.
LEMMA EndedReported ==
  ASSUME Typed, Control, Divisible, Divide
  PROVE  Ended \in Ledger!Reports(active.partition)
<1> DEFINE K == (1 .. Parts) \ Goes
           f == [k \in K |-> read[k].reason]
<1>1. Ended = {<<<<active.partition, k>>, read[k].reason>> : k \in K}
  BY EndedTyped
<1>2. \A k \in K : read[k].reason \in Ledger!Final
  BY DivisionInputs DEF Goes
<1>3. f \in [K -> Ledger!Final]
  BY <1>2
<1>4. Ended = {<<<<active.partition, k>>, f[k]>> : k \in K}
  BY <1>1
<1>5. K \in SUBSET (1 .. Parts)
  OBVIOUS
<1> HIDE DEF K, f
<1>6. Ended \in {{<<<<active.partition, k>>, g[k]>> : k \in K} : g \in [K -> Ledger!Final]}
  BY <1>3, <1>4
<1>7. {{<<<<active.partition, k>>, g[k]>> : k \in K} : g \in [K -> Ledger!Final]}
        \in {{{<<<<active.partition, k>>, g[k]>> : k \in J} : g \in [J -> Ledger!Final]} :
               J \in SUBSET (1 .. Parts)}
  BY <1>5
<1> QED
  BY <1>6, <1>7 DEF Ledger!Reports

LEMMA LedgerDivides ==
  ASSUME IInv, [Next]_vars, Divide
  PROVE  \E b \in OpenIds, s \in Partition :
           \E results \in Ledger!Reports(s) : Ledger!Divide(b, s, results)
<1>1. PICK b, s, results : b = branch.id /\ s = active.partition /\ results = Ended
  OBVIOUS
<1> DEFINE parts == {<<s, k>> : k \in 1 .. Parts}
<1>2. /\ Typed /\ Control /\ Divisible /\ Naming /\ disk \in Manifest
      /\ active # None /\ active = disk.active /\ active.action = "split" /\ s \in Nat /\ s # None
      /\ disk.outcome = "none"
  BY <1>1, DivisionInputs, NoneAssumption DEF IInv, Typed, active
<1>3. s \in Partition /\ \A id \in Ids : id[1] # s
  BY <1>1, <1>2 DEF Naming
<1>4. b \in OpenIds
  BY <1>1, <1>2 DEF OpenIds, Open
<1>5. results \in Ledger!Reports(s)
  BY <1>1, <1>2, EndedReported
<1>6. \A d \in OpenIds \cup {r[1] : r \in disk.results} : d \notin parts
  <2>1. \A d \in parts : d[1] = s
    OBVIOUS
  <2> QED
    BY <1>3, <2>1 DEF Ids, OpenIds
<1>7. /\ disk'.results = disk.results \cup results
      /\ disk'.stack = Queued(Children) /\ disk'.active = None
      /\ disk'.outcome = IF \E r \in results : r[2] = "completion" THEN "completion" ELSE "none"
  BY <1>1, <1>2, Division DEF Closes
<1>8. OpenIds' = (OpenIds \ {b}) \cup {d \in parts : \A r \in results : r[1] # d}
  <2>1. OpenIds' = {c.id : c \in ToSet(disk.stack) \cup {Child(k) : k \in Goes}}
    BY <1>2, <1>7, QueuedStack DEF OpenIds, Open, active
  <2>2. \A k : Child(k).id = <<s, k>>
    BY <1>1 DEF Child
  <2>3. {c.id : c \in ToSet(disk.stack)} = OpenIds \ {b}
    <3>1. OpenIds = {c.id : c \in ToSet(disk.stack)} \cup {b}
      BY <1>1, <1>2 DEF OpenIds, Open
    <3>2. \A c \in ToSet(disk.stack) : c.id # b
      <4>1. \A i \in 1 .. Len(disk.stack) : disk.stack[i].id # b
        BY <1>1, <1>2 DEF Naming
      <4>2. disk.stack \in Seq(Branch)
        BY <1>2 DEF Manifest
      <4> QED
        BY <4>1, <4>2 DEF ToSet
    <3> QED
      BY <3>1, <3>2
  <2>4. {<<s, k>> : k \in Goes} = {d \in parts : \A r \in results : r[1] # d}
    <3>1. results = {<<<<s, k>>, read[k].reason>> : k \in (1 .. Parts) \ Goes}
      BY <1>1, <1>2, EndedTyped
    <3>2. ASSUME NEW k \in 1 .. Parts
          PROVE  (\A r \in results : r[1] # <<s, k>>) <=> k \in Goes
      <4>1. CASE k \in Goes
        <5> SUFFICES ASSUME NEW r \in results PROVE r[1] # <<s, k>>
          BY <4>1
        <5>1. PICK j \in (1 .. Parts) \ Goes : r = <<<<s, j>>, read[j].reason>>
          BY <3>1
        <5> QED
          BY <4>1, <5>1
      <4>2. CASE k \notin Goes
        <5>1. <<<<s, k>>, read[k].reason>> \in results
          BY <3>1, <4>2
        <5> QED
          BY <4>2, <5>1
      <4> QED
        BY <4>1, <4>2
    <3>3. Goes \subseteq 1 .. Parts
      BY DEF Goes
    <3> QED
      BY <3>2, <3>3
  <2>5. OpenIds' = {c.id : c \in ToSet(disk.stack)} \cup {<<s, k>> : k \in Goes}
    BY <2>1, <2>2
  <2> QED
    BY <2>3, <2>4, <2>5
<1>9. Ledger!Divide(b, s, results)
  BY <1>2, <1>4, <1>6, <1>7, <1>8 DEF Ledger!Divide, Ledger!Decided, OpenIds
<1> QED
  BY <1>3, <1>4, <1>5, <1>9

\* Manager implements SearchLedger: through crashes, solvers that outlive their manager, stale
\* statuses and any number of splits, no branch is dropped, closed twice or divided twice, and
\* the outcome is decided once.
THEOREM ManagerKeepsLedger == Spec => LedgerKept
<1>1. Init => Ledger!Init
  <2> SUFFICES ASSUME Init PROVE Ledger!Init
    OBVIOUS
  <2>1. /\ disk.outcome = "none" /\ disk.active = Extending(RootBranch) /\ disk.stack = <<>>
        /\ disk.results = {}
    BY DEF Init
  <2>2. Extending(RootBranch) # None /\ Extending(RootBranch).branch = RootBranch
    BY RootStarts, NoneAssumption
  <2>3. Open = {RootBranch}
    BY <2>1, <2>2 DEF Open, ToSet, active, branch
  <2> QED
    BY <2>1, <2>3, RootStarts DEF Ledger!Init
<1>2. ASSUME IInv, [Next]_vars
      PROVE  [Ledger!Next]_(Ledger!vars)
  <2>1. CASE Idle \/ Booking \/ AllocateAttempt \/ AllocatePartition
    BY <1>2, <2>1, LedgerKeeps
  <2>2. CASE StartBranch
    BY <1>2, <2>2, LedgerStarts
  <2>3. CASE FinishIfDone
    BY <1>2, <2>3, LedgerFinishes DEF Ledger!Next
  <2>4. CASE Consume
    BY <1>2, <2>4, LedgerCloses DEF Ledger!Next, OpenIds
  <2>5. CASE Divide
    BY <1>2, <2>5, LedgerDivides DEF Ledger!Next, OpenIds
  <2> QED
    BY <1>2, <2>1, <2>2, <2>3, <2>4, <2>5, Steps
<1> QED
  BY <1>1, <1>2, ManagerInvariant, PTL DEF Spec, LedgerKept, Ledger!Spec

-----------------------------------------------------------------------------
\* Every set of numbers that contains 0 and with each number the next is Nat: induction.
LEMMA AllNumbers ==
  ASSUME NEW G \in SUBSET Nat, 0 \in G, \A n \in G : n + 1 \in G
  PROVE  G = Nat
<1>1. SUFFICES ASSUME Nat \ G # {} PROVE FALSE
  OBVIOUS
<1>2. PICK m \in Nat \ G : \A k \in Nat \ G : m <= k
  BY <1>1, Least
<1>3. m - 1 \in Nat /\ m - 1 \in G
  BY <1>2
<1> QED
  BY <1>2, <1>3

\* f is defined up to n by the linear recurrence with factors p and summands q.
Recurs(f, p, q, D) ==
  f = [n \in D |-> q[n] + (IF n = 0 THEN 0 ELSE p[n] * f[n - 1])]

LEMMA RecursUpTo ==
  ASSUME NEW p \in [Nat -> Int], NEW q \in [Nat -> Int], NEW n \in Nat
  PROVE  \E f \in [0 .. n -> Int] : Recurs(f, p, q, 0 .. n)
<1> DEFINE G == {m \in Nat : \E f \in [0 .. m -> Int] : Recurs(f, p, q, 0 .. m)}
<1>1. 0 \in G
  <2> DEFINE f == [m \in 0 .. 0 |-> q[m]]
  <2>1. f \in [0 .. 0 -> Int]
    OBVIOUS
  <2>2. Recurs(f, p, q, 0 .. 0)
    BY DEF Recurs
  <2> QED
    BY <2>1, <2>2
<1>2. ASSUME NEW m \in G PROVE m + 1 \in G
  <2>1. PICK f \in [0 .. m -> Int] : Recurs(f, p, q, 0 .. m)
    OBVIOUS
  <2>2. m \in Nat
    OBVIOUS
  <2> DEFINE e == q[m + 1] + (p[m + 1] * f[m])
             g == [i \in 0 .. m + 1 |-> IF i = m + 1 THEN e ELSE f[i]]
  <2>3. e \in Int
    <3>1. q[m + 1] \in Int /\ p[m + 1] \in Int /\ f[m] \in Int
      BY <2>2
    <3> QED
      BY <3>1
  <2> HIDE DEF e
  <2>4. g \in [0 .. m + 1 -> Int]
    BY <2>2, <2>3
  <2>5. \A i \in 0 .. m : f[i] = q[i] + (IF i = 0 THEN 0 ELSE p[i] * f[i - 1])
    BY <2>1 DEF Recurs
  <2>6. ASSUME NEW i \in 0 .. m + 1
        PROVE  g[i] = q[i] + (IF i = 0 THEN 0 ELSE p[i] * g[i - 1])
    <3>1. CASE i = m + 1
      <4>1. i # 0 /\ i - 1 = m /\ g[m] = f[m] /\ g[i] = e
        BY <2>2, <3>1
      <4> QED
        BY <3>1, <4>1 DEF e
    <3>2. CASE i \in 0 .. m
      <4>1. g[i] = f[i] /\ (i # 0 => i - 1 \in 0 .. m /\ g[i - 1] = f[i - 1])
        BY <2>2, <3>2
      <4> QED
        BY <2>5, <3>2, <4>1
    <3> QED
      BY <2>2, <3>1, <3>2
  <2>7. Recurs(g, p, q, 0 .. m + 1)
    BY <2>4, <2>6 DEF Recurs
  <2> QED
    BY <2>2, <2>4, <2>7
<1> HIDE DEF G
<1>3. G = Nat
  <2>1. G \in SUBSET Nat
    BY DEF G
  <2> QED
    BY <1>1, <1>2, <2>1, AllNumbers
<1> QED
  BY <1>3 DEF G

LEMMA RecursAlike ==
  ASSUME NEW p \in [Nat -> Int], NEW q \in [Nat -> Int], NEW m \in Nat, NEW n \in Nat, 
         NEW f \in [0 .. m -> Int], NEW g \in [0 .. n -> Int],
         Recurs(f, p, q, 0 .. m), Recurs(g, p, q, 0 .. n)
  PROVE  \A i \in Nat : i <= m /\ i <= n => f[i] = g[i]
<1> DEFINE G == {i \in Nat : i <= m /\ i <= n => f[i] = g[i]}
<1>1. /\ \A i \in 0 .. m : f[i] = q[i] + (IF i = 0 THEN 0 ELSE p[i] * f[i - 1])
      /\ \A i \in 0 .. n : g[i] = q[i] + (IF i = 0 THEN 0 ELSE p[i] * g[i - 1])
  BY DEF Recurs
<1>2. 0 \in G
  BY <1>1
<1>3. ASSUME NEW i \in G PROVE i + 1 \in G
  <2> SUFFICES ASSUME i + 1 <= m, i + 1 <= n PROVE f[i + 1] = g[i + 1]
    OBVIOUS
  <2>1. /\ i + 1 \in 0 .. m /\ i + 1 \in 0 .. n /\ i + 1 # 0 /\ (i + 1) - 1 = i
        /\ f[i] = g[i]
    OBVIOUS
  <2> QED
    BY <1>1, <2>1
<1>4. G = Nat
  <2>1. G \in SUBSET Nat
    OBVIOUS
  <2> HIDE DEF G
  <2> QED
    BY <1>2, <1>3, <2>1, AllNumbers
<1> QED
  BY <1>4

\* The recurrence defines a function on all numbers.
LEMMA RecursEverywhere ==
  ASSUME NEW p \in [Nat -> Int], NEW q \in [Nat -> Int]
  PROVE  \E f \in [Nat -> Int] : Recurs(f, p, q, Nat)
<1> DEFINE upTo(n) == CHOOSE f \in [0 .. n -> Int] : Recurs(f, p, q, 0 .. n)
           f == [n \in Nat |-> upTo(n)[n]]
<1>1. \A n \in Nat : upTo(n) \in [0 .. n -> Int] /\ Recurs(upTo(n), p, q, 0 .. n)
  BY RecursUpTo
<1> HIDE DEF upTo
<1>2. f \in [Nat -> Int]
  BY <1>1
<1>3. ASSUME NEW n \in Nat
      PROVE  f[n] = q[n] + (IF n = 0 THEN 0 ELSE p[n] * f[n - 1])
  <2>1. n \in 0 .. n
    OBVIOUS
  <2>2. upTo(n)[n] = q[n] + (IF n = 0 THEN 0 ELSE p[n] * upTo(n)[n - 1])
    BY <1>1, <2>1 DEF Recurs
  <2>3. CASE n # 0
    <3>1. n - 1 \in Nat /\ n - 1 <= n /\ n - 1 <= n - 1
      BY <2>3
    <3>2. upTo(n)[n - 1] = upTo(n - 1)[n - 1]
      BY <1>1, <3>1, RecursAlike, ZenonT(60)
    <3> QED
      BY <2>2, <2>3, <3>1, <3>2
  <2> QED
    BY <2>2, <2>3
<1>4. Recurs(f, p, q, Nat)
  BY <1>3 DEF Recurs
<1> QED
  BY <1>2, <1>4

LEMMA PowerOf ==
  /\ Power \in [Nat -> Int] /\ Power[0] = 1
  /\ \A n \in Nat : Power[n + 1] = Parts * Power[n]
<1> DEFINE p == [n \in Nat |-> Parts]
           q == [n \in Nat |-> IF n = 0 THEN 1 ELSE 0]
           Def(f) == f = [n \in Nat |-> IF n = 0 THEN 1 ELSE Parts * f[n - 1]]
<1>1. p \in [Nat -> Int] /\ q \in [Nat -> Int] /\ Parts \in Nat
  BY ManagerAssumption
<1>2. PICK f \in [Nat -> Int] : Recurs(f, p, q, Nat)
  BY <1>1, RecursEverywhere
<1>3. Def(f)
  <2>1. ASSUME NEW n \in Nat PROVE f[n] = IF n = 0 THEN 1 ELSE Parts * f[n - 1]
    <3>1. f[n] = q[n] + (IF n = 0 THEN 0 ELSE p[n] * f[n - 1])
      BY <1>2 DEF Recurs
    <3>2. n # 0 => n - 1 \in Nat /\ f[n - 1] \in Int /\ Parts * f[n - 1] \in Int
      BY <1>1
    <3> QED
      BY <3>1, <3>2
  <2> QED
    BY <2>1
<1>4. Power = CHOOSE g : Def(g)
  BY DEF Power
<1>5. Def(Power)
  BY <1>3, <1>4
<1> HIDE DEF p, q
<1>6. \A n \in Nat : Power[n] = IF n = 0 THEN 1 ELSE Parts * Power[n - 1]
  BY <1>5
<1>7. Power \in [Nat -> Int]
  <2> DEFINE G == {n \in Nat : Power[n] \in Int}
  <2>1. 0 \in G /\ \A n \in G : n + 1 \in G
    BY <1>1, <1>6
  <2>2. G \in SUBSET Nat
    OBVIOUS
  <2> HIDE DEF G
  <2>3. G = Nat
    BY <2>1, <2>2, AllNumbers
  <2>4. \A n \in Nat : Power[n] \in Int
    BY <2>3 DEF G
  <2>5. DOMAIN Power = Nat /\ Power = [n \in DOMAIN Power |-> Power[n]]
    BY <1>5
  <2> QED
    BY <2>4, <2>5
<1> QED
  BY <1>6, <1>7

LEMMA PowerSum ==
  ASSUME NEW a \in Nat, NEW b \in Nat
  PROVE  Power[a + b] = Power[a] * Power[b]
<1> DEFINE G == {n \in Nat : Power[a + n] = Power[a] * Power[n]}
<1>1. \A n \in Nat : Power[n] \in Int
  BY PowerOf
<1>2. 0 \in G
  BY <1>1, PowerOf
<1>3. ASSUME NEW n \in G PROVE n + 1 \in G
  <2>1. Power[(a + n) + 1] = Parts * Power[a + n] /\ Power[n + 1] = Parts * Power[n]
    BY PowerOf
  <2>2. Power[a + n] = Power[a] * Power[n]
    OBVIOUS
  <2> DEFINE x == Power[a]
             y == Power[n]
  <2>3. x \in Int /\ y \in Int /\ Parts \in Int
    BY <1>1, ManagerAssumption
  <2>4. Power[(a + n) + 1] = Parts * (x * y) /\ Power[n + 1] = Parts * y
    BY <2>1, <2>2
  <2> HIDE DEF x, y
  <2>5. Parts * (x * y) = x * (Parts * y)
    BY <2>3
  <2>6. Power[(a + n) + 1] = x * Power[n + 1]
    BY <2>4, <2>5
  <2>7. (a + n) + 1 = a + (n + 1)
    OBVIOUS
  <2> QED
    BY <2>6, <2>7 DEF x
<1>4. G = Nat
  <2>1. G \in SUBSET Nat
    OBVIOUS
  <2> HIDE DEF G
  <2> QED
    BY <1>2, <1>3, <2>1, AllNumbers
<1> QED
  BY <1>4

LEMMA ShareOf ==
  /\ \A d \in Depth : Share(d) \in Int
  /\ \A d \in Depth : d + 1 \in Depth => Share(d) = Parts * Share(d + 1)
<1>1. \A d \in Depth : MaxPartitions - d \in Nat
  BY ManagerAssumption DEF Depth
<1>2. ASSUME NEW d \in Depth, d + 1 \in Depth PROVE Share(d) = Parts * Share(d + 1)
  <2>1. MaxPartitions - d = (MaxPartitions - (d + 1)) + 1 /\ MaxPartitions - (d + 1) \in Nat
    BY <1>2, ManagerAssumption DEF Depth
  <2> QED
    BY <2>1, PowerOf DEF Share
<1> QED
  BY <1>1, <1>2, PowerOf DEF Share

\* s[d] is what the branches of depths up to d stand for.
AddsUp(s, n) ==
  /\ s \in [Depth -> Int] /\ Shares(n) = s[MaxPartitions]
  /\ s[0] = n[0] * Share(0)
  /\ \A d \in Depth : d + 1 \in Depth => s[d + 1] = (n[d + 1] * Share(d + 1)) + s[d]

LEMMA SharesAddUp ==
  ASSUME NEW n \in [Depth -> Int]
  PROVE  \E s : AddsUp(s, n)
<1> DEFINE p == [i \in Nat |-> 1]
           q == [i \in Nat |-> IF i \in Depth THEN n[i] * Share(i) ELSE 0]
           Def(s) == s = [d \in Depth |-> (n[d] * Share(d)) + (IF d = 0 THEN 0 ELSE s[d - 1])]
           upTo == CHOOSE s : Def(s)
<1>1. MaxPartitions \in Nat /\ Depth = 0 .. MaxPartitions
  BY ManagerAssumption DEF Depth
<1>2. p \in [Nat -> Int] /\ q \in [Nat -> Int]
  <2>1. ASSUME NEW i \in Depth PROVE n[i] * Share(i) \in Int
    <3>1. n[i] \in Int /\ Share(i) \in Int
      BY ShareOf
    <3> QED
      BY <3>1
  <2> QED
    BY <2>1
<1>3. PICK f \in [Depth -> Int] : Recurs(f, p, q, Depth)
  BY <1>1, <1>2, RecursUpTo
<1>4. Def(f)
  <2>1. ASSUME NEW d \in Depth
        PROVE  f[d] = (n[d] * Share(d)) + (IF d = 0 THEN 0 ELSE f[d - 1])
    <3>1. d \in Nat /\ f[d] = q[d] + (IF d = 0 THEN 0 ELSE p[d] * f[d - 1])
      BY <1>1, <1>3 DEF Recurs
    <3>2. d # 0 => d - 1 \in Depth /\ f[d - 1] \in Int /\ p[d] = 1
      BY <1>1
    <3>3. q[d] = n[d] * Share(d)
      BY <3>1
    <3> HIDE DEF q
    <3> QED
      BY <3>1, <3>2, <3>3
  <2> QED
    BY <2>1
<1>5. Def(upTo)
  BY <1>4
<1>6. Shares(n) = upTo[MaxPartitions]
  BY DEF Shares
<1> HIDE DEF upTo, p, q
<1>7. \A d \in Depth : upTo[d] = (n[d] * Share(d)) + (IF d = 0 THEN 0 ELSE upTo[d - 1])
  BY <1>5
<1>8. upTo = f
  <2> DEFINE G == {d \in Nat : d \in Depth => upTo[d] = f[d]}
  <2>1. \A d \in Depth : f[d] = (n[d] * Share(d)) + (IF d = 0 THEN 0 ELSE f[d - 1])
    BY <1>4
  <2>2. 0 \in G
    BY <1>7, <2>1
  <2>3. ASSUME NEW d \in G PROVE d + 1 \in G
    <3>1. d + 1 \in Depth => d \in Depth /\ d + 1 # 0 /\ (d + 1) - 1 = d
      BY <1>1
    <3> QED
      BY <1>7, <2>1, <3>1
  <2>4. G \in SUBSET Nat
    OBVIOUS
  <2> HIDE DEF G
  <2>5. G = Nat
    BY <2>2, <2>3, <2>4, AllNumbers
  <2>6. \A d \in Depth : upTo[d] = f[d]
    BY <1>1, <2>5 DEF G
  <2>7. upTo = [d \in Depth |-> upTo[d]] /\ f = [d \in Depth |-> f[d]]
    BY <1>5
  <2> QED
    BY <2>6, <2>7
<1>9. AddsUp(upTo, n)
  <2>1. 0 \in Depth /\ MaxPartitions \in Depth
    BY <1>1
  <2>2. upTo[0] = n[0] * Share(0)
    <3>1. n[0] \in Int /\ Share(0) \in Int
      BY <2>1, ShareOf
    <3>2. upTo[0] = (n[0] * Share(0)) + 0
      BY <1>7, <2>1
    <3> QED
      BY <3>1, <3>2
  <2>3. \A d \in Depth : d + 1 \in Depth => upTo[d + 1] = (n[d + 1] * Share(d + 1)) + upTo[d]
    <3>1. \A d \in Depth : d + 1 # 0 /\ (d + 1) - 1 = d
      BY <1>1
    <3> QED
      BY <1>7, <3>1
  <2> QED
    BY <1>6, <1>8, <2>2, <2>3 DEF AddsUp
<1> QED
  BY <1>9

\* Induction over the depths.
LEMMA AllDepths ==
  ASSUME NEW G \in SUBSET Depth, 0 \in G, \A d \in G : d + 1 \in Depth => d + 1 \in G
  PROVE  MaxPartitions \in G
<1> DEFINE H == {n \in Nat : n \in Depth => n \in G}
<1>1. MaxPartitions \in Nat /\ Depth = 0 .. MaxPartitions
  BY ManagerAssumption DEF Depth
<1>2. 0 \in H
  OBVIOUS
<1>3. \A n \in H : n + 1 \in H
  BY <1>1
<1>4. H \in SUBSET Nat
  OBVIOUS
<1> HIDE DEF H
<1>5. H = Nat
  BY <1>2, <1>3, <1>4, AllNumbers
<1> QED
  BY <1>1, <1>5 DEF H

\* What both stand for is what the sum of the counts stands for.
LEMMA SharesPlus ==
  ASSUME NEW n \in [Depth -> Int], NEW m \in [Depth -> Int]
  PROVE  LET both == [d \in Depth |-> n[d] + m[d]]
         IN  /\ Shares(n) \in Int /\ Shares(m) \in Int
             /\ Shares(both) = Shares(n) + Shares(m)
<1> DEFINE both == [d \in Depth |-> n[d] + m[d]]
<1>1. both \in [Depth -> Int]
  OBVIOUS
<1>2. PICK s : AddsUp(s, n)
  BY SharesAddUp
<1>3. PICK t : AddsUp(t, m)
  BY SharesAddUp
<1>4. PICK u : AddsUp(u, both)
  BY <1>1, SharesAddUp
<1>5. MaxPartitions \in Nat /\ Depth = 0 .. MaxPartitions /\ 0 \in Depth /\ MaxPartitions \in Depth
  BY ManagerAssumption DEF Depth
<1> DEFINE G == {d \in Depth : u[d] = s[d] + t[d]}
<1>6. \A d \in Depth : /\ n[d] \in Int /\ m[d] \in Int /\ Share(d) \in Int
                       /\ both[d] * Share(d) = (n[d] * Share(d)) + (m[d] * Share(d))
  <2> SUFFICES ASSUME NEW d \in Depth
               PROVE  /\ n[d] \in Int /\ m[d] \in Int /\ Share(d) \in Int
                      /\ both[d] * Share(d) = (n[d] * Share(d)) + (m[d] * Share(d))
    OBVIOUS
  <2>1. n[d] \in Int /\ m[d] \in Int /\ Share(d) \in Int /\ both[d] = n[d] + m[d]
    BY ShareOf
  <2>2. \A a, b, c \in Int : (a + b) * c = (a * c) + (b * c)
    OBVIOUS
  <2> QED
    BY <2>1, <2>2
<1>7. 0 \in G
  <2>1. u[0] = both[0] * Share(0) /\ s[0] = n[0] * Share(0) /\ t[0] = m[0] * Share(0)
    BY <1>2, <1>3, <1>4 DEF AddsUp
  <2> QED
    BY <1>5, <1>6, <2>1
<1>8. ASSUME NEW d \in G, d + 1 \in Depth PROVE d + 1 \in G
  <2> DEFINE e == d + 1
  <2>1. /\ u[e] = (both[e] * Share(e)) + u[d] /\ s[e] = (n[e] * Share(e)) + s[d]
        /\ t[e] = (m[e] * Share(e)) + t[d] /\ u[d] = s[d] + t[d]
    BY <1>2, <1>3, <1>4, <1>8 DEF AddsUp
  <2>2. s[d] \in Int /\ t[d] \in Int
    BY <1>2, <1>3 DEF AddsUp
  <2>3. /\ (n[e] * Share(e)) \in Int /\ (m[e] * Share(e)) \in Int
        /\ both[e] * Share(e) = (n[e] * Share(e)) + (m[e] * Share(e))
    <3>1. n[e] \in Int /\ m[e] \in Int /\ Share(e) \in Int
      BY <1>6, <1>8
    <3>2. (n[e] * Share(e)) \in Int /\ (m[e] * Share(e)) \in Int
      BY <3>1
    <3> QED
      BY <1>6, <1>8, <3>2
  <2> DEFINE x == n[e] * Share(e)
             y == m[e] * Share(e)
             z == both[e] * Share(e)
  <2>4. /\ u[e] = z + u[d] /\ s[e] = x + s[d] /\ t[e] = y + t[d] /\ u[d] = s[d] + t[d]
        /\ x \in Int /\ y \in Int /\ z = x + y
    BY <2>1, <2>3
  <2> HIDE DEF x, y, z, both
  <2>5. u[e] = s[e] + t[e]
    BY <2>2, <2>4
  <2> QED
    BY <1>8, <2>5
<1>9. u[MaxPartitions] = s[MaxPartitions] + t[MaxPartitions]
  <2>1. G \in SUBSET Depth
    OBVIOUS
  <2> HIDE DEF G
  <2>2. MaxPartitions \in G
    BY <1>7, <1>8, <2>1, AllDepths
  <2> QED
    BY <2>2 DEF G
<1>10. s[MaxPartitions] \in Int /\ t[MaxPartitions] \in Int
  BY <1>2, <1>3, <1>5 DEF AddsUp
<1> QED
  BY <1>2, <1>3, <1>4, <1>9, <1>10 DEF AddsUp

\* k branches at depth e stand for k shares of that depth.
LEMMA SharesAt ==
  ASSUME NEW e \in Depth, NEW k \in Int
  PROVE  Shares([d \in Depth |-> IF d = e THEN k ELSE 0]) = k * Share(e)
<1> DEFINE n == [d \in Depth |-> IF d = e THEN k ELSE 0]
<1>1. n \in [Depth -> Int]
  OBVIOUS
<1>2. PICK s : AddsUp(s, n)
  BY <1>1, SharesAddUp
<1>3. MaxPartitions \in Nat /\ Depth = 0 .. MaxPartitions /\ 0 \in Depth /\ MaxPartitions \in Depth
  BY ManagerAssumption DEF Depth
<1> DEFINE whole == k * Share(e)
           G == {d \in Depth : s[d] = IF d < e THEN 0 ELSE whole}
<1>4. whole \in Int
  <2>1. Share(e) \in Int
    BY ShareOf
  <2> QED
    BY <2>1
<1>5. \A d \in Depth : n[d] * Share(d) = IF d = e THEN whole ELSE 0
  <2> SUFFICES ASSUME NEW d \in Depth PROVE n[d] * Share(d) = IF d = e THEN whole ELSE 0
    OBVIOUS
  <2>1. Share(d) \in Int
    BY ShareOf
  <2>2. \A a \in Int : 0 * a = 0
    OBVIOUS
  <2> QED
    BY <2>1, <2>2
<1> HIDE DEF whole, n
<1>6. 0 \in G
  <2>1. s[0] = n[0] * Share(0)
    BY <1>2 DEF AddsUp
  <2> QED
    BY <1>3, <1>5, <2>1
<1>7. ASSUME NEW d \in G, d + 1 \in Depth PROVE d + 1 \in G
  <2>1. s[d + 1] = (n[d + 1] * Share(d + 1)) + s[d]
    BY <1>2, <1>7 DEF AddsUp
  <2>2. n[d + 1] * Share(d + 1) = IF d + 1 = e THEN whole ELSE 0
    BY <1>5, <1>7
  <2>3. s[d] = IF d < e THEN 0 ELSE whole
    OBVIOUS
  <2>4. d \in Nat /\ e \in Nat
    BY <1>3
  <2>5. s[d + 1] = IF d + 1 < e THEN 0 ELSE whole
    BY <1>4, <2>1, <2>2, <2>3, <2>4
  <2> QED
    BY <1>7, <2>5
<1>8. s[MaxPartitions] = whole
  <2>1. G \in SUBSET Depth
    OBVIOUS
  <2> HIDE DEF G
  <2>2. MaxPartitions \in G
    BY <1>6, <1>7, <2>1, AllDepths
  <2>3. ~(MaxPartitions < e)
    BY <1>3
  <2> QED
    BY <2>2, <2>3 DEF G
<1> QED
  BY <1>2, <1>8 DEF AddsUp, n, whole

\* There are k more branches at depth e.
More(n, m, e, k) ==
  /\ n \in [Depth -> Int] /\ m \in [Depth -> Int] /\ e \in Depth /\ k \in Int
  /\ \A d \in Depth : m[d] = IF d = e THEN n[d] + k ELSE n[d]

\* They stand for k more shares of that depth.
LEMMA SharesChange ==
  ASSUME NEW n, NEW m, NEW e, NEW k, More(n, m, e, k)
  PROVE  /\ Shares(n) \in Int /\ k * Share(e) \in Int
         /\ Shares(m) = Shares(n) + (k * Share(e))
<1> USE DEF More
<1> DEFINE c == [d \in Depth |-> IF d = e THEN k ELSE 0]
<1>1. c \in [Depth -> Int]
  OBVIOUS
<1>2. m = [d \in Depth |-> n[d] + c[d]]
  <2>1. \A d \in Depth : m[d] = n[d] + c[d]
    OBVIOUS
  <2> QED
    BY <2>1
<1>3. Shares(c) = k * Share(e)
  BY SharesAt
<1> HIDE DEF c
<1> QED
  BY <1>1, <1>2, <1>3, SharesPlus

\* Branches no deeper than t stand for a whole number of shares of depth t.
LEMMA SharesMultiple ==
  ASSUME NEW n \in [Depth -> Int], NEW t \in Nat, \A d \in Depth : d > t => n[d] = 0
  PROVE  \E k \in Int : Shares(n) * Power[t] = k * Share(0)
<1>1. PICK s : AddsUp(s, n)
  BY SharesAddUp
<1>2. MaxPartitions \in Nat /\ Depth = 0 .. MaxPartitions /\ 0 \in Depth /\ MaxPartitions \in Depth
  BY ManagerAssumption DEF Depth
<1> DEFINE w == Power[t]
           z == Share(0)
           G == {d \in Depth : \E k \in Int : s[d] * w = k * z}
<1>3. w \in Int /\ z \in Int
  BY <1>2, PowerOf, ShareOf
<1>4. ASSUME NEW d \in Depth PROVE \E k \in Int : (n[d] * Share(d)) * w = k * z
  <2>1. CASE d > t
    <3>1. n[d] = 0 /\ Share(d) \in Int
      BY <2>1, ShareOf
    <3>2. \A a, b \in Int : (0 * a) * b = 0 * b
      OBVIOUS
    <3>3. (n[d] * Share(d)) * w = 0 * z
      BY <1>3, <3>1, <3>2
    <3> QED
      BY <3>3
  <2>2. CASE d <= t
    <3>1. d \in Nat /\ t - d \in Nat /\ MaxPartitions - d \in Nat
      BY <1>2, <2>2
    <3>2. Power[(MaxPartitions - d) + t] = Power[MaxPartitions - d] * Power[t]
      BY <3>1, PowerSum
    <3>3. Power[(t - d) + MaxPartitions] = Power[t - d] * Power[MaxPartitions]
      BY <1>2, <3>1, PowerSum
    <3>4. (MaxPartitions - d) + t = (t - d) + MaxPartitions /\ MaxPartitions - 0 = MaxPartitions
      BY <1>2, <3>1
    <3>5. Share(d) * w = Power[t - d] * z
      BY <3>2, <3>3, <3>4 DEF Share
    <3>6. n[d] \in Int /\ Share(d) \in Int /\ Power[t - d] \in Int
      BY <3>1, PowerOf, ShareOf
    <3>7. \A a, b, c, e, f \in Int : b * c = e * f => (a * b) * c = (a * e) * f
      <4> SUFFICES ASSUME NEW a \in Int, NEW b \in Int, NEW c \in Int, NEW e \in Int, NEW f \in Int,
                          b * c = e * f
                   PROVE  (a * b) * c = (a * e) * f
        OBVIOUS
      <4>1. \A x, y, u \in Int : (x * y) * u = x * (y * u)
        OBVIOUS
      <4>2. (a * b) * c = a * (b * c)
        BY <4>1
      <4>3. (a * e) * f = a * (e * f)
        BY <4>1
      <4> QED
        BY <4>2, <4>3
    <3> HIDE DEF w, z
    <3>8. (n[d] * Share(d)) * w = (n[d] * Power[t - d]) * z
      <4> DEFINE a == n[d]
                 b == Share(d)
                 e == Power[t - d]
      <4>1. a \in Int /\ b \in Int /\ e \in Int /\ b * w = e * z
        BY <3>5, <3>6
      <4> HIDE DEF a, b, e
      <4>2. (a * b) * w = (a * e) * z
        BY <1>3, <3>7, <4>1
      <4> QED
        BY <4>2 DEF a, b, e
    <3>9. n[d] * Power[t - d] \in Int
      BY <3>6
    <3> QED
      BY <3>8, <3>9
  <2> QED
    BY <1>2, <2>1, <2>2
<1> HIDE DEF w, z
<1>5. 0 \in G
  <2>1. s[0] = n[0] * Share(0)
    BY <1>1 DEF AddsUp
  <2> QED
    BY <1>2, <1>4, <2>1
<1>6. ASSUME NEW d \in G, d + 1 \in Depth PROVE d + 1 \in G
  <2>1. PICK k \in Int : s[d] * w = k * z
    OBVIOUS
  <2>2. PICK l \in Int : (n[d + 1] * Share(d + 1)) * w = l * z
    BY <1>4, <1>6
  <2> DEFINE x == n[d + 1] * Share(d + 1)
  <2>3. s[d + 1] = x + s[d] /\ s[d] \in Int
    BY <1>1, <1>6 DEF AddsUp
  <2>4. x \in Int
    <3>1. n[d + 1] \in Int /\ Share(d + 1) \in Int
      BY <1>6, ShareOf
    <3> QED
      BY <3>1
  <2>5. x * w = l * z
    BY <2>2
  <2> HIDE DEF x
  <2>6. \A a, b, c \in Int : (a + b) * c = (a * c) + (b * c)
    OBVIOUS
  <2>7. (x + s[d]) * w = (l + k) * z
    BY <1>3, <2>1, <2>3, <2>4, <2>5, <2>6
  <2>8. s[d + 1] * w = (l + k) * z /\ l + k \in Int
    BY <2>3, <2>7
  <2> QED
    BY <1>6, <2>8
<1>7. \E k \in Int : s[MaxPartitions] * w = k * z
  <2>1. G \in SUBSET Depth
    OBVIOUS
  <2> HIDE DEF G
  <2>2. MaxPartitions \in G
    BY <1>5, <1>6, <2>1, AllDepths
  <2> QED
    BY <2>2 DEF G
<1> QED
  BY <1>1, <1>7 DEF AddsUp, w, z

-----------------------------------------------------------------------------
\* How many branches a stack holds at a depth.
LEMMA StackCounted ==
  ASSUME NEW s, Len(s) \in Nat, NEW d
  PROVE  /\ IsFiniteSet({i \in 1 .. Len(s) : s[i].depth = d}) /\ StackAt(s, d) \in Nat
<1> DEFINE S == {i \in 1 .. Len(s) : s[i].depth = d}
<1>1. IsFiniteSet(1 .. Len(s)) /\ S \subseteq 1 .. Len(s)
  BY FS_Interval
<1>2. IsFiniteSet(S)
  BY <1>1, FS_Subset
<1> QED
  BY <1>2, FS_CardinalityType DEF StackAt

LEMMA StackConcat ==
  ASSUME NEW r \in Seq(Branch), NEW s \in Seq(Branch), NEW d
  PROVE  StackAt(r \o s, d) = StackAt(r, d) + StackAt(s, d)
<1> DEFINE m == Len(r)
           n == Len(s)
           q == r \o s
           A == {i \in 1 .. m : r[i].depth = d}
           B == {i \in 1 .. n : s[i].depth = d}
           C == {i \in m + 1 .. m + n : q[i].depth = d}
           Q == {i \in 1 .. m + n : q[i].depth = d}
           f == [i \in B |-> i + m]
<1>1. m \in Nat /\ n \in Nat
  OBVIOUS
<1>2. /\ Len(q) = m + n
      /\ \A i \in 1 .. m : q[i] = r[i]
      /\ \A i \in (m + 1) .. (m + n) : q[i] = s[i - m]
  BY ConcatSeq
<1>3. IsFiniteSet(A) /\ IsFiniteSet(B) /\ Cardinality(A) \in Nat /\ Cardinality(B) \in Nat
  BY <1>1, StackCounted DEF StackAt
<1> HIDE DEF m, n, q
<1>4. f \in Bijection(B, C)
  <2>1. \A i \in B : i + m \in C
    <3> SUFFICES ASSUME NEW i \in B PROVE i + m \in C
      OBVIOUS
    <3>1. i \in 1 .. n /\ i + m \in m + 1 .. m + n /\ (i + m) - m = i
      BY <1>1
    <3> QED
      BY <1>2, <3>1
  <2>2. \A j \in C : \E i \in B : i + m = j
    <3> SUFFICES ASSUME NEW j \in C PROVE \E i \in B : i + m = j
      OBVIOUS
    <3>1. j - m \in 1 .. n /\ (j - m) + m = j
      BY <1>1
    <3>2. q[j] = s[j - m]
      BY <1>2
    <3> QED
      BY <3>1, <3>2
  <2>3. \A i, j \in B : i + m = j + m => i = j
    BY <1>1
  <2> HIDE DEF B, C
  <2> QED
    BY <2>1, <2>2, <2>3 DEF Bijection, Injection, Surjection, IsInjective
<1>5. IsFiniteSet(C) /\ Cardinality(C) = Cardinality(B)
  <2>1. ExistsBijection(B, C)
    BY <1>4 DEF ExistsBijection
  <2> HIDE DEF B, C, f
  <2> QED
    BY <1>3, <2>1, FS_Bijection
<1>6. Q = A \cup C /\ A \cap C = {}
  BY <1>1, <1>2
<1>7. Cardinality(Q) = Cardinality(A) + Cardinality(B)
  <2> HIDE DEF A, B, C, Q
  <2>1. Cardinality(A \cup C) = Cardinality(A) + Cardinality(C) - Cardinality(A \cap C)
    BY <1>3, <1>5, FS_Union
  <2>2. Cardinality(A \cap C) = 0
    BY <1>6, FS_EmptySet
  <2> QED
    BY <1>3, <1>5, <1>6, <2>1, <2>2
<1> QED
  BY <1>2, <1>7 DEF StackAt, m, n, q

LEMMA StackFront ==
  ASSUME NEW s, NEW t, NEW n \in Nat \ {0}, Len(s) = n, Len(t) = n - 1,
         \A i \in 1 .. n - 1 : t[i] = s[i], NEW d
  PROVE  StackAt(s, d) = StackAt(t, d) + (IF s[n].depth = d THEN 1 ELSE 0)
<1> DEFINE S == {i \in 1 .. n : s[i].depth = d}
           T == {i \in 1 .. n - 1 : t[i].depth = d}
<1>1. IsFiniteSet(T) /\ Cardinality(T) \in Nat
  <2>1. Len(t) \in Nat /\ T = {i \in 1 .. Len(t) : t[i].depth = d}
    OBVIOUS
  <2> HIDE DEF T
  <2>2. IsFiniteSet({i \in 1 .. Len(t) : t[i].depth = d}) /\ StackAt(t, d) \in Nat
    BY <2>1, StackCounted
  <2> QED
    BY <2>1, <2>2 DEF StackAt
<1>2. T = {i \in 1 .. n - 1 : s[i].depth = d}
  OBVIOUS
<1>3. n \notin T
  OBVIOUS
<1>4. S = IF s[n].depth = d THEN T \cup {n} ELSE T
  <2>1. \A i \in 1 .. n : i \in 1 .. n - 1 \/ i = n
    OBVIOUS
  <2>2. n \in 1 .. n /\ \A i \in 1 .. n - 1 : i \in 1 .. n
    OBVIOUS
  <2> QED
    BY <1>2, <2>1, <2>2
<1>5. Cardinality(S) = Cardinality(T) + (IF s[n].depth = d THEN 1 ELSE 0)
  <2> HIDE DEF S, T
  <2>1. Cardinality(T \cup {n}) = Cardinality(T) + 1
    BY <1>1, <1>3, FS_AddElement
  <2>2. CASE s[n].depth = d
    BY <1>4, <2>1, <2>2
  <2>3. CASE s[n].depth # d
    BY <1>1, <1>4, <2>3
  <2> QED
    BY <2>2, <2>3
<1> QED
  BY <1>5 DEF StackAt

LEMMA StackUniform ==
  ASSUME NEW r, Len(r) \in Nat, NEW e, \A i \in 1 .. Len(r) : r[i].depth = e, NEW d
  PROVE  StackAt(r, d) = IF d = e THEN Len(r) ELSE 0
<1>1. {i \in 1 .. Len(r) : r[i].depth = d} = IF d = e THEN 1 .. Len(r) ELSE {}
  OBVIOUS
<1>2. Cardinality(1 .. Len(r)) = Len(r)
  <2>1. \A k \in Nat : Cardinality(1 .. k) = k
    BY FS_Interval
  <2> QED
    BY <2>1
<1> QED
  BY <1>1, <1>2, FS_EmptySet DEF StackAt

\* The branches that there are, or have been closed, at each depth.
Count == [d \in Depth |-> disk.completed[d] + OpenAt[d]]

LEMMA Counted ==
  ASSUME disk \in Manifest
  PROVE  /\ disk.completed \in [Depth -> Int]
         /\ OpenAt \in [Depth -> Int] /\ Count \in [Depth -> Int]
         /\ Finished \in Int /\ Remaining \in Int
         /\ Shares(Count) = Finished + Remaining
<1>1. disk.completed \in [Depth -> Nat] /\ Len(disk.stack) \in Nat
  BY DEF Manifest
<1>2. \A d \in Depth : StackAt(disk.stack, d) \in Nat
  BY <1>1, StackCounted
<1>3. OpenAt \in [Depth -> Int]
  BY <1>2 DEF OpenAt
<1>4. disk.completed \in [Depth -> Int] /\ Count \in [Depth -> Int]
  BY <1>1, <1>3 DEF Count
<1> QED
  BY <1>3, <1>4, SharesPlus DEF Count, Finished, Remaining

LEMMA CountedNext ==
  ASSUME disk' \in Manifest
  PROVE  /\ disk'.completed \in [Depth -> Int]
         /\ OpenAt' \in [Depth -> Int] /\ Count' \in [Depth -> Int]
         /\ Finished' \in Int /\ Remaining' \in Int
         /\ Shares(Count') = Finished' + Remaining'
<1>1. disk'.completed \in [Depth -> Nat] /\ Len(disk'.stack) \in Nat
  BY DEF Manifest
<1>2. \A d \in Depth : StackAt(disk'.stack, d) \in Nat
  BY <1>1, StackCounted
<1>3. OpenAt' = [d \in Depth |-> StackAt(disk'.stack, d) + (IF active' # None /\ branch'.depth = d THEN 1 ELSE 0)]
  BY DEF OpenAt
<1>4. OpenAt' \in [Depth -> Int]
  BY <1>2, <1>3
<1>5. Count' = [d \in Depth |-> disk'.completed[d] + OpenAt'[d]]
  BY DEF Count
<1>6. disk'.completed \in [Depth -> Int] /\ Count' \in [Depth -> Int]
  BY <1>1, <1>4, <1>5
<1>7. Finished' = Shares(disk'.completed) /\ Remaining' = Shares(OpenAt')
  BY DEF Finished, Remaining
<1> QED
  BY <1>4, <1>5, <1>6, <1>7, SharesPlus

-----------------------------------------------------------------------------
\* The splits are numbered up to MaxPartitions, and a branch is at most as deep as the split
\* that it comes from: each split is younger than the branch that it divides.
Deep ==
  /\ disk.nextPartition <= MaxPartitions + 1
  /\ \A b \in Open : b.depth <= b.id[1]
  /\ active # None /\ active.action = "split" /\ active.partition # None =>
       \A b \in Open : b.id[1] < active.partition

\* Depth-first, the stack deepens, and nothing on it is deeper than the active branch.
Stacked ==
  disk.traversal = "dfs" =>
    /\ \A i, j \in 1 .. Len(disk.stack) : i < j => disk.stack[i].depth <= disk.stack[j].depth
    /\ active # None => \A i \in 1 .. Len(disk.stack) : disk.stack[i].depth <= branch.depth

LEMMA OpenTyped ==
  ASSUME Typed
  PROVE  /\ \A b \in Open : b \in Branch /\ b.depth \in Nat /\ b.id[1] \in Nat /\ b.id \in Ids
         /\ \A i \in 1 .. Len(disk.stack) : disk.stack[i] \in Open
         /\ active # None => branch \in Open
<1>1. disk.stack \in Seq(Branch) /\ active \in Operation \cup {None}
  BY DEF Typed, Manifest, active
<1>2. active # None => branch \in Branch
  BY <1>1 DEF Operation, branch
<1>3. ToSet(disk.stack) \subseteq Branch
  BY <1>1 DEF ToSet
<1>4. \A b \in Open : b \in Branch
  BY <1>2, <1>3 DEF Open
<1>5. \A b \in Branch : b.depth \in Nat /\ b.id[1] \in Nat
  BY DEF Branch, Name
<1>6. \A i \in 1 .. Len(disk.stack) : disk.stack[i] \in ToSet(disk.stack)
  BY <1>1 DEF ToSet
<1> QED
  BY <1>4, <1>5, <1>6 DEF Open, Ids

\* A branch that is open after a step was open before it, or is a part of the divided one.
LEMMA Descent ==
  ASSUME IInv, [Next]_vars, NEW b \in Open'
  PROVE  \/ \E c \in Open : c.id = b.id /\ c.depth = b.depth
         \/ Divide /\ b.id[1] = active.partition /\ b.depth = branch.depth + 1
<1> USE DEF IInv
<1>0. None \notin Operation
  BY NoneAssumption
<1>1. CASE /\ disk'.stack = disk.stack
           /\ active' # None => active # None /\ branch'.id = branch.id /\ branch'.depth = branch.depth
  <2>1. b \in ToSet(disk.stack) \/ (active' # None /\ b = branch')
    BY <1>1 DEF Open
  <2> QED
    BY <1>1, <2>1 DEF Open
<1>2. CASE Idle \/ Booking
  BY <1>0, <1>1, <1>2, DiskBooking DEF Bookkept, active, branch
<1>3. CASE AllocateAttempt
  BY <1>0, <1>1, <1>3, DiskAllocateAttempt DEF active, branch
<1>4. CASE AllocatePartition
  BY <1>0, <1>1, <1>4, DiskAllocatePartition DEF active, branch
<1>5. CASE FinishIfDone
  BY <1>1, <1>5, DiskFinish DEF active, branch
<1>6. CASE StartBranch
  <2> DEFINE s == disk.stack
             t == disk'.stack
             n == Len(disk.stack)
  <2>1. /\ n \in Nat \ {0} /\ s \in Seq(Branch) /\ disk'.active.branch = s[n]
        /\ Len(t) = n - 1 /\ (\A i \in 1 .. n - 1 : t[i] = s[i]) /\ t \in Seq(Branch)
    BY <1>6, DiskStart DEF Manifest
  <2>2. DOMAIN s = 1 .. n /\ DOMAIN t = 1 .. n - 1
    BY <2>1
  <2>3. b \in ToSet(t) \/ b = s[n]
    BY <2>1 DEF Open, active, branch
  <2>4. \E i \in 1 .. n : b = s[i]
    BY <2>1, <2>2, <2>3 DEF ToSet
  <2>5. b \in ToSet(s)
    BY <2>2, <2>4 DEF ToSet
  <2> QED
    BY <2>5 DEF Open
<1>7. CASE Consume
  <2>1. active # None
    BY <1>0, <1>7, ConsumptionA
  <2>2. CASE Continued(status[<<0, active.attempt>>])
    BY <1>1, <2>1, <2>2 DEF Continued, SameSearch, active, branch
  <2>3. CASE Concluded(status[<<0, active.attempt>>])
    BY <1>1, <2>3 DEF Concluded, active
  <2> QED
    BY <1>7, <2>2, <2>3, Consumption
<1>8. CASE Divide
  <2>1. disk'.stack = Queued(Children) /\ disk'.active = None
    BY <1>8, Division
  <2>2. b \in ToSet(disk.stack) \/ \E k \in Goes : b = Child(k)
    BY <1>8, <2>1, QueuedStack DEF Open, active
  <2>3. \A k : Child(k).id[1] = active.partition /\ Child(k).depth = branch.depth + 1
    BY DEF Child
  <2>4. CASE b \in ToSet(disk.stack)
    BY <2>4 DEF Open
  <2> QED
    BY <1>8, <2>2, <2>3, <2>4
<1> QED
  BY <1>2, <1>3, <1>4, <1>5, <1>6, <1>7, <1>8, Steps

\* The split is the youngest number there is.
LEMMA DivideDeep ==
  ASSUME IInv, Deep, Divide
  PROVE  /\ active # None /\ active.action = "split" /\ active.partition # None
         /\ active.partition \in Partition /\ branch \in Open
         /\ branch.depth \in Depth /\ branch.depth + 1 \in Depth
         /\ branch.depth + 1 <= active.partition
<1>1. /\ active # None /\ active.action = "split" /\ active.partition # None
  BY DivisionInputs, NoneAssumption DEF IInv
<1>2. active.partition \in Partition
  BY <1>1 DEF IInv, Naming
<1>3. branch \in Open /\ branch.depth \in Nat /\ branch.id[1] \in Nat
  BY <1>1, OpenTyped DEF IInv
<1>4. branch.depth <= branch.id[1] /\ branch.id[1] < active.partition
  BY <1>1, <1>3 DEF Deep
<1> QED
  BY <1>1, <1>2, <1>3, <1>4, ManagerAssumption DEF Depth, Partition

LEMMA ActiveDepth ==
  ASSUME IInv, Deep
  PROVE  \A b \in Open : b.depth \in Depth
<1> SUFFICES ASSUME NEW b \in Open PROVE b.depth \in Depth
  OBVIOUS
<1>1. b.depth \in Nat /\ b.id[1] \in Nat /\ b.depth <= b.id[1] /\ b.id \in Ids
  BY OpenTyped DEF IInv, Deep
<1>2. b.id[1] < disk.nextPartition /\ disk.nextPartition <= MaxPartitions + 1
  BY <1>1 DEF IInv, Naming, Deep
<1>3. disk.nextPartition \in Nat
  BY DEF IInv, Typed, Manifest
<1> QED
  BY <1>1, <1>2, <1>3, ManagerAssumption DEF Depth

LEMMA DeepStep ==
  ASSUME IInv, IInv', Deep, [Next]_vars
  PROVE  Deep'
<1>1. disk'.nextPartition <= MaxPartitions + 1
  <2>1. CASE disk'.nextPartition = disk.nextPartition
    BY <2>1 DEF Deep
  <2>2. CASE Idle \/ Booking
    BY <2>1, <2>2, DiskBooking DEF IInv, Bookkept
  <2>3. CASE AllocateAttempt \/ StartBranch \/ FinishIfDone
    BY <2>1, <2>3, DiskAllocateAttempt, DiskStart, DiskFinish DEF IInv
  <2>4. CASE AllocatePartition
    <3>1. /\ disk.active \in Operation /\ disk.active.action = "split" /\ disk.active.partition = None
          /\ disk'.nextPartition = disk.nextPartition + 1
      BY <2>4, DiskAllocatePartition DEF IInv
    <3>2. disk.nextPartition <= MaxPartitions
      BY <3>1, NoneAssumption DEF IInv, Capped, active
    <3> QED
      BY <3>1, <3>2, ManagerAssumption DEF IInv, Typed, Manifest
  <2>5. CASE Consume
    BY <2>1, <2>5, Consumption DEF IInv, Continued, Concluded, SameSearch, Closes
  <2>6. CASE Divide
    BY <2>1, <2>6, Division DEF IInv, Closes
  <2> QED
    BY <2>2, <2>3, <2>4, <2>5, <2>6, Steps
<1>2. ASSUME NEW b \in Open' PROVE b.depth <= b.id[1]
  <2>1. CASE \E c \in Open : c.id = b.id /\ c.depth = b.depth
    BY <2>1 DEF Deep
  <2>2. CASE Divide /\ b.id[1] = active.partition /\ b.depth = branch.depth + 1
    BY <2>2, DivideDeep
  <2> QED
    BY <2>1, <2>2, Descent
<1>3. ASSUME active' # None, active'.action = "split", active'.partition # None, NEW b \in Open'
      PROVE  b.id[1] < active'.partition
  <2>0. None \notin Operation
    BY NoneAssumption
  <2>1. ~Divide
    BY <1>3, Division DEF IInv, active
  <2>2. PICK c \in Open : c.id = b.id
    BY <2>1, Descent
  <2>3. CASE active # None /\ active.action = "split" /\ active.partition = active'.partition
    BY <1>3, <2>2, <2>3 DEF Deep
  <2>4. CASE AllocatePartition
    <3>1. active'.partition = disk.nextPartition
      BY <2>4, DiskAllocatePartition DEF IInv, active
    <3>2. c.id \in Ids
      BY OpenTyped DEF IInv
    <3> QED
      BY <2>2, <3>1, <3>2 DEF IInv, Naming
  <2>5. CASE Idle \/ Booking
    BY <1>3, <2>0, <2>3, <2>5, DiskBooking DEF IInv, Bookkept, active
  <2>6. CASE AllocateAttempt \/ StartBranch \/ FinishIfDone
    BY <1>3, <2>6, DiskAllocateAttempt, DiskStart, DiskFinish DEF IInv, active
  <2>7. CASE Consume
    BY <1>3, <2>7, Consumption DEF IInv, Continued, Concluded, active
  <2> QED
    BY <2>1, <2>4, <2>5, <2>6, <2>7, Steps
<1> QED
  BY <1>1, <1>2, <1>3 DEF Deep

LEMMA KeptStacked ==
  ASSUME Stacked, disk'.traversal = disk.traversal, disk'.stack = disk.stack,
         active' # None => active # None /\ branch'.depth = branch.depth
  PROVE  Stacked'
  BY DEF Stacked

LEMMA StackedStarted ==
  ASSUME Typed, Stacked, StartBranch
  PROVE  Stacked'
<1> SUFFICES ASSUME disk'.traversal = "dfs" PROVE Stacked'
  BY DEF Stacked
<1> DEFINE s == disk.stack
           t == disk'.stack
           n == Len(disk.stack)
<1>1. /\ n \in Nat \ {0} /\ s \in Seq(Branch) /\ disk'.traversal = disk.traversal
      /\ disk'.active.branch = s[n] /\ Len(t) = n - 1 /\ \A i \in 1 .. n - 1 : t[i] = s[i]
  BY DiskStart
<1>2. \A i, j \in 1 .. n : i < j => s[i].depth <= s[j].depth
  BY <1>1 DEF Stacked
<1>3. n \in 1 .. n /\ \A i \in 1 .. n - 1 : i \in 1 .. n /\ i < n
  BY <1>1
<1>4. branch' = s[n]
  BY <1>1 DEF active, branch
<1> HIDE DEF s, n, t
<1>5. \A i, j \in 1 .. n - 1 : i < j => t[i].depth <= t[j].depth
  BY <1>1, <1>2, <1>3
<1>6. \A i \in 1 .. n - 1 : t[i].depth <= branch'.depth
  BY <1>1, <1>2, <1>3, <1>4
<1> QED
  BY <1>1, <1>5, <1>6 DEF Stacked, t

\* The children as they lie on the stack.
LEMMA ChildrenReversed ==
  ASSUME Typed, Control, Divisible, Divide
  PROVE  LET r == Reverse(Children) IN
         /\ r \in Seq(Branch) /\ Len(r) = Cardinality(Goes)
         /\ \A i \in 1 .. Len(r) : r[i].depth = branch.depth + 1
<1> DEFINE c == Children
           r == Reverse(c)
<1>1. /\ c \in Seq(Branch) /\ r \in Seq(Branch) /\ Len(r) = Len(c)
      /\ \A i \in 1 .. Len(c) : r[i] = c[(Len(c) - i) + 1]
  BY ChildrenListed, ReverseSeq
<1>2. Len(c) = Cardinality(Goes)
  <2>1. Cardinality(Goes) \in Nat /\ DOMAIN Continuing = 1 .. Cardinality(Goes)
    BY ContinuingLists
  <2>2. DOMAIN c = 1 .. Cardinality(Goes)
    BY <2>1 DEF Children
  <2> HIDE DEF c
  <2> QED
    BY <1>1, <2>1, <2>2
<1>3. ASSUME NEW i \in 1 .. Len(c) PROVE r[i].depth = branch.depth + 1
  <2>1. r[i] = c[(Len(c) - i) + 1] /\ (Len(c) - i) + 1 \in 1 .. Len(c)
    BY <1>1
  <2>2. PICK k \in Goes : c[(Len(c) - i) + 1] = Child(k)
    BY <2>1, ChildrenListed
  <2> QED
    BY <2>1, <2>2 DEF Child
<1> QED
  BY <1>1, <1>2, <1>3

LEMMA StackedDivided ==
  ASSUME Typed, Control, Divisible, Stacked, Divide
  PROVE  Stacked'
<1> SUFFICES ASSUME disk'.traversal = "dfs" PROVE Stacked'
  BY DEF Stacked
<1> DEFINE s == disk.stack
           r == Reverse(Children)
           m == Len(s)
           n == Len(r)
           q == s \o r
           d == branch.depth
<1>1. /\ disk'.traversal = disk.traversal /\ disk'.active = None /\ disk'.stack = Queued(Children)
  BY Division DEF Closes
<1>2. disk'.stack = q
  BY <1>1 DEF Queued
<1>3. /\ s \in Seq(Branch) /\ r \in Seq(Branch) /\ d \in Nat /\ active # None
      /\ \A i \in 1 .. n : r[i].depth = d + 1
  BY ChildrenReversed, DivisionInputs, NoneAssumption DEF Typed, Manifest, Branch
<1>4. /\ \A i, j \in 1 .. m : i < j => s[i].depth <= s[j].depth
      /\ \A i \in 1 .. m : s[i].depth <= d
  BY <1>1, <1>3 DEF Stacked
<1>5. \A i \in 1 .. m : s[i].depth \in Nat
  <2>1. \A i \in 1 .. m : s[i] \in Branch
    BY <1>3
  <2> QED
    BY <2>1 DEF Branch
<1>6. m \in Nat /\ n \in Nat
  BY <1>3
<1> HIDE DEF s, r, d
<1>7. /\ Len(q) = m + n
      /\ \A i \in 1 .. m : q[i] = s[i]
      /\ \A i \in (m + 1) .. (m + n) : q[i] = r[i - m]
  BY <1>3, ConcatSeq
<1> HIDE DEF m, n, q
<1>8. ASSUME NEW i \in 1 .. (m + n), NEW j \in 1 .. (m + n), i < j
      PROVE  q[i].depth <= q[j].depth
  <2>1. CASE j <= m
    <3>1. i \in 1 .. m /\ j \in 1 .. m
      BY <1>6, <1>8, <2>1
    <3> QED
      BY <1>4, <1>7, <1>8, <3>1
  <2>2. CASE j > m
    <3>1. q[j].depth = d + 1
      <4>1. j \in (m + 1) .. (m + n) /\ j - m \in 1 .. n
        BY <1>6, <2>2
      <4> QED
        BY <1>3, <1>7, <4>1
    <3>2. CASE i <= m
      <4>1. i \in 1 .. m
        BY <1>6, <3>2
      <4>2. q[i].depth \in Nat /\ q[i].depth <= d
        BY <1>4, <1>5, <1>7, <4>1
      <4> QED
        BY <1>3, <3>1, <4>2
    <3>3. CASE i > m
      <4>1. i \in (m + 1) .. (m + n) /\ i - m \in 1 .. n
        BY <1>6, <3>3
      <4>2. q[i].depth = d + 1
        BY <1>3, <1>7, <4>1
      <4> QED
        BY <1>3, <3>1, <4>2
    <3> QED
      BY <1>6, <3>2, <3>3
  <2> QED
    BY <1>6, <2>1, <2>2
<1> QED
  BY <1>1, <1>2, <1>7, <1>8 DEF Stacked, active

LEMMA StackedStep ==
  ASSUME IInv, Stacked, [Next]_vars
  PROVE  Stacked'
<1> USE DEF IInv
<1>0. None \notin Operation
  BY NoneAssumption
<1>1. CASE Idle \/ Booking
  BY <1>0, <1>1, DiskBooking, KeptStacked DEF Bookkept, active, branch
<1>2. CASE AllocateAttempt
  BY <1>0, <1>2, DiskAllocateAttempt, KeptStacked DEF active, branch
<1>3. CASE AllocatePartition
  BY <1>0, <1>3, DiskAllocatePartition, KeptStacked DEF active, branch
<1>4. CASE FinishIfDone
  BY <1>4, DiskFinish, KeptStacked DEF active, branch
<1>5. CASE Consume
  <2>1. active # None
    BY <1>0, <1>5, ConsumptionA
  <2>2. CASE Continued(status[<<0, active.attempt>>])
    BY <2>1, <2>2, KeptStacked DEF Continued, SameSearch, active, branch
  <2>3. CASE Concluded(status[<<0, active.attempt>>])
    BY <2>3, KeptStacked DEF Concluded, Closes, active, branch
  <2> QED
    BY <1>5, <2>2, <2>3, Consumption
<1> QED
  BY <1>1, <1>2, <1>3, <1>4, <1>5, StackedStarted, StackedDivided, Steps

LEMMA CountSame ==
  ASSUME disk'.completed = disk.completed, disk'.stack = disk.stack,
         active' # None <=> active # None, active # None => branch'.depth = branch.depth
  PROVE  Count' = Count
<1>1. \A d \in Depth : (active' # None /\ branch'.depth = d) <=> (active # None /\ branch.depth = d)
  OBVIOUS
<1>2. OpenAt' = [d \in Depth |-> StackAt(disk.stack, d)
                                 + (IF active' # None /\ branch'.depth = d THEN 1 ELSE 0)]
  BY DEF OpenAt
<1>3. OpenAt' = OpenAt
  BY <1>1, <1>2 DEF OpenAt
<1>4. Count' = [d \in Depth |-> disk'.completed[d] + OpenAt'[d]]
  BY DEF Count
<1> QED
  BY <1>3, <1>4 DEF Count

LEMMA CountIs ==
  /\ \A d \in Depth : Count[d] = disk.completed[d]
        + (StackAt(disk.stack, d) + (IF active # None /\ branch.depth = d THEN 1 ELSE 0))
  /\ \A d \in Depth : Count'[d] = disk'.completed[d]
        + (StackAt(disk'.stack, d) + (IF active' # None /\ branch'.depth = d THEN 1 ELSE 0))
<1>1. Count' = [d \in Depth |-> disk'.completed[d] + OpenAt'[d]]
  BY DEF Count
<1>2. OpenAt' = [d \in Depth |-> StackAt(disk'.stack, d)
                                 + (IF active' # None /\ branch'.depth = d THEN 1 ELSE 0)]
  BY DEF OpenAt
<1>3. \A d \in Depth : Count[d] = disk.completed[d] + OpenAt[d]
  BY DEF Count
<1>4. \A d \in Depth : OpenAt[d] = StackAt(disk.stack, d)
                                 + (IF active # None /\ branch.depth = d THEN 1 ELSE 0)
  BY DEF OpenAt
<1> QED
  BY <1>1, <1>2, <1>3, <1>4

LEMMA CountStarted ==
  ASSUME Typed, StartBranch
  PROVE  Count' = Count
<1> DEFINE s == disk.stack
           t == disk'.stack
           n == Len(disk.stack)
<1>1. /\ n \in Nat \ {0} /\ disk \in Manifest /\ disk' \in Manifest
      /\ disk.active = None /\ disk'.active \in Operation
      /\ disk'.active.branch = s[n] /\ Len(t) = n - 1 /\ \A i \in 1 .. n - 1 : t[i] = s[i]
      /\ disk'.completed = disk.completed
  BY DiskStart DEF Typed
<1>2. active = None /\ active' # None /\ branch' = s[n]
  BY <1>1, NoneAssumption DEF active, branch
<1>3. \A d : StackAt(t, d) \in Nat
  <2>1. Len(t) \in Nat
    BY <1>1
  <2> QED
    BY <2>1, StackCounted
<1>4. \A d \in Depth : StackAt(s, d) = StackAt(t, d) + (IF s[n].depth = d THEN 1 ELSE 0)
  <2> HIDE DEF s, t
  <2>1. Len(s) = n
    BY DEF s
  <2> HIDE DEF n
  <2> QED
    BY <1>1, <2>1, StackFront
<1>5. \A d \in Depth : disk.completed[d] \in Nat
  BY <1>1 DEF Manifest
<1> HIDE DEF s, t, n
<1>6. \A d \in Depth : Count'[d] = Count[d]
  <2>1. \A d \in Depth : Count[d] = disk.completed[d] + (StackAt(s, d) + 0)
    BY <1>2, CountIs DEF s
  <2>2. \A d \in Depth : Count'[d] = disk.completed[d] + (StackAt(t, d) + (IF s[n].depth = d THEN 1 ELSE 0))
    BY <1>1, <1>2, CountIs DEF t
  <2> QED
    BY <1>3, <1>4, <1>5, <2>1, <2>2
<1> QED
  BY <1>1, <1>6, Counted, CountedNext

LEMMA CountConcluded ==
  ASSUME Typed, Concluded(status[<<0, active.attempt>>]), active # None, branch.depth \in Depth
  PROVE  Count' = Count
<1> DEFINE e == branch.depth
           reason == status[<<0, active.attempt>>].reason
           one == {<<branch.id, reason>>}
<1>1. /\ disk \in Manifest /\ disk' \in Manifest /\ disk'.stack = disk.stack /\ active' = None
      /\ disk'.completed = [disk.completed EXCEPT ![e] = @ + Cardinality(one)]
  BY DEF Concluded, Closes, Typed, active
<1>2. Cardinality(one) = 1
  BY FS_Singleton
<1>3. \A d \in Depth : disk.completed[d] \in Nat /\ StackAt(disk.stack, d) \in Nat
  <2>1. Len(disk.stack) \in Nat
    BY <1>1 DEF Manifest
  <2> QED
    BY <1>1, <2>1, StackCounted DEF Manifest
<1>4. \A d \in Depth : disk'.completed[d] = disk.completed[d] + (IF d = e THEN 1 ELSE 0)
  <2> HIDE DEF e, one
  <2>1. disk.completed \in [Depth -> Nat]
    BY <1>1 DEF Manifest
  <2> QED
    BY <1>1, <1>2, <1>3, <2>1
<1>5. \A d \in Depth : Count'[d] = Count[d]
  <2>1. \A d \in Depth : Count[d] = disk.completed[d] + (StackAt(disk.stack, d) + (IF e = d THEN 1 ELSE 0))
    BY CountIs
  <2>2. \A d \in Depth : Count'[d] = disk'.completed[d] + (StackAt(disk.stack, d) + 0)
    BY <1>1, CountIs
  <2> HIDE DEF e
  <2> QED
    BY <1>3, <1>4, <2>1, <2>2
<1> QED
  BY <1>1, <1>5, Counted, CountedNext

\* Each part either goes on or has ended.
LEMMA PartsCounted ==
  ASSUME Typed, Control, Divisible, Divide
  PROVE  /\ Cardinality(Ended) \in Nat /\ Cardinality(Goes) \in Nat
         /\ Cardinality(Ended) + Cardinality(Goes) = Parts
<1> DEFINE P == 1 .. Parts
           E == P \ Goes
           f == [k \in E |-> <<<<active.partition, k>>, read[k].reason>>]
<1>1. /\ IsFiniteSet(P) /\ Cardinality(P) = Parts /\ Goes \subseteq P
  <2>1. Parts \in Nat
    BY ManagerAssumption
  <2>2. \A n \in Nat : IsFiniteSet(1 .. n) /\ Cardinality(1 .. n) = n
    BY FS_Interval
  <2> QED
    BY <2>1, <2>2 DEF Goes
<1>2. /\ IsFiniteSet(Goes) /\ IsFiniteSet(E)
      /\ Cardinality(Goes) \in Nat /\ Cardinality(E) \in Nat
  <2> HIDE DEF P
  <2> QED
    BY <1>1, FS_Subset, FS_CardinalityType
<1>3. P = E \cup Goes /\ E \cap Goes = {}
  BY <1>1
<1>4. Ended = {<<<<active.partition, k>>, read[k].reason>> : k \in E}
  BY EndedTyped
<1> HIDE DEF E, P
<1>5. f \in Bijection(E, Ended)
  <2>1. f \in Surjection(E, Ended)
    BY <1>4 DEF Surjection
  <2>2. \A i, j \in E : f[i] = f[j] => i = j
    OBVIOUS
  <2>3. f \in Injection(E, Ended)
    BY <2>1, <2>2 DEF Injection, Surjection, IsInjective
  <2> QED
    BY <2>1, <2>3 DEF Bijection
<1>6. Cardinality(Ended) = Cardinality(E)
  <2>1. ExistsBijection(E, Ended)
    BY <1>5 DEF ExistsBijection
  <2> QED
    BY <1>2, <2>1, FS_Bijection
<1>7. Cardinality(E \cup Goes) = Cardinality(E) + Cardinality(Goes) - Cardinality(E \cap Goes)
  BY <1>2, FS_Union
<1>8. Cardinality(E \cap Goes) = 0
  BY <1>3, FS_EmptySet
<1> QED
  BY <1>1, <1>2, <1>3, <1>6, <1>7, <1>8

LEMMA CountDivided ==
  ASSUME Typed, Control, Divisible, Divide, branch.depth \in Depth, branch.depth + 1 \in Depth
  PROVE  \A d \in Depth :
           Count'[d] = Count[d] + ((IF d = branch.depth + 1 THEN Parts ELSE 0)
                                   - (IF d = branch.depth THEN 1 ELSE 0))
<1> DEFINE e == branch.depth + 1
           s == disk.stack
           r == Reverse(Children)
           ended == Cardinality(Ended)
           goes == Cardinality(Goes)
<1>1. /\ disk \in Manifest /\ disk' \in Manifest /\ disk'.active = None
      /\ disk'.stack = Queued(Children)
      /\ disk'.completed = [disk.completed EXCEPT ![e] = @ + ended]
      /\ active # None
  BY Division, DivisionInputs, NoneAssumption DEF Closes, Typed
<1>2. /\ s \in Seq(Branch) /\ r \in Seq(Branch) /\ Len(r) = goes
      /\ \A i \in 1 .. Len(r) : r[i].depth = e
  BY <1>1, ChildrenReversed DEF Manifest
<1>3. ended \in Nat /\ goes \in Nat /\ ended + goes = Parts
  BY PartsCounted
<1>4. disk'.stack = s \o r \/ disk'.stack = r \o s
  BY <1>1 DEF Queued
<1>5. branch.depth \in Nat /\ disk.completed \in [Depth -> Nat] /\ Len(s) \in Nat
  BY <1>1, DivisionInputs DEF Manifest, Branch
<1> HIDE DEF s, r, ended, goes
<1>6. \A d \in Depth : StackAt(s, d) \in Nat /\ StackAt(r, d) = IF d = e THEN goes ELSE 0
  <2>1. Len(r) \in Nat
    BY <1>2, <1>3
  <2> QED
    BY <1>2, <1>5, <2>1, StackCounted, StackUniform
<1>7. \A d \in Depth : StackAt(disk'.stack, d) = StackAt(s, d) + (IF d = e THEN goes ELSE 0)
  <2>1. \A d : /\ StackAt(s \o r, d) = StackAt(s, d) + StackAt(r, d)
               /\ StackAt(r \o s, d) = StackAt(r, d) + StackAt(s, d)
    BY <1>2, StackConcat
  <2> SUFFICES ASSUME NEW d \in Depth
               PROVE  StackAt(disk'.stack, d) = StackAt(s, d) + (IF d = e THEN goes ELSE 0)
    OBVIOUS
  <2>2. StackAt(s, d) \in Nat /\ StackAt(r, d) \in Nat /\ StackAt(r, d) = IF d = e THEN goes ELSE 0
    BY <1>3, <1>6
  <2>3. \/ StackAt(disk'.stack, d) = StackAt(s, d) + StackAt(r, d)
        \/ StackAt(disk'.stack, d) = StackAt(r, d) + StackAt(s, d)
    BY <1>4, <2>1
  <2>4. StackAt(disk'.stack, d) = StackAt(s, d) + StackAt(r, d)
    BY <2>2, <2>3
  <2> QED
    BY <2>2, <2>4
<1>8. \A d \in Depth : /\ disk.completed[d] \in Nat
                       /\ disk'.completed[d] = disk.completed[d] + (IF d = e THEN ended ELSE 0)
  <2> HIDE DEF e
  <2> QED
    BY <1>1, <1>3, <1>5
<1>9. \A d \in Depth : Count[d] = disk.completed[d] + (StackAt(s, d) + (IF branch.depth = d THEN 1 ELSE 0))
  BY <1>1, CountIs DEF s
<1>10. \A d \in Depth : Count'[d] = disk'.completed[d] + (StackAt(disk'.stack, d) + 0)
  BY <1>1, CountIs DEF active
<1> HIDE DEF e
<1>11. \A d \in Depth : Count'[d] = Count[d] + ((IF d = e THEN Parts ELSE 0) - (IF d = branch.depth THEN 1 ELSE 0))
  <2> SUFFICES ASSUME NEW d \in Depth
               PROVE  Count'[d] = Count[d] + ((IF d = e THEN Parts ELSE 0) - (IF d = branch.depth THEN 1 ELSE 0))
    OBVIOUS
  <2>1. e = branch.depth + 1
    BY DEF e
  <2> QED
    BY <1>3, <1>6, <1>7, <1>8, <1>9, <1>10, <2>1
<1> QED
  BY <1>11 DEF e

\* A branch stands for what its parts stand for together.
LEMMA SharesDivided ==
  ASSUME NEW n \in [Depth -> Int], NEW m \in [Depth -> Int],
         NEW e \in Depth, e + 1 \in Depth,
         \A d \in Depth :
           m[d] = n[d] + ((IF d = e + 1 THEN Parts ELSE 0) - (IF d = e THEN 1 ELSE 0))
  PROVE  Shares(m) = Shares(n)
<1> DEFINE less == 0 - 1
           o == [d \in Depth |-> IF d = e THEN n[d] + less ELSE n[d]]
           u == e + 1
<1>1. Parts \in Int /\ less \in Int /\ u \in Depth /\ \A d \in Depth : d \in Int
  BY ManagerAssumption DEF Depth
<1>2. o \in [Depth -> Int] /\ \A d \in Depth : o[d] = IF d = e THEN n[d] + less ELSE n[d]
  OBVIOUS
<1>3. \A d \in Depth : m[d] = IF d = u THEN o[d] + Parts ELSE o[d]
  <2> SUFFICES ASSUME NEW d \in Depth PROVE m[d] = IF d = u THEN o[d] + Parts ELSE o[d]
    OBVIOUS
  <2>1. n[d] \in Int /\ d \in Int /\ e \in Int
    BY <1>1
  <2> QED
    BY <1>1, <2>1
<1>4. less * Share(e) = 0 - Share(e) /\ Share(e) = Parts * Share(u) /\ Share(e) \in Int
  BY <1>1, ShareOf
<1> HIDE DEF less, o, u
<1>5. Shares(n) \in Int /\ Shares(o) = Shares(n) + (less * Share(e))
  <2>1. More(n, o, e, less)
    BY <1>1, <1>2 DEF More
  <2> QED
    BY <2>1, SharesChange
<1>6. Shares(m) = Shares(o) + (Parts * Share(u))
  <2>1. More(o, m, u, Parts)
    BY <1>1, <1>2, <1>3 DEF More
  <2> QED
    BY <2>1, SharesChange
<1>7. Shares(o) = Shares(n) + (0 - Share(e)) /\ Shares(m) = Shares(o) + Share(e)
  BY <1>4, <1>5, <1>6
<1> QED
  BY <1>4, <1>5, <1>7

LEMMA ConservedStep ==
  ASSUME IInv, IInv', Deep, ProgressConserved, [Next]_vars
  PROVE  ProgressConserved'
<1> USE DEF IInv
<1>0. None \notin Operation
  BY NoneAssumption
<1>1. /\ disk \in Manifest /\ disk' \in Manifest
  BY DEF Typed
<1>2. /\ Count \in [Depth -> Int] /\ Shares(Count) = Share(0)
      /\ Count' \in [Depth -> Int] /\ Shares(Count') = Finished' + Remaining'
  BY <1>1, Counted, CountedNext DEF ProgressConserved
<1>3. ProgressConserved' <=> Shares(Count') = Share(0)
  <2>1. ProgressConserved' <=> Finished' + Remaining' = Share(0)
    BY DEF ProgressConserved, Share
  <2> QED
    BY <1>2, <2>1
<1>4. CASE Count' = Count
  BY <1>2, <1>3, <1>4
<1>5. CASE Idle \/ Booking
  BY <1>0, <1>4, <1>5, CountSame, DiskBooking DEF Bookkept, active, branch
<1>6. CASE AllocateAttempt
  BY <1>0, <1>4, <1>6, CountSame, DiskAllocateAttempt DEF active, branch
<1>7. CASE AllocatePartition
  BY <1>0, <1>4, <1>7, CountSame, DiskAllocatePartition DEF active, branch
<1>8. CASE FinishIfDone
  BY <1>4, <1>8, CountSame, DiskFinish DEF active, branch
<1>9. CASE StartBranch
  BY <1>4, <1>9, CountStarted
<1>10. CASE Consume
  <2>1. active # None
    BY <1>0, <1>10, ConsumptionA
  <2>2. CASE Continued(status[<<0, active.attempt>>])
    BY <1>0, <1>4, <2>1, <2>2, CountSame DEF Continued, SameSearch, active, branch
  <2>3. CASE Concluded(status[<<0, active.attempt>>])
    <3>1. branch.depth \in Depth
      BY <2>1, ActiveDepth, OpenTyped
    <3> QED
      BY <1>4, <2>1, <2>3, <3>1, CountConcluded
  <2> QED
    BY <1>10, <2>2, <2>3, Consumption
<1>11. CASE Divide
  <2>1. branch.depth \in Depth /\ branch.depth + 1 \in Depth
    BY <1>11, DivideDeep
  <2>2. Shares(Count') = Shares(Count)
    BY <1>2, <1>11, <2>1, CountDivided, SharesDivided
  <2> QED
    BY <1>2, <1>3, <2>2
<1> QED
  BY <1>5, <1>6, <1>7, <1>8, <1>9, <1>10, <1>11, Steps

LEMMA ProgressInit ==
  ASSUME Init
  PROVE  Deep /\ Stacked /\ ProgressConserved
<1>1. /\ disk.active = Extending(RootBranch) /\ disk.stack = <<>> /\ Len(disk.stack) = 0
      /\ disk.nextPartition = 1 /\ disk.completed = [d \in Depth |-> 0]
  BY DEF Init
<1>2. /\ RootBranch \in Branch /\ RootBranch.id = <<0, 0>> /\ RootBranch.depth = 0
      /\ Extending(RootBranch) \in Operation /\ Extending(RootBranch).action = "extend"
      /\ Extending(RootBranch).branch = RootBranch
  BY RootStarts
<1>3. active # None /\ active.action = "extend" /\ branch = RootBranch
  BY <1>1, <1>2, NoneAssumption DEF active, branch
<1>4. Deep
  <2>1. Open = {RootBranch}
    BY <1>1, <1>3 DEF Open, ToSet
  <2>2. RootBranch.id[1] = 0
    BY <1>2
  <2> QED
    BY <1>1, <1>2, <1>3, <2>1, <2>2, ManagerAssumption DEF Deep
<1>5. Stacked
  BY <1>1 DEF Stacked
<1>6. ProgressConserved
  <2>1. 0 \in Depth /\ Share(0) \in Int
    BY ShareOf, ManagerAssumption DEF Depth
  <2>2. \A d \in Depth : StackAt(disk.stack, d) = 0
    <3>1. \A d \in Depth : {i \in 1 .. Len(disk.stack) : disk.stack[i].depth = d} = {}
      BY <1>1
    <3> QED
      BY <3>1, FS_EmptySet DEF StackAt
  <2>3. \A d \in Depth : Count[d] = IF d = 0 THEN 1 ELSE 0
    BY <1>1, <1>2, <1>3, <2>2, CountIs
  <2>4. disk \in Manifest
    BY IInvInit DEF IInv, Typed
  <2>5. Count = [d \in Depth |-> IF d = 0 THEN 1 ELSE 0]
    <3>1. Count \in [Depth -> Int]
      BY <2>4, Counted
    <3> QED
      BY <2>3, <3>1
  <2>6. Shares(Count) = 1 * Share(0)
    BY <2>1, <2>5, SharesAt
  <2> QED
    BY <2>1, <2>4, <2>6, Counted DEF ProgressConserved
<1> QED
  BY <1>4, <1>5, <1>6

\* The progress accounting of record_result and queue_children: Deep, Stacked and the sum are
\* inductive together.
THEOREM ProgressInvariant == Spec => [](IInv /\ Deep /\ Stacked /\ ProgressConserved)
<1> DEFINE Progress == Deep /\ Stacked /\ ProgressConserved
<1>1. Init => Progress
  BY ProgressInit
<1>2. IInv /\ IInv' /\ Progress /\ [Next]_vars => Progress'
  BY DeepStep, StackedStep, ConservedStep
<1>3. Progress <=> Deep /\ Stacked /\ ProgressConserved
  OBVIOUS
<1> HIDE DEF Progress
<1> QED
  BY <1>1, <1>2, <1>3, ManagerInvariant, PTL DEF Spec

\* progress_counts: whatever is divided, closed, lost or done again, the finished and the open
\* branches make up the whole search, each branch weighted by its depth.
THEOREM WholeSearchCounted == Spec => []ProgressConserved
  BY ProgressInvariant, PTL

\* The branches that are open in a depth-first search are no deeper than the current one.
LEMMA OpenShallow ==
  ASSUME IInv, Deep, Stacked, disk.traversal = "dfs"
  PROVE  /\ CurrentDepth \in Nat
         /\ \A d \in Depth : d > CurrentDepth => OpenAt[d] = 0
<1> DEFINE s == disk.stack
           n == Len(s)
<1>1. n \in Nat /\ s \in Seq(Branch) /\ (s = <<>> <=> n = 0)
  <2>1. s \in Seq(Branch)
    BY DEF IInv, Typed, Manifest
  <2> HIDE DEF s
  <2> QED
    BY <2>1, EmptySeq, LenProperties
<1>2. \A i \in 1 .. n : s[i].depth \in Nat
  BY OpenTyped DEF IInv
<1>3. /\ \A i, j \in 1 .. n : i < j => s[i].depth <= s[j].depth
      /\ active # None => \A i \in 1 .. n : s[i].depth <= branch.depth
  BY DEF Stacked
<1>4. active # None => branch.depth \in Nat
  BY OpenTyped DEF IInv
<1>5. CurrentDepth = IF active # None THEN branch.depth ELSE IF n # 0 THEN s[n].depth ELSE 0
  BY <1>1 DEF CurrentDepth, Last
<1> HIDE DEF s, n
<1>6. CurrentDepth \in Nat
  BY <1>1, <1>2, <1>4, <1>5
<1>7. \A i \in 1 .. n : s[i].depth <= CurrentDepth
  <2> SUFFICES ASSUME NEW i \in 1 .. n PROVE s[i].depth <= CurrentDepth
    OBVIOUS
  <2>1. n # 0 /\ n \in 1 .. n /\ (i < n \/ i = n)
    BY <1>1
  <2>2. s[i].depth <= s[n].depth
    BY <1>2, <1>3, <2>1
  <2> QED
    BY <1>3, <1>5, <2>1, <2>2
<1>8. ASSUME NEW d \in Depth, d > CurrentDepth PROVE OpenAt[d] = 0
  <2>1. d \in Nat
    BY DEF Depth
  <2>2. {i \in 1 .. n : s[i].depth = d} = {}
    BY <1>2, <1>6, <1>7, <1>8, <2>1
  <2>3. StackAt(s, d) = 0
    BY <2>2, FS_EmptySet DEF StackAt, n
  <2>4. ~(active # None /\ branch.depth = d)
    BY <1>5, <1>6, <1>8, <2>1
  <2> QED
    BY <2>3, <2>4 DEF OpenAt, s
<1> QED
  BY <1>6, <1>8

LEMMA MultipleLeavesNothing ==
  ASSUME NEW k \in Int, NEW z \in Int, z > 0
  PROVE  (k * z) % z = 0
<1> DEFINE m == k * z
           q == m \div z
           r == m % z
<1>1. m \in Int
  OBVIOUS
<1>2. q \in Int /\ r \in 0 .. z - 1 /\ m = (z * q) + r
  <2> HIDE DEF m
  <2> QED
    BY <1>1
<1>3. r = (k - q) * z
  <2> HIDE DEF q, r
  <2>1. \A a, b, c \in Int : (a * b) - (b * c) = (a - c) * b
    OBVIOUS
  <2>2. r = (k * z) - (z * q)
    BY <1>2
  <2> QED
    BY <1>2, <2>1, <2>2
<1> DEFINE e == k - q
<1>4. e \in Int /\ r = e * z /\ r >= 0 /\ r < z
  BY <1>2, <1>3
<1> HIDE DEF q, r, e
<1>5. e = 0
  <2>1. \A a, b \in Int : b > 0 /\ a >= 1 => a * b >= b
    OBVIOUS
  <2>2. \A a, b \in Int : b > 0 /\ a <= 0 - 1 => a * b < 0
    OBVIOUS
  <2>3. e >= 1 \/ e <= 0 - 1 \/ e = 0
    BY <1>4
  <2> QED
    BY <1>4, <2>1, <2>2, <2>3
<1>6. r = 0
  BY <1>4, <1>5
<1> QED
  BY <1>6 DEF r, m

LEMMA PowerPositive ==
  /\ \A n \in Nat : Power[n] \in Int /\ Power[n] > 0
  /\ Share(0) \in Int /\ Share(0) > 0
<1> DEFINE G == {n \in Nat : Power[n] > 0}
<1>1. 0 \in G
  BY PowerOf
<1>2. ASSUME NEW n \in G PROVE n + 1 \in G
  <2>1. Power[n + 1] = Parts * Power[n] /\ Power[n] \in Int /\ Power[n] > 0
    BY PowerOf
  <2>2. \A a, b \in Int : a > 0 /\ b > 0 => a * b > 0
    OBVIOUS
  <2>3. Parts \in Int /\ Parts > 0
    BY ManagerAssumption
  <2>4. Parts * Power[n] > 0
    BY <2>1, <2>2, <2>3
  <2> QED
    BY <2>1, <2>4
<1>3. G = Nat
  <2>1. G \in SUBSET Nat
    OBVIOUS
  <2> HIDE DEF G
  <2> QED
    BY <1>1, <1>2, <2>1, AllNumbers
<1>4. \A n \in Nat : Power[n] \in Int /\ Power[n] > 0
  BY <1>3, PowerOf
<1>5. MaxPartitions - 0 \in Nat
  BY ManagerAssumption
<1> QED
  BY <1>4, <1>5 DEF Share

\* progress_text divides without a remainder, so that it never raises: in a depth-first search
\* of any number of parts and splits, the finished share has an exact expansion in as many
\* digits as the current branch is deep.
THEOREM DigitsSuffice == Spec => []DigitsExact
<1>1. ASSUME IInv, Deep, Stacked, ProgressConserved
      PROVE  DigitsExact
  <2> SUFFICES ASSUME disk.traversal = "dfs"
               PROVE  LET depth == IF CurrentDepth > 1 THEN CurrentDepth ELSE 1
                      IN  (Finished * Power[depth]) % Share(0) = 0
    BY DEF DigitsExact
  <2> DEFINE t == IF CurrentDepth > 1 THEN CurrentDepth ELSE 1
             w == Power[t]
             z == Share(0)
  <2>1. CurrentDepth \in Nat /\ \A d \in Depth : d > CurrentDepth => OpenAt[d] = 0
    BY <1>1, OpenShallow
  <2>2. t \in Nat /\ t >= CurrentDepth
    BY <2>1
  <2> HIDE DEF t
  <2>3. \A d \in Depth : d > t => OpenAt[d] = 0
    <3>1. \A d \in Depth : d \in Nat
      BY DEF Depth
    <3> QED
      BY <2>1, <2>2, <3>1
  <2>4. /\ OpenAt \in [Depth -> Int] /\ Finished \in Int /\ Remaining \in Int
    BY <1>1, Counted DEF IInv, Typed
  <2>5. PICK k \in Int : Remaining * w = k * z
    BY <2>2, <2>3, <2>4, SharesMultiple DEF Remaining
  <2>6. Finished + Remaining = z
    BY <1>1 DEF ProgressConserved
  <2>7. w \in Int /\ z \in Int /\ z > 0
    BY <2>2, PowerPositive
  <2> HIDE DEF w, z
  <2>8. Finished * w = (w - k) * z
    <3>1. \A a, b, c, f \in Int : a + b = c => a * f = (c * f) - (b * f)
      OBVIOUS
    <3>2. Finished * w = (z * w) - (Remaining * w)
      BY <2>4, <2>6, <2>7, <3>1
    <3>3. \A a, b, c \in Int : (a * b) - (c * a) = (b - c) * a
      OBVIOUS
    <3>4. Finished * w = (z * w) - (k * z)
      BY <2>5, <3>2
    <3> QED
      BY <2>7, <3>3, <3>4
  <2>9. (Finished * w) % z = 0
    <3>1. w - k \in Int
      BY <2>7
    <3>2. ((w - k) * z) % z = 0
      BY <2>7, <3>1, MultipleLeavesNothing
    <3> QED
      BY <2>8, <3>2
  <2> QED
    BY <2>9 DEF t, w, z
<1> QED
  BY <1>1, ProgressInvariant, PTL
==============================================================================
