--------------------------- MODULE RunLockProofs ---------------------------
(***************************************************************************)
(* What manager.lock guarantees for any number of managers: as long as no  *)
(* two of them are entering at the same time, they exclude each other, and *)
(* only one that was started beside another can wipe out its work.         *)
(***************************************************************************)
EXTENDS RunLock, FiniteSetTheorems, TLAPS

Entering == Alive \ Inside

\* While nobody has contended: one manager is entering at most and one is inside at
\* most, the lock names the one inside, and a manager that enters beside it can only
\* be about to find that out.
Serial ==
  /\ \A m, n \in Entering : m = n
  /\ \A m, n \in Inside : m = n
  /\ \A m \in Inside : lock = [by |-> m, pid |-> m]
  /\ \A m \in Inside, n \in Entering :
       pc[n] \in {"check", "read", "probe"} /\ (pc[n] = "probe" => read[n] = m)
  /\ \A n \in Entering : pc[n] = "write" => lock = [by |-> n, pid |-> None]

\* Nobody remembers work that was never saved, nor anything before it has started, and
\* nobody was started beside one that has not.
Known ==
  /\ manifest \subseteq Worked
  /\ \A m \in Manager : memory[m] \subseteq Worked
  /\ \A m \in Manager : pc[m] = "new" => memory[m] = {}
  /\ \A m \in Manager : \A n \in beside[m] : pc[n] # "new"

\* One that was started beside the manager m has saved: m's work may be gone.
Lost(m) == \E n \in Worked : m \in beside[n]

\* While nobody has contended: of two living managers the older one was inside when the
\* other was started, and still is; and whatever is missing from a memory or from the
\* manifest is by one that this memory's owner was started beside, or is lost already.
Memories ==
  /\ \A m, n \in Alive : m # n => m \in beside[n] \/ n \in beside[m]
  /\ \A m \in Manager : beside[m] \cap Alive \subseteq Inside
  /\ \A m \in Alive : \A k \in Worked \ memory[m] : k \in beside[m] \/ Lost(k)
  /\ \A k \in Worked \ manifest : Lost(k)

IInv == TypeOK /\ Known /\ (~contended => Serial /\ Memories)

-----------------------------------------------------------------------------
LEMMA InitInv == Init => IInv
<1> SUFFICES ASSUME Init PROVE IInv
  OBVIOUS
<1>1. TypeOK
  <2>1. \A m \in Manager : met[m] = {}
    BY DEF Init
  <2>2. met \in [Manager -> SUBSET Manager]
    BY <2>1 DEF Init
  <2>3. contended \in BOOLEAN /\ beside \in [Manager -> SUBSET Manager]
    <3>1. \A m \in Manager : beside[m] = {}
      BY DEF Init
    <3> QED
      BY <3>1 DEF Init
  <2>4. memory \in [Manager -> SUBSET Manager]
    BY <2>1 DEF Init
  <2> QED
    BY <2>2, <2>3, <2>4, RunLockAssumption DEF Init, TypeOK
<1>2. Alive = {} /\ Inside = {}
  BY DEF Init, Alive, Inside
<1>3. Worked = {}
  BY DEF Init, Worked
<1>4. Known
  <2>1. \A m \in Manager : beside[m] = {}
    BY DEF Init
  <2> QED
    BY <1>3, <2>1 DEF Init, Known
<1>5. Memories
  <2>1. \A m \in Manager : beside[m] = {}
    BY DEF Init
  <2> QED
    BY <1>2, <1>3, <2>1 DEF Memories
<1> QED
  BY <1>1, <1>2, <1>4, <1>5 DEF IInv, Serial, Entering

LEMMA StepType == TypeOK /\ [Next]_vars => TypeOK'
<1> SUFFICES ASSUME TypeOK, [Next]_vars PROVE TypeOK'
  OBVIOUS
<1> USE RunLockAssumption DEF TypeOK, File
<1>1. ASSUME NEW m \in Manager, Start(m) PROVE TypeOK'
  <2>1. Alive \subseteq Manager
    BY DEF Alive
  <2>2. met' \in [Manager -> SUBSET Manager]
    BY <1>1, <2>1 DEF Start
  <2>3. contended' \in BOOLEAN /\ beside' \in [Manager -> SUBSET Manager]
    <3>1. Inside \subseteq Manager
      BY DEF Inside
    <3> QED
      BY <1>1, <3>1 DEF Start
  <2> QED
    BY <1>1, <2>2, <2>3 DEF Start, Step
<1>2. ASSUME NEW m \in Manager, Check(m) PROVE TypeOK'
  BY <1>2 DEF Check, Step, saved, history
<1>3. ASSUME NEW m \in Manager, Read(m) PROVE TypeOK'
  BY <1>3 DEF Read, Step, saved, history
<1>4. ASSUME NEW m \in Manager, Probe(m) PROVE TypeOK'
  BY <1>4 DEF Probe, Step, saved, history
<1>5. ASSUME NEW m \in Manager, Unlink(m) PROVE TypeOK'
  BY <1>5 DEF Unlink, Step, saved, history
<1>6. ASSUME NEW m \in Manager, Create(m) PROVE TypeOK'
  BY <1>6 DEF Create, Step, saved, history
<1>7. ASSUME NEW m \in Manager, Write(m) PROVE TypeOK'
  <2>1. lock' \in File \cup {None}
    BY <1>7 DEF Write, File
  <2> QED
    BY <1>7, <2>1 DEF Write, Step, saved, history
<1>8. ASSUME NEW m \in Manager, Exit(m) PROVE TypeOK'
  BY <1>8 DEF Exit, Step, saved, history
<1>9. ASSUME NEW m \in Manager, Die(m) PROVE TypeOK'
  BY <1>9 DEF Die, saved, history
<1>11. ASSUME NEW m \in Manager, Save(m) PROVE TypeOK'
  <2>1. memory' \in [Manager -> SUBSET Manager] /\ manifest' \subseteq Manager
    BY <1>11 DEF Save
  <2> QED
    BY <1>11, <2>1 DEF Save, history
<1>10. CASE UNCHANGED vars
  BY <1>10 DEF vars, saved, history
<1> QED
  BY <1>1, <1>2, <1>3, <1>4, <1>5, <1>6, <1>7, <1>8, <1>9, <1>10, <1>11 DEF Next, Acquire

LEMMA StepSerial ==
  ASSUME TypeOK, ~contended => Serial, [Next]_vars, ~contended'
  PROVE  Serial'
<1>1. ~contended
  BY DEF Next, Acquire, Start, Check, Read, Probe, Unlink, Create, Write, Save, Exit, Die, history, vars,
         TypeOK
<1> USE RunLockAssumption, <1>1 DEF TypeOK, File, Serial, Entering, Alive, Inside
<1>2. ASSUME NEW m \in Manager, Start(m) PROVE Serial'
  <2>1. Entering = {}
    BY <1>2, Zenon DEF Start
  <2>2. Entering' = {m} /\ pc'[m] = "check"
    BY <1>2, <2>1 DEF Start, Step
  <2>3. Inside' = Inside /\ lock' = lock
    BY <1>2 DEF Start, Step
  <2> QED
    BY <2>2, <2>3
<1>3. ASSUME NEW m \in Manager, Check(m) PROVE Serial'
  <2>1. m \in Entering /\ Entering' = Entering /\ Inside' = Inside /\ lock' = lock
    BY <1>3 DEF Check, Step
  <2>2. \A n \in Manager : pc'[n] = IF n # m THEN pc[n]
                                  ELSE IF lock = None THEN "create" ELSE "read"
    BY <1>3 DEF Check, Step
  <2>4. Inside # {} => lock # None
    OBVIOUS
  <2> QED
    BY <1>3, <2>1, <2>2, <2>4 DEF Check, Step, saved, history
<1>4. ASSUME NEW m \in Manager, Read(m) PROVE Serial'
  <2>1. m \in Entering /\ Entering' = Entering /\ Inside' = Inside /\ lock' = lock
    BY <1>4 DEF Read, Step, saved, history
  <2>2. \A n \in Inside : lock.pid = n /\ lock # None /\ n # None
    OBVIOUS
  <2>3. \A n \in Inside : pc'[m] = "probe" /\ read'[m] = n
    BY <1>4, <2>2 DEF Read, Step, saved, history
  <2>4. pc'[m] \in {"unlink", "probe"} /\ \A n \in Entering : n = m
    BY <1>4, <2>1 DEF Read, Step, saved, history
  <2> QED
    BY <2>1, <2>3, <2>4
<1>5. ASSUME NEW m \in Manager, Probe(m) PROVE Serial'
  BY <1>5 DEF Probe, Step, saved, history
<1>6. ASSUME NEW m \in Manager, Unlink(m) PROVE Serial'
  BY <1>6 DEF Unlink, Step, saved, history
<1>7. ASSUME NEW m \in Manager, Create(m) PROVE Serial'
  BY <1>7 DEF Create, Step, saved, history
<1>8. ASSUME NEW m \in Manager, Write(m) PROVE Serial'
  <2>1. m \in Entering /\ lock = [by |-> m, pid |-> None] /\ Inside = {}
    BY <1>8 DEF Write, Step
  <2>2. lock' = [by |-> m, pid |-> m]
    BY <1>8, <2>1 DEF Write
  <2>3. Entering' = {} /\ Inside' = {m}
    BY <1>8, <2>1 DEF Write, Step
  <2> QED
    BY <2>2, <2>3
<1>9. ASSUME NEW m \in Manager, Exit(m) PROVE Serial'
  BY <1>9 DEF Exit, Step, saved, history
<1>10. ASSUME NEW m \in Manager, Die(m) PROVE Serial'
  BY <1>10 DEF Die, saved, history
<1>12. ASSUME NEW m \in Manager, Save(m) PROVE Serial'
  BY <1>12 DEF Save, history
<1>11. CASE UNCHANGED vars
  BY <1>11 DEF vars, saved, history
<1> QED
  BY <1>2, <1>3, <1>4, <1>5, <1>6, <1>7, <1>8, <1>9, <1>10, <1>11, <1>12 DEF Next, Acquire

\* Only Start and Save touch what is remembered, and only Start what is beside.
Others == <<manifest, memory, beside>>

LEMMA StepKnown ==
  ASSUME TypeOK, Known, [Next]_vars
  PROVE  Known' /\ Worked \subseteq Worked'
<1> USE DEF TypeOK, Known, Worked
<1>1. ASSUME NEW m \in Manager, Start(m) PROVE Known' /\ Worked \subseteq Worked'
  <2>1. /\ manifest' = manifest /\ pc[m] = "new" /\ memory[m] = {} /\ memory'[m] = manifest
        /\ \A n \in Manager \ {m} : memory'[n] = memory[n] /\ pc'[n] = pc[n] /\ beside'[n] = beside[n]
        /\ pc'[m] = "check" /\ beside'[m] = Inside
    BY <1>1 DEF Start, Step
  <2>2. m \notin manifest
    BY <2>1
  <2>3. Worked' = Worked
    BY <2>1, <2>2
  <2>4. \A n \in Manager : \A k \in beside'[n] : k \in Manager /\ pc[k] # "new"
    BY <2>1 DEF Inside
  <2>5. \A n \in Manager : \A k \in beside'[n] : pc'[k] # "new"
    BY <2>1, <2>4
  <2> QED
    BY <2>1, <2>3, <2>5
<1>2. ASSUME NEW m \in Manager, Save(m) PROVE Known' /\ Worked \subseteq Worked'
  <2>1. /\ pc' = pc /\ pc[m] = "in" /\ memory'[m] = memory[m] \cup {m} /\ manifest' = memory'[m]
        /\ beside' = beside /\ \A n \in Manager \ {m} : memory'[n] = memory[n]
    BY <1>2 DEF Save, history
  <2>2. Worked' = Worked \cup {m}
    BY <2>1
  <2> QED
    BY <2>1, <2>2
<1>3. ASSUME UNCHANGED Others, \A n \in Manager : pc'[n] = "new" => pc[n] = "new"
      PROVE  Known' /\ Worked \subseteq Worked'
  BY <1>3 DEF Others
<1>4. ASSUME NEW m \in Manager, Acquire(m) \/ Exit(m) \/ Die(m)
      PROVE  /\ UNCHANGED Others
             /\ \A n \in Manager : pc'[n] = "new" => pc[n] = "new"
  BY <1>4 DEF Acquire, Check, Read, Probe, Unlink, Create, Write, Exit, Die, Step, saved, history, Others
<1>5. CASE UNCHANGED vars
  BY <1>3, <1>5 DEF vars, saved, history, Others
<1> QED
  BY <1>1, <1>2, <1>3, <1>4, <1>5 DEF Next

LEMMA StepMemories ==
  ASSUME TypeOK, Known, Serial, Memories, ~contended', [Next]_vars
  PROVE  Memories'
<1> USE DEF TypeOK
<1>1. Worked \subseteq Worked' /\ Worked' \subseteq Manager /\ Worked \subseteq Manager
  BY StepKnown DEF Worked
<1>2. ASSUME NEW m \in Manager, Start(m) PROVE Memories'
  <2>1. /\ manifest' = manifest /\ pc[m] = "new" /\ memory[m] = {} /\ memory'[m] = manifest
        /\ pc'[m] = "check" /\ beside'[m] = Inside
        /\ \A n \in Manager \ {m} : memory'[n] = memory[n] /\ pc'[n] = pc[n] /\ beside'[n] = beside[n]
        /\ Alive \subseteq Inside
    BY <1>2 DEF Start, Step, Known
  <2>2. Alive' = Alive \cup {m} /\ m \notin Alive /\ Inside' = Inside /\ Alive \subseteq Manager
    BY <2>1 DEF Alive, Inside
  <2>3. Worked' = Worked /\ m \notin Worked
    BY <2>1 DEF Worked, Known
  <2>4. \A k \in Worked : Lost(k) => Lost(k)'
    BY <1>1, <2>1, <2>3 DEF Lost
  <2>5. \A k, n \in Alive' : k # n => k \in beside'[n] \/ n \in beside'[k]
    <3> SUFFICES ASSUME NEW k \in Alive', NEW n \in Alive', k # n
                 PROVE  k \in beside'[n] \/ n \in beside'[k]
      OBVIOUS
    <3>1. CASE k = m \/ n = m
      BY <2>1, <2>2, <3>1
    <3>2. CASE k # m /\ n # m
      BY <2>1, <2>2, <3>2 DEF Memories
    <3> QED
      BY <3>1, <3>2
  <2>6. \A n \in Manager : beside'[n] \cap Alive' \subseteq Inside'
    <3> SUFFICES ASSUME NEW n \in Manager, NEW k \in beside'[n] \cap Alive' PROVE k \in Inside'
      OBVIOUS
    <3>1. CASE n = m
      BY <2>1, <2>2, <3>1
    <3>2. CASE n # m /\ k # m
      BY <2>1, <2>2, <3>2 DEF Memories
    <3>3. CASE n # m /\ k = m
      BY <2>1, <3>3 DEF Known
    <3> QED
      BY <3>1, <3>2, <3>3
  <2>7. \A n \in Alive' : \A k \in Worked' \ memory'[n] : k \in beside'[n] \/ Lost(k)'
    <3> SUFFICES ASSUME NEW n \in Alive', NEW k \in Worked' \ memory'[n]
                 PROVE  k \in beside'[n] \/ Lost(k)'
      OBVIOUS
    <3>1. CASE n = m
      BY <2>1, <2>3, <2>4, <3>1 DEF Memories
    <3>2. CASE n # m
      BY <2>1, <2>2, <2>3, <2>4, <3>2 DEF Memories
    <3> QED
      BY <3>1, <3>2
  <2>8. \A k \in Worked' \ manifest' : Lost(k)'
    BY <2>1, <2>3, <2>4 DEF Memories
  <2> QED
    BY <2>5, <2>6, <2>7, <2>8 DEF Memories
<1>3. ASSUME NEW m \in Manager, Save(m) PROVE Memories'
  <2>1. /\ pc' = pc /\ pc[m] = "in" /\ memory'[m] = memory[m] \cup {m} /\ manifest' = memory'[m]
        /\ beside' = beside /\ \A n \in Manager \ {m} : memory'[n] = memory[n]
    BY <1>3 DEF Save, history
  <2>2. Alive' = Alive /\ Inside' = Inside /\ m \in Inside /\ m \in Alive
    BY <2>1 DEF Alive, Inside
  <2>3. Worked' = Worked \cup {m}
    BY <2>1 DEF Worked
  <2>4. \A k \in Manager : Lost(k) => Lost(k)'
    BY <1>1, <2>1 DEF Lost
  <2>5. \A k \in Manager : k \in beside[m] => Lost(k)'
    BY <2>1, <2>3 DEF Lost
  <2>6. ASSUME NEW k \in Worked' \ manifest' PROVE Lost(k)'
    BY <1>1, <2>1, <2>2, <2>3, <2>4, <2>5, <2>6 DEF Memories
  <2>7. ASSUME NEW n \in Alive, NEW k \in Worked' \ memory'[n] PROVE k \in beside[n] \/ Lost(k)'
    <3>0. n \in Manager
      BY DEF Alive
    <3>1. CASE n = m
      BY <2>1, <2>6, <2>7, <3>1
    <3>2. CASE n # m /\ k # m
      BY <1>1, <2>1, <2>3, <2>4, <2>7, <3>0, <3>2 DEF Memories
    <3>3. CASE n # m /\ k = m
      \* m is inside; were n the older one, it would be inside as well.
      <4>1. m \in beside[n] \/ n \in beside[m]
        BY <2>2, <3>3 DEF Memories
      <4>2. n \in beside[m] => n \in Inside
        BY <2>7 DEF Memories
      <4>3. n \notin Inside
        BY <2>2, <3>3 DEF Serial
      <4> QED
        BY <3>3, <4>1, <4>2, <4>3
    <3> QED
      BY <3>1, <3>2, <3>3
  <2> QED
    BY <2>1, <2>2, <2>6, <2>7 DEF Memories
<1>4. ASSUME UNCHANGED Others, Alive' \subseteq Alive, Inside \cap Alive' \subseteq Inside' PROVE Memories'
  <2>1. manifest' = manifest /\ memory' = memory /\ beside' = beside /\ Worked' = Worked
    BY <1>4 DEF Others, Worked
  <2>2. \A k \in Worked : Lost(k)' <=> Lost(k)
    BY <2>1 DEF Lost
  <2> QED
    BY <1>4, <2>1, <2>2 DEF Memories
<1>5. ASSUME NEW m \in Manager, Acquire(m) \/ Exit(m) \/ Die(m)
      PROVE  UNCHANGED Others /\ Alive' \subseteq Alive /\ Inside \cap Alive' \subseteq Inside'
  <2>1. UNCHANGED Others
    BY <1>5 DEF Acquire, Check, Read, Probe, Unlink, Create, Write, Exit, Die, saved, history, Others
  <2>2. /\ \A n \in Manager \ {m} : pc'[n] = pc[n]
        /\ pc[m] \in {"check", "read", "probe", "unlink", "create", "write"} \/ pc'[m] \in {"done", "dead"}
        /\ m \in Alive
    BY <1>5 DEF Acquire, Check, Read, Probe, Unlink, Create, Write, Exit, Die, Step, Alive
  <2> QED
    BY <2>1, <2>2 DEF Alive, Inside
<1>6. CASE UNCHANGED vars
  <2>1. UNCHANGED Others /\ Alive' = Alive /\ Inside' = Inside
    BY <1>6 DEF vars, saved, history, Others, Alive, Inside
  <2> QED
    BY <1>4, <2>1
<1> QED
  BY <1>2, <1>3, <1>4, <1>5, <1>6 DEF Next

\* The invariant that makes the lock work among managers that enter one at a time, and
\* says what they can lose, holds of every behaviour.
THEOREM Invariance == Spec => []IInv
<1>1. IInv /\ [Next]_vars => IInv'
  <2> SUFFICES ASSUME IInv, [Next]_vars PROVE IInv'
    OBVIOUS
  <2>1. TypeOK' /\ Known'
    BY StepType, StepKnown DEF IInv
  <2>2. ASSUME ~contended' PROVE Serial' /\ Memories'
    <3>1. ~contended
      BY <2>2 DEF Next, Acquire, Start, Check, Read, Probe, Unlink, Create, Write, Save, Exit, Die,
                  history, vars, IInv, TypeOK
    <3> QED
      BY <2>2, <3>1, StepSerial, StepMemories DEF IInv
  <2> QED
    BY <2>1, <2>2 DEF IInv
<1> QED
  BY InitInv, <1>1, PTL DEF Spec

\* __enter__ and __exit__ keep their states, whatever managers do at the same time.
THEOREM TypeCorrect == Spec => []TypeOK
  BY Invariance, PTL DEF IInv

\* Without contention while entering, at most one manager works on a directory: through
\* exits, deaths and takeovers of stale locks, for any number of managers.
THEOREM ExclusionCorrect == Spec => []ExclusiveUncontended
<1>1. IInv => ExclusiveUncontended
  <2> SUFFICES ASSUME IInv, ~contended PROVE MutualExclusion
    BY DEF ExclusiveUncontended
  <2>1. CASE Inside = {}
    BY <2>1, FS_EmptySet DEF MutualExclusion
  <2>2. CASE Inside # {}
    <3>1. PICK m \in Inside : TRUE
      BY <2>2
    <3>2. Inside = {m}
      BY <3>1 DEF IInv, Serial
    <3> QED
      BY <3>2, FS_Singleton DEF MutualExclusion
  <2> QED
    BY <2>1, <2>2
<1> QED
  BY Invariance, <1>1, PTL

\* As long as managers enter one at a time, for any number of them, work is only lost to
\* a manager that was started while its author was inside: the lock confines the damage
\* of manifests read too early to such pairs, through exits, deaths and takeovers.
THEOREM LossConfined == Spec => []LossUncontended
<1>1. IInv => LossUncontended
  BY DEF IInv, Memories, Lost, LossUncontended
<1> QED
  BY Invariance, <1>1, PTL

-----------------------------------------------------------------------------
\* Who has come past the creation of a lock file.
Created == {"write", "in", "done", "dead"}

\* Managers that live together have met.  A lock file is by one that is past its
\* creation, and so is the pid it holds; one that turns up while a manager is between
\* its look at the old file and its own creation was created beside it.
Met ==
  /\ \A m, n \in Alive : m # n => n \in met[m]
  /\ lock # None => pc[lock.by] \in Created /\ lock.pid \in {None, lock.by}
  /\ \A m \in Manager : read[m] # None => pc[read[m]] \in Created
  /\ \A m \in Manager : pc[m] = "create" /\ lock # None => lock.by \in met[m]
  /\ \A m \in Manager : pc[m] = "refused" => met[m] # {}

LEMMA StepMet ==
  ASSUME TypeOK, Met, [Next]_vars
  PROVE  Met'
<1> USE RunLockAssumption DEF TypeOK, File, Met, Alive, Created
<1>1. ASSUME NEW m \in Manager, Start(m) PROVE Met'
  <2>1. /\ lock' = lock /\ read' = read /\ pc[m] = "new"
        /\ \A n \in Manager : pc'[n] = IF n = m THEN "check" ELSE pc[n]
    BY <1>1 DEF Start, Step
  <2>2. \A n \in Manager : met'[n] = IF n = m THEN Alive
                                     ELSE IF n \in Alive THEN met[n] \cup {m} ELSE met[n]
    BY <1>1 DEF Start
  <2>3. \A k, n \in Alive' : k # n => n \in met'[k]
    <3> SUFFICES ASSUME NEW k \in Alive', NEW n \in Alive', k # n PROVE n \in met'[k]
      OBVIOUS
    <3>1. \A j \in Alive' : j \in Manager /\ (j # m => j \in Alive)
      BY <2>1
    <3>2. CASE k = m
      BY <2>2, <3>1, <3>2
    <3>3. CASE k # m /\ n = m
      BY <2>2, <3>1, <3>3
    <3>4. CASE k # m /\ n # m
      BY <2>2, <3>1, <3>4
    <3> QED
      BY <3>2, <3>3, <3>4
  <2>4. lock # None => lock.by # m
    BY <2>1
  <2>5. \A n \in Manager : read[n] # None => read[n] # m
    BY <2>1
  <2>6. \A n \in Manager \ {m} : met[n] \subseteq met'[n]
    BY <2>2
  <2> QED
    BY <2>1, <2>3, <2>4, <2>5, <2>6
<1>2. ASSUME NEW m \in Manager, Check(m) PROVE Met'
  BY <1>2 DEF Check, Step, saved, history
<1>3. ASSUME NEW m \in Manager, Read(m) PROVE Met'
  BY <1>3 DEF Read, Step, saved, history
<1>4. ASSUME NEW m \in Manager, Probe(m) PROVE Met'
  <2>1. /\ lock' = lock /\ read' = read /\ met' = met /\ pc[m] = "probe"
        /\ \A n \in Manager \ {m} : pc'[n] = pc[n]
        /\ pc'[m] = IF read[m] \in Alive THEN "refused" ELSE "unlink"
    BY <1>4 DEF Probe, Step, saved, history
  <2>2. read[m] \in Alive => read[m] # m /\ read[m] \in met[m]
    BY <2>1
  <2> QED
    BY <2>1, <2>2
<1>5. ASSUME NEW m \in Manager, Unlink(m) PROVE Met'
  BY <1>5 DEF Unlink, Step, saved, history
<1>6. ASSUME NEW m \in Manager, Create(m) PROVE Met'
  <2>1. /\ read' = read /\ met' = met /\ pc[m] = "create"
        /\ \A n \in Manager \ {m} : pc'[n] = pc[n]
        /\ pc'[m] = IF lock = None THEN "write" ELSE "refused"
        /\ lock' = IF lock = None THEN [by |-> m, pid |-> None] ELSE lock
    BY <1>6 DEF Create, Step, saved, history
  <2>2. CASE lock = None
    BY <2>1, <2>2
  <2>3. CASE lock # None
    BY <2>1, <2>3
  <2> QED
    BY <2>2, <2>3
<1>7. ASSUME NEW m \in Manager, Write(m) PROVE Met'
  <2>1. /\ read' = read /\ met' = met /\ pc[m] = "write"
        /\ \A n \in Manager \ {m} : pc'[n] = pc[n]
        /\ pc'[m] = "in"
        /\ lock' = IF lock = [by |-> m, pid |-> None] THEN [by |-> m, pid |-> m] ELSE lock
    BY <1>7 DEF Write, Step, saved, history
  <2>2. lock' # None => lock # None /\ lock'.by = lock.by /\ lock'.pid \in {None, lock.by}
    BY <2>1
  <2> QED
    BY <2>1, <2>2
<1>8. ASSUME NEW m \in Manager, Save(m) PROVE Met'
  BY <1>8 DEF Save, history
<1>9. ASSUME NEW m \in Manager, Exit(m) PROVE Met'
  BY <1>9 DEF Exit, Step, saved, history
<1>10. ASSUME NEW m \in Manager, Die(m) PROVE Met'
  <2>1. /\ read' = read /\ met' = met /\ lock' = lock /\ m \in Alive
        /\ \A n \in Manager \ {m} : pc'[n] = pc[n]
        /\ pc'[m] = "dead"
    BY <1>10 DEF Die, saved, history
  <2> QED
    BY <2>1
<1>11. CASE UNCHANGED vars
  BY <1>11 DEF vars, saved, history
<1> QED
  BY <1>1, <1>2, <1>3, <1>4, <1>5, <1>6, <1>7, <1>8, <1>9, <1>10, <1>11 DEF Next, Acquire

\* A manager is only ever turned away because of one that lived beside it: no file of a
\* dead one keeps the others out, for any number of managers, contending or not.
THEOREM RefusedCorrect == Spec => []RefusedByTheLiving
<1>1. Init => Met
  BY RunLockAssumption DEF Init, Met, Alive
<1>2. Met => RefusedByTheLiving
  BY DEF Met, RefusedByTheLiving
<1> QED
  BY TypeCorrect, <1>1, StepMet, <1>2, PTL DEF Spec
=============================================================================
