-------------------------- MODULE PairGatesProofs --------------------------
(***************************************************************************)
(* For any team and any number of tasks, the executor returns only after   *)
(* all tasks have run, and one worker at most writes the kept exception.   *)
(* On top of it, for any trees, any index quantum and whatever rows keep,  *)
(* the ranges of a gate's index make up the serial walk: the walk goes     *)
(* from each pair to the next one in depth-first order, an index holds     *)
(* paths with their ranks in that order, and batches and segments that are *)
(* appended in order keep it so.                                           *)
(***************************************************************************)
EXTENDS PairGates, FiniteSetTheorems, SequenceTheorems, WellFoundedInduction, TLAPS

-----------------------------------------------------------------------------
Busy == {"check", "run"}

\* A task that was handed out is in somebody's hands, or over, or skipped after a
\* failure; a failure that was noted has its exception kept or about to be kept.
Accounted ==
  /\ \A w \in Worker : pc[w] \in {"check", "run", "caught", "keep"} => task[w] \in Task
  /\ \A t \in 0 .. (next - 1) :
       failed \/ t \in ran \cup threw \/ \E w \in Worker : pc[w] \in Busy /\ task[w] = t
  /\ threw # {} => failed \/ \E w \in Worker : pc[w] = "caught"
  /\ \A w \in Worker : pc[w] = "caught" => task[w] \in threw
  /\ failed => failure # None \/ \E w \in Worker : pc[w] = "keep"
  /\ \A w \in Worker : pc[w] = "keep" => failed /\ failure = None
  /\ \A v, w \in Worker : pc[v] = "keep" /\ pc[w] = "keep" => v = w
  /\ failure # None => failed
  /\ \A w \in Worker : pc[w] = "barrier" => next = taskCount
  /\ outcome # "running" => \A w \in Worker : pc[w] = "barrier"
  /\ outcome = "returned" => failure = None

IInv == TypeOK /\ Accounted

LEMMA InitInv == Init => IInv
<1> SUFFICES ASSUME Init PROVE IInv
  OBVIOUS
<1>1. TypeOK
  <2>1. taskCount \in Nat /\ next \in 0 .. taskCount
    BY DEF Init
  <2>2. pc \in [Worker -> {"idle", "check", "run", "caught", "keep", "barrier"}]
    BY DEF Init
  <2>3. task \in [Worker -> Task \cup {None}]
    BY DEF Init
  <2>4. failed \in BOOLEAN
    BY DEF Init
  <2> QED
    BY <2>1, <2>2, <2>3, <2>4 DEF Init, TypeOK
<1>2. ~failed /\ failure = None /\ threw = {} /\ next = taskCount
  BY DEF Init
<1>3. \A w \in Worker : pc[w] = "barrier"
  BY DEF Init
<1>4. 0 .. (next - 1) = {}
  BY DEF Init
<1> QED
  BY <1>1, <1>2, <1>3, <1>4 DEF IInv, Accounted

LEMMA StepInv == IInv /\ [Next]_vars => IInv'
<1> SUFFICES ASSUME IInv, [Next]_vars PROVE IInv'
  OBVIOUS
<1> USE ExecutorAssumption DEF IInv, TypeOK, Task
<1>1. ASSUME NEW w \in Worker, Take(w) PROVE IInv'
  <2>1. CASE next < taskCount
    <3>1. TypeOK'
      <4>1. pc' = [pc EXCEPT ![w] = "check"]
        BY <1>1, <2>1 DEF Take, Step
      <4>2. task' = [task EXCEPT ![w] = next] /\ next' = next + 1
        BY <1>1, <2>1 DEF Take
      <4>3. UNCHANGED <<taskCount, ran, threw, failed, failure, outcome>>
        BY <1>1, <2>1 DEF Take
      <4>4. next \in Task /\ next' \in 0 .. taskCount
        BY <2>1, <4>2
      <4>5. pc' \in [Worker -> {"idle", "check", "run", "caught", "keep", "barrier"}]
        BY <4>1
      <4>6. task' \in [Worker -> Task \cup {None}]
        BY <4>2, <4>4
      <4> QED
        BY <4>3, <4>4, <4>5, <4>6
    <3>2. pc[w] = "idle" /\ pc'[w] = "check" /\ task'[w] = next /\ next' = next + 1
      BY <1>1, <2>1 DEF Take, Step
    <3>3. \A v \in Worker \ {w} : pc'[v] = pc[v] /\ task'[v] = task[v]
      BY <1>1, <2>1 DEF Take, Step
    <3>4. UNCHANGED <<taskCount, ran, threw, failed, failure, outcome>>
      BY <1>1, <2>1 DEF Take, Step
    <3>5. ASSUME NEW t \in 0 .. next
          PROVE  failed \/ t \in ran \cup threw \/ \E v \in Worker : pc'[v] \in Busy /\ task'[v] = t
      <4>1. CASE t = next
        BY <3>2, <4>1 DEF Busy
      <4>2. CASE t \in 0 .. (next - 1)
        BY <3>2, <3>3, <4>2 DEF Accounted, Busy
      <4> QED
        BY <3>5, <4>1, <4>2
    <3>6. outcome = "running"
      BY <3>2 DEF Accounted
    <3>7. \A v \in Worker : pc'[v] # "barrier"
      BY <2>1, <3>2, <3>3 DEF Accounted
    <3>8. next \in Task
      BY <2>1
    <3>9. \A v \in Worker : pc'[v] \in {"check", "run", "caught", "keep"} => task'[v] \in Task
      BY <3>2, <3>3, <3>8 DEF Accounted
    <3>10. threw # {} => failed \/ \E v \in Worker : pc'[v] = "caught"
      BY <3>2, <3>3 DEF Accounted
    <3>11. \A v \in Worker : pc'[v] = "caught" => task'[v] \in threw
      BY <3>2, <3>3 DEF Accounted
    <3>12. failed => failure # None \/ \E v \in Worker : pc'[v] = "keep"
      BY <3>2, <3>3 DEF Accounted
    <3>13. /\ \A v \in Worker : pc'[v] = "keep" => failed /\ failure = None
           /\ \A u, v \in Worker : pc'[u] = "keep" /\ pc'[v] = "keep" => u = v
      BY <3>2, <3>3 DEF Accounted
    <3>14. (0 .. (next' - 1)) = 0 .. next
      BY <3>2
    <3>15. failure # None => failed
      BY DEF Accounted
    <3> QED
      BY <3>1, <3>4, <3>5, <3>6, <3>7, <3>9, <3>10, <3>11, <3>12, <3>13, <3>14, <3>15 DEF Accounted
  <2>2. CASE ~(next < taskCount)
    <3>1. pc[w] = "idle" /\ pc' = [pc EXCEPT ![w] = "barrier"]
      BY <1>1, <2>2 DEF Take, Step
    <3>2. UNCHANGED <<taskCount, next, task, ran, threw, failed, failure, outcome>>
      BY <1>1, <2>2 DEF Take
    <3>3. next = taskCount
      BY <2>2
    <3>4. TypeOK'
      BY <3>1, <3>2
    <3>5. Accounted'
      BY <3>1, <3>2, <3>3 DEF Accounted, Busy
    <3> QED
      BY <3>4, <3>5
  <2> QED
    BY <2>1, <2>2
<1>2. ASSUME NEW w \in Worker, Check(w) PROVE IInv'
  <2>1. PICK seen \in {FALSE, failed} : Step(w, "check", IF seen THEN "idle" ELSE "run")
    BY <1>2 DEF Check
  <2>2. UNCHANGED <<taskCount, next, task, ran, threw, failed, failure, outcome>>
    BY <1>2 DEF Check
  <2>3. CASE seen = TRUE
    BY <2>1, <2>2, <2>3 DEF Step, Accounted, Busy
  <2>4. CASE seen = FALSE
    BY <2>1, <2>2, <2>4 DEF Step, Accounted, Busy
  <2> QED
    BY <2>3, <2>4
<1>3. ASSUME NEW w \in Worker, Complete(w) PROVE IInv'
  BY <1>3 DEF Complete, Step, Accounted, Busy
<1>4. ASSUME NEW w \in Worker, Throw(w) PROVE IInv'
  BY <1>4 DEF Throw, Step, Accounted, Busy
<1>5. ASSUME NEW w \in Worker, Exchange(w) PROVE IInv'
  BY <1>5 DEF Exchange, Step, Accounted, Busy
<1>6. ASSUME NEW w \in Worker, Keep(w) PROVE IInv'
  BY <1>6 DEF Keep, Step, Accounted, Busy
<1>7. CASE Return
  BY <1>7 DEF Return, Accounted, Busy
<1>8. ASSUME NEW n \in Nat \ {0}, Call(n) PROVE IInv'
  <2>1. taskCount' \in Nat /\ next' = 0 /\ pc' = [w \in Worker |-> "idle"] /\ task' = [w \in Worker |-> None]
    BY <1>8 DEF Call
  <2>2. ran' = {} /\ threw' = {} /\ failed' = FALSE /\ failure' = None /\ outcome' = "running"
    BY <1>8 DEF Call
  <2>3. TypeOK'
    <3>1. pc' \in [Worker -> {"idle", "check", "run", "caught", "keep", "barrier"}]
      BY <2>1
    <3>2. task' \in [Worker -> Task' \cup {None}]
      BY <2>1
    <3>3. taskCount' \in Nat /\ next' \in 0 .. taskCount'
      BY <2>1
    <3>4. failed' \in BOOLEAN
      BY <2>2
    <3> QED
      BY <2>2, <3>1, <3>2, <3>3, <3>4
  <2>4. 0 .. (next' - 1) = {}
    BY <2>1
  <2> QED
    BY <2>1, <2>2, <2>3, <2>4 DEF Accounted
<1>9. CASE UNCHANGED vars
  BY <1>9 DEF vars, Accounted, Busy
<1> QED
  BY <1>1, <1>2, <1>3, <1>4, <1>5, <1>6, <1>7, <1>8, <1>9 DEF Next

\* Every reachable state satisfies the inductive invariant.
THEOREM Invariance == Spec => []IInv
BY InitInv, StepInv, PTL DEF Spec

\* The executor's variables keep their types.
THEOREM TypeCorrect == Spec => []TypeOK
<1>1. IInv => TypeOK
  BY DEF IInv
<1> QED
  BY <1>1, Invariance, PTL

LEMMA ReturnState == IInv => ReturnComplete
<1> SUFFICES ASSUME IInv, outcome = "returned" PROVE ran = Task /\ threw = {}
  BY DEF ReturnComplete
<1>1. \A w \in Worker : pc[w] = "barrier"
  BY DEF IInv, Accounted
<1>2. next = taskCount
  BY <1>1, ExecutorAssumption DEF IInv, Accounted
<1>3. ~failed
  BY <1>1 DEF IInv, Accounted
<1>4. threw = {}
  BY <1>1, <1>3 DEF IInv, Accounted
<1>5. \A t \in Task : t \in ran
  BY <1>1, <1>2, <1>3, <1>4 DEF IInv, Accounted, Busy, Task
<1> QED
  BY <1>4, <1>5 DEF IInv, TypeOK

\* execute_indexed_tasks returns normally only when every task has run without an
\* exception, so no caller goes on with the outputs of skipped tasks.
THEOREM ReturnCorrect == Spec => []ReturnComplete
BY ReturnState, Invariance, PTL

\* Two workers never write the exception pointer, and none writes it twice.
THEOREM OneKeeperCorrect == Spec => []OneKeeper
<1>1. IInv => OneKeeper
  BY DEF IInv, Accounted, OneKeeper
<1> QED
  BY <1>1, Invariance, PTL

-----------------------------------------------------------------------------
\* Numbers: induction, and functions defined by recursion on a number.
LEMMA Least ==
  ASSUME NEW T \in SUBSET Nat, T # {}
  PROVE  \E n \in T : \A m \in T : n <= m
<1>1. PICK n \in T : \A m \in T : ~ (<<m, n>> \in OpToRel(<, Nat))
  BY NatLessThanWellFounded, WFMin
<1>2. \A m \in T : ~ (m < n)
  BY <1>1 DEF OpToRel
<1> QED
  BY <1>2

LEMMA AllNumbers ==
  ASSUME NEW G \in SUBSET Nat, 0 \in G, \A n \in G : n + 1 \in G
  PROVE  G = Nat
<1>1. SUFFICES ASSUME Nat \ G # {} PROVE FALSE
  OBVIOUS
<1>2. PICK m \in Nat \ G : \A k \in Nat \ G : m <= k
  BY <1>1, Least
<1>3. m - 1 \in Nat /\ m - 1 \in G
  BY <1>2
<1> QED
  BY <1>2, <1>3

\* Recursion on the numbers up to N has a solution, in the set its steps stay in.
Steps(N, X) == [(1 .. N) \X X -> X]
Solution(X, a, N, s, f) == f \in [0 .. N -> X] /\ f[0] = a /\ \A n \in 1 .. N : f[n] = s[<<n, f[n - 1]>>]

LEMMA Recursion ==
  ASSUME NEW X, NEW a \in X, NEW N \in Nat, NEW s \in Steps(N, X)
  PROVE  \E f : Solution(X, a, N, s, f)
<1> DEFINE Part(k, f) == f[0] = a /\ \A n \in 1 .. k : f[n] = s[<<n, f[n - 1]>>]
           Reached(k) == \E f \in [0 .. k -> X] : Part(k, f)
           G == {k \in Nat : k <= N => Reached(k)}
<1>1. 0 \in G
  <2> DEFINE f == [n \in 0 .. 0 |-> a]
  <2>1. f \in [0 .. 0 -> X] /\ f[0] = a
    OBVIOUS
  <2>2. Part(0, f)
    BY <2>1
  <2> QED
    BY <2>1, <2>2
<1>2. ASSUME NEW k \in G PROVE k + 1 \in G
  <2> SUFFICES ASSUME k + 1 <= N PROVE Reached(k + 1)
    <3> HIDE DEF Reached
    <3> QED
      OBVIOUS
  <2>1. k \in Nat /\ k <= N /\ k + 1 \in 1 .. N /\ (k + 1) - 1 = k
    OBVIOUS
  <2>2. PICK f \in [0 .. k -> X] : Part(k, f)
    BY <2>1
  <2> DEFINE y == s[<<k + 1, f[k]>>]
             g == [n \in 0 .. (k + 1) |-> IF n = k + 1 THEN y ELSE f[n]]
  <2>3. f[k] \in X /\ <<k + 1, f[k]>> \in (1 .. N) \X X
    BY <2>1
  <2>4. y \in X
    BY <2>3 DEF Steps
  <2>5. \A n \in 0 .. k : g[n] = f[n] /\ f[n] \in X
    BY <2>1
  <2>6. g[k + 1] = y
    BY <2>1
  <2>7. g \in [0 .. (k + 1) -> X]
    <3>1. \A n \in 0 .. (k + 1) : n # k + 1 => n \in 0 .. k
      BY <2>1
    <3> HIDE DEF y
    <3> QED
      BY <2>4, <2>5, <3>1
  <2>8. g[0] = a
    BY <2>1, <2>2, <2>5
  <2>9. ASSUME NEW n \in 1 .. (k + 1) PROVE g[n] = s[<<n, g[n - 1]>>]
    <3>1. CASE n = k + 1
      <4>1. n - 1 = k /\ k \in 0 .. k
        BY <2>1, <3>1
      <4>2. g[n - 1] = f[k]
        BY <2>5, <4>1
      <4> HIDE DEF g
      <4> QED
        BY <2>6, <3>1, <4>2
    <3>2. CASE n # k + 1
      <4>1. n \in 1 .. k /\ n \in 0 .. k /\ n - 1 \in 0 .. k
        BY <2>1, <3>2
      <4>2. g[n] = f[n] /\ g[n - 1] = f[n - 1]
        BY <2>5, <4>1
      <4> HIDE DEF g
      <4> QED
        BY <2>2, <4>1, <4>2
    <3> QED
      BY <3>1, <3>2
  <2> HIDE DEF g
  <2>10. Part(k + 1, g)
    BY <2>8, <2>9
  <2> QED
    BY <2>7, <2>10
<1>3. G \in SUBSET Nat
  OBVIOUS
<1> HIDE DEF G
<1>4. G = Nat
  BY <1>1, <1>2, <1>3, AllNumbers
<1>5. PICK f \in [0 .. N -> X] : Part(N, f)
  <2>1. Reached(N)
    <3> HIDE DEF Reached
    <3> QED
      BY <1>4 DEF G
  <2> QED
    BY <2>1
<1>6. Solution(X, a, N, s, f)
  BY <1>5 DEF Solution
<1> QED
  BY <1>6

-----------------------------------------------------------------------------
\* Finite orders: how many elements are below one of them.
Orders(R, S) ==
  /\ \A a \in S : <<a, a>> \notin R
  /\ \A a, b, c \in S : <<a, b>> \in R /\ <<b, c>> \in R => <<a, c>> \in R
  /\ \A a, b \in S : a = b \/ <<a, b>> \in R \/ <<b, a>> \in R

Lower(R, S, a) == {b \in S : <<b, a>> \in R}
Rank(R, S, a) == Cardinality(Lower(R, S, a))

LEMMA RankOrder ==
  ASSUME NEW S, IsFiniteSet(S), NEW R, Orders(R, S)
  PROVE  /\ Cardinality(S) \in Nat
         /\ \A a \in S : Rank(R, S, a) \in 0 .. (Cardinality(S) - 1)
         /\ \A a, b \in S : <<a, b>> \in R <=> Rank(R, S, a) < Rank(R, S, b)
         /\ \A a, b \in S : Rank(R, S, a) = Rank(R, S, b) => a = b
         /\ \A k \in 0 .. (Cardinality(S) - 1) : \E a \in S : Rank(R, S, a) = k
<1> DEFINE n == Cardinality(S)
           rank == [a \in S |-> Rank(R, S, a)]
<1>1. n \in Nat
  BY FS_CardinalityType
<1>2. ASSUME NEW a \in S
      PROVE  IsFiniteSet(Lower(R, S, a)) /\ Rank(R, S, a) \in 0 .. (n - 1)
  <2>1. Lower(R, S, a) \in SUBSET S /\ a \notin Lower(R, S, a)
    BY DEF Lower, Orders
  <2>2. IsFiniteSet(Lower(R, S, a)) /\ Rank(R, S, a) <= n /\ (n = Rank(R, S, a) => S = Lower(R, S, a))
    BY <2>1, FS_Subset DEF Rank
  <2>3. Rank(R, S, a) \in Nat
    BY <2>2, FS_CardinalityType DEF Rank
  <2> HIDE DEF n
  <2> QED
    BY <1>1, <2>1, <2>2, <2>3
<1>3. ASSUME NEW a \in S, NEW b \in S, <<a, b>> \in R PROVE Rank(R, S, a) < Rank(R, S, b)
  <2>1. Lower(R, S, a) \in SUBSET Lower(R, S, b)
    BY <1>3 DEF Lower, Orders
  <2>2. a \in Lower(R, S, b) /\ a \notin Lower(R, S, a)
    BY <1>3 DEF Lower, Orders
  <2>3. Rank(R, S, a) <= Rank(R, S, b) /\ (Rank(R, S, b) = Rank(R, S, a) => Lower(R, S, b) = Lower(R, S, a))
    BY <1>2, <2>1, FS_Subset DEF Rank
  <2>4. Rank(R, S, a) \in 0 .. (n - 1) /\ Rank(R, S, b) \in 0 .. (n - 1)
    BY <1>2
  <2> HIDE DEF n
  <2> QED
    BY <1>1, <2>2, <2>3, <2>4
<1>4. ASSUME NEW a \in S, NEW b \in S, a # b PROVE Rank(R, S, a) # Rank(R, S, b)
  <2>1. <<a, b>> \in R \/ <<b, a>> \in R
    BY <1>4 DEF Orders
  <2>2. Rank(R, S, a) < Rank(R, S, b) \/ Rank(R, S, b) < Rank(R, S, a)
    BY <1>3, <2>1
  <2>4. Rank(R, S, a) \in 0 .. (n - 1) /\ Rank(R, S, b) \in 0 .. (n - 1)
    BY <1>2
  <2> HIDE DEF n
  <2> QED
    BY <1>1, <2>2, <2>4
<1>5. ASSUME NEW a \in S, NEW b \in S, Rank(R, S, a) < Rank(R, S, b) PROVE <<a, b>> \in R
  <2>4. Rank(R, S, a) \in 0 .. (n - 1) /\ Rank(R, S, b) \in 0 .. (n - 1)
    BY <1>2
  <2> HIDE DEF n
  <2>1. a # b
    BY <1>1, <1>5, <2>4
  <2>2. <<b, a>> \notin R
    BY <1>1, <1>3, <1>5, <2>4
  <2> QED
    BY <2>1, <2>2 DEF Orders
<1>6. \A k \in 0 .. (n - 1) : \E a \in S : Rank(R, S, a) = k
  <2>1. IsFiniteSet(0 .. (n - 1)) /\ Cardinality(0 .. (n - 1)) = n
    <3>1. \A m \in Nat : IsFiniteSet(0 .. (m - 1)) /\ Cardinality(0 .. (m - 1)) = m
      BY FS_Interval
    <3> HIDE DEF n
    <3> QED
      BY <1>1, <3>1
  <2>2. rank \in Injection(S, 0 .. (n - 1))
    <3>1. rank \in [S -> 0 .. (n - 1)]
      BY <1>2
    <3>2. \A a, b \in S : rank[a] = rank[b] => a = b
      BY <1>4
    <3> HIDE DEF rank
    <3> QED
      BY <3>1, <3>2 DEF Injection, IsInjective
  <2>3. rank \in Surjection(S, 0 .. (n - 1))
    BY <2>1, <2>2, FS_Injection
  <2>4. \A k \in 0 .. (n - 1) : \E a \in S : rank[a] = k
    <3> HIDE DEF rank, n
    <3> QED
      BY <2>3 DEF Surjection
  <2> HIDE DEF n
  <2> QED
    BY <2>4
<1> QED
  BY <1>1, <1>2, <1>3, <1>4, <1>5, <1>6

LEMMA DisjointUnion ==
  ASSUME NEW S, IsFiniteSet(S), NEW T, IsFiniteSet(T), S \cap T = {}
  PROVE  /\ IsFiniteSet(S \cup T) /\ Cardinality(S) \in Nat /\ Cardinality(T) \in Nat
         /\ Cardinality(S \cup T) = Cardinality(S) + Cardinality(T)
<1>1. IsFiniteSet(S \cup T) /\ Cardinality(S \cup T) = Cardinality(S) + Cardinality(T) - Cardinality(S \cap T)
  BY FS_Union
<1>2. Cardinality(S \cap T) = 0
  BY FS_EmptySet
<1>3. Cardinality(S) \in Nat /\ Cardinality(T) \in Nat
  BY FS_CardinalityType
<1> QED
  BY <1>1, <1>2, <1>3

\* The elements of a set that is the union of a lower and an upper part.
LEMMA RankSplit ==
  ASSUME NEW S, IsFiniteSet(S), NEW T, IsFiniteSet(T), NEW R, Orders(R, S \cup T),
         \A a \in S, b \in T : <<a, b>> \in R
  PROVE  /\ IsFiniteSet(S \cup T) /\ Cardinality(S \cup T) = Cardinality(S) + Cardinality(T)
         /\ \A a \in S : Rank(R, S \cup T, a) = Rank(R, S, a)
         /\ \A b \in T : Rank(R, S \cup T, b) = Cardinality(S) + Rank(R, T, b)
<1>1. \A a \in S, b \in T : a # b /\ <<b, a>> \notin R
  BY DEF Orders
<1>2. S \cap T = {}
  BY <1>1
<1>3. Cardinality(S) \in Nat /\ Cardinality(T) \in Nat
  BY FS_CardinalityType
<1>4. IsFiniteSet(S \cup T) /\ Cardinality(S \cup T) = Cardinality(S) + Cardinality(T)
  BY <1>2, DisjointUnion
<1>5. ASSUME NEW a \in S PROVE Rank(R, S \cup T, a) = Rank(R, S, a)
  <2>1. Lower(R, S \cup T, a) = Lower(R, S, a)
    BY <1>1 DEF Lower
  <2> QED
    BY <2>1 DEF Rank
<1>6. ASSUME NEW b \in T PROVE Rank(R, S \cup T, b) = Cardinality(S) + Rank(R, T, b)
  <2> DEFINE L == Lower(R, T, b)
  <2>1. Lower(R, S \cup T, b) = S \cup L
    BY <1>1 DEF Lower
  <2>2. L \in SUBSET T /\ S \cap L = {}
    BY <1>2 DEF Lower
  <2>3. IsFiniteSet(L) /\ Cardinality(L) \in Nat
    BY <2>2, FS_Subset, FS_CardinalityType
  <2> HIDE DEF L
  <2>4. Cardinality(S \cup L) = Cardinality(S) + Cardinality(L)
    BY <2>2, <2>3, DisjointUnion
  <2> QED
    BY <2>1, <2>4 DEF Rank, L
<1> QED
  BY <1>4, <1>5, <1>6

-----------------------------------------------------------------------------
\* Paths in the order of the walk; one that ends where the other goes on is not before it.
After(p, q) ==
  \E d \in 1 .. Len(p) : d <= Len(q) /\ p[d] < q[d] /\ \A e \in 1 .. (d - 1) : p[e] = q[e]
PathOrder == {pair \in Seq(Branch) \X Seq(Branch) : After(pair[1], pair[2])}

LEMMA PathLength ==
  ASSUME NEW p \in Seq(Branch)
  PROVE  Len(p) \in Nat /\ DOMAIN p = 1 .. Len(p) /\ \A d \in 1 .. Len(p) : p[d] \in Branch /\ p[d] \in Nat
BY LenProperties, GateAssumption

LEMMA AfterTransitive ==
  ASSUME NEW p \in Seq(Branch), NEW q \in Seq(Branch), NEW x \in Seq(Branch), After(p, q), After(q, x)
  PROVE  After(p, x)
<1>1. PICK d \in 1 .. Len(p) : d <= Len(q) /\ p[d] < q[d] /\ \A e \in 1 .. (d - 1) : p[e] = q[e]
  BY DEF After
<1>2. PICK c \in 1 .. Len(q) : c <= Len(x) /\ q[c] < x[c] /\ \A e \in 1 .. (c - 1) : q[e] = x[e]
  BY DEF After
<1>3. /\ Len(p) \in Nat /\ Len(q) \in Nat /\ Len(x) \in Nat
      /\ \A e \in 1 .. Len(p) : p[e] \in Nat
      /\ \A e \in 1 .. Len(q) : q[e] \in Nat
      /\ \A e \in 1 .. Len(x) : x[e] \in Nat
  BY PathLength
<1>4. CASE d < c
  <2>1. d \in 1 .. (c - 1) /\ d <= Len(x) /\ \A e \in 1 .. (d - 1) : e \in 1 .. (c - 1)
    BY <1>1, <1>2, <1>3, <1>4
  <2>2. q[d] = x[d] /\ \A e \in 1 .. (d - 1) : p[e] = x[e]
    BY <1>1, <1>2, <2>1
  <2> QED
    BY <1>1, <2>1, <2>2 DEF After
<1>5. CASE d = c
  <2>1. p[d] \in Nat /\ q[d] \in Nat /\ x[d] \in Nat
    BY <1>1, <1>2, <1>3, <1>5
  <2>2. p[d] < x[d] /\ \A e \in 1 .. (d - 1) : p[e] = x[e]
    BY <1>1, <1>2, <1>5, <2>1
  <2> QED
    BY <1>1, <1>2, <1>5, <2>2 DEF After
<1>6. CASE c < d
  <2>1. c \in 1 .. (d - 1) /\ c \in 1 .. Len(p) /\ \A e \in 1 .. (c - 1) : e \in 1 .. (d - 1)
    BY <1>1, <1>2, <1>3, <1>6
  <2>2. p[c] = q[c] /\ \A e \in 1 .. (c - 1) : p[e] = x[e]
    BY <1>1, <1>2, <2>1
  <2> QED
    BY <1>2, <2>1, <2>2 DEF After
<1> QED
  BY <1>1, <1>2, <1>4, <1>5, <1>6

LEMMA AfterIrreflexive ==
  ASSUME NEW p \in Seq(Branch)
  PROVE  ~ After(p, p)
<1>1. \A d \in 1 .. Len(p) : p[d] \in Nat
  BY PathLength
<1>2. \A d \in 1 .. Len(p) : ~ (p[d] < p[d])
  BY <1>1
<1> QED
  BY <1>2 DEF After

LEMMA AfterTotal ==
  ASSUME NEW p \in Seq(Branch), NEW q \in Seq(Branch), Len(p) = Len(q), p # q
  PROVE  After(p, q) \/ After(q, p)
<1> DEFINE T == {d \in 1 .. Len(p) : p[d] # q[d]}
<1>1. Len(p) \in Nat /\ \A d \in 1 .. Len(p) : p[d] \in Nat /\ q[d] \in Nat
  BY PathLength
<1>2. T # {}
  BY SeqEqual
<1>3. T \in SUBSET Nat
  BY <1>1
<1>4. PICK d \in T : \A e \in T : d <= e
  BY <1>2, <1>3, Least
<1>5. d \in 1 .. Len(p) /\ p[d] # q[d]
  OBVIOUS
<1>6. ASSUME NEW e \in 1 .. (d - 1) PROVE p[e] = q[e]
  <2>1. e \in 1 .. Len(p) /\ ~ (d <= e)
    BY <1>1, <1>5
  <2> QED
    BY <1>4, <2>1
<1>7. p[d] < q[d] \/ q[d] < p[d]
  BY <1>1, <1>5
<1> HIDE DEF T
<1>8. d \in 1 .. Len(q) /\ d <= Len(q) /\ d <= Len(p)
  BY <1>1, <1>5
<1>9. CASE p[d] < q[d]
  BY <1>5, <1>6, <1>8, <1>9 DEF After
<1>10. CASE q[d] < p[d]
  <2>1. \A e \in 1 .. (d - 1) : q[e] = p[e]
    BY <1>6
  <2> QED
    BY <1>8, <1>10, <2>1 DEF After
<1> QED
  BY <1>7, <1>9, <1>10

\* Paths of one length are in order.
LEMMA PathsOrdered ==
  ASSUME NEW X \in SUBSET Seq(Branch), \A p, q \in X : Len(p) = Len(q)
  PROVE  /\ Orders(PathOrder, X)
         /\ \A p, q \in X : <<p, q>> \in PathOrder <=> Before(p, q)
<1>1. \A p, q \in X : <<p, q>> \in PathOrder <=> After(p, q)
  BY DEF PathOrder
<1>2. ASSUME NEW p \in X, NEW q \in X PROVE After(p, q) <=> Before(p, q)
  <2>1. DOMAIN p = 1 .. Len(p) /\ Len(p) = Len(q) /\ Len(p) \in Nat
    BY PathLength
  <2> QED
    BY <2>1 DEF After, Before
<1>3. \A a \in X : <<a, a>> \notin PathOrder
  BY <1>1, AfterIrreflexive
<1>4. \A a, b, c \in X : <<a, b>> \in PathOrder /\ <<b, c>> \in PathOrder => <<a, c>> \in PathOrder
  BY <1>1, AfterTransitive
<1>5. \A a, b \in X : a = b \/ <<a, b>> \in PathOrder \/ <<b, a>> \in PathOrder
  BY <1>1, AfterTotal
<1> QED
  BY <1>1, <1>2, <1>3, <1>4, <1>5 DEF Orders

-----------------------------------------------------------------------------
\* The trees of the walk: paths no longer than the gate is deep, each with its beginnings.
Shaped ==
  /\ height \in Nat \ {0}
  /\ tree \subseteq Seq(Branch) /\ IsFiniteSet(tree)
  /\ \A p \in tree : Len(p) <= height /\ \A d \in 0 .. Len(p) : SubSeq(p, 1, d) \in tree

LEMMA PairsOrdered ==
  ASSUME Shaped
  PROVE  /\ IsFiniteSet(Pairs) /\ Pairs \in SUBSET Seq(Branch) /\ \A p \in Pairs : Len(p) = height
         /\ Orders(PathOrder, Pairs)
         /\ \A p \in Pairs : {q \in Pairs : Before(q, p)} = Lower(PathOrder, Pairs, p)
<1>1. Pairs \in SUBSET tree /\ Pairs \in SUBSET Seq(Branch) /\ \A p \in Pairs : Len(p) = height
  BY DEF Shaped, Pairs
<1>2. IsFiniteSet(Pairs)
  BY <1>1, FS_Subset DEF Shaped
<1>3. /\ Orders(PathOrder, Pairs)
      /\ \A p, q \in Pairs : <<p, q>> \in PathOrder <=> Before(p, q)
  BY <1>1, PathsOrdered
<1>4. ASSUME NEW p \in Pairs PROVE {q \in Pairs : Before(q, p)} = Lower(PathOrder, Pairs, p)
  BY <1>3 DEF Lower
<1> QED
  BY <1>1, <1>2, <1>3, <1>4

\* The serial walk lists the pairs by their ranks.
LEMMA SerialIs ==
  ASSUME Shaped
  PROVE  /\ Cardinality(Pairs) \in Nat /\ Len(Serial) = Cardinality(Pairs)
         /\ Serial \in [1 .. Cardinality(Pairs) -> Pairs] /\ Serial \in Seq(Pairs)
         /\ \A i \in 1 .. Cardinality(Pairs) : Rank(PathOrder, Pairs, Serial[i]) = i - 1
         /\ \A p \in Pairs : Rank(PathOrder, Pairs, p) + 1 \in 1 .. Cardinality(Pairs)
                             /\ Serial[Rank(PathOrder, Pairs, p) + 1] = p
<1> DEFINE n == Cardinality(Pairs)
           r(p) == Rank(PathOrder, Pairs, p)
<1>1. /\ n \in Nat /\ \A p \in Pairs : r(p) \in 0 .. (n - 1)
      /\ \A p, q \in Pairs : r(p) = r(q) => p = q
      /\ \A k \in 0 .. (n - 1) : \E p \in Pairs : r(p) = k
  BY PairsOrdered, RankOrder
<1>2. \A p \in Pairs : Cardinality({q \in Pairs : Before(q, p)}) = r(p)
  BY PairsOrdered DEF Rank
<1>3. Serial = [i \in 1 .. n |-> CHOOSE p \in Pairs : Cardinality({q \in Pairs : Before(q, p)}) = i - 1]
  BY DEF Serial
<1> HIDE DEF n, r
<1>4. ASSUME NEW i \in 1 .. n PROVE Serial[i] \in Pairs /\ r(Serial[i]) = i - 1
  <2>1. i - 1 \in 0 .. (n - 1)
    BY <1>1
  <2>2. \E p \in Pairs : Cardinality({q \in Pairs : Before(q, p)}) = i - 1
    BY <1>1, <1>2, <2>1
  <2>3. Serial[i] = CHOOSE p \in Pairs : Cardinality({q \in Pairs : Before(q, p)}) = i - 1
    BY <1>3
  <2>4. Serial[i] \in Pairs /\ Cardinality({q \in Pairs : Before(q, Serial[i])}) = i - 1
    BY <2>2, <2>3
  <2> QED
    BY <1>2, <2>4
<1>5. Serial \in [1 .. n -> Pairs]
  BY <1>3, <1>4
<1>6. Serial \in Seq(Pairs) /\ Len(Serial) = n
  BY <1>1, <1>5
<1>7. ASSUME NEW p \in Pairs PROVE r(p) + 1 \in 1 .. n /\ Serial[r(p) + 1] = p
  <2>1. r(p) \in 0 .. (n - 1) /\ r(p) + 1 \in 1 .. n /\ (r(p) + 1) - 1 = r(p)
    BY <1>1
  <2>2. Serial[r(p) + 1] \in Pairs /\ r(Serial[r(p) + 1]) = r(p)
    BY <1>4, <2>1
  <2> QED
    BY <1>1, <2>1, <2>2
<1> QED
  BY <1>1, <1>4, <1>5, <1>6, <1>7 DEF n, r

-----------------------------------------------------------------------------
\* Places: what is left at each depth is determined by the path.
LEMMA MinIs ==
  ASSUME NEW S \in SUBSET Nat, S # {}
  PROVE  Min(S) \in S /\ (\A b \in S : Min(S) <= b) /\ S \ {Min(S)} = {b \in S : Min(S) < b}
<1>1. \E a \in S : \A b \in S : a <= b
  BY Least
<1>2. Min(S) \in S /\ \A b \in S : Min(S) <= b
  BY <1>1 DEF Min
<1>3. ASSUME NEW b \in S PROVE b # Min(S) <=> Min(S) < b
  <2>1. b \in Nat /\ Min(S) \in Nat /\ Min(S) <= b
    BY <1>2
  <2> QED
    BY <2>1
<1> QED
  BY <1>2, <1>3

LEMMA MaxIs ==
  ASSUME NEW n \in Nat, NEW S \in SUBSET (1 .. n), S # {}
  PROVE  Max(S) \in S /\ \A b \in S : b <= Max(S)
<1> DEFINE T == {n - b : b \in S}
<1>1. T \in SUBSET Nat /\ T # {}
  <2>1. ASSUME NEW b \in S PROVE n - b \in Nat
    <3>1. b \in 1 .. n
      OBVIOUS
    <3> QED
      BY <3>1
  <2> QED
    BY <2>1
<1>2. PICK c \in T : \A b \in T : c <= b
  BY <1>1, Least
<1>3. PICK a \in S : c = n - a
  OBVIOUS
<1>4. ASSUME NEW b \in S PROVE b <= a
  <2>1. n - b \in T
    OBVIOUS
  <2>2. n - a <= n - b
    BY <1>2, <1>3, <2>1
  <2> QED
    BY <2>2
<1> HIDE DEF T
<1>5. \E x \in S : \A b \in S : b <= x
  BY <1>4
<1> QED
  BY <1>5 DEF Max

LEMMA ActiveIs ==
  ASSUME NEW p
  PROVE  Active(p) \in SUBSET Branch /\ Active(p) \in SUBSET Nat /\ \A b \in Active(p) : Append(p, b) \in tree
BY GateAssumption DEF Active

Left(p, d) == {b \in Active(SubSeq(p, 1, d - 1)) : p[d] < b}

LEMMA AtIs ==
  ASSUME NEW p \in Seq(Branch)
  PROVE  /\ At(p).path = p /\ At(p).rest = [d \in 1 .. Len(p) |-> Left(p, d)]
         /\ At(p) = [path |-> p, rest |-> [d \in 1 .. Len(p) |-> Left(p, d)]]
BY PathLength DEF At, Left

LEMMA Beginnings ==
  ASSUME NEW p \in Seq(Branch), NEW d \in 0 .. Len(p)
  PROVE  /\ SubSeq(p, 1, d) \in Seq(Branch) /\ Len(SubSeq(p, 1, d)) = d
         /\ \A e \in 1 .. d : SubSeq(p, 1, d)[e] = p[e]
         /\ \A e \in 0 .. d : SubSeq(SubSeq(p, 1, d), 1, e) = SubSeq(p, 1, e)
<1>1. Len(p) \in Nat /\ d \in Int /\ \A e \in 1 .. d : p[e] \in Branch
  BY PathLength
<1>2. /\ SubSeq(p, 1, d) \in Seq(Branch) /\ Len(SubSeq(p, 1, d)) = d
      /\ \A e \in 1 .. d : SubSeq(p, 1, d)[e] = p[e]
  <2>1. /\ SubSeq(p, 1, d) \in Seq(Branch) /\ Len(SubSeq(p, 1, d)) = IF 1 <= d THEN d - 1 + 1 ELSE 0
        /\ \A e \in 1 .. d - 1 + 1 : SubSeq(p, 1, d)[e] = p[1 + e - 1]
    BY <1>1, SubSeqProperties
  <2>2. d - 1 + 1 = d /\ \A e \in 1 .. d : 1 + e - 1 = e
    BY <1>1
  <2> QED
    BY <1>1, <2>1, <2>2
<1>3. ASSUME NEW e \in 0 .. d PROVE SubSeq(SubSeq(p, 1, d), 1, e) = SubSeq(p, 1, e)
  <2> DEFINE q == SubSeq(p, 1, d)
             x == SubSeq(q, 1, e)
             y == SubSeq(p, 1, e)
  <2>1. e \in Int /\ (\A c \in 1 .. e : q[c] \in Branch /\ q[c] = p[c] /\ p[c] \in Branch)
    BY <1>1, <1>2
  <2>2. /\ x \in Seq(Branch) /\ Len(x) = IF 1 <= e THEN e - 1 + 1 ELSE 0
        /\ \A c \in 1 .. e - 1 + 1 : x[c] = q[1 + c - 1]
    BY <2>1, SubSeqProperties
  <2>3. /\ y \in Seq(Branch) /\ Len(y) = IF 1 <= e THEN e - 1 + 1 ELSE 0
        /\ \A c \in 1 .. e - 1 + 1 : y[c] = p[1 + c - 1]
    BY <2>1, SubSeqProperties
  <2> HIDE DEF q, x, y
  <2>4. \A c \in 1 .. e : c \in 1 .. e - 1 + 1 /\ 1 + c - 1 = c
    BY <2>1
  <2>5. \A c \in 1 .. e : x[c] = y[c]
    BY <2>1, <2>2, <2>3, <2>4
  <2>6. Len(x) = e /\ Len(y) = e
    BY <2>1, <2>2, <2>3
  <2>7. x = y
    BY <2>2, <2>3, <2>5, <2>6, SeqEqual
  <2> QED
    BY <2>7 DEF x, y, q
<1> QED
  BY <1>2, <1>3

\* One branch further.
LEMMA OnwardIs ==
  ASSUME NEW p \in Seq(Branch), NEW b \in Branch
  PROVE  /\ Append(p, b) \in Seq(Branch) /\ Len(Append(p, b)) = Len(p) + 1
         /\ (\A e \in 1 .. Len(p) : Append(p, b)[e] = p[e]) /\ Append(p, b)[Len(p) + 1] = b
         /\ \A e \in 0 .. Len(p) : SubSeq(Append(p, b), 1, e) = SubSeq(p, 1, e)
         /\ Onward(At(p), b, {c \in Active(p) : b < c}) = At(Append(p, b))
<1> DEFINE q == Append(p, b)
           n == Len(p)
<1>1. /\ q \in Seq(Branch) /\ Len(q) = n + 1 /\ n \in Nat
      /\ (\A e \in 1 .. n : q[e] = p[e]) /\ q[n + 1] = b
  BY AppendProperties, PathLength
<1>2. ASSUME NEW e \in 0 .. n PROVE SubSeq(q, 1, e) = SubSeq(p, 1, e)
  <2>0. e \in 0 .. Len(q) /\ \A c \in 1 .. e : q[c] = p[c]
    BY <1>1
  <2> HIDE DEF q
  <2>1. /\ SubSeq(q, 1, e) \in Seq(Branch) /\ Len(SubSeq(q, 1, e)) = e
        /\ \A c \in 1 .. e : SubSeq(q, 1, e)[c] = q[c]
    BY <1>1, <2>0, Beginnings
  <2>2. /\ SubSeq(p, 1, e) \in Seq(Branch) /\ Len(SubSeq(p, 1, e)) = e
        /\ \A c \in 1 .. e : SubSeq(p, 1, e)[c] = p[c]
    BY Beginnings
  <2>3. \A c \in 1 .. e : SubSeq(q, 1, e)[c] = SubSeq(p, 1, e)[c]
    BY <2>0, <2>1, <2>2
  <2> QED
    BY <2>1, <2>2, <2>3, SeqEqual
<1>3. SubSeq(p, 1, n) = p
  BY SubSeqFull
<1> HIDE DEF q, n
<1>4. ASSUME NEW d \in 1 .. n PROVE Left(q, d) = Left(p, d)
  <2>1. d - 1 \in 0 .. n /\ q[d] = p[d]
    BY <1>1
  <2>2. SubSeq(q, 1, d - 1) = SubSeq(p, 1, d - 1)
    BY <1>2, <2>1
  <2> QED
    BY <2>1, <2>2 DEF Left
<1>5. Left(q, n + 1) = {c \in Active(p) : b < c}
  <2>1. (n + 1) - 1 = n /\ n \in 0 .. n
    BY <1>1
  <2>2. SubSeq(q, 1, n) = p
    BY <1>2, <1>3, <2>1
  <2> QED
    BY <1>1, <2>1, <2>2 DEF Left
<1>6. At(q) = [path |-> q, rest |-> [d \in 1 .. (n + 1) |-> Left(q, d)]]
  BY <1>1, AtIs
<1> DEFINE R == {c \in Active(p) : b < c}
           old == [d \in 1 .. n |-> Left(p, d)]
           new == [d \in 1 .. (n + 1) |-> Left(q, d)]
<1>7. old \in Seq(SUBSET Branch) /\ Len(old) = n
  <2>1. \A d \in 1 .. n : Left(p, d) \in SUBSET Branch
    BY ActiveIs DEF Left
  <2> QED
    BY <1>1, <2>1
<1>8. new \in Seq(SUBSET Branch) /\ Len(new) = n + 1
  <2>1. \A d \in 1 .. (n + 1) : Left(q, d) \in SUBSET Branch
    BY ActiveIs DEF Left
  <2> QED
    BY <1>1, <2>1
<1>9. R \in SUBSET Branch
  BY ActiveIs
<1>10. Append(old, R) = new
  <2>1. /\ Append(old, R) \in Seq(SUBSET Branch) /\ Len(Append(old, R)) = n + 1
        /\ (\A d \in 1 .. n : Append(old, R)[d] = old[d]) /\ Append(old, R)[n + 1] = R
    <3> HIDE DEF old, R
    <3> QED
      BY <1>7, <1>9, AppendProperties
  <2>2. ASSUME NEW d \in 1 .. (n + 1) PROVE Append(old, R)[d] = new[d]
    <3>1. CASE d = n + 1
      BY <1>5, <2>1, <3>1
    <3>2. CASE d # n + 1
      <4>1. d \in 1 .. n
        BY <1>1, <3>2
      <4>2. old[d] = Left(p, d) /\ new[d] = Left(q, d)
        BY <4>1
      <4> HIDE DEF old, new, R
      <4> QED
        BY <1>4, <2>1, <4>1, <4>2
    <3> QED
      BY <3>1, <3>2
  <2> HIDE DEF old, new, R
  <2> QED
    BY <1>8, <2>1, <2>2, SeqEqual
<1>11. At(p).path = p /\ At(p).rest = old
  BY AtIs DEF n
<1>12. Onward(At(p), b, R) = [path |-> q, rest |-> Append(old, R)]
  <2> HIDE DEF old, R
  <2> QED
    BY <1>11 DEF Onward, q
<1> QED
  BY <1>1, <1>2, <1>6, <1>10, <1>12 DEF q, n

Dead(p) == Len(p) = height \/ Active(p) = {}
Under(p, q) == Len(p) <= Len(q) /\ \A e \in 1 .. Len(p) : q[e] = p[e]

\* What the tree says of a path in it.
LEMMA TreeIs ==
  ASSUME Shaped, NEW p \in tree
  PROVE  /\ p \in Seq(Branch) /\ Len(p) \in 0 .. height /\ height \in Nat \ {0}
         /\ \A d \in 0 .. Len(p) : SubSeq(p, 1, d) \in tree
         /\ \A b \in Active(p) : b \in Branch /\ b \in Nat /\ Append(p, b) \in tree
BY PathLength, ActiveIs DEF Shaped

LEMMA PairIs ==
  ASSUME Shaped, NEW p \in Pairs
  PROVE  p \in tree /\ p \in Seq(Branch) /\ Len(p) = height
BY TreeIs DEF Pairs

\* A path that comes after another still does with whatever is under it.
LEMMA AfterUnder ==
  ASSUME NEW p \in Seq(Branch), NEW q \in Seq(Branch), NEW x \in Seq(Branch), After(p, x), Under(p, q)
  PROVE  After(q, x)
<1>1. PICK d \in 1 .. Len(p) : d <= Len(x) /\ p[d] < x[d] /\ \A e \in 1 .. (d - 1) : p[e] = x[e]
  BY DEF After
<1>2. Len(p) \in Nat /\ Len(q) \in Nat
  BY PathLength
<1>3. d \in 1 .. Len(q) /\ \A e \in 1 .. (d - 1) : e \in 1 .. Len(p)
  BY <1>1, <1>2 DEF Under
<1> QED
  BY <1>1, <1>3 DEF After, Under

\* A pair under a place that is not a leaf is under its first child or after it.
LEMMA FirstBranch ==
  ASSUME Shaped, NEW p \in tree, Len(p) # height, NEW x \in Pairs, Under(p, x)
  PROVE  /\ Active(p) # {}
         /\ Under(Append(p, Min(Active(p))), x) \/ After(Append(p, Min(Active(p))), x)
<1> DEFINE n == Len(p)
           b == x[n + 1]
           m == Min(Active(p))
           q == Append(p, m)
<1>1. /\ p \in Seq(Branch) /\ n \in Nat /\ n < height /\ height \in Nat
      /\ x \in tree /\ x \in Seq(Branch) /\ Len(x) = height
  BY TreeIs, PairIs
<1>2. n + 1 \in 0 .. Len(x) /\ n + 1 \in 1 .. Len(x) /\ n \in 0 .. Len(x)
  BY <1>1
<1>3. SubSeq(x, 1, n + 1) \in tree /\ b \in Branch
  BY <1>1, <1>2, TreeIs, PathLength
<1>4. /\ SubSeq(x, 1, n + 1) \in Seq(Branch) /\ Len(SubSeq(x, 1, n + 1)) = n + 1
      /\ \A e \in 1 .. (n + 1) : SubSeq(x, 1, n + 1)[e] = x[e]
  BY <1>1, <1>2, Beginnings
<1>5. SubSeq(x, 1, n + 1) = Append(p, b)
  <2>1. /\ Append(p, b) \in Seq(Branch) /\ Len(Append(p, b)) = n + 1
        /\ (\A e \in 1 .. n : Append(p, b)[e] = p[e]) /\ Append(p, b)[n + 1] = b
    BY <1>1, <1>3, OnwardIs
  <2>2. \A e \in 1 .. n : x[e] = p[e]
    BY DEF Under
  <2>3. ASSUME NEW e \in 1 .. (n + 1) PROVE SubSeq(x, 1, n + 1)[e] = Append(p, b)[e]
    <3>1. CASE e = n + 1
      BY <1>4, <2>1, <3>1
    <3>2. CASE e # n + 1
      <4>1. e \in 1 .. n
        BY <1>1, <3>2
      <4> QED
        BY <1>4, <2>1, <2>2, <4>1
    <3> QED
      BY <3>1, <3>2
  <2> HIDE DEF b, n
  <2> QED
    BY <1>4, <2>1, <2>3, SeqEqual
<1>6. b \in Active(p)
  BY <1>3, <1>5 DEF Active
<1>7. m \in Active(p) /\ m <= b /\ m \in Branch /\ m \in Nat /\ b \in Nat
  BY <1>6, ActiveIs, MinIs
<1>8. q \in Seq(Branch) /\ Len(q) = n + 1 /\ (\A e \in 1 .. n : q[e] = p[e]) /\ q[n + 1] = m
  BY <1>1, <1>7, OnwardIs
<1>9. \A e \in 1 .. n : x[e] = q[e]
  BY <1>8 DEF Under
<1> HIDE DEF m, q
<1>10. CASE m = b
  <2>1. \A e \in 1 .. (n + 1) : e \in 1 .. n \/ e = n + 1
    BY <1>1
  <2>2. \A e \in 1 .. (n + 1) : x[e] = q[e]
    BY <1>8, <1>9, <1>10, <2>1
  <2> HIDE DEF n
  <2>3. Under(q, x)
    BY <1>1, <1>2, <1>8, <2>2 DEF Under
  <2> QED
    BY <1>6, <2>3 DEF q, m
<1>11. CASE m # b
  <2>1. m < b
    BY <1>7, <1>11
  <2>2. (n + 1) - 1 = n /\ n + 1 \in 1 .. Len(q) /\ n + 1 <= Len(x)
    BY <1>1, <1>8
  <2>3. After(q, x)
    BY <1>8, <1>9, <2>1, <2>2 DEF After
  <2> QED
    BY <1>6, <2>3 DEF q, m
<1> QED
  BY <1>10, <1>11

\* Down from a path, along the first branches: the pairs under it are there or after.
LEMMA DescendIs ==
  ASSUME Shaped, NEW p \in tree
  PROVE  \E q \in tree : /\ Descend(At(p)) = At(q) /\ Under(p, q) /\ Dead(q)
                         /\ \A x \in Pairs : Under(p, x) => x = q \/ After(q, x)
<1> DEFINE Onto(place) ==
             IF Len(place.path) = height \/ Active(place.path) = {} THEN place
             ELSE Onward(place, Min(Active(place.path)), Active(place.path) \ {Min(Active(place.path))})
           X == {At(t) : t \in tree}
           step == [nx \in (1 .. height) \X X |-> Onto(nx[2])]
           Def(f) == f = [n \in 0 .. height |-> IF n = 0 THEN At(p) ELSE Onto(f[n - 1])]
           Below(t) == IF Dead(t) THEN t ELSE Append(t, Min(Active(t)))
<1>1. height \in Nat /\ height # 0
  BY DEF Shaped
<1>2. ASSUME NEW t \in tree
      PROVE  Onto(At(t)) = At(Below(t)) /\ Below(t) \in tree /\ t \in Seq(Branch)
  <2>1. t \in Seq(Branch) /\ At(t).path = t
    BY TreeIs, AtIs
  <2>2. CASE Dead(t)
    BY <2>1, <2>2 DEF Dead
  <2>3. CASE ~ Dead(t)
    <3> DEFINE m == Min(Active(t))
    <3>1. /\ Active(t) # {} /\ m \in Active(t) /\ m \in Branch /\ Append(t, m) \in tree
          /\ Active(t) \ {m} = {b \in Active(t) : m < b}
      BY <2>3, ActiveIs, MinIs, TreeIs DEF Dead
    <3>2. Onto(At(t)) = Onward(At(t), m, Active(t) \ {m})
      BY <2>1, <2>3 DEF Dead
    <3>3. Onward(At(t), m, {b \in Active(t) : m < b}) = At(Append(t, m))
      <4> HIDE DEF m
      <4> QED
        BY <2>1, <3>1, OnwardIs
    <3> HIDE DEF Onto
    <3>4. Onto(At(t)) = At(Append(t, m))
      <4> HIDE DEF m
      <4> QED
        BY <3>1, <3>2, <3>3
    <3> QED
      BY <2>1, <2>3, <3>1, <3>4
  <2> QED
    BY <2>2, <2>3
<1> HIDE DEF Onto, Below
<1>3. step \in Steps(height, X)
  <2>1. ASSUME NEW nx \in (1 .. height) \X X PROVE Onto(nx[2]) \in X
    <3>1. PICK t \in tree : nx[2] = At(t)
      OBVIOUS
    <3> QED
      BY <1>2, <3>1
  <2> QED
    BY <2>1 DEF Steps
<1>4. At(p) \in X
  OBVIOUS
<1>5. PICK f : Solution(X, At(p), height, step, f)
  <2> HIDE DEF X, step, Def
  <2> QED
    BY <1>1, <1>3, <1>4, Recursion
<1>6. ASSUME NEW n \in 1 .. height PROVE f[n] = Onto(f[n - 1])
  <2>1. n - 1 \in 0 .. height
    BY <1>1
  <2>2. f[n - 1] \in X
    BY <1>5, <2>1 DEF Solution
  <2> HIDE DEF X
  <2>3. <<n, f[n - 1]>> \in (1 .. height) \X X
    BY <2>2
  <2> QED
    BY <1>5, <2>3 DEF Solution
<1>7. Def(f)
  <2>1. \A n \in 0 .. height : n = 0 \/ n \in 1 .. height
    BY <1>1
  <2>2. f = [n \in 0 .. height |-> f[n]] /\ f[0] = At(p)
    BY <1>5 DEF Solution
  <2> QED
    BY <1>6, <2>1, <2>2
<1> DEFINE g == CHOOSE h : Def(h)
<1>8. Def(g)
  <2> HIDE DEF Def
  <2> QED
    BY <1>7
<1>9. Descend(At(p)) = g[height]
  BY DEF Descend, Onto
<1> HIDE DEF g
<1>10. g[0] = At(p) /\ \A n \in 1 .. height : g[n] = Onto(g[n - 1])
  <2>1. \A n \in 1 .. height : n \in 0 .. height /\ n # 0
    BY <1>1
  <2>2. 0 \in 0 .. height
    BY <1>1
  <2> QED
    BY <1>8, <2>1, <2>2
<1> DEFINE Fits(q) == \A x \in Pairs : Under(p, x) => Under(q, x) \/ After(q, x)
           Good(n) == \E q \in tree : /\ g[n] = At(q) /\ Under(p, q) /\ Fits(q)
                                      /\ Dead(q) \/ Len(q) >= n
           G == {n \in Nat : n <= height => Good(n)}
<1>11. 0 \in G
  <2>1. p \in Seq(Branch) /\ Len(p) \in Nat
    BY TreeIs
  <2>2. Under(p, p) /\ Len(p) >= 0
    BY <2>1 DEF Under
  <2>3. Fits(p)
    OBVIOUS
  <2> HIDE DEF Fits
  <2>4. Good(0)
    BY <1>10, <2>2, <2>3
  <2> QED
    BY <2>4
<1>12. ASSUME NEW n \in G PROVE n + 1 \in G
  <2> SUFFICES ASSUME n + 1 <= height PROVE Good(n + 1)
    <3> HIDE DEF Good
    <3> QED
      OBVIOUS
  <2>1. n \in Nat /\ n <= height /\ n + 1 \in 1 .. height /\ (n + 1) - 1 = n
    BY <1>1
  <2>2. PICK t \in tree : g[n] = At(t) /\ Under(p, t) /\ Fits(t) /\ (Dead(t) \/ Len(t) >= n)
    BY <2>1
  <2>3. g[n + 1] = At(Below(t)) /\ Below(t) \in tree /\ t \in Seq(Branch) /\ Len(t) \in Nat
    <3>1. g[n + 1] = Onto(g[n])
      BY <1>10, <2>1
    <3> QED
      BY <1>2, <2>2, <3>1, TreeIs
  <2>4. CASE Dead(t)
    <3>1. Below(t) = t
      BY <2>4 DEF Below
    <3> HIDE DEF Fits
    <3> QED
      BY <2>2, <2>3, <2>4, <3>1
  <2>5. CASE ~ Dead(t)
    <3> DEFINE m == Min(Active(t))
               q == Append(t, m)
    <3>1. Below(t) = q /\ Active(t) # {} /\ Len(t) # height
      BY <2>5 DEF Below, Dead
    <3>2. m \in Branch
      BY <3>1, ActiveIs, MinIs
    <3>3. q \in Seq(Branch) /\ Len(q) = Len(t) + 1 /\ \A e \in 1 .. Len(t) : q[e] = t[e]
      BY <2>3, <3>2, OnwardIs
    <3>4. Len(p) \in Nat
      BY TreeIs
    <3>5. Under(p, q) /\ Under(t, q)
      <4> HIDE DEF q
      <4>1. \A e \in 1 .. Len(p) : e \in 1 .. Len(t)
        BY <2>2, <2>3, <3>4 DEF Under
      <4> QED
        BY <2>2, <2>3, <3>3, <3>4, <4>1 DEF Under
    <3>6. ASSUME NEW x \in Pairs, Under(p, x) PROVE Under(q, x) \/ After(q, x)
      <4>1. CASE Under(t, x)
        BY <3>1, <4>1, FirstBranch
      <4>2. CASE After(t, x)
        <5>1. x \in Seq(Branch)
          BY PairIs
        <5> HIDE DEF q
        <5>2. After(q, x)
          BY <2>3, <3>3, <3>5, <4>2, <5>1, AfterUnder
        <5> QED
          BY <5>2
      <4> QED
        BY <2>2, <3>6, <4>1, <4>2
    <3>7. Fits(q)
      BY <3>6
    <3>8. Len(q) >= n + 1
      BY <2>1, <2>2, <2>3, <2>5, <3>3
    <3> HIDE DEF Fits, q
    <3> QED
      BY <2>3, <3>1, <3>5, <3>7, <3>8
  <2> QED
    BY <2>4, <2>5
<1>13. G \in SUBSET Nat
  OBVIOUS
<1> HIDE DEF G
<1>14. G = Nat
  BY <1>11, <1>12, <1>13, AllNumbers
<1>15. Good(height)
  <2> HIDE DEF Good
  <2> QED
    BY <1>1, <1>14 DEF G
<1>16. PICK q \in tree : g[height] = At(q) /\ Under(p, q) /\ Fits(q) /\ (Dead(q) \/ Len(q) >= height)
  BY <1>15
<1>17. q \in Seq(Branch) /\ Len(q) \in 0 .. height
  BY TreeIs
<1>18. Dead(q)
  BY <1>1, <1>16, <1>17 DEF Dead
<1>19. ASSUME NEW x \in Pairs, Under(p, x) PROVE x = q \/ After(q, x)
  <2>1. CASE Under(q, x) /\ Len(q) = height
    <3>1. x \in Seq(Branch) /\ Len(x) = height
      BY PairIs
    <3>2. \A e \in 1 .. Len(x) : x[e] = q[e]
      BY <2>1, <3>1 DEF Under
    <3>3. x = q
      BY <1>17, <2>1, <3>1, <3>2, SeqEqual
    <3> QED
      BY <3>3
  <2>2. CASE Under(q, x) /\ Len(q) # height
    BY <1>18, <2>2, FirstBranch DEF Dead
  <2> QED
    BY <1>16, <1>19, <2>1, <2>2
<1> QED
  BY <1>9, <1>16, <1>18, <1>19

\* A path of the tree takes branches that are there.
LEMMA OnPath ==
  ASSUME Shaped, NEW x \in tree, NEW d \in 1 .. Len(x)
  PROVE  x[d] \in Active(SubSeq(x, 1, d - 1))
<1> DEFINE p == SubSeq(x, 1, d - 1)
           q == SubSeq(x, 1, d)
<1>1. x \in Seq(Branch) /\ Len(x) \in Nat /\ x[d] \in Branch
  BY TreeIs, PathLength
<1>2. d \in 0 .. Len(x) /\ d - 1 \in 0 .. Len(x) /\ (d - 1) + 1 = d
  BY <1>1
<1>3. q \in tree /\ q \in Seq(Branch) /\ Len(q) = d /\ \A e \in 1 .. d : q[e] = x[e]
  BY <1>1, <1>2, TreeIs, Beginnings
<1>4. p \in Seq(Branch) /\ Len(p) = d - 1 /\ \A e \in 1 .. (d - 1) : p[e] = x[e]
  BY <1>1, <1>2, Beginnings
<1> DEFINE y == Append(p, x[d])
<1>5. y \in Seq(Branch) /\ Len(y) = (d - 1) + 1 /\ (\A e \in 1 .. (d - 1) : y[e] = p[e]) /\ y[(d - 1) + 1] = x[d]
  <2> HIDE DEF p
  <2> QED
    BY <1>1, <1>4, OnwardIs
<1> HIDE DEF p, q, y
<1>6. ASSUME NEW e \in 1 .. d PROVE q[e] = y[e]
  <2>1. CASE e = d
    BY <1>2, <1>3, <1>5, <2>1
  <2>2. CASE e # d
    <3>1. e \in 1 .. (d - 1)
      BY <1>2, <2>2
    <3> QED
      BY <1>3, <1>4, <1>5, <3>1
  <2> QED
    BY <2>1, <2>2
<1>7. q = y
  BY <1>2, <1>3, <1>5, <1>6, SeqEqual
<1> QED
  BY <1>1, <1>3, <1>7 DEF Active, p, y

\* A turn leads to the next place of the tree: no pair is between the two.
LEMMA TurnIs ==
  ASSUME Shaped, NEW p \in tree
  PROVE  /\ \E q \in tree : Turn(At(p)) = At(q)
         /\ (\E x \in Pairs : After(p, x)) =>
              \E q \in tree : /\ Turn(At(p)) = At(q) /\ After(p, q)
                              /\ \A x \in Pairs : After(p, x) => x = q \/ After(q, x)
<1> DEFINE n == Len(p)
           rest == [d \in 1 .. n |-> Left(p, d)]
           open == {d \in DOMAIN At(p).rest : At(p).rest[d] # {}}
           D == Max(open)
           b == Min(At(p).rest[D])
           P == SubSeq(p, 1, D - 1)
           parent == [path |-> SubSeq(At(p).path, 1, D - 1), rest |-> SubSeq(At(p).rest, 1, D - 1)]
<1>1. p \in Seq(Branch) /\ n \in Nat /\ At(p).path = p /\ At(p).rest = rest /\ \A d \in 0 .. n : SubSeq(p, 1, d) \in tree
  BY TreeIs, AtIs
<1>2. open = {d \in 1 .. n : Left(p, d) # {}}
  BY <1>1
<1>3. Turn(At(p)) = IF open = {} THEN At(<<>>) ELSE Descend(Onward(parent, b, At(p).rest[D] \ {b}))
  BY DEF Turn
<1>4. CASE open = {}
  <2>1. SubSeq(p, 1, 0) \in tree /\ SubSeq(p, 1, 0) = <<>>
    BY <1>1, SubSeqEmpty
  <2>2. ASSUME NEW x \in Pairs, After(p, x) PROVE FALSE
    <3>1. PICK d \in 1 .. n : d <= Len(x) /\ p[d] < x[d] /\ \A e \in 1 .. (d - 1) : p[e] = x[e]
      BY <2>2 DEF After
    <3>2. x \in tree /\ x \in Seq(Branch) /\ Len(x) \in Nat
      BY PairIs, PathLength
    <3>3. d \in 1 .. Len(x) /\ d - 1 \in 0 .. Len(x) /\ d - 1 \in 0 .. n
      BY <1>1, <3>1, <3>2
    <3>4. SubSeq(x, 1, d - 1) = SubSeq(p, 1, d - 1)
      <4>1. /\ SubSeq(x, 1, d - 1) \in Seq(Branch) /\ Len(SubSeq(x, 1, d - 1)) = d - 1
            /\ \A e \in 1 .. (d - 1) : SubSeq(x, 1, d - 1)[e] = x[e]
        BY <3>2, <3>3, Beginnings
      <4>2. /\ SubSeq(p, 1, d - 1) \in Seq(Branch) /\ Len(SubSeq(p, 1, d - 1)) = d - 1
            /\ \A e \in 1 .. (d - 1) : SubSeq(p, 1, d - 1)[e] = p[e]
        BY <1>1, <3>3, Beginnings
      <4>3. \A e \in 1 .. (d - 1) : SubSeq(x, 1, d - 1)[e] = SubSeq(p, 1, d - 1)[e]
        BY <3>1, <4>1, <4>2
      <4> QED
        BY <4>1, <4>2, <4>3, SeqEqual
    <3>5. x[d] \in Active(SubSeq(p, 1, d - 1))
      BY <3>2, <3>3, <3>4, OnPath
    <3>6. x[d] \in Left(p, d)
      BY <3>1, <3>5 DEF Left
    <3> QED
      BY <1>2, <1>4, <3>6
  <2> QED
    BY <1>3, <1>4, <2>1, <2>2
<1>5. CASE open # {}
  <2>1. D \in open /\ \A d \in open : d <= D
    <3>1. open \in SUBSET (1 .. n)
      BY <1>2
    <3> HIDE DEF open
    <3> QED
      BY <1>1, <1>5, <3>1, MaxIs
  <2>2. D \in 1 .. n /\ Left(p, D) # {} /\ At(p).rest[D] = Left(p, D)
    BY <1>1, <1>2, <2>1
  <2>3. D - 1 \in 0 .. n /\ D - 1 \in Nat /\ (D - 1) + 1 = D /\ D \in Nat
    BY <1>1, <2>2
  <2>4. P \in Seq(Branch) /\ Len(P) = D - 1 /\ P \in tree /\ (\A e \in 1 .. (D - 1) : P[e] = p[e])
        /\ \A e \in 0 .. (D - 1) : SubSeq(P, 1, e) = SubSeq(p, 1, e)
    <3> HIDE DEF D
    <3> QED
      BY <1>1, <2>3, Beginnings
  <2>5. Left(p, D) = {c \in Active(P) : p[D] < c}
    BY DEF Left
  <2>6. b \in Left(p, D) /\ (\A c \in Left(p, D) : b <= c) /\ Left(p, D) \ {b} = {c \in Left(p, D) : b < c}
    <3>1. Left(p, D) \in SUBSET Nat
      BY <2>5, ActiveIs
    <3> HIDE DEF D
    <3> QED
      BY <2>2, <3>1, MinIs
  <2>7. b \in Active(P) /\ p[D] < b /\ b \in Branch /\ b \in Nat /\ p[D] \in Nat
    <3>1. b \in Active(P) /\ p[D] < b
      BY <2>5, <2>6
    <3>2. p[D] \in Nat
      BY <1>1, <2>2, PathLength
    <3> QED
      BY <3>1, <3>2, ActiveIs
  <2>8. Left(p, D) \ {b} = {c \in Active(P) : b < c}
    <3>1. ASSUME NEW c \in Active(P), b < c PROVE p[D] < c
      <4>1. c \in Nat
        BY ActiveIs
      <4> HIDE DEF b, D
      <4> QED
        BY <2>7, <3>1, <4>1
    <3> QED
      BY <2>5, <2>6, <3>1
  <2>9. parent = At(P)
    <3> DEFINE low == SubSeq(rest, 1, D - 1)
               new == [d \in 1 .. (D - 1) |-> Left(P, d)]
    <3>1. ASSUME NEW d \in 1 .. (D - 1) PROVE Left(P, d) = Left(p, d) /\ Left(p, d) \in SUBSET Branch /\ d \in 1 .. n
      <4>1. d - 1 \in 0 .. (D - 1) /\ d \in 1 .. n
        BY <1>1, <2>2, <2>3
      <4>2. SubSeq(P, 1, d - 1) = SubSeq(p, 1, d - 1) /\ P[d] = p[d]
        BY <2>4, <4>1
      <4> QED
        BY <4>1, <4>2, ActiveIs DEF Left
    <3>2. \A d \in 1 .. (D - 1) : rest[d] \in SUBSET Branch /\ rest[d] = Left(p, d)
      BY <3>1
    <3> HIDE DEF rest, D, P
    <3>3. /\ low \in Seq(SUBSET Branch) /\ Len(low) = IF 1 <= D - 1 THEN (D - 1) - 1 + 1 ELSE 0
          /\ \A d \in 1 .. (D - 1) - 1 + 1 : low[d] = rest[1 + d - 1]
      BY <2>3, <3>2, SubSeqProperties
    <3>4. new \in Seq(SUBSET Branch) /\ Len(new) = D - 1 /\ \A d \in 1 .. (D - 1) : new[d] = Left(P, d)
      BY <2>3, <3>1
    <3>5. \A d \in 1 .. (D - 1) : d \in 1 .. (D - 1) - 1 + 1 /\ 1 + d - 1 = d
      BY <2>3
    <3> HIDE DEF low, new
    <3>6. Len(low) = D - 1
      BY <2>3, <3>3
    <3>7. \A d \in 1 .. (D - 1) : low[d] = new[d]
      BY <3>1, <3>2, <3>3, <3>4, <3>5
    <3>8. low = new
      BY <3>3, <3>4, <3>6, <3>7, SeqEqual
    <3>9. At(P) = [path |-> P, rest |-> new]
      BY <2>4, AtIs DEF new
    <3> QED
      BY <1>1, <3>8, <3>9 DEF low, P
  <2> DEFINE q0 == Append(P, b)
  <2> HIDE DEF D, b, P, parent, open
  <2>10. Onward(parent, b, Left(p, D) \ {b}) = At(q0)
    BY <2>4, <2>7, <2>8, <2>9, OnwardIs
  <2>11. Turn(At(p)) = Descend(At(q0))
    BY <1>3, <1>5, <2>2, <2>10
  <2>12. /\ q0 \in tree /\ q0 \in Seq(Branch) /\ Len(q0) = D
         /\ (\A e \in 1 .. (D - 1) : q0[e] = p[e]) /\ q0[D] = b
    BY <2>3, <2>4, <2>7, OnwardIs, ActiveIs
  <2> HIDE DEF q0
  <2>13. PICK q \in tree : /\ Descend(At(q0)) = At(q) /\ Under(q0, q)
                           /\ \A x \in Pairs : Under(q0, x) => x = q \/ After(q, x)
    BY <2>12, DescendIs
  <2>14. q \in Seq(Branch) /\ Len(q) \in Nat /\ D <= Len(q) /\ (\A e \in 1 .. (D - 1) : q[e] = p[e]) /\ q[D] = b
    <3>1. q \in Seq(Branch) /\ Len(q) \in Nat
      BY TreeIs, PathLength
    <3>2. D \in 1 .. D /\ \A e \in 1 .. (D - 1) : e \in 1 .. D
      BY <2>2, <2>3
    <3> QED
      BY <2>12, <2>13, <3>1, <3>2 DEF Under
  <2>15. After(p, q)
    BY <2>2, <2>7, <2>14 DEF After
  <2>16. ASSUME NEW x \in Pairs, After(p, x) PROVE x = q \/ After(q, x)
    <3>1. PICK d \in 1 .. n : d <= Len(x) /\ p[d] < x[d] /\ \A e \in 1 .. (d - 1) : p[e] = x[e]
      BY <2>16 DEF After
    <3>2. x \in tree /\ x \in Seq(Branch) /\ Len(x) \in Nat
      BY PairIs, PathLength
    <3>3. d \in 1 .. Len(x) /\ d - 1 \in 0 .. Len(x) /\ d - 1 \in 0 .. n
      BY <1>1, <3>1, <3>2
    <3>4. SubSeq(x, 1, d - 1) = SubSeq(p, 1, d - 1)
      <4>1. /\ SubSeq(x, 1, d - 1) \in Seq(Branch) /\ Len(SubSeq(x, 1, d - 1)) = d - 1
            /\ \A e \in 1 .. (d - 1) : SubSeq(x, 1, d - 1)[e] = x[e]
        BY <3>2, <3>3, Beginnings
      <4>2. /\ SubSeq(p, 1, d - 1) \in Seq(Branch) /\ Len(SubSeq(p, 1, d - 1)) = d - 1
            /\ \A e \in 1 .. (d - 1) : SubSeq(p, 1, d - 1)[e] = p[e]
        BY <1>1, <3>3, Beginnings
      <4>3. \A e \in 1 .. (d - 1) : SubSeq(x, 1, d - 1)[e] = SubSeq(p, 1, d - 1)[e]
        BY <3>1, <4>1, <4>2
      <4> QED
        BY <4>1, <4>2, <4>3, SeqEqual
    <3>5. x[d] \in Active(SubSeq(p, 1, d - 1))
      BY <3>2, <3>3, <3>4, OnPath
    <3>6. x[d] \in Left(p, d) /\ x[d] \in Nat
      BY <3>1, <3>2, <3>3, <3>5, PathLength DEF Left
    <3>7. d <= D
      BY <1>2, <2>1, <3>6
    <3>8. CASE d < D
      <4>1. d \in 1 .. (D - 1) /\ d \in 1 .. Len(q) /\ \A e \in 1 .. (d - 1) : e \in 1 .. (D - 1)
        BY <2>3, <2>14, <3>8
      <4> QED
        BY <2>14, <3>1, <4>1 DEF After
    <3>9. CASE d = D /\ b < x[d]
      <4>1. D \in 1 .. Len(q)
        BY <2>3, <2>14, <3>9
      <4> QED
        BY <2>14, <3>1, <3>9, <4>1 DEF After
    <3>10. CASE d = D /\ b = x[d]
      <4>1. \A e \in 1 .. D : e \in 1 .. (D - 1) \/ e = D
        BY <2>3
      <4>2. \A e \in 1 .. D : x[e] = q0[e]
        BY <2>12, <3>1, <3>10, <4>1
      <4>3. Under(q0, x)
        BY <2>12, <3>1, <3>10, <4>2 DEF Under
      <4> QED
        BY <2>13, <4>3
    <3>11. d = D => b <= x[d]
      BY <2>6, <3>6
    <3>12. d \in Nat /\ D \in Nat /\ b \in Nat /\ x[d] \in Nat
      BY <2>3, <2>7, <3>6
    <3> QED
      BY <3>7, <3>8, <3>9, <3>10, <3>11, <3>12
  <2> QED
    BY <2>11, <2>13, <2>15, <2>16
<1> QED
  BY <1>4, <1>5

Beyond(p) == {t \in tree : After(p, t)}

LEMMA BeyondLess ==
  ASSUME Shaped, NEW p \in tree
  PROVE  /\ Cardinality(tree) \in Nat /\ Cardinality(Beyond(p)) \in Nat
         /\ Cardinality(Beyond(p)) < Cardinality(tree)
         /\ \A q \in Beyond(p) : Cardinality(Beyond(q)) < Cardinality(Beyond(p))
<1>1. IsFiniteSet(tree) /\ Cardinality(tree) \in Nat /\ \A t \in tree : t \in Seq(Branch)
  BY FS_CardinalityType, TreeIs DEF Shaped
<1>2. Beyond(p) \in SUBSET tree /\ p \notin Beyond(p)
  BY <1>1, AfterIrreflexive DEF Beyond
<1>3. /\ IsFiniteSet(Beyond(p)) /\ Cardinality(Beyond(p)) <= Cardinality(tree)
      /\ (Cardinality(tree) = Cardinality(Beyond(p)) => tree = Beyond(p))
  BY <1>1, <1>2, FS_Subset
<1>4. Cardinality(Beyond(p)) \in Nat
  BY <1>3, FS_CardinalityType
<1>5. ASSUME NEW q \in Beyond(p) PROVE Cardinality(Beyond(q)) < Cardinality(Beyond(p))
  <2>1. q \in tree /\ After(p, q)
    BY DEF Beyond
  <2>2. Beyond(q) \in SUBSET Beyond(p)
    BY <1>1, <2>1, AfterTransitive DEF Beyond
  <2>3. q \notin Beyond(q)
    BY <1>1, <2>1, AfterIrreflexive DEF Beyond
  <2>4. /\ IsFiniteSet(Beyond(q)) /\ Cardinality(Beyond(q)) <= Cardinality(Beyond(p))
        /\ (Cardinality(Beyond(p)) = Cardinality(Beyond(q)) => Beyond(p) = Beyond(q))
    BY <1>3, <2>2, FS_Subset
  <2>5. Cardinality(Beyond(q)) \in Nat
    BY <2>4, FS_CardinalityType
  <2> QED
    BY <1>4, <2>3, <2>4, <2>5
<1> QED
  BY <1>1, <1>2, <1>3, <1>4, <1>5

\* The next pair of the walk.
LEMMA AdvanceIs ==
  ASSUME Shaped, NEW p \in Pairs, \E x \in Pairs : After(p, x)
  PROVE  \E q \in Pairs : /\ Advance(At(p)) = At(q) /\ After(p, q)
                          /\ \A x \in Pairs : After(p, x) => x = q \/ After(q, x)
<1> DEFINE N == Cardinality(tree)
           Onto(place) == IF Len(place.path) \in {0, height} THEN place ELSE Turn(place)
           X == {At(t) : t \in tree}
           step == [nx \in (1 .. N) \X X |-> Onto(nx[2])]
           Def(f) == f = [n \in 0 .. N |-> IF n = 0 THEN Turn(At(p)) ELSE Onto(f[n - 1])]
<1>1. p \in tree /\ N \in Nat /\ height \in Nat \ {0}
  BY PairIs, BeyondLess DEF Shaped
<1>2. ASSUME NEW t \in tree
      PROVE  /\ t \in Seq(Branch) /\ At(t).path = t /\ Turn(At(t)) \in X
             /\ Onto(At(t)) = IF Len(t) \in {0, height} THEN At(t) ELSE Turn(At(t))
  <2>1. t \in Seq(Branch) /\ At(t).path = t
    BY TreeIs, AtIs
  <2>2. Turn(At(t)) \in X
    BY TurnIs
  <2> QED
    BY <2>1, <2>2
<1> HIDE DEF Onto
<1>3. step \in Steps(N, X)
  <2>1. ASSUME NEW nx \in (1 .. N) \X X PROVE Onto(nx[2]) \in X
    <3>1. PICK t \in tree : nx[2] = At(t)
      OBVIOUS
    <3> QED
      BY <1>2, <3>1
  <2> QED
    BY <2>1 DEF Steps
<1>4. Turn(At(p)) \in X
  BY <1>1, <1>2
<1>5. PICK f : Solution(X, Turn(At(p)), N, step, f)
  <2> HIDE DEF X, step, Def, N
  <2> QED
    BY <1>1, <1>3, <1>4, Recursion
<1>6. ASSUME NEW n \in 1 .. N PROVE f[n] = Onto(f[n - 1])
  <2>1. n - 1 \in 0 .. N
    BY <1>1
  <2>2. f[n - 1] \in X
    BY <1>5, <2>1 DEF Solution
  <2> HIDE DEF X
  <2>3. <<n, f[n - 1]>> \in (1 .. N) \X X
    BY <2>2
  <2> QED
    BY <1>5, <2>3 DEF Solution
<1>7. Def(f)
  <2>1. \A n \in 0 .. N : n = 0 \/ n \in 1 .. N
    BY <1>1
  <2>2. f = [n \in 0 .. N |-> f[n]] /\ f[0] = Turn(At(p))
    BY <1>5 DEF Solution
  <2> HIDE DEF N
  <2> QED
    BY <1>6, <2>1, <2>2
<1> DEFINE g == CHOOSE h : Def(h)
<1>8. Def(g)
  <2> HIDE DEF Def
  <2> QED
    BY <1>7
<1>9. Advance(At(p)) = g[N]
  BY DEF Advance, Onto
<1> HIDE DEF g, N
<1>10. g[0] = Turn(At(p)) /\ \A n \in 1 .. N : g[n] = Onto(g[n - 1])
  <2>1. \A n \in 1 .. N : n \in 0 .. N /\ n # 0
    BY <1>1
  <2>2. 0 \in 0 .. N
    BY <1>1
  <2> QED
    BY <1>8, <2>1, <2>2
<1> HIDE DEF Def
<1> DEFINE Fits(q) == After(p, q) /\ \A x \in Pairs : After(p, x) => x = q \/ After(q, x)
           Good(n) == \E q \in tree : /\ g[n] = At(q) /\ Fits(q)
                                      /\ Len(q) = height \/ Cardinality(Beyond(q)) + n < N
           G == {n \in Nat : n <= N => Good(n)}
<1>11. 0 \in G
  <2>1. PICK q \in tree : Turn(At(p)) = At(q) /\ Fits(q)
    BY <1>1, TurnIs
  <2>2. Cardinality(Beyond(q)) \in Nat /\ Cardinality(Beyond(q)) < N
    BY BeyondLess DEF N
  <2>3. Cardinality(Beyond(q)) + 0 < N
    BY <2>2
  <2> HIDE DEF Fits
  <2>4. Good(0)
    BY <1>10, <2>1, <2>3
  <2> QED
    BY <2>4
<1>12. ASSUME NEW n \in G PROVE n + 1 \in G
  <2> SUFFICES ASSUME n + 1 <= N PROVE Good(n + 1)
    <3> HIDE DEF Good
    <3> QED
      OBVIOUS
  <2>1. n \in Nat /\ n <= N /\ n + 1 \in 1 .. N /\ (n + 1) - 1 = n
    BY <1>1
  <2>2. PICK t \in tree : g[n] = At(t) /\ Fits(t) /\ (Len(t) = height \/ Cardinality(Beyond(t)) + n < N)
    BY <2>1
  <2>3. g[n + 1] = IF Len(t) \in {0, height} THEN At(t) ELSE Turn(At(t))
    <3>1. g[n + 1] = Onto(g[n])
      BY <1>10, <2>1
    <3> QED
      BY <1>2, <2>2, <3>1
  <2>4. p \in Seq(Branch) /\ t \in Seq(Branch) /\ Len(p) \in Nat /\ Len(t) \in Nat
    BY <1>1, <1>2, PathLength
  <2>5. Len(t) # 0
    BY <2>2, <2>4 DEF After
  <2>6. CASE Len(t) = height
    <3> HIDE DEF Fits
    <3> QED
      BY <2>2, <2>3, <2>6
  <2>7. CASE Len(t) # height
    <3>1. g[n + 1] = Turn(At(t))
      BY <2>3, <2>5, <2>7
    <3>2. PICK x \in Pairs : After(p, x)
      OBVIOUS
    <3>3. x # t
      BY <2>7, PairIs
    <3>4. After(t, x)
      BY <2>2, <3>2, <3>3
    <3>5. PICK q \in tree : /\ Turn(At(t)) = At(q) /\ After(t, q)
                            /\ \A y \in Pairs : After(t, y) => y = q \/ After(q, y)
      BY <3>4, TurnIs
    <3>6. q \in Seq(Branch)
      BY <1>2
    <3>7. After(p, q)
      BY <2>2, <2>4, <3>5, <3>6, AfterTransitive
    <3>8. ASSUME NEW y \in Pairs, After(p, y) PROVE y = q \/ After(q, y)
      <4>1. y # t
        BY <2>7, PairIs
      <4> QED
        BY <2>2, <3>5, <3>8, <4>1
    <3>9. Fits(q)
      BY <3>7, <3>8
    <3>10. q \in Beyond(t)
      BY <3>5 DEF Beyond
    <3>11. /\ Cardinality(Beyond(q)) \in Nat /\ Cardinality(Beyond(t)) \in Nat
           /\ Cardinality(Beyond(q)) < Cardinality(Beyond(t))
      BY <3>10, BeyondLess
    <3>12. Cardinality(Beyond(q)) + (n + 1) < N
      BY <1>1, <2>1, <2>2, <2>7, <3>11
    <3> HIDE DEF Fits
    <3> QED
      BY <3>1, <3>5, <3>9, <3>12
  <2> QED
    BY <2>6, <2>7
<1>13. G \in SUBSET Nat
  OBVIOUS
<1> HIDE DEF G
<1>14. G = Nat
  BY <1>11, <1>12, <1>13, AllNumbers
<1>15. Good(N)
  <2> HIDE DEF Good
  <2> QED
    BY <1>1, <1>14 DEF G
<1>16. PICK q \in tree : g[N] = At(q) /\ Fits(q) /\ (Len(q) = height \/ Cardinality(Beyond(q)) + N < N)
  BY <1>15
<1>17. Cardinality(Beyond(q)) \in Nat
  BY BeyondLess
<1>18. Len(q) = height
  BY <1>1, <1>16, <1>17
<1>19. q \in Pairs
  BY <1>18 DEF Pairs
<1> QED
  BY <1>9, <1>16, <1>19

\* From the pair of one rank to that of the next.
LEMMA AdvanceSerial ==
  ASSUME Shaped, NEW i \in 1 .. (Cardinality(Pairs) - 1)
  PROVE  Advance(At(Serial[i])) = At(Serial[i + 1])
<1> DEFINE n == Cardinality(Pairs)
           p == Serial[i]
           x == Serial[i + 1]
           r(a) == Rank(PathOrder, Pairs, a)
<1>1. /\ n \in Nat /\ \A k \in 1 .. n : Serial[k] \in Pairs /\ r(Serial[k]) = k - 1
  BY SerialIs
<1>2. /\ \A a \in Pairs : r(a) \in 0 .. (n - 1)
      /\ \A a, b \in Pairs : <<a, b>> \in PathOrder <=> r(a) < r(b)
      /\ \A a, b \in Pairs : r(a) = r(b) => a = b
  BY PairsOrdered, RankOrder
<1>3. \A a, b \in Pairs : <<a, b>> \in PathOrder <=> After(a, b)
  BY PairIs DEF PathOrder
<1> HIDE DEF n, r
<1>4. i \in 1 .. n /\ i + 1 \in 1 .. n
  BY <1>1 DEF n
<1>5. p \in Pairs /\ x \in Pairs /\ r(p) = i - 1 /\ r(x) = i
  <2>1. (i + 1) - 1 = i
    BY <1>4
  <2> QED
    BY <1>1, <1>4, <2>1
<1> HIDE DEF p, x
<1>6. After(p, x)
  <2>1. i \in Nat /\ i - 1 < i
    BY <1>1, <1>4
  <2>2. r(p) < r(x)
    BY <1>5, <2>1
  <2>3. <<p, x>> \in PathOrder
    BY <1>2, <1>5, <2>2
  <2> QED
    BY <1>3, <1>5, <2>3
<1>7. PICK q \in Pairs : Advance(At(p)) = At(q) /\ After(p, q) /\ \A y \in Pairs : After(p, y) => y = q \/ After(q, y)
  BY <1>5, <1>6, AdvanceIs
<1>8. r(p) < r(q) /\ r(q) \in 0 .. (n - 1)
  BY <1>2, <1>3, <1>5, <1>7
<1>9. x = q \/ r(q) < r(x)
  BY <1>2, <1>3, <1>5, <1>6, <1>7
<1>10. x = q
  BY <1>4, <1>5, <1>8, <1>9
<1> QED
  BY <1>7, <1>10 DEF p, x

-----------------------------------------------------------------------------
\* What an index says of a set of paths: their number, and the ranks of some.
Indexes(g, X) ==
  /\ g \in [count : Nat, depth : Nat, starts : Seq(Nat), paths : Seq(Seq(Branch))]
  /\ g.count = Cardinality(X) /\ Len(g.paths) = Len(g.starts)
  /\ \A j \in 1 .. Len(g.starts) : g.paths[j] \in X /\ g.starts[j] = Rank(PathOrder, X, g.paths[j])
  /\ \A j \in 2 .. Len(g.starts) : g.starts[j - 1] < g.starts[j]
Started(g) == g.count # 0 => g.starts # <<>> /\ g.starts[1] = 0

LEMMA ReadyIs ==
  ASSUME NEW X, IsFiniteSet(X), Orders(PathOrder, X), NEW g, Indexes(g, X), Started(g), X # {}
  PROVE  IndexReady(g, g.depth)
<1> DEFINE s == g.starts
           m == Len(s)
<1>1. /\ g.count = Cardinality(X) /\ s \in Seq(Nat) /\ Len(g.paths) = m /\ m \in Nat
      /\ \A j \in 1 .. m : g.paths[j] \in X /\ s[j] = Rank(PathOrder, X, g.paths[j])
      /\ \A j \in 2 .. m : s[j - 1] < s[j]
  BY LenProperties DEF Indexes
<1>2. Cardinality(X) \in Nat /\ Cardinality(X) # 0 /\ \A a \in X : Rank(PathOrder, X, a) \in 0 .. (Cardinality(X) - 1)
  BY RankOrder, FS_EmptySet
<1>3. s # <<>> /\ s[1] = 0
  BY <1>1, <1>2 DEF Started
<1>4. m \in 1 .. m
  BY <1>1, <1>3, EmptySeq
<1>5. s[m] < g.count
  BY <1>1, <1>2, <1>4
<1>6. Head(s) = 0 /\ Last(s) = s[m]
  BY <1>1, <1>3 DEF Last
<1> HIDE DEF s, m
<1> QED
  BY <1>1, <1>3, <1>5, <1>6 DEF IndexReady, s, m

\* The pair at an index entry, and the length of its range.
LEMMA RangeIs ==
  ASSUME Shaped, Indexes(gate, Pairs), Started(gate), NEW k \in 0 .. (Len(gate.starts) - 1)
  PROVE  /\ gate.starts[k + 1] \in Nat /\ RangeLength(k) \in Nat \ {0}
         /\ gate.starts[k + 1] + RangeLength(k) = IF k + 1 = Len(gate.starts) THEN Cardinality(Pairs) ELSE gate.starts[k + 2]
         /\ gate.starts[k + 1] + RangeLength(k) <= Cardinality(Pairs)
         /\ gate.paths[k + 1] = Serial[gate.starts[k + 1] + 1]
<1> DEFINE s == gate.starts
           m == Len(s)
           n == Cardinality(Pairs)
           r(a) == Rank(PathOrder, Pairs, a)
<1>1. /\ gate.count = n /\ s \in Seq(Nat) /\ m \in Nat
      /\ \A j \in 1 .. m : gate.paths[j] \in Pairs /\ s[j] = r(gate.paths[j])
      /\ \A j \in 2 .. m : s[j - 1] < s[j]
  BY LenProperties DEF Indexes
<1>2. n \in Nat /\ \A a \in Pairs : r(a) \in 0 .. (n - 1) /\ Serial[r(a) + 1] = a
  BY PairsOrdered, RankOrder, SerialIs
<1>3. RangeLength(k) = (IF k + 1 = m THEN n ELSE s[k + 2]) - s[k + 1]
  BY <1>1 DEF RangeLength
<1> HIDE DEF s, m, n, r
<1>4. k \in Nat /\ k + 1 \in 1 .. m /\ (k + 1 # m => k + 2 \in 2 .. m /\ k + 2 \in 1 .. m /\ (k + 2) - 1 = k + 1)
  BY <1>1 DEF m, s
<1>5. s[k + 1] \in 0 .. (n - 1) /\ gate.paths[k + 1] = Serial[s[k + 1] + 1]
  BY <1>1, <1>2, <1>4
<1>6. k + 1 # m => s[k + 1] < s[k + 2] /\ s[k + 2] \in 0 .. (n - 1)
  BY <1>1, <1>2, <1>4
<1> DEFINE lo == s[k + 1]
           hi == IF k + 1 = m THEN n ELSE s[k + 2]
<1>7. lo \in Nat /\ hi \in Nat /\ lo < hi /\ hi <= n
  BY <1>2, <1>5, <1>6
<1> HIDE DEF lo, hi
<1>8. hi - lo \in Nat \ {0} /\ lo + (hi - lo) = hi
  BY <1>7
<1> QED
  BY <1>3, <1>5, <1>7, <1>8 DEF lo, hi, s, m, n

\* The walk of a range visits the pairs of the serial walk, from its first one on.
LEMMA VisitedIs ==
  ASSUME Shaped, Indexes(gate, Pairs), Started(gate), NEW k \in 0 .. (Len(gate.starts) - 1)
  PROVE  Visited(k) = [i \in 1 .. RangeLength(k) |-> Serial[gate.starts[k + 1] + i]]
<1> DEFINE L == RangeLength(k)
           s == gate.starts[k + 1]
           Def(f) == f = [i \in 1 .. L |-> IF i = 1 THEN At(gate.paths[k + 1]) ELSE Advance(f[i - 1])]
           f == [i \in 1 .. L |-> At(Serial[s + i])]
           g == CHOOSE h : Def(h)
<1>1. s \in Nat /\ L \in Nat \ {0} /\ s + L <= Cardinality(Pairs) /\ gate.paths[k + 1] = Serial[s + 1]
  BY RangeIs
<1>2. Cardinality(Pairs) \in Nat
  BY SerialIs
<1>3. Visited(k) = [i \in 1 .. L |-> g[i].path]
  BY DEF Visited
<1> HIDE DEF L, s
<1>4. ASSUME NEW i \in 1 .. L, i # 1 PROVE i - 1 \in 1 .. L /\ Advance(At(Serial[s + (i - 1)])) = At(Serial[s + i])
  <2>1. i - 1 \in 1 .. L /\ s + (i - 1) \in 1 .. (Cardinality(Pairs) - 1) /\ (s + (i - 1)) + 1 = s + i
    BY <1>1, <1>2, <1>4
  <2> QED
    BY <2>1, AdvanceSerial
<1>5. Def(f)
  <2>1. \A i \in 1 .. L : f[i] = IF i = 1 THEN At(gate.paths[k + 1]) ELSE Advance(f[i - 1])
    <3> SUFFICES ASSUME NEW i \in 1 .. L PROVE f[i] = IF i = 1 THEN At(gate.paths[k + 1]) ELSE Advance(f[i - 1])
      OBVIOUS
    <3>1. CASE i = 1
      BY <1>1, <3>1
    <3>2. CASE i # 1
      <4>1. i - 1 \in 1 .. L /\ f[i - 1] = At(Serial[s + (i - 1)]) /\ f[i] = At(Serial[s + i])
        BY <1>4, <3>2
      <4> QED
        BY <1>4, <3>2, <4>1
    <3> QED
      BY <3>1, <3>2
  <2>2. f = [i \in 1 .. L |-> f[i]]
    OBVIOUS
  <2> HIDE DEF f
  <2> QED
    BY <2>1, <2>2
<1>6. Def(g)
  <2> HIDE DEF Def
  <2> QED
    BY <1>5
<1> HIDE DEF g
<1>7. \A i \in 1 .. L : g[i] = IF i = 1 THEN At(gate.paths[k + 1]) ELSE Advance(g[i - 1])
  BY <1>6
<1> HIDE DEF Def
<1> DEFINE G == {j \in Nat : j + 1 \in 1 .. L => g[j + 1] = At(Serial[s + (j + 1)])}
<1>8. 0 \in G
  <2>1. 0 + 1 = 1 /\ 1 \in 1 .. L
    BY <1>1
  <2>2. g[1] = At(Serial[s + 1])
    BY <1>1, <1>7, <2>1
  <2> QED
    BY <2>1, <2>2
<1>9. ASSUME NEW j \in G PROVE j + 1 \in G
  <2> SUFFICES ASSUME (j + 1) + 1 \in 1 .. L PROVE g[(j + 1) + 1] = At(Serial[s + ((j + 1) + 1)])
    OBVIOUS
  <2>1. j + 1 \in 1 .. L /\ (j + 1) + 1 # 1 /\ ((j + 1) + 1) - 1 = j + 1
    BY <1>1
  <2>2. g[j + 1] = At(Serial[s + (j + 1)])
    BY <2>1
  <2> DEFINE i == (j + 1) + 1
  <2>3. i \in 1 .. L /\ i # 1 /\ i - 1 = j + 1
    BY <2>1
  <2> HIDE DEF i
  <2>4. g[i] = At(Serial[s + i])
    BY <1>4, <1>7, <2>2, <2>3
  <2> QED
    BY <2>4 DEF i
<1>10. G \in SUBSET Nat
  OBVIOUS
<1> HIDE DEF G
<1>11. G = Nat
  BY <1>8, <1>9, <1>10, AllNumbers
<1>12. ASSUME NEW i \in 1 .. L PROVE g[i].path = Serial[s + i]
  <2>1. i - 1 \in G /\ (i - 1) + 1 = i
    BY <1>1, <1>11
  <2>2. g[i] = At(Serial[s + i])
    BY <2>1 DEF G
  <2>3. s + i \in 1 .. Cardinality(Pairs)
    BY <1>1, <1>2
  <2>4. Serial[s + i] \in Seq(Branch)
    BY <2>3, SerialIs, PairIs
  <2> QED
    BY <2>2, <2>4, AtIs
<1>13. Visited(k) = [i \in 1 .. L |-> Serial[s + i]]
  BY <1>3, <1>12
<1> QED
  BY <1>13 DEF L, s

\* The walks of all ranges, one after another, are the serial walk.
LEMMA FlattenIs ==
  ASSUME Shaped, Indexes(gate, Pairs), Started(gate), gate.starts # <<>>
  PROVE  Serial = FlattenSeq([k \in 1 .. Len(gate.starts) |-> Visited(k - 1)])
<1> DEFINE s == gate.starts
           m == Len(s)
           seqs == [k \in 1 .. m |-> Visited(k - 1)]
           end(i) == IF i = m THEN Cardinality(Pairs) ELSE s[i + 1]
           Def(f) == f = [i \in 1 .. m |-> IF i = 1 THEN seqs[i] ELSE f[i - 1] \o seqs[i]]
           f == [i \in 1 .. m |-> SubSeq(Serial, 1, end(i))]
           g == CHOOSE h : Def(h)
<1>1. Serial \in Seq(Pairs) /\ Len(Serial) = Cardinality(Pairs) /\ Cardinality(Pairs) \in Nat
  BY SerialIs
<1>2. m \in Nat \ {0} /\ gate.count = Cardinality(Pairs) /\ \A i \in 1 .. m : s[i] \in Nat
  <2>1. s \in Seq(Nat)
    BY DEF Indexes
  <2> QED
    BY <2>1, EmptySeq, LenProperties DEF Indexes
<1>3. ASSUME NEW i \in 1 .. m
      PROVE  /\ s[i] \in 0 .. end(i) /\ end(i) \in 0 .. Cardinality(Pairs)
             /\ Visited(i - 1) = SubSeq(Serial, s[i] + 1, end(i))
  <2> DEFINE L == RangeLength(i - 1)
  <2>1. i - 1 \in 0 .. (m - 1) /\ (i - 1) + 1 = i /\ (i - 1) + 2 = i + 1
    BY <1>2
  <2>2. s[i] \in Nat /\ L \in Nat \ {0} /\ s[i] + L = end(i) /\ s[i] + L <= Cardinality(Pairs)
    BY <2>1, RangeIs
  <2>3. Visited(i - 1) = [j \in 1 .. L |-> Serial[s[i] + j]]
    BY <2>1, VisitedIs
  <2> HIDE DEF L, s, m, end
  <2>4. s[i] \in 0 .. end(i) /\ end(i) \in 0 .. Cardinality(Pairs)
    BY <1>1, <2>2
  <2>5. Visited(i - 1) \in Seq(Pairs) /\ Len(Visited(i - 1)) = L /\ \A j \in 1 .. L : Visited(i - 1)[j] = Serial[s[i] + j]
    <3>1. \A j \in 1 .. L : s[i] + j \in 1 .. Cardinality(Pairs)
      BY <1>1, <2>2
    <3>2. \A j \in 1 .. L : Serial[s[i] + j] \in Pairs
      BY <3>1, SerialIs
    <3> QED
      BY <2>2, <2>3, <3>2
  <2>6. /\ SubSeq(Serial, s[i] + 1, end(i)) \in Seq(Pairs) /\ Len(SubSeq(Serial, s[i] + 1, end(i))) = L
        /\ \A j \in 1 .. L : SubSeq(Serial, s[i] + 1, end(i))[j] = Serial[s[i] + j]
    <3>1. s[i] + 1 \in Int /\ end(i) \in Int
      BY <2>2
    <3>2. \A j \in (s[i] + 1) .. end(i) : j \in 1 .. Cardinality(Pairs)
      BY <1>1, <2>2
    <3>3. \A j \in (s[i] + 1) .. end(i) : Serial[j] \in Pairs
      BY <3>2, SerialIs
    <3> DEFINE lo == s[i] + 1
               hi == end(i)
               sub == SubSeq(Serial, lo, hi)
    <3>4. lo \in Int /\ hi \in Int /\ \A j \in lo .. hi : Serial[j] \in Pairs
      BY <3>1, <3>3
    <3> HIDE DEF lo, hi
    <3>5. /\ sub \in Seq(Pairs) /\ Len(sub) = IF lo <= hi THEN hi - lo + 1 ELSE 0
          /\ \A j \in 1 .. hi - lo + 1 : sub[j] = Serial[lo + j - 1]
      BY <3>4, SubSeqProperties
    <3>6. hi - lo + 1 = L /\ lo <= hi /\ \A j \in 1 .. L : lo + j - 1 = s[i] + j
      BY <2>2 DEF lo, hi
    <3> HIDE DEF sub
    <3> QED
      BY <3>5, <3>6 DEF sub, lo, hi
  <2>7. \A j \in 1 .. L : Visited(i - 1)[j] = SubSeq(Serial, s[i] + 1, end(i))[j]
    BY <2>5, <2>6
  <2> QED
    BY <2>4, <2>5, <2>6, <2>7, SeqEqual
<1>4. s[1] = 0
  <2>1. gate.count # 0
    <3>1. 1 \in 1 .. m
      BY <1>2
    <3>2. gate.paths[1] \in Pairs /\ gate.starts[1] = Rank(PathOrder, Pairs, gate.paths[1])
      BY <3>1 DEF Indexes
    <3>3. \A a \in Pairs : Rank(PathOrder, Pairs, a) \in 0 .. (Cardinality(Pairs) - 1)
      BY PairsOrdered, RankOrder
    <3> QED
      BY <1>1, <1>2, <3>2, <3>3
  <2> QED
    BY <2>1 DEF Started
<1>5. \A i \in 1 .. m : i # m => end(i) = s[i + 1]
  OBVIOUS
<1>6. end(m) = Cardinality(Pairs)
  OBVIOUS
<1>7. FlattenSeq(seqs) = g[m]
  <2>1. Len(seqs) = m
    BY <1>2
  <2> HIDE DEF seqs
  <2>2. FlattenSeq(seqs) =
          IF Len(seqs) = 0 THEN seqs
          ELSE (CHOOSE h : h = [i \in 1 .. Len(seqs) |-> IF i = 1 THEN seqs[i] ELSE h[i - 1] \o seqs[i]])[Len(seqs)]
    BY DEF FlattenSeq
  <2> HIDE DEF m
  <2> QED
    BY <1>2, <2>1, <2>2
<1>8. \A i \in 1 .. m : seqs[i] = SubSeq(Serial, s[i] + 1, end(i))
  BY <1>3
<1> HIDE DEF s, m, end, seqs
<1>9. ASSUME NEW i \in 1 .. m, i # 1
      PROVE  i - 1 \in 1 .. m /\ SubSeq(Serial, 1, end(i - 1)) \o seqs[i] = SubSeq(Serial, 1, end(i))
  <2>1. i - 1 \in 1 .. m /\ i - 1 # m /\ (i - 1) + 1 = i
    BY <1>2, <1>9
  <2>2. end(i - 1) = s[i]
    BY <1>5, <2>1
  <2>3. 1 \in 1 .. Len(Serial) + 1 /\ s[i] \in 1 - 1 .. Len(Serial) /\ end(i) \in s[i] .. Len(Serial)
    <3>1. s[i] \in Nat /\ end(i) \in Nat /\ s[i] <= end(i) /\ end(i) <= Cardinality(Pairs)
      BY <1>1, <1>2, <1>3
    <3> QED
      BY <1>1, <3>1
  <2>4. SubSeq(Serial, 1, s[i]) \o SubSeq(Serial, s[i] + 1, end(i)) = SubSeq(Serial, 1, end(i))
    BY <1>1, <2>3, ConcatAdjacentSubSeq
  <2> QED
    BY <1>8, <2>1, <2>2, <2>4
<1>10. \A i \in 1 .. m : f[i] = IF i = 1 THEN seqs[i] ELSE f[i - 1] \o seqs[i]
  <2> SUFFICES ASSUME NEW i \in 1 .. m PROVE f[i] = IF i = 1 THEN seqs[i] ELSE f[i - 1] \o seqs[i]
    OBVIOUS
  <2>1. CASE i = 1
    <3>1. seqs[1] = SubSeq(Serial, 0 + 1, end(1)) /\ 0 + 1 = 1
      BY <1>4, <1>8, <2>1
    <3>2. seqs[1] = SubSeq(Serial, 1, end(1))
      BY <3>1
    <3> QED
      BY <2>1, <3>2
  <2>2. CASE i # 1
    <3>1. f[i - 1] = SubSeq(Serial, 1, end(i - 1)) /\ f[i] = SubSeq(Serial, 1, end(i))
      BY <1>9, <2>2
    <3> QED
      BY <1>9, <2>2, <3>1
  <2> QED
    BY <2>1, <2>2
<1>11. Def(f)
  <2>1. f = [i \in 1 .. m |-> f[i]]
    OBVIOUS
  <2> HIDE DEF f
  <2> QED
    BY <1>10, <2>1
<1>12. Def(g)
  <2> HIDE DEF Def
  <2> QED
    BY <1>11
<1> HIDE DEF g, f
<1>13. \A i \in 1 .. m : g[i] = IF i = 1 THEN seqs[i] ELSE g[i - 1] \o seqs[i]
  BY <1>12
<1> HIDE DEF Def
<1> DEFINE G == {j \in Nat : j + 1 \in 1 .. m => g[j + 1] = SubSeq(Serial, 1, end(j + 1))}
<1>14. 0 \in G
  <2>1. 0 + 1 = 1 /\ 1 \in 1 .. m
    BY <1>2
  <2>2. seqs[1] = SubSeq(Serial, 1, end(1))
    <3>1. seqs[1] = SubSeq(Serial, 0 + 1, end(1))
      BY <1>4, <1>8, <2>1
    <3> QED
      BY <2>1, <3>1
  <2> QED
    BY <1>13, <2>1, <2>2
<1>15. ASSUME NEW j \in G PROVE j + 1 \in G
  <2> SUFFICES ASSUME (j + 1) + 1 \in 1 .. m PROVE g[(j + 1) + 1] = SubSeq(Serial, 1, end((j + 1) + 1))
    OBVIOUS
  <2> DEFINE i == (j + 1) + 1
  <2>1. i \in 1 .. m /\ i # 1 /\ i - 1 = j + 1 /\ j + 1 \in 1 .. m
    BY <1>2
  <2>2. g[i - 1] = SubSeq(Serial, 1, end(i - 1))
    BY <2>1
  <2> HIDE DEF i
  <2>3. g[i] = SubSeq(Serial, 1, end(i))
    BY <1>9, <1>13, <2>1, <2>2
  <2> QED
    BY <2>3 DEF i
<1>16. G \in SUBSET Nat
  OBVIOUS
<1> HIDE DEF G
<1>17. m - 1 \in G /\ (m - 1) + 1 = m /\ m \in 1 .. m
  <2>1. G = Nat
    BY <1>14, <1>15, <1>16, AllNumbers
  <2> QED
    BY <1>2, <2>1
<1>18. g[m] = SubSeq(Serial, 1, end(m))
  BY <1>17 DEF G
<1>19. g[m] = Serial
  BY <1>1, <1>6, <1>18, SubSeqFull
<1> QED
  BY <1>7, <1>19 DEF seqs, m, s

-----------------------------------------------------------------------------
LEMMA Times ==
  ASSUME NEW a \in Nat, NEW b \in Nat, a <= b, NEW c \in Nat
  PROVE  a * c \in Nat /\ b * c \in Nat /\ a * c <= b * c
OBVIOUS

LEMMA Strides ==
  ASSUME NEW n \in Nat, NEW Q \in Nat \ {0}, NEW size, size = (n + Q - 1) \div Q
  PROVE  /\ size \in Nat /\ (n # 0 => size # 0)
         /\ \A k \in 1 .. size : (k - 1) * Q \in 0 .. (n - 1)
         /\ \A k \in 2 .. size : (k - 1 - 1) * Q < (k - 1) * Q
<1> DEFINE a == n + Q - 1
<1>1. a \in Nat /\ (n # 0 => a >= Q)
  OBVIOUS
<1> HIDE DEF a
<1>2. size \in Nat /\ a = size * Q + (a % Q) /\ a % Q \in 0 .. (Q - 1)
  <2>1. size = a \div Q
    BY DEF a
  <2>2. a = (a \div Q) * Q + (a % Q) /\ a \div Q \in Nat /\ a % Q \in 0 .. (Q - 1)
    BY <1>1
  <2> QED
    BY <2>1, <2>2
<1>3. n # 0 => size # 0
  <2>1. size = 0 => size * Q = 0
    OBVIOUS
  <2> QED
    BY <1>1, <1>2, <2>1
<1>4. ASSUME NEW k \in 1 .. size PROVE (k - 1) * Q \in 0 .. (n - 1)
  <2>1. k - 1 \in Nat /\ size - 1 \in Nat /\ k - 1 <= size - 1
    BY <1>2
  <2>2. (k - 1) * Q \in Nat /\ (size - 1) * Q \in Nat /\ (k - 1) * Q <= (size - 1) * Q
    BY <2>1, Times
  <2>3. (size - 1) * Q = size * Q - Q
    BY <1>2
  <2>4. size * Q \in Nat
    BY <1>2
  <2> DEFINE x == (k - 1) * Q
             y == size * Q
  <2>5. x \in Nat /\ y \in Nat /\ x <= y - Q /\ n + Q - 1 = y + (a % Q)
    BY <1>2, <2>2, <2>3, <2>4 DEF a
  <2> HIDE DEF x, y
  <2>6. x \in 0 .. (n - 1)
    BY <1>2, <2>5
  <2> QED
    BY <2>6 DEF x
<1>5. ASSUME NEW k \in 2 .. size PROVE (k - 1 - 1) * Q < (k - 1) * Q
  <2> DEFINE j == k - 1 - 1
  <2>1. j \in Nat /\ k - 1 = j + 1
    BY <1>2
  <2> HIDE DEF j
  <2>2. (j + 1) * Q = j * Q + Q /\ j * Q \in Nat
    BY <2>1
  <2>3. j * Q < (j + 1) * Q
    BY <2>2
  <2> QED
    BY <2>1, <2>3 DEF j
<1> QED
  BY <1>2, <1>3, <1>4, <1>5

\* What a serial walk writes down.
LEMMA IndexedIs ==
  ASSUME Shaped
  PROVE  /\ Indexes(Indexed(Serial, height), Pairs) /\ Indexes(Unindexed(Serial), Pairs)
         /\ Pairs # {} => IndexReady(Indexed(Serial, height), height)
         /\ Indexed(Serial, height).count = Cardinality(Pairs) /\ Unindexed(Serial).count = Cardinality(Pairs)
<1> DEFINE n == Cardinality(Pairs)
           size == (n + Quantum - 1) \div Quantum
           starts == [k \in 1 .. size |-> (k - 1) * Quantum]
           paths == [k \in 1 .. size |-> Serial[(k - 1) * Quantum + 1]]
           g == Indexed(Serial, height)
           u == Unindexed(Serial)
<1>1. /\ n \in Nat /\ Len(Serial) = n
      /\ \A i \in 1 .. n : Serial[i] \in Pairs /\ Rank(PathOrder, Pairs, Serial[i]) = i - 1
  BY SerialIs
<1>2. Quantum \in Nat \ {0}
  <2>1. Cardinality(Branch) \in Nat /\ Cardinality(Branch) # 0
    BY GateAssumption, FS_CardinalityType, FS_EmptySet
  <2> QED
    BY <2>1, GateAssumption
<1>3. g = [count |-> n, depth |-> height, starts |-> starts, paths |-> paths]
  BY <1>1 DEF Indexed
<1>4. u = [count |-> n, depth |-> 0, starts |-> <<>>, paths |-> <<>>]
  BY <1>1 DEF Unindexed, Fresh
<1>5. /\ size \in Nat /\ (n # 0 => size # 0)
      /\ \A k \in 1 .. size : (k - 1) * Quantum \in 0 .. (n - 1)
      /\ \A k \in 2 .. size : (k - 1 - 1) * Quantum < (k - 1) * Quantum
  BY <1>1, <1>2, Strides
<1> HIDE DEF n, size, g, u
<1>6. /\ starts \in Seq(Nat) /\ Len(starts) = size
      /\ \A k \in 1 .. size : starts[k] = (k - 1) * Quantum /\ starts[k] \in 0 .. (n - 1)
  BY <1>5
<1>7. ASSUME NEW k \in 1 .. size
      PROVE  paths[k] \in Pairs /\ paths[k] \in Seq(Branch) /\ Rank(PathOrder, Pairs, paths[k]) = starts[k]
  <2> DEFINE i == (k - 1) * Quantum
  <2>1. i \in 0 .. (n - 1) /\ starts[k] = i /\ paths[k] = Serial[i + 1]
    BY <1>5, <1>6
  <2> HIDE DEF i, starts, paths
  <2>2. i + 1 \in 1 .. n /\ (i + 1) - 1 = i
    BY <1>1, <2>1
  <2> QED
    BY <1>1, <2>1, <2>2, PairIs
<1>8. paths \in Seq(Seq(Branch)) /\ Len(paths) = size
  BY <1>5, <1>7
<1>9. ASSUME NEW k \in 2 .. size PROVE starts[k - 1] < starts[k]
  <2>1. k \in 1 .. size /\ k - 1 \in 1 .. size
    BY <1>5
  <2>2. starts[k] = (k - 1) * Quantum /\ starts[k - 1] = (k - 1 - 1) * Quantum
    BY <1>6, <2>1
  <2> QED
    BY <1>5, <2>2
<1>10. Started(g)
  <2>1. n # 0 => 1 \in 1 .. size /\ starts # <<>>
    BY <1>5, <1>6
  <2>2. n # 0 => starts[1] = 0
    <3>1. (1 - 1) * Quantum = 0
      BY <1>2
    <3> QED
      BY <1>6, <2>1, <3>1
  <2> HIDE DEF starts, paths
  <2> QED
    BY <1>3, <2>1, <2>2 DEF Started
<1> HIDE DEF starts, paths
<1>11. g.count = n /\ g.depth = height /\ g.starts = starts /\ g.paths = paths
  BY <1>3
<1>12. height \in Nat
  BY DEF Shaped
<1>13. g \in [count : Nat, depth : Nat, starts : Seq(Nat), paths : Seq(Seq(Branch))]
  BY <1>1, <1>3, <1>6, <1>8, <1>12
<1>14. Indexes(g, Pairs)
  BY <1>6, <1>7, <1>8, <1>9, <1>11, <1>13 DEF Indexes, n
<1>15. Indexes(u, Pairs)
  <2>1. <<>> \in Seq(Nat) /\ <<>> \in Seq(Seq(Branch)) /\ Len(<<>>) = 0 /\ 1 .. 0 = {} /\ 2 .. 0 = {}
    BY EmptySeq
  <2>2. u \in [count : Nat, depth : Nat, starts : Seq(Nat), paths : Seq(Seq(Branch))]
    BY <1>1, <1>4, <2>1
  <2>3. u.count = n /\ u.starts = <<>> /\ u.paths = <<>>
    BY <1>4
  <2> QED
    BY <2>1, <2>2, <2>3 DEF Indexes, n
<1>16. ASSUME Pairs # {} PROVE IndexReady(g, height)
  BY <1>10, <1>11, <1>14, <1>16, PairsOrdered, ReadyIs
<1>17. u.count = n
  BY <1>4
<1> QED
  BY <1>11, <1>14, <1>15, <1>16, <1>17 DEF n, g, u

-----------------------------------------------------------------------------
\* A set of paths of one length.
Level(X, depth) == X \in SUBSET Seq(Branch) /\ IsFiniteSet(X) /\ \A p \in X : Len(p) = depth
Ahead(X, Y) == \A p \in X, q \in Y : After(p, q)

LEMMA LevelIs ==
  ASSUME NEW depth, NEW X, NEW Y, Level(X, depth), Level(Y, depth)
  PROVE  /\ Orders(PathOrder, X) /\ Level(X \cup Y, depth) /\ Orders(PathOrder, X \cup Y)
         /\ Ahead(X, Y) => \A p \in X, q \in Y : <<p, q>> \in PathOrder
<1>1. IsFiniteSet(X \cup Y)
  BY FS_Union DEF Level
<1>2. Level(X \cup Y, depth)
  BY <1>1 DEF Level
<1>3. ASSUME NEW Z, Level(Z, depth) PROVE Orders(PathOrder, Z)
  <2>1. Z \in SUBSET Seq(Branch) /\ \A p, q \in Z : Len(p) = Len(q)
    BY <1>3 DEF Level
  <2> QED
    BY <2>1, PathsOrdered
<1>4. Orders(PathOrder, X) /\ Orders(PathOrder, X \cup Y)
  BY <1>2, <1>3
<1>5. Ahead(X, Y) => \A p \in X, q \in Y : <<p, q>> \in PathOrder
  BY DEF Ahead, PathOrder, Level
<1> QED
  BY <1>2, <1>4, <1>5

\* A segment is appended to a gate whose paths all come before.
LEMMA SegmentIs ==
  ASSUME NEW depth, NEW X, NEW Y, Level(X, depth), Level(Y, depth), Ahead(X, Y),
         NEW g, NEW segment, Indexes(g, X), Started(g), Indexes(segment, Y), g.count = 0 => Started(segment)
  PROVE  LET h == AppendSegment(g, segment)
         IN  Indexes(h, X \cup Y) /\ Started(h) /\ h.depth = g.depth
<1> DEFINE h == AppendSegment(g, segment)
           m == Len(g.starts)
           k == Len(segment.starts)
           offset == [j \in DOMAIN segment.starts |-> g.count + segment.starts[j]]
           r(p) == Rank(PathOrder, X \cup Y, p)
<1>1. /\ IsFiniteSet(X) /\ IsFiniteSet(Y) /\ Orders(PathOrder, X) /\ Orders(PathOrder, Y) /\ Orders(PathOrder, X \cup Y)
      /\ \A p \in X, q \in Y : <<p, q>> \in PathOrder
  BY LevelIs DEF Level
<1>2. /\ Cardinality(X \cup Y) = Cardinality(X) + Cardinality(Y)
      /\ \A p \in X : r(p) = Rank(PathOrder, X, p)
      /\ \A q \in Y : r(q) = Cardinality(X) + Rank(PathOrder, Y, q)
  BY <1>1, RankSplit
<1>3. /\ Cardinality(X) \in Nat /\ Cardinality(Y) \in Nat
      /\ \A p \in X : Rank(PathOrder, X, p) \in 0 .. (Cardinality(X) - 1)
      /\ \A q \in Y : Rank(PathOrder, Y, q) \in 0 .. (Cardinality(Y) - 1)
  BY <1>1, RankOrder
<1>4. /\ g \in [count : Nat, depth : Nat, starts : Seq(Nat), paths : Seq(Seq(Branch))]
      /\ g.count = Cardinality(X) /\ g.count \in Nat /\ g.starts \in Seq(Nat) /\ g.paths \in Seq(Seq(Branch))
      /\ m \in Nat /\ Len(g.paths) = m
      /\ \A j \in 1 .. m : g.paths[j] \in X /\ g.starts[j] = Rank(PathOrder, X, g.paths[j])
      /\ \A j \in 2 .. m : g.starts[j - 1] < g.starts[j]
  BY LenProperties DEF Indexes
<1>5. /\ segment.count = Cardinality(Y) /\ segment.count \in Nat /\ segment.starts \in Seq(Nat)
      /\ segment.paths \in Seq(Seq(Branch))
      /\ k \in Nat /\ Len(segment.paths) = k /\ DOMAIN segment.starts = 1 .. k
      /\ \A j \in 1 .. k : /\ segment.paths[j] \in Y
                           /\ segment.starts[j] = Rank(PathOrder, Y, segment.paths[j]) /\ segment.starts[j] \in Nat
      /\ \A j \in 2 .. k : segment.starts[j - 1] < segment.starts[j]
  BY LenProperties DEF Indexes
<1> HIDE DEF m, k, r
<1>6. CASE segment.count = 0
  <2>1. Y = {}
    BY <1>1, <1>5, <1>6, FS_EmptySet
  <2>2. X \cup Y = X
    BY <2>1
  <2> QED
    BY <1>6, <2>2 DEF AppendSegment
<1>7. CASE segment.count # 0
  <2> DEFINE starts == g.starts \o offset
             paths == g.paths \o segment.paths
  <2>1. h = [g EXCEPT !.count = @ + segment.count, !.paths = @ \o segment.paths, !.starts = @ \o offset]
    BY <1>7 DEF AppendSegment
  <2>2. offset \in Seq(Nat) /\ Len(offset) = k /\ \A j \in 1 .. k : offset[j] = g.count + segment.starts[j]
    BY <1>4, <1>5
  <2> HIDE DEF h, offset
  <2>3. /\ starts \in Seq(Nat) /\ Len(starts) = m + k
        /\ \A j \in 1 .. m + k : starts[j] = IF j <= m THEN g.starts[j] ELSE offset[j - m]
    BY <1>4, <2>2, ConcatProperties DEF m
  <2>4. /\ paths \in Seq(Seq(Branch)) /\ Len(paths) = m + k
        /\ \A j \in 1 .. m + k : paths[j] = IF j <= m THEN g.paths[j] ELSE segment.paths[j - m]
    <3> DEFINE S == Seq(Branch)
    <3>1. g.paths \in Seq(S) /\ segment.paths \in Seq(S) /\ Len(g.paths) = m /\ Len(segment.paths) = k
      BY <1>4, <1>5
    <3> HIDE DEF S
    <3>2. /\ paths \in Seq(S) /\ Len(paths) = m + k
          /\ \A j \in 1 .. m + k : paths[j] = IF j <= m THEN g.paths[j] ELSE segment.paths[j - m]
      BY <3>1, ConcatProperties
    <3> QED
      BY <3>2 DEF S
  <2>5. h.count = g.count + segment.count /\ h.depth = g.depth /\ h.starts = starts /\ h.paths = paths
    BY <1>4, <2>1
  <2>6. h \in [count : Nat, depth : Nat, starts : Seq(Nat), paths : Seq(Seq(Branch))]
    <3>1. g.count + segment.count \in Nat
      BY <1>4, <1>5
    <3> HIDE DEF starts, paths
    <3>2. h = [g EXCEPT !.count = g.count + segment.count, !.paths = paths, !.starts = starts]
      BY <2>1 DEF starts, paths
    <3> QED
      BY <1>4, <2>3, <2>4, <3>1, <3>2
  <2> HIDE DEF starts, paths
  <2>7. ASSUME NEW j \in 1 .. m + k PROVE paths[j] \in X \cup Y /\ starts[j] = r(paths[j])
    <3>1. CASE j <= m
      <4>1. j \in 1 .. m
        BY <1>4, <3>1
      <4> QED
        BY <1>2, <1>4, <2>3, <2>4, <3>1, <4>1
    <3>2. CASE ~ (j <= m)
      <4>1. j - m \in 1 .. k
        BY <1>4, <1>5, <3>2
      <4>2. paths[j] = segment.paths[j - m] /\ starts[j] = g.count + segment.starts[j - m]
        BY <2>2, <2>3, <2>4, <3>2, <4>1
      <4> QED
        BY <1>2, <1>4, <1>5, <4>1, <4>2
    <3> QED
      BY <3>1, <3>2
  <2>8. ASSUME NEW j \in 2 .. m + k PROVE starts[j - 1] < starts[j]
    <3>1. j \in 1 .. m + k /\ j - 1 \in 1 .. m + k
      BY <1>4, <1>5
    <3>2. CASE j <= m
      <4>1. j \in 2 .. m /\ j - 1 <= m
        BY <1>4, <3>2
      <4> QED
        BY <1>4, <2>3, <3>1, <3>2, <4>1
    <3>3. CASE j - 1 = m
      <4>1. m \in 1 .. m /\ 1 \in 1 .. k /\ j - m = 1 /\ ~ (j <= m) /\ j - 1 <= m
        BY <1>4, <1>5, <3>3
      <4>2. starts[j - 1] = g.starts[m] /\ starts[j] = g.count + segment.starts[1]
        BY <2>2, <2>3, <3>1, <3>3, <4>1
      <4>3. g.starts[m] \in 0 .. (g.count - 1) /\ segment.starts[1] \in Nat
        BY <1>3, <1>4, <1>5, <4>1
      <4> QED
        BY <1>4, <4>2, <4>3
    <3>4. CASE m < j - 1
      <4>1. j - m \in 2 .. k /\ j - m \in 1 .. k /\ (j - m) - 1 \in 1 .. k /\ (j - 1) - m = (j - m) - 1
        BY <1>4, <1>5, <3>4
      <4>2. ~ (j <= m) /\ ~ (j - 1 <= m)
        BY <1>4, <3>4
      <4>3. starts[j - 1] = g.count + segment.starts[(j - m) - 1] /\ starts[j] = g.count + segment.starts[j - m]
        BY <2>2, <2>3, <3>1, <4>1, <4>2
      <4>4. /\ segment.starts[(j - m) - 1] < segment.starts[j - m]
            /\ segment.starts[(j - m) - 1] \in Nat /\ segment.starts[j - m] \in Nat
        BY <1>5, <4>1
      <4> QED
        BY <1>4, <4>3, <4>4
    <3> QED
      BY <1>4, <3>2, <3>3, <3>4
  <2>9. Started(h)
    <3>1. CASE g.count = 0
      <4>1. X = {}
        BY <1>1, <1>4, <3>1, FS_EmptySet
      <4>2. m = 0
        <5>1. 1 \notin 1 .. m
          BY <1>4, <4>1
        <5> QED
          BY <1>4, <5>1
      <4>3. segment.starts # <<>> /\ segment.starts[1] = 0
        BY <1>7, <3>1 DEF Started
      <4>4. k # 0
        BY <1>5, <4>3, EmptySeq DEF k
      <4>5. 1 \in 1 .. m + k /\ ~ (1 <= m) /\ 1 - m = 1 /\ 1 \in 1 .. k
        BY <1>4, <1>5, <4>2, <4>4
      <4>6. starts[1] = 0 + 0
        BY <2>2, <2>3, <3>1, <4>3, <4>5
      <4>7. starts # <<>>
        BY <1>4, <1>5, <2>3, <4>2, <4>4, EmptySeq
      <4> QED
        BY <2>5, <4>6, <4>7 DEF Started
    <3>2. CASE g.count # 0
      <4>1. g.starts # <<>> /\ g.starts[1] = 0
        BY <3>2 DEF Started
      <4>2. m # 0
        BY <1>4, <4>1, EmptySeq DEF m
      <4>3. 1 \in 1 .. m + k /\ 1 <= m
        BY <1>4, <1>5, <4>2
      <4>4. starts[1] = 0
        BY <2>3, <4>1, <4>3
      <4>5. starts # <<>>
        <5>1. Len(starts) # 0
          BY <1>4, <1>5, <2>3, <4>2
        <5> QED
          BY <5>1, EmptySeq
      <4> QED
        BY <2>5, <4>4, <4>5 DEF Started
    <3> QED
      BY <3>1, <3>2
  <2>10. Indexes(h, X \cup Y)
    <3>1. h.count = Cardinality(X \cup Y) /\ Len(h.paths) = Len(h.starts) /\ Len(h.starts) = m + k
      BY <1>2, <1>4, <1>5, <2>3, <2>4, <2>5
    <3> QED
      BY <2>5, <2>6, <2>7, <2>8, <3>1 DEF Indexes, r
  <2> QED
    BY <2>5, <2>9, <2>10 DEF h
<1> QED
  BY <1>6, <1>7

-----------------------------------------------------------------------------
\* The extensions of one path by some labels.
Ext(p, L) == {Append(p, b) : b \in L}
Smaller == {pair \in Nat \X Nat : pair[1] < pair[2]}

LEMMA NthIs ==
  ASSUME NEW L \in SUBSET Branch
  PROVE  /\ IsFiniteSet(L) /\ Cardinality(L) \in Nat
         /\ \A n \in 0 .. (Cardinality(L) - 1) : Nth(L, n) \in L /\ Cardinality({c \in L : c < Nth(L, n)}) = n
<1>1. IsFiniteSet(L) /\ L \in SUBSET Nat
  BY FS_Subset, GateAssumption
<1>2. \A a, b \in L : <<a, b>> \in Smaller <=> a < b
  BY <1>1 DEF Smaller
<1>3. Orders(Smaller, L)
  <2>1. \A a \in L : a \in Nat
    BY <1>1
  <2>2. \A a, b, c \in L : a < b /\ b < c => a < c
    BY <2>1
  <2>3. \A a, b \in L : a = b \/ a < b \/ b < a
    BY <2>1
  <2>4. \A a \in L : ~ (a < a)
    BY <2>1
  <2> QED
    BY <1>2, <2>2, <2>3, <2>4 DEF Orders
<1>4. Cardinality(L) \in Nat /\ \A n \in 0 .. (Cardinality(L) - 1) : \E a \in L : Rank(Smaller, L, a) = n
  <2>1. IsFiniteSet(L)
    BY <1>1
  <2> QED
    BY ONLY <1>3, <2>1, RankOrder
<1>5. \A a \in L : Cardinality({c \in L : c < a}) = Rank(Smaller, L, a)
  <2>1. ASSUME NEW a \in L PROVE {c \in L : c < a} = Lower(Smaller, L, a)
    BY <1>2 DEF Lower
  <2> QED
    BY <2>1 DEF Rank
<1>6. ASSUME NEW n \in 0 .. (Cardinality(L) - 1)
      PROVE  Nth(L, n) \in L /\ Cardinality({c \in L : c < Nth(L, n)}) = n
  <2>1. \E a \in L : Cardinality({c \in L : c < a}) = n
    BY <1>4, <1>5
  <2> QED
    BY <2>1 DEF Nth
<1> QED
  BY <1>1, <1>4, <1>6

LEMMA ExtendIs ==
  ASSUME NEW p \in Seq(Branch), NEW L \in SUBSET Branch
  PROVE  /\ Level(Ext(p, L), Len(p) + 1) /\ Cardinality(Ext(p, L)) = Cardinality(L)
         /\ \A b \in L : Rank(PathOrder, Ext(p, L), Append(p, b)) = Cardinality({c \in L : c < b})
<1>1. \A b \in Branch : /\ Append(p, b) \in Seq(Branch) /\ Len(Append(p, b)) = Len(p) + 1
                        /\ (\A e \in 1 .. Len(p) : Append(p, b)[e] = p[e]) /\ Append(p, b)[Len(p) + 1] = b
  BY OnwardIs
<1>2. ASSUME NEW M \in SUBSET Branch
      PROVE  IsFiniteSet(Ext(p, M)) /\ Cardinality(Ext(p, M)) = Cardinality(M)
  <2> DEFINE f == [b \in M |-> Append(p, b)]
  <2>1. IsFiniteSet(M)
    BY NthIs
  <2>2. f \in [M -> Ext(p, M)] /\ \A b \in M : f[b] = Append(p, b)
    BY DEF Ext
  <2> HIDE DEF f
  <2>3. \A b, c \in M : f[b] = f[c] => b = c
    BY <1>1, <2>2
  <2>4. \A x \in Ext(p, M) : \E b \in M : f[b] = x
    BY <2>2 DEF Ext
  <2>5. f \in Bijection(M, Ext(p, M))
    BY <2>2, <2>3, <2>4 DEF Bijection, Injection, Surjection, IsInjective
  <2>6. ExistsBijection(M, Ext(p, M))
    BY <2>5 DEF ExistsBijection
  <2> QED
    BY ONLY <2>1, <2>6, FS_Bijection
<1>3. Level(Ext(p, L), Len(p) + 1)
  BY <1>1, <1>2 DEF Level, Ext
<1>4. ASSUME NEW b \in Branch, NEW c \in Branch PROVE <<Append(p, b), Append(p, c)>> \in PathOrder <=> b < c
  <2> DEFINE x == Append(p, b)
             y == Append(p, c)
             n == Len(p)
  <2>1. /\ x \in Seq(Branch) /\ Len(x) = n + 1 /\ (\A e \in 1 .. n : x[e] = p[e]) /\ x[n + 1] = b
        /\ y \in Seq(Branch) /\ Len(y) = n + 1 /\ (\A e \in 1 .. n : y[e] = p[e]) /\ y[n + 1] = c
        /\ n \in Nat /\ \A e \in 1 .. n : p[e] \in Nat
    BY <1>1, PathLength
  <2> HIDE DEF x, y, n
  <2>2. ASSUME b < c PROVE After(x, y)
    <3>1. n + 1 \in 1 .. Len(x) /\ n + 1 <= Len(y) /\ (n + 1) - 1 = n
      BY <2>1
    <3> QED
      BY <2>1, <2>2, <3>1 DEF After
  <2>3. ASSUME After(x, y) PROVE b < c
    <3>1. PICK d \in 1 .. Len(x) : x[d] < y[d]
      BY <2>3 DEF After
    <3>2. d \in 1 .. n \/ d = n + 1
      BY <2>1, <3>1
    <3>3. CASE d \in 1 .. n
      <4>1. x[d] = p[d] /\ y[d] = p[d] /\ p[d] \in Nat
        BY <2>1, <3>3
      <4> QED
        BY <3>1, <4>1
    <3> QED
      BY <2>1, <3>1, <3>2, <3>3
  <2> QED
    BY <2>1, <2>2, <2>3 DEF PathOrder, x, y
<1>5. ASSUME NEW b \in L PROVE Rank(PathOrder, Ext(p, L), Append(p, b)) = Cardinality({c \in L : c < b})
  <2> DEFINE M == {c \in L : c < b}
  <2>1. M \in SUBSET Branch
    OBVIOUS
  <2>2. Lower(PathOrder, Ext(p, L), Append(p, b)) = Ext(p, M)
    <3>1. \A x : x \in Lower(PathOrder, Ext(p, L), Append(p, b)) <=>
                   \E c \in L : x = Append(p, c) /\ <<Append(p, c), Append(p, b)>> \in PathOrder
      BY DEF Lower, Ext
    <3>2. \A x : x \in Ext(p, M) <=> \E c \in L : x = Append(p, c) /\ c < b
      BY DEF Ext
    <3>3. \A c \in L : <<Append(p, c), Append(p, b)>> \in PathOrder <=> c < b
      BY <1>4
    <3> HIDE DEF M
    <3>4. \A x : x \in Lower(PathOrder, Ext(p, L), Append(p, b)) <=> x \in Ext(p, M)
      BY <3>1, <3>2, <3>3
    <3> QED
      BY <3>4
  <2> HIDE DEF M
  <2>3. Cardinality(Ext(p, M)) = Cardinality(M)
    BY <1>2, <2>1
  <2> QED
    BY <2>2, <2>3 DEF Rank, M
<1> QED
  BY <1>2, <1>3, <1>5

Gates == [count : Nat, depth : Nat, starts : Seq(Nat), paths : Seq(Seq(Branch))]

LEMMA BatchParts ==
  ASSUME NEW g \in Gates, NEW L \in SUBSET Branch
  PROVE  /\ g.count \in Nat /\ Quantum \in Nat \ {0}
         /\ (Quantum - (g.count % Quantum)) % Quantum \in Nat
         /\ g.count = 0 => (Quantum - (g.count % Quantum)) % Quantum = 0
<1>1. g.count \in Nat
  BY DEF Gates
<1>2. Quantum \in Nat \ {0}
  <2>1. Cardinality(Branch) \in Nat /\ Cardinality(Branch) # 0
    BY GateAssumption, FS_CardinalityType, FS_EmptySet
  <2> QED
    BY <2>1, GateAssumption
<1> DEFINE c == g.count
           r == c % Quantum
<1>3. c \in Nat /\ r \in 0 .. (Quantum - 1) /\ (c = 0 => r = 0)
  BY <1>1, <1>2
<1> HIDE DEF c, r
<1>4. (Quantum - r) % Quantum \in Nat
  BY <1>2, <1>3
<1>5. c = 0 => (Quantum - r) % Quantum = 0
  <2>1. Quantum - 0 = Quantum /\ Quantum % Quantum = 0
    BY <1>2
  <2> QED
    BY <1>3, <2>1
<1> QED
  BY <1>1, <1>2, <1>4, <1>5 DEF r, c

\* A batch of extensions is appended like a segment of them.
LEMMA BatchIs ==
  ASSUME NEW p \in Seq(Branch), NEW L \in SUBSET Branch,
         NEW X, Level(X, Len(p) + 1), Ahead(X, Ext(p, L)), NEW g, Indexes(g, X), Started(g)
  PROVE  LET h == AppendBatch(g, p, L)
         IN  Indexes(h, X \cup Ext(p, L)) /\ Started(h) /\ h.depth = g.depth
<1> DEFINE Y == Ext(p, L)
           n == Cardinality(L)
           ordinal == (Quantum - (g.count % Quantum)) % Quantum
           q == Append(p, Nth(L, ordinal))
           starts == IF ordinal < n THEN <<ordinal>> ELSE <<>>
           paths == IF ordinal < n THEN <<q>> ELSE <<>>
           segment == [count |-> n, depth |-> 0, starts |-> starts, paths |-> paths]
           counted == [g EXCEPT !.count = @ + n]
           h == AppendBatch(g, p, L)
<1>1. g \in Gates
  BY DEF Indexes, Gates
<1>2. ordinal \in Nat /\ (g.count = 0 => ordinal = 0) /\ g.count \in Nat
  BY <1>1, BatchParts
<1>3. /\ n \in Nat /\ IsFiniteSet(L)
      /\ \A k \in 0 .. (n - 1) : Nth(L, k) \in L /\ Cardinality({c \in L : c < Nth(L, k)}) = k
  BY NthIs
<1>4. Level(Y, Len(p) + 1) /\ Cardinality(Y) = n
      /\ \A b \in L : Rank(PathOrder, Y, Append(p, b)) = Cardinality({c \in L : c < b})
  BY ExtendIs
<1>5. h = IF ordinal < n THEN [counted EXCEPT !.starts = Append(@, g.count + ordinal), !.paths = Append(@, q)]
          ELSE counted
  BY DEF AppendBatch
<1>6. \A b \in L : Append(p, b) \in Y /\ Append(p, b) \in Seq(Branch)
  BY <1>4 DEF Ext, Level
<1> HIDE DEF Y, n, ordinal
<1>7. ordinal < n => q \in Y /\ q \in Seq(Branch) /\ Rank(PathOrder, Y, q) = ordinal
  <2> SUFFICES ASSUME ordinal < n PROVE q \in Y /\ q \in Seq(Branch) /\ Rank(PathOrder, Y, q) = ordinal
    OBVIOUS
  <2>1. ordinal \in 0 .. (n - 1)
    BY <1>2, <1>3
  <2> QED
    BY <1>3, <1>4, <1>6, <2>1
<1> HIDE DEF q
<1>8. /\ starts \in Seq(Nat) /\ Len(starts) \in {0, 1} /\ Len(paths) = Len(starts) /\ paths \in Seq(Seq(Branch))
      /\ (Len(starts) = 1 <=> ordinal < n)
      /\ ordinal < n => starts[1] = ordinal /\ paths[1] = q
  <2>1. CASE ordinal < n
    BY <1>2, <1>7, <2>1
  <2>2. CASE ~ (ordinal < n)
    BY <2>2, EmptySeq
  <2> QED
    BY <2>1, <2>2
<1> HIDE DEF starts, paths
<1>9. Indexes(segment, Y)
  <2>1. segment \in [count : Nat, depth : Nat, starts : Seq(Nat), paths : Seq(Seq(Branch))]
    BY <1>3, <1>8
  <2> DEFINE len == Len(starts)
  <2>0. len = 0 \/ (len = 1 /\ ordinal < n)
    BY <1>8
  <2> HIDE DEF len
  <2>2. \A j \in 1 .. len : j = 1 /\ ordinal < n
    BY <2>0
  <2>3. \A j \in 2 .. len : FALSE
    BY <2>0
  <2> USE DEF len
  <2> QED
    BY <1>4, <1>7, <1>8, <2>1, <2>2, <2>3 DEF Indexes
<1>10. g.count = 0 => Started(segment)
  <2>1. g.count = 0 /\ n # 0 => ordinal < n /\ starts[1] = 0 /\ Len(starts) = 1
    BY <1>2, <1>3, <1>8
  <2>2. ASSUME Len(starts) = 1 PROVE starts # <<>>
    <3>1. Len(<<>>) = 0
      BY EmptySeq
    <3>2. CASE starts = <<>>
      BY <2>2, <3>1, <3>2
    <3> QED
      BY <3>2
  <2> QED
    BY <2>1, <2>2 DEF Started
<1>11. h = AppendSegment(g, segment)
  <2>1. g = [count |-> g.count, depth |-> g.depth, starts |-> g.starts, paths |-> g.paths]
        /\ g.starts \in Seq(Nat) /\ g.paths \in Seq(Seq(Branch))
    BY <1>1 DEF Gates
  <2>2. CASE n = 0
    <3>1. h = counted
      BY <1>2, <1>5, <2>2
    <3>2. counted = g
      BY <1>2, <2>1, <2>2
    <3> QED
      BY <2>2, <3>1, <3>2 DEF AppendSegment
  <2>3. CASE n # 0
    <3> DEFINE offset == [k \in DOMAIN starts |-> g.count + starts[k]]
    <3>1. AppendSegment(g, segment) =
            [g EXCEPT !.count = @ + n, !.paths = @ \o paths, !.starts = @ \o offset]
      BY <2>3 DEF AppendSegment
    <3>2. CASE ordinal < n
      <4>1. offset = <<g.count + ordinal>> /\ paths = <<q>>
        BY <3>2 DEF starts, paths
      <4>2. g.starts \o <<g.count + ordinal>> = Append(g.starts, g.count + ordinal)
        BY <1>2, <2>1, AppendIsConcat
      <4>3. g.paths \o <<q>> = Append(g.paths, q)
        <5> DEFINE S == Seq(Branch)
        <5>1. q \in S /\ g.paths \in Seq(S)
          BY <1>7, <2>1, <3>2
        <5> HIDE DEF S
        <5> QED
          BY <5>1, AppendIsConcat
      <4> HIDE DEF offset
      <4> QED
        BY <1>5, <2>1, <3>1, <3>2, <4>1, <4>2, <4>3
    <3>3. CASE ~ (ordinal < n)
      <4>1. offset = <<>> /\ paths = <<>>
        BY <3>3 DEF starts, paths
      <4>2. g.starts \o <<>> = g.starts /\ g.paths \o <<>> = g.paths
        BY <2>1, ConcatEmptySeq
      <4>3. AppendSegment(g, segment) = [g EXCEPT !.count = @ + n, !.paths = @ \o <<>>, !.starts = @ \o <<>>]
        BY <3>1, <4>1
      <4> HIDE DEF offset, segment
      <4>4. AppendSegment(g, segment) = [g EXCEPT !.count = @ + n, !.paths = g.paths, !.starts = g.starts]
        BY <4>2, <4>3
      <4>5. h = [g EXCEPT !.count = @ + n]
        BY <1>5, <3>3
      <4> HIDE DEF h
      <4> QED
        BY <2>1, <4>4, <4>5
    <3> QED
      BY <3>2, <3>3
  <2> QED
    BY <2>2, <2>3
<1> HIDE DEF h, segment
<1>12. Ahead(X, Y)
  BY DEF Y
<1>13. Indexes(AppendSegment(g, segment), X \cup Y) /\ Started(AppendSegment(g, segment))
       /\ AppendSegment(g, segment).depth = g.depth
  BY <1>4, <1>9, <1>10, <1>12, SegmentIs
<1> QED
  BY <1>11, <1>13 DEF h, Y

-----------------------------------------------------------------------------
\* What rows keep of the pairs of one stretch of the serial walk.
Keeping == Shaped /\ kept \in [Pairs -> SUBSET Branch]
Grown(a, b) == UNION {Ext(Serial[i], kept[Serial[i]]) : i \in (a + 1) .. b}

LEMMA AppendAfter ==
  ASSUME NEW p \in Seq(Branch), NEW q \in Seq(Branch), NEW b \in Branch, NEW c \in Branch, After(p, q)
  PROVE  After(Append(p, b), Append(q, c))
<1>1. PICK d \in 1 .. Len(p) : d <= Len(q) /\ p[d] < q[d] /\ \A e \in 1 .. (d - 1) : p[e] = q[e]
  BY DEF After
<1> DEFINE x == Append(p, b)
           y == Append(q, c)
<1>2. /\ Len(p) \in Nat /\ Len(q) \in Nat
      /\ Len(x) = Len(p) + 1 /\ \A e \in 1 .. Len(p) : x[e] = p[e]
      /\ Len(y) = Len(q) + 1 /\ \A e \in 1 .. Len(q) : y[e] = q[e]
  BY PathLength, OnwardIs
<1> HIDE DEF x, y
<1>3. /\ d \in 1 .. Len(x) /\ d <= Len(y) /\ d \in 1 .. Len(q)
      /\ \A e \in 1 .. (d - 1) : e \in 1 .. Len(p) /\ e \in 1 .. Len(q)
  BY <1>1, <1>2
<1>4. x[d] < y[d] /\ \A e \in 1 .. (d - 1) : x[e] = y[e]
  BY <1>1, <1>2, <1>3
<1> QED
  BY <1>3, <1>4 DEF After, x, y

LEMMA SerialAfter ==
  ASSUME Shaped, NEW i \in 1 .. Cardinality(Pairs), NEW j \in 1 .. Cardinality(Pairs), i < j
  PROVE  After(Serial[i], Serial[j])
<1> DEFINE n == Cardinality(Pairs)
           p == Serial[i]
           q == Serial[j]
           r(a) == Rank(PathOrder, Pairs, a)
<1>1. n \in Nat /\ p \in Pairs /\ q \in Pairs /\ r(p) = i - 1 /\ r(q) = j - 1
  BY SerialIs
<1>2. \A a, b \in Pairs : <<a, b>> \in PathOrder <=> r(a) < r(b)
  BY PairsOrdered, RankOrder
<1> HIDE DEF n, p, q, r
<1>3. i \in Nat /\ j \in Nat /\ i - 1 < j - 1
  BY <1>1 DEF n
<1>4. <<p, q>> \in PathOrder
  BY <1>1, <1>2, <1>3
<1> QED
  BY <1>4 DEF PathOrder, p, q

LEMMA GrownIs ==
  ASSUME Keeping, NEW a \in Nat, NEW b \in a .. Cardinality(Pairs)
  PROVE  /\ Level(Grown(a, b), height + 1) /\ Grown(a, a) = {}
         /\ b < Cardinality(Pairs) => Grown(a, b + 1) = Grown(a, b) \cup Ext(Serial[b + 1], kept[Serial[b + 1]])
         /\ \A c \in b .. Cardinality(Pairs) :
              Grown(a, c) = Grown(a, b) \cup Grown(b, c) /\ Ahead(Grown(a, b), Grown(b, c))
<1> DEFINE n == Cardinality(Pairs)
           E(i) == Ext(Serial[i], kept[Serial[i]])
           f == [z \in Pairs \X Branch |-> Append(z[1], z[2])]
           T == {f[z] : z \in Pairs \X Branch}
<1>1. /\ n \in Nat /\ a \in 0 .. b /\ b \in Nat /\ b <= n
      /\ \A i \in 1 .. n : Serial[i] \in Pairs
  BY SerialIs DEF Keeping
<1>2. IsFiniteSet(T)
  <2>1. IsFiniteSet(Pairs \X Branch)
    <3>1. IsFiniteSet(Pairs) /\ IsFiniteSet(Branch)
      BY PairsOrdered, GateAssumption DEF Keeping
    <3> QED
      BY ONLY <3>1, FS_Product
  <2>2. f \in Surjection(Pairs \X Branch, T)
    <3>1. f \in [Pairs \X Branch -> T] /\ \A t \in T : \E z \in Pairs \X Branch : f[z] = t
      OBVIOUS
    <3> HIDE DEF f, T
    <3> QED
      BY <3>1 DEF Surjection
  <2> HIDE DEF f, T
  <2> QED
    BY <2>1, <2>2, FS_Surjection
<1>3. ASSUME NEW i \in 1 .. n
      PROVE  E(i) \in SUBSET T /\ E(i) \in SUBSET Seq(Branch) /\ \A x \in E(i) : Len(x) = height + 1
  <2>1. Serial[i] \in Pairs /\ Serial[i] \in Seq(Branch) /\ Len(Serial[i]) = height /\ kept[Serial[i]] \in SUBSET Branch
    BY <1>1, PairIs DEF Keeping
  <2>2. Level(E(i), height + 1)
    BY <2>1, ExtendIs
  <2>3. ASSUME NEW c \in kept[Serial[i]] PROVE Append(Serial[i], c) \in T
    <3>1. <<Serial[i], c>> \in Pairs \X Branch /\ c \in Branch
      BY <2>1
    <3>2. f[<<Serial[i], c>>] = Append(Serial[i], c)
      BY <3>1
    <3> QED
      BY <3>1, <3>2
  <2>4. E(i) \in SUBSET T
    BY <2>3 DEF Ext
  <2> HIDE DEF E, T
  <2> QED
    BY <2>2, <2>4 DEF Level
<1> HIDE DEF T, n
<1>4. ASSUME NEW c \in Nat, NEW d \in c .. n PROVE Level(Grown(c, d), height + 1)
  <2>1. \A i \in (c + 1) .. d : i \in 1 .. n
    BY <1>1, <1>4
  <2>2. \A x \in Grown(c, d) : \E i \in (c + 1) .. d : x \in E(i)
    BY DEF Grown
  <2> HIDE DEF E
  <2>3. Grown(c, d) \in SUBSET T /\ Grown(c, d) \in SUBSET Seq(Branch) /\ \A x \in Grown(c, d) : Len(x) = height + 1
    BY <1>3, <2>1, <2>2
  <2>4. IsFiniteSet(Grown(c, d))
    BY ONLY <1>2, <2>3, FS_Subset
  <2> QED
    BY <2>3, <2>4 DEF Level
<1>5. Grown(a, a) = {}
  <2>1. (a + 1) .. a = {}
    OBVIOUS
  <2> QED
    BY <2>1 DEF Grown
<1>6. b < n => Grown(a, b + 1) = Grown(a, b) \cup E(b + 1)
  <2> SUFFICES ASSUME b < n PROVE Grown(a, b + 1) = Grown(a, b) \cup E(b + 1)
    OBVIOUS
  <2>1. \A i : i \in (a + 1) .. (b + 1) <=> i \in (a + 1) .. b \/ i = b + 1
    BY <1>1
  <2>2. \A x : x \in Grown(a, b + 1) <=> \E i \in (a + 1) .. (b + 1) : x \in E(i)
    BY DEF Grown
  <2>3. \A x : x \in Grown(a, b) <=> \E i \in (a + 1) .. b : x \in E(i)
    BY DEF Grown
  <2> HIDE DEF E
  <2>4. \A x : x \in Grown(a, b + 1) <=> x \in Grown(a, b) \/ x \in E(b + 1)
    BY <2>1, <2>2, <2>3
  <2> QED
    BY <2>4
<1>7. ASSUME NEW c \in b .. n
      PROVE  Grown(a, c) = Grown(a, b) \cup Grown(b, c) /\ Ahead(Grown(a, b), Grown(b, c))
  <2>1. \A i : i \in (a + 1) .. c <=> i \in (a + 1) .. b \/ i \in (b + 1) .. c
    BY <1>1, <1>7
  <2>2. \A x : x \in Grown(a, c) <=> \E i \in (a + 1) .. c : x \in E(i)
    BY DEF Grown
  <2>3. \A x : x \in Grown(a, b) <=> \E i \in (a + 1) .. b : x \in E(i)
    BY DEF Grown
  <2>4. \A x : x \in Grown(b, c) <=> \E i \in (b + 1) .. c : x \in E(i)
    BY DEF Grown
  <2> HIDE DEF E
  <2>5. \A x : x \in Grown(a, c) <=> x \in Grown(a, b) \/ x \in Grown(b, c)
    BY <2>1, <2>2, <2>3, <2>4
  <2>6. Grown(a, c) = Grown(a, b) \cup Grown(b, c)
    BY <2>5
  <2>7. ASSUME NEW x \in Grown(a, b), NEW y \in Grown(b, c) PROVE After(x, y)
    <3>1. PICK i \in (a + 1) .. b : x \in E(i)
      BY <2>3
    <3>2. PICK j \in (b + 1) .. c : y \in E(j)
      BY <2>4
    <3>3. i \in 1 .. n /\ j \in 1 .. n /\ i < j
      BY <1>1, <1>7
    <3>4. PICK l \in kept[Serial[i]] : x = Append(Serial[i], l)
      BY <3>1 DEF E, Ext
    <3>5. PICK k \in kept[Serial[j]] : y = Append(Serial[j], k)
      BY <3>2 DEF E, Ext
    <3>6. /\ Serial[i] \in Seq(Branch) /\ kept[Serial[i]] \in SUBSET Branch
          /\ Serial[j] \in Seq(Branch) /\ kept[Serial[j]] \in SUBSET Branch
      BY <1>1, <3>3, PairIs DEF Keeping
    <3>7. After(Serial[i], Serial[j])
      BY <3>3, SerialAfter DEF Keeping, n
    <3> QED
      BY <3>4, <3>5, <3>6, <3>7, AppendAfter
  <2> QED
    BY <2>6, <2>7 DEF Ahead
<1>8. Level(Grown(a, b), height + 1)
  <2>1. b \in a .. n
    BY <1>1
  <2> QED
    BY <1>4, <2>1
<1> QED
  BY <1>5, <1>6, <1>7, <1>8 DEF n

\* All that rows keep.
LEMMA GrownAll ==
  ASSUME Keeping
  PROVE  Grown(0, Cardinality(Pairs)) = UNION {Ext(p, kept[p]) : p \in Pairs}
<1> DEFINE n == Cardinality(Pairs)
<1>1. /\ n \in Nat /\ (\A i \in 1 .. n : Serial[i] \in Pairs)
      /\ \A p \in Pairs : \E i \in 1 .. n : Serial[i] = p
  BY SerialIs DEF Keeping
<1>2. \A x : x \in Grown(0, n) <=> \E i \in (0 + 1) .. n : x \in Ext(Serial[i], kept[Serial[i]])
  BY DEF Grown
<1>3. (0 + 1) .. n = 1 .. n
  BY <1>1
<1> HIDE DEF n
<1>4. \A x : x \in Grown(0, n) <=> \E p \in Pairs : x \in Ext(p, kept[p])
  BY <1>1, <1>2, <1>3
<1>5. \A x : x \in UNION {Ext(p, kept[p]) : p \in Pairs} <=> \E p \in Pairs : x \in Ext(p, kept[p])
  OBVIOUS
<1>6. Grown(0, n) = UNION {Ext(p, kept[p]) : p \in Pairs}
  BY <1>4, <1>5
<1> QED
  BY <1>6 DEF n

-----------------------------------------------------------------------------
LEMMA FreshIs ==
  ASSUME NEW depth \in Nat
  PROVE  /\ Fresh(depth) \in Gates /\ Indexes(Fresh(depth), {}) /\ Started(Fresh(depth))
         /\ Fresh(depth).depth = depth /\ Fresh(depth).count = 0
<1> DEFINE g == Fresh(depth)
<1>1. g = [count |-> 0, depth |-> depth, starts |-> <<>>, paths |-> <<>>]
  BY DEF Fresh
<1>2. <<>> \in Seq(Nat) /\ <<>> \in Seq(Seq(Branch)) /\ Len(<<>>) = 0 /\ 1 .. 0 = {} /\ 2 .. 0 = {}
  BY EmptySeq
<1> HIDE DEF g
<1>3. g \in Gates /\ g.count = 0 /\ g.depth = depth /\ g.starts = <<>> /\ g.paths = <<>>
  BY <1>1, <1>2 DEF Gates
<1>4. Cardinality({}) = 0
  BY FS_EmptySet
<1>5. Indexes(g, {})
  BY <1>2, <1>3, <1>4 DEF Indexes, Gates
<1>6. Started(g)
  BY <1>3 DEF Started
<1> QED
  BY <1>3, <1>5, <1>6 DEF g

LEMMA BatchType ==
  ASSUME NEW g \in Gates, NEW p \in Seq(Branch), NEW L \in SUBSET Branch
  PROVE  AppendBatch(g, p, L) \in Gates
<1> DEFINE n == Cardinality(L)
           ordinal == (Quantum - (g.count % Quantum)) % Quantum
           q == Append(p, Nth(L, ordinal))
           counted == [g EXCEPT !.count = @ + n]
           h == AppendBatch(g, p, L)
<1>1. ordinal \in Nat /\ g.count \in Nat /\ n \in Nat
  BY BatchParts, NthIs
<1>2. h = IF ordinal < n THEN [counted EXCEPT !.starts = Append(@, g.count + ordinal), !.paths = Append(@, q)]
          ELSE counted
  BY DEF AppendBatch
<1>3. ordinal < n => q \in Seq(Branch)
  <2> SUFFICES ASSUME ordinal < n PROVE q \in Seq(Branch)
    OBVIOUS
  <2> HIDE DEF ordinal, n
  <2>1. ordinal \in 0 .. (n - 1)
    BY <1>1
  <2>2. Nth(L, ordinal) \in L
    BY <2>1, NthIs DEF n
  <2> QED
    BY <2>2, OnwardIs
<1>4. g.starts \in Seq(Nat) /\ g.paths \in Seq(Seq(Branch)) /\ g.depth \in Nat
  BY DEF Gates
<1> HIDE DEF n, ordinal, q, h
<1>5. counted \in Gates /\ g.count + n \in Nat
  <2> DEFINE c == g.count + n
  <2>1. c \in Nat
    BY <1>1
  <2>2. counted = [g EXCEPT !.count = c]
    BY DEF Gates
  <2> HIDE DEF c, counted
  <2>3. counted \in Gates
    BY <2>1, <2>2 DEF Gates
  <2> QED
    BY <2>1, <2>3 DEF c
<1>6. CASE ordinal < n
  <2> DEFINE S == Seq(Branch)
  <2>1. q \in S /\ g.paths \in Seq(S)
    BY <1>3, <1>4, <1>6
  <2> HIDE DEF S
  <2>2. Append(g.paths, q) \in Seq(S)
    BY <2>1, AppendProperties
  <2>3. g.count + ordinal \in Nat
    BY <1>1
  <2>4. Append(g.starts, g.count + ordinal) \in Seq(Nat)
    BY <1>4, <2>3, AppendProperties
  <2>5. counted.starts = g.starts /\ counted.paths = g.paths
    BY DEF Gates
  <2>6. h = [counted EXCEPT !.starts = Append(g.starts, g.count + ordinal), !.paths = Append(g.paths, q)]
    BY <1>2, <1>5, <1>6, <2>5
  <2> DEFINE a == Append(g.starts, g.count + ordinal)
             b == Append(g.paths, q)
  <2>7. a \in Seq(Nat) /\ b \in Seq(Seq(Branch)) /\ h = [counted EXCEPT !.starts = a, !.paths = b]
    BY <2>2, <2>4, <2>6 DEF S
  <2> HIDE DEF a, b, counted
  <2>8. h \in Gates
    BY <1>5, <2>7 DEF Gates
  <2> QED
    BY <2>8 DEF h
<1>7. CASE ~ (ordinal < n)
  BY <1>2, <1>5, <1>7 DEF h
<1> QED
  BY <1>6, <1>7

LEMMA SegmentType ==
  ASSUME NEW g \in Gates, NEW segment \in Gates
  PROVE  AppendSegment(g, segment) \in Gates
<1>1. CASE segment.count = 0
  BY <1>1 DEF AppendSegment
<1>2. CASE segment.count # 0
  <2> DEFINE offset == [k \in DOMAIN segment.starts |-> g.count + segment.starts[k]]
             S == Seq(Branch)
             h == AppendSegment(g, segment)
             a == g.starts \o offset
             b == g.paths \o segment.paths
  <2>1. h = [g EXCEPT !.count = @ + segment.count, !.paths = @ \o segment.paths, !.starts = @ \o offset]
    BY <1>2 DEF AppendSegment
  <2>2. /\ g.starts \in Seq(Nat) /\ g.paths \in Seq(S) /\ g.count \in Nat
        /\ segment.starts \in Seq(Nat) /\ segment.paths \in Seq(S) /\ segment.count \in Nat
    BY DEF Gates
  <2>3. offset \in Seq(Nat)
    <3>1. Len(segment.starts) \in Nat /\ DOMAIN segment.starts = 1 .. Len(segment.starts)
          /\ \A k \in 1 .. Len(segment.starts) : segment.starts[k] \in Nat
      BY <2>2, LenProperties
    <3>2. \A k \in 1 .. Len(segment.starts) : g.count + segment.starts[k] \in Nat
      BY <2>2, <3>1
    <3> QED
      BY <3>1, <3>2
  <2> HIDE DEF offset, S, h
  <2>4. a \in Seq(Nat) /\ b \in Seq(S) /\ g.count + segment.count \in Nat
    BY <2>2, <2>3, ConcatProperties
  <2>5. h = [g EXCEPT !.count = g.count + segment.count, !.paths = b, !.starts = a]
    BY <2>1 DEF Gates
  <2> HIDE DEF a, b
  <2>6. h \in Gates
    BY <2>4, <2>5 DEF Gates, S
  <2> QED
    BY <2>6 DEF h
<1> QED
  BY <1>1, <1>2

\* The walk of a range emits an index of what rows keep of its pairs.
LEMMA EmittedIs ==
  ASSUME Keeping, Indexes(gate, Pairs), Started(gate), NEW k \in 0 .. (Len(gate.starts) - 1)
  PROVE  LET e == Emitted(k, RangeLength(k))
             from == gate.starts[k + 1]
         IN  /\ e \in Gates /\ Indexes(e, Grown(from, from + RangeLength(k)))
             /\ Started(e) /\ e.depth = height + 1
<1> DEFINE N == RangeLength(k)
           s == gate.starts[k + 1]
           P(i) == Visited(k)[i]
           Onto(i, g) == AppendBatch(g, P(i), kept[P(i)])
           step == [nx \in (1 .. N) \X Gates |-> Onto(nx[1], nx[2])]
           Def(f) == f = [i \in 0 .. N |->
                            IF i = 0 THEN Fresh(height + 1)
                            ELSE LET path == Visited(k)[i] IN AppendBatch(f[i - 1], path, kept[path])]
<1>1. Shaped /\ kept \in [Pairs -> SUBSET Branch] /\ height + 1 \in Nat
  BY DEF Keeping, Shaped
<1>2. s \in Nat /\ N \in Nat /\ s + N <= Cardinality(Pairs) /\ Cardinality(Pairs) \in Nat
  BY <1>1, RangeIs, SerialIs
<1>3. ASSUME NEW i \in 1 .. N
      PROVE  /\ P(i) = Serial[s + i] /\ P(i) \in Pairs /\ P(i) \in Seq(Branch) /\ Len(P(i)) = height
             /\ kept[P(i)] \in SUBSET Branch
  <2>1. P(i) = Serial[s + i]
    BY <1>1, VisitedIs
  <2>2. s + i \in 1 .. Cardinality(Pairs)
    BY <1>2
  <2> HIDE DEF P
  <2>3. P(i) \in Pairs
    BY <1>1, <2>1, <2>2, SerialIs
  <2> QED
    BY <1>1, <2>1, <2>3, PairIs
<1>4. Emitted(k, N) = (CHOOSE h : Def(h))[N]
  BY DEF Emitted
<1> DEFINE g == CHOOSE h : Def(h)
<1>5. Emitted(k, N) = g[N]
  BY <1>4
<1> HIDE DEF N, s
<1>6. \A f : Def(f) <=> f = [i \in 0 .. N |-> IF i = 0 THEN Fresh(height + 1) ELSE Onto(i, f[i - 1])]
  OBVIOUS
<1> HIDE DEF P, Def
<1>7. \A i \in 1 .. N, h \in Gates : Onto(i, h) \in Gates
  BY <1>3, BatchType
<1>8. step \in Steps(N, Gates)
  <2> HIDE DEF Onto
  <2>1. \A nx \in (1 .. N) \X Gates : Onto(nx[1], nx[2]) \in Gates
    BY <1>7
  <2> QED
    BY <2>1 DEF Steps
<1>9. Fresh(height + 1) \in Gates
  BY <1>1, FreshIs
<1> HIDE DEF Onto
<1>10. PICK f : Solution(Gates, Fresh(height + 1), N, step, f)
  <2> HIDE DEF step
  <2> QED
    BY <1>2, <1>8, <1>9, Recursion
<1>11. ASSUME NEW i \in 1 .. N PROVE f[i] = Onto(i, f[i - 1])
  <2>1. i - 1 \in 0 .. N
    BY <1>2
  <2>2. f[i - 1] \in Gates
    BY <1>10, <2>1 DEF Solution
  <2>3. <<i, f[i - 1]>> \in (1 .. N) \X Gates
    BY <2>2
  <2> QED
    BY <1>10, <2>3 DEF Solution
<1>12. Def(f)
  <2>1. \A i \in 0 .. N : i = 0 \/ i \in 1 .. N
    BY <1>2
  <2>2. f = [i \in 0 .. N |-> f[i]] /\ f[0] = Fresh(height + 1)
    BY <1>10 DEF Solution
  <2> QED
    BY <1>6, <1>11, <2>1, <2>2
<1>13. Def(g)
  BY <1>12
<1> HIDE DEF g
<1>14. g[0] = Fresh(height + 1) /\ \A i \in 1 .. N : g[i] = Onto(i, g[i - 1])
  <2>1. \A i \in 1 .. N : i \in 0 .. N /\ i # 0
    BY <1>2
  <2>2. 0 \in 0 .. N
    BY <1>2
  <2>3. g = [i \in 0 .. N |-> IF i = 0 THEN Fresh(height + 1) ELSE Onto(i, g[i - 1])]
    BY <1>6, <1>13
  <2> QED
    BY <2>1, <2>2, <2>3
<1> DEFINE Good(i) == Indexes(g[i], Grown(s, s + i)) /\ Started(g[i]) /\ g[i].depth = height + 1
           G == {i \in Nat : i <= N => Good(i)}
<1>15. 0 \in G
  <2>1. s + 0 = s /\ Grown(s, s) = {}
    <3>1. s \in s .. Cardinality(Pairs)
      BY <1>2
    <3>2. Grown(s, s) = {}
      BY <1>2, <3>1, GrownIs
    <3> QED
      BY <1>2, <3>2
  <2>2. Indexes(g[0], {}) /\ Started(g[0]) /\ g[0].depth = height + 1
    BY <1>1, <1>14, FreshIs
  <2>3. Good(0)
    BY <2>1, <2>2
  <2> QED
    BY <2>3
<1>16. ASSUME NEW j \in G PROVE j + 1 \in G
  <2> SUFFICES ASSUME j + 1 <= N PROVE Good(j + 1)
    <3> HIDE DEF Good
    <3> QED
      OBVIOUS
  <2>1. j \in Nat /\ j <= N /\ j + 1 \in 1 .. N /\ (j + 1) - 1 = j
    BY <1>2
  <2>2. Good(j)
    <3> HIDE DEF Good
    <3> QED
      BY <2>1
  <2> DEFINE i == j + 1
             X == Grown(s, s + j)
             p == P(i)
  <2>3. p = Serial[s + i] /\ p \in Seq(Branch) /\ Len(p) = height /\ kept[p] \in SUBSET Branch
    BY <1>3, <2>1
  <2>4. s + j \in s .. Cardinality(Pairs) /\ s + j < Cardinality(Pairs) /\ s + i = (s + j) + 1 /\ s + j \in Nat
        /\ s + i \in (s + j) .. Cardinality(Pairs)
    BY <1>2, <2>1
  <2> HIDE DEF i, p
  <2>5. Level(X, height + 1) /\ Grown(s, s + i) = X \cup Ext(p, kept[p])
    BY <1>2, <2>3, <2>4, GrownIs
  <2>6. Ahead(X, Ext(p, kept[p]))
    <3>1. Ahead(X, Grown(s + j, s + i))
      BY <1>2, <2>4, GrownIs
    <3>2. Grown(s + j, s + i) = Grown(s + j, s + j) \cup Ext(p, kept[p])
      <4>1. s + j \in (s + j) .. Cardinality(Pairs)
        BY <2>4
      <4> QED
        BY <2>3, <2>4, <4>1, GrownIs
    <3> HIDE DEF X
    <3> QED
      BY <3>1, <3>2 DEF Ahead
  <2>7. g[i] = AppendBatch(g[j], p, kept[p])
    BY <1>14, <2>1 DEF Onto, i, p
  <2> HIDE DEF X
  <2>8. Indexes(g[j], X) /\ Started(g[j]) /\ g[j].depth = height + 1
    BY <2>2 DEF X
  <2>9. /\ Indexes(AppendBatch(g[j], p, kept[p]), X \cup Ext(p, kept[p]))
        /\ Started(AppendBatch(g[j], p, kept[p])) /\ AppendBatch(g[j], p, kept[p]).depth = g[j].depth
    <3> DEFINE L == kept[p]
               h == g[j]
    <3>1. p \in Seq(Branch) /\ L \in SUBSET Branch /\ Level(X, Len(p) + 1) /\ Ahead(X, Ext(p, L))
      BY <2>3, <2>5, <2>6
    <3>2. Indexes(h, X) /\ Started(h)
      BY <2>8
    <3> HIDE DEF L, h
    <3>3. LET b == AppendBatch(h, p, L)
          IN  Indexes(b, X \cup Ext(p, L)) /\ Started(b) /\ b.depth = h.depth
      BY ONLY <3>1, <3>2, BatchIs
    <3> QED
      BY <3>3 DEF L, h
  <2>10. Good(i)
    BY <2>5, <2>7, <2>8, <2>9
  <2> HIDE DEF Good
  <2> QED
    BY <2>10 DEF i
<1>17. G \in SUBSET Nat
  OBVIOUS
<1> HIDE DEF G
<1>18. G = Nat
  BY <1>15, <1>16, <1>17, AllNumbers
<1>19. Good(N)
  <2> HIDE DEF Good
  <2> QED
    BY <1>2, <1>18 DEF G
<1>20. g[N] \in Gates
  BY <1>19 DEF Indexes, Gates
<1>21. Emitted(k, N) \in Gates /\ Indexes(Emitted(k, N), Grown(s, s + N)) /\ Started(Emitted(k, N))
       /\ Emitted(k, N).depth = height + 1
  BY <1>5, <1>19, <1>20
<1> QED
  BY <1>21 DEF N, s

\* All segments, appended in order, index what rows keep of all pairs.
LEMMA MergedIs ==
  ASSUME Keeping, Indexes(gate, Pairs), Started(gate), gate.starts # <<>>,
         Len(segments) = Len(gate.starts),
         \A k \in 0 .. (Len(gate.starts) - 1) : segments[k + 1] = Emitted(k, RangeLength(k))
  PROVE  LET g == Merged(height + 1)
         IN  /\ Indexes(g, Grown(0, Cardinality(Pairs))) /\ Started(g) /\ g.depth = height + 1
<1> DEFINE m == Len(gate.starts)
           n == Cardinality(Pairs)
           end(i) == IF i = m THEN n ELSE gate.starts[i + 1]
           Def(f) == f = [k \in 0 .. m |-> IF k = 0 THEN Fresh(height + 1) ELSE AppendSegment(f[k - 1], segments[k])]
           step == [nx \in (1 .. m) \X Gates |-> AppendSegment(nx[2], segments[nx[1]])]
           g == CHOOSE h : Def(h)
<1>1. Shaped /\ height + 1 \in Nat /\ n \in Nat
  BY SerialIs DEF Keeping, Shaped
<1>2. m \in Nat \ {0}
  <2>1. gate.starts \in Seq(Nat)
    BY DEF Indexes
  <2> QED
    BY <2>1, EmptySeq
<1>3. ASSUME NEW i \in 1 .. m
      PROVE  /\ end(i - 1) \in 0 .. end(i) /\ end(i) \in 0 .. n
             /\ segments[i] \in Gates /\ Indexes(segments[i], Grown(end(i - 1), end(i)))
             /\ Started(segments[i])
  <2> DEFINE k == i - 1
             s == gate.starts[i]
             L == RangeLength(i - 1)
  <2>1. k \in 0 .. (m - 1) /\ k + 1 = i /\ k + 2 = i + 1 /\ k # m
    BY <1>2
  <2>2. s \in Nat /\ L \in Nat \ {0} /\ s + L = end(i) /\ s + L <= n
    BY <1>1, <2>1, RangeIs
  <2>3. end(i - 1) = s
    BY <2>1
  <2>4. segments[i] = Emitted(k, L)
    BY <2>1
  <2>5. /\ Emitted(k, L) \in Gates /\ Indexes(Emitted(k, L), Grown(s, s + L)) /\ Started(Emitted(k, L))
    <3>1. LET e == Emitted(k, RangeLength(k))
              from == gate.starts[k + 1]
          IN  /\ e \in Gates /\ Indexes(e, Grown(from, from + RangeLength(k)))
              /\ Started(e) /\ e.depth = height + 1
      BY <2>1, EmittedIs
    <3> QED
      BY <2>1, <3>1
  <2> HIDE DEF s, L, end, k, m, n
  <2>6. end(i - 1) \in 0 .. end(i) /\ end(i) \in 0 .. n
    BY <1>1, <2>2, <2>3
  <2> QED
    BY <2>2, <2>3, <2>4, <2>5, <2>6
<1>4. end(0) = 0 /\ end(m) = n
  <2>1. n # 0
    <3>1. 1 \in 1 .. m
      BY <1>2
    <3>2. gate.paths[1] \in Pairs
      BY <3>1 DEF Indexes
    <3>3. \A a \in Pairs : Rank(PathOrder, Pairs, a) \in 0 .. (n - 1)
      BY <1>1, PairsOrdered, RankOrder
    <3> QED
      BY <1>1, <3>2, <3>3
  <2>2. gate.count = n
    BY DEF Indexes
  <2> HIDE DEF n
  <2>3. gate.starts[1] = 0
    BY <2>1, <2>2 DEF Started
  <2> QED
    BY <1>2, <2>3
<1>5. Merged(height + 1) = g[m]
  BY DEF Merged
<1> HIDE DEF m, n, end
<1>6. \A h \in Gates, i \in 1 .. m : AppendSegment(h, segments[i]) \in Gates
  BY <1>3, SegmentType
<1>7. step \in Steps(m, Gates)
  <2>1. \A nx \in (1 .. m) \X Gates : AppendSegment(nx[2], segments[nx[1]]) \in Gates
    BY <1>6
  <2> QED
    BY <2>1 DEF Steps
<1>8. Fresh(height + 1) \in Gates
  BY <1>1, FreshIs
<1>9. PICK f : Solution(Gates, Fresh(height + 1), m, step, f)
  <2> HIDE DEF step
  <2> QED
    BY <1>2, <1>7, <1>8, Recursion
<1>10. ASSUME NEW i \in 1 .. m PROVE f[i] = AppendSegment(f[i - 1], segments[i])
  <2>1. i - 1 \in 0 .. m
    BY <1>2
  <2>2. f[i - 1] \in Gates
    BY <1>9, <2>1 DEF Solution
  <2>3. <<i, f[i - 1]>> \in (1 .. m) \X Gates
    BY <2>2
  <2> QED
    BY <1>9, <2>3 DEF Solution
<1>11. Def(f)
  <2>1. \A i \in 0 .. m : i = 0 \/ i \in 1 .. m
    BY <1>2
  <2>2. f = [i \in 0 .. m |-> f[i]] /\ f[0] = Fresh(height + 1)
    BY <1>9 DEF Solution
  <2> QED
    BY <1>10, <2>1, <2>2
<1>12. Def(g)
  <2> HIDE DEF Def
  <2> QED
    BY <1>11
<1> HIDE DEF g
<1>13. g[0] = Fresh(height + 1) /\ \A i \in 1 .. m : g[i] = AppendSegment(g[i - 1], segments[i])
  <2>1. \A i \in 1 .. m : i \in 0 .. m /\ i # 0
    BY <1>2
  <2>2. 0 \in 0 .. m
    BY <1>2
  <2> QED
    BY <1>12, <2>1, <2>2
<1> HIDE DEF Def
<1> DEFINE Good(i) == Indexes(g[i], Grown(0, end(i))) /\ Started(g[i]) /\ g[i].depth = height + 1
           G == {i \in Nat : i <= m => Good(i)}
<1>14. 0 \in G
  <2>1. Grown(0, 0) = {}
    <3>1. 0 \in 0 .. Cardinality(Pairs)
      BY <1>1 DEF n
    <3> QED
      BY <3>1, GrownIs
  <2>2. Indexes(g[0], {}) /\ Started(g[0]) /\ g[0].depth = height + 1
    BY <1>1, <1>13, FreshIs
  <2>3. Good(0)
    BY <1>4, <2>1, <2>2
  <2> QED
    BY <2>3
<1>15. ASSUME NEW j \in G PROVE j + 1 \in G
  <2> SUFFICES ASSUME j + 1 <= m PROVE Good(j + 1)
    <3> HIDE DEF Good
    <3> QED
      OBVIOUS
  <2>1. j \in Nat /\ j <= m /\ j + 1 \in 1 .. m /\ (j + 1) - 1 = j
    BY <1>2
  <2>2. Good(j)
    <3> HIDE DEF Good
    <3> QED
      BY <2>1
  <2> DEFINE i == j + 1
             a == end(j)
             b == end(i)
             X == Grown(0, a)
             Y == Grown(a, b)
             h == g[j]
             segment == segments[i]
  <2>3. /\ a \in 0 .. b /\ b \in 0 .. n
        /\ Indexes(segment, Y) /\ Started(segment)
    BY <1>3, <2>1
  <2>4. g[i] = AppendSegment(h, segment)
    BY <1>13, <2>1
  <2> HIDE DEF a, b
  <2>5. a \in Nat /\ a \in 0 .. Cardinality(Pairs) /\ b \in a .. Cardinality(Pairs) /\ a \in a .. Cardinality(Pairs)
    BY <1>1, <2>3 DEF n
  <2>6. Level(X, height + 1) /\ Grown(0, b) = X \cup Y /\ Ahead(X, Y)
    BY <2>5, GrownIs
  <2>7. Level(Y, height + 1)
    BY <2>5, GrownIs
  <2>8. Indexes(h, X) /\ Started(h) /\ h.depth = height + 1
    BY <2>2 DEF a
  <2> HIDE DEF X, Y, h, segment, i
  <2>9. LET u == AppendSegment(h, segment)
        IN  Indexes(u, X \cup Y) /\ Started(u) /\ u.depth = h.depth
    BY ONLY <2>3, <2>6, <2>7, <2>8, SegmentIs
  <2>10. Good(i)
    BY <2>4, <2>6, <2>8, <2>9 DEF b
  <2> HIDE DEF Good
  <2> QED
    BY <2>10 DEF i
<1>16. G \in SUBSET Nat
  OBVIOUS
<1> HIDE DEF G
<1>17. G = Nat
  BY <1>14, <1>15, <1>16, AllNumbers
<1>18. Good(m)
  <2> HIDE DEF Good
  <2> QED
    BY <1>2, <1>17 DEF G
<1> QED
  BY <1>4, <1>5, <1>18 DEF n

-----------------------------------------------------------------------------
\* The trees after a row: those of the pairs that it keeps, one branch longer.
LEMMA ReifiedIs ==
  ASSUME Shaped, NEW labels \in [Pairs -> SUBSET Branch], NEW dead \in {{}, tree}
  PROVE  LET R == Reified(labels, dead)
         IN  /\ R \subseteq Seq(Branch) /\ IsFiniteSet(R)
             /\ \A p \in R : Len(p) <= height + 1 /\ \A d \in 0 .. Len(p) : SubSeq(p, 1, d) \in R
             /\ {p \in R : Len(p) = height + 1} = UNION {Ext(p, labels[p]) : p \in Pairs}
<1> DEFINE R == Reified(labels, dead)
           Live == {q \in Pairs : labels[q] # {}}
           f == [z \in Pairs \X Branch |-> Append(z[1], z[2])]
           T == {f[z] : z \in Pairs \X Branch}
<1>1. height \in Nat /\ tree \in SUBSET Seq(Branch) /\ IsFiniteSet(tree)
  BY DEF Shaped
<1>2. IsFiniteSet(T)
  <2>1. IsFiniteSet(Pairs \X Branch)
    <3>1. IsFiniteSet(Pairs) /\ IsFiniteSet(Branch)
      BY PairsOrdered, GateAssumption
    <3> QED
      BY ONLY <3>1, FS_Product
  <2>2. f \in Surjection(Pairs \X Branch, T)
    <3>1. f \in [Pairs \X Branch -> T] /\ \A t \in T : \E z \in Pairs \X Branch : f[z] = t
      OBVIOUS
    <3> HIDE DEF f, T
    <3> QED
      BY <3>1 DEF Surjection
  <2> HIDE DEF f, T
  <2> QED
    BY <2>1, <2>2, FS_Surjection
<1>3. \A x : x \in R <=> \/ x \in dead
                         \/ \E p \in Live : \E d \in 0 .. height : x = SubSeq(p, 1, d)
                         \/ \E p \in Live : \E b \in labels[p] : x = Append(p, b)
  BY DEF Reified
<1>4. ASSUME NEW p \in Pairs
      PROVE  p \in tree /\ p \in Seq(Branch) /\ Len(p) = height /\ labels[p] \in SUBSET Branch
  BY PairIs
<1>5. ASSUME NEW p \in Live, NEW d \in 0 .. height
      PROVE  /\ SubSeq(p, 1, d) \in tree /\ SubSeq(p, 1, d) \in R /\ Len(SubSeq(p, 1, d)) = d
             /\ \A e \in 0 .. d : SubSeq(SubSeq(p, 1, d), 1, e) \in R
  <2>1. p \in Pairs
    OBVIOUS
  <2> HIDE DEF R, Live
  <2>2. SubSeq(p, 1, d) \in R
    BY <1>3
  <2>3. SubSeq(p, 1, d) \in tree
    BY <1>4, <2>1, TreeIs
  <2>4. /\ Len(SubSeq(p, 1, d)) = d
        /\ \A e \in 0 .. d : SubSeq(SubSeq(p, 1, d), 1, e) = SubSeq(p, 1, e)
    BY <1>4, <2>1, Beginnings
  <2>5. \A e \in 0 .. d : e \in 0 .. height
    BY <1>1
  <2> QED
    BY <1>3, <2>2, <2>3, <2>4, <2>5
<1>6. ASSUME NEW p \in Live, NEW b \in labels[p]
      PROVE  /\ Append(p, b) \in R /\ Append(p, b) \in T /\ Append(p, b) \in Seq(Branch)
             /\ Len(Append(p, b)) = height + 1
             /\ \A e \in 0 .. (height + 1) : SubSeq(Append(p, b), 1, e) \in R
  <2> DEFINE x == Append(p, b)
  <2>1. p \in Pairs /\ p \in Seq(Branch) /\ Len(p) = height /\ b \in Branch
    BY <1>4
  <2>2. x \in Seq(Branch) /\ Len(x) = height + 1 /\ \A e \in 0 .. height : SubSeq(x, 1, e) = SubSeq(p, 1, e)
    BY <2>1, OnwardIs
  <2>3. x \in T
    <3>1. <<p, b>> \in Pairs \X Branch
      BY <2>1
    <3>2. f[<<p, b>>] = x
      BY <3>1
    <3> QED
      BY <3>1, <3>2
  <2> HIDE DEF R, Live, T
  <2>4. x \in R
    BY <1>3
  <2> HIDE DEF x
  <2>5. SubSeq(x, 1, height + 1) = x
    BY <2>2, SubSeqFull
  <2>6. ASSUME NEW e \in 0 .. (height + 1) PROVE SubSeq(x, 1, e) \in R
    <3>1. CASE e = height + 1
      BY <2>4, <2>5, <3>1
    <3>2. CASE e # height + 1
      <4>1. e \in 0 .. height
        BY <1>1, <3>2
      <4> QED
        BY <1>5, <2>2, <4>1
    <3> QED
      BY <3>1, <3>2
  <2> QED
    BY <2>2, <2>3, <2>4, <2>6 DEF x
<1>7. ASSUME NEW x \in dead
      PROVE  x \in tree /\ x \in Seq(Branch) /\ Len(x) <= height /\ \A d \in 0 .. Len(x) : SubSeq(x, 1, d) \in R
  <2>1. x \in tree /\ dead = tree
    OBVIOUS
  <2>2. \A d \in 0 .. Len(x) : SubSeq(x, 1, d) \in dead
    BY <2>1, TreeIs
  <2> HIDE DEF R
  <2> QED
    BY <1>3, <2>1, <2>2, TreeIs
<1> HIDE DEF R, T
<1>8. R \in SUBSET (tree \cup T) /\ R \in SUBSET Seq(Branch)
  <2>1. \A x \in dead : x \in tree
    BY <1>7
  <2> HIDE DEF Live
  <2>2. ASSUME NEW x \in R PROVE x \in tree \/ (x \in T /\ x \in Seq(Branch))
    <3>1. CASE x \in dead
      BY <2>1, <3>1
    <3>2. CASE \E p \in Live : \E d \in 0 .. height : x = SubSeq(p, 1, d)
      BY <1>5, <3>2
    <3>3. CASE \E p \in Live : \E b \in labels[p] : x = Append(p, b)
      BY <1>6, <3>3
    <3> QED
      BY <1>3, <3>1, <3>2, <3>3
  <2> QED
    BY <1>1, <2>2
<1>9. IsFiniteSet(R)
  <2>1. IsFiniteSet(tree \cup T)
    BY <1>1, <1>2, FS_Union
  <2>2. R \in SUBSET (tree \cup T)
    BY <1>8
  <2> QED
    BY ONLY <2>1, <2>2, FS_Subset
<1>10. ASSUME NEW x \in R PROVE Len(x) <= height + 1 /\ \A d \in 0 .. Len(x) : SubSeq(x, 1, d) \in R
  <2>1. CASE x \in dead
    <3>1. Len(x) \in Nat /\ Len(x) <= height
      BY <1>7, <2>1, PathLength
    <3> QED
      BY <1>1, <1>7, <2>1, <3>1
  <2>2. CASE \E p \in Live : \E d \in 0 .. height : x = SubSeq(p, 1, d)
    <3>1. PICK p \in Live, d \in 0 .. height : x = SubSeq(p, 1, d)
      BY <2>2
    <3>2. d <= height + 1
      BY <1>1
    <3> HIDE DEF Live
    <3> QED
      BY <1>5, <3>1, <3>2
  <2>3. CASE \E p \in Live : \E b \in labels[p] : x = Append(p, b)
    <3>1. PICK p \in Live : \E b \in labels[p] : x = Append(p, b)
      BY <2>3
    <3>2. PICK b \in labels[p] : x = Append(p, b)
      BY <3>1
    <3>3. height + 1 <= height + 1
      BY <1>1
    <3> HIDE DEF Live
    <3> QED
      BY <1>6, <3>2, <3>3
  <2> QED
    BY <1>3, <2>1, <2>2, <2>3
<1>11. \A x : x \in R /\ Len(x) = height + 1 <=> \E p \in Pairs : x \in Ext(p, labels[p])
  <2>1. ASSUME NEW x \in R, Len(x) = height + 1 PROVE \E p \in Pairs : x \in Ext(p, labels[p])
    <3>1. ~ (height + 1 <= height)
      BY <1>1
    <3>2. x \notin dead
      BY <1>7, <2>1, <3>1
    <3>3. ~ (\E p \in Live : \E d \in 0 .. height : x = SubSeq(p, 1, d))
      <4> SUFFICES ASSUME NEW p \in Live, NEW d \in 0 .. height, x = SubSeq(p, 1, d) PROVE FALSE
        OBVIOUS
      <4>1. d = height + 1
        BY <1>5, <2>1
      <4> QED
        BY <1>1, <4>1
    <3>4. PICK p \in Live : \E b \in labels[p] : x = Append(p, b)
      BY <1>3, <3>2, <3>3
    <3> QED
      BY <3>4 DEF Ext
  <2>2. ASSUME NEW p \in Pairs, NEW x \in Ext(p, labels[p]) PROVE x \in R /\ Len(x) = height + 1
    <3>1. PICK b \in labels[p] : x = Append(p, b)
      BY DEF Ext
    <3>2. p \in Live
      BY <3>1
    <3> HIDE DEF Live
    <3> QED
      BY <1>6, <3>1, <3>2
  <2> QED
    BY <2>1, <2>2
<1>12. {x \in R : Len(x) = height + 1} = UNION {Ext(p, labels[p]) : p \in Pairs}
  BY <1>11
<1> QED
  BY <1>8, <1>9, <1>10, <1>12 DEF R

-----------------------------------------------------------------------------
\* A task was handed out once: it is in one worker's hands, or over.
Owned ==
  /\ ran \cup threw \subseteq 0 .. (next - 1)
  /\ \A w \in Worker : pc[w] \in Busy => task[w] \in 0 .. (next - 1) /\ task[w] \notin ran \cup threw
  /\ \A v, w \in Worker : pc[v] \in Busy /\ pc[w] \in Busy /\ task[v] = task[w] => v = w

LEMMA OwnedInit == Init => Owned
BY DEF Init, Owned, Busy

LEMMA OwnedStep == IInv /\ Owned /\ [Next]_vars => Owned'
<1> SUFFICES ASSUME IInv, Owned, [Next]_vars PROVE Owned'
  OBVIOUS
<1> USE DEF Busy
<1>1. /\ pc \in [Worker -> {"idle", "check", "run", "caught", "keep", "barrier"}]
      /\ task \in [Worker -> Task \cup {None}] /\ taskCount \in Nat /\ next \in 0 .. taskCount /\ next \in Nat
  BY DEF IInv, TypeOK
<1>2. ASSUME NEW w \in Worker, Take(w) PROVE Owned'
  <2>1. CASE next < taskCount
    <3>1. /\ pc'[w] = "check" /\ task'[w] = next /\ next' = next + 1 /\ ran' = ran /\ threw' = threw
          /\ \A v \in Worker \ {w} : pc'[v] = pc[v] /\ task'[v] = task[v]
      BY <1>1, <1>2, <2>1 DEF Take, Step
    <3>2. 0 .. (next' - 1) = 0 .. next /\ next \in 0 .. next /\ next \notin 0 .. (next - 1)
          /\ \A t \in 0 .. (next - 1) : t \in 0 .. next
      BY <1>1, <3>1
    <3>3. \A v \in Worker \ {w} : pc'[v] \in Busy => task'[v] \in 0 .. (next - 1) /\ task'[v] \notin ran \cup threw
      BY <3>1 DEF Owned
    <3>4. next \notin ran \cup threw
      BY <3>2 DEF Owned
    <3>5. ran' \cup threw' \subseteq 0 .. (next' - 1)
      BY <3>1, <3>2 DEF Owned
    <3>6. \A v \in Worker : pc'[v] \in Busy => task'[v] \in 0 .. (next' - 1) /\ task'[v] \notin ran' \cup threw'
      BY <3>1, <3>2, <3>3, <3>4
    <3>7. \A u, v \in Worker : pc'[u] \in Busy /\ pc'[v] \in Busy /\ task'[u] = task'[v] => u = v
      BY <3>1, <3>2, <3>3 DEF Owned
    <3> QED
      BY <3>5, <3>6, <3>7 DEF Owned
  <2>2. CASE ~ (next < taskCount)
    BY <1>1, <1>2, <2>2 DEF Take, Step, Owned
  <2> QED
    BY <2>1, <2>2
<1>3. ASSUME NEW w \in Worker, Check(w) PROVE Owned'
  <2>1. /\ pc[w] = "check" /\ pc'[w] \in {"idle", "run"} /\ \A v \in Worker \ {w} : pc'[v] = pc[v]
    BY <1>1, <1>3 DEF Check, Step
  <2>2. UNCHANGED <<taskCount, next, task, ran, threw>>
    BY <1>3 DEF Check
  <2>3. \A v \in Worker : pc'[v] \in Busy => pc[v] \in Busy
    BY <2>1
  <2> QED
    BY <2>2, <2>3 DEF Owned
<1>4. ASSUME NEW w \in Worker, Complete(w) PROVE Owned'
  BY <1>1, <1>4 DEF Complete, Step, Owned
<1>5. ASSUME NEW w \in Worker, Throw(w) PROVE Owned'
  BY <1>1, <1>5 DEF Throw, Step, Owned
<1>6. ASSUME NEW w \in Worker, Exchange(w) PROVE Owned'
  BY <1>1, <1>6 DEF Exchange, Step, Owned
<1>7. ASSUME NEW w \in Worker, Keep(w) PROVE Owned'
  BY <1>1, <1>7 DEF Keep, Step, Owned
<1>8. CASE Return
  <2>1. UNCHANGED <<taskCount, next, pc, ran, threw>> /\ \A w \in Worker : pc[w] = "barrier"
    BY <1>8 DEF Return
  <2> QED
    BY <2>1 DEF Owned
<1>9. ASSUME NEW n \in Nat \ {0}, Call(n) PROVE Owned'
  <2>1. ran' = {} /\ threw' = {} /\ \A w \in Worker : pc'[w] = "idle"
    BY <1>9 DEF Call
  <2> QED
    BY <2>1 DEF Owned
<1>10. CASE UNCHANGED vars
  BY <1>10 DEF vars, Owned
<1> QED
  BY <1>2, <1>3, <1>4, <1>5, <1>6, <1>7, <1>8, <1>9, <1>10 DEF Next

-----------------------------------------------------------------------------
\* While a row is walked, each range that has run has emitted all that it keeps.
Walked ==
  /\ Indexes(gate, Pairs) /\ IndexReady(gate, height)
  /\ kept \in [Pairs -> SUBSET Branch]
  /\ DOMAIN segments = 1 .. Len(gate.starts) /\ Len(segments) = Len(gate.starts)
  /\ taskCount = Len(gate.starts)
  /\ \A k \in ran : segments[k + 1] = Emitted(k, RangeLength(k))

GateOK ==
  /\ Shaped
  /\ phase \in {"idle", "walk", "exhausted", "failed"}
  /\ phase = "idle" => Indexes(gate, Pairs) /\ Pairs # {} /\ (parallel => IndexReady(gate, height))
  /\ phase = "walk" => Walked
  /\ phase # "walk" => outcome # "running"

GateInv == IInv /\ Owned /\ GateOK

LEMMA IndexedNext ==
  (Shaped =>
     /\ Indexes(Indexed(Serial, height), Pairs) /\ Indexes(Unindexed(Serial), Pairs)
     /\ Pairs # {} => IndexReady(Indexed(Serial, height), height)
     /\ Indexed(Serial, height).count = Cardinality(Pairs) /\ Unindexed(Serial).count = Cardinality(Pairs))'
<1>1. Shaped =>
        /\ Indexes(Indexed(Serial, height), Pairs) /\ Indexes(Unindexed(Serial), Pairs)
        /\ Pairs # {} => IndexReady(Indexed(Serial, height), height)
        /\ Indexed(Serial, height).count = Cardinality(Pairs) /\ Unindexed(Serial).count = Cardinality(Pairs)
  BY IndexedIs
<1> QED
  BY <1>1, PTL

LEMMA PairsFinite ==
  ASSUME Shaped
  PROVE  IsFiniteSet(Pairs) /\ Cardinality(Pairs) \in Nat /\ (Cardinality(Pairs) = 0 <=> Pairs = {})
<1>1. IsFiniteSet(Pairs)
  BY PairsOrdered
<1> QED
  BY <1>1, FS_CardinalityType, FS_EmptySet

LEMMA ReadyStarts ==
  ASSUME NEW X, Indexes(gate, X), IndexReady(gate, height)
  PROVE  Started(gate) /\ gate.starts # <<>> /\ Len(gate.starts) \in Nat \ {0}
<1>1. gate.starts \in Seq(Nat) /\ gate.starts # <<>> /\ Head(gate.starts) = 0
  BY DEF Indexes, IndexReady
<1>2. gate.starts[1] = 0
  BY <1>1
<1> QED
  BY <1>1, <1>2, EmptySeq DEF Started

LEMMA GateInitInv == GatesInit => GateInv
<1> SUFFICES ASSUME GatesInit PROVE GateInv
  OBVIOUS
<1>1. IInv /\ Owned
  BY InitInv, OwnedInit DEF GatesInit
<1>2. Shaped /\ Pairs # {}
  BY TreeAssumption DEF GatesInit, Shaped, Pairs
<1>3. gate = (IF parallel THEN Indexed(Serial, height) ELSE Unindexed(Serial)) /\ phase = "idle" /\ outcome = "returned"
  BY DEF GatesInit, Init
<1>4. Indexes(gate, Pairs) /\ (parallel => IndexReady(gate, height))
  BY <1>2, <1>3, IndexedIs
<1> QED
  BY <1>1, <1>2, <1>3, <1>4 DEF GateInv, GateOK

\* Every step of the gates is a step of the executor.
LEMMA GatesSteps == GateInv /\ [GatesNext]_<<vars, gateVars>> => [Next]_vars
<1> SUFFICES ASSUME GateInv, [GatesNext]_<<vars, gateVars>> PROVE [Next]_vars
  OBVIOUS
<1>1. CASE SweepSerial
  BY <1>1 DEF SweepSerial
<1>2. CASE Dispatch
  <2>1. Len(gate.starts) \in Nat \ {0}
    BY <1>2, ReadyStarts DEF Dispatch, GateInv, GateOK
  <2> QED
    BY <1>2, <2>1 DEF Dispatch, Next
<1>3. CASE Schedule
  BY <1>3 DEF Schedule, Next
<1>4. CASE Merge
  BY <1>4 DEF Merge
<1>5. CASE GiveUp
  BY <1>5 DEF GiveUp
<1>6. CASE Resume
  BY <1>6 DEF Resume
<1>7. ASSUME NEW w \in Worker, WalkRange(w) \/ AbandonRange(w) PROVE [Next]_vars
  BY <1>7 DEF WalkRange, AbandonRange, Next
<1>8. CASE UNCHANGED <<vars, gateVars>>
  BY <1>8
<1> QED
  BY <1>1, <1>2, <1>3, <1>4, <1>5, <1>6, <1>7, <1>8 DEF GatesNext

\* A row's trees and pairs, whoever swept it.
LEMMA RowIs ==
  ASSUME Shaped, NEW labels \in [Pairs -> SUBSET Branch], NEW dead \in {{}, tree},
         tree' = Reified(labels, dead), height' = height + 1
  PROVE  Shaped' /\ Pairs' = UNION {Ext(p, labels[p]) : p \in Pairs}
<1> DEFINE R == Reified(labels, dead)
<1>1. /\ R \subseteq Seq(Branch) /\ IsFiniteSet(R)
      /\ \A p \in R : Len(p) <= height + 1 /\ \A d \in 0 .. Len(p) : SubSeq(p, 1, d) \in R
      /\ {p \in R : Len(p) = height + 1} = UNION {Ext(p, labels[p]) : p \in Pairs}
  BY ReifiedIs
<1>2. height' \in Nat \ {0}
  BY DEF Shaped
<1> HIDE DEF R
<1>3. tree' = R
  BY DEF R
<1>4. Shaped'
  BY <1>1, <1>2, <1>3 DEF Shaped
<1>5. Pairs' = {p \in R : Len(p) = height + 1}
  BY <1>3 DEF Pairs
<1> QED
  BY <1>1, <1>4, <1>5

LEMMA SameRange ==
  ASSUME UNCHANGED <<tree, height, gate, kept>>, NEW k, NEW n
  PROVE  Emitted(k, n)' = Emitted(k, n) /\ RangeLength(k)' = RangeLength(k)
<1>1. Emitted(k, n)' = Emitted(k, n)
  BY DEF Emitted, Visited, RangeLength, Advance, Turn, Descend, Onward, At, Active
<1>2. RangeLength(k)' = RangeLength(k)
  BY DEF RangeLength
<1> QED
  BY <1>1, <1>2

LEMMA SameGate ==
  ASSUME UNCHANGED <<tree, height, gate, kept>>
  PROVE  /\ Shaped' <=> Shaped
         /\ Pairs' = Pairs /\ (Indexes(gate, Pairs)' <=> Indexes(gate, Pairs))
         /\ IndexReady(gate, height)' <=> IndexReady(gate, height)
<1>1. Pairs' = Pairs
  BY DEF Pairs
<1> QED
  BY <1>1 DEF Shaped

LEMMA GateStepInv == GateInv /\ [GatesNext]_<<vars, gateVars>> => GateInv'
<1> SUFFICES ASSUME GateInv, [GatesNext]_<<vars, gateVars>> PROVE GateInv'
  OBVIOUS
<1>1. IInv' /\ Owned'
  BY GatesSteps, StepInv, OwnedStep DEF GateInv
<1>2. IInv /\ Owned /\ GateOK
  BY DEF GateInv
<1> SUFFICES GateOK'
  BY <1>1 DEF GateInv
<1> USE DEF gateVars
<1>3. CASE SweepSerial
  <2>1. PICK labels \in Labels, dead \in {{}, tree} : tree' = Reified(labels, dead)
    BY <1>3 DEF SweepSerial
  <2>2. /\ height' = height + 1 /\ phase = "idle"
        /\ gate' = (IF parallel THEN Indexed(Serial', height') ELSE Unindexed(Serial'))
        /\ phase' = (IF gate'.count = 0 THEN "exhausted" ELSE "idle")
        /\ UNCHANGED <<parallel, outcome>>
    BY <1>3 DEF SweepSerial, vars
  <2>3. labels \in [Pairs -> SUBSET Branch]
    BY DEF Labels
  <2>4. Shaped'
    BY <1>2, <2>1, <2>2, <2>3, RowIs DEF GateOK
  <2>5. /\ Indexes(Indexed(Serial', height'), Pairs') /\ Indexes(Unindexed(Serial'), Pairs')
        /\ Pairs' # {} => IndexReady(Indexed(Serial', height'), height')
        /\ Indexed(Serial', height').count = Cardinality(Pairs') /\ Unindexed(Serial').count = Cardinality(Pairs')
    BY <2>4, IndexedNext
  <2>6. Indexes(gate', Pairs') /\ gate'.count = Cardinality(Pairs')
    BY <2>2, <2>5
  <2>7. Pairs' = {} => gate'.count = 0
    BY <2>6, FS_EmptySet
  <2>8. Pairs' # {} /\ parallel => IndexReady(gate', height')
    BY <2>2, <2>5
  <2> QED
    BY <1>2, <2>2, <2>4, <2>6, <2>7, <2>8 DEF GateOK
<1>4. CASE Dispatch
  <2>1. /\ UNCHANGED <<tree, height, gate, parallel>> /\ phase = "idle" /\ phase' = "walk"
        /\ IndexReady(gate, height) /\ kept' \in Labels
        /\ segments' = [k \in 1 .. Len(gate.starts) |-> Fresh(height + 1)]
        /\ taskCount' = Len(gate.starts) /\ ran' = {}
    BY <1>4 DEF Dispatch, Call
  <2>2. Indexes(gate, Pairs) /\ Len(gate.starts) \in Nat
    BY <1>2, <2>1, ReadyStarts DEF GateOK
  <2>3. Shaped' /\ Pairs' = Pairs
    BY <1>2, <2>1 DEF GateOK, Shaped, Pairs
  <2>4. kept' \in [Pairs' -> SUBSET Branch]
    BY <2>1, <2>3 DEF Labels
  <2>5. DOMAIN segments' = 1 .. Len(gate.starts) /\ Len(segments') = Len(gate.starts)
    BY <2>1, <2>2
  <2>6. Walked'
    BY <2>1, <2>2, <2>3, <2>4, <2>5 DEF Walked
  <2> QED
    BY <2>1, <2>3, <2>6 DEF GateOK
<1>5. CASE Schedule
  <2>1. UNCHANGED <<tree, height, gate, parallel, kept, segments, phase>>
    BY <1>5 DEF Schedule
  <2>2. UNCHANGED <<taskCount, ran>> /\ (outcome # "running" => outcome' # "running")
    BY <1>5 DEF Schedule, Return, Take, Check, Exchange, Keep
  <2> QED
    BY <1>2, <2>1, <2>2, SameGate, SameRange DEF GateOK, Walked
<1>6. CASE Merge
  <2>1. PICK dead \in {{}, tree} : tree' = Reified(kept, dead)
    BY <1>6 DEF Merge
  <2>2. /\ height' = height + 1 /\ phase = "walk" /\ outcome = "returned" /\ gate' = Merged(height + 1)
        /\ phase' = (IF gate'.count = 0 THEN "exhausted"
                     ELSE IF \A k \in DOMAIN segments :
                               segments[k].count = 0 \/ IndexReady(segments[k], height')
                          THEN "idle" ELSE "logic_error")
        /\ UNCHANGED <<parallel, outcome>>
    BY <1>6 DEF Merge, vars
  <2>3. Walked /\ Shaped
    BY <1>2, <2>2 DEF GateOK
  <2>4. Keeping /\ Indexes(gate, Pairs) /\ Started(gate) /\ gate.starts # <<>> /\ Len(gate.starts) \in Nat \ {0}
    BY <2>3, ReadyStarts DEF Walked, Keeping
  <2>5. \A k \in 0 .. (Len(gate.starts) - 1) : segments[k + 1] = Emitted(k, RangeLength(k))
    <3>1. ran = 0 .. (Len(gate.starts) - 1)
      BY <1>2, <2>2, <2>3, ReturnState DEF ReturnComplete, Walked, Task
    <3> QED
      BY <2>3, <3>1 DEF Walked
  <2>6. Shaped' /\ Pairs' = UNION {Ext(p, kept[p]) : p \in Pairs}
    BY <2>1, <2>2, <2>3, RowIs DEF Walked
  <2>7. Pairs' = Grown(0, Cardinality(Pairs))
    BY <2>4, <2>6, GrownAll
  <2>8. Len(segments) = Len(gate.starts)
    BY <2>3 DEF Walked
  <2>9. Indexes(gate', Pairs') /\ Started(gate') /\ gate'.depth = height'
    <3>1. LET g == Merged(height + 1)
          IN  Indexes(g, Grown(0, Cardinality(Pairs))) /\ Started(g) /\ g.depth = height + 1
      BY <2>4, <2>5, <2>8, MergedIs
    <3> QED
      BY <2>2, <2>7, <3>1
  <2>10. Level(Pairs', height + 1) /\ IsFiniteSet(Pairs')
    <3>1. Cardinality(Pairs) \in 0 .. Cardinality(Pairs)
      BY <2>3, PairsFinite
    <3>2. Level(Grown(0, Cardinality(Pairs)), height + 1)
      BY <2>4, <3>1, GrownIs
    <3> QED
      BY <2>7, <3>2 DEF Level
  <2>11. gate'.count = Cardinality(Pairs')
    BY <2>9 DEF Indexes
  <2>12. Pairs' = {} => gate'.count = 0
    BY <2>11, FS_EmptySet
  <2>13. Pairs' # {} => IndexReady(gate', height')
    <3> DEFINE X == Pairs'
               g == gate'
    <3>1. IsFiniteSet(X) /\ Orders(PathOrder, X) /\ Indexes(g, X) /\ Started(g)
      BY <2>9, <2>10, LevelIs
    <3> HIDE DEF X, g
    <3>2. X # {} => IndexReady(g, g.depth)
      BY ONLY <3>1, ReadyIs
    <3> QED
      BY <2>9, <3>2 DEF X, g
  <2>14. ASSUME NEW j \in DOMAIN segments, segments[j].count # 0 PROVE IndexReady(segments[j], height + 1)
    <3>1. j \in 1 .. Len(gate.starts)
      BY <2>3 DEF Walked
    <3>2. j - 1 \in 0 .. (Len(gate.starts) - 1) /\ (j - 1) + 1 = j
      BY <2>4, <3>1
    <3> DEFINE k == j - 1
               e == Emitted(k, RangeLength(k))
               from == gate.starts[k + 1]
               X == Grown(from, from + RangeLength(k))
    <3>3. segments[j] = e /\ k \in 0 .. (Len(gate.starts) - 1)
      BY <2>5, <3>2
    <3> HIDE DEF k
    <3>4. Indexes(e, X) /\ Started(e) /\ e.depth = height + 1
      BY <2>4, <3>3, EmittedIs
    <3>5. from \in Nat /\ from + RangeLength(k) \in from .. Cardinality(Pairs)
      <4>1. /\ from \in Nat /\ RangeLength(k) \in Nat \ {0} /\ from + RangeLength(k) <= Cardinality(Pairs)
        BY <2>3, <2>4, <3>3, RangeIs
      <4>2. Cardinality(Pairs) \in Nat
        BY <2>3, PairsFinite
      <4> HIDE DEF from
      <4> QED
        BY <4>1, <4>2
    <3>6. Level(X, height + 1)
      BY <2>4, <3>5, GrownIs
    <3>7. X # {}
      <4>1. e.count = Cardinality(X)
        BY <3>4 DEF Indexes
      <4> QED
        BY <2>14, <3>3, <4>1, FS_EmptySet
    <3> HIDE DEF e, X, from
    <3>8. IsFiniteSet(X) /\ Orders(PathOrder, X)
      BY <3>6, LevelIs DEF Level
    <3>9. IndexReady(e, e.depth)
      BY ONLY <3>4, <3>7, <3>8, ReadyIs
    <3> QED
      BY <3>3, <3>4, <3>9
  <2>15. phase' \in {"idle", "exhausted"} /\ (phase' = "idle" => Pairs' # {})
    BY <2>2, <2>12, <2>14
  <2> QED
    BY <2>2, <2>6, <2>9, <2>13, <2>15 DEF GateOK
<1>7. CASE GiveUp
  <2>1. UNCHANGED <<tree, height, outcome>> /\ outcome = "rethrown" /\ phase' = "failed"
    BY <1>7 DEF GiveUp, vars
  <2> QED
    BY <1>2, <2>1 DEF GateOK, Shaped
<1>8. CASE Resume
  <2>1. /\ UNCHANGED <<tree, height, kept, segments, phase, outcome>> /\ phase = "idle"
        /\ gate' = (IF parallel' /\ ~IndexReady(gate, height) THEN Indexed(Serial, height) ELSE gate)
    BY <1>8 DEF Resume, vars
  <2>2. Shaped /\ Indexes(gate, Pairs) /\ Pairs # {}
    BY <1>2, <2>1 DEF GateOK
  <2>3. Pairs' = Pairs /\ Shaped'
    BY <2>1, <2>2 DEF Pairs, Shaped
  <2>4. Indexes(gate', Pairs) /\ (parallel' => IndexReady(gate', height))
    BY <2>1, <2>2, IndexedIs
  <2>5. outcome # "running"
    BY <1>2, <2>1 DEF GateOK
  <2> QED
    BY <2>1, <2>2, <2>3, <2>4, <2>5 DEF GateOK
<1>9. ASSUME NEW w \in Worker, WalkRange(w) PROVE GateOK'
  <2>1. /\ UNCHANGED <<tree, height, gate, parallel, kept, phase, taskCount, outcome>>
        /\ pc[w] = "run" /\ ran' = ran \cup {task[w]}
        /\ segments' = [segments EXCEPT ![task[w] + 1] = Emitted(task[w], RangeLength(task[w]))]
    BY <1>9 DEF WalkRange, Complete, Step
  <2>2. \A v \in Worker : pc[v] = "barrier" => pc[v] # "run"
    OBVIOUS
  <2>3. phase = "walk"
    <3>1. outcome = "running"
      BY <1>2, <2>1, <2>2 DEF IInv, Accounted
    <3> QED
      BY <1>2, <3>1 DEF GateOK
  <2>4. Walked /\ Shaped
    BY <1>2, <2>3 DEF GateOK
  <2>5. task[w] \in 0 .. (taskCount - 1) /\ task[w] \notin ran
        /\ ran \in SUBSET (0 .. (taskCount - 1)) /\ taskCount \in Nat
    BY <1>2, <2>1 DEF Owned, Busy, IInv, TypeOK, Accounted, Task
  <2>6. \A k \in ran' : segments'[k + 1] = Emitted(k, RangeLength(k))
    <3> SUFFICES ASSUME NEW k \in ran' PROVE segments'[k + 1] = Emitted(k, RangeLength(k))
      OBVIOUS
    <3>1. task[w] + 1 \in DOMAIN segments
      BY <2>4, <2>5 DEF Walked
    <3>2. CASE k = task[w]
      BY <2>1, <3>1, <3>2
    <3>3. CASE k # task[w]
      <4>1. k \in ran /\ k + 1 # task[w] + 1 /\ k + 1 \in DOMAIN segments
        BY <2>1, <2>4, <2>5, <3>3 DEF Walked
      <4> QED
        BY <2>1, <2>4, <4>1 DEF Walked
    <3> QED
      BY <3>2, <3>3
  <2>7. DOMAIN segments' = DOMAIN segments /\ Len(segments') = Len(segments)
    <3>1. DOMAIN segments' = DOMAIN segments
      BY <2>1
    <3>2. DOMAIN segments = 1 .. Len(gate.starts) /\ Len(gate.starts) \in Nat
      BY <2>4, <2>5 DEF Walked
    <3>3. segments' = [i \in 1 .. Len(gate.starts) |-> segments'[i]]
      BY <2>1, <3>1, <3>2
    <3>4. Len(segments') = Len(gate.starts)
      BY <3>1, <3>2, <3>3
    <3> QED
      BY <2>4, <3>1, <3>4 DEF Walked
  <2>8. \A k \in ran' : segments'[k + 1] = Emitted(k, RangeLength(k))'
    BY <2>1, <2>6, SameRange
  <2>9. Walked'
    BY <2>1, <2>4, <2>7, <2>8, SameGate DEF Walked
  <2> QED
    BY <2>1, <2>3, <2>4, <2>9, SameGate DEF GateOK
<1>10. ASSUME NEW w \in Worker, AbandonRange(w) PROVE GateOK'
  <2>1. /\ UNCHANGED <<tree, height, gate, parallel, kept, phase, taskCount, outcome, ran>>
        /\ pc[w] = "run" /\ \E e : segments' = [segments EXCEPT ![task[w] + 1] = e]
    BY <1>10 DEF AbandonRange, Throw, Step
  <2>2. phase = "walk"
    <3>1. outcome = "running"
      BY <1>2, <2>1 DEF IInv, Accounted
    <3> QED
      BY <1>2, <3>1 DEF GateOK
  <2>3. Walked /\ Shaped
    BY <1>2, <2>2 DEF GateOK
  <2>4. task[w] \in 0 .. (taskCount - 1) /\ task[w] \notin ran
        /\ ran \in SUBSET (0 .. (taskCount - 1)) /\ taskCount \in Nat
    BY <1>2, <2>1 DEF Owned, Busy, IInv, TypeOK, Accounted, Task
  <2>5. PICK e : segments' = [segments EXCEPT ![task[w] + 1] = e]
    BY <2>1
  <2>6. \A k \in ran' : segments'[k + 1] = Emitted(k, RangeLength(k))
    <3> SUFFICES ASSUME NEW k \in ran' PROVE segments'[k + 1] = Emitted(k, RangeLength(k))
      OBVIOUS
    <3>1. k \in ran /\ k + 1 # task[w] + 1 /\ k + 1 \in DOMAIN segments
      BY <2>1, <2>3, <2>4 DEF Walked
    <3> QED
      BY <2>3, <2>5, <3>1 DEF Walked
  <2>7. DOMAIN segments' = DOMAIN segments /\ Len(segments') = Len(segments)
    <3>1. DOMAIN segments' = DOMAIN segments
      BY <2>5
    <3>2. DOMAIN segments = 1 .. Len(gate.starts) /\ Len(gate.starts) \in Nat
      BY <2>3, <2>4 DEF Walked
    <3>3. segments' = [i \in 1 .. Len(gate.starts) |-> segments'[i]]
      BY <2>5, <3>1, <3>2
    <3>4. Len(segments') = Len(gate.starts)
      BY <3>1, <3>2, <3>3
    <3> QED
      BY <2>3, <3>1, <3>4 DEF Walked
  <2>8. \A k \in ran' : segments'[k + 1] = Emitted(k, RangeLength(k))'
    BY <2>1, <2>6, SameRange
  <2>9. Walked'
    BY <2>1, <2>3, <2>7, <2>8, SameGate DEF Walked
  <2> QED
    BY <2>1, <2>2, <2>3, <2>9, SameGate DEF GateOK
<1>11. CASE UNCHANGED <<vars, gateVars>>
  <2>1. UNCHANGED <<tree, height, gate, parallel, kept, segments, phase, taskCount, ran, outcome>>
    BY <1>11 DEF vars
  <2> QED
    BY <1>2, <2>1, SameGate, SameRange DEF GateOK, Walked
<1> QED
  BY <1>3, <1>4, <1>5, <1>6, <1>7, <1>8, <1>9, <1>10, <1>11 DEF GatesNext

\* Every reachable state of the gates satisfies their inductive invariant.
THEOREM GateInvariance == GatesSpec => []GateInv
BY GateInitInv, GateStepInv, PTL DEF GatesSpec

\* The walks of the gates use the executor as it promises to be used.
THEOREM GatesImplement == GatesSpec => Spec
<1>1. GatesInit => Init
  BY DEF GatesInit
<1> QED
  BY <1>1, GatesSteps, GateInvariance, PTL DEF GatesSpec, Spec

\* No row is merged from the segments of a walk with ranges left out.
THEOREM GatesReturnComplete == GatesSpec => []ReturnComplete
BY GatesImplement, ReturnCorrect, PTL

\* However rows are swept and whoever resumes, the gate counts the pairs of the serial
\* walk, and the walks of its ranges, restarted from the indexed paths, are that walk.
THEOREM RangesCorrect == GatesSpec => []RangesDivide
<1>1. GateInv => RangesDivide
  <2> SUFFICES ASSUME GateInv PROVE RangesDivide
    OBVIOUS
  <2>1. Shaped /\ phase # "logic_error"
    BY DEF GateInv, GateOK
  <2>2. CASE phase = "idle"
    <3>1. Indexes(gate, Pairs) /\ (parallel => IndexReady(gate, height))
      BY <2>2 DEF GateInv, GateOK
    <3>2. gate.count = Len(Serial)
      BY <2>1, <3>1, SerialIs DEF Indexes
    <3>3. ASSUME IndexReady(gate, height)
          PROVE  Serial = FlattenSeq([k \in 1 .. Len(gate.starts) |-> Visited(k - 1)])
      BY <2>1, <3>1, <3>3, ReadyStarts, FlattenIs
    <3> QED
      BY <2>1, <3>1, <3>2, <3>3 DEF RangesDivide
  <2> QED
    BY <2>1, <2>2 DEF RangesDivide
<1> QED
  BY <1>1, GateInvariance, PTL
=============================================================================
