-------------------------- MODULE SliceTreeProofs --------------------------
(***************************************************************************)
(* For every tree that from_checkpoint accepts, and every size of words,   *)
(* blocks and tasks: reification, in place or shared out among workers,    *)
(* keeps exactly the lineages of the kept leaves, in order; the planner    *)
(* finds the shallowest boundaries, and its parts divide the leaves.       *)
(*                                                                         *)
(* Ranks in sets of numbers, counting of child bits and ways from the root *)
(* come first; then compaction as a relation of two trees; then what each  *)
(* phase of a reification keeps, one lemma for each action; then the       *)
(* planner's descent.                                                      *)
(***************************************************************************)
EXTENDS Reify, PartitionPlan, FiniteSetTheorems, SequenceTheorems, WellFoundedInduction, TLAPS

-----------------------------------------------------------------------------
\* Numbers: induction, and the rank of a number in a set.
LEMMA Least ==
  ASSUME NEW T \in SUBSET Nat, T # {}
  PROVE  \E n \in T : \A m \in T : n <= m
<1>1. PICK n \in T : \A m \in T : ~ (<<m, n>> \in OpToRel(<, Nat))
  BY NatLessThanWellFounded, WFMin
<1>2. \A m \in T : ~ (m < n)
  BY <1>1 DEF OpToRel
<1> QED
  BY <1>2

\* Every set of numbers that contains 0 and with each number the next is Nat: induction.
LEMMA AllNumbers ==
  ASSUME NEW G \in SUBSET Nat, 0 \in G, \A n \in G : n + 1 \in G
  PROVE  G = Nat
<1>1. SUFFICES ASSUME Nat \ G # {} PROVE FALSE
  OBVIOUS
<1>2. PICK m \in Nat \ G : \A k \in Nat \ G : m <= k
  BY <1>1, Least
<1>3. m - 1 \in Nat /\ m - 1 \in G
  BY <1>2
<1> QED
  BY <1>2, <1>3

Below(S, n) == {m \in S : m < n}
Rank(S, n) == Cardinality(Below(S, n))

LEMMA RankType ==
  ASSUME NEW S \in SUBSET Nat, NEW n \in Nat
  PROVE  IsFiniteSet(Below(S, n)) /\ Rank(S, n) \in Nat
<1>1. Below(S, n) \in SUBSET Nat
  BY DEF Below
<1>2. \A m \in S : m < n => m <= n
  OBVIOUS
<1>3. \A m \in Below(S, n) : m <= n
  BY <1>2 DEF Below
<1>4. IsFiniteSet(Below(S, n))
  BY <1>1, <1>3, FS_BoundedSetOfNaturals
<1> QED
  BY <1>4, FS_CardinalityType DEF Rank

\* Nothing is below zero.
LEMMA RankZero ==
  ASSUME NEW S \in SUBSET Nat
  PROVE  Rank(S, 0) = 0
<1>1. \A m \in S : ~ (m < 0)
  OBVIOUS
<1>2. Below(S, 0) = {}
  BY <1>1 DEF Below
<1> QED
  BY <1>2, FS_EmptySet DEF Rank

\* Passing a number adds it to the rank when it is in the set.
LEMMA RankStep ==
  ASSUME NEW S \in SUBSET Nat, NEW n \in Nat
  PROVE  Rank(S, n + 1) = IF n \in S THEN Rank(S, n) + 1 ELSE Rank(S, n)
<1>1. IsFiniteSet(Below(S, n)) /\ n \notin Below(S, n)
  BY RankType DEF Below
<1>0. \A m \in S : m < n + 1 <=> m < n \/ m = n
  OBVIOUS
<1>2. CASE n \in S
  <2>1. Below(S, n + 1) = Below(S, n) \cup {n}
    BY <1>0, <1>2 DEF Below
  <2>2. Cardinality(Below(S, n) \cup {n}) = Cardinality(Below(S, n)) + 1
    BY <1>1, FS_AddElement
  <2> QED
    BY <1>2, <2>1, <2>2 DEF Rank
<1>3. CASE n \notin S
  <2>1. Below(S, n + 1) = Below(S, n)
    BY <1>0, <1>3 DEF Below
  <2> QED
    BY <1>3, <2>1 DEF Rank
<1> QED
  BY <1>2, <1>3

\* Ranks increase with the number, strictly past a member.
LEMMA RankOrder ==
  ASSUME NEW S \in SUBSET Nat, NEW m \in Nat, NEW n \in Nat, m <= n
  PROVE  /\ Rank(S, m) \in Nat /\ Rank(S, n) \in Nat /\ Rank(S, m) <= Rank(S, n)
         /\ m \in S /\ m < n => Rank(S, m) < Rank(S, n)
<1>1. IsFiniteSet(Below(S, n)) /\ Rank(S, m) \in Nat /\ Rank(S, n) \in Nat
  BY RankType
<1>0. \A j \in S : j < m => j < n
  OBVIOUS
<1>2. Below(S, m) \in SUBSET Below(S, n)
  BY <1>0 DEF Below
<1>3. Rank(S, m) <= Rank(S, n) /\ (Rank(S, n) = Rank(S, m) => Below(S, n) = Below(S, m))
  BY <1>1, <1>2, FS_Subset DEF Rank
<1>4. m \in S /\ m < n => Rank(S, n) # Rank(S, m)
  <2>1. m \in S /\ m < n => m \in Below(S, n) /\ m \notin Below(S, m)
    BY DEF Below
  <2> QED
    BY <1>3, <2>1
<1> QED
  BY <1>1, <1>3, <1>4

\* Members have different ranks.
LEMMA RankInjective ==
  ASSUME NEW S \in SUBSET Nat, NEW m \in S, NEW n \in S, Rank(S, m) = Rank(S, n)
  PROVE  m = n
<1>1. m \in Nat /\ n \in Nat
  OBVIOUS
<1>2. CASE m < n
  BY <1>1, <1>2, RankOrder
<1>3. CASE n < m
  BY <1>1, <1>3, RankOrder
<1> QED
  BY <1>1, <1>2, <1>3

\* Beyond its members, the rank is the size of the set.
LEMMA RankWhole ==
  ASSUME NEW S \in SUBSET Nat, NEW n \in Nat, \A m \in S : m < n
  PROVE  IsFiniteSet(S) /\ Rank(S, n) = Cardinality(S)
<1>1. Below(S, n) = S
  BY DEF Below
<1> QED
  BY <1>1, RankType DEF Rank

\* Every rank up to that of n is taken by an element below n.
LEMMA RankOnto ==
  ASSUME NEW S \in SUBSET Nat, NEW n \in Nat, NEW k \in Nat, k < Rank(S, n)
  PROVE  \E m \in S : m < n /\ Rank(S, m) = k
<1> DEFINE T == {j \in Nat : k < Rank(S, j)}
<1>1. T \in SUBSET Nat /\ n \in T
  OBVIOUS
<1>2. PICK j \in T : \A i \in T : j <= i
  BY <1>1, Least
<1>3. j \in Nat /\ k < Rank(S, j) /\ j <= n
  BY <1>1, <1>2
<1>4. j # 0
  <2>1. Rank(S, 0) = 0
    BY RankZero
  <2> QED
    BY <1>3, <2>1
<1> DEFINE m == j - 1
<1>5. m \in Nat /\ j = m + 1 /\ m < n
  BY <1>3, <1>4
<1>6. ~ (k < Rank(S, m))
  BY <1>2, <1>5
<1>7. Rank(S, m) \in Nat
  BY <1>5, RankType
<1>8. Rank(S, j) = IF m \in S THEN Rank(S, m) + 1 ELSE Rank(S, m)
  BY <1>5, RankStep
<1> HIDE DEF m, T
<1>9. m \in S /\ Rank(S, m) = k
  BY <1>3, <1>6, <1>7, <1>8
<1> QED
  BY <1>5, <1>9

\* A finite set of numbers has a bound.
LEMMA FiniteBounded ==
  ASSUME NEW S \in SUBSET Nat, IsFiniteSet(S)
  PROVE  \E n \in Nat : \A m \in S : m < n
<1> DEFINE Bounded(T) == \E n \in Nat : \A m \in T : m < n
           G == {k \in Nat : \A T \in SUBSET Nat : IsFiniteSet(T) /\ Cardinality(T) = k => Bounded(T)}
<1>1. 0 \in G
  BY FS_EmptySet
<1>2. ASSUME NEW k \in G PROVE k + 1 \in G
  <2>1. k \in Nat /\ \A T \in SUBSET Nat : IsFiniteSet(T) /\ Cardinality(T) = k => Bounded(T)
    OBVIOUS
  <2>2. ASSUME NEW T \in SUBSET Nat, IsFiniteSet(T), Cardinality(T) = k + 1
        PROVE  Bounded(T)
    <3>1. T # {}
      BY <2>1, <2>2, FS_EmptySet
    <3>2. PICK x \in T : TRUE
      BY <3>1
    <3>3. IsFiniteSet(T \ {x}) /\ Cardinality(T \ {x}) = Cardinality(T) - 1
      BY <2>2, <3>2, FS_RemoveElement
    <3>4. Cardinality(T \ {x}) = k
      BY <2>1, <2>2, <3>3
    <3>5. Bounded(T \ {x})
      BY <2>1, <3>3, <3>4
    <3>6. PICK n \in Nat : \A m \in T \ {x} : m < n
      BY <3>5
    <3>7. x \in Nat /\ \A m \in T : m \in Nat
      BY <3>2
    <3>8. \A m \in T : m < n + x + 1
      BY <3>6, <3>7
    <3>9. n + x + 1 \in Nat
      BY <3>7
    <3> QED
      BY <3>8, <3>9
  <2>3. \A T \in SUBSET Nat : IsFiniteSet(T) /\ Cardinality(T) = k + 1 => Bounded(T)
    <3> HIDE DEF Bounded
    <3> QED
      BY <2>2
  <2> HIDE DEF Bounded
  <2> QED
    BY <2>1, <2>3
<1>3. G = Nat
  <2>1. G \in SUBSET Nat
    OBVIOUS
  <2> HIDE DEF G
  <2> QED
    BY <1>1, <1>2, <2>1, AllNumbers
<1>4. Cardinality(S) \in Nat
  BY FS_CardinalityType
<1> QED
  BY <1>3, <1>4

\* The sequence of a set's numbers from the lowest on.
LEMMA AscendingLists ==
  ASSUME NEW S \in SUBSET Nat, IsFiniteSet(S)
  PROVE  /\ Cardinality(S) \in Nat
         /\ Ascending(S) \in [1 .. Cardinality(S) -> S]
         /\ Len(Ascending(S)) = Cardinality(S)
         /\ \A i \in 1 .. Cardinality(S) : Rank(S, Ascending(S)[i]) = i - 1
<1> DEFINE c == Cardinality(S)
<1>1. c \in Nat
  BY FS_CardinalityType
<1>2. \A i \in 1 .. c : \E m \in S : Rank(S, m) = i - 1
  <2> SUFFICES ASSUME NEW i \in 1 .. c PROVE \E m \in S : Rank(S, m) = i - 1
    OBVIOUS
  <2>2. PICK n \in Nat : \A m \in S : m < n
    BY FiniteBounded
  <2>3. Rank(S, n) = c
    BY <2>2, RankWhole
  <2>4. i - 1 \in Nat /\ i - 1 < c
    BY <1>1
  <2> HIDE DEF c
  <2> QED
    BY <2>3, <2>4, RankOnto
<1>3. Ascending(S) = [i \in 1 .. c |-> CHOOSE m \in S : Rank(S, m) = i - 1]
  BY DEF Ascending, Rank, Below
<1>4. \A i \in 1 .. c : Ascending(S)[i] \in S /\ Rank(S, Ascending(S)[i]) = i - 1
  <2> HIDE DEF c
  <2> QED
    BY <1>2, <1>3
<1>5. Ascending(S) \in [1 .. c -> S]
  <2> HIDE DEF c
  <2> QED
    BY <1>3, <1>4
<1>6. Len(Ascending(S)) = c
  <2> HIDE DEF c
  <2> QED
    BY <1>1, <1>5
<1> QED
  BY <1>1, <1>4, <1>5, <1>6

-----------------------------------------------------------------------------
\* Child bits: their number in a set of nodes, and before a node.
Links(t, X) == {bit \in X \X Label : bit[2] \in t.mask[bit[1]]}

Before(t, n) == Bits(t, 0 .. (n - 1))

\* Finitely many nodes have finitely many child bits.
LEMMA BitsType ==
  ASSUME NEW t, NEW X, IsFiniteSet(X)
  PROVE  IsFiniteSet(Links(t, X)) /\ Bits(t, X) \in Nat
<1>1. IsFiniteSet(X \X Label)
  BY TreeAssumption, FS_Product
<1>2. Links(t, X) \in SUBSET (X \X Label)
  BY DEF Links
<1>3. IsFiniteSet(Links(t, X))
  BY <1>1, <1>2, FS_Subset
<1>4. Bits(t, X) = Cardinality(Links(t, X))
  BY DEF Bits, Links
<1> QED
  BY <1>3, <1>4, FS_CardinalityType

\* Child bits of disjoint sets of nodes add up.
LEMMA BitsUnion ==
  ASSUME NEW t, NEW X, NEW Y, IsFiniteSet(X), IsFiniteSet(Y), X \cap Y = {}
  PROVE  Bits(t, X \cup Y) = Bits(t, X) + Bits(t, Y)
<1>1. Links(t, X \cup Y) = Links(t, X) \cup Links(t, Y)
  BY DEF Links
<1>2. Links(t, X) \cap Links(t, Y) = {}
  BY DEF Links
<1>3. IsFiniteSet(Links(t, X)) /\ IsFiniteSet(Links(t, Y)) /\ Bits(t, X) \in Nat /\ Bits(t, Y) \in Nat
  BY BitsType
<1>4. Cardinality(Links(t, X) \cup Links(t, Y))
        = Cardinality(Links(t, X)) + Cardinality(Links(t, Y)) - Cardinality(Links(t, X) \cap Links(t, Y))
  BY <1>3, FS_Union
<1>5. Cardinality(Links(t, X) \cap Links(t, Y)) = 0
  BY <1>2, FS_EmptySet
<1>6. Bits(t, X) = Cardinality(Links(t, X)) /\ Bits(t, Y) = Cardinality(Links(t, Y))
      /\ Bits(t, X \cup Y) = Cardinality(Links(t, X \cup Y))
  BY DEF Bits, Links
<1> DEFINE x == Cardinality(Links(t, X))
           y == Cardinality(Links(t, Y))
<1>7. Cardinality(Links(t, X \cup Y)) = x + (y - 0)
  BY <1>1, <1>4, <1>5
<1>8. x \in Nat /\ y \in Nat
  BY <1>3, <1>6
<1> HIDE DEF x, y
<1>9. Cardinality(Links(t, X \cup Y)) = x + y
  BY <1>7, <1>8
<1> QED
  BY <1>6, <1>9 DEF x, y

\* A node has as many child bits as labels.
LEMMA BitsOne ==
  ASSUME NEW t, NEW n, t.mask[n] \subseteq Label
  PROVE  /\ IsFiniteSet(t.mask[n]) /\ Cardinality(t.mask[n]) \in Nat
         /\ Bits(t, {n}) = Cardinality(t.mask[n])
<1> DEFINE mask == t.mask[n]
           link == [l \in mask |-> <<n, l>>]
<1>1. mask \in SUBSET Label
  OBVIOUS
<1>2. IsFiniteSet(mask) /\ Cardinality(mask) \in Nat
  BY <1>1, TreeAssumption, FS_Subset, FS_CardinalityType
<1>3. Links(t, {n}) = {<<n, l>> : l \in mask}
  BY <1>1 DEF Links
<1>4. link \in Bijection(mask, Links(t, {n}))
  <2>1. link \in [mask -> Links(t, {n})]
    BY <1>3
  <2>2. \A k, l \in mask : link[k] = link[l] => k = l
    OBVIOUS
  <2>3. \A b \in Links(t, {n}) : \E l \in mask : link[l] = b
    BY <1>3
  <2> HIDE DEF link, mask
  <2> QED
    BY <2>1, <2>2, <2>3 DEF Bijection, Injection, Surjection, IsInjective
<1>5. Cardinality(Links(t, {n})) = Cardinality(mask)
  <2> HIDE DEF link, mask
  <2>1. ExistsBijection(mask, Links(t, {n}))
    BY <1>4 DEF ExistsBijection
  <2> QED
    BY <1>2, <2>1, FS_Bijection
<1>6. Bits(t, {n}) = Cardinality(Links(t, {n}))
  BY DEF Bits, Links
<1> QED
  BY <1>2, <1>5, <1>6

LEMMA BitsNone ==
  ASSUME NEW t
  PROVE  Bits(t, {}) = 0
<1>1. Links(t, {}) = {}
  BY DEF Links
<1>2. Bits(t, {}) = Cardinality(Links(t, {}))
  BY DEF Bits, Links
<1> QED
  BY <1>1, <1>2, FS_EmptySet

\* The child bits before a node, cut at an earlier one.
LEMMA BeforeSplit ==
  ASSUME NEW t, NEW m \in Nat, NEW n \in Nat, m <= n
  PROVE  /\ Before(t, m) \in Nat /\ Before(t, n) \in Nat /\ Bits(t, m .. (n - 1)) \in Nat
         /\ Before(t, n) = Before(t, m) + Bits(t, m .. (n - 1))
<1>1. IsFiniteSet(0 .. (m - 1)) /\ IsFiniteSet(m .. (n - 1)) /\ IsFiniteSet(0 .. (n - 1))
  BY FS_Interval
<1>2. 0 .. (n - 1) = (0 .. (m - 1)) \cup (m .. (n - 1)) /\ (0 .. (m - 1)) \cap (m .. (n - 1)) = {}
  OBVIOUS
<1>3. Bits(t, 0 .. (n - 1)) = Bits(t, 0 .. (m - 1)) + Bits(t, m .. (n - 1))
  BY <1>1, <1>2, BitsUnion
<1> QED
  BY <1>1, <1>3, BitsType DEF Before

LEMMA BeforeZero ==
  ASSUME NEW t
  PROVE  Before(t, 0) = 0
<1>1. 0 .. (0 - 1) = {}
  OBVIOUS
<1> QED
  BY <1>1, BitsNone DEF Before

\* Passing a node adds its child bits.
LEMMA BeforeStep ==
  ASSUME NEW t, NEW n \in Nat, t.mask[n] \subseteq Label
  PROVE  /\ IsFiniteSet(t.mask[n]) /\ Cardinality(t.mask[n]) \in Nat
         /\ Before(t, n) \in Nat
         /\ Before(t, n + 1) = Before(t, n) + Cardinality(t.mask[n])
<1>1. n .. ((n + 1) - 1) = {n}
  OBVIOUS
<1>2. Before(t, n + 1) = Before(t, n) + Bits(t, n .. ((n + 1) - 1)) /\ Before(t, n) \in Nat
  BY BeforeSplit
<1> QED
  BY <1>1, <1>2, BitsOne

-----------------------------------------------------------------------------
\* What a well-formed tree is.
EndNode(t) == t.level[Deep(t) + 1]

\* No level begins before an earlier one.
LEMMA LevelsOrdered ==
  ASSUME NEW t, WellFormed(t), NEW d \in 0 .. (Deep(t) + 1), NEW e \in 0 .. (Deep(t) + 1), d <= e
  PROVE  t.level[d] \in Nat /\ t.level[e] \in Nat /\ t.level[d] <= t.level[e]
<1> DEFINE h == Deep(t)
           G == {k \in Nat : d + k <= h + 1 => t.level[d] <= t.level[d + k]}
<1>1. h \in Nat /\ t.level \in [0 .. (h + 1) -> Nat] /\ \A c \in 0 .. h : t.level[c] <= t.level[c + 1]
  BY DEF WellFormed
<1> HIDE DEF h
<1>2. d \in 0 .. (h + 1) /\ e \in 0 .. (h + 1)
  BY DEF h
<1>3. 0 \in G
  BY <1>1, <1>2
<1>4. ASSUME NEW k \in G PROVE k + 1 \in G
  <2>1. k \in Nat /\ (d + k <= h + 1 => t.level[d] <= t.level[d + k])
    OBVIOUS
  <2>2. CASE d + (k + 1) <= h + 1
    <3>1. d + k \in 0 .. h /\ (d + k) + 1 = d + (k + 1)
      BY <1>1, <1>2, <2>1, <2>2
    <3>2. t.level[d + k] <= t.level[d + (k + 1)] /\ t.level[d] <= t.level[d + k]
      BY <1>1, <2>1, <3>1
    <3>3. t.level[d] \in Nat /\ t.level[d + k] \in Nat /\ t.level[d + (k + 1)] \in Nat
      <4>1. d \in 0 .. (h + 1) /\ d + k \in 0 .. (h + 1) /\ d + (k + 1) \in 0 .. (h + 1)
        BY <1>1, <1>2, <2>1, <2>2
      <4> QED
        BY <1>1, <4>1
    <3> QED
      BY <2>1, <3>2, <3>3
  <2> QED
    BY <2>1, <2>2
<1>5. G = Nat
  <2>1. G \in SUBSET Nat
    OBVIOUS
  <2> HIDE DEF G
  <2> QED
    BY <1>3, <1>4, <2>1, AllNumbers
<1>6. e - d \in Nat /\ d + (e - d) = e /\ e <= h + 1
  BY <1>1, <1>2
<1>7. e - d \in G
  BY <1>5, <1>6
<1> QED
  BY <1>1, <1>2, <1>6, <1>7

\* The levels lie where the child bits before them say.
LEMMA LevelBefore ==
  ASSUME NEW t, WellFormed(t), NEW d \in 0 .. Deep(t)
  PROVE  t.level[d + 1] = Before(t, t.level[d]) + 1
<1> DEFINE h == Deep(t)
           G == {k \in Nat : k <= h => t.level[k + 1] = Before(t, t.level[k]) + 1}
<1>1. h \in Nat /\ t.level \in [0 .. (h + 1) -> Nat] /\ t.level[0] = 0 /\ t.level[1] = 1
  BY DEF WellFormed
<1>2. \A c \in 0 .. (h - 1) : Bits(t, t.level[c] .. (t.level[c + 1] - 1)) = t.level[c + 2] - t.level[c + 1]
  BY DEF WellFormed
<1>3. \A c \in 0 .. h : t.level[c] <= t.level[c + 1]
  BY DEF WellFormed
<1>4. d \in 0 .. h
  OBVIOUS
<1> HIDE DEF h
<1>5. 0 \in G
  BY <1>1, BeforeZero
<1>6. ASSUME NEW k \in G PROVE k + 1 \in G
  <2>1. k \in Nat /\ (k <= h => t.level[k + 1] = Before(t, t.level[k]) + 1)
    OBVIOUS
  <2>2. CASE k + 1 <= h
    <3>1. k \in 0 .. h /\ k \in 0 .. (h - 1) /\ (k + 1) + 1 = k + 2
      BY <1>1, <2>1, <2>2
    <3>2. t.level[k] \in Nat /\ t.level[k + 1] \in Nat /\ t.level[k + 2] \in Nat
      BY <1>1, <2>1, <2>2
    <3>3. t.level[k] <= t.level[k + 1]
      BY <1>3, <3>1
    <3>4. /\ Before(t, t.level[k + 1]) = Before(t, t.level[k]) + Bits(t, t.level[k] .. (t.level[k + 1] - 1))
          /\ Before(t, t.level[k]) \in Nat /\ Before(t, t.level[k + 1]) \in Nat
      BY <3>2, <3>3, BeforeSplit
    <3>5. Bits(t, t.level[k] .. (t.level[k + 1] - 1)) = t.level[k + 2] - t.level[k + 1]
      BY <1>2, <3>1
    <3>6. t.level[k + 1] = Before(t, t.level[k]) + 1
      BY <2>1, <3>1
    <3>7. t.level[(k + 1) + 1] = Before(t, t.level[k + 1]) + 1
      BY <3>1, <3>2, <3>4, <3>5, <3>6
    <3> QED
      BY <2>1, <3>7
  <2> QED
    BY <2>1, <2>2
<1>7. G = Nat
  <2>1. G \in SUBSET Nat
    OBVIOUS
  <2> HIDE DEF G
  <2> QED
    BY <1>5, <1>6, <2>1, AllNumbers
<1>9. d \in Nat /\ d <= h
  BY <1>1, <1>4
<1>8. d \in G
  BY <1>7, <1>9
<1> QED
  BY <1>8, <1>9

\* What every well-formed tree has.
LEMMA TreeShape ==
  ASSUME NEW t, WellFormed(t)
  PROVE  /\ Deep(t) \in Nat /\ t.level \in [0 .. (Deep(t) + 1) -> Nat]
         /\ LeafBegin(t) \in Nat /\ EndNode(t) \in Nat /\ LeafBegin(t) <= EndNode(t)
         /\ EndNode(t) = Before(t, LeafBegin(t)) + 1 /\ EndNode(t) > 0
         /\ \A n \in Inner(t) : n \in Nat /\ n < LeafBegin(t) /\ t.mask[n] \subseteq Label
         /\ Leaves(t) = LeafBegin(t) .. (EndNode(t) - 1)
<1>1. Deep(t) \in Nat /\ t.level \in [0 .. (Deep(t) + 1) -> Nat]
  BY DEF WellFormed
<1>2. /\ Deep(t) \in 0 .. Deep(t) /\ Deep(t) \in 0 .. (Deep(t) + 1)
      /\ Deep(t) + 1 \in 0 .. (Deep(t) + 1) /\ Deep(t) <= Deep(t) + 1
  BY <1>1
<1>3. LeafBegin(t) \in Nat /\ EndNode(t) \in Nat /\ LeafBegin(t) <= EndNode(t)
  BY <1>2, LevelsOrdered DEF LeafBegin, EndNode
<1>4. EndNode(t) = Before(t, LeafBegin(t)) + 1
  BY <1>2, LevelBefore DEF LeafBegin, EndNode
<1>5. Before(t, LeafBegin(t)) \in Nat
  BY <1>3, BeforeSplit
<1>6. \A n \in Inner(t) : n \in Nat /\ n < LeafBegin(t)
  BY <1>3 DEF Inner
<1>7. \A n \in Inner(t) : t.mask[n] \subseteq Label
  BY DEF WellFormed
<1>8. Leaves(t) = LeafBegin(t) .. (EndNode(t) - 1)
  BY DEF Leaves, EndNode
<1> QED
  BY <1>1, <1>3, <1>4, <1>5, <1>6, <1>7, <1>8

-----------------------------------------------------------------------------
\* Counting by words finds what counting from the first node on finds.
LEMMA MinTwo ==
  ASSUME NEW a \in Int, NEW b \in Int
  PROVE  Min({a, b}) = IF a <= b THEN a ELSE b
<1>1. CASE a <= b
  <2>1. \A y \in {a, b} : a <= y
    BY <1>1
  <2>2. \A x \in {a, b} : (\A y \in {a, b} : x <= y) => x = a
    BY <1>1
  <2> QED
    BY <1>1, <2>1, <2>2 DEF Min
<1>2. CASE b < a
  <2>1. \A y \in {a, b} : b <= y
    BY <1>2
  <2>2. \A x \in {a, b} : (\A y \in {a, b} : x <= y) => x = b
    BY <1>2
  <2>3. ~ (a <= b)
    BY <1>2
  <2> QED
    BY <2>1, <2>2, <2>3 DEF Min
<1> QED
  BY <1>1, <1>2

LEMMA WordSizes == NodesPerWord \in Nat \ {0} /\ WordsPerChunk \in Nat \ {0}
BY TreeAssumption

\* The quotient and the part of a number below a multiple.
LEMMA Quotient ==
  ASSUME NEW n \in Nat, NEW s \in Nat \ {0}
  PROVE  /\ n \div s \in Nat /\ (n \div s) * s \in Nat
         /\ (n \div s) * s <= n /\ n < (n \div s + 1) * s
<1>1. n \div s \in Nat /\ n % s \in 0 .. (s - 1) /\ n = s * (n \div s) + (n % s)
  OBVIOUS
<1> DEFINE q == n \div s
           r == n % s
<1>2. q \in Nat /\ r \in Nat /\ r < s /\ n = s * q + r
  BY <1>1
<1> HIDE DEF q, r
<1>3. s * q = q * s /\ (q + 1) * s = q * s + s /\ q * s \in Nat
  BY <1>2
<1> QED
  BY <1>2, <1>3 DEF q

LEMMA QuotientOrder ==
  ASSUME NEW m \in Nat, NEW n \in Nat, NEW s \in Nat \ {0}, m <= n
  PROVE  m \div s <= n \div s
<1> DEFINE p == m \div s
           q == n \div s
<1>1. p \in Nat /\ q \in Nat /\ p * s <= m /\ n < (q + 1) * s
  BY Quotient
<1> HIDE DEF p, q
<1>2. ASSUME q < p PROVE FALSE
  <2>1. (q + 1) * s <= p * s
    BY <1>1, <1>2
  <2>2. (q + 1) * s \in Nat /\ p * s \in Nat
    BY <1>1
  <2> QED
    BY <1>1, <2>1, <2>2
<1> QED
  BY <1>1, <1>2 DEF p, q

\* The chunks and words of the rank directory add up to the count before a word.
LEMMA RankDirectoryCounts ==
  ASSUME NEW t, WellFormed(t), NEW w \in 0 .. (LeafBegin(t) \div NodesPerWord)
  PROVE  RankBefore(t, w) = Before(t, Min({LeafBegin(t), w * NodesPerWord}))
<1> DEFINE words == 0 .. (LeafBegin(t) \div NodesPerWord)
           total == [v \in words |-> Bits(t, 0 .. (Min({LeafBegin(t), v * NodesPerWord}) - 1))]
           absolute == [v \in words |-> total[(v \div WordsPerChunk) * WordsPerChunk]]
           relative == [v \in words |-> total[v] - absolute[v]]
<1>1. RankDirectory(t) = [absolute |-> absolute, relative |-> relative]
  BY DEF RankDirectory
<1>2. w \in words
  OBVIOUS
<1>3. (w \div WordsPerChunk) * WordsPerChunk \in words
  <2>1. w \in Nat /\ LeafBegin(t) \div NodesPerWord \in Nat
    BY TreeShape, WordSizes, Quotient
  <2>2. (w \div WordsPerChunk) * WordsPerChunk \in Nat /\ (w \div WordsPerChunk) * WordsPerChunk <= w
    BY <2>1, WordSizes, Quotient
  <2> QED
    BY <2>1, <2>2
<1>4. \A v \in words : total[v] \in Nat
  <2> SUFFICES ASSUME NEW v \in words PROVE total[v] \in Nat
    OBVIOUS
  <2>1. v \in Nat /\ LeafBegin(t) \in Nat /\ v * NodesPerWord \in Nat
    BY TreeShape, WordSizes
  <2>2. Min({LeafBegin(t), v * NodesPerWord}) \in Nat
    BY <2>1, MinTwo
  <2>3. IsFiniteSet(0 .. (Min({LeafBegin(t), v * NodesPerWord}) - 1))
    BY <2>2, FS_Interval
  <2>4. total[v] = Bits(t, 0 .. (Min({LeafBegin(t), v * NodesPerWord}) - 1))
    OBVIOUS
  <2> QED
    BY <2>3, <2>4, BitsType
<1>5. absolute[w] = total[(w \div WordsPerChunk) * WordsPerChunk] /\ relative[w] = total[w] - absolute[w]
  BY <1>2
<1>6. absolute[w] \in Nat /\ total[w] \in Nat
  BY <1>2, <1>3, <1>4, <1>5
<1>7. total[w] = Before(t, Min({LeafBegin(t), w * NodesPerWord}))
  BY <1>2 DEF Before
<1>8. RankBefore(t, w) = absolute[w] + relative[w]
  <2> HIDE DEF absolute, relative
  <2> QED
    BY <1>1 DEF RankBefore
<1> HIDE DEF absolute, relative, total
<1> QED
  BY <1>5, <1>6, <1>7, <1>8

\* The first node of a word whose nodes are not all leaves.
LEMMA RankOfWord ==
  ASSUME NEW t, WellFormed(t), NEW w \in Nat, w * NodesPerWord <= LeafBegin(t)
  PROVE  RankBefore(t, w) = Before(t, w * NodesPerWord) /\ w \in 0 .. (LeafBegin(t) \div NodesPerWord)
<1>1. NodesPerWord \in Nat \ {0} /\ LeafBegin(t) \in Nat /\ w * NodesPerWord \in Nat
  BY TreeShape, WordSizes
<1>2. w <= LeafBegin(t) \div NodesPerWord
  <2> DEFINE q == LeafBegin(t) \div NodesPerWord
  <2>1. q \in Nat /\ LeafBegin(t) < (q + 1) * NodesPerWord
    BY <1>1, Quotient
  <2> HIDE DEF q
  <2>2. ASSUME q < w PROVE FALSE
    <3>1. (q + 1) * NodesPerWord <= w * NodesPerWord
      BY <1>1, <2>1, <2>2
    <3>2. (q + 1) * NodesPerWord \in Nat
      BY <1>1, <2>1
    <3> QED
      BY <1>1, <2>1, <3>1, <3>2
  <2> QED
    BY <2>1, <2>2 DEF q
<1>3. w \in 0 .. (LeafBegin(t) \div NodesPerWord)
  BY <1>1, <1>2, Quotient
<1>4. Min({LeafBegin(t), w * NodesPerWord}) = w * NodesPerWord
  BY <1>1, MinTwo
<1> QED
  BY <1>3, <1>4, RankDirectoryCounts

\* child_block finds the child behind all child bits before the node.
LEMMA FirstChildIs ==
  ASSUME NEW t, WellFormed(t), NEW n \in 0 .. LeafBegin(t)
  PROVE  FirstChild(t, n) = Before(t, n) + 1 /\ Before(t, n) \in Nat
<1> DEFINE w == n \div NodesPerWord
           f == w * NodesPerWord
<1>1. n \in Nat /\ LeafBegin(t) \in Nat /\ n <= LeafBegin(t)
  BY TreeShape
<1>2. w \in Nat /\ f \in Nat /\ f <= n
  BY <1>1, Quotient, WordSizes
<1>3. FirstChild(t, n) = RankBefore(t, w) + Bits(t, f .. (n - 1)) + 1
  BY DEF FirstChild
<1> HIDE DEF w
<1>4. RankBefore(t, w) = Before(t, f)
  BY <1>1, <1>2, RankOfWord
<1> HIDE DEF f
<1>5. /\ Before(t, f) \in Nat /\ Before(t, n) \in Nat /\ Bits(t, f .. (n - 1)) \in Nat
      /\ Before(t, n) = Before(t, f) + Bits(t, f .. (n - 1))
  BY <1>1, <1>2, BeforeSplit
<1> QED
  BY <1>3, <1>4, <1>5

-----------------------------------------------------------------------------
\* The children of the inner nodes are all nodes but the root, each of one of them.
LEMMA Masks ==
  ASSUME NEW t, WellFormed(t), NEW n \in Inner(t)
  PROVE  /\ n \in Nat /\ n \in 0 .. LeafBegin(t) /\ n + 1 \in 0 .. LeafBegin(t)
         /\ t.mask[n] \in SUBSET Nat /\ IsFiniteSet(t.mask[n]) /\ Cardinality(t.mask[n]) \in Nat
         /\ Before(t, n) \in Nat /\ Before(t, n + 1) = Before(t, n) + Cardinality(t.mask[n])
<1>1. n \in Nat /\ n < LeafBegin(t) /\ LeafBegin(t) \in Nat /\ t.mask[n] \subseteq Label
  BY TreeShape
<1>2. t.mask[n] \in SUBSET Nat
  BY <1>1, TreeAssumption
<1> QED
  BY <1>1, <1>2, BeforeStep

\* A label has a place among the labels of its node.
LEMMA LabelRank ==
  ASSUME NEW S \in SUBSET Nat, IsFiniteSet(S), NEW l \in S
  PROVE  Rank(S, l) \in Nat /\ Rank(S, l) < Cardinality(S) /\ Cardinality(S) \in Nat
<1>1. PICK b \in Nat : \A m \in S : m < b
  BY FiniteBounded
<1>2. Rank(S, b) = Cardinality(S)
  BY <1>1, RankWhole
<1>3. l \in Nat /\ l < b
  BY <1>1
<1>4. Rank(S, l) \in Nat /\ Rank(S, b) \in Nat /\ Rank(S, l) < Rank(S, b)
  BY <1>3, RankOrder
<1> QED
  BY <1>2, <1>4

\* A child comes behind the children before it.
LEMMA ChildIs ==
  ASSUME NEW t, WellFormed(t), NEW n \in Inner(t), NEW l \in Nat
  PROVE  /\ Child(t, n, l) = Before(t, n) + 1 + Rank(t.mask[n], l)
         /\ Child(t, n, l) \in Nat /\ Rank(t.mask[n], l) \in Nat
<1>1. FirstChild(t, n) = Before(t, n) + 1 /\ Before(t, n) \in Nat
  BY Masks, FirstChildIs
<1>2. Rank(t.mask[n], l) \in Nat
  BY Masks, RankType
<1>3. Child(t, n, l) = FirstChild(t, n) + Rank(t.mask[n], l)
  BY DEF Child, Rank, Below
<1> QED
  BY <1>1, <1>2, <1>3

\* The children of a node are those between the bits before it and before the next one.
LEMMA ChildRange ==
  ASSUME NEW t, WellFormed(t), NEW n \in Inner(t), NEW l \in t.mask[n]
  PROVE  /\ l \in Nat /\ Child(t, n, l) \in Nat
         /\ Before(t, n) < Child(t, n, l) /\ Child(t, n, l) <= Before(t, n + 1)
         /\ Child(t, n, l) = Before(t, n) + 1 + Rank(t.mask[n], l)
<1>1. l \in Nat
  BY Masks
<1>2. /\ Child(t, n, l) = Before(t, n) + 1 + Rank(t.mask[n], l)
      /\ Child(t, n, l) \in Nat /\ Rank(t.mask[n], l) \in Nat
  BY <1>1, ChildIs
<1>3. Rank(t.mask[n], l) < Cardinality(t.mask[n]) /\ Cardinality(t.mask[n]) \in Nat
  BY Masks, LabelRank
<1>4. Before(t, n) \in Nat /\ Before(t, n + 1) = Before(t, n) + Cardinality(t.mask[n])
  BY Masks
<1> QED
  BY <1>1, <1>2, <1>3, <1>4

\* Later nodes have no fewer bits before them.
LEMMA BeforeOrder ==
  ASSUME NEW t, NEW m \in Nat, NEW n \in Nat, m <= n
  PROVE  Before(t, m) \in Nat /\ Before(t, n) \in Nat /\ Before(t, m) <= Before(t, n)
  BY BeforeSplit

\* No node is the child of two nodes, or of one under two labels.
LEMMA ChildInjective ==
  ASSUME NEW t, WellFormed(t), NEW m \in Inner(t), NEW n \in Inner(t),
         NEW k \in t.mask[m], NEW l \in t.mask[n], Child(t, m, k) = Child(t, n, l)
  PROVE  m = n /\ k = l
<1>1. m \in Nat /\ n \in Nat
  BY Masks
<1> DEFINE c == Child(t, n, l)
<1>2. c \in Nat /\ Before(t, m) < c /\ c <= Before(t, m + 1) /\ Before(t, n) < c /\ c <= Before(t, n + 1)
  BY ChildRange
<1> HIDE DEF c
<1>3. ~ (m < n)
  <2> SUFFICES ASSUME m < n PROVE FALSE
    OBVIOUS
  <2>1. Before(t, m + 1) \in Nat /\ Before(t, n) \in Nat /\ Before(t, m + 1) <= Before(t, n)
    BY <1>1, BeforeOrder
  <2> QED
    BY <1>2, <2>1
<1>4. ~ (n < m)
  <2> SUFFICES ASSUME n < m PROVE FALSE
    OBVIOUS
  <2>1. Before(t, n + 1) \in Nat /\ Before(t, m) \in Nat /\ Before(t, n + 1) <= Before(t, m)
    BY <1>1, BeforeOrder
  <2> QED
    BY <1>2, <2>1
<1>5. m = n
  BY <1>1, <1>3, <1>4
<1>6. k \in Nat /\ l \in Nat /\ k \in t.mask[n] /\ t.mask[n] \in SUBSET Nat
  BY <1>5, Masks
<1>7. /\ Child(t, n, k) = Before(t, n) + 1 + Rank(t.mask[n], k)
      /\ Child(t, n, l) = Before(t, n) + 1 + Rank(t.mask[n], l)
      /\ Rank(t.mask[n], k) \in Nat /\ Rank(t.mask[n], l) \in Nat
  BY <1>6, ChildIs
<1>8. Before(t, n) \in Nat
  BY Masks
<1>9. Rank(t.mask[n], k) = Rank(t.mask[n], l)
  BY <1>5, <1>7, <1>8
<1> QED
  BY <1>5, <1>6, <1>9, RankInjective

\* Every node but the root is a child.
LEMMA ChildExists ==
  ASSUME NEW t, WellFormed(t), NEW c \in Nat, 0 < c, c < EndNode(t)
  PROVE  \E n \in Inner(t) : \E l \in t.mask[n] : Child(t, n, l) = c
<1> DEFINE T == {n \in Nat : c <= Before(t, n)}
<1>1. LeafBegin(t) \in T /\ T \in SUBSET Nat /\ LeafBegin(t) \in Nat
  <2>1. LeafBegin(t) \in Nat /\ EndNode(t) = Before(t, LeafBegin(t)) + 1
    BY TreeShape
  <2>2. Before(t, LeafBegin(t)) \in Nat
    BY <2>1, BeforeOrder
  <2> QED
    BY <2>1, <2>2
<1>2. PICK j \in T : \A i \in T : j <= i
  BY <1>1, Least
<1>3. j \in Nat /\ c <= Before(t, j) /\ j <= LeafBegin(t)
  BY <1>1, <1>2
<1>4. j # 0
  <2>1. Before(t, 0) = 0
    BY BeforeZero
  <2> QED
    BY <1>3, <2>1
<1> DEFINE n == j - 1
<1>5. n \in Nat /\ j = n + 1 /\ n < LeafBegin(t) /\ n < j
  BY <1>1, <1>3, <1>4
<1>6. ~ (c <= Before(t, n))
  BY <1>2, <1>5
<1> HIDE DEF T, n
<1>7. n \in Inner(t)
  BY <1>1, <1>5 DEF Inner
<1>8. /\ Before(t, n) \in Nat /\ Before(t, n + 1) = Before(t, n) + Cardinality(t.mask[n])
      /\ t.mask[n] \in SUBSET Nat /\ IsFiniteSet(t.mask[n]) /\ Cardinality(t.mask[n]) \in Nat
  BY <1>7, Masks
<1> DEFINE k == c - 1 - Before(t, n)
<1>9. k \in Nat /\ k < Cardinality(t.mask[n]) /\ c = Before(t, n) + 1 + k
  BY <1>3, <1>5, <1>6, <1>8
<1> HIDE DEF k
<1>10. PICK b \in Nat : \A m \in t.mask[n] : m < b
  BY <1>8, FiniteBounded
<1>11. Rank(t.mask[n], b) = Cardinality(t.mask[n])
  BY <1>8, <1>10, RankWhole
<1>12. PICK l \in t.mask[n] : Rank(t.mask[n], l) = k
  BY <1>8, <1>9, <1>11, RankOnto
<1>13. Child(t, n, l) = Before(t, n) + 1 + Rank(t.mask[n], l)
  BY <1>7, ChildRange
<1> QED
  BY <1>7, <1>9, <1>12, <1>13

\* Children are on the next level, and nodes of a level on no other.
LEMMA ChildLevel ==
  ASSUME NEW t, WellFormed(t), NEW d \in 0 .. (Deep(t) - 1), NEW n \in Inner(t), NEW l \in t.mask[n]
  PROVE  n \in t.level[d] .. (t.level[d + 1] - 1) <=> Child(t, n, l) \in t.level[d + 1] .. (t.level[d + 2] - 1)
<1>1. /\ Deep(t) \in Nat /\ d \in 0 .. (Deep(t) + 1)
      /\ d + 1 \in 0 .. (Deep(t) + 1) /\ d + 2 \in 0 .. (Deep(t) + 1)
      /\ d \in Nat
  BY TreeShape
<1>2. t.level[d] \in Nat /\ t.level[d + 1] \in Nat /\ t.level[d + 2] \in Nat
  BY <1>1, TreeShape
<1>3. t.level[d + 1] = Before(t, t.level[d]) + 1
  BY <1>1, LevelBefore
<1>4. t.level[d + 2] = Before(t, t.level[d + 1]) + 1
  <2>1. d + 1 \in 0 .. Deep(t) /\ (d + 1) + 1 = d + 2
    BY <1>1
  <2> QED
    BY <2>1, LevelBefore
<1> DEFINE c == Child(t, n, l)
<1>5. c \in Nat /\ Before(t, n) < c /\ c <= Before(t, n + 1)
  BY ChildRange
<1>6. n \in Nat
  BY Masks
<1> HIDE DEF c
<1>7. \A m \in Nat : /\ m <= n => Before(t, m) <= Before(t, n) /\ Before(t, m) \in Nat
                     /\ n + 1 <= m => Before(t, n + 1) <= Before(t, m) /\ Before(t, m) \in Nat
  BY <1>6, BeforeOrder
<1>8. Before(t, n) \in Nat /\ Before(t, n + 1) \in Nat
  BY <1>6, BeforeOrder
<1>9. \A m \in Nat : m <= n => Before(t, m) < c /\ Before(t, m) \in Nat
  BY <1>5, <1>7, <1>8
<1>10. \A m \in Nat : n < m => c <= Before(t, m) /\ Before(t, m) \in Nat
  BY <1>5, <1>6, <1>7, <1>8
<1>11. \A m \in Nat : m <= n <=> Before(t, m) + 1 <= c
  BY <1>5, <1>6, <1>9, <1>10
<1>12. t.level[d] <= n <=> t.level[d + 1] <= c
  BY <1>2, <1>3, <1>11
<1>13. t.level[d + 1] <= n <=> t.level[d + 2] <= c
  BY <1>2, <1>4, <1>11
<1> QED
  BY <1>2, <1>5, <1>6, <1>12, <1>13 DEF c

-----------------------------------------------------------------------------
\* A word that holds nodes of an inner tree: the child bits before and behind it.
LEMMA WordBounds ==
  ASSUME NEW t, WellFormed(t), NEW w \in Nat, w * NodesPerWord < LeafBegin(t)
  PROVE  \E last \in Nat :
           /\ RankBefore(t, w) = Before(t, w * NodesPerWord)
           /\ RankBefore(t, w) + Bits(t, InWord(t, w)) = Before(t, last)
           /\ InWord(t, w) = (w * NodesPerWord) .. (last - 1)
           /\ last <= LeafBegin(t) /\ last <= (w + 1) * NodesPerWord
           /\ last = LeafBegin(t) \/ last = (w + 1) * NodesPerWord
<1> DEFINE first == w * NodesPerWord
           next == (w + 1) * NodesPerWord
           last == Min({LeafBegin(t), next})
<1>1. NodesPerWord \in Nat \ {0} /\ LeafBegin(t) \in Nat
  BY TreeShape, WordSizes
<1>2. first \in Nat /\ next \in Nat /\ first < next /\ first < LeafBegin(t)
  BY <1>1
<1>3. RankBefore(t, w) = Before(t, first)
  BY <1>1, <1>2, RankOfWord
<1>4. InWord(t, w) = first .. (last - 1)
  BY DEF InWord
<1> HIDE DEF first, next
<1>5. last \in Nat /\ last <= LeafBegin(t) /\ last <= next /\ (last = LeafBegin(t) \/ last = next) /\ first <= last
  BY <1>1, <1>2, MinTwo
<1> HIDE DEF last
<1>6. Before(t, last) = Before(t, first) + Bits(t, first .. (last - 1))
  BY <1>2, <1>5, BeforeSplit
<1> QED
  BY <1>3, <1>4, <1>5, <1>6 DEF first, next

\* The binary search over the words' counts ends at the first word that reaches beyond.
LEMMA FirstWordIs ==
  ASSUME NEW t, NEW rank, Words(t) \in Nat,
         NEW first \in 0 .. Words(t), NEW last \in 0 .. Words(t), NEW w \in first .. last,
         \A u \in 0 .. (Words(t) - 1) : RankAfter(t, u) <= rank <=> u < w
  PROVE  FirstWord(t, rank, first, last) = w
<1> DEFINE W == 0 .. Words(t)
           Mid(r) == r[1] + (r[2] - r[1]) \div 2
           Def(f) == f = [r \in W \X W |->
                            IF r[1] >= r[2] THEN r[1]
                            ELSE IF RankAfter(t, Mid(r)) <= rank THEN f[<<Mid(r) + 1, r[2]>>]
                            ELSE f[<<r[1], Mid(r)>>]]
           found == CHOOSE f : Def(f)
           Clamp(a, b) == IF a >= b \/ w <= a THEN a ELSE IF w >= b THEN b ELSE w
           g == [r \in W \X W |-> Clamp(r[1], r[2])]
<1>1. FirstWord(t, rank, first, last) = found[<<first, last>>]
  BY DEF FirstWord
<1>2. ASSUME NEW a \in W, NEW b \in W, a < b
      PROVE  /\ Mid(<<a, b>>) \in Nat /\ a <= Mid(<<a, b>>) /\ Mid(<<a, b>>) < b
             /\ Mid(<<a, b>>) + 1 \in W /\ Mid(<<a, b>>) \in W
             /\ RankAfter(t, Mid(<<a, b>>)) <= rank <=> Mid(<<a, b>>) < w
  <2> DEFINE m == a + (b - a) \div 2
  <2>1. m \in Nat /\ a <= m /\ m < b
    BY <1>2
  <2>2. m \in 0 .. (Words(t) - 1) /\ Mid(<<a, b>>) = m
    BY <2>1
  <2> HIDE DEF m, Mid
  <2> QED
    BY <2>1, <2>2
<1> HIDE DEF Mid
<1>3. Def(g)
  <2> SUFFICES ASSUME NEW r \in W \X W
               PROVE  g[r] = IF r[1] >= r[2] THEN r[1]
                             ELSE IF RankAfter(t, Mid(r)) <= rank THEN g[<<Mid(r) + 1, r[2]>>]
                             ELSE g[<<r[1], Mid(r)>>]
    OBVIOUS
  <2>1. PICK a \in W, b \in W : r = <<a, b>>
    OBVIOUS
  <2>2. r[1] = a /\ r[2] = b /\ a \in Nat /\ b \in Nat /\ w \in Nat
    BY <2>1
  <2>3. \A x, y \in W : g[<<x, y>>] = Clamp(x, y)
    OBVIOUS
  <2> HIDE DEF g
  <2>4. CASE a >= b
    BY <2>1, <2>2, <2>3, <2>4
  <2>5. CASE a < b
    <3> DEFINE m == Mid(<<a, b>>)
    <3>1. m \in Nat /\ a <= m /\ m < b /\ m + 1 \in W /\ m \in W /\ (RankAfter(t, m) <= rank <=> m < w)
      BY <1>2, <2>5
    <3> HIDE DEF m
    <3>2. CASE m < w
      <4>1. Clamp(a, b) = Clamp(m + 1, b)
        BY <2>2, <2>5, <3>1, <3>2
      <4> HIDE DEF Clamp
      <4> QED
        BY <2>1, <2>2, <2>3, <2>5, <3>1, <3>2, <4>1 DEF m
    <3>3. CASE ~(m < w)
      <4>1. Clamp(a, b) = Clamp(a, m)
        BY <2>2, <2>5, <3>1, <3>3
      <4> HIDE DEF Clamp
      <4> QED
        BY <2>1, <2>2, <2>3, <2>5, <3>1, <3>3, <4>1 DEF m
    <3> QED
      BY <3>2, <3>3
  <2> QED
    BY <2>2, <2>4, <2>5
<1>4. Def(found)
  <2> HIDE DEF Def, g
  <2> QED
    BY <1>3
<1>5. ASSUME NEW a \in W, NEW b \in W
      PROVE  found[<<a, b>>] = IF a >= b THEN a
                                ELSE IF RankAfter(t, Mid(<<a, b>>)) <= rank
                                THEN found[<<Mid(<<a, b>>) + 1, b>>]
                                ELSE found[<<a, Mid(<<a, b>>)>>]
  <2> HIDE DEF found
  <2>1. <<a, b>> \in W \X W /\ <<a, b>>[1] = a /\ <<a, b>>[2] = b
    OBVIOUS
  <2> QED
    BY <1>4, <2>1
<1> HIDE DEF Def, found, g
<1> DEFINE G == {k \in Nat : \A a, b \in W : a <= w /\ w <= b /\ b - a <= k => found[<<a, b>>] = w}
<1>6. 0 \in G
  <2> SUFFICES ASSUME NEW a \in W, NEW b \in W, a <= w, w <= b, b - a <= 0 PROVE found[<<a, b>>] = w
    OBVIOUS
  <2>1. a >= b /\ a = w
    OBVIOUS
  <2> QED
    BY <1>5, <2>1
<1>7. ASSUME NEW k \in G PROVE k + 1 \in G
  <2>1. k \in Nat /\ \A a, b \in W : a <= w /\ w <= b /\ b - a <= k => found[<<a, b>>] = w
    OBVIOUS
  <2> HIDE DEF G
  <2>2. ASSUME NEW a \in W, NEW b \in W, a <= w, w <= b, b - a <= k + 1
        PROVE  found[<<a, b>>] = w
    <3>1. CASE a >= b
      <4>1. a = w
        BY <2>2, <3>1
      <4> QED
        BY <1>5, <3>1, <4>1
    <3>2. CASE a < b
      <4> DEFINE m == Mid(<<a, b>>)
      <4>1. /\ m \in Nat /\ a <= m /\ m < b /\ m + 1 \in W /\ m \in W
            /\ RankAfter(t, m) <= rank <=> m < w
        BY <1>2, <3>2
      <4>2. found[<<a, b>>] = IF m < w THEN found[<<m + 1, b>>] ELSE found[<<a, m>>]
        <5>1. ~(a >= b)
          BY <3>2
        <5> QED
          BY <1>5, <4>1, <5>1
      <4> HIDE DEF m
      <4>3. CASE m < w
        <5>1. m + 1 <= w /\ b - (m + 1) <= k
          BY <2>1, <2>2, <4>1, <4>3
        <5>2. found[<<m + 1, b>>] = w
          BY <2>1, <2>2, <4>1, <5>1
        <5> QED
          BY <4>2, <4>3, <5>2
      <4>4. CASE ~(m < w)
        <5>1. w <= m /\ m - a <= k
          BY <2>1, <2>2, <4>1, <4>4
        <5>2. found[<<a, m>>] = w
          BY <2>1, <2>2, <4>1, <5>1
        <5> QED
          BY <4>2, <4>4, <5>2
      <4> QED
        BY <4>3, <4>4
    <3> QED
      BY <3>1, <3>2
  <2> QED
    BY <2>1, <2>2 DEF G
<1>8. G = Nat
  <2>1. G \in SUBSET Nat
    OBVIOUS
  <2> HIDE DEF G
  <2> QED
    BY <1>6, <1>7, <2>1, AllNumbers
<1>9. last - first \in G
  BY <1>8
<1> QED
  BY <1>1, <1>9

\* parent_link finds the node and the label a node is the child of.
LEMMA ParentLinkIs ==
  ASSUME NEW t, WellFormed(t), NEW d \in 1 .. Deep(t), NEW n \in Inner(t), NEW l \in t.mask[n],
         n \in t.level[d - 1] .. (t.level[d] - 1)
  PROVE  ParentLink(t, Child(t, n, l), d) = <<n, l>>
<1> DEFINE c == Child(t, n, l)
           from == t.level[d - 1] \div NodesPerWord
           to == (t.level[d] + NodesPerWord - 1) \div NodesPerWord
           w == n \div NodesPerWord
<1>1. NodesPerWord \in Nat \ {0} /\ LeafBegin(t) \in Nat /\ n \in Nat /\ n < LeafBegin(t) /\ Deep(t) \in Nat
  BY TreeShape, WordSizes
<1>2. t.level[d - 1] \in Nat /\ t.level[d] \in Nat /\ t.level[d] <= LeafBegin(t)
  <2>1. /\ d - 1 \in 0 .. (Deep(t) + 1) /\ d \in 0 .. (Deep(t) + 1)
        /\ Deep(t) \in 0 .. (Deep(t) + 1) /\ d <= Deep(t)
    BY <1>1
  <2>2. t.level[d] \in Nat /\ t.level[Deep(t)] \in Nat /\ t.level[d] <= t.level[Deep(t)]
    BY <2>1, LevelsOrdered
  <2>3. t.level[d - 1] \in Nat
    BY <2>1, TreeShape
  <2> QED
    BY <2>2, <2>3 DEF LeafBegin
<1>3. /\ c \in Nat /\ Before(t, n) < c /\ c <= Before(t, n + 1)
      /\ Before(t, n) \in Nat /\ Before(t, n + 1) \in Nat /\ l \in Nat
  <2>1. c \in Nat /\ Before(t, n) < c /\ c <= Before(t, n + 1) /\ l \in Nat
    BY ChildRange
  <2> QED
    BY <1>1, <2>1, BeforeOrder
<1> HIDE DEF c
<1>4. w \in Nat /\ w * NodesPerWord \in Nat /\ w * NodesPerWord <= n /\ n < (w + 1) * NodesPerWord
  BY <1>1, Quotient
<1>5. from \in 0 .. Words(t) /\ to \in 0 .. Words(t) /\ w \in from .. to /\ Words(t) \in Nat
  <2>1. t.level[d - 1] <= n /\ n <= t.level[d] - 1
    BY <1>1, <1>2
  <2>2. /\ t.level[d] + NodesPerWord - 1 \in Nat /\ LeafBegin(t) + NodesPerWord - 1 \in Nat
        /\ t.level[d] + NodesPerWord - 1 <= LeafBegin(t) + NodesPerWord - 1
        /\ n <= t.level[d] + NodesPerWord - 1
    BY <1>1, <1>2, <2>1
  <2>3. from \in Nat /\ to \in Nat /\ Words(t) \in Nat
    BY <1>1, <1>2, <2>2, Quotient DEF Words
  <2>4. from <= w
    BY <1>1, <1>2, <2>1, QuotientOrder
  <2>5. w <= to
    BY <1>1, <2>2, QuotientOrder
  <2>6. to <= Words(t)
    BY <1>1, <2>2, QuotientOrder DEF Words
  <2> HIDE DEF from, to, w
  <2> QED
    BY <1>4, <2>3, <2>4, <2>5, <2>6
<1> HIDE DEF w
<1>6. PICK last \in Nat :
           /\ RankBefore(t, w) = Before(t, w * NodesPerWord)
           /\ RankBefore(t, w) + Bits(t, InWord(t, w)) = Before(t, last)
           /\ InWord(t, w) = (w * NodesPerWord) .. (last - 1)
           /\ last <= LeafBegin(t) /\ last <= (w + 1) * NodesPerWord
           /\ last = LeafBegin(t) \/ last = (w + 1) * NodesPerWord
  <2>1. w * NodesPerWord < LeafBegin(t)
    BY <1>1, <1>4
  <2> QED
    BY <1>4, <2>1, WordBounds
<1>7. n < last /\ n \in InWord(t, w)
  BY <1>1, <1>4, <1>6
<1>8. Before(t, w * NodesPerWord) <= Before(t, n) /\ Before(t, n + 1) <= Before(t, last)
      /\ Before(t, w * NodesPerWord) \in Nat /\ Before(t, last) \in Nat
  BY <1>1, <1>4, <1>7, BeforeOrder
<1>9. ASSUME NEW u \in 0 .. (Words(t) - 1) PROVE RankAfter(t, u) <= c - 1 <=> u < w
  <2>1. u \in Nat /\ u * NodesPerWord \in Nat /\ u * NodesPerWord < LeafBegin(t)
    <3> DEFINE q == Words(t)
    <3>1. q \in Nat /\ q * NodesPerWord \in Nat /\ q * NodesPerWord <= LeafBegin(t) + NodesPerWord - 1
      <4>1. LeafBegin(t) + NodesPerWord - 1 \in Nat
        BY <1>1
      <4> QED
        BY <1>1, <4>1, Quotient DEF Words
    <3>2. u \in Nat /\ u + 1 <= q
      BY <3>1
    <3> HIDE DEF q
    <3>3. (u + 1) * NodesPerWord <= q * NodesPerWord
      BY <1>1, <3>1, <3>2
    <3>4. (u + 1) * NodesPerWord = u * NodesPerWord + NodesPerWord /\ u * NodesPerWord \in Nat
      BY <1>1, <3>2
    <3> QED
      BY <1>1, <3>1, <3>2, <3>3, <3>4
  <2>2. PICK end \in Nat :
           /\ RankBefore(t, u) = Before(t, u * NodesPerWord)
           /\ RankBefore(t, u) + Bits(t, InWord(t, u)) = Before(t, end)
           /\ InWord(t, u) = (u * NodesPerWord) .. (end - 1)
           /\ end <= LeafBegin(t) /\ end <= (u + 1) * NodesPerWord
           /\ end = LeafBegin(t) \/ end = (u + 1) * NodesPerWord
    BY <2>1, WordBounds
  <2>3. RankAfter(t, u) = Before(t, end)
    BY <2>2 DEF RankAfter
  <2>4. ASSUME u < w PROVE RankAfter(t, u) <= c - 1
    <3>1. (u + 1) * NodesPerWord <= w * NodesPerWord /\ (u + 1) * NodesPerWord \in Nat
      BY <1>1, <1>4, <2>1, <2>4
    <3>2. end <= n
      BY <1>1, <1>4, <2>2, <3>1
    <3>3. Before(t, end) <= Before(t, n) /\ Before(t, end) \in Nat
      BY <1>1, <2>2, <3>2, BeforeOrder
    <3> QED
      BY <1>3, <2>3, <3>3
  <2>5. ASSUME ~(u < w) PROVE ~(RankAfter(t, u) <= c - 1)
    <3>1. (w + 1) * NodesPerWord <= (u + 1) * NodesPerWord /\ (w + 1) * NodesPerWord \in Nat
          /\ (u + 1) * NodesPerWord \in Nat
      BY <1>1, <1>4, <2>1, <2>5
    <3>2. n + 1 <= end
      BY <1>1, <1>4, <2>2, <3>1
    <3>3. Before(t, n + 1) <= Before(t, end) /\ Before(t, end) \in Nat
      BY <1>1, <2>2, <3>2, BeforeOrder
    <3> QED
      BY <1>3, <2>3, <3>3
  <2> QED
    BY <2>4, <2>5
<1> DEFINE word == FirstWord(t, c - 1, from, to)
<1>10. word = w
  <2> HIDE DEF from, to
  <2> QED
    BY <1>5, <1>9, FirstWordIs
<1> DEFINE below(m, k) == Bits(t, (word * NodesPerWord) .. (m - 1)) + Cardinality({i \in t.mask[m] : i < k})
           links == {link \in InWord(t, word) \X Label :
                       /\ link[2] \in t.mask[link[1]]
                       /\ below(link[1], link[2]) = c - 1 - RankBefore(t, word)
                       /\ link[1] \in t.level[d - 1] .. (t.level[d] - 1)}
<1>11. ParentLink(t, c, d) = IF links = {} THEN NoLink ELSE CHOOSE link \in links : TRUE
  BY DEF ParentLink
<1> HIDE DEF word, from, to
<1>12. ASSUME NEW m \in InWord(t, w), NEW k \in t.mask[m]
       PROVE  m \in Inner(t) /\ below(m, k) + RankBefore(t, w) + 1 = Child(t, m, k) /\ below(m, k) \in Nat /\ RankBefore(t, w) \in Nat
  <2>1. m \in Nat /\ w * NodesPerWord <= m /\ m < last
    BY <1>4, <1>6
  <2>2. m \in Inner(t)
    BY <1>1, <1>6, <2>1 DEF Inner
  <2>3. /\ Before(t, m) = Before(t, w * NodesPerWord) + Bits(t, (w * NodesPerWord) .. (m - 1))
        /\ Before(t, w * NodesPerWord) \in Nat /\ Bits(t, (w * NodesPerWord) .. (m - 1)) \in Nat
    BY <1>4, <2>1, BeforeSplit
  <2>4. k \in Nat /\ Child(t, m, k) = Before(t, m) + 1 + Rank(t.mask[m], k)
    BY <1>12, <2>2, ChildRange
  <2>5. Rank(t.mask[m], k) \in Nat
    BY <2>2, <2>4, ChildIs
  <2>6. below(m, k) = Bits(t, (w * NodesPerWord) .. (m - 1)) + Rank(t.mask[m], k)
    BY <1>10 DEF Rank, Below
  <2> HIDE DEF below
  <2> QED
    BY <1>6, <2>2, <2>3, <2>4, <2>5, <2>6
<1>13. <<n, l>> \in links
  <2>1. l \in Label
    BY TreeShape
  <2>2. below(n, l) + RankBefore(t, w) + 1 = c /\ below(n, l) \in Nat /\ RankBefore(t, w) \in Nat
    BY <1>7, <1>12 DEF c
  <2>3. below(n, l) = c - 1 - RankBefore(t, word)
    <3> HIDE DEF below
    <3> QED
      BY <1>3, <1>10, <2>2
  <2> HIDE DEF below
  <2> QED
    BY <1>7, <1>10, <2>1, <2>3
<1>14. \A link \in links : link = <<n, l>>
  <2> SUFFICES ASSUME NEW link \in links PROVE link = <<n, l>>
    OBVIOUS
  <2> DEFINE m == link[1]
             k == link[2]
  <2>1. link = <<m, k>> /\ m \in InWord(t, w) /\ k \in t.mask[m]
    BY <1>10
  <2>2. below(m, k) = c - 1 - RankBefore(t, w)
    BY <1>10
  <2> HIDE DEF m, k
  <2>3. /\ m \in Inner(t) /\ below(m, k) + RankBefore(t, w) + 1 = Child(t, m, k)
        /\ below(m, k) \in Nat /\ RankBefore(t, w) \in Nat
    BY <1>12, <2>1
  <2>4. Child(t, m, k) = c
    <3> HIDE DEF below
    <3> QED
      BY <1>3, <2>2, <2>3
  <2>5. m = n /\ k = l
    <3>1. l \in t.mask[n] /\ Child(t, n, l) = c
      BY <1>7 DEF c
    <3>2. m \in Inner(t) /\ n \in Inner(t) /\ k \in t.mask[m] /\ Child(t, m, k) = Child(t, n, l)
      BY <1>7, <2>1, <2>3, <2>4, <3>1
    <3> QED
      BY ONLY <3>1, <3>2, WellFormed(t), ChildInjective
  <2> QED
    BY <2>1, <2>5
<1>15. ParentLink(t, c, d) = <<n, l>>
  <2> HIDE DEF links
  <2> QED
    BY <1>11, <1>13, <1>14
<1> QED
  BY <1>15 DEF c

-----------------------------------------------------------------------------
\* The way from the root to a node c at depth d: the nodes above it and the labels.
At(t, d, n) == n \in t.level[d] .. (t.level[d + 1] - 1)

PathTo(t, anc, lab, d, c) ==
  /\ anc \in [0 .. d -> Nat] /\ lab \in [1 .. d -> Nat]
  /\ anc[0] = 0 /\ anc[d] = c
  /\ \A e \in 1 .. d : /\ anc[e - 1] \in Inner(t) /\ lab[e] \in t.mask[anc[e - 1]]
                       /\ Child(t, anc[e - 1], lab[e]) = anc[e]

\* Nodes of the last level are leaves, nodes above it inner ones.
LEMMA Levels ==
  ASSUME NEW t, WellFormed(t)
  PROVE  /\ t.level[0] = 0 /\ t.level[1] = 1
         /\ \A d \in 0 .. Deep(t) : \A n \in t.level[d] .. (t.level[d + 1] - 1) :
              /\ n \in Nat /\ t.level[d] \in Nat /\ t.level[d + 1] \in Nat
              /\ n < EndNode(t) /\ (d < Deep(t) => n \in Inner(t)) /\ (d = Deep(t) => n \in Leaves(t))
<1>1. t.level[0] = 0 /\ t.level[1] = 1
  BY DEF WellFormed
<1>2. ASSUME NEW d \in 0 .. Deep(t), NEW n \in t.level[d] .. (t.level[d + 1] - 1)
      PROVE  /\ n \in Nat /\ t.level[d] \in Nat /\ t.level[d + 1] \in Nat
             /\ n < EndNode(t) /\ (d < Deep(t) => n \in Inner(t)) /\ (d = Deep(t) => n \in Leaves(t))
  <2>1. /\ Deep(t) \in Nat /\ d \in 0 .. (Deep(t) + 1)
        /\ d + 1 \in 0 .. (Deep(t) + 1) /\ Deep(t) + 1 \in 0 .. (Deep(t) + 1)
        /\ Deep(t) \in 0 .. (Deep(t) + 1) /\ d + 1 <= Deep(t) + 1
    BY TreeShape
  <2>2. /\ t.level[d] \in Nat /\ t.level[d + 1] \in Nat /\ EndNode(t) \in Nat
        /\ t.level[d + 1] <= EndNode(t) /\ LeafBegin(t) \in Nat
    <3>1. t.level[d] \in Nat /\ LeafBegin(t) \in Nat
      BY <2>1, TreeShape
    <3>2. t.level[d + 1] \in Nat /\ t.level[Deep(t) + 1] \in Nat /\ t.level[d + 1] <= t.level[Deep(t) + 1]
      BY <2>1, LevelsOrdered
    <3> QED
      BY <3>1, <3>2 DEF EndNode
  <2>3. n \in Nat /\ n < EndNode(t)
    BY <2>2
  <2>4. ASSUME d < Deep(t) PROVE n \in Inner(t)
    <3>1. d + 1 <= Deep(t)
      BY <2>1, <2>4
    <3>2. t.level[d + 1] <= LeafBegin(t)
      BY <2>1, <3>1, LevelsOrdered DEF LeafBegin
    <3> QED
      BY <2>2, <2>3, <3>2 DEF Inner
  <2>5. ASSUME d = Deep(t) PROVE n \in Leaves(t)
    BY <2>5 DEF Leaves, LeafBegin
  <2> QED
    BY <2>2, <2>3, <2>4, <2>5
<1> QED
  BY <1>1, <1>2

\* Every node of a level is reached from the root.
LEMMA PathExists ==
  ASSUME NEW t, WellFormed(t), NEW d \in 0 .. Deep(t), NEW c, At(t, d, c)
  PROVE  \E anc, lab : PathTo(t, anc, lab, d, c)
<1> DEFINE G == {k \in Nat : k <= Deep(t) => \A x : At(t, k, x) => \E anc, lab : PathTo(t, anc, lab, k, x)}
<1>1. 0 \in G
  <2> SUFFICES ASSUME NEW x, At(t, 0, x) PROVE \E anc, lab : PathTo(t, anc, lab, 0, x)
    OBVIOUS
  <2>1. x = 0
    BY Levels DEF At
  <2> DEFINE anc == [e \in 0 .. 0 |-> 0]
             lab == [e \in 1 .. 0 |-> 0]
  <2>2. PathTo(t, anc, lab, 0, x)
    BY <2>1 DEF PathTo
  <2> QED
    BY <2>2
<1>2. ASSUME NEW k \in G PROVE k + 1 \in G
  <2>0. k \in Nat
    OBVIOUS
  <2> SUFFICES ASSUME k + 1 <= Deep(t), NEW x, At(t, k + 1, x) PROVE \E anc, lab : PathTo(t, anc, lab, k + 1, x)
    BY <2>0
  <2>1. /\ Deep(t) \in Nat /\ k \in 0 .. Deep(t) /\ k \in 0 .. (Deep(t) - 1)
        /\ k + 1 \in 0 .. Deep(t) /\ (k + 1) + 1 = k + 2
    BY <2>0, TreeShape
  <2>2. x \in t.level[k + 1] .. (t.level[k + 2] - 1)
    BY <2>1 DEF At
  <2>3. x \in Nat /\ x < EndNode(t) /\ t.level[k + 1] \in Nat
    BY <2>1, <2>2, Levels
  <2>4. 0 < x
    <3>1. 1 \in 0 .. (Deep(t) + 1) /\ k + 1 \in 0 .. (Deep(t) + 1) /\ 1 <= k + 1
      BY <2>1
    <3>2. t.level[1] <= t.level[k + 1] /\ t.level[1] = 1
      BY <3>1, LevelsOrdered, Levels
    <3> QED
      BY <2>2, <2>3, <3>2
  <2>5. PICK n \in Inner(t) : \E l \in t.mask[n] : Child(t, n, l) = x
    BY <2>3, <2>4, ChildExists
  <2>6. PICK l \in t.mask[n] : Child(t, n, l) = x
    BY <2>5
  <2>7. n \in t.level[k] .. (t.level[k + 1] - 1)
    BY <2>1, <2>2, <2>6, ChildLevel
  <2>8. PICK a, b : PathTo(t, a, b, k, n)
    BY <2>1, <2>7 DEF At
  <2> DEFINE anc == [e \in 0 .. (k + 1) |-> IF e = k + 1 THEN x ELSE a[e]]
             lab == [e \in 1 .. (k + 1) |-> IF e = k + 1 THEN l ELSE b[e]]
  <2>9. /\ a \in [0 .. k -> Nat] /\ b \in [1 .. k -> Nat] /\ a[0] = 0 /\ a[k] = n
        /\ \A e \in 1 .. k : a[e - 1] \in Inner(t) /\ b[e] \in t.mask[a[e - 1]] /\ Child(t, a[e - 1], b[e]) = a[e]
    BY <2>8 DEF PathTo
  <2>10. l \in Nat
    BY <2>6, Masks
  <2>11. anc \in [0 .. (k + 1) -> Nat] /\ lab \in [1 .. (k + 1) -> Nat] /\ anc[0] = 0 /\ anc[k + 1] = x
    BY <2>0, <2>3, <2>9, <2>10
  <2>12. ASSUME NEW e \in 1 .. (k + 1)
         PROVE  anc[e - 1] \in Inner(t) /\ lab[e] \in t.mask[anc[e - 1]] /\ Child(t, anc[e - 1], lab[e]) = anc[e]
    <3>1. CASE e = k + 1
      <4>1. e - 1 = k /\ k \in 0 .. (k + 1) /\ k # k + 1 /\ e \in 0 .. (k + 1)
        BY <2>0, <3>1
      <4>2. anc[e - 1] = n /\ lab[e] = l /\ anc[e] = x
        BY <2>9, <3>1, <4>1
      <4> QED
        BY <2>5, <2>6, <4>2
    <3>2. CASE e # k + 1
      <4>1. e \in 1 .. k /\ e - 1 \in 0 .. (k + 1) /\ e - 1 # k + 1 /\ e \in 0 .. (k + 1)
        BY <2>0, <3>2
      <4>2. anc[e - 1] = a[e - 1] /\ lab[e] = b[e] /\ anc[e] = a[e]
        BY <3>2, <4>1
      <4> QED
        BY <2>9, <4>1, <4>2
    <3> QED
      BY <3>1, <3>2
  <2> HIDE DEF anc, lab
  <2>13. PathTo(t, anc, lab, k + 1, x)
    BY <2>11, <2>12 DEF PathTo
  <2> QED
    BY <2>13
<1>3. G = Nat
  <2>1. G \in SUBSET Nat
    OBVIOUS
  <2> HIDE DEF G
  <2> QED
    BY <1>1, <1>2, <2>1, AllNumbers
<1>4. Deep(t) \in Nat /\ d \in Nat /\ d <= Deep(t)
  BY TreeShape
<1>5. d \in G
  BY <1>3, <1>4
<1> QED
  BY <1>4, <1>5

\* A way from the root goes down a level at a time.
LEMMA PathLevels ==
  ASSUME NEW t, WellFormed(t), NEW d \in 0 .. Deep(t), NEW c, NEW anc, NEW lab, PathTo(t, anc, lab, d, c)
  PROVE  \A e \in 0 .. d : At(t, e, anc[e])
<1> DEFINE G == {k \in Nat : k <= d => At(t, k, anc[k])}
<1>0. Deep(t) \in Nat /\ d \in Nat /\ d <= Deep(t)
  BY TreeShape
<1>1. 0 \in G
  <2>1. anc[0] = 0
    BY DEF PathTo
  <2> QED
    BY <2>1, Levels DEF At
<1>2. ASSUME NEW k \in G PROVE k + 1 \in G
  <2>0. k \in Nat
    OBVIOUS
  <2> SUFFICES ASSUME k + 1 <= d PROVE At(t, k + 1, anc[k + 1])
    BY <2>0
  <2>1. k \in 0 .. (Deep(t) - 1) /\ k + 1 \in 1 .. d /\ (k + 1) - 1 = k /\ (k + 1) + 1 = k + 2
    BY <1>0, <2>0
  <2>2. anc[k] \in Inner(t) /\ lab[k + 1] \in t.mask[anc[k]] /\ Child(t, anc[k], lab[k + 1]) = anc[k + 1]
    BY <2>1 DEF PathTo
  <2>3. anc[k] \in t.level[k] .. (t.level[k + 1] - 1)
    BY <2>0 DEF At
  <2>4. anc[k + 1] \in t.level[k + 1] .. (t.level[k + 2] - 1)
    BY <2>1, <2>2, <2>3, ChildLevel
  <2> QED
    BY <2>1, <2>4 DEF At
<1>3. G = Nat
  <2>1. G \in SUBSET Nat
    OBVIOUS
  <2> HIDE DEF G
  <2> QED
    BY <1>1, <1>2, <2>1, AllNumbers
<1>4. ASSUME NEW e \in 0 .. d PROVE At(t, e, anc[e])
  <2>1. e \in Nat /\ e <= d
    BY <1>0
  <2>2. e \in G
    BY <1>3, <2>1
  <2> QED
    BY <2>1, <2>2
<1> QED
  BY <1>4

\* Two ways to a node are one.
LEMMA PathUnique ==
  ASSUME NEW t, WellFormed(t), NEW d \in Nat, NEW c, NEW a, NEW b, PathTo(t, a, b, d, c),
         NEW p, NEW q, PathTo(t, p, q, d, c)
  PROVE  a = p /\ b = q
<1> DEFINE G == {k \in Nat : k <= d => a[d - k] = p[d - k] /\ (k > 0 => b[(d - k) + 1] = q[(d - k) + 1])}
<1>1. 0 \in G
  BY DEF PathTo
<1>2. ASSUME NEW k \in G PROVE k + 1 \in G
  <2>0. k \in Nat
    OBVIOUS
  <2> SUFFICES ASSUME k + 1 <= d
               PROVE  a[d - (k + 1)] = p[d - (k + 1)] /\ b[(d - (k + 1)) + 1] = q[(d - (k + 1)) + 1]
    BY <2>0
  <2> DEFINE e == d - k
  <2>1. e \in 1 .. d /\ d - (k + 1) = e - 1 /\ (d - (k + 1)) + 1 = e
    BY <2>0
  <2>2. a[e] = p[e]
    BY <2>0
  <2> HIDE DEF e
  <2>3. a[e - 1] \in Inner(t) /\ b[e] \in t.mask[a[e - 1]] /\ Child(t, a[e - 1], b[e]) = a[e]
    BY <2>1 DEF PathTo
  <2>4. p[e - 1] \in Inner(t) /\ q[e] \in t.mask[p[e - 1]] /\ Child(t, p[e - 1], q[e]) = p[e]
    BY <2>1 DEF PathTo
  <2>5. a[e - 1] = p[e - 1] /\ b[e] = q[e]
    BY <2>2, <2>3, <2>4, ChildInjective
  <2> QED
    BY <2>1, <2>5
<1>3. G = Nat
  <2>1. G \in SUBSET Nat
    OBVIOUS
  <2> HIDE DEF G
  <2> QED
    BY <1>1, <1>2, <2>1, AllNumbers
<1>4. ASSUME NEW e \in 0 .. d PROVE a[e] = p[e]
  <2>1. d - e \in G /\ d - e <= d /\ d - (d - e) = e
    BY <1>3
  <2> QED
    BY <2>1
<1>5. ASSUME NEW e \in 1 .. d PROVE b[e] = q[e]
  <2>1. d - (e - 1) \in Nat /\ d - (e - 1) > 0 /\ d - (e - 1) <= d /\ (d - (d - (e - 1))) + 1 = e
    OBVIOUS
  <2>2. d - (e - 1) \in G
    BY <1>3, <2>1
  <2> QED
    BY <2>1, <2>2
<1>6. a \in [0 .. d -> Nat] /\ p \in [0 .. d -> Nat] /\ b \in [1 .. d -> Nat] /\ q \in [1 .. d -> Nat]
  BY DEF PathTo
<1> QED
  BY <1>4, <1>5, <1>6

-----------------------------------------------------------------------------
\* Going down by labels follows the path, and going up by links finds its labels.
Walk(t, path, d) ==
  LET at[e \in 0 .. d] == IF e = 0 THEN 0 ELSE Child(t, at[e - 1], path[e])
  IN  at[d]

\* Going down by the labels of a way ends where the way does.
LEMMA WalkIs ==
  ASSUME NEW t, NEW d \in Nat, NEW c, NEW anc, NEW lab, PathTo(t, anc, lab, d, c)
  PROVE  Walk(t, lab, d) = c
<1> DEFINE Def(f) == f = [e \in 0 .. d |-> IF e = 0 THEN 0 ELSE Child(t, f[e - 1], lab[e])]
           at == CHOOSE f : Def(f)
<1>1. /\ anc \in [0 .. d -> Nat] /\ anc[0] = 0 /\ anc[d] = c
      /\ \A e \in 1 .. d : Child(t, anc[e - 1], lab[e]) = anc[e]
  BY DEF PathTo
<1>2. Def(anc)
  <2>1. ASSUME NEW e \in 0 .. d PROVE anc[e] = IF e = 0 THEN 0 ELSE Child(t, anc[e - 1], lab[e])
    <3>1. e # 0 => e \in 1 .. d
      OBVIOUS
    <3> QED
      BY <1>1, <3>1
  <2> QED
    BY <1>1, <2>1
<1>3. Def(at)
  <2> HIDE DEF Def
  <2> QED
    BY <1>2
<1>4. \A e \in 0 .. d : at[e] = IF e = 0 THEN 0 ELSE Child(t, at[e - 1], lab[e])
  <2> HIDE DEF at
  <2> QED
    BY <1>3
<1>5. Walk(t, lab, d) = at[d]
  BY DEF Walk
<1> HIDE DEF Def, at
<1> DEFINE G == {k \in Nat : k <= d => at[k] = anc[k]}
<1>6. 0 \in G
  BY <1>1, <1>4
<1>7. ASSUME NEW k \in G PROVE k + 1 \in G
  <2>0. k \in Nat
    OBVIOUS
  <2> SUFFICES ASSUME k + 1 <= d PROVE at[k + 1] = anc[k + 1]
    BY <2>0
  <2>1. k + 1 \in 0 .. d /\ k + 1 # 0 /\ (k + 1) - 1 = k /\ k + 1 \in 1 .. d /\ at[k] = anc[k]
    BY <2>0
  <2>2. at[k + 1] = Child(t, at[k], lab[k + 1])
    BY <1>4, <2>1
  <2>3. Child(t, anc[k], lab[k + 1]) = anc[k + 1]
    BY <1>1, <2>1
  <2> QED
    BY <2>1, <2>2, <2>3
<1>8. G = Nat
  <2>1. G \in SUBSET Nat
    OBVIOUS
  <2> HIDE DEF G
  <2> QED
    BY <1>6, <1>7, <2>1, AllNumbers
<1>9. at[d] = anc[d]
  BY <1>8
<1> QED
  BY <1>1, <1>5, <1>9

\* Descend, given the labels of a leaf, finds the leaf.
LEMMA DescendIs ==
  ASSUME NEW t, WellFormed(t), NEW c, NEW anc, NEW lab, PathTo(t, anc, lab, Deep(t), c)
  PROVE  Descend(t, lab) = c
<1>1. Deep(t) \in Nat
  BY TreeShape
<1>2. Descend(t, lab) = Walk(t, lab, Deep(t))
  BY DEF Descend, Walk
<1> QED
  BY <1>1, <1>2, WalkIs

\* A path up to one of its nodes.
LEMMA PathPrefix ==
  ASSUME NEW t, NEW d \in Nat, NEW c, NEW anc, NEW lab, PathTo(t, anc, lab, d, c), NEW e \in 0 .. d
  PROVE  PathTo(t, [i \in 0 .. e |-> anc[i]], [i \in 1 .. e |-> lab[i]], e, anc[e])
<1> DEFINE a == [i \in 0 .. e |-> anc[i]]
           b == [i \in 1 .. e |-> lab[i]]
<1>0. e \in Nat /\ e <= d
  OBVIOUS
<1>1. /\ anc \in [0 .. d -> Nat] /\ lab \in [1 .. d -> Nat] /\ anc[0] = 0
      /\ \A i \in 1 .. d : anc[i - 1] \in Inner(t) /\ lab[i] \in t.mask[anc[i - 1]] /\ Child(t, anc[i - 1], lab[i]) = anc[i]
  BY DEF PathTo
<1>2. a \in [0 .. e -> Nat] /\ b \in [1 .. e -> Nat] /\ a[0] = 0 /\ a[e] = anc[e]
  BY <1>0, <1>1
<1>3. ASSUME NEW i \in 1 .. e
      PROVE  a[i - 1] \in Inner(t) /\ b[i] \in t.mask[a[i - 1]] /\ Child(t, a[i - 1], b[i]) = a[i]
  <2>1. i \in 1 .. d /\ i - 1 \in 0 .. e /\ i \in 0 .. e
    BY <1>0
  <2> QED
    BY <1>1, <2>1
<1> HIDE DEF a, b
<1>4. PathTo(t, a, b, e, anc[e])
  BY <1>2, <1>3 DEF PathTo
<1> QED
  BY <1>4 DEF a, b

\* Fewer labels lead to the nodes above.
LEMMA WalkPrefix ==
  ASSUME NEW t, NEW d \in Nat, NEW c, NEW anc, NEW lab, PathTo(t, anc, lab, d, c), NEW e \in 0 .. d
  PROVE  Walk(t, lab, e) = anc[e]
<1> DEFINE b == [i \in 1 .. e |-> lab[i]]
<1>1. e \in Nat
  OBVIOUS
<1> DEFINE a == [i \in 0 .. e |-> anc[i]]
<1>5. PathTo(t, a, b, e, anc[e])
  BY PathPrefix
<1>2. Walk(t, b, e) = anc[e]
  <2> HIDE DEF a, b
  <2> QED
    BY <1>1, <1>5, WalkIs
<1>3. \A f : [i \in 0 .. e |-> IF i = 0 THEN 0 ELSE Child(t, f[i - 1], b[i])]
              = [i \in 0 .. e |-> IF i = 0 THEN 0 ELSE Child(t, f[i - 1], lab[i])]
  <2>1. \A i \in 0 .. e : i # 0 => b[i] = lab[i]
    OBVIOUS
  <2> HIDE DEF b
  <2> QED
    BY <2>1
<1>4. Walk(t, b, e) = Walk(t, lab, e)
  <2> HIDE DEF b
  <2> QED
    BY <1>3 DEF Walk
<1> QED
  BY <1>2, <1>4

\* lineage, going up by links, finds the labels of the way down.
LEMMA LineageIs ==
  ASSUME NEW t, WellFormed(t), NEW x, NEW anc, NEW lab, PathTo(t, anc, lab, Deep(t), x)
  PROVE  Lineage(t, x) = lab
<1> DEFINE h == Deep(t)
           Def(f) == f = [d \in 1 .. h |-> ParentLink(t, IF d = h THEN x ELSE f[d + 1][1], d)]
           link == CHOOSE f : Def(f)
           g == [d \in 1 .. h |-> <<anc[d - 1], lab[d]>>]
<1>0. h \in Nat /\ h \in 0 .. Deep(t)
  BY TreeShape
<1>1. /\ anc \in [0 .. h -> Nat] /\ lab \in [1 .. h -> Nat] /\ anc[0] = 0 /\ anc[h] = x
      /\ \A e \in 1 .. h : anc[e - 1] \in Inner(t) /\ lab[e] \in t.mask[anc[e - 1]] /\ Child(t, anc[e - 1], lab[e]) = anc[e]
  BY DEF PathTo
<1>2. \A e \in 0 .. h : At(t, e, anc[e])
  BY <1>0, PathLevels
<1>3. ASSUME NEW d \in 1 .. h PROVE ParentLink(t, anc[d], d) = <<anc[d - 1], lab[d]>>
  <2>1. anc[d - 1] \in Inner(t) /\ lab[d] \in t.mask[anc[d - 1]] /\ Child(t, anc[d - 1], lab[d]) = anc[d]
    BY <1>1
  <2>2. d - 1 \in 0 .. h /\ (d - 1) + 1 = d
    BY <1>0
  <2>3. anc[d - 1] \in t.level[d - 1] .. (t.level[d] - 1)
    BY <1>2, <2>2 DEF At
  <2> QED
    BY <2>1, <2>3, ParentLinkIs
<1> HIDE DEF h
<1>4. Def(g)
  <2>1. ASSUME NEW d \in 1 .. h PROVE g[d] = ParentLink(t, IF d = h THEN x ELSE g[d + 1][1], d)
    <3>1. CASE d = h
      BY <1>1, <1>3, <3>1
    <3>2. CASE d # h
      <4>1. d + 1 \in 1 .. h /\ (d + 1) - 1 = d
        BY <1>0, <3>2
      <4>2. g[d + 1][1] = anc[d]
        BY <4>1
      <4> QED
        BY <1>3, <3>2, <4>2
    <3> QED
      BY <3>1, <3>2
  <2> QED
    BY <2>1
<1>5. Def(link)
  <2> HIDE DEF Def
  <2> QED
    BY <1>4
<1>6. \A d \in 1 .. h : link[d] = ParentLink(t, IF d = h THEN x ELSE link[d + 1][1], d)
  <2> HIDE DEF link
  <2> QED
    BY <1>5
<1>7. Lineage(t, x) = [d \in 1 .. h |-> link[d][2]]
  BY DEF Lineage, h
<1> HIDE DEF Def, link, g
<1> DEFINE G == {k \in Nat : k < h => link[h - k] = <<anc[(h - k) - 1], lab[h - k]>>}
<1>8. 0 \in G
  <2>1. 0 < h => h \in 1 .. h /\ h - 0 = h
    BY <1>0
  <2> QED
    BY <1>1, <1>3, <1>6, <2>1
<1>9. ASSUME NEW k \in G PROVE k + 1 \in G
  <2>0. k \in Nat
    OBVIOUS
  <2> SUFFICES ASSUME k + 1 < h PROVE link[h - (k + 1)] = <<anc[(h - (k + 1)) - 1], lab[h - (k + 1)]>>
    BY <2>0
  <2> DEFINE d == h - (k + 1)
  <2>1. d \in 1 .. h /\ d # h /\ d + 1 = h - k /\ (h - k) - 1 = d
    BY <1>0, <2>0
  <2>2. link[d + 1] = <<anc[d], lab[d + 1]>>
    BY <1>0, <2>0, <2>1
  <2> HIDE DEF d
  <2>3. link[d] = ParentLink(t, anc[d], d)
    BY <1>6, <2>1, <2>2
  <2>4. link[d] = <<anc[d - 1], lab[d]>>
    BY <1>3, <2>1, <2>3
  <2> QED
    BY <2>4 DEF d
<1>10. G = Nat
  <2>1. G \in SUBSET Nat
    OBVIOUS
  <2> HIDE DEF G
  <2> QED
    BY <1>8, <1>9, <2>1, AllNumbers
<1>11. ASSUME NEW d \in 1 .. h PROVE link[d][2] = lab[d]
  <2>1. h - d \in Nat /\ h - d < h /\ h - (h - d) = d
    BY <1>0
  <2>2. h - d \in G
    BY <1>10, <2>1
  <2>3. link[d] = <<anc[d - 1], lab[d]>>
    BY <2>1, <2>2
  <2> QED
    BY <2>3
<1>12. [d \in 1 .. h |-> link[d][2]] = lab
  BY <1>1, <1>11
<1> QED
  BY <1>7, <1>12

\* Every leaf has a way from the root, with its lineage as labels.
LEMMA LeafPath ==
  ASSUME NEW t, WellFormed(t), NEW x \in Leaves(t)
  PROVE  \E anc : PathTo(t, anc, Lineage(t, x), Deep(t), x)
<1>1. Deep(t) \in 0 .. Deep(t) /\ At(t, Deep(t), x)
  BY TreeShape DEF At, Leaves, LeafBegin
<1>2. PICK anc, lab : PathTo(t, anc, lab, Deep(t), x)
  BY <1>1, PathExists
<1>3. Lineage(t, x) = lab
  BY <1>2, LineageIs
<1> QED
  BY <1>2, <1>3

\* The ancestor of a leaf is the node of its way.
LEMMA AncestorIs ==
  ASSUME NEW t, WellFormed(t), NEW x, NEW anc, NEW lab, PathTo(t, anc, lab, Deep(t), x), NEW d \in 0 .. Deep(t)
  PROVE  Ancestor(t, x, d) = anc[d]
<1>1. Lineage(t, x) = lab
  BY LineageIs
<1>2. Ancestor(t, x, d) = Walk(t, Lineage(t, x), d)
  BY DEF Ancestor, Walk
<1>3. Deep(t) \in Nat
  BY TreeShape
<1> QED
  BY <1>1, <1>2, <1>3, WalkPrefix

\* The lineage of a leaf leads to it.
LEMMA DescentInverse ==
  ASSUME NEW t, WellFormed(t), NEW x \in Leaves(t)
  PROVE  Descend(t, Lineage(t, x)) = x
<1>1. PICK anc : PathTo(t, anc, Lineage(t, x), Deep(t), x)
  BY LeafPath
<1> QED
  BY <1>1, DescendIs

-----------------------------------------------------------------------------
\* Compaction: the nodes that are live move to their rank among the live ones.
LiveAbove(t, nodes) ==
  /\ nodes \in SUBSET (0 .. (EndNode(t) - 1)) /\ 0 \in nodes
  /\ \A n \in Inner(t) : n \in nodes <=> \E l \in t.mask[n] : Child(t, n, l) \in nodes

Remaining(t, nodes, n) == {l \in t.mask[n] : Child(t, n, l) \in nodes}

Compacted(t, nodes, new) ==
  /\ new.level = [d \in 0 .. (Deep(t) + 1) |-> Rank(nodes, t.level[d])]
  /\ new.mask \in [0 .. (Rank(nodes, LeafBegin(t)) - 1) -> SUBSET Label]
  /\ \A n \in nodes \cap Inner(t) : new.mask[Rank(nodes, n)] = Remaining(t, nodes, n)

\* Between two numbers, the rank grows by the members between them.
LEMMA RankBetween ==
  ASSUME NEW S \in SUBSET Nat, NEW m \in Nat, NEW n \in Nat, m <= n
  PROVE  /\ Rank(S, n) = Rank(S, m) + Cardinality({k \in S : m <= k /\ k < n})
         /\ Cardinality({k \in S : m <= k /\ k < n}) \in Nat
         /\ IsFiniteSet({k \in S : m <= k /\ k < n})
<1> DEFINE X == {k \in S : m <= k /\ k < n}
<1>1. \A k \in S : k < n <=> k < m \/ (m <= k /\ k < n)
  OBVIOUS
<1>2. Below(S, n) = Below(S, m) \cup X
  BY <1>1 DEF Below
<1>3. \A k \in S : ~ (k < m /\ m <= k)
  OBVIOUS
<1>4. Below(S, m) \cap X = {}
  BY <1>3 DEF Below
<1>5. IsFiniteSet(Below(S, n)) /\ IsFiniteSet(Below(S, m)) /\ Rank(S, m) \in Nat
  BY RankType
<1>6. X \in SUBSET Below(S, n)
  BY <1>2
<1> HIDE DEF X
<1>7. IsFiniteSet(X) /\ Cardinality(X) \in Nat
  BY <1>5, <1>6, FS_Subset, FS_CardinalityType
<1>8. Cardinality(Below(S, m) \cup X) = Cardinality(Below(S, m)) + Cardinality(X) - Cardinality(Below(S, m) \cap X)
  BY <1>5, <1>7, FS_Union
<1>9. Cardinality(Below(S, m) \cap X) = 0
  BY <1>4, FS_EmptySet
<1>10. Rank(S, n) = Rank(S, m) + (Cardinality(X) - 0)
  BY <1>2, <1>8, <1>9 DEF Rank
<1>11. Rank(S, n) = Rank(S, m) + Cardinality(X)
  BY <1>5, <1>7, <1>10
<1> QED
  BY <1>7, <1>11 DEF X

\* A block of nodes that stand for the elements of S, in order: the rank of each one.
LEMMA BlockRank ==
  ASSUME NEW S \in SUBSET Nat, NEW nodes \in SUBSET Nat, NEW base \in Nat, NEW b \in Nat
  PROVE  Rank(nodes, base + Rank(S, b)) = Rank(nodes, base) + Rank({l \in S : base + Rank(S, l) \in nodes}, b)
<1> DEFINE K == {l \in S : base + Rank(S, l) \in nodes}
           G == {j \in Nat : Rank(nodes, base + Rank(S, j)) = Rank(nodes, base) + Rank(K, j)}
<1>1. K \in SUBSET Nat
  OBVIOUS
<1>2. 0 \in G
  <2>1. Rank(S, 0) = 0 /\ Rank(K, 0) = 0 /\ Rank(nodes, base) \in Nat
    BY <1>1, RankZero, RankType
  <2> HIDE DEF K
  <2> QED
    BY <2>1
<1>3. ASSUME NEW j \in G PROVE j + 1 \in G
  <2>0. j \in Nat /\ Rank(nodes, base + Rank(S, j)) = Rank(nodes, base) + Rank(K, j)
    OBVIOUS
  <2>1. Rank(S, j + 1) = IF j \in S THEN Rank(S, j) + 1 ELSE Rank(S, j)
    BY <2>0, RankStep
  <2>2. Rank(K, j + 1) = IF j \in K THEN Rank(K, j) + 1 ELSE Rank(K, j)
    BY <1>1, <2>0, RankStep
  <2>3. Rank(S, j) \in Nat /\ Rank(K, j) \in Nat /\ Rank(nodes, base) \in Nat /\ base + Rank(S, j) \in Nat
    BY <1>1, <2>0, RankType
  <2>4. Rank(nodes, (base + Rank(S, j)) + 1) = IF base + Rank(S, j) \in nodes THEN Rank(nodes, base + Rank(S, j)) + 1
                                                                       ELSE Rank(nodes, base + Rank(S, j))
    BY <2>3, RankStep
  <2>5. j \in K <=> j \in S /\ base + Rank(S, j) \in nodes
    OBVIOUS
  <2>6. j + 1 \in Nat /\ (base + Rank(S, j)) + 1 = base + (Rank(S, j) + 1)
    BY <2>0, <2>3
  <2> HIDE DEF K
  <2>7. Rank(nodes, base + Rank(S, j + 1)) = Rank(nodes, base) + Rank(K, j + 1)
    <3>1. CASE j \in S /\ base + Rank(S, j) \in nodes
      BY <2>0, <2>1, <2>2, <2>3, <2>4, <2>5, <2>6, <3>1
    <3>2. CASE j \in S /\ base + Rank(S, j) \notin nodes
      BY <2>0, <2>1, <2>2, <2>3, <2>4, <2>5, <2>6, <3>2
    <3>3. CASE j \notin S
      BY <2>0, <2>1, <2>2, <2>3, <2>5, <3>3
    <3> QED
      BY <3>1, <3>2, <3>3
  <2> QED
    BY <2>6, <2>7
<1>4. G = Nat
  <2>1. G \in SUBSET Nat
    OBVIOUS
  <2> HIDE DEF G
  <2> QED
    BY <1>2, <1>3, <2>1, AllNumbers
<1> QED
  BY <1>4

\* Live nodes are nodes of the tree.
LEMMA NodesType ==
  ASSUME NEW t, WellFormed(t), NEW nodes, LiveAbove(t, nodes)
  PROVE  nodes \in SUBSET Nat /\ \A c \in nodes : c < EndNode(t)
  BY TreeShape DEF LiveAbove

\* The live children of a node, whether it is live or not.
LEMMA ChildrenRank ==
  ASSUME NEW t, WellFormed(t), NEW nodes \in SUBSET Nat, NEW n \in Inner(t)
  PROVE  /\ \A l \in t.mask[n] :
              Rank(nodes, Child(t, n, l)) = Rank(nodes, Before(t, n) + 1) + Rank(Remaining(t, nodes, n), l)
         /\ Rank(nodes, Before(t, n + 1) + 1) = Rank(nodes, Before(t, n) + 1) + Cardinality(Remaining(t, nodes, n))
         /\ Remaining(t, nodes, n) \in SUBSET Nat /\ IsFiniteSet(Remaining(t, nodes, n))
         /\ Cardinality(Remaining(t, nodes, n)) \in Nat
<1> DEFINE S == t.mask[n]
           base == Before(t, n) + 1
           K == {l \in S : base + Rank(S, l) \in nodes}
<1>1. S \in SUBSET Nat /\ IsFiniteSet(S) /\ base \in Nat /\ Cardinality(S) \in Nat
      /\ Before(t, n + 1) + 1 = base + Cardinality(S)
  BY Masks
<1>2. \A l \in S : Child(t, n, l) = base + Rank(S, l) /\ l \in Nat
  BY ChildRange
<1>3. K = Remaining(t, nodes, n)
  BY <1>2 DEF Remaining
<1>4. K \in SUBSET S
  OBVIOUS
<1> HIDE DEF base, S
<1>5. \A b \in Nat : Rank(nodes, base + Rank(S, b)) = Rank(nodes, base) + Rank(K, b)
  BY <1>1, BlockRank
<1>6. PICK b \in Nat : \A m \in S : m < b
  BY <1>1, FiniteBounded
<1>7. K \in SUBSET Nat /\ \A m \in K : m < b
  BY <1>1, <1>4, <1>6
<1> HIDE DEF K
<1>8. Rank(S, b) = Cardinality(S) /\ Rank(K, b) = Cardinality(K) /\ IsFiniteSet(K)
  BY <1>1, <1>6, <1>7, RankWhole
<1>9. Cardinality(K) \in Nat
  BY <1>8, FS_CardinalityType
<1>10. Rank(nodes, Before(t, n + 1) + 1) = Rank(nodes, base) + Cardinality(K)
  BY <1>1, <1>5, <1>6, <1>8
<1>11. \A l \in S : Rank(nodes, Child(t, n, l)) = Rank(nodes, base) + Rank(K, l)
  BY <1>2, <1>5
<1> QED
  BY <1>3, <1>7, <1>8, <1>9, <1>10, <1>11 DEF S, base

\* The mask of a moved node has the labels of its live children.
LEMMA CompactedMask ==
  ASSUME NEW t, WellFormed(t), NEW nodes, LiveAbove(t, nodes), NEW new, Compacted(t, nodes, new),
         NEW n \in nodes \cap Inner(t)
  PROVE  /\ new.mask[Rank(nodes, n)] = Remaining(t, nodes, n)
         /\ new.mask[Rank(nodes, n)] \subseteq Label /\ new.mask[Rank(nodes, n)] # {}
         /\ Rank(nodes, n) \in Nat
<1>1. new.mask[Rank(nodes, n)] = Remaining(t, nodes, n)
  BY DEF Compacted
<1>2. Remaining(t, nodes, n) \subseteq Label
  BY TreeShape DEF Remaining
<1>3. Remaining(t, nodes, n) # {}
  BY DEF LiveAbove, Remaining
<1>4. nodes \in SUBSET Nat /\ n \in Nat
  BY NodesType, Masks
<1> QED
  BY <1>1, <1>2, <1>3, <1>4, RankType

\* Compaction keeps the bits before a node in step with the live nodes before its children.
LEMMA CompactedBefore ==
  ASSUME NEW t, WellFormed(t), NEW nodes, LiveAbove(t, nodes), NEW new, Compacted(t, nodes, new),
         NEW n \in 0 .. LeafBegin(t)
  PROVE  /\ Before(new, Rank(nodes, n)) + 1 = Rank(nodes, Before(t, n) + 1)
         /\ Before(new, Rank(nodes, n)) \in Nat
<1> DEFINE P(k) == Before(new, Rank(nodes, k)) + 1 = Rank(nodes, Before(t, k) + 1)
           G == {k \in Nat : k <= LeafBegin(t) => P(k)}
<1>1. nodes \in SUBSET Nat /\ LeafBegin(t) \in Nat
  BY NodesType, TreeShape
<1>2. P(0)
  <2>1. Rank(nodes, 0) = 0 /\ Before(t, 0) = 0 /\ Before(new, 0) = 0
    BY <1>1, RankZero, BeforeZero
  <2>2. Rank(nodes, 0 + 1) = Rank(nodes, 0) + 1
    BY <1>1, RankStep DEF LiveAbove
  <2> QED
    BY <2>1, <2>2
<1>3. ASSUME NEW k \in Nat, k + 1 <= LeafBegin(t), P(k) PROVE P(k + 1)
  <2>1. k \in Inner(t)
    BY <1>1, <1>3 DEF Inner
  <2>2. /\ Rank(nodes, Before(t, k + 1) + 1) = Rank(nodes, Before(t, k) + 1) + Cardinality(Remaining(t, nodes, k))
        /\ Cardinality(Remaining(t, nodes, k)) \in Nat
    BY <1>1, <2>1, ChildrenRank
  <2>3. Rank(nodes, k + 1) = IF k \in nodes THEN Rank(nodes, k) + 1 ELSE Rank(nodes, k)
    BY <1>1, RankStep
  <2>4. Rank(nodes, k) \in Nat /\ Before(t, k) \in Nat
    BY <1>1, <2>1, RankType, Masks
  <2>5. Before(new, Rank(nodes, k)) \in Nat
    BY <2>4, BeforeOrder
  <2>6. CASE k \in nodes
    <3>1. new.mask[Rank(nodes, k)] = Remaining(t, nodes, k) /\ new.mask[Rank(nodes, k)] \subseteq Label
      BY <2>1, <2>6, CompactedMask
    <3>2. Before(new, Rank(nodes, k) + 1) = Before(new, Rank(nodes, k)) + Cardinality(new.mask[Rank(nodes, k)])
      BY <2>4, <3>1, BeforeStep
    <3> QED
      BY <1>3, <2>2, <2>3, <2>5, <2>6, <3>1, <3>2
  <2>7. CASE k \notin nodes
    <3>1. Remaining(t, nodes, k) = {}
      BY <2>1, <2>7 DEF Remaining, LiveAbove
    <3>2. Cardinality(Remaining(t, nodes, k)) = 0
      BY <3>1, FS_EmptySet
    <3>3. Rank(nodes, Before(t, k) + 1) \in Nat
      BY <1>1, <2>4, RankType
    <3> QED
      BY <1>3, <2>2, <2>3, <2>5, <2>7, <3>2, <3>3
  <2> QED
    BY <2>6, <2>7
<1> HIDE DEF P
<1>4. 0 \in G /\ \A k \in G : k + 1 \in G
  <2>1. 0 \in G
    BY <1>2
  <2>2. ASSUME NEW k \in G PROVE k + 1 \in G
    <3>1. k \in Nat /\ (k <= LeafBegin(t) => P(k))
      OBVIOUS
    <3>2. CASE k + 1 <= LeafBegin(t)
      BY <1>1, <1>3, <3>1, <3>2
    <3> QED
      BY <3>1, <3>2
  <2> QED
    BY <2>1, <2>2
<1>5. G = Nat
  <2>1. G \in SUBSET Nat
    OBVIOUS
  <2> HIDE DEF G
  <2> QED
    BY <1>4, <2>1, AllNumbers
<1>6. n \in Nat /\ n <= LeafBegin(t)
  BY <1>1
<1>7. P(n)
  BY <1>5, <1>6
<1>8. Before(new, Rank(nodes, n)) \in Nat
  BY <1>1, <1>6, RankType, BeforeOrder
<1> QED
  BY <1>7, <1>8 DEF P

-----------------------------------------------------------------------------
\* A compacted tree is well formed and holds the live leaves' ways, in the same order.
LEMMA CompactedShape ==
  ASSUME NEW t, WellFormed(t), NEW nodes, LiveAbove(t, nodes), NEW new, Compacted(t, nodes, new)
  PROVE  /\ Deep(new) = Deep(t) /\ LeafBegin(new) = Rank(nodes, LeafBegin(t))
         /\ EndNode(new) = Rank(nodes, EndNode(t)) /\ WellFormed(new) /\ NoDeadEnd(new)
<1> DEFINE deep == Deep(t)
<1>1. nodes \in SUBSET Nat /\ deep \in Nat /\ t.level \in [0 .. (deep + 1) -> Nat] /\ 0 \in nodes
  BY NodesType, TreeShape DEF LiveAbove
<1>2. Deep(new) = deep
  <2>1. DOMAIN new.level = 0 .. (deep + 1)
    BY DEF Compacted
  <2>2. Cardinality(0 .. (deep + 1)) = deep + 2
    <3>1. 0 \in Int /\ deep + 1 \in Int /\ 0 <= deep + 1 /\ (deep + 1) - 0 + 1 = deep + 2
      BY <1>1
    <3> QED
      BY <1>1, <3>1, FS_Interval
  <2> QED
    BY <1>1, <2>1, <2>2 DEF Deep
<1>3. \A d \in 0 .. (deep + 1) : new.level[d] = Rank(nodes, t.level[d]) /\ t.level[d] \in Nat
  BY <1>1 DEF Compacted
<1>4. new.level \in [0 .. (deep + 1) -> Nat]
  <2>1. \A d \in 0 .. (deep + 1) : Rank(nodes, t.level[d]) \in Nat
    BY <1>1, RankType
  <2> QED
    BY <2>1 DEF Compacted
<1>5. \A d \in 0 .. deep : d \in 0 .. (deep + 1) /\ d + 1 \in 0 .. (deep + 1)
  BY <1>1
<1>6. \A d \in 0 .. deep : t.level[d] <= LeafBegin(t) /\ t.level[d] <= t.level[d + 1] /\ t.level[d] \in 0 .. LeafBegin(t)
  <2> SUFFICES ASSUME NEW d \in 0 .. deep
               PROVE  t.level[d] <= LeafBegin(t) /\ t.level[d] <= t.level[d + 1] /\ t.level[d] \in 0 .. LeafBegin(t)
    OBVIOUS
  <2>1. d <= deep /\ deep \in 0 .. (deep + 1) /\ d <= d + 1
    BY <1>1
  <2>2. t.level[d] \in Nat /\ t.level[deep] \in Nat /\ t.level[d] <= t.level[deep]
    BY <1>5, <2>1, LevelsOrdered
  <2>3. t.level[d] <= t.level[d + 1]
    BY <1>5, <2>1, LevelsOrdered
  <2> QED
    BY <2>2, <2>3 DEF LeafBegin
<1>7. LeafBegin(new) = Rank(nodes, LeafBegin(t)) /\ EndNode(new) = Rank(nodes, EndNode(t))
  BY <1>1, <1>2, <1>3 DEF LeafBegin, EndNode
<1>8. \A n \in Inner(new) : new.mask[n] \subseteq Label /\ new.mask[n] # {}
  <2> SUFFICES ASSUME NEW n \in Inner(new) PROVE new.mask[n] \subseteq Label /\ new.mask[n] # {}
    OBVIOUS
  <2>1. LeafBegin(t) \in Nat
    BY TreeShape
  <2>2. Rank(nodes, LeafBegin(t)) \in Nat
    BY <1>1, <2>1, RankType
  <2>3. n \in Nat /\ n < Rank(nodes, LeafBegin(t))
    BY <1>7, <2>2 DEF Inner
  <2>4. PICK m \in nodes : m < LeafBegin(t) /\ Rank(nodes, m) = n
    BY <1>1, <2>1, <2>3, RankOnto
  <2>5. m \in nodes \cap Inner(t)
    BY <1>1, <2>1, <2>4 DEF Inner
  <2> QED
    BY <2>4, <2>5, CompactedMask
<1>9. new.level[0] = 0 /\ new.level[1] = 1
  <2>1. t.level[0] = 0 /\ t.level[1] = 1 /\ 0 \in 0 .. (deep + 1) /\ 1 \in 0 .. (deep + 1)
    BY <1>1 DEF WellFormed
  <2>2. Rank(nodes, 0) = 0 /\ Rank(nodes, 0 + 1) = Rank(nodes, 0) + 1
    BY <1>1, RankZero, RankStep
  <2> QED
    BY <1>3, <2>1, <2>2
<1>10. \A d \in 0 .. deep : new.level[d] <= new.level[d + 1]
  BY <1>1, <1>3, <1>5, <1>6, RankOrder
<1>11. \A d \in 0 .. deep : Before(new, new.level[d]) + 1 = new.level[d + 1] /\ Before(new, new.level[d]) \in Nat
  <2> SUFFICES ASSUME NEW d \in 0 .. deep
               PROVE  Before(new, new.level[d]) + 1 = new.level[d + 1] /\ Before(new, new.level[d]) \in Nat
    OBVIOUS
  <2>1. /\ Before(new, Rank(nodes, t.level[d])) + 1 = Rank(nodes, Before(t, t.level[d]) + 1)
        /\ Before(new, Rank(nodes, t.level[d])) \in Nat
    BY <1>6, CompactedBefore
  <2>2. t.level[d + 1] = Before(t, t.level[d]) + 1
    BY LevelBefore
  <2> QED
    BY <1>3, <1>5, <2>1, <2>2
<1>12. \A d \in 0 .. (deep - 1) : Bits(new, new.level[d] .. (new.level[d + 1] - 1)) = new.level[d + 2] - new.level[d + 1]
  <2> SUFFICES ASSUME NEW d \in 0 .. (deep - 1)
               PROVE  Bits(new, new.level[d] .. (new.level[d + 1] - 1)) = new.level[d + 2] - new.level[d + 1]
    OBVIOUS
  <2>1. d \in 0 .. deep /\ d + 1 \in 0 .. deep /\ (d + 1) + 1 = d + 2 /\ d + 2 \in 0 .. (deep + 1)
    BY <1>1
  <2>2. /\ new.level[d] \in Nat /\ new.level[d + 1] \in Nat
        /\ new.level[d] <= new.level[d + 1] /\ new.level[d + 2] \in Nat
    BY <1>4, <1>5, <1>10, <2>1
  <2>3. /\ Bits(new, new.level[d] .. (new.level[d + 1] - 1)) \in Nat
        /\ Before(new, new.level[d + 1]) = Before(new, new.level[d]) + Bits(new, new.level[d] .. (new.level[d + 1] - 1))
    BY <2>2, BeforeSplit
  <2>4. Before(new, new.level[d]) + 1 = new.level[d + 1] /\ Before(new, new.level[d]) \in Nat
    BY <1>11, <2>1
  <2>5. Before(new, new.level[d + 1]) + 1 = new.level[d + 2] /\ Before(new, new.level[d + 1]) \in Nat
    BY <1>11, <2>1
  <2> DEFINE bits == Bits(new, new.level[d] .. (new.level[d + 1] - 1))
             p == Before(new, new.level[d])
             q == Before(new, new.level[d + 1])
  <2>6. bits \in Nat /\ q = p + bits /\ p + 1 = new.level[d + 1] /\ q + 1 = new.level[d + 2] /\ p \in Nat
    BY <2>3, <2>4, <2>5
  <2> HIDE DEF bits, p, q
  <2>7. bits = new.level[d + 2] - new.level[d + 1]
    BY <2>2, <2>6
  <2> QED
    BY <2>7 DEF bits
<1>13. new.mask \in [Inner(new) -> SUBSET Label]
  <2>1. new.mask \in [0 .. (Rank(nodes, LeafBegin(t)) - 1) -> SUBSET Label]
    BY DEF Compacted
  <2> QED
    BY <1>7, <2>1 DEF Inner
<1>14. WellFormed(new)
  BY <1>1, <1>2, <1>4, <1>9, <1>10, <1>12, <1>13 DEF WellFormed
<1> QED
  BY <1>2, <1>7, <1>8, <1>14 DEF NoDeadEnd

\* The child of a moved node is its moved child, under the same label.
LEMMA CompactedChild ==
  ASSUME NEW t, WellFormed(t), NEW nodes, LiveAbove(t, nodes), NEW new, Compacted(t, nodes, new),
         NEW n \in nodes \cap Inner(t), NEW l \in t.mask[n], Child(t, n, l) \in nodes
  PROVE  /\ Rank(nodes, n) \in Inner(new) /\ l \in new.mask[Rank(nodes, n)] /\ Rank(nodes, n) \in Nat
         /\ Child(new, Rank(nodes, n), l) = Rank(nodes, Child(t, n, l))
<1>1. nodes \in SUBSET Nat /\ n \in Nat /\ LeafBegin(t) \in Nat /\ n < LeafBegin(t) /\ l \in Nat
  BY NodesType, TreeShape, ChildRange
<1>2. Rank(nodes, n) \in Nat /\ Rank(nodes, LeafBegin(t)) \in Nat /\ Rank(nodes, n) < Rank(nodes, LeafBegin(t))
  BY <1>1, RankOrder, n \in nodes, n <= LeafBegin(t)
<1>3. WellFormed(new) /\ LeafBegin(new) = Rank(nodes, LeafBegin(t))
  BY CompactedShape
<1>4. Rank(nodes, n) \in Inner(new)
  BY <1>2, <1>3 DEF Inner
<1>5. new.mask[Rank(nodes, n)] = Remaining(t, nodes, n)
  BY CompactedMask
<1>6. l \in Remaining(t, nodes, n)
  BY DEF Remaining
<1>7. Child(new, Rank(nodes, n), l) = Before(new, Rank(nodes, n)) + 1 + Rank(Remaining(t, nodes, n), l)
  BY <1>1, <1>3, <1>4, <1>5, ChildIs
<1>8. Before(new, Rank(nodes, n)) + 1 = Rank(nodes, Before(t, n) + 1)
  BY CompactedBefore, Masks
<1>9. Rank(nodes, Child(t, n, l)) = Rank(nodes, Before(t, n) + 1) + Rank(Remaining(t, nodes, n), l)
  BY <1>1, ChildrenRank
<1> QED
  BY <1>2, <1>4, <1>5, <1>6, <1>7, <1>8, <1>9

\* Everything above a live node is live.
LEMMA LivePath ==
  ASSUME NEW t, WellFormed(t), NEW nodes,
         \A n \in Inner(t) : n \in nodes <=> \E l \in t.mask[n] : Child(t, n, l) \in nodes,
         NEW d \in Nat, NEW c \in nodes, NEW anc, NEW lab, PathTo(t, anc, lab, d, c)
  PROVE  \A e \in 0 .. d : anc[e] \in nodes
<1> DEFINE G == {k \in Nat : k <= d => anc[d - k] \in nodes}
<1>1. 0 \in G
  BY DEF PathTo
<1>2. ASSUME NEW k \in G PROVE k + 1 \in G
  <2> SUFFICES ASSUME k + 1 <= d PROVE anc[d - (k + 1)] \in nodes
    OBVIOUS
  <2>1. k \in Nat /\ k <= d /\ anc[d - k] \in nodes /\ d - k \in 1 .. d /\ (d - k) - 1 = d - (k + 1)
    OBVIOUS
  <2> DEFINE e == d - k
  <2>2. e \in 1 .. d /\ anc[e] \in nodes /\ d - (k + 1) = e - 1
    BY <2>1
  <2> HIDE DEF e
  <2>3. anc[e - 1] \in Inner(t) /\ lab[e] \in t.mask[anc[e - 1]] /\ Child(t, anc[e - 1], lab[e]) = anc[e]
    BY <2>2 DEF PathTo
  <2>4. anc[e - 1] \in nodes
    BY <2>2, <2>3
  <2> QED
    BY <2>2, <2>4
<1>3. G = Nat
  <2>1. G \in SUBSET Nat
    OBVIOUS
  <2> HIDE DEF G
  <2> QED
    BY <1>1, <1>2, <2>1, AllNumbers
<1>4. \A e \in 0 .. d : d - e \in Nat /\ d - e <= d /\ d - (d - e) = e
  OBVIOUS
<1> QED
  BY <1>3, <1>4

\* Moving the nodes of a way gives a way with the same labels.
LEMMA CompactedPath ==
  ASSUME NEW t, WellFormed(t), NEW nodes, LiveAbove(t, nodes), NEW new, Compacted(t, nodes, new),
         NEW d \in Nat, NEW c \in nodes, NEW anc, NEW lab, PathTo(t, anc, lab, d, c)
  PROVE  PathTo(new, [e \in 0 .. d |-> Rank(nodes, anc[e])], lab, d, Rank(nodes, c))
<1> DEFINE new_anc == [e \in 0 .. d |-> Rank(nodes, anc[e])]
<1>1. nodes \in SUBSET Nat
  BY NodesType
<1>2. \A e \in 0 .. d : anc[e] \in nodes
  BY LivePath DEF LiveAbove
<1>3. \A e \in 1 .. d : e \in 0 .. d /\ e - 1 \in 0 .. d
  OBVIOUS
<1>4. new_anc \in [0 .. d -> Nat]
  BY <1>1, <1>2, RankType
<1>5. 0 \in 0 .. d /\ d \in 0 .. d /\ anc[0] = 0 /\ anc[d] = c /\ lab \in [1 .. d -> Nat]
  BY DEF PathTo
<1>6. new_anc[0] = 0 /\ new_anc[d] = Rank(nodes, c)
  BY <1>1, <1>5, RankZero
<1>7. ASSUME NEW e \in 1 .. d
      PROVE  /\ new_anc[e - 1] \in Inner(new) /\ lab[e] \in new.mask[new_anc[e - 1]]
             /\ Child(new, new_anc[e - 1], lab[e]) = new_anc[e]
  <2>1. anc[e - 1] \in Inner(t) /\ lab[e] \in t.mask[anc[e - 1]] /\ Child(t, anc[e - 1], lab[e]) = anc[e]
    BY DEF PathTo
  <2>2. anc[e - 1] \in nodes \cap Inner(t) /\ Child(t, anc[e - 1], lab[e]) \in nodes
    BY <1>2, <1>3, <2>1
  <2>3. new_anc[e - 1] = Rank(nodes, anc[e - 1]) /\ new_anc[e] = Rank(nodes, anc[e])
    BY <1>3
  <2> HIDE DEF new_anc
  <2> QED
    BY <2>1, <2>2, <2>3, CompactedChild
<1> HIDE DEF new_anc
<1>8. PathTo(new, new_anc, lab, d, Rank(nodes, c))
  BY <1>4, <1>5, <1>6, <1>7 DEF PathTo
<1> QED
  BY <1>8 DEF new_anc

\* Leaves of the compacted tree by the live leaves' order.
LEMMA CompactedLeaves ==
  ASSUME NEW t, WellFormed(t), NEW nodes, LiveAbove(t, nodes), NEW new, Compacted(t, nodes, new),
         NEW keep, keep = nodes \cap Leaves(t)
  PROVE  /\ IsFiniteSet(keep) /\ Cardinality(keep) \in Nat /\ Cardinality(Leaves(new)) = Cardinality(keep)
         /\ EndNode(new) = LeafBegin(new) + Cardinality(keep)
         /\ \A x \in keep : /\ Rank(nodes, x) = LeafBegin(new) + Cardinality({y \in keep : y < x})
                            /\ Rank(nodes, x) \in Leaves(new)
<1> DEFINE first == LeafBegin(t)
           end == EndNode(t)
<1>1. nodes \in SUBSET Nat /\ first \in Nat /\ end \in Nat /\ first <= end /\ Leaves(t) = first .. (end - 1)
  BY NodesType, TreeShape
<1>2. LeafBegin(new) = Rank(nodes, first) /\ EndNode(new) = Rank(nodes, end) /\ WellFormed(new)
  BY CompactedShape
<1> HIDE DEF first, end
<1>3. \A x \in Nat : first <= x /\ x <= end => {y \in keep : y < x} = {k \in nodes : first <= k /\ k < x}
  <2> SUFFICES ASSUME NEW x \in Nat, first <= x, x <= end
               PROVE  {y \in keep : y < x} = {k \in nodes : first <= k /\ k < x}
    OBVIOUS
  <2>1. \A y \in nodes : y \in keep /\ y < x <=> first <= y /\ y < x
    BY <1>1
  <2> QED
    BY <2>1
<1>4. keep = {y \in keep : y < end}
  BY <1>1
<1>5. /\ Rank(nodes, end) = Rank(nodes, first) + Cardinality(keep)
      /\ Cardinality(keep) \in Nat /\ IsFiniteSet(keep)
  <2>1. keep = {k \in nodes : first <= k /\ k < end}
    BY <1>1, <1>3, <1>4
  <2>2. nodes \in SUBSET Nat /\ first \in Nat /\ end \in Nat /\ first <= end
    BY <1>1
  <2>3. /\ Rank(nodes, end) = Rank(nodes, first) + Cardinality({k \in nodes : first <= k /\ k < end})
        /\ Cardinality({k \in nodes : first <= k /\ k < end}) \in Nat
        /\ IsFiniteSet({k \in nodes : first <= k /\ k < end})
    BY ONLY <2>2, RankBetween
  <2> QED
    BY ONLY <2>1, <2>3
<1>6. Rank(nodes, first) \in Nat
  BY <1>1, RankType
<1>7. Cardinality(Leaves(new)) = Cardinality(keep)
  <2> DEFINE a == Rank(nodes, first)
             b == Rank(nodes, end)
  <2>1. Leaves(new) = a .. (b - 1)
    BY <1>2, TreeShape
  <2>2. a \in Nat /\ b = a + Cardinality(keep)
    BY <1>5, <1>6
  <2> HIDE DEF a, b
  <2>3. a \in Int /\ b - 1 \in Int
    BY <1>5, <2>2
  <2>4. Cardinality(a .. (b - 1)) = Cardinality(keep)
    <3>1. Cardinality(a .. (b - 1)) = IF a > b - 1 THEN 0 ELSE (b - 1) - a + 1
      BY <2>3, FS_Interval
    <3> QED
      BY <1>5, <2>2, <3>1
  <2> QED
    BY <2>1, <2>4
<1>8. \A x \in keep : /\ Rank(nodes, x) = Rank(nodes, first) + Cardinality({y \in keep : y < x})
                      /\ Rank(nodes, first) <= Rank(nodes, x) /\ Rank(nodes, x) < Rank(nodes, end)
                      /\ Rank(nodes, x) \in Nat /\ Rank(nodes, end) \in Nat
  <2> SUFFICES ASSUME NEW x \in keep
               PROVE  /\ Rank(nodes, x) = Rank(nodes, first) + Cardinality({y \in keep : y < x})
                      /\ Rank(nodes, first) <= Rank(nodes, x) /\ Rank(nodes, x) < Rank(nodes, end)
                      /\ Rank(nodes, x) \in Nat /\ Rank(nodes, end) \in Nat
    OBVIOUS
  <2>1. x \in nodes /\ x \in Nat /\ first <= x /\ x < end /\ x <= end
    BY <1>1
  <2>2. {y \in keep : y < x} = {k \in nodes : first <= k /\ k < x}
    BY <1>3, <2>1
  <2>3. Rank(nodes, x) = Rank(nodes, first) + Cardinality({y \in keep : y < x})
    BY <1>1, <2>1, <2>2, RankBetween
  <2> QED
    BY <1>1, <2>1, <2>3, RankOrder
<1>9. \A x \in keep : Rank(nodes, x) \in Leaves(new)
  <2>1. Leaves(new) = Rank(nodes, first) .. (Rank(nodes, end) - 1)
    BY <1>2, TreeShape
  <2> DEFINE a == Rank(nodes, first)
             b == Rank(nodes, end)
  <2>2. ASSUME NEW x \in keep PROVE Rank(nodes, x) \in Leaves(new)
    <3> DEFINE r == Rank(nodes, x)
    <3>1. a <= r /\ r < b /\ r \in Nat /\ b \in Nat /\ a \in Nat /\ Leaves(new) = a .. (b - 1)
      BY <1>6, <1>8, <2>1
    <3> HIDE DEF a, b, r
    <3>2. r \in Leaves(new)
      BY <3>1
    <3> QED
      BY <3>2 DEF r
  <2> QED
    BY <2>2
<1> QED
  BY <1>2, <1>5, <1>7, <1>8, <1>9

\* What compaction preserves: the lineages of the live leaves, and their ancestors.
LEMMA CompactedLineages ==
  ASSUME NEW t, WellFormed(t), NEW nodes, LiveAbove(t, nodes), NEW new, Compacted(t, nodes, new),
         NEW x \in nodes \cap Leaves(t)
  PROVE  /\ Lineage(new, Rank(nodes, x)) = Lineage(t, x)
         /\ \A d \in 0 .. Deep(t) : /\ Ancestor(new, Rank(nodes, x), d) = Rank(nodes, Ancestor(t, x, d))
                                    /\ At(t, d, Ancestor(t, x, d)) /\ Ancestor(t, x, d) \in nodes
<1>1. PICK anc : PathTo(t, anc, Lineage(t, x), Deep(t), x)
  BY LeafPath
<1> DEFINE lab == Lineage(t, x)
           deep == Deep(t)
           way == [e \in 0 .. deep |-> Rank(nodes, anc[e])]
<1>2. deep \in Nat /\ deep \in 0 .. deep /\ PathTo(t, anc, lab, deep, x)
  BY <1>1, TreeShape
<1>3. Deep(new) = deep /\ WellFormed(new)
  BY CompactedShape
<1> HIDE DEF lab, deep
<1>4. PathTo(new, way, lab, deep, Rank(nodes, x))
  BY <1>2, CompactedPath
<1>5. Lineage(new, Rank(nodes, x)) = lab
  BY <1>3, <1>4, LineageIs
<1>6. \A d \in 0 .. deep : Ancestor(new, Rank(nodes, x), d) = way[d] /\ way[d] = Rank(nodes, anc[d])
  BY <1>3, <1>4, AncestorIs
<1>7. \A d \in 0 .. deep : Ancestor(t, x, d) = anc[d] /\ At(t, d, anc[d]) /\ anc[d] \in nodes
  BY <1>2, AncestorIs, PathLevels, LivePath DEF deep, LiveAbove
<1> QED
  BY <1>5, <1>6, <1>7 DEF lab, deep

-----------------------------------------------------------------------------
\* What the phases of a reification share.
Old == in.tree

Level(t, d) == t.level[d] .. (t.level[d + 1] - 1)

\* Whatever is tagged, every node is decided from its children.
Decided(t, nodes) == \A n \in Inner(t) : n \in nodes <=> \E l \in t.mask[n] : Child(t, n, l) \in nodes

\* The node of a rank.
NodeAt(S, p) == CHOOSE n \in S : Rank(S, n) = p

\* The rank tells which member it is of,
LEMMA NodeAtIs ==
  ASSUME NEW S \in SUBSET Nat, NEW n \in S
  PROVE  NodeAt(S, Rank(S, n)) = n
<1>1. \E m \in S : Rank(S, m) = Rank(S, n)
  OBVIOUS
<1>2. NodeAt(S, Rank(S, n)) \in S /\ Rank(S, NodeAt(S, Rank(S, n))) = Rank(S, n)
  BY <1>1 DEF NodeAt
<1> DEFINE m == NodeAt(S, Rank(S, n))
<1> HIDE DEF m
<1>3. m \in S /\ Rank(S, m) = Rank(S, n)
  BY <1>2 DEF m
<1>4. m = n
  BY <1>3, RankInjective
<1> QED
  BY <1>4 DEF m

\* and every rank is some member's.
LEMMA NodeOfRank ==
  ASSUME NEW S \in SUBSET Nat, NEW e \in Nat, NEW p \in Nat, p < Rank(S, e)
  PROVE  /\ NodeAt(S, p) \in S /\ NodeAt(S, p) < e /\ Rank(S, NodeAt(S, p)) = p
<1>1. PICK n \in S : n < e /\ Rank(S, n) = p
  BY RankOnto
<1>2. NodeAt(S, p) = n
  BY <1>1, NodeAtIs
<1> QED
  BY <1>1, <1>2

\* No node of a block of children is tagged when no label leads to a tagged child.
LEMMA ChildBlock ==
  ASSUME NEW t, WellFormed(t), NEW n \in Inner(t), NEW nodes
  PROVE  nodes \cap (FirstChild(t, n) .. (FirstChild(t, n) + Cardinality(t.mask[n]) - 1)) = {}
           <=> ~ \E l \in t.mask[n] : Child(t, n, l) \in nodes
<1> DEFINE first == FirstChild(t, n)
           S == t.mask[n]
           size == Cardinality(S)
           block == first .. (first + size - 1)
<1>1. S \in SUBSET Nat /\ IsFiniteSet(S) /\ size \in Nat /\ first \in Nat
  BY Masks, FirstChildIs
<1>2. \A l \in S : Child(t, n, l) = first + Rank(S, l) /\ Rank(S, l) \in Nat /\ Rank(S, l) < size
  <2> SUFFICES ASSUME NEW l \in S
               PROVE  Child(t, n, l) = first + Rank(S, l) /\ Rank(S, l) \in Nat /\ Rank(S, l) < size
    OBVIOUS
  <2>1. Child(t, n, l) = first + Rank(S, l)
    BY DEF Child, Rank, Below
  <2>2. Rank(S, l) \in Nat /\ Rank(S, l) < size
    BY <1>1, LabelRank
  <2> QED
    BY <2>1, <2>2
<1>3. PICK b \in Nat : \A m \in S : m < b
  BY <1>1, FiniteBounded
<1>4. Rank(S, b) = size
  BY <1>1, <1>3, RankWhole
<1>5. \A c \in block : \E l \in S : Child(t, n, l) = c
  <2> SUFFICES ASSUME NEW c \in block PROVE \E l \in S : Child(t, n, l) = c
    OBVIOUS
  <2> HIDE DEF first, size, S
  <2>1. c - first \in Nat /\ c - first < Rank(S, b) /\ c = first + (c - first)
    BY <1>1, <1>4
  <2>2. PICK l \in S : Rank(S, l) = c - first
    BY <1>1, <1>3, <2>1, RankOnto
  <2> QED
    BY <1>2, <2>1, <2>2
<1>6. \A l \in S : Child(t, n, l) \in block
  BY <1>1, <1>2
<1>7. block = first .. (first + Cardinality(t.mask[n]) - 1)
  OBVIOUS
<1> HIDE DEF block
<1>8. nodes \cap block = {} <=> ~ \E l \in S : Child(t, n, l) \in nodes
  BY <1>5, <1>6
<1> QED
  BY <1>7, <1>8

\* A tagged child is kept, whichever way its position is found.
LEMMA RetainedMaskIs ==
  ASSUME NEW t, NEW n
  PROVE  RetainedMask(t.mask[n], FirstChild(t, n)) = Remaining(t, tags, n)
  BY DEF RetainedMask, Remaining, Child

\* The borders of a level.
LEMMA LevelIs ==
  ASSUME NEW t, WellFormed(t), NEW d \in 0 .. Deep(t)
  PROVE  /\ t.level[d] \in Nat /\ t.level[d + 1] \in Nat /\ t.level[d] <= t.level[d + 1]
         /\ t.level[d + 1] <= EndNode(t) /\ t.level[d] <= LeafBegin(t)
         /\ (d < Deep(t) => t.level[d + 1] <= LeafBegin(t)) /\ Deep(t) \in Nat
         /\ Level(t, d) = {n \in Nat : t.level[d] <= n /\ n < t.level[d + 1]}
<1>1. Deep(t) \in Nat
  BY TreeShape
<1>2. /\ d \in 0 .. (Deep(t) + 1) /\ d + 1 \in 0 .. (Deep(t) + 1) /\ Deep(t) \in 0 .. (Deep(t) + 1)
      /\ Deep(t) + 1 \in 0 .. (Deep(t) + 1) /\ d <= Deep(t) /\ d + 1 <= Deep(t) + 1 /\ d <= d + 1
  BY <1>1
<1>3. t.level[d] \in Nat /\ t.level[d + 1] \in Nat /\ t.level[d] <= t.level[d + 1]
  BY <1>2, LevelsOrdered
<1>4. t.level[d + 1] <= EndNode(t)
  BY <1>2, LevelsOrdered DEF EndNode
<1>5. t.level[d] <= LeafBegin(t)
  BY <1>2, LevelsOrdered DEF LeafBegin
<1>6. d < Deep(t) => t.level[d + 1] <= LeafBegin(t)
  <2>1. d < Deep(t) => d + 1 <= Deep(t)
    BY <1>1
  <2> QED
    BY <1>2, <2>1, LevelsOrdered DEF LeafBegin
<1>7. Level(t, d) = {n \in Nat : t.level[d] <= n /\ n < t.level[d + 1]}
  BY <1>3 DEF Level
<1> QED
  BY <1>1, <1>3, <1>4, <1>5, <1>6, <1>7

\* Every inner node is on a level above the leaves.
LEMMA LevelOf ==
  ASSUME NEW t, WellFormed(t), NEW n \in Nat, n < EndNode(t)
  PROVE  \E d \in 0 .. Deep(t) : n \in Level(t, d)
<1> DEFINE deep == Deep(t)
           G == {k \in Nat : k <= deep + 1 => (n < t.level[k] => \E d \in 0 .. deep : n \in Level(t, d))}
<1>1. deep \in Nat /\ EndNode(t) = t.level[deep + 1] /\ t.level[0] = 0
  BY TreeShape, Levels DEF EndNode
<1>2. 0 \in G
  BY <1>1
<1>3. ASSUME NEW k \in G PROVE k + 1 \in G
  <2> SUFFICES ASSUME k + 1 <= deep + 1, n < t.level[k + 1] PROVE \E d \in 0 .. deep : n \in Level(t, d)
    OBVIOUS
  <2>1. k \in Nat /\ k \in 0 .. deep /\ k <= deep + 1
    BY <1>1
  <2>2. t.level[k] \in Nat /\ Level(t, k) = {m \in Nat : t.level[k] <= m /\ m < t.level[k + 1]}
    BY <2>1, LevelIs
  <2>3. CASE n < t.level[k]
    BY <2>1, <2>3
  <2>4. CASE ~ (n < t.level[k])
    BY <2>1, <2>2, <2>4
  <2> QED
    BY <2>3, <2>4
<1>4. G = Nat
  <2>1. G \in SUBSET Nat
    OBVIOUS
  <2> HIDE DEF G
  <2> QED
    BY <1>2, <1>3, <2>1, AllNumbers
<1>5. deep + 1 \in G
  BY <1>1, <1>4
<1> QED
  BY <1>1, <1>5

\* A tree whose nodes are decided has a leaf when its root is live, and a live root when
\* it has a leaf.
LEMMA RootAlive ==
  ASSUME NEW t, WellFormed(t), NEW nodes, Decided(t, nodes)
  PROVE  0 \in nodes <=> nodes \cap Leaves(t) # {}
<1> DEFINE deep == Deep(t)
           G == {k \in Nat : k <= deep => \E n \in nodes : n \in Level(t, k)}
<1>1. deep \in Nat /\ t.level[0] = 0 /\ t.level[1] = 1
  BY TreeShape, Levels
<1>2. ASSUME 0 \in nodes PROVE nodes \cap Leaves(t) # {}
  <2>1. 0 \in G
    BY <1>1, <1>2 DEF Level
  <2>2. ASSUME NEW k \in G PROVE k + 1 \in G
    <3> SUFFICES ASSUME k + 1 <= deep PROVE \E n \in nodes : n \in Level(t, k + 1)
      OBVIOUS
    <3>1. k \in Nat /\ k <= deep /\ k \in 0 .. deep /\ k \in 0 .. (deep - 1) /\ k < deep
      BY <1>1
    <3>2. PICK n \in nodes : n \in Level(t, k)
      BY <3>1
    <3>3. n \in Inner(t)
      BY <3>1, <3>2, Levels DEF Level
    <3>4. PICK l \in t.mask[n] : Child(t, n, l) \in nodes
      BY <3>3 DEF Decided
    <3>5. Child(t, n, l) \in t.level[k + 1] .. (t.level[k + 2] - 1)
      BY <3>1, <3>2, <3>3, ChildLevel DEF Level
    <3>6. (k + 1) + 1 = k + 2
      BY <3>1
    <3> QED
      BY <3>4, <3>5, <3>6 DEF Level
  <2>3. G = Nat
    <3>1. G \in SUBSET Nat
      OBVIOUS
    <3> HIDE DEF G
    <3> QED
      BY <2>1, <2>2, <3>1, AllNumbers
  <2>4. PICK n \in nodes : n \in Level(t, deep)
    BY <1>1, <2>3
  <2>5. n \in Leaves(t)
    BY <1>1, <2>4, Levels DEF Level
  <2> QED
    BY <2>4, <2>5
<1>3. ASSUME NEW x \in nodes \cap Leaves(t) PROVE 0 \in nodes
  <2>1. PICK anc : PathTo(t, anc, Lineage(t, x), deep, x)
    BY LeafPath
  <2>2. \A e \in 0 .. deep : anc[e] \in nodes
    BY <1>1, <2>1, LivePath DEF Decided
  <2> QED
    BY <1>1, <2>1, <2>2 DEF PathTo
<1> QED
  BY <1>2, <1>3

-----------------------------------------------------------------------------
\* What holds whatever is being done: kept leaves are tagged, and levels are counted.
Basic ==
  /\ in \in Inputs
  /\ tags \subseteq 0 .. (EndNode(Old) - 1) /\ tags \cap Leaves(Old) = in.keep
  /\ live = [d \in 0 .. Height |-> Cardinality(tags \cap Level(Old, d))]

\* What the invariant and the assumption on inputs say of the tree and the tags.
LEMMA BasicFacts ==
  ASSUME Basic
  PROVE  /\ WellFormed(Old) /\ Height = Deep(Old) /\ Height \in Nat \ {0}
         /\ in.keep \subseteq Leaves(Old) /\ in.clauseDepth \in 0 .. Height /\ in.parallel \in BOOLEAN
         /\ tags \in SUBSET Nat /\ \A n \in tags : n < EndNode(Old)
         /\ LeafBegin(Old) \in Nat /\ EndNode(Old) \in Nat /\ 0 < LeafBegin(Old)
         /\ LeafBegin(Old) <= EndNode(Old)
         /\ Inner(Old) = {n \in Nat : n < LeafBegin(Old)}
<1>1. Input(in)
  BY ReifyAssumption DEF Basic
<1>2. WellFormed(Old) /\ Height = Deep(Old) /\ Height > 0
  BY <1>1 DEF Input, Old, Height
<1>3. /\ Height \in Nat /\ LeafBegin(Old) \in Nat /\ EndNode(Old) \in Nat /\ LeafBegin(Old) <= EndNode(Old)
  BY <1>2, TreeShape
<1>4. 0 < LeafBegin(Old)
  <2>1. 1 \in 0 .. (Deep(Old) + 1) /\ Deep(Old) \in 0 .. (Deep(Old) + 1) /\ 1 <= Deep(Old)
    BY <1>2, <1>3
  <2>2. Old.level[1] <= Old.level[Deep(Old)] /\ Old.level[1] = 1
    BY <1>2, <2>1, LevelsOrdered, Levels
  <2> QED
    BY <1>3, <2>2 DEF LeafBegin
<1>5. Inner(Old) = {n \in Nat : n < LeafBegin(Old)}
  BY <1>3 DEF Inner
<1>6. tags \in SUBSET Nat /\ \A n \in tags : n < EndNode(Old)
  BY <1>3 DEF Basic
<1>7. in.keep \subseteq Leaves(Old) /\ in.clauseDepth \in 0 .. Height /\ in.parallel \in BOOLEAN
  BY <1>1 DEF Input, Old, Height
<1> QED
  BY <1>2, <1>3, <1>4, <1>5, <1>6, <1>7

\* Sizes of the levels add up to the level boundaries of the new tree.
LEMMA NewLevelIs ==
  ASSUME Basic
  PROVE  NewLevel = [d \in 0 .. (Height + 1) |-> Rank(tags, Old.level[d])]
<1> DEFINE Def(f) == f = [d \in 0 .. (Height + 1) |-> IF d = 0 THEN 0 ELSE f[d - 1] + live[d - 1]]
           begin == CHOOSE f : Def(f)
           goal == [d \in 0 .. (Height + 1) |-> Rank(tags, Old.level[d])]
<1>1. Height \in Nat /\ Height = Deep(Old) /\ WellFormed(Old) /\ tags \in SUBSET Nat
  BY BasicFacts
<1>2. ASSUME NEW d \in 0 .. Height PROVE Rank(tags, Old.level[d + 1]) = Rank(tags, Old.level[d]) + live[d]
  <2>1. /\ Old.level[d] \in Nat /\ Old.level[d + 1] \in Nat /\ Old.level[d] <= Old.level[d + 1]
        /\ Level(Old, d) = {n \in Nat : Old.level[d] <= n /\ n < Old.level[d + 1]}
    BY <1>1, LevelIs
  <2>2. {k \in tags : Old.level[d] <= k /\ k < Old.level[d + 1]} = tags \cap Level(Old, d)
    BY <1>1, <2>1
  <2>3. live[d] = Cardinality(tags \cap Level(Old, d))
    BY DEF Basic
  <2> QED
    BY <1>1, <2>1, <2>2, <2>3, RankBetween
<1>3. Rank(tags, Old.level[0]) = 0
  BY <1>1, Levels, RankZero
<1> HIDE DEF Def
<1>4. Def(goal)
  <2>1. \A d \in 0 .. (Height + 1) : goal[d] = IF d = 0 THEN 0 ELSE goal[d - 1] + live[d - 1]
    <3> SUFFICES ASSUME NEW d \in 0 .. (Height + 1)
                 PROVE  goal[d] = IF d = 0 THEN 0 ELSE goal[d - 1] + live[d - 1]
      OBVIOUS
    <3>1. CASE d = 0
      BY <1>1, <1>3, <3>1
    <3>2. CASE d # 0
      <4>1. d - 1 \in 0 .. Height /\ d - 1 \in 0 .. (Height + 1) /\ (d - 1) + 1 = d
        BY <1>1, <3>2
      <4>2. Rank(tags, Old.level[(d - 1) + 1]) = Rank(tags, Old.level[d - 1]) + live[d - 1]
        BY <1>2, <4>1
      <4> QED
        BY <3>2, <4>1, <4>2
    <3> QED
      BY <3>1, <3>2
  <2> QED
    BY <2>1 DEF Def
<1>5. Def(begin)
  <2> HIDE DEF goal
  <2> QED
    BY <1>4
<1>6. NewLevel = begin
  BY DEF NewLevel, Def
<1> DEFINE G == {k \in Nat : k <= Height + 1 => begin[k] = goal[k]}
<1> HIDE DEF begin
<1>7. begin = [d \in 0 .. (Height + 1) |-> IF d = 0 THEN 0 ELSE begin[d - 1] + live[d - 1]]
  BY <1>5 DEF Def
<1>8. goal = [d \in 0 .. (Height + 1) |-> IF d = 0 THEN 0 ELSE goal[d - 1] + live[d - 1]]
  BY <1>4 DEF Def
<1>9. 0 \in 0 .. (Height + 1)
  BY <1>1
<1> HIDE DEF goal
<1>10. 0 \in G
  <2>1. begin[0] = 0 /\ goal[0] = 0
    BY <1>7, <1>8, <1>9
  <2> QED
    BY <2>1
<1>11. ASSUME NEW k \in G PROVE k + 1 \in G
  <2> SUFFICES ASSUME k + 1 <= Height + 1 PROVE begin[k + 1] = goal[k + 1]
    OBVIOUS
  <2>1. /\ k \in Nat /\ k <= Height + 1 /\ begin[k] = goal[k]
        /\ k + 1 \in 0 .. (Height + 1) /\ k + 1 # 0 /\ (k + 1) - 1 = k
    BY <1>1
  <2>2. /\ begin[k + 1] = begin[(k + 1) - 1] + live[(k + 1) - 1]
        /\ goal[k + 1] = goal[(k + 1) - 1] + live[(k + 1) - 1]
    BY <1>7, <1>8, <2>1
  <2> QED
    BY <2>1, <2>2
<1>12. G = Nat
  <2>1. G \in SUBSET Nat
    OBVIOUS
  <2> HIDE DEF G
  <2> QED
    BY <1>10, <1>11, <2>1, AllNumbers
<1>13. \A d \in 0 .. (Height + 1) : begin[d] = goal[d]
  BY <1>1, <1>12
<1>14. begin = goal
  BY <1>7, <1>8, <1>13
<1> QED
  BY <1>6, <1>14 DEF goal

\* The live counts of the levels add up to the size of the new tree.
LEMMA RetainedIs ==
  ASSUME Basic
  PROVE  /\ NewLevel[Height] = Rank(tags, LeafBegin(Old)) /\ Retained = Rank(tags, EndNode(Old))
         /\ Rank(tags, LeafBegin(Old)) \in Nat /\ Rank(tags, EndNode(Old)) \in Nat /\ live[Height] \in Nat
         /\ Rank(tags, EndNode(Old)) = Rank(tags, LeafBegin(Old)) + live[Height]
         /\ live[0] = IF 0 \in tags THEN 1 ELSE 0
<1>1. Height \in Nat /\ Height = Deep(Old) /\ WellFormed(Old) /\ tags \in SUBSET Nat
      /\ LeafBegin(Old) \in Nat /\ EndNode(Old) \in Nat /\ LeafBegin(Old) <= EndNode(Old) /\ \A n \in tags : n < EndNode(Old)
  BY BasicFacts
<1>2. /\ Height \in 0 .. (Height + 1) /\ Height + 1 \in 0 .. (Height + 1)
      /\ 0 \in 0 .. Height /\ Height \in 0 .. Height
  BY <1>1
<1>3. NewLevel[Height] = Rank(tags, LeafBegin(Old))
  BY <1>1, <1>2, NewLevelIs DEF LeafBegin
<1>4. Retained = Rank(tags, EndNode(Old))
  BY <1>1, <1>2, NewLevelIs DEF EndNode, Retained
<1>5. live[Height] = Cardinality(tags \cap Level(Old, Height))
  BY <1>2 DEF Basic
<1>6. Level(Old, Height) = {n \in Nat : LeafBegin(Old) <= n /\ n < EndNode(Old)}
  BY <1>1, <1>2, LevelIs DEF LeafBegin, EndNode
<1>7. tags \cap Level(Old, Height) = {k \in tags : LeafBegin(Old) <= k /\ k < EndNode(Old)}
  BY <1>1, <1>6
<1>8. Rank(tags, EndNode(Old)) = Rank(tags, LeafBegin(Old)) + live[Height] /\ live[Height] \in Nat
  BY <1>1, <1>5, <1>7, RankBetween
<1>9. live[0] = IF 0 \in tags THEN 1 ELSE 0
  <2>1. live[0] = Cardinality(tags \cap Level(Old, 0))
    BY <1>2 DEF Basic
  <2>2. Level(Old, 0) = {0}
    <3>1. Level(Old, 0) = 0 .. (1 - 1)
      BY <1>1, Levels DEF Level
    <3> QED
      BY <3>1
  <2>3. CASE 0 \in tags
    <3>1. tags \cap Level(Old, 0) = {0}
      BY <2>2, <2>3
    <3> QED
      BY <2>1, <2>3, <3>1, FS_Singleton
  <2>4. CASE 0 \notin tags
    <3>1. tags \cap Level(Old, 0) = {}
      BY <2>2, <2>4
    <3> QED
      BY <2>1, <2>4, <3>1, FS_EmptySet
  <2> QED
    BY <2>3, <2>4
<1> QED
  BY <1>1, <1>3, <1>4, <1>8, <1>9, RankType

\* Closing is over with the root tagged.
LEMMA ClosedIsLive ==
  ASSUME Basic, Decided(Old, tags)
  PROVE  /\ 0 \in tags <=> in.keep # {}
         /\ 0 \in tags => LiveAbove(Old, tags)
<1>1. WellFormed(Old) /\ tags \cap Leaves(Old) = in.keep
  BY BasicFacts DEF Basic
<1>2. 0 \in tags <=> in.keep # {}
  BY <1>1, RootAlive
<1> QED
  BY <1>2 DEF LiveAbove, Decided, Basic

\* The masks of the new tree by position.
Final(p) == Remaining(Old, tags, NodeAt(tags, p))

Masked(masks) ==
  /\ DOMAIN masks = 0 .. (Rank(tags, LeafBegin(Old)) - 1)
  /\ masks = [p \in DOMAIN masks |-> Final(p)]

\* The mask that a node is to have in the new tree,
LEMMA FinalIs ==
  ASSUME Basic, NEW n \in tags \cap Inner(Old)
  PROVE  /\ Final(Rank(tags, n)) = Remaining(Old, tags, n)
         /\ Rank(tags, n) \in Nat /\ Rank(tags, n) < Rank(tags, LeafBegin(Old))
<1>1. /\ tags \in SUBSET Nat /\ n \in Nat /\ n < LeafBegin(Old) /\ n <= LeafBegin(Old) /\ LeafBegin(Old) \in Nat
  BY BasicFacts
<1>2. NodeAt(tags, Rank(tags, n)) = n
  BY <1>1, NodeAtIs
<1> QED
  BY <1>1, <1>2, RankOrder DEF Final

\* and the node that each of its positions belongs to.
LEMMA FinalType ==
  ASSUME Basic, NEW p \in Nat, p < Rank(tags, LeafBegin(Old))
  PROVE  /\ NodeAt(tags, p) \in tags \cap Inner(Old) /\ Rank(tags, NodeAt(tags, p)) = p
         /\ Final(p) \in SUBSET Label
<1>1. /\ tags \in SUBSET Nat /\ LeafBegin(Old) \in Nat /\ WellFormed(Old)
      /\ Inner(Old) = {n \in Nat : n < LeafBegin(Old)}
  BY BasicFacts
<1>2. NodeAt(tags, p) \in tags /\ NodeAt(tags, p) < LeafBegin(Old) /\ Rank(tags, NodeAt(tags, p)) = p
  BY <1>1, NodeOfRank
<1>3. NodeAt(tags, p) \in Inner(Old)
  BY <1>1, <1>2
<1> QED
  BY <1>1, <1>2, <1>3, TreeShape DEF Final, Remaining

\* With all masks in place, both checks at the end succeed and the compacted tree is stored.
LEMMA StoreRetains ==
  ASSUME Basic, LiveAbove(Old, tags), NEW masks, Masked(masks), Store(masks)
  PROVE  phase' = "done" /\ result' = "retained" /\ Compacted(Old, tags, tree')
<1> DEFINE new == [level |-> NewLevel, mask |-> masks]
<1>1. Height \in Nat /\ Height = Deep(Old) /\ WellFormed(Old) /\ tags \in SUBSET Nat /\ LeafBegin(Old) \in Nat
  BY BasicFacts
<1>2. new.level = [d \in 0 .. (Deep(Old) + 1) |-> Rank(tags, Old.level[d])]
  BY <1>1, NewLevelIs
<1>3. masks \in [0 .. (Rank(tags, LeafBegin(Old)) - 1) -> SUBSET Label]
  <2>1. Rank(tags, LeafBegin(Old)) \in Nat
    BY <1>1, RankType
  <2>2. \A p \in 0 .. (Rank(tags, LeafBegin(Old)) - 1) : Final(p) \in SUBSET Label
    BY <2>1, FinalType
  <2> QED
    BY <2>2 DEF Masked
<1>4. \A n \in tags \cap Inner(Old) : masks[Rank(tags, n)] = Remaining(Old, tags, n)
  <2> SUFFICES ASSUME NEW n \in tags \cap Inner(Old) PROVE masks[Rank(tags, n)] = Remaining(Old, tags, n)
    OBVIOUS
  <2>1. /\ Final(Rank(tags, n)) = Remaining(Old, tags, n) /\ Rank(tags, n) \in Nat
        /\ Rank(tags, n) < Rank(tags, LeafBegin(Old))
    BY FinalIs
  <2>2. Rank(tags, n) \in 0 .. (Rank(tags, LeafBegin(Old)) - 1)
    BY <1>1, <2>1, RankType
  <2> QED
    BY <2>1, <2>2 DEF Masked
<1>5. new.mask = masks
  OBVIOUS
<1>6. tree' = new /\ Finish(IF live[0] # 1 \/ Bits(new, DOMAIN masks) + 1 # Retained THEN "logic_error" ELSE "retained")
  BY DEF Store
<1> HIDE DEF new
<1>7. Compacted(Old, tags, new)
  BY <1>2, <1>3, <1>4, <1>5 DEF Compacted
<1>8. live[0] = 1
  BY RetainedIs DEF LiveAbove
<1>9. Bits(new, DOMAIN masks) + 1 = Retained
  <2>1. /\ WellFormed(new) /\ LeafBegin(new) = Rank(tags, LeafBegin(Old))
        /\ EndNode(new) = Rank(tags, EndNode(Old))
    BY <1>1, <1>7, CompactedShape
  <2>2. EndNode(new) = Before(new, LeafBegin(new)) + 1
    BY <2>1, TreeShape
  <2>3. Before(new, LeafBegin(new)) = Bits(new, DOMAIN masks)
    BY <2>1 DEF Before, Masked
  <2> QED
    BY <2>1, <2>2, <2>3, RetainedIs
<1> QED
  BY <1>6, <1>7, <1>8, <1>9 DEF Finish

-----------------------------------------------------------------------------
\* Tasks of the closing: they share out a level, and no two of them have a tag word in common.
LEMMA MultipleBelow ==
  ASSUME NEW c \in Nat \ {0}, NEW a \in Nat, a % c = 0, NEW x \in Nat, a <= x, x < a + c
  PROVE  a = (x \div c) * c
<1> DEFINE q == a \div c
           r == x \div c
<1>1. q \in Nat /\ a = q * c
  BY SMT
<1>2. r \in Nat /\ r * c <= x /\ x < (r + 1) * c
  BY Quotient
<1> HIDE DEF q, r
<1>3. q = r
  <2>1. CASE q < r
    <3>1. (q + 1) * c <= r * c /\ (q + 1) * c = q * c + c
      BY <1>1, <1>2, <2>1
    <3> QED
      BY <1>1, <1>2, <3>1
  <2>2. CASE r < q
    <3>1. (r + 1) * c <= q * c
      BY <1>1, <1>2, <2>2
    <3> QED
      BY <1>1, <1>2, <3>1
  <2> QED
    BY <1>1, <1>2, <2>1, <2>2
<1> QED
  BY <1>1, <1>3 DEF r

\* The multiple at or below a number.
LEMMA MultipleAt ==
  ASSUME NEW c \in Nat \ {0}, NEW x \in Nat
  PROVE  /\ (x \div c) * c \in Nat /\ ((x \div c) * c) % c = 0
         /\ (x \div c) * c <= x /\ x < (x \div c) * c + c
<1> DEFINE r == x \div c
<1>1. r \in Nat /\ r * c <= x /\ x < (r + 1) * c /\ r * c \in Nat
  BY Quotient
<1> HIDE DEF r
<1>2. (r * c) % c = 0 /\ (r + 1) * c = r * c + c
  BY <1>1
<1> QED
  BY <1>1, <1>2 DEF r

\* Words and tasks are not empty.
LEMMA CloseSizes ==
  /\ NodesPerTagWord \in Nat \ {0} /\ CloseWordsPerTask \in Nat \ {0} /\ CompactNodesPerTask \in Nat \ {0}
  /\ NodesPerTagWord * CloseWordsPerTask \in Nat \ {0}
  BY ReifyAssumption

LEMMA MaxTwo ==
  ASSUME NEW a \in Int, NEW b \in Int
  PROVE  Max({a, b}) = IF a <= b THEN b ELSE a
<1> DEFINE top == IF a <= b THEN b ELSE a
<1>1. top \in {a, b} /\ \A y \in {a, b} : top >= y
  OBVIOUS
<1>2. Max({a, b}) \in {a, b} /\ \A y \in {a, b} : Max({a, b}) >= y
  BY <1>1 DEF Max
<1> QED
  BY <1>2

\* Tasks cover the level, and no tag word is shared by two of them.
LEMMA CloseTasksAre ==
  ASSUME Basic, tree = Old, level \in 0 .. (Height - 1)
  PROVE  /\ \A t \in CloseTasks : /\ t[1] \in Nat /\ t[2] \in Nat /\ t[1] <= t[2]
                                  /\ Old.level[level] <= t[1] /\ t[2] <= Old.level[level + 1]
         /\ \A n \in Level(Old, level) : \E t \in CloseTasks : t[1] <= n /\ n < t[2]
         /\ \A t, u \in CloseTasks : \A m, n \in Nat :
              /\ t[1] <= m /\ m < t[2] /\ u[1] <= n /\ n < u[2]
              /\ m \div NodesPerTagWord = n \div NodesPerTagWord
              => t = u
<1> DEFINE W == NodesPerTagWord
           C == CloseWordsPerTask
           size == W * C
           begin == Old.level[level]
           end == Old.level[level + 1]
           firstWord == begin \div W
           pastWord == (end + W - 1) \div W
           words == {w \in firstWord .. (pastWord - 1) : (w - firstWord) % C = 0}
           low(w) == Max({begin, w * W})
           high(w) == Min({end, w * W + size})
<1>1. CloseTasks = {<<low(w), high(w)>> : w \in words}
  BY DEF CloseTasks
<1>2. W \in Nat \ {0} /\ C \in Nat \ {0} /\ size \in Nat /\ size = W * C
  BY CloseSizes
<1>3. /\ begin \in Nat /\ end \in Nat /\ begin <= end
      /\ \A n \in Level(Old, level) : n \in Nat /\ begin <= n /\ n < end
  <2>1. level \in 0 .. Deep(Old) /\ WellFormed(Old)
    BY BasicFacts
  <2> QED
    BY <2>1, LevelIs
<1> HIDE DEF W, C, begin, end, size
<1>4. firstWord \in Nat /\ firstWord * W <= begin /\ begin < (firstWord + 1) * W
  BY <1>2, <1>3, Quotient
<1>5. pastWord \in Nat /\ pastWord * W <= end + (W - 1) /\ end + (W - 1) < (pastWord + 1) * W
  <2>1. end + (W - 1) \in Nat
    BY <1>2, <1>3
  <2> QED
    BY <1>2, <2>1, Quotient
<1> HIDE DEF firstWord, pastWord
<1>6. ASSUME NEW w \in words
      PROVE  /\ w \in Nat /\ firstWord <= w /\ w < pastWord /\ w - firstWord \in Nat /\ (w - firstWord) % C = 0
             /\ w * W \in Nat /\ w * W < end /\ begin < w * W + size
             /\ low(w) = (IF begin <= w * W THEN w * W ELSE begin)
             /\ high(w) = (IF end <= w * W + size THEN end ELSE w * W + size)
  <2>1. w \in Nat /\ firstWord <= w /\ w < pastWord /\ (w - firstWord) % C = 0
    BY <1>4, <1>5
  <2>2. w - firstWord \in Nat /\ w * W \in Nat
    BY <1>2, <1>4, <2>1
  <2>3. w * W < end
    <3>1. (w + 1) * W <= pastWord * W /\ (w + 1) * W = w * W + W
      BY <1>2, <1>5, <2>1
    <3> DEFINE a == w * W
               b == pastWord * W
    <3>2. a + W <= b /\ b <= end + (W - 1) /\ a \in Nat /\ b \in Nat
      BY <1>2, <1>5, <2>2, <3>1
    <3> HIDE DEF a, b
    <3>3. a < end
      BY <1>2, <1>3, <3>2
    <3> QED
      BY <3>3 DEF a
  <2>4. begin < w * W + size
    <3>1. (firstWord + 1) * W <= (w + 1) * W /\ (w + 1) * W = w * W + W /\ W <= W * C
      BY <1>2, <1>4, <2>1
    <3> DEFINE a == w * W
               b == (firstWord + 1) * W
    <3>2. begin < b /\ b <= a + W /\ W <= size /\ a \in Nat /\ b \in Nat
      BY <1>2, <1>4, <2>2, <3>1
    <3> HIDE DEF a, b
    <3>3. begin < a + size
      BY <1>2, <1>3, <3>2
    <3> QED
      BY <3>3 DEF a
  <2>5. low(w) = (IF begin <= w * W THEN w * W ELSE begin)
    BY <1>3, <2>2, MaxTwo
  <2>6. high(w) = (IF end <= w * W + size THEN end ELSE w * W + size)
    BY <1>2, <1>3, <2>2, MinTwo
  <2> QED
    BY <2>1, <2>2, <2>3, <2>4, <2>5, <2>6
<1> HIDE DEF low, high
<1>7. \A t \in CloseTasks : /\ t[1] \in Nat /\ t[2] \in Nat /\ t[1] <= t[2] /\ begin <= t[1] /\ t[2] <= end
  <2> SUFFICES ASSUME NEW w \in words
               PROVE  low(w) \in Nat /\ high(w) \in Nat /\ low(w) <= high(w) /\ begin <= low(w) /\ high(w) <= end
    BY <1>1
  <2> DEFINE a == w * W
  <2>1. a \in Nat /\ a < end /\ begin < a + size /\ low(w) = (IF begin <= a THEN a ELSE begin)
        /\ high(w) = (IF end <= a + size THEN end ELSE a + size)
    BY <1>6
  <2> HIDE DEF a
  <2> QED
    BY <1>2, <1>3, <2>1
<1>8. ASSUME NEW n \in Level(Old, level) PROVE \E t \in CloseTasks : t[1] <= n /\ n < t[2]
  <2> DEFINE v == n \div W
             x == v - firstWord
             y == (x \div C) * C
             w == firstWord + y
  <2>1. n \in Nat /\ begin <= n /\ n < end
    BY <1>3
  <2>2. v \in Nat /\ v * W <= n /\ n < (v + 1) * W
    BY <1>2, <2>1, Quotient
  <2>3. x \in Nat
    <3>1. begin \div W <= n \div W
      BY <1>2, <1>3, <2>1, QuotientOrder
    <3> QED
      BY <1>4, <2>2, <3>1 DEF firstWord
  <2>4. v < pastWord
    <3>1. ASSUME pastWord <= v PROVE FALSE
      <4>1. pastWord * W <= v * W /\ (pastWord + 1) * W = pastWord * W + W
        BY <1>2, <1>5, <2>2, <3>1
      <4> DEFINE a == pastWord * W
                 b == v * W
      <4>2. a <= b /\ b <= n /\ end + (W - 1) < a + W /\ a \in Nat /\ b \in Nat
        BY <1>2, <1>5, <2>2, <4>1
      <4> HIDE DEF a, b, v
      <4> QED
        BY <1>2, <1>3, <2>1, <4>2
    <3> QED
      BY <1>5, <2>2, <3>1
  <2> HIDE DEF v
  <2>5. y \in Nat /\ y % C = 0 /\ y <= x /\ x < y + C
    BY <1>2, <2>3, MultipleAt
  <2>6. v = firstWord + x
    BY <1>4, <2>2, <2>3
  <2> HIDE DEF x, y
  <2>7. w \in words
    <3>1. w - firstWord = y /\ w \in Nat /\ firstWord <= w /\ w <= pastWord - 1
      BY <1>4, <1>5, <2>2, <2>3, <2>4, <2>5, <2>6
    <3> QED
      BY <1>4, <1>5, <2>5, <3>1
  <2>8. w <= v /\ v + 1 <= w + C /\ w \in Nat
    BY <1>2, <1>4, <2>2, <2>3, <2>5, <2>6
  <2> HIDE DEF w
  <2>9. w * W <= v * W /\ (v + 1) * W <= (w + C) * W /\ (w + C) * W = w * W + size
    BY <1>2, <2>2, <2>8
  <2>10. low(w) <= n /\ n < high(w)
    <3> DEFINE a == w * W
               b == v * W
               d == (v + 1) * W
    <3>1. a <= b /\ b <= n /\ n < d /\ d <= a + size /\ a \in Nat /\ b \in Nat /\ d \in Nat
      BY <1>2, <2>2, <2>8, <2>9
    <3>2. low(w) = (IF begin <= a THEN a ELSE begin) /\ high(w) = (IF end <= a + size THEN end ELSE a + size)
      BY <1>6, <2>7
    <3> HIDE DEF a, b, d
    <3> QED
      BY <1>2, <1>3, <2>1, <3>1, <3>2
  <2> DEFINE a == low(w)
             b == high(w)
             t == <<a, b>>
  <2>11. t \in CloseTasks
    BY <1>1, <2>7
  <2> HIDE DEF a, b
  <2>12. t[1] <= n /\ n < t[2]
    <3>1. t[1] = a /\ t[2] = b
      OBVIOUS
    <3>2. a <= n /\ n < b
      BY <2>10 DEF a, b
    <3> QED
      BY <3>1, <3>2
  <2> HIDE DEF t
  <2> QED
    BY <2>11, <2>12
<1>9. ASSUME NEW w \in words, NEW n \in Nat, low(w) <= n, n < high(w)
      PROVE  /\ n \div W - firstWord \in Nat
             /\ w = firstWord + (((n \div W) - firstWord) \div C) * C
  <2> DEFINE v == n \div W
             x == v - firstWord
             y == w - firstWord
  <2>1. v \in Nat /\ v * W <= n /\ n < (v + 1) * W
    BY <1>2, Quotient
  <2> HIDE DEF v
  <2>2. w * W <= n /\ n < w * W + size /\ w \in Nat
    <3> DEFINE a == w * W
    <3>1. a \in Nat /\ low(w) = (IF begin <= a THEN a ELSE begin) /\ high(w) = (IF end <= a + size THEN end ELSE a + size)
      BY <1>6
    <3> HIDE DEF a
    <3>2. a <= n /\ n < a + size
      BY <1>2, <1>3, <1>9, <3>1
    <3> QED
      BY <1>6, <3>2 DEF a
  <2>3. w <= v
    <3>1. ASSUME v + 1 <= w PROVE FALSE
      <4>1. (v + 1) * W <= w * W
        BY <1>2, <2>1, <2>2, <3>1
      <4>2. (v + 1) * W \in Nat /\ w * W \in Nat
        BY <1>2, <2>1, <2>2
      <4> QED
        BY <2>1, <2>2, <4>1, <4>2
    <3> QED
      BY <2>1, <2>2, <3>1
  <2>4. v < w + C
    <3>1. ASSUME w + C <= v PROVE FALSE
      <4>1. (w + C) * W <= v * W /\ (w + C) * W = w * W + size
        BY <1>2, <2>1, <2>2, <3>1
      <4>2. v * W \in Nat /\ w * W \in Nat
        BY <1>2, <2>1, <2>2
      <4> DEFINE a == w * W
                 b == v * W
      <4>3. a + size <= b /\ b <= n /\ n < a + size /\ a \in Nat /\ b \in Nat
        BY <2>1, <2>2, <4>1, <4>2
      <4> HIDE DEF a, b
      <4> QED
        BY <1>2, <4>3
    <3> QED
      BY <1>2, <2>1, <2>2, <3>1
  <2>5. y \in Nat /\ y % C = 0
    BY <1>6
  <2>6. x \in Nat /\ y <= x /\ x < y + C
    BY <1>2, <1>4, <2>1, <2>2, <2>3, <2>4, <2>5
  <2> HIDE DEF x
  <2>7. y = (x \div C) * C
    BY <1>2, <2>5, <2>6, MultipleBelow
  <2>8. w = firstWord + (x \div C) * C
    BY <1>4, <2>2, <2>7
  <2> QED
    BY <2>6, <2>8 DEF x, v
<1>10. ASSUME NEW t \in CloseTasks, NEW u \in CloseTasks, NEW m \in Nat, NEW n \in Nat,
              t[1] <= m, m < t[2], u[1] <= n, n < u[2], m \div W = n \div W
       PROVE  t = u
  <2>1. PICK v \in words : t = <<low(v), high(v)>>
    BY <1>1
  <2>2. PICK w \in words : u = <<low(w), high(w)>>
    BY <1>1
  <2>3. v = firstWord + (((m \div W) - firstWord) \div C) * C
    BY <1>9, <1>10, <2>1
  <2>4. w = firstWord + (((n \div W) - firstWord) \div C) * C
    BY <1>9, <1>10, <2>2
  <2>5. v = w
    BY <1>10, <2>3, <2>4
  <2> QED
    BY <2>1, <2>2, <2>5
<1> QED
  BY <1>7, <1>8, <1>10 DEF begin, end, W

-----------------------------------------------------------------------------
\* Closing.  Nodes above the level are decided; of the level, those that a task has passed.
Alive(n) == \E l \in Old.mask[n] : Child(Old, n, l) \in tags

Working(t) ==
  /\ t[1] <= task[t] /\ task[t] <= t[2]
  /\ \A n \in Nat : t[1] <= n /\ n < task[t] => (n \in tags <=> Alive(n))
  /\ \A n \in Nat : task[t] <= n /\ n < t[2] => n \notin tags
  /\ loaded[t] # None => task[t] < t[2] /\ Alive(task[t]) /\ loaded[t] = tags \cap TagWord(task[t])

Closing ==
  /\ phase = "close" /\ result = "running" /\ tree = Old /\ clause = <<>>
  /\ cursor = [child |-> 1, write |-> 0, pending |-> <<>>]
  /\ level \in 0 .. (Height - 1)
  /\ ~ in.parallel => tags = in.keep /\ task = <<>>
  /\ \A n \in Inner(Old) : n >= Old.level[level + 1] => (n \in tags <=> Alive(n))
  /\ \A n \in tags : n >= Old.level[level]
  /\ task = <<>> => \A n \in tags : n >= Old.level[level + 1]
  /\ task # <<>> => /\ task \in [CloseTasks -> Nat]
                    /\ loaded = [t \in CloseTasks |-> loaded[t]]
                    /\ \A t \in CloseTasks : Working(t)

Counting ==
  /\ phase = "count" /\ result = "running" /\ tree = Old /\ clause = <<>>
  /\ in.parallel /\ LiveAbove(Old, tags)

\* Position of a node's clause byte.
ClauseAt(n) == Rank(tags, n) - Rank(tags, Old.level[in.clauseDepth - 1])

HasByte(n) == in.clauseDepth > 0 /\ n \in tags \cap Inner(Old) /\ n >= Old.level[in.clauseDepth - 1]

Noted(n) == ClauseAt(n) \in DOMAIN clause /\ clause[ClauseAt(n)] = <<n, Remaining(Old, tags, n)>>

Finished ==
  /\ phase = "done"
  /\ \/ result = "empty" /\ in.keep = {}
     \/ /\ result = "retained" /\ in.keep # {} /\ LiveAbove(Old, tags) /\ Compacted(Old, tags, tree)
        /\ \A n : HasByte(n) => Noted(n)

\* The input does not change,
LEMMA Same ==
  ASSUME in' = in
  PROVE  Old' = Old /\ Height' = Height
  BY DEF Old, Height

\* so what is known of tags and counts stays known while they do not.
LEMMA Shared ==
  ASSUME in' = in, tags' = tags, live' = live, Basic
  PROVE  Basic'
  BY Same DEF Basic

\* At the beginning just the kept leaves are tagged.
LEMMA InitClosing ==
  ASSUME Init
  PROVE  Basic /\ Closing
<1>1. Input(in) /\ in \in Inputs
  BY ReifyAssumption DEF Init
<1>2. WellFormed(Old) /\ Height = Deep(Old) /\ Height > 0 /\ Height \in Nat /\ in.keep \subseteq Leaves(Old)
  BY <1>1, TreeShape DEF Input, Old, Height
<1>3. tags = in.keep /\ live = [d \in 0 .. Height |-> IF d = Height THEN Cardinality(in.keep) ELSE 0] /\ level = Height - 1
  BY DEF Init
<1>4. /\ LeafBegin(Old) \in Nat /\ EndNode(Old) \in Nat /\ Leaves(Old) = LeafBegin(Old) .. (EndNode(Old) - 1)
      /\ LeafBegin(Old) = Old.level[Height]
  BY <1>2, TreeShape DEF LeafBegin
<1>5. ASSUME NEW d \in 0 .. Height
      PROVE  Cardinality(tags \cap Level(Old, d)) = IF d = Height THEN Cardinality(in.keep) ELSE 0
  <2>1. /\ Level(Old, d) = {n \in Nat : Old.level[d] <= n /\ n < Old.level[d + 1]} /\ Old.level[d + 1] \in Nat
        /\ (d < Height => Old.level[d + 1] <= LeafBegin(Old))
    BY <1>2, LevelIs
  <2>2. CASE d = Height
    <3>1. Level(Old, d) = Leaves(Old)
      BY <1>2, <2>2 DEF Leaves, Level, LeafBegin
    <3>2. tags \cap Level(Old, d) = in.keep
      BY <1>2, <1>3, <3>1
    <3> QED
      BY <2>2, <3>2
  <2>3. CASE d # Height
    <3>1. d < Height
      BY <1>2, <2>3
    <3>2. tags \cap Level(Old, d) = {}
      BY <1>2, <1>3, <1>4, <2>1, <3>1
    <3> QED
      BY <2>3, <3>2, FS_EmptySet
  <2> QED
    BY <2>2, <2>3
<1>6. Basic
  <2>1. tags \subseteq 0 .. (EndNode(Old) - 1) /\ tags \cap Leaves(Old) = in.keep
    BY <1>2, <1>3, <1>4
  <2>2. live = [d \in 0 .. Height |-> Cardinality(tags \cap Level(Old, d))]
    BY <1>3, <1>5
  <2> QED
    BY <1>1, <2>1, <2>2 DEF Basic
<1>7. level \in 0 .. (Height - 1) /\ level + 1 = Height /\ level \in 0 .. Deep(Old)
  BY <1>2, <1>3
<1>8. \A n \in tags : n >= Old.level[level + 1] /\ n >= Old.level[level]
  <2>1. Old.level[level] \in Nat /\ Old.level[level] <= LeafBegin(Old)
    BY <1>2, <1>7, LevelIs
  <2> QED
    BY <1>2, <1>3, <1>4, <1>7, <2>1
<1>9. \A n \in Inner(Old) : ~ (n >= Old.level[level + 1])
  BY <1>4, <1>7 DEF Inner
<1>10. phase = "close" /\ result = "running" /\ tree = Old /\ clause = <<>> /\ task = <<>>
       /\ cursor = [child |-> 1, write |-> 0, pending |-> <<>>]
  BY DEF Init, Old
<1> QED
  BY <1>3, <1>6, <1>7, <1>8, <1>9, <1>10 DEF Closing

\* Tasks are set up for a level.
LEMMA CloseBeginStep ==
  ASSUME Basic, Closing, CloseBegin
  PROVE  Basic' /\ Closing'
<1>1. /\ in' = in /\ tree' = tree /\ tags' = tags /\ phase' = phase /\ level' = level /\ live' = live
      /\ clause' = clause /\ cursor' = cursor /\ result' = result /\ in.parallel /\ task = <<>>
      /\ task' = [t \in CloseTasks |-> t[1]] /\ loaded' = [t \in CloseTasks |-> None]
  BY DEF CloseBegin, Shape
<1>2. Old' = Old /\ Height' = Height /\ Basic' /\ CloseTasks' = CloseTasks
  BY <1>1, Same, Shared DEF CloseTasks
<1>3. \A t \in CloseTasks : t[1] \in Nat /\ t[2] \in Nat /\ t[1] <= t[2] /\ t[2] <= Old.level[level + 1]
  BY CloseTasksAre DEF Closing
<1>4. Old.level[level + 1] \in Nat
  <2>1. level \in 0 .. Deep(Old) /\ WellFormed(Old)
    BY BasicFacts DEF Closing
  <2> QED
    BY <2>1, LevelIs
<1>5. ASSUME NEW t \in CloseTasks PROVE Working(t)'
  <2>1. task'[t] = t[1] /\ loaded'[t] = None
    BY <1>1
  <2>2. \A n \in Nat : n < t[2] => n \notin tags
    BY <1>1, <1>3, <1>4 DEF Closing
  <2>3. \A n \in Nat : ~ (t[1] <= n /\ n < t[1])
    BY <1>3
  <2> QED
    BY <1>1, <1>3, <2>1, <2>2, <2>3 DEF Working
<1>6. \A n : Alive(n)' <=> Alive(n)
  BY <1>1, <1>2 DEF Alive
<1>7. task' \in [CloseTasks -> Nat] /\ loaded' = [t \in CloseTasks |-> loaded'[t]]
  BY <1>1, <1>3
<1> QED
  BY <1>1, <1>2, <1>5, <1>6, <1>7 DEF Closing

\* Children of a level's nodes are below the level.
LEMMA ChildBelow ==
  ASSUME NEW t, WellFormed(t), NEW d \in 0 .. Deep(t), NEW n \in Inner(t), n >= t.level[d], NEW l \in t.mask[n]
  PROVE  Child(t, n, l) >= t.level[d + 1]
<1>1. t.level[d] \in Nat /\ n \in Nat /\ t.level[d + 1] = Before(t, t.level[d]) + 1
  BY LevelIs, Masks, LevelBefore
<1>2. Before(t, t.level[d]) <= Before(t, n) /\ Before(t, t.level[d]) \in Nat /\ Before(t, n) \in Nat
  BY <1>1, BeforeOrder
<1>3. Before(t, n) < Child(t, n, l) /\ Child(t, n, l) \in Nat
  BY ChildRange
<1> QED
  BY <1>1, <1>2, <1>3

\* A visit passes a node without a tagged child, or loads the word of its tag.
LEMMA CloseVisitStep ==
  ASSUME Basic, Closing, NEW t \in DOMAIN task, CloseVisit(t)
  PROVE  Basic' /\ Closing'
<1>1. /\ in' = in /\ tree' = tree /\ tags' = tags /\ phase' = phase /\ level' = level /\ live' = live
      /\ clause' = clause /\ cursor' = cursor /\ result' = result /\ task[t] < t[2] /\ loaded[t] = None
  BY DEF CloseVisit, Shape
<1>2. Old' = Old /\ Height' = Height /\ Basic' /\ CloseTasks' = CloseTasks
  BY <1>1, Same, Shared DEF CloseTasks
<1>3. /\ task \in [CloseTasks -> Nat] /\ loaded = [u \in CloseTasks |-> loaded[u]] /\ t \in CloseTasks
      /\ \A u \in CloseTasks : Working(u)
      /\ task # <<>>
  <2>1. task # <<>>
    OBVIOUS
  <2> QED
    BY <2>1 DEF Closing
<1>4. \A n : (Alive(n)' <=> Alive(n)) /\ TagWord(n)' = TagWord(n)
  BY <1>1, <1>2 DEF Alive, TagWord
<1> DEFINE n == task[t]
<1>5. n \in Nat /\ n < t[2] /\ n \notin tags /\ n \in Inner(Old) /\ t[1] <= n /\ t[2] \in Nat /\ t[1] \in Nat
  <2>1. t[1] \in Nat /\ t[2] \in Nat /\ t[2] <= Old.level[level + 1]
    BY <1>3, CloseTasksAre DEF Closing
  <2>2. Old.level[level + 1] \in Nat /\ Old.level[level + 1] <= LeafBegin(Old) /\ LeafBegin(Old) \in Nat
    <3>1. level \in 0 .. Deep(Old) /\ level < Deep(Old) /\ WellFormed(Old)
      BY BasicFacts DEF Closing
    <3> QED
      BY <3>1, LevelIs, TreeShape
  <2>3. n \in Nat /\ t[1] <= n /\ n < t[2] /\ n \notin tags
    BY <1>1, <1>3 DEF Working
  <2>4. n \in Inner(Old)
    BY <2>1, <2>2, <2>3 DEF Inner
  <2> QED
    BY <2>1, <2>3, <2>4
<1>6. tags \cap (FirstChild(tree, n) .. (FirstChild(tree, n) + Cardinality(tree.mask[n]) - 1)) = {} <=> ~ Alive(n)
  <2>1. WellFormed(Old) /\ tree = Old
    BY BasicFacts DEF Closing
  <2> QED
    BY <1>5, <2>1, ChildBlock DEF Alive
<1>7. \/ ~ Alive(n) /\ task' = [task EXCEPT ![t] = @ + 1] /\ loaded' = loaded
      \/ Alive(n) /\ loaded' = [loaded EXCEPT ![t] = tags \cap TagWord(n)] /\ task' = task
  BY <1>6 DEF CloseVisit
<1>8. task' \in [CloseTasks -> Nat] /\ loaded' = [u \in CloseTasks |-> loaded'[u]]
  BY <1>3, <1>7
<1>9. ASSUME NEW u \in CloseTasks, u # t PROVE Working(u)'
  <2>1. task'[u] = task[u] /\ loaded'[u] = loaded[u]
    BY <1>3, <1>7, <1>9
  <2> QED
    BY <1>1, <1>3, <1>4, <2>1 DEF Working
<1>10. Working(t)'
  <2>1. CASE ~ Alive(n) /\ task' = [task EXCEPT ![t] = @ + 1] /\ loaded' = loaded
    <3>1. task'[t] = n + 1 /\ loaded'[t] = None
      BY <1>1, <1>3, <2>1
    <3>2. \A m \in Nat : t[1] <= m /\ m < n + 1 => (m \in tags <=> Alive(m))
      <4>1. \A m \in Nat : m < n + 1 => m < n \/ m = n
        BY <1>5
      <4>2. \A m \in Nat : t[1] <= m /\ m < n => (m \in tags <=> Alive(m))
        BY <1>3 DEF Working
      <4> QED
        BY <1>5, <2>1, <4>1, <4>2
    <3>3. \A m \in Nat : n + 1 <= m /\ m < t[2] => m \notin tags
      <4>1. \A m \in Nat : n + 1 <= m => n <= m
        BY <1>5
      <4>2. \A m \in Nat : n <= m /\ m < t[2] => m \notin tags
        BY <1>3 DEF Working
      <4> QED
        BY <4>1, <4>2
    <3>4. t[1] <= n + 1 /\ n + 1 <= t[2]
      BY <1>5
    <3> HIDE DEF n
    <3> QED
      BY <1>1, <1>4, <3>1, <3>2, <3>3, <3>4 DEF Working
  <2>2. CASE Alive(n) /\ loaded' = [loaded EXCEPT ![t] = tags \cap TagWord(n)] /\ task' = task
    <3>1. task'[t] = n /\ loaded'[t] = tags \cap TagWord(n)
      BY <1>3, <2>2
    <3>2. /\ t[1] <= n /\ n <= t[2]
          /\ \A m \in Nat : t[1] <= m /\ m < n => (m \in tags <=> Alive(m))
          /\ \A m \in Nat : n <= m /\ m < t[2] => m \notin tags
      BY <1>3 DEF Working
    <3> HIDE DEF n
    <3> QED
      BY <1>1, <1>4, <1>5, <2>2, <3>1, <3>2 DEF Working
  <2> QED
    BY <1>7, <2>1, <2>2
<1>11. \A u \in CloseTasks' : Working(u)'
  BY <1>2, <1>9, <1>10
<1>12. task' # <<>>
  BY <1>3, <1>8
<1> QED
  BY <1>1, <1>2, <1>3, <1>4, <1>8, <1>11, <1>12 DEF Closing

\* A store adds the tag of its node and loses none: the word it was read from belongs to the task.
LEMMA CloseStoreStep ==
  ASSUME Basic, Closing, NEW t \in DOMAIN task, CloseStore(t)
  PROVE  Basic' /\ Closing'
<1> DEFINE n == task[t]
<1>1. /\ in' = in /\ tree' = tree /\ phase' = phase /\ level' = level
      /\ clause' = clause /\ cursor' = cursor /\ result' = result
      /\ loaded[t] # None /\ tags' = (tags \ TagWord(n)) \cup loaded[t] \cup {n}
      /\ loaded' = [loaded EXCEPT ![t] = None] /\ task' = [task EXCEPT ![t] = @ + 1]
      /\ live' = [live EXCEPT ![level] = @ + 1]
  BY DEF CloseStore, Shape
<1>2. Old' = Old /\ Height' = Height /\ CloseTasks' = CloseTasks
  BY <1>1, Same DEF CloseTasks
<1>3. /\ task \in [CloseTasks -> Nat] /\ loaded = [u \in CloseTasks |-> loaded[u]] /\ t \in CloseTasks
      /\ \A u \in CloseTasks : Working(u)
      /\ task # <<>>
  <2>1. task # <<>>
    OBVIOUS
  <2> QED
    BY <2>1 DEF Closing
<1>4. WellFormed(Old) /\ Height = Deep(Old) /\ level \in 0 .. Deep(Old) /\ level < Deep(Old) /\ tree = Old
      /\ level \in 0 .. Height /\ Deep(Old) \in Nat /\ tags \in SUBSET Nat
  BY BasicFacts DEF Closing
<1>5. /\ Old.level[level] \in Nat /\ Old.level[level + 1] \in Nat /\ Old.level[level + 1] <= LeafBegin(Old)
      /\ Level(Old, level) = {m \in Nat : Old.level[level] <= m /\ m < Old.level[level + 1]}
      /\ Old.level[level] <= Old.level[level + 1] /\ Old.level[level + 1] <= EndNode(Old)
  BY <1>4, LevelIs
<1>6. /\ n \in Nat /\ t[1] \in Nat /\ t[2] \in Nat /\ t[1] <= n /\ n < t[2] /\ n \notin tags /\ Alive(n)
      /\ Old.level[level] <= n /\ n < Old.level[level + 1] /\ loaded[t] = tags \cap TagWord(n)
  <2>1. t[1] \in Nat /\ t[2] \in Nat /\ t[2] <= Old.level[level + 1] /\ Old.level[level] <= t[1]
    BY <1>3, CloseTasksAre DEF Closing
  <2>2. n \in Nat /\ t[1] <= n /\ n < t[2] /\ n \notin tags /\ Alive(n) /\ loaded[t] = tags \cap TagWord(n)
    BY <1>1, <1>3 DEF Working
  <2> QED
    BY <1>5, <2>1, <2>2
<1> HIDE DEF n
<1>7. tags' = tags \cup {n}
  BY <1>1, <1>6
<1>8. /\ n \in Level(Old, level) /\ n < LeafBegin(Old) /\ n < EndNode(Old)
      /\ LeafBegin(Old) \in Nat /\ EndNode(Old) \in Nat
      /\ LeafBegin(Old) <= EndNode(Old)
  <2>1. LeafBegin(Old) \in Nat /\ EndNode(Old) \in Nat /\ LeafBegin(Old) <= EndNode(Old)
    BY BasicFacts
  <2> QED
    BY <1>5, <1>6, <2>1
<1>9. Basic'
  <2>1. tags' \subseteq 0 .. (EndNode(Old) - 1)
    <3>1. n \in 0 .. (EndNode(Old) - 1)
      BY <1>6, <1>8
    <3>2. tags \subseteq 0 .. (EndNode(Old) - 1)
      BY DEF Basic
    <3> QED
      BY <1>7, <3>1, <3>2
  <2>2. tags' \cap Leaves(Old) = in.keep
    <3>1. n \notin Leaves(Old)
      <4>1. Leaves(Old) = LeafBegin(Old) .. (EndNode(Old) - 1)
        BY <1>4, TreeShape
      <4> QED
        BY <1>6, <1>8, <4>1
    <3> QED
      BY <1>7, <3>1 DEF Basic
  <2>3. ASSUME NEW d \in 0 .. Height
        PROVE  Cardinality(tags' \cap Level(Old, d)) = IF d = level THEN live[d] + 1 ELSE live[d]
    <3>1. live[d] = Cardinality(tags \cap Level(Old, d))
      BY DEF Basic
    <3>2. CASE d = level
      <4>1. tags' \cap Level(Old, d) = (tags \cap Level(Old, d)) \cup {n} /\ n \notin tags \cap Level(Old, d)
        BY <1>6, <1>7, <1>8, <3>2
      <4>2. IsFiniteSet(tags \cap Level(Old, d))
        <5>1. IsFiniteSet(Level(Old, d))
          <6>1. Old.level[level] \in Int /\ Old.level[level + 1] - 1 \in Int
            BY <1>5
          <6>2. IsFiniteSet(Old.level[level] .. (Old.level[level + 1] - 1))
            BY <6>1, FS_Interval
          <6> QED
            BY <3>2, <6>2 DEF Level
        <5> QED
          BY <5>1, FS_Subset
      <4> QED
        BY <3>1, <3>2, <4>1, <4>2, FS_AddElement
    <3>3. CASE d # level
      <4>1. n \notin Level(Old, d)
        <5>1. /\ Old.level[d] \in Nat /\ Old.level[d + 1] \in Nat
              /\ Level(Old, d) = {m \in Nat : Old.level[d] <= m /\ m < Old.level[d + 1]}
          BY <1>4, LevelIs
        <5>2. CASE d < level
          <6>1. d + 1 \in 0 .. (Deep(Old) + 1) /\ level \in 0 .. (Deep(Old) + 1) /\ d + 1 <= level
            BY <1>4, <5>2
          <6>2. Old.level[d + 1] <= Old.level[level]
            BY <1>4, <6>1, LevelsOrdered
          <6> QED
            BY <1>5, <1>6, <5>1, <6>2
        <5>3. CASE level < d
          <6>1. level + 1 \in 0 .. (Deep(Old) + 1) /\ d \in 0 .. (Deep(Old) + 1) /\ level + 1 <= d
            BY <1>4, <5>3
          <6>2. Old.level[level + 1] <= Old.level[d]
            BY <1>4, <6>1, LevelsOrdered
          <6> QED
            BY <1>5, <1>6, <5>1, <6>2
        <5> QED
          BY <1>4, <3>3, <5>2, <5>3
      <4>2. tags' \cap Level(Old, d) = tags \cap Level(Old, d)
        BY <1>7, <4>1
      <4> QED
        BY <3>1, <3>3, <4>2
    <3> QED
      BY <3>2, <3>3
  <2>4. live' = [d \in 0 .. Height |-> Cardinality(tags' \cap Level(Old, d))]
    <3>1. live = [d \in 0 .. Height |-> live[d]]
      BY DEF Basic
    <3>2. live' = [d \in 0 .. Height |-> IF d = level THEN live[d] + 1 ELSE live[d]]
      BY <1>1, <1>4, <3>1
    <3> QED
      BY <2>3, <3>2
  <2> QED
    BY <1>1, <1>2, <2>1, <2>2, <2>4 DEF Basic
<1>10. \A m \in Inner(Old) : m >= Old.level[level] => (Alive(m)' <=> Alive(m))
  <2> SUFFICES ASSUME NEW m \in Inner(Old), m >= Old.level[level] PROVE Alive(m)' <=> Alive(m)
    OBVIOUS
  <2>1. \A l \in Old.mask[m] : Child(Old, m, l) # n
    <3> SUFFICES ASSUME NEW l \in Old.mask[m] PROVE Child(Old, m, l) # n
      OBVIOUS
    <3>1. Child(Old, m, l) >= Old.level[level + 1] /\ Child(Old, m, l) \in Nat
      BY <1>4, ChildBelow, ChildRange
    <3> QED
      BY <1>5, <1>6, <3>1
  <2> QED
    BY <1>2, <1>7, <2>1 DEF Alive
<1>11. \A m : TagWord(m)' = TagWord(m)
  BY <1>1, <1>2 DEF TagWord
<1>12. task' \in [CloseTasks -> Nat] /\ loaded' = [u \in CloseTasks |-> loaded'[u]]
       /\ task'[t] = n + 1 /\ loaded'[t] = None
       /\ \A u \in CloseTasks : u # t => task'[u] = task[u] /\ loaded'[u] = loaded[u]
  <2>1. task' = [u \in CloseTasks |-> IF u = t THEN n + 1 ELSE task[u]]
    BY <1>1, <1>3 DEF n
  <2>2. loaded' = [u \in CloseTasks |-> IF u = t THEN None ELSE loaded[u]]
    BY <1>1, <1>3
  <2> QED
    BY <1>3, <1>6, <2>1, <2>2
<1>13. \A u \in CloseTasks : \A m \in Nat : u[1] <= m /\ m < u[2] => m \in Inner(Old) /\ m >= Old.level[level]
  <2> SUFFICES ASSUME NEW u \in CloseTasks, NEW m \in Nat, u[1] <= m, m < u[2]
               PROVE  m \in Inner(Old) /\ m >= Old.level[level]
    OBVIOUS
  <2>1. u[1] \in Nat /\ u[2] \in Nat /\ u[2] <= Old.level[level + 1] /\ Old.level[level] <= u[1]
    BY <1>3, CloseTasksAre DEF Closing
  <2>2. m < LeafBegin(Old) /\ m >= Old.level[level]
    BY <1>5, <1>8, <2>1
  <2> QED
    BY <1>8, <2>2 DEF Inner
<1>14. ASSUME NEW u \in CloseTasks, u # t PROVE Working(u)'
  <2>1. /\ task'[u] = task[u] /\ loaded'[u] = loaded[u] /\ Working(u)
        /\ task[u] \in Nat /\ u[1] \in Nat /\ u[2] \in Nat
    BY <1>3, <1>12, <1>14, CloseTasksAre DEF Closing
  <2>2. \A m \in Nat : u[1] <= m /\ m < u[2] => m # n /\ ~ (m \div NodesPerTagWord = n \div NodesPerTagWord)
    <3> SUFFICES ASSUME NEW m \in Nat, u[1] <= m, m < u[2]
                 PROVE  ~ (m \div NodesPerTagWord = n \div NodesPerTagWord)
      OBVIOUS
    <3> QED
      BY <1>3, <1>6, <1>14, CloseTasksAre DEF Closing
  <2>3. u[1] <= task[u] /\ task[u] <= u[2]
    BY <2>1 DEF Working
  <2>4. \A m \in Nat : u[1] <= m /\ m < task[u] => (m \in tags' <=> Alive(m)')
    <3> SUFFICES ASSUME NEW m \in Nat, u[1] <= m, m < task[u] PROVE m \in tags' <=> Alive(m)'
      OBVIOUS
    <3>1. m < u[2]
      BY <2>1, <2>3
    <3>2. m \in tags <=> Alive(m)
      BY <2>1 DEF Working
    <3>3. m \in tags' <=> m \in tags
      BY <1>7, <2>2, <3>1
    <3>4. Alive(m)' <=> Alive(m)
      BY <1>10, <1>13, <3>1
    <3> QED
      BY <3>2, <3>3, <3>4
  <2>5. \A m \in Nat : task[u] <= m /\ m < u[2] => m \notin tags'
    <3> SUFFICES ASSUME NEW m \in Nat, task[u] <= m, m < u[2] PROVE m \notin tags'
      OBVIOUS
    <3>1. u[1] <= m
      BY <2>1, <2>3
    <3>2. m \notin tags
      BY <2>1 DEF Working
    <3> QED
      BY <1>7, <2>2, <3>1, <3>2
  <2>6. loaded[u] # None => task[u] < u[2] /\ Alive(task[u])' /\ loaded[u] = tags' \cap TagWord(task[u])
    <3> SUFFICES ASSUME loaded[u] # None
                 PROVE  task[u] < u[2] /\ Alive(task[u])' /\ loaded[u] = tags' \cap TagWord(task[u])
      OBVIOUS
    <3>1. task[u] < u[2] /\ Alive(task[u]) /\ loaded[u] = tags \cap TagWord(task[u])
      BY <2>1 DEF Working
    <3>2. Alive(task[u])'
      BY <1>10, <1>13, <2>1, <2>3, <3>1
    <3>3. n \notin TagWord(task[u])
      BY <2>1, <2>2, <2>3, <3>1 DEF TagWord
    <3> QED
      BY <1>7, <3>1, <3>2, <3>3
  <2> QED
    BY <1>11, <2>1, <2>3, <2>4, <2>5, <2>6 DEF Working
<1>15. Working(t)'
  <2>1. \A m \in Nat : t[1] <= m /\ m < n + 1 => (m \in tags' <=> Alive(m)')
    <3> SUFFICES ASSUME NEW m \in Nat, t[1] <= m, m < n + 1 PROVE m \in tags' <=> Alive(m)'
      OBVIOUS
    <3>1. m < t[2] /\ (m < n \/ m = n)
      BY <1>6
    <3>2. Alive(m)' <=> Alive(m)
      BY <1>3, <1>10, <1>13, <3>1
    <3>3. CASE m < n
      <4>1. m \in tags <=> Alive(m)
        BY <1>3, <3>3 DEF Working, n
      <4>2. m # n
        BY <1>6, <3>3
      <4> QED
        BY <1>7, <3>2, <4>1, <4>2
    <3>4. CASE m = n
      BY <1>6, <1>7, <3>2, <3>4
    <3> QED
      BY <3>1, <3>3, <3>4
  <2>2. \A m \in Nat : n + 1 <= m /\ m < t[2] => m \notin tags'
    <3> SUFFICES ASSUME NEW m \in Nat, n + 1 <= m, m < t[2] PROVE m \notin tags'
      OBVIOUS
    <3>1. n <= m /\ m # n
      BY <1>6
    <3>2. m \notin tags
      BY <1>3, <3>1 DEF Working, n
    <3> QED
      BY <1>7, <3>1, <3>2
  <2>3. t[1] <= n + 1 /\ n + 1 <= t[2]
    BY <1>6
  <2> QED
    BY <1>12, <2>1, <2>2, <2>3 DEF Working
<1>16. \A m \in Inner(Old) : m >= Old.level[level + 1] => (m \in tags' <=> Alive(m)')
  <2> SUFFICES ASSUME NEW m \in Inner(Old), m >= Old.level[level + 1] PROVE m \in tags' <=> Alive(m)'
    OBVIOUS
  <2>1. m \in Nat /\ m >= Old.level[level] /\ m # n
    BY <1>4, <1>5, <1>6, Masks
  <2>2. m \in tags <=> Alive(m)
    BY DEF Closing
  <2>3. Alive(m)' <=> Alive(m)
    BY <1>10, <2>1
  <2> QED
    BY <1>7, <2>1, <2>2, <2>3
<1>17. \A m \in tags' : m >= Old.level[level]
  BY <1>5, <1>6, <1>7 DEF Closing
<1>18. task' # <<>>
  BY <1>3, <1>12
<1>19. in.parallel
  BY <1>3 DEF Closing
<1>20. \A u \in CloseTasks' : Working(u)'
  BY <1>2, <1>14, <1>15
<1> QED
  BY <1>1, <1>2, <1>4, <1>9, <1>12, <1>16, <1>17, <1>18, <1>19, <1>20 DEF Closing

\* Once all tasks are through, the tags of the level are exact, and its count is taken.
LEMMA CloseLevelDoneStep ==
  ASSUME Basic, Closing, CloseLevelDone
  PROVE  Basic' /\ (Closing' \/ Counting' \/ Finished')
<1>1. /\ in' = in /\ tree' = tree /\ tags' = tags /\ live' = live
      /\ clause' = clause /\ cursor' = cursor /\ task # <<>>
      /\ task' = <<>> /\ \A t \in DOMAIN task : task[t] = t[2]
      /\ IF level > 0 THEN level' = level - 1 /\ UNCHANGED <<phase, result>>
         ELSE UNCHANGED level /\ IF live[0] = 0 THEN Finish("empty") ELSE phase' = "count" /\ UNCHANGED result
  BY DEF CloseLevelDone, Shape
<1>2. Old' = Old /\ Height' = Height /\ Basic'
  BY <1>1, Same, Shared
<1>3. WellFormed(Old) /\ Height = Deep(Old) /\ level \in 0 .. Deep(Old) /\ level < Deep(Old) /\ tree = Old
      /\ Deep(Old) \in Nat /\ tags \in SUBSET Nat /\ level \in 0 .. (Height - 1)
  BY BasicFacts DEF Closing
<1>4. /\ Old.level[level] \in Nat /\ Old.level[level + 1] \in Nat
      /\ Level(Old, level) = {m \in Nat : Old.level[level] <= m /\ m < Old.level[level + 1]}
  BY <1>3, LevelIs
<1>5. \A n \in Inner(Old) : n >= Old.level[level] => (n \in tags <=> Alive(n))
  <2> SUFFICES ASSUME NEW n \in Inner(Old), n >= Old.level[level] PROVE n \in tags <=> Alive(n)
    OBVIOUS
  <2>0. n \in Nat
    BY <1>3, Masks
  <2>1. CASE n >= Old.level[level + 1]
    BY <2>1 DEF Closing
  <2>2. CASE n < Old.level[level + 1]
    <3>1. n \in Level(Old, level)
      BY <1>4, <2>0, <2>2
    <3>2. PICK t \in CloseTasks : t[1] <= n /\ n < t[2]
      BY <1>3, <3>1, CloseTasksAre
    <3>3. Working(t) /\ task[t] = t[2]
      BY <1>1, <3>2 DEF Closing
    <3> QED
      BY <2>0, <3>2, <3>3 DEF Working
  <2> QED
    BY <1>4, <2>0, <2>1, <2>2
<1>6. \A n : Alive(n)' <=> Alive(n)
  BY <1>1, <1>2 DEF Alive
<1>7. in.parallel
  BY <1>1 DEF Closing
<1>8. CASE level > 0
  <2>1. /\ level' = level - 1 /\ phase' = phase /\ result' = result
        /\ level - 1 \in 0 .. (Height - 1) /\ (level - 1) + 1 = level
    BY <1>1, <1>3, <1>8
  <2>2. Old.level[level - 1] \in Nat /\ Old.level[level - 1] <= Old.level[level]
    <3>1. level - 1 \in 0 .. (Deep(Old) + 1) /\ level \in 0 .. (Deep(Old) + 1) /\ level - 1 <= level
      BY <1>3, <1>8
    <3> QED
      BY <1>3, <3>1, LevelsOrdered
  <2>3. \A n \in tags : n >= Old.level[level] /\ n >= Old.level[level - 1]
    BY <1>3, <1>4, <2>2 DEF Closing
  <2>4. Closing'
    BY <1>1, <1>2, <1>5, <1>6, <1>7, <2>1, <2>3 DEF Closing
  <2> QED
    BY <1>2, <2>4
<1>9. CASE ~ (level > 0)
  <2>1. level = 0 /\ Old.level[0] = 0
    BY <1>3, <1>9, Levels
  <2>2. Decided(Old, tags)
    <3>1. \A n \in Inner(Old) : n >= Old.level[level]
      BY <2>1, <1>3, Masks
    <3> QED
      BY <1>5, <3>1 DEF Decided, Alive
  <2>3. (0 \in tags <=> in.keep # {}) /\ (0 \in tags => LiveAbove(Old, tags)) /\ live[0] = IF 0 \in tags THEN 1 ELSE 0
    BY <2>2, ClosedIsLive, RetainedIs
  <2>4. CASE live[0] = 0
    <3>1. phase' = "done" /\ result' = "empty"
      BY <1>1, <1>9, <2>4 DEF Finish
    <3>2. in.keep = {}
      BY <2>3, <2>4
    <3>3. Finished'
      BY <1>1, <3>1, <3>2 DEF Finished
    <3> QED
      BY <1>2, <3>3
  <2>5. CASE live[0] # 0
    <3>1. phase' = "count" /\ result' = result
      BY <1>1, <1>9, <2>5
    <3>2. LiveAbove(Old, tags)
      BY <2>3, <2>5
    <3>3. Counting'
      BY <1>1, <1>2, <1>7, <3>1, <3>2 DEF Counting, Closing
    <3> QED
      BY <1>2, <3>3
  <2> QED
    BY <2>4, <2>5
<1> QED
  BY <1>8, <1>9

-----------------------------------------------------------------------------
\* K: the members of S in a block of nodes; they are listed in order.
BlockOf(S, a, b, K) ==
  /\ S \in SUBSET Nat /\ K \in SUBSET Nat /\ a \in Nat /\ b \in Nat /\ a <= b
  /\ \A n \in Nat : n \in K <=> n \in S /\ a <= n /\ n < b

Listed(S, a, b, K) ==
  /\ IsFiniteSet(K) /\ Cardinality(K) \in Nat
  /\ Rank(S, a) \in Nat /\ Rank(S, b) = Rank(S, a) + Cardinality(K)
  /\ Ascending(K) \in Seq(K) /\ Len(Ascending(K)) = Cardinality(K)
  /\ DOMAIN Ascending(K) = 1 .. Cardinality(K)
  /\ \A i \in 1 .. Cardinality(K) : Ascending(K)[i] \in K /\ Rank(S, Ascending(K)[i]) = Rank(S, a) + (i - 1)

\* In the list of a block, the ranks are consecutive.
LEMMA BlockListed ==
  ASSUME NEW S, NEW a, NEW b, NEW K, BlockOf(S, a, b, K)
  PROVE  Listed(S, a, b, K)
<1>0. /\ S \in SUBSET Nat /\ K \in SUBSET Nat /\ a \in Nat /\ b \in Nat /\ a <= b
      /\ \A n \in Nat : n \in K <=> n \in S /\ a <= n /\ n < b
  BY DEF BlockOf
<1> DEFINE c == Cardinality(K)
<1>1. IsFiniteSet(K) /\ c \in Nat /\ Rank(S, b) = Rank(S, a) + c
  <2>1. K = {n \in S : a <= n /\ n < b}
    BY <1>0
  <2> QED
    BY <1>0, <2>1, RankBetween
<1>2. K \in SUBSET Nat
  BY <1>0
<1>3. /\ Ascending(K) \in [1 .. c -> K] /\ Len(Ascending(K)) = c
      /\ \A i \in 1 .. c : Rank(K, Ascending(K)[i]) = i - 1
  BY <1>1, <1>2, AscendingLists
<1>4. ASSUME NEW n \in K PROVE Rank(S, n) = Rank(S, a) + Rank(K, n)
  <2>1. n \in Nat /\ a <= n /\ n < b
    BY <1>0
  <2>2. \A k \in S : a <= k /\ k < n <=> k \in K /\ k < n
    BY <1>0, <2>1
  <2>3. {k \in S : a <= k /\ k < n} = Below(K, n)
    <3>1. K \subseteq S
      BY <1>0
    <3> QED
      BY <2>2, <3>1 DEF Below
  <2> QED
    BY <1>0, <2>1, <2>3, RankBetween DEF Rank
<1>5. Rank(S, a) \in Nat
  BY <1>0, RankType
<1> HIDE DEF c
<1>6. Ascending(K) \in Seq(K) /\ DOMAIN Ascending(K) = 1 .. c
  BY <1>1, <1>3
<1>7. \A i \in 1 .. c : Ascending(K)[i] \in K /\ Rank(S, Ascending(K)[i]) = Rank(S, a) + (i - 1)
  BY <1>3, <1>4, <1>6
<1> QED
  BY <1>1, <1>3, <1>5, <1>6, <1>7 DEF c, Listed

LEMMA MaxRange ==
  ASSUME NEW k \in Nat
  PROVE  Max(0 .. k) = k
<1>1. k \in 0 .. k /\ \A y \in 0 .. k : k >= y
  OBVIOUS
<1>2. Max(0 .. k) \in 0 .. k /\ \A y \in 0 .. k : Max(0 .. k) >= y
  BY <1>1 DEF Max
<1> QED
  BY <1>1, <1>2

LEMMA DivLess ==
  ASSUME NEW n \in Nat, NEW s \in Nat \ {0}, NEW k \in Nat
  PROVE  n \div s < k <=> n < k * s
<1> DEFINE q == n \div s
<1>1. q \in Nat /\ q * s <= n /\ n < (q + 1) * s /\ q * s \in Nat /\ (q + 1) * s \in Nat /\ k * s \in Nat
  BY Quotient
<1> HIDE DEF q
<1>2. ASSUME q < k PROVE n < k * s
  <2>1. (q + 1) * s <= k * s
    BY <1>1, <1>2
  <2> QED
    BY <1>1, <2>1
<1>3. ASSUME k <= q PROVE ~ (n < k * s)
  <2>1. k * s <= q * s
    BY <1>1, <1>3
  <2> QED
    BY <1>1, <2>1
<1>4. q < k <=> n < k * s
  BY <1>1, <1>2, <1>3
<1> QED
  BY <1>4 DEF q

\* The first node of task k, and of the one behind the last, the first leaf.
Bound(k) == IF k * CompactNodesPerTask <= LeafBegin(Old) THEN k * CompactNodesPerTask ELSE LeafBegin(Old)

LastTask == (LeafBegin(Old) - 1) \div CompactNodesPerTask

\* Tasks of compaction cut the inner nodes into blocks.
LEMMA Bounds ==
  ASSUME Basic, tree = Old
  PROVE  /\ LastTask \in Nat /\ Tasks = 0 .. LastTask
         /\ \A k \in Nat : /\ Bound(k) \in Nat /\ Bound(k) <= LeafBegin(Old) /\ Bound(k) <= Bound(k + 1)
                           /\ \A n \in Nat : n < Bound(k) <=> n < LeafBegin(Old) /\ n \div CompactNodesPerTask < k
         /\ Bound(LastTask + 1) = LeafBegin(Old)
         /\ \A k \in Nat : InTask(k) = {n \in Nat : Bound(k) <= n /\ n < Bound(k + 1)}
         /\ \A n \in Inner(Old) : n \div CompactNodesPerTask \in Tasks
<1> DEFINE C == CompactNodesPerTask
           end == LeafBegin(Old)
<1>1. C \in Nat \ {0} /\ end \in Nat /\ 0 < end /\ Inner(Old) = {n \in Nat : n < end}
  BY CloseSizes, BasicFacts
<1>2. end - 1 \in Nat
  BY <1>1
<1>3. LastTask = (end - 1) \div C /\ LastTask \in Nat /\ LastTask * C <= end - 1 /\ end - 1 < (LastTask + 1) * C
  BY <1>1, <1>2, Quotient DEF LastTask
<1>4. Tasks = 0 .. LastTask
  BY DEF Tasks, LastTask
<1> HIDE DEF C, end
<1>5. \A k \in Nat : k * C \in Nat /\ k * C <= (k + 1) * C /\ (k + 1) * C \in Nat
  <2> SUFFICES ASSUME NEW k \in Nat PROVE k * C \in Nat /\ k * C <= (k + 1) * C /\ (k + 1) * C \in Nat
    OBVIOUS
  <2>1. (k + 1) * C = k * C + C /\ k * C \in Nat
    BY <1>1
  <2> DEFINE a == k * C
  <2>2. a \in Nat /\ (k + 1) * C = a + C
    BY <2>1
  <2> HIDE DEF a
  <2>3. a <= (k + 1) * C /\ (k + 1) * C \in Nat
    BY <1>1, <2>2
  <2> QED
    BY <2>1, <2>3 DEF a
<1>6. \A k \in Nat : Bound(k) = IF k * C <= end THEN k * C ELSE end
  BY DEF Bound, C, end
<1>7. \A n \in Nat, k \in Nat : n \div C < k <=> n < k * C
  BY <1>1, DivLess
<1>8. ASSUME NEW k \in Nat
      PROVE  /\ Bound(k) \in Nat /\ Bound(k) <= end /\ Bound(k) <= Bound(k + 1)
             /\ \A n \in Nat : n < Bound(k) <=> n < end /\ n \div C < k
  <2> DEFINE a == k * C
             b == (k + 1) * C
  <2>1. a \in Nat /\ b \in Nat /\ a <= b
    BY <1>5
  <2>2. Bound(k) = (IF a <= end THEN a ELSE end) /\ Bound(k + 1) = (IF b <= end THEN b ELSE end) /\ k + 1 \in Nat
    BY <1>6
  <2>3. \A n \in Nat : n \div C < k <=> n < a
    BY <1>7
  <2> HIDE DEF a, b
  <2>4. Bound(k) \in Nat /\ Bound(k) <= end /\ Bound(k) <= Bound(k + 1)
    BY <1>1, <2>1, <2>2
  <2>5. \A n \in Nat : n < Bound(k) <=> n < end /\ n < a
    BY <1>1, <2>1, <2>2
  <2> QED
    BY <2>3, <2>4, <2>5
<1>9. Bound(LastTask + 1) = end
  <2> DEFINE a == (LastTask + 1) * C
  <2>1. Bound(LastTask + 1) = (IF a <= end THEN a ELSE end) /\ a \in Nat /\ end - 1 < a
    BY <1>3, <1>5, <1>6
  <2> HIDE DEF a
  <2> QED
    BY <1>1, <2>1
<1>10. ASSUME NEW k \in Nat PROVE InTask(k) = {n \in Nat : Bound(k) <= n /\ n < Bound(k + 1)}
  <2>1. InTask(k) = {n \in Inner(Old) : n \div C = k}
    BY DEF InTask, C
  <2>2. \A n \in Nat : n \in Inner(Old) /\ n \div C = k <=> Bound(k) <= n /\ n < Bound(k + 1)
    <3> SUFFICES ASSUME NEW n \in Nat
                 PROVE  n \in Inner(Old) /\ n \div C = k <=> Bound(k) <= n /\ n < Bound(k + 1)
      OBVIOUS
    <3>1. n \div C \in Nat /\ Bound(k) \in Nat /\ Bound(k + 1) \in Nat /\ k + 1 \in Nat
      BY <1>1, <1>8, Quotient
    <3>2. (n < Bound(k) <=> n < end /\ n \div C < k) /\ (n < Bound(k + 1) <=> n < end /\ n \div C < k + 1)
      BY <1>8, <3>1
    <3>3. n \in Inner(Old) <=> n < end
      BY <1>1
    <3> DEFINE q == n \div C
    <3>4. q \in Nat /\ (n < Bound(k) <=> n < end /\ q < k) /\ (n < Bound(k + 1) <=> n < end /\ q < k + 1)
      BY <3>1, <3>2
    <3> HIDE DEF q
    <3>5. (n \in Inner(Old) /\ q = k) <=> (Bound(k) <= n /\ n < Bound(k + 1))
      BY <1>1, <3>1, <3>3, <3>4
    <3> QED
      BY <3>5 DEF q
  <2>3. \A n \in Inner(Old) : n \in Nat
    BY <1>1
  <2> QED
    BY <2>1, <2>2, <2>3
<1>11. ASSUME NEW n \in Inner(Old) PROVE n \div C \in Tasks
  <2>1. n \in Nat /\ n < end /\ n <= end - 1
    BY <1>1
  <2>2. n \div C \in Nat /\ n \div C <= LastTask
    BY <1>1, <1>2, <1>3, <2>1, Quotient, QuotientOrder
  <2> QED
    BY <1>3, <1>4, <2>2
<1> QED
  BY <1>3, <1>4, <1>8, <1>9, <1>10, <1>11 DEF C, end

-----------------------------------------------------------------------------
\* Emitting.  Each task has written the masks of its first nodes, and no other ones.
Offsets == offset = [k \in 0 .. (LastTask + 1) |-> Rank(tags, Bound(k))]

Emitted(k) ==
  /\ offset[k] + task[k] <= offset[k + 1]
  /\ \A p \in Nat : offset[k] <= p /\ p < offset[k] + task[k] => output[p] = Final(p)
  /\ \A p \in Nat : offset[k] + task[k] <= p /\ p < offset[k + 1] => output[p] = {}
  /\ \A n : HasByte(n) /\ n \in InTask(k) /\ Rank(tags, n) < offset[k] + task[k] => Noted(n)

Writing ==
  /\ phase = "emit" /\ result = "running" /\ tree = Old /\ in.parallel /\ LiveAbove(Old, tags)
  /\ Offsets /\ task \in [Tasks -> Nat]
  /\ DOMAIN output = 0 .. (Rank(tags, LeafBegin(Old)) - 1)
  /\ output = [p \in DOMAIN output |-> output[p]]
  /\ \A k \in Tasks : Emitted(k)

Ending ==
  /\ phase = "finalize" /\ result = "running" /\ tree = Old /\ in.parallel /\ LiveAbove(Old, tags)
  /\ Masked(output) /\ \A n : HasByte(n) => Noted(n)

\* The output of a task begins at the rank of its block, and outputs do not overlap.
LEMMA OffsetIs ==
  ASSUME Basic, tree = Old, Offsets
  PROVE  /\ \A k \in Tasks : /\ k \in Nat /\ k + 1 \in Nat
                             /\ offset[k] = Rank(tags, Bound(k)) /\ offset[k + 1] = Rank(tags, Bound(k + 1))
                             /\ offset[k] \in Nat /\ offset[k + 1] \in Nat
                             /\ offset[k + 1] <= Rank(tags, LeafBegin(Old))
         /\ \A j, k \in Tasks : j < k => offset[j + 1] <= offset[k]
<1>1. LastTask \in Nat /\ Tasks = 0 .. LastTask /\ tags \in SUBSET Nat /\ LeafBegin(Old) \in Nat
  BY Bounds, BasicFacts
<1>2. \A k \in 0 .. (LastTask + 1) : offset[k] = Rank(tags, Bound(k)) /\ k \in Nat
  BY <1>1 DEF Offsets
<1>3. \A k \in Nat : Bound(k) \in Nat /\ Bound(k) <= LeafBegin(Old)
  BY Bounds
<1>4. \A k \in Nat : Rank(tags, Bound(k)) \in Nat /\ Rank(tags, Bound(k)) <= Rank(tags, LeafBegin(Old))
  BY <1>1, <1>3, RankOrder
<1>5. \A k \in Tasks : k \in 0 .. (LastTask + 1) /\ k + 1 \in 0 .. (LastTask + 1)
  BY <1>1
<1>6. ASSUME NEW j \in Tasks, NEW k \in Tasks, j < k PROVE Bound(j + 1) <= Bound(k)
  <2> DEFINE C == CompactNodesPerTask
             a == (j + 1) * C
             b == k * C
  <2>1. a <= b /\ a \in Nat /\ b \in Nat
    <3>1. j + 1 \in Nat /\ k \in Nat /\ j + 1 <= k /\ C \in Nat
      BY <1>1, <1>6, CloseSizes
    <3> QED
      BY <3>1
  <2>2. Bound(j + 1) = (IF a <= LeafBegin(Old) THEN a ELSE LeafBegin(Old)) /\ Bound(k) = (IF b <= LeafBegin(Old) THEN b ELSE LeafBegin(Old))
    BY DEF Bound
  <2> HIDE DEF a, b
  <2> QED
    BY <1>1, <2>1, <2>2
<1>7. \A j, k \in Tasks : j < k => offset[j + 1] <= offset[k]
  BY <1>1, <1>2, <1>3, <1>5, <1>6, RankOrder
<1> QED
  BY <1>2, <1>4, <1>5, <1>7

\* The prefix sums of the count phase are those ranks; the total is what the levels add up to.
LEMMA CountStep ==
  ASSUME Basic, Counting, Count
  PROVE  Basic' /\ Writing'
<1> DEFINE before(k) == Cardinality({n \in tags : n < LeafBegin(tree) /\ n \div CompactNodesPerTask < k})
           last == Max(Tasks) + 1
<1>1. /\ in' = in /\ tree' = tree /\ tags' = tags /\ live' = live /\ clause' = clause /\ tree = Old
      /\ offset' = [k \in 0 .. last |-> before(k)]
  BY DEF Count, Shape, Counting
<1>2. Old' = Old /\ Height' = Height /\ Basic' /\ LastTask' = LastTask /\ Tasks' = Tasks
      /\ \A k : Bound(k)' = Bound(k)
  BY <1>1, Same, Shared DEF LastTask, Tasks, Bound
<1>3. LastTask \in Nat /\ Tasks = 0 .. LastTask /\ tags \in SUBSET Nat /\ LeafBegin(Old) \in Nat
      /\ Bound(LastTask + 1) = LeafBegin(Old)
  BY <1>1, Bounds, BasicFacts
<1>4. last = LastTask + 1
  BY <1>3, MaxRange
<1>5. ASSUME NEW k \in Nat PROVE before(k) = Rank(tags, Bound(k))
  <2>1. \A n \in Nat : n < Bound(k) <=> n < LeafBegin(Old) /\ n \div CompactNodesPerTask < k
    BY <1>1, Bounds
  <2>2. {n \in tags : n < LeafBegin(tree) /\ n \div CompactNodesPerTask < k} = Below(tags, Bound(k))
    BY <1>1, <1>3, <2>1 DEF Below
  <2> QED
    BY <2>2 DEF Rank
<1> HIDE DEF before
<1>6. before(last) = Rank(tags, LeafBegin(Old))
  <2>1. last \in Nat
    BY <1>3, <1>4
  <2> QED
    BY <1>3, <1>4, <1>5, <2>1
<1>7. before(last) + live[Height] = Retained
  BY <1>6, RetainedIs
<1>8. /\ phase' = "emit" /\ result' = result /\ task' = [k \in Tasks |-> 0]
      /\ output' = [n \in 0 .. (NewLevel[Height] - 1) |-> {}]
  <2>1. IF before(last) + live[Height] # Retained
           THEN Finish("logic_error") /\ UNCHANGED <<task, output>>
           ELSE /\ phase' = "emit" /\ UNCHANGED result
                /\ task' = [k \in Tasks |-> 0]
                /\ output' = [n \in 0 .. (NewLevel[Height] - 1) |-> {}]
    BY DEF Count, before
  <2> QED
    BY <1>7, <2>1
<1> HIDE DEF last
<1>9. offset' = [k \in 0 .. (LastTask + 1) |-> Rank(tags, Bound(k))]
  BY <1>1, <1>3, <1>4, <1>5
<1>10. Offsets'
  BY <1>1, <1>2, <1>9 DEF Offsets
<1>11. \A k \in Tasks : /\ offset'[k] = Rank(tags, Bound(k)) /\ offset'[k + 1] = Rank(tags, Bound(k + 1))
                        /\ Rank(tags, Bound(k)) \in Nat /\ Rank(tags, Bound(k + 1)) \in Nat
                        /\ Rank(tags, Bound(k)) <= Rank(tags, Bound(k + 1))
                        /\ Rank(tags, Bound(k + 1)) <= Rank(tags, LeafBegin(Old))
  <2> SUFFICES ASSUME NEW k \in Tasks
               PROVE  /\ offset'[k] = Rank(tags, Bound(k)) /\ offset'[k + 1] = Rank(tags, Bound(k + 1))
                      /\ Rank(tags, Bound(k)) \in Nat /\ Rank(tags, Bound(k + 1)) \in Nat
                      /\ Rank(tags, Bound(k)) <= Rank(tags, Bound(k + 1))
                      /\ Rank(tags, Bound(k + 1)) <= Rank(tags, LeafBegin(Old))
    OBVIOUS
  <2>1. k \in Nat /\ k + 1 \in Nat /\ k \in 0 .. (LastTask + 1) /\ k + 1 \in 0 .. (LastTask + 1)
    BY <1>3
  <2>2. Bound(k) \in Nat /\ Bound(k + 1) \in Nat /\ Bound(k) <= Bound(k + 1) /\ Bound(k + 1) <= LeafBegin(Old)
    BY <1>1, <2>1, Bounds
  <2> QED
    BY <1>3, <1>9, <2>1, <2>2, RankOrder
<1>12. NewLevel[Height] = Rank(tags, LeafBegin(Old)) /\ Rank(tags, LeafBegin(Old)) \in Nat
  BY RetainedIs
<1>13. ASSUME NEW k \in Tasks PROVE Emitted(k)'
  <2> DEFINE a == Rank(tags, Bound(k))
             b == Rank(tags, Bound(k + 1))
  <2>1. /\ offset'[k] = a /\ offset'[k + 1] = b /\ a \in Nat /\ b \in Nat /\ a <= b
        /\ b <= Rank(tags, LeafBegin(Old))
        /\ task'[k] = 0
    BY <1>8, <1>11
  <2>2. offset'[k] + task'[k] = a
    BY <2>1
  <2>3. \A p \in Nat : p < b => output'[p] = {}
    BY <1>8, <1>12, <2>1
  <2>4. \A n : ~ (HasByte(n)' /\ n \in InTask(k)' /\ Rank(tags, n) < a)
    <3> SUFFICES ASSUME NEW n, n \in tags, n \in InTask(k), Rank(tags, n) < a PROVE FALSE
      BY <1>1, <1>2 DEF HasByte, InTask
    <3>1. k \in Nat
      BY <1>3
    <3>2. InTask(k) = {m \in Nat : Bound(k) <= m /\ m < Bound(k + 1)} /\ Bound(k) \in Nat
      BY <1>1, <3>1, Bounds
    <3>3. Rank(tags, Bound(k)) <= Rank(tags, n) /\ Rank(tags, n) \in Nat
      BY <1>3, <3>2, RankOrder
    <3> QED
      BY <2>1, <3>3
  <2> HIDE DEF a, b
  <2>5. \A p \in Nat : ~ (a <= p /\ p < a)
    BY <2>1
  <2> QED
    BY <1>1, <2>1, <2>2, <2>3, <2>4, <2>5 DEF Emitted
<1>14. task' \in [Tasks -> Nat]
  BY <1>8
<1>15. DOMAIN output' = 0 .. (Rank(tags, LeafBegin(Old)) - 1) /\ output' = [p \in DOMAIN output' |-> output'[p]]
  BY <1>8, <1>12
<1> QED
  BY <1>1, <1>2, <1>8, <1>10, <1>13, <1>14, <1>15 DEF Writing, Counting

\* Clause bytes that are written with their nodes' masks.
LEMMA ClausesWritten ==
  ASSUME Basic, NEW nodes, NEW from \in Nat, NEW c \in Nat, NEW masks,
         DOMAIN nodes = 1 .. c,
         \A i \in 1 .. c : /\ nodes[i] \in tags \cap Inner(Old) /\ Rank(tags, nodes[i]) = from + (i - 1)
                           /\ masks[i] = Remaining(Old, tags, nodes[i]),
         clause' = Clauses(nodes, from, masks),
         NEW n, HasByte(n)
  PROVE  /\ Noted(n) => ClauseAt(n) \in DOMAIN clause' /\ clause'[ClauseAt(n)] = <<n, Remaining(Old, tags, n)>>
         /\ from <= Rank(tags, n) /\ Rank(tags, n) < from + c
              => ClauseAt(n) \in DOMAIN clause' /\ clause'[ClauseAt(n)] = <<n, Remaining(Old, tags, n)>>
<1> DEFINE parents == {i \in DOMAIN nodes : in.clauseDepth > 0 /\ nodes[i] >= in.tree.level[in.clauseDepth - 1]}
           begin == ClauseBegin
           f == Clauses(nodes, from, masks)
           at == ClauseAt(n)
           goal == <<n, Remaining(Old, tags, n)>>
<1>1. /\ Height \in Nat /\ in.clauseDepth \in 0 .. Height /\ in.clauseDepth > 0
      /\ tags \in SUBSET Nat /\ WellFormed(Old)
      /\ n \in tags /\ n \in Nat /\ n \in Inner(Old) /\ n >= Old.level[in.clauseDepth - 1] /\ Height = Deep(Old)
  BY BasicFacts DEF HasByte
<1>2. in.clauseDepth - 1 \in 0 .. (Height + 1) /\ in.clauseDepth - 1 \in 0 .. Deep(Old)
  BY <1>1
<1>3. begin = Rank(tags, Old.level[in.clauseDepth - 1]) /\ begin \in Nat
  <2>1. Old.level[in.clauseDepth - 1] \in Nat
    BY <1>1, <1>2, LevelIs
  <2> QED
    BY <1>1, <1>2, <2>1, NewLevelIs, RankType DEF ClauseBegin
<1>4. at = Rank(tags, n) - begin /\ Rank(tags, n) \in Nat
  BY <1>1, <1>3, RankType DEF ClauseAt
<1> DEFINE written == {from + i - 1 - begin : i \in parents}
<1>5. f = [p \in written \cup DOMAIN clause |->
             IF p \notin written THEN clause[p]
             ELSE <<nodes[p + begin + 1 - from], masks[p + begin + 1 - from]>>]
  BY DEF Clauses
<1> HIDE DEF begin, at, f, parents, written
<1>6. ASSUME NEW i \in 1 .. c, at = from + i - 1 - begin PROVE nodes[i] = n /\ at + begin + 1 - from = i
  <2> DEFINE m == nodes[i]
             r == Rank(tags, n)
  <2>1. m \in tags /\ Rank(tags, m) = from + (i - 1)
    OBVIOUS
  <2>2. at = r - begin /\ r \in Nat /\ begin \in Nat /\ from \in Nat /\ i \in Nat /\ at = from + i - 1 - begin
    BY <1>3, <1>4, <1>6
  <2> HIDE DEF m, r
  <2>3. r = from + (i - 1) /\ at + begin + 1 - from = i
    BY <2>2
  <2>4. Rank(tags, m) = Rank(tags, n)
    BY <2>1, <2>3 DEF r
  <2>5. m = n
    BY <1>1, <2>1, <2>4, RankInjective
  <2> QED
    BY <2>3, <2>5 DEF m
<1>7. at \in written => f[at] = goal
  <2> SUFFICES ASSUME at \in written PROVE f[at] = goal
    OBVIOUS
  <2>1. PICK i \in parents : at = from + i - 1 - begin
    BY DEF written
  <2>2. nodes[i] = n /\ at + begin + 1 - from = i /\ masks[i] = Remaining(Old, tags, nodes[i])
    BY <1>6, <2>1 DEF parents
  <2>3. f[at] = <<nodes[at + begin + 1 - from], masks[at + begin + 1 - from]>>
    BY <1>5
  <2> QED
    BY <2>2, <2>3
<1>8. from <= Rank(tags, n) /\ Rank(tags, n) < from + c => at \in written
  <2> SUFFICES ASSUME from <= Rank(tags, n), Rank(tags, n) < from + c PROVE at \in written
    OBVIOUS
  <2> DEFINE i == Rank(tags, n) - from + 1
  <2>1. i \in 1 .. c /\ at = from + i - 1 - begin
    BY <1>3, <1>4
  <2> HIDE DEF i
  <2>2. nodes[i] = n
    BY <1>6, <2>1
  <2>3. i \in parents
    BY <1>1, <2>1, <2>2 DEF Old, parents
  <2> QED
    BY <2>1, <2>3 DEF written
<1>9. clause' = f /\ DOMAIN f = written \cup DOMAIN clause
      /\ (at \notin written /\ at \in DOMAIN clause => f[at] = clause[at])
  BY <1>5 DEF f
<1>10. Noted(n) => at \in DOMAIN clause /\ clause[at] = goal
  BY DEF Noted, at
<1> QED
  BY <1>7, <1>8, <1>9, <1>10 DEF at

\* A slice of a listed block: the nodes of consecutive ranks.
LEMMA SliceListed ==
  ASSUME NEW K, NEW list \in Seq(K), NEW a \in Nat, NEW b \in Nat, a + b <= Len(list)
  PROVE  /\ SubSeq(list, a + 1, a + b) \in Seq(K) /\ Len(SubSeq(list, a + 1, a + b)) = b
         /\ DOMAIN SubSeq(list, a + 1, a + b) = 1 .. b
         /\ \A i \in 1 .. b : SubSeq(list, a + 1, a + b)[i] = list[a + i]
<1> DEFINE s == SubSeq(list, a + 1, a + b)
<1>1. \A i \in (a + 1) .. (a + b) : list[i] \in K
  <2>1. \A i \in (a + 1) .. (a + b) : i \in 1 .. Len(list)
    OBVIOUS
  <2> QED
    BY <2>1
<1>2. a + 1 \in Int /\ a + b \in Int /\ (a + b) - (a + 1) + 1 = b
  OBVIOUS
<1>3. /\ s \in Seq(K) /\ Len(s) = IF a + 1 <= a + b THEN (a + b) - (a + 1) + 1 ELSE 0
      /\ \A i \in 1 .. ((a + b) - (a + 1) + 1) : s[i] = list[(a + 1) + i - 1]
  BY <1>1, <1>2, SubSeqProperties
<1> HIDE DEF s
<1>4. Len(s) = b
  BY <1>3
<1>5. DOMAIN s = 1 .. b
  BY <1>3, <1>4
<1>6. \A i \in 1 .. b : (a + 1) + i - 1 = a + i
  OBVIOUS
<1>7. \A i \in 1 .. b : s[i] = list[a + i]
  BY <1>2, <1>3, <1>6
<1> QED
  BY <1>3, <1>4, <1>5, <1>7 DEF s

\* What a task has still to write.
LEMMA EmittingIs ==
  ASSUME Basic, tree = Old, Offsets, task \in [Tasks -> Nat], NEW k \in Tasks, offset[k] + task[k] <= offset[k + 1]
  PROVE  LET c == offset[k + 1] - (offset[k] + task[k]) IN
           /\ c \in Nat /\ Len(Emitting(k)) = c /\ DOMAIN Emitting(k) = 1 .. c
           /\ Emitting(k) \in Seq(InTask(k) \cap tags)
           /\ \A i \in 1 .. c : /\ Emitting(k)[i] \in InTask(k) \cap tags
                                /\ Rank(tags, Emitting(k)[i]) = offset[k] + task[k] + (i - 1)
<1> DEFINE K == InTask(k) \cap tags
           list == Ascending(K)
           size == Cardinality(K)
           a == task[k]
           x == offset[k]
           y == offset[k + 1]
           c == y - (x + a)
<1>1. /\ tags \in SUBSET Nat /\ k \in Nat /\ x = Rank(tags, Bound(k))
      /\ y = Rank(tags, Bound(k + 1)) /\ x \in Nat /\ y \in Nat
      /\ a \in Nat /\ x + a <= y
  BY OffsetIs, BasicFacts
<1>2. /\ Bound(k) \in Nat /\ Bound(k + 1) \in Nat /\ Bound(k) <= Bound(k + 1)
      /\ InTask(k) = {n \in Nat : Bound(k) <= n /\ n < Bound(k + 1)}
  <2>1. k + 1 \in Nat
    BY <1>1
  <2> QED
    BY <1>1, <2>1, Bounds
<1>3. K = {n \in tags : Bound(k) <= n /\ n < Bound(k + 1)}
  BY <1>1, <1>2
<1>4. Emitting(k) = SubSeq(list, a + 1, Len(list))
  BY DEF Emitting
<1>5. /\ size \in Nat /\ y = x + size
      /\ list \in Seq(K) /\ Len(list) = size
      /\ \A i \in 1 .. size : list[i] \in K /\ Rank(tags, list[i]) = x + (i - 1)
  <2> HIDE DEF x, y, a, c
  <2>1. /\ Cardinality(K) \in Nat /\ Rank(tags, Bound(k + 1)) = Rank(tags, Bound(k)) + Cardinality(K)
        /\ Ascending(K) \in Seq(K) /\ Len(Ascending(K)) = Cardinality(K)
        /\ \A i \in 1 .. Cardinality(K) : Ascending(K)[i] \in K /\ Rank(tags, Ascending(K)[i]) = Rank(tags, Bound(k)) + (i - 1)
    <3> DEFINE lo == Bound(k)
               hi == Bound(k + 1)
    <3>1. lo \in Nat /\ hi \in Nat /\ lo <= hi /\ K \in SUBSET Nat /\ (\A n \in Nat : n \in K <=> n \in tags /\ lo <= n /\ n < hi) /\ tags \in SUBSET Nat
      BY <1>1, <1>2, <1>3
    <3> HIDE DEF K, lo, hi, list, size
    <3>2. /\ Cardinality(K) \in Nat /\ Rank(tags, hi) = Rank(tags, lo) + Cardinality(K)
          /\ Ascending(K) \in Seq(K) /\ Len(Ascending(K)) = Cardinality(K)
          /\ \A i \in 1 .. Cardinality(K) : Ascending(K)[i] \in K /\ Rank(tags, Ascending(K)[i]) = Rank(tags, lo) + (i - 1)
      <4>1. BlockOf(tags, lo, hi, K)
        BY <3>1 DEF BlockOf
      <4> QED
        BY <4>1, BlockListed DEF Listed
    <3> QED
      BY <3>2 DEF lo, hi
  <2> HIDE DEF K
  <2> QED
    BY <1>1, <2>1
<1> HIDE DEF K, list, size, a, x, y
<1>6. c \in Nat /\ size = a + c /\ a + c <= Len(list)
  <2>1. /\ x \in Nat /\ y \in Nat /\ a \in Nat /\ x + a <= y /\ size \in Nat /\ y = x + size /\ Len(list) = size
        /\ c = y - (x + a)
    BY <1>1, <1>5
  <2> HIDE DEF c
  <2> QED
    BY ONLY <2>1
<1> HIDE DEF c
<1>7. /\ Emitting(k) \in Seq(K) /\ Len(Emitting(k)) = c /\ DOMAIN Emitting(k) = 1 .. c
      /\ \A i \in 1 .. c : Emitting(k)[i] = list[a + i]
  <2>1. Emitting(k) = SubSeq(list, a + 1, a + c)
    BY <1>4, <1>5, <1>6
  <2>2. list \in Seq(K) /\ a \in Nat /\ c \in Nat /\ a + c <= Len(list)
    BY <1>1, <1>5, <1>6
  <2>3. /\ SubSeq(list, a + 1, a + c) \in Seq(K) /\ Len(SubSeq(list, a + 1, a + c)) = c
        /\ DOMAIN SubSeq(list, a + 1, a + c) = 1 .. c
        /\ \A i \in 1 .. c : SubSeq(list, a + 1, a + c)[i] = list[a + i]
    BY ONLY <2>2, SliceListed
  <2> QED
    BY <2>1, <2>3
<1>8. \A i \in 1 .. c : Emitting(k)[i] \in K /\ Rank(tags, Emitting(k)[i]) = x + a + (i - 1)
  <2> SUFFICES ASSUME NEW i \in 1 .. c
               PROVE  Emitting(k)[i] \in K /\ Rank(tags, Emitting(k)[i]) = x + a + (i - 1)
    OBVIOUS
  <2>1. a + i \in 1 .. size
    BY <1>1, <1>5, <1>6
  <2>2. list[a + i] \in K /\ Rank(tags, list[a + i]) = x + (a + i - 1)
    BY <1>1, <1>5, <2>1
  <2>3. x + (a + i - 1) = x + a + (i - 1)
    BY <1>1
  <2> QED
    BY <1>7, <2>2, <2>3
<1> QED
  BY <1>6, <1>7, <1>8 DEF c, K, x, y, a

\* Positions of one word of masks.
LEMMA SameWord ==
  ASSUME NEW from \in Nat, NEW taken \in Nat, NEW s \in Nat \ {0}, taken <= s - (from % s)
  PROVE  /\ \A p \in Nat : from <= p /\ p < from + taken => p \div s = from \div s
         /\ taken = s => \A p \in Nat : p \div s = from \div s => from <= p /\ p < from + taken
<1> DEFINE q == from \div s
           r == from % s
<1>1. /\ q \in Nat /\ r \in Nat /\ r < s /\ from = s * q + r /\ s * q \in Nat
      /\ q * s = s * q /\ (q + 1) * s = s * q + s
  <2>1. q \in Nat /\ r \in 0 .. (s - 1) /\ from = s * q + r
    OBVIOUS
  <2> HIDE DEF q, r
  <2> QED
    BY <2>1
<1> HIDE DEF q, r
<1> DEFINE a == s * q
<1>2. a \in Nat /\ from = a + r /\ q * s = a /\ (q + 1) * s = a + s
  BY <1>1
<1>3. taken <= s - r
  BY DEF r
<1> HIDE DEF a
<1>4. ASSUME NEW p \in Nat PROVE p \div s = q <=> a <= p /\ p < a + s
  <2> DEFINE v == p \div s
  <2>1. (v < q <=> p < q * s) /\ (v < q + 1 <=> p < (q + 1) * s) /\ v \in Nat
    BY <1>1, DivLess, Quotient
  <2> HIDE DEF v
  <2>2. v = q <=> a <= p /\ p < a + s
    BY <1>1, <1>2, <2>1
  <2> QED
    BY <2>2 DEF v
<1>5. \A p \in Nat : from <= p /\ p < from + taken => p \div s = q
  BY <1>1, <1>2, <1>3, <1>4
<1>6. taken = s => \A p \in Nat : p \div s = q => from <= p /\ p < from + taken
  BY <1>1, <1>2, <1>3, <1>4
<1> QED
  BY <1>5, <1>6 DEF q

\* A flush writes the masks of its nodes in their places and disturbs no other task's.
LEMMA EmitWordStep ==
  ASSUME Basic, Writing, NEW k \in Tasks, EmitWord(k)
  PROVE  Basic' /\ Writing'
<1> DEFINE from == offset[k] + task[k]
           word == {p \in DOMAIN output : p \div NodesPerWord = from \div NodesPerWord}
           taken == Min({Len(Emitting(k)), NodesPerWord - (from % NodesPerWord)})
           nodes == SubSeq(Emitting(k), 1, taken)
           masks == [i \in 1 .. taken |-> RetainedMask(tree.mask[nodes[i]], FirstChild(tree, nodes[i]))]
           written == [p \in word |-> IF p \in from .. (from + taken - 1) THEN masks[p - from + 1] ELSE {}]
<1>1. /\ in' = in /\ tree' = tree /\ tags' = tags /\ phase' = phase /\ live' = live /\ offset' = offset
      /\ result' = result /\ tree = Old /\ Emitting(k) # <<>>
      /\ output' = [p \in DOMAIN output |->
                        IF p \notin word THEN output[p]
                        ELSE IF taken = NodesPerWord THEN written[p] ELSE output[p] \cup written[p]]
      /\ clause' = Clauses(nodes, from, masks)
      /\ task' = [task EXCEPT ![k] = @ + taken]
  BY DEF EmitWord, Shape, Writing
<1>2. Old' = Old /\ Height' = Height /\ Basic' /\ LastTask' = LastTask /\ Tasks' = Tasks
      /\ \A j : Bound(j)' = Bound(j) /\ InTask(j)' = InTask(j)
  BY <1>1, Same, Shared DEF LastTask, Tasks, Bound, InTask
<1> DEFINE c == offset[k + 1] - from
<1>3. /\ c \in Nat /\ Len(Emitting(k)) = c /\ Emitting(k) \in Seq(InTask(k) \cap tags)
      /\ \A i \in 1 .. c : Emitting(k)[i] \in InTask(k) \cap tags /\ Rank(tags, Emitting(k)[i]) = from + (i - 1)
  <2>1. offset[k] + task[k] <= offset[k + 1] /\ Offsets /\ task \in [Tasks -> Nat]
    BY DEF Writing, Emitted
  <2> QED
    BY <1>1, <2>1, EmittingIs
<1>4. /\ offset[k] \in Nat /\ offset[k + 1] \in Nat
      /\ offset[k + 1] <= Rank(tags, LeafBegin(Old)) /\ task[k] \in Nat
      /\ from \in Nat
      /\ tags \in SUBSET Nat /\ Rank(tags, LeafBegin(Old)) \in Nat /\ WellFormed(Old) /\ k \in Nat
  <2>1. /\ offset[k] \in Nat /\ offset[k + 1] \in Nat
        /\ offset[k + 1] <= Rank(tags, LeafBegin(Old)) /\ task[k] \in Nat
        /\ k \in Nat
    BY <1>1, OffsetIs DEF Writing
  <2> QED
    BY <2>1, BasicFacts, RetainedIs
<1>5. c > 0
  <2>1. Emitting(k) # <<>> /\ Emitting(k) \in Seq(InTask(k) \cap tags)
    BY <1>1, <1>3
  <2>2. Len(Emitting(k)) \in Nat \ {0}
    BY ONLY <2>1, EmptySeq
  <2> QED
    BY <1>3, <2>2
<1>6. NodesPerWord \in Nat \ {0} /\ from % NodesPerWord \in Nat /\ from % NodesPerWord < NodesPerWord
  BY <1>4, WordSizes
<1>7. taken \in Nat /\ taken > 0 /\ taken <= c /\ taken <= NodesPerWord - (from % NodesPerWord)
  <2> DEFINE r == from % NodesPerWord
  <2>1. r \in Nat /\ r < NodesPerWord /\ taken = Min({c, NodesPerWord - r})
    BY <1>3, <1>6
  <2> HIDE DEF r, c, taken
  <2>2. taken = IF c <= NodesPerWord - r THEN c ELSE NodesPerWord - r
    BY <1>3, <1>6, <2>1, MinTwo
  <2>3. taken \in Nat /\ taken > 0 /\ taken <= c /\ taken <= NodesPerWord - r
    BY <1>3, <1>5, <1>6, <2>1, <2>2
  <2> QED
    BY <2>3 DEF r
<1> HIDE DEF taken
<1>8. /\ DOMAIN nodes = 1 .. taken
      /\ \A i \in 1 .. taken : nodes[i] \in InTask(k) \cap tags /\ Rank(tags, nodes[i]) = from + (i - 1)
  <2> HIDE DEF c, from
  <2>0. 0 + taken <= Len(Emitting(k)) /\ 0 + 1 = 1 /\ 0 + taken = taken /\ 0 \in Nat
    BY <1>3, <1>7
  <2>1. DOMAIN nodes = 1 .. taken /\ \A i \in 1 .. taken : nodes[i] = Emitting(k)[0 + i]
    BY <1>3, <1>7, <2>0, SliceListed
  <2>2. \A i \in 1 .. taken : i \in 1 .. c /\ 0 + i = i
    BY <1>3, <1>7
  <2> QED
    BY <1>3, <2>1, <2>2
<1> HIDE DEF nodes
<1>9. \A i \in 1 .. taken : /\ nodes[i] \in tags \cap Inner(Old)
                            /\ masks[i] = Remaining(Old, tags, nodes[i])
                            /\ masks[i] = Final(from + (i - 1))
  <2> SUFFICES ASSUME NEW i \in 1 .. taken
               PROVE  nodes[i] \in tags \cap Inner(Old) /\ masks[i] = Remaining(Old, tags, nodes[i]) /\ masks[i] = Final(from + (i - 1))
    OBVIOUS
  <2>1. nodes[i] \in tags \cap Inner(Old)
    BY <1>1, <1>8 DEF InTask
  <2>2. masks[i] = Remaining(Old, tags, nodes[i])
    BY <1>1, RetainedMaskIs
  <2>3. Final(Rank(tags, nodes[i])) = Remaining(Old, tags, nodes[i])
    BY <2>1, FinalIs
  <2> QED
    BY <1>8, <2>1, <2>2, <2>3
<1> HIDE DEF masks
<1>10. \A p \in Nat : from <= p /\ p < from + taken => p \div NodesPerWord = from \div NodesPerWord
  BY <1>4, <1>6, <1>7, SameWord
<1>11. taken = NodesPerWord => \A p \in Nat : p \div NodesPerWord = from \div NodesPerWord => from <= p /\ p < from + taken
  BY <1>4, <1>6, <1>7, SameWord
<1>12. \A p \in DOMAIN output : p \in Nat
  BY <1>4 DEF Writing
<1>13. \A p \in Nat : from <= p /\ p < from + taken => p \in DOMAIN output /\ output[p] = {} /\ p < offset[k + 1]
  <2> SUFFICES ASSUME NEW p \in Nat, from <= p, p < from + taken
               PROVE  p \in DOMAIN output /\ output[p] = {} /\ p < offset[k + 1]
    OBVIOUS
  <2>1. p < offset[k + 1] /\ p < Rank(tags, LeafBegin(Old))
    <3> DEFINE end == offset[k + 1]
               all == Rank(tags, LeafBegin(Old))
    <3>1. end \in Nat /\ from \in Nat /\ end <= all /\ all \in Nat /\ taken <= end - from
      BY <1>4, <1>7
    <3> HIDE DEF end, from, all
    <3>2. p < end /\ p < all
      BY <1>7, <3>1
    <3> QED
      BY <3>2 DEF end, all
  <2>2. output[p] = {}
    BY <2>1 DEF Writing, Emitted
  <2>3. p \in DOMAIN output
    BY <1>4, <2>1 DEF Writing
  <2> QED
    BY <2>1, <2>2, <2>3
<1> HIDE DEF from, c
<1>14. ASSUME NEW p \in DOMAIN output
       PROVE  output'[p] = IF from <= p /\ p < from + taken THEN Final(p) ELSE output[p]
  <2>1. p \in Nat
    BY <1>12
  <2>2. output'[p] = IF p \notin word THEN output[p]
                     ELSE IF taken = NodesPerWord THEN written[p] ELSE output[p] \cup written[p]
    BY <1>1
  <2>3. p \in from .. (from + taken - 1) <=> from <= p /\ p < from + taken
    BY <1>4, <1>7, <2>1
  <2>4. CASE from <= p /\ p < from + taken
    <3>1. p \in word
      BY <1>10, <2>1, <2>4
    <3>2. written[p] = masks[p - from + 1]
      BY <2>3, <2>4, <3>1
    <3>3. p - from + 1 \in 1 .. taken /\ from + ((p - from + 1) - 1) = p
      BY <1>4, <1>7, <2>1, <2>4
    <3>4. written[p] = Final(p)
      BY <1>9, <3>2, <3>3
    <3>5. output[p] = {}
      BY <1>13, <2>1, <2>4
    <3> HIDE DEF written, word
    <3> QED
      BY <2>2, <2>4, <3>1, <3>4, <3>5
  <2>5. CASE ~ (from <= p /\ p < from + taken)
    <3>1. p \in word => written[p] = {} /\ taken # NodesPerWord
      BY <1>11, <2>1, <2>3, <2>5
    <3> HIDE DEF written, word
    <3> QED
      BY <2>2, <2>5, <3>1
  <2> QED
    BY <2>4, <2>5
<1>15. DOMAIN output' = DOMAIN output /\ output' = [p \in DOMAIN output' |-> output'[p]]
  BY <1>1
<1>16. task' \in [Tasks -> Nat] /\ task'[k] = task[k] + taken /\ \A j \in Tasks : j # k => task'[j] = task[j]
  <2>1. task \in [Tasks -> Nat]
    BY DEF Writing
  <2> QED
    BY <1>1, <1>7, <2>1
<1>17. \A n : HasByte(n)' <=> HasByte(n)
  BY <1>1, <1>2 DEF HasByte
<1>18. \A n : ClauseAt(n)' = ClauseAt(n)
  BY <1>1, <1>2 DEF ClauseAt
<1>19. \A n : HasByte(n) /\ (Noted(n) \/ (from <= Rank(tags, n) /\ Rank(tags, n) < from + taken)) => Noted(n)'
  <2> SUFFICES ASSUME NEW n, HasByte(n), Noted(n) \/ (from <= Rank(tags, n) /\ Rank(tags, n) < from + taken)
               PROVE  Noted(n)'
    OBVIOUS
  <2>1. ClauseAt(n) \in DOMAIN clause' /\ clause'[ClauseAt(n)] = <<n, Remaining(Old, tags, n)>>
    BY <1>1, <1>4, <1>7, <1>8, <1>9, ClausesWritten
  <2> QED
    BY <1>1, <1>2, <1>18, <2>1 DEF Noted
<1>20. \A p : Final(p)' = Final(p)
  BY <1>1, <1>2 DEF Final
<1>21. ASSUME NEW j \in Tasks, j # k PROVE Emitted(j)'
  <2>1. task'[j] = task[j] /\ Emitted(j)
    BY <1>16, <1>21 DEF Writing
  <2>2. /\ offset[j] \in Nat /\ offset[j + 1] \in Nat /\ task[j] \in Nat
        /\ offset[j + 1] <= Rank(tags, LeafBegin(Old))
        /\ (offset[j + 1] <= offset[k] \/ offset[k + 1] <= offset[j])
    <3>1. j < k \/ k < j
      <4>1. j \in Nat
        BY <1>1, OffsetIs DEF Writing
      <4> QED
        BY <1>4, <1>21, <4>1
    <3> QED
      BY <1>1, <3>1, OffsetIs DEF Writing
  <2>3. \A p \in Nat : offset[j] <= p /\ p < offset[j + 1] => p \in DOMAIN output /\ output'[p] = output[p]
    <3> SUFFICES ASSUME NEW p \in Nat, offset[j] <= p, p < offset[j + 1]
                 PROVE  p \in DOMAIN output /\ output'[p] = output[p]
      OBVIOUS
    <3>1. ~ (from <= p /\ p < from + taken)
      <4>1. ASSUME from <= p, p < from + taken PROVE FALSE
        <5>1. p < offset[k + 1] /\ offset[k] <= p
          <6>1. p < offset[k + 1]
            BY <1>13, <4>1
          <6>2. offset[k] <= from
            BY <1>4 DEF from
          <6> QED
            BY <1>4, <4>1, <6>1, <6>2
        <5> QED
          BY <1>4, <2>2, <5>1
      <4> QED
        BY <4>1
    <3>2. p \in DOMAIN output
      BY <1>4, <2>2 DEF Writing
    <3> QED
      BY <1>14, <3>1, <3>2
  <2>4. offset[j] + task[j] <= offset[j + 1]
    BY <2>1 DEF Emitted
  <2>5. \A p \in Nat : offset[j] <= p /\ p < offset[j] + task[j] => output'[p] = Final(p)
    <3>1. \A p \in Nat : p < offset[j] + task[j] => p < offset[j + 1]
      BY <2>2, <2>4
    <3>2. \A p \in Nat : offset[j] <= p /\ p < offset[j] + task[j] => output[p] = Final(p)
      BY <2>1 DEF Emitted
    <3> QED
      BY <2>3, <3>1, <3>2
  <2>6. \A p \in Nat : offset[j] + task[j] <= p /\ p < offset[j + 1] => output'[p] = {}
    <3>1. \A p \in Nat : offset[j] + task[j] <= p => offset[j] <= p
      BY <2>2
    <3>2. \A p \in Nat : offset[j] + task[j] <= p /\ p < offset[j + 1] => output[p] = {}
      BY <2>1 DEF Emitted
    <3> QED
      BY <2>3, <3>1, <3>2
  <2>7. \A n : HasByte(n) /\ n \in InTask(j) /\ Rank(tags, n) < offset[j] + task[j] => Noted(n)'
    BY <1>19, <2>1 DEF Emitted
  <2> QED
    BY <1>1, <1>2, <1>17, <1>20, <2>1, <2>4, <2>5, <2>6, <2>7 DEF Emitted
<1>22. Emitted(k)'
  <2> DEFINE next == offset[k] + task'[k]
             end == offset[k + 1]
  <2>1. next = from + taken /\ next <= end /\ next \in Nat /\ from <= next /\ offset[k] <= from /\ end \in Nat
        /\ end <= Rank(tags, LeafBegin(Old))
    <3>1. next = from + taken
      BY <1>4, <1>7, <1>16 DEF from
    <3>2. offset[k] <= from
      BY <1>4 DEF from
    <3>3. taken <= end - from /\ end \in Nat /\ from \in Nat
      BY <1>4, <1>7 DEF c
    <3> HIDE DEF next, end
    <3>4. next <= end /\ next \in Nat /\ from <= next
      BY <1>7, <3>1, <3>3
    <3> QED
      BY <1>4, <3>1, <3>2, <3>3, <3>4 DEF end
  <2> HIDE DEF next, end
  <2>2. \A p \in Nat : p < end => p \in DOMAIN output
    BY <1>4, <2>1 DEF Writing
  <2>3. \A p \in Nat : offset[k] <= p /\ p < from => output[p] = Final(p)
    BY DEF Writing, Emitted, from
  <2>4. \A p \in Nat : from <= p /\ p < end => output[p] = {}
    BY DEF Writing, Emitted, from, end
  <2>5. \A p \in Nat : offset[k] <= p /\ p < next => output'[p] = Final(p)
    <3> SUFFICES ASSUME NEW p \in Nat, offset[k] <= p, p < next PROVE output'[p] = Final(p)
      OBVIOUS
    <3>1. p \in DOMAIN output
      BY <2>1, <2>2
    <3>2. CASE p < from
      BY <1>4, <1>14, <2>3, <3>1, <3>2
    <3>3. CASE from <= p
      BY <1>14, <2>1, <3>1, <3>3
    <3> QED
      BY <1>4, <3>2, <3>3
  <2>6. \A p \in Nat : next <= p /\ p < end => output'[p] = {}
    <3> SUFFICES ASSUME NEW p \in Nat, next <= p, p < end PROVE output'[p] = {}
      OBVIOUS
    <3>1. p \in DOMAIN output /\ ~ (p < from + taken) /\ from <= p
      BY <1>4, <2>1, <2>2
    <3> QED
      BY <1>14, <2>4, <3>1
  <2>7. \A n : HasByte(n) /\ n \in InTask(k) /\ Rank(tags, n) < next => Noted(n)'
    <3> SUFFICES ASSUME NEW n, HasByte(n), n \in InTask(k), Rank(tags, n) < next PROVE Noted(n)'
      OBVIOUS
    <3>1. n \in tags /\ Rank(tags, n) \in Nat
      BY <1>4, RankType DEF HasByte
    <3>2. CASE Rank(tags, n) < from
      <4>1. Noted(n)
        BY <3>2 DEF Writing, Emitted, from
      <4> QED
        BY <1>19, <4>1
    <3>3. CASE from <= Rank(tags, n)
      BY <1>19, <2>1, <3>3
    <3> QED
      BY <1>4, <3>1, <3>2, <3>3
  <2> QED
    BY <1>1, <1>2, <1>17, <1>20, <2>1, <2>5, <2>6, <2>7 DEF Emitted, next, end
<1>23. \A j \in Tasks' : Emitted(j)'
  BY <1>2, <1>21, <1>22
<1>24. Offsets'
  BY <1>1, <1>2 DEF Offsets, Writing
<1> QED
  BY <1>1, <1>2, <1>15, <1>16, <1>23, <1>24 DEF Writing

\* Every task has filled its block, so no cursor lost its alignment and all masks are there.
LEMMA EmitDoneStep ==
  ASSUME Basic, Writing, EmitDone
  PROVE  Basic' /\ Ending'
<1>1. /\ in' = in /\ tree' = tree /\ tags' = tags /\ live' = live /\ offset' = offset /\ output' = output
      /\ clause' = clause /\ tree = Old
      /\ \A k \in Tasks : Emitting(k) = <<>>
      /\ IF \A k \in Tasks : offset[k] + task[k] = offset[k + 1]
           THEN phase' = "finalize" /\ UNCHANGED result
           ELSE Finish("logic_error")
  BY DEF EmitDone, Shape, Writing
<1>2. Old' = Old /\ Height' = Height /\ Basic'
  BY <1>1, Same, Shared
<1>3. ASSUME NEW k \in Tasks
      PROVE  /\ offset[k] + task[k] = offset[k + 1]
             /\ offset[k] \in Nat /\ offset[k + 1] \in Nat /\ k \in Nat
             /\ offset[k] = Rank(tags, Bound(k)) /\ offset[k + 1] = Rank(tags, Bound(k + 1))
  <2>1. offset[k] + task[k] <= offset[k + 1] /\ Offsets /\ task \in [Tasks -> Nat]
    BY DEF Writing, Emitted
  <2>2. /\ offset[k + 1] - (offset[k] + task[k]) \in Nat
        /\ Len(Emitting(k)) = offset[k + 1] - (offset[k] + task[k])
    BY <1>1, <2>1, EmittingIs
  <2>3. Emitting(k) = <<>>
    BY <1>1
  <2>4. Len(Emitting(k)) = 0
    BY <2>3
  <2>5. /\ offset[k] \in Nat /\ offset[k + 1] \in Nat /\ task[k] \in Nat /\ k \in Nat
        /\ offset[k] = Rank(tags, Bound(k)) /\ offset[k + 1] = Rank(tags, Bound(k + 1))
    BY <1>1, <2>1, OffsetIs
  <2> DEFINE x == offset[k] + task[k]
             y == offset[k + 1]
  <2>6. x \in Nat /\ y \in Nat /\ y - x = 0
    BY <2>2, <2>4, <2>5
  <2> HIDE DEF x, y
  <2>7. x = y
    BY <2>6
  <2> QED
    BY <2>5, <2>7 DEF x, y
<1>4. phase' = "finalize" /\ result' = result
  BY <1>1, <1>3
<1>5. tags \in SUBSET Nat /\ WellFormed(Old) /\ LeafBegin(Old) \in Nat
      /\ Inner(Old) = {n \in Nat : n < LeafBegin(Old)}
  BY BasicFacts
\* The task of a tagged node has written it.
<1>6. ASSUME NEW n \in tags \cap Inner(Old)
      PROVE  \E k \in Tasks : /\ n \in InTask(k) /\ offset[k] <= Rank(tags, n)
                              /\ Rank(tags, n) < offset[k] + task[k] /\ Rank(tags, n) \in Nat
  <2>1. n \div CompactNodesPerTask \in Tasks /\ n \in Nat
    BY <1>1, <1>5, Bounds
  <2> DEFINE k == n \div CompactNodesPerTask
  <2>2. n \in InTask(k)
    BY <1>1 DEF InTask
  <2>3. k \in Tasks
    BY <2>1
  <2> HIDE DEF k
  <2>4. /\ k \in Nat /\ offset[k] + task[k] = offset[k + 1]
        /\ offset[k] = Rank(tags, Bound(k)) /\ offset[k + 1] = Rank(tags, Bound(k + 1))
    BY <1>3, <2>3
  <2>5. k + 1 \in Nat
    BY <2>4
  <2>6. Bound(k) \in Nat /\ Bound(k + 1) \in Nat /\ Bound(k) <= n /\ n < Bound(k + 1)
    BY <1>1, <2>2, <2>4, <2>5, Bounds
  <2>7. Rank(tags, Bound(k)) <= Rank(tags, n) /\ Rank(tags, n) \in Nat
    BY <1>5, <2>1, <2>6, RankOrder
  <2>8. Rank(tags, n) < Rank(tags, Bound(k + 1))
    BY <1>5, <2>1, <2>6, RankOrder, n <= Bound(k + 1)
  <2> QED
    BY <2>2, <2>3, <2>4, <2>7, <2>8
<1>7. Masked(output)
  <2>1. \A p \in DOMAIN output : output[p] = Final(p)
    <3> SUFFICES ASSUME NEW p \in DOMAIN output PROVE output[p] = Final(p)
      OBVIOUS
    <3>1. p \in Nat /\ p < Rank(tags, LeafBegin(Old))
      <4>1. Rank(tags, LeafBegin(Old)) \in Nat
        BY RetainedIs
      <4> QED
        BY <4>1 DEF Writing
    <3>2. NodeAt(tags, p) \in tags \cap Inner(Old) /\ Rank(tags, NodeAt(tags, p)) = p
      BY <3>1, FinalType
    <3>3. PICK k \in Tasks : offset[k] <= p /\ p < offset[k] + task[k]
      BY <1>6, <3>2
    <3> QED
      BY <3>1, <3>3 DEF Writing, Emitted
  <2>2. DOMAIN output = 0 .. (Rank(tags, LeafBegin(Old)) - 1) /\ output = [p \in DOMAIN output |-> output[p]]
    BY DEF Writing
  <2>3. output = [p \in DOMAIN output |-> Final(p)]
    BY <2>1, <2>2
  <2> QED
    BY <2>2, <2>3 DEF Masked
<1>8. \A n : HasByte(n) => Noted(n)
  <2> SUFFICES ASSUME NEW n, HasByte(n) PROVE Noted(n)
    OBVIOUS
  <2>1. PICK k \in Tasks : n \in InTask(k) /\ Rank(tags, n) < offset[k] + task[k]
    BY <1>6 DEF HasByte
  <2> QED
    BY <2>1 DEF Writing, Emitted
<1>9. Masked(output)' /\ \A n : HasByte(n)' => Noted(n)'
  BY <1>1, <1>2, <1>7, <1>8 DEF Masked, Final, HasByte, Noted, ClauseAt
<1> QED
  BY <1>1, <1>2, <1>4, <1>9 DEF Writing, Ending

\* Both variants end in the same way.
LEMMA RetainedFinished ==
  ASSUME Basic, LiveAbove(Old, tags), \A n : HasByte(n) => Noted(n), NEW masks, Masked(masks), Store(masks),
         in' = in, tags' = tags, live' = live, clause' = clause
  PROVE  Basic' /\ Finished'
<1>1. Old' = Old /\ Basic'
  BY Same, Shared
<1>2. phase' = "done" /\ result' = "retained" /\ Compacted(Old, tags, tree')
  BY StoreRetains
<1>3. in.keep # {}
  BY ClosedIsLive DEF LiveAbove, Decided
<1>4. \A n : HasByte(n)' => Noted(n)'
  BY <1>1 DEF HasByte, Noted, ClauseAt
<1> QED
  BY <1>1, <1>2, <1>3, <1>4 DEF Finished

\* The end of a parallel reification.
LEMMA FinalizeStep ==
  ASSUME Basic, Ending, Finalize
  PROVE  Basic' /\ Finished'
<1>1. in' = in /\ tags' = tags /\ live' = live /\ clause' = clause /\ Store(output)
  BY DEF Finalize
<1> QED
  BY <1>1, RetainedFinished DEF Ending

-----------------------------------------------------------------------------
\* The serial closing finds the ancestors of the kept leaves, level by level.
LEMMA LevelsDisjoint ==
  ASSUME NEW t, WellFormed(t), NEW d \in 0 .. Deep(t), NEW e \in 0 .. Deep(t), NEW n, n \in Level(t, d), n \in Level(t, e)
  PROVE  d = e
<1>1. Deep(t) \in Nat
  BY TreeShape
<1>2. ASSUME NEW i \in 0 .. Deep(t), NEW j \in 0 .. Deep(t), i < j, n \in Level(t, i), n \in Level(t, j) PROVE FALSE
  <2>1. i + 1 \in 0 .. (Deep(t) + 1) /\ j \in 0 .. (Deep(t) + 1) /\ i + 1 <= j
    BY <1>1, <1>2
  <2>2. t.level[i + 1] <= t.level[j] /\ t.level[i + 1] \in Nat /\ t.level[j] \in Nat
    BY <2>1, LevelsOrdered
  <2>3. n \in Nat /\ n < t.level[i + 1] /\ t.level[j] <= n
    BY <1>2, LevelIs
  <2> QED
    BY <2>2, <2>3
<1> QED
  BY <1>1, <1>2

\* close_dfs tags the same nodes as the levels closed by tasks.
LEMMA CloseSerialStep ==
  ASSUME Basic, Closing, CloseSerial
  PROVE  /\ Basic' /\ in' = in /\ tree' = tree /\ clause' = clause /\ cursor' = cursor
         /\ \/ Finished'
            \/ phase' = "compact" /\ result' = "running" /\ level' = 0 /\ LiveAbove(Old', tags')
<1> DEFINE Def(f) == f = [d \in 0 .. Height |->
                        IF d = Height THEN in.keep
                        ELSE {n \in tree.level[d] .. (tree.level[d + 1] - 1) :
                                \E l \in tree.mask[n] : Child(tree, n, l) \in f[d + 1]}]
           closed == CHOOSE f : Def(f)
           deep == Deep(Old)
<1>1. /\ in' = in /\ tree' = tree /\ clause' = clause /\ cursor' = cursor
      /\ level' = 0 /\ tree = Old /\ result = "running"
      /\ ~ in.parallel
      /\ tags' = UNION {closed[d] : d \in 0 .. Height}
      /\ live' = [d \in 0 .. Height |-> Cardinality(closed[d])]
      /\ IF closed[0] = {} THEN Finish("empty") ELSE phase' = "compact" /\ UNCHANGED result
  BY DEF CloseSerial, Shape, Closing, Def
<1>2. Old' = Old /\ Height' = Height
  BY <1>1, Same
<1>3. /\ WellFormed(Old) /\ Height = deep /\ Height \in Nat \ {0} /\ in.keep \subseteq Leaves(Old)
      /\ Leaves(Old) = Level(Old, deep)
  BY BasicFacts DEF Leaves, Level, LeafBegin
<1> DEFINE goal == [d \in 0 .. Height |-> {n \in Level(Old, d) : \E x \in in.keep : Ancestor(Old, x, d) = n}]
<1>4. \A x \in in.keep : \E anc : PathTo(Old, anc, Lineage(Old, x), deep, x)
  BY <1>3, LeafPath
\* Ancestors of the kept leaves satisfy the recursion.
<1>5. Def(goal)
  <2>1. ASSUME NEW x \in in.keep
        PROVE  /\ Ancestor(Old, x, Height) = x
               /\ \A d \in 0 .. (Height - 1) :
                    /\ Ancestor(Old, x, d) \in Inner(Old) /\ Ancestor(Old, x, d) \in Level(Old, d)
                    /\ \E l \in Old.mask[Ancestor(Old, x, d)] : Child(Old, Ancestor(Old, x, d), l) = Ancestor(Old, x, d + 1)
    <3>1. PICK anc : PathTo(Old, anc, Lineage(Old, x), deep, x)
      BY <1>4
    <3>2. \A d \in 0 .. deep : Ancestor(Old, x, d) = anc[d] /\ anc[d] \in Level(Old, d)
      BY <1>3, <3>1, AncestorIs, PathLevels DEF At, Level
    <3>3. \A d \in 0 .. (Height - 1) : d + 1 \in 1 .. deep /\ (d + 1) - 1 = d /\ d \in 0 .. deep /\ d + 1 \in 0 .. deep
      BY <1>3
    <3>4. \A d \in 0 .. (Height - 1) : /\ anc[d] \in Inner(Old)
                                       /\ Lineage(Old, x)[d + 1] \in Old.mask[anc[d]]
                                       /\ Child(Old, anc[d], Lineage(Old, x)[d + 1]) = anc[d + 1]
      <4> SUFFICES ASSUME NEW d \in 0 .. (Height - 1)
                   PROVE  /\ anc[d] \in Inner(Old) /\ Lineage(Old, x)[d + 1] \in Old.mask[anc[d]]
                          /\ Child(Old, anc[d], Lineage(Old, x)[d + 1]) = anc[d + 1]
        OBVIOUS
      <4> DEFINE e == d + 1
      <4>1. e \in 1 .. deep /\ e - 1 = d
        BY <3>3
      <4> HIDE DEF e
      <4>2. anc[e - 1] \in Inner(Old) /\ Lineage(Old, x)[e] \in Old.mask[anc[e - 1]]
            /\ Child(Old, anc[e - 1], Lineage(Old, x)[e]) = anc[e]
        BY <3>1, <4>1 DEF PathTo
      <4>3. /\ anc[d] \in Inner(Old) /\ Lineage(Old, x)[e] \in Old.mask[anc[d]]
            /\ Child(Old, anc[d], Lineage(Old, x)[e]) = anc[e]
        BY <4>1, <4>2
      <4> QED
        BY <4>3 DEF e
    <3>5. anc[deep] = x /\ deep \in 0 .. deep
      BY <1>3, <3>1 DEF PathTo
    <3> QED
      BY <1>3, <3>2, <3>3, <3>4, <3>5
  <2>2. ASSUME NEW d \in 0 .. Height
        PROVE  goal[d] = IF d = Height THEN in.keep
                         ELSE {n \in tree.level[d] .. (tree.level[d + 1] - 1) :
                                 \E l \in tree.mask[n] : Child(tree, n, l) \in goal[d + 1]}
    <3>1. CASE d = Height
      <4>1. \A n : n \in Level(Old, deep) /\ (\E x \in in.keep : Ancestor(Old, x, d) = n) <=> n \in in.keep
        BY <1>3, <2>1, <3>1
      <4>2. goal[d] = {n \in Level(Old, d) : \E x \in in.keep : Ancestor(Old, x, d) = n} /\ Level(Old, d) = Level(Old, deep)
        BY <1>3, <3>1
      <4> HIDE DEF goal
      <4>3. goal[d] = in.keep
        BY <4>1, <4>2
      <4> QED
        BY <3>1, <4>3
    <3>2. CASE d # Height
      <4>1. /\ d \in 0 .. (Height - 1) /\ d + 1 \in 0 .. Height
            /\ d \in 0 .. (deep - 1) /\ d < deep /\ (d + 1) + 1 = d + 2
        BY <1>3, <3>2
      <4>2. ASSUME NEW n \in Level(Old, d)
            PROVE  (\E x \in in.keep : Ancestor(Old, x, d) = n) <=> \E l \in Old.mask[n] : Child(Old, n, l) \in goal[d + 1]
        <5>1. n \in Inner(Old)
          BY <1>3, <4>1, Levels DEF Level
        <5>2. ASSUME NEW x \in in.keep, Ancestor(Old, x, d) = n PROVE \E l \in Old.mask[n] : Child(Old, n, l) \in goal[d + 1]
          <6>1. PICK l \in Old.mask[n] : Child(Old, n, l) = Ancestor(Old, x, d + 1)
            BY <2>1, <4>1, <5>2
          <6>2. Child(Old, n, l) \in Level(Old, d + 1)
            <7>1. Child(Old, n, l) \in Old.level[d + 1] .. (Old.level[d + 2] - 1)
              BY <1>3, <4>1, <5>1, ChildLevel DEF Level
            <7> QED
              BY <4>1, <7>1 DEF Level
          <6> QED
            BY <4>1, <6>1, <6>2
        <5>3. ASSUME NEW l \in Old.mask[n], Child(Old, n, l) \in goal[d + 1] PROVE \E x \in in.keep : Ancestor(Old, x, d) = n
          <6>1. PICK x \in in.keep : Ancestor(Old, x, d + 1) = Child(Old, n, l)
            BY <4>1, <5>3
          <6>2. Ancestor(Old, x, d) \in Inner(Old)
            BY <2>1, <4>1
          <6>3. PICK k \in Old.mask[Ancestor(Old, x, d)] : Child(Old, Ancestor(Old, x, d), k) = Ancestor(Old, x, d + 1)
            BY <2>1, <4>1
          <6>4. Ancestor(Old, x, d) = n
            BY <1>3, <5>1, <6>1, <6>2, <6>3, ChildInjective
          <6> QED
            BY <6>4
        <5> QED
          BY <5>2, <5>3
      <4>3. goal[d] = {n \in Level(Old, d) : \E x \in in.keep : Ancestor(Old, x, d) = n}
        OBVIOUS
      <4> HIDE DEF goal
      <4>4. goal[d] = {n \in Level(Old, d) : \E l \in Old.mask[n] : Child(Old, n, l) \in goal[d + 1]}
        BY <4>2, <4>3
      <4> QED
        BY <1>1, <3>2, <4>4 DEF Level
    <3> QED
      BY <3>1, <3>2
  <2>3. goal = [d \in 0 .. Height |-> goal[d]]
    OBVIOUS
  <2> HIDE DEF goal
  <2>4. goal = [d \in 0 .. Height |-> IF d = Height THEN in.keep
                         ELSE {n \in tree.level[d] .. (tree.level[d + 1] - 1) :
                                 \E l \in tree.mask[n] : Child(tree, n, l) \in goal[d + 1]}]
    BY <2>2, <2>3
  <2> QED
    BY <2>4 DEF Def
<1>6. Def(closed)
  <2> HIDE DEF goal, Def
  <2> QED
    BY <1>5
<1> HIDE DEF closed, goal
<1>7. /\ closed[Height] = in.keep
      /\ \A d \in 0 .. (Height - 1) :
           closed[d] = {n \in Level(Old, d) : \E l \in Old.mask[n] : Child(Old, n, l) \in closed[d + 1]}
  <2>1. \A d \in 0 .. Height : closed[d] = IF d = Height THEN in.keep
                         ELSE {n \in tree.level[d] .. (tree.level[d + 1] - 1) :
                                 \E l \in tree.mask[n] : Child(tree, n, l) \in closed[d + 1]}
    BY <1>6
  <2>2. Height \in 0 .. Height /\ \A d \in 0 .. (Height - 1) : d \in 0 .. Height /\ d # Height
    BY <1>3
  <2> HIDE DEF Def
  <2>3. closed[Height] = in.keep
    BY <2>1, <2>2
  <2>4. ASSUME NEW d \in 0 .. (Height - 1)
        PROVE  closed[d] = {n \in Level(Old, d) : \E l \in Old.mask[n] : Child(Old, n, l) \in closed[d + 1]}
    <3>1. closed[d] = {n \in tree.level[d] .. (tree.level[d + 1] - 1) : \E l \in tree.mask[n] : Child(tree, n, l) \in closed[d + 1]}
      BY <2>1, <2>2
    <3>2. tree = Old
      BY <1>1
    <3>3. tree.level[d] .. (tree.level[d + 1] - 1) = Level(Old, d)
      BY <3>2 DEF Level
    <3> QED
      BY <3>1, <3>2, <3>3
  <2> QED
    BY <2>3, <2>4
<1> HIDE DEF Def
<1>8. \A d \in 0 .. Height : closed[d] \subseteq Level(Old, d)
  <2> SUFFICES ASSUME NEW d \in 0 .. Height PROVE closed[d] \subseteq Level(Old, d)
    OBVIOUS
  <2>1. CASE d = Height
    BY <1>3, <1>7, <2>1
  <2>2. CASE d # Height
    <3>1. d \in 0 .. (Height - 1)
      BY <1>3, <2>2
    <3> QED
      BY <1>7, <3>1
  <2> QED
    BY <2>1, <2>2
<1>9. \A d \in 0 .. Height : tags' \cap Level(Old, d) = closed[d]
  <2> SUFFICES ASSUME NEW d \in 0 .. Height PROVE tags' \cap Level(Old, d) = closed[d]
    OBVIOUS
  <2>1. ASSUME NEW n \in tags', n \in Level(Old, d) PROVE n \in closed[d]
    <3>1. PICK e \in 0 .. Height : n \in closed[e]
      BY <1>1
    <3>2. e = d
      BY <1>3, <1>8, <2>1, <3>1, LevelsDisjoint
    <3> QED
      BY <3>1, <3>2
  <2>2. closed[d] \subseteq tags'
    BY <1>1
  <2> QED
    BY <1>8, <2>1, <2>2
<1>10. Basic'
  <2>1. tags' \subseteq 0 .. (EndNode(Old) - 1)
    <3> SUFFICES ASSUME NEW n \in tags' PROVE n \in 0 .. (EndNode(Old) - 1)
      OBVIOUS
    <3>1. PICK e \in 0 .. Height : n \in closed[e]
      BY <1>1
    <3>2. n \in Level(Old, e)
      BY <1>8, <3>1
    <3>3. n \in Nat /\ n < EndNode(Old)
      BY <1>3, <3>2, Levels DEF Level
    <3>4. EndNode(Old) \in Nat
      BY BasicFacts
    <3> QED
      BY <3>3, <3>4
  <2>2. tags' \cap Leaves(Old) = in.keep
    <3>1. Height \in 0 .. Height
      BY <1>3
    <3> QED
      BY <1>3, <1>7, <1>9, <3>1
  <2>3. live' = [d \in 0 .. Height |-> Cardinality(tags' \cap Level(Old, d))]
    BY <1>1, <1>9
  <2> QED
    BY <1>1, <1>2, <2>1, <2>2, <2>3 DEF Basic
<1>11. Decided(Old, tags')
  <2> SUFFICES ASSUME NEW n \in Inner(Old)
               PROVE  n \in tags' <=> \E l \in Old.mask[n] : Child(Old, n, l) \in tags'
    BY DEF Decided
  <2>1. /\ n \in Nat /\ n < LeafBegin(Old) /\ LeafBegin(Old) <= EndNode(Old)
        /\ LeafBegin(Old) \in Nat /\ EndNode(Old) \in Nat
    BY BasicFacts
  <2>2. PICK d \in 0 .. deep : n \in Level(Old, d)
    BY <1>3, <2>1, LevelOf
  <2>3. d \in 0 .. (Height - 1) /\ d + 1 \in 0 .. Height /\ d \in 0 .. Height /\ (d + 1) + 1 = d + 2
    <3>1. ASSUME d = deep PROVE FALSE
      <4>1. n \in Leaves(Old) /\ Leaves(Old) = LeafBegin(Old) .. (EndNode(Old) - 1)
        BY <1>3, <2>2, <3>1, TreeShape
      <4> QED
        BY <2>1, <4>1
    <3> QED
      BY <1>3, <3>1
  <2>4. \A l \in Old.mask[n] : Child(Old, n, l) \in Level(Old, d + 1)
    <3>1. \A l \in Old.mask[n] : Child(Old, n, l) \in Old.level[d + 1] .. (Old.level[d + 2] - 1)
      BY <1>3, <2>2, <2>3, ChildLevel DEF Level
    <3> QED
      BY <2>3, <3>1 DEF Level
  <2>5. n \in tags' <=> n \in closed[d]
    BY <1>9, <2>2, <2>3
  <2>6. \A l \in Old.mask[n] : Child(Old, n, l) \in tags' <=> Child(Old, n, l) \in closed[d + 1]
    BY <1>9, <2>3, <2>4
  <2>7. n \in closed[d] <=> \E l \in Old.mask[n] : Child(Old, n, l) \in closed[d + 1]
    BY <1>7, <2>2, <2>3
  <2> QED
    BY <2>5, <2>6, <2>7
<1>12. 0 \in tags' <=> closed[0] # {}
  <2>1. Level(Old, 0) = {0}
    <3>1. Level(Old, 0) = 0 .. (1 - 1)
      BY <1>3, Levels DEF Level
    <3> QED
      BY <3>1
  <2>2. 0 \in 0 .. Height
    BY <1>3
  <2> QED
    BY <1>9, <2>1, <2>2
<1>13. 0 \in tags' <=> in.keep # {}
  <2>1. tags' \cap Leaves(Old) = in.keep
    BY <1>2, <1>1, <1>10 DEF Basic
  <2> QED
    BY <1>3, <1>11, <2>1, RootAlive
<1>14. CASE closed[0] = {}
  <2>1. phase' = "done" /\ result' = "empty"
    BY <1>1, <1>14 DEF Finish
  <2>2. Finished'
    BY <1>1, <1>12, <1>13, <1>14, <2>1 DEF Finished
  <2> QED
    BY <1>1, <1>10, <2>2
<1>15. CASE closed[0] # {}
  <2>1. phase' = "compact" /\ result' = "running"
    BY <1>1, <1>15
  <2>2. tags' \subseteq 0 .. (EndNode(Old) - 1)
    BY <1>2, <1>10 DEF Basic
  <2>3. LiveAbove(Old, tags')
    BY <1>11, <1>12, <1>15, <2>2 DEF LiveAbove, Decided
  <2> QED
    BY <1>1, <1>2, <1>10, <2>1, <2>3
<1> QED
  BY <1>14, <1>15

-----------------------------------------------------------------------------
\* The compaction in place.  What is behind the words read is still the old tree, what is in
\* front of the masks that wait is the new one.
WordFront == IF level * NodesPerWord <= LeafBegin(Old) THEN level * NodesPerWord ELSE LeafBegin(Old)

PendingBegin == cursor.write - Len(cursor.pending)

Compacting ==
  /\ phase = "compact" /\ result = "running" /\ LiveAbove(Old, tags) /\ level \in Nat
  /\ cursor.child = Before(Old, WordFront) + 1 /\ cursor.write = Rank(tags, WordFront)
  /\ cursor.pending \in Seq(SUBSET Label) /\ Len(cursor.pending) <= cursor.write
  /\ \A i \in 1 .. Len(cursor.pending), p \in Nat : p = PendingBegin + (i - 1) => cursor.pending[i] = Final(p)
  /\ DOMAIN tree.mask = Inner(Old)
  /\ \A p \in Nat : p < PendingBegin => tree.mask[p] = Final(p)
  /\ \A n \in Inner(Old) : n >= WordFront => tree.mask[n] = Old.mask[n]
  /\ \A n : HasByte(n) /\ n < WordFront => Noted(n)

\* The compaction in place starts with nothing written.
LEMMA CompactBegins ==
  ASSUME Basic, Closing, CloseSerial
  PROVE  Basic' /\ (Finished' \/ Compacting')
<1>1. /\ Basic' /\ in' = in /\ tree' = tree /\ clause' = clause /\ cursor' = cursor
      /\ (Finished' \/ (phase' = "compact" /\ result' = "running" /\ level' = 0 /\ LiveAbove(Old', tags')))
  BY CloseSerialStep
<1>2. tree = Old /\ cursor = [child |-> 1, write |-> 0, pending |-> <<>>] /\ Old' = Old
  BY <1>1, Same DEF Closing
<1>3. ASSUME phase' = "compact", result' = "running", level' = 0, LiveAbove(Old', tags') PROVE Compacting'
  <2>1. tags' \in SUBSET Nat /\ LeafBegin(Old) \in Nat /\ NodesPerWord \in Nat /\ WellFormed(Old)
    <3>1. WellFormed(Old)
      BY BasicFacts
    <3> QED
      BY <1>2, <1>3, <3>1, NodesType, TreeShape, WordSizes
  <2>2. WordFront' = 0
    BY <1>2, <1>3, <2>1 DEF WordFront
  <2>3. Before(Old, 0) = 0 /\ Rank(tags', 0) = 0
    BY <2>1, BeforeZero, RankZero
  <2>4. cursor'.child = 1 /\ cursor'.write = 0 /\ cursor'.pending = <<>>
    BY <1>1, <1>2
  <2>5. cursor'.pending \in Seq(SUBSET Label) /\ Len(cursor'.pending) = 0
    BY <2>4
  <2>6. PendingBegin' = 0
    <3>1. PendingBegin' = cursor'.write - Len(cursor'.pending)
      BY DEF PendingBegin
    <3> DEFINE x == cursor'.write
               y == Len(cursor'.pending)
    <3>2. x = 0 /\ y = 0 /\ PendingBegin' = x - y
      BY <2>4, <2>5, <3>1
    <3> HIDE DEF x, y
    <3> QED
      BY <3>2
  <2>7. DOMAIN tree'.mask = Inner(Old) /\ tree'.mask = Old.mask
    BY <1>1, <1>2, <2>1 DEF WellFormed
  <2>8. \A n : HasByte(n)' => ~ (n < 0)
    <3>1. \A n \in tags' : ~ (n < 0)
      BY <2>1
    <3> QED
      BY <3>1 DEF HasByte
  <2>9. \A p \in Nat : ~ (p < 0)
    OBVIOUS
  <2>10. /\ cursor'.child = Before(Old', WordFront') + 1 /\ cursor'.write = Rank(tags', WordFront')
         /\ Len(cursor'.pending) <= cursor'.write /\ \A i : i \notin 1 .. Len(cursor'.pending)
    BY <1>2, <2>2, <2>3, <2>4, <2>5
  <2> QED
    BY <1>2, <1>3, <2>2, <2>5, <2>6, <2>7, <2>8, <2>9, <2>10 DEF Compacting
<1> QED
  BY <1>1, <1>3

\* Child bits depend on the masks of their nodes only.
LEMMA BitsSame ==
  ASSUME NEW t, NEW u, NEW X, \A n \in X : t.mask[n] = u.mask[n]
  PROVE  Bits(t, X) = Bits(u, X)
<1>1. {bit \in X \X Label : bit[2] \in t.mask[bit[1]]} = {bit \in X \X Label : bit[2] \in u.mask[bit[1]]}
  <2>1. \A bit \in X \X Label : bit[1] \in X
    OBVIOUS
  <2> QED
    BY <2>1
<1> QED
  BY <1>1 DEF Bits

\* The nodes of a word.
LEMMA FrontIs ==
  ASSUME Basic, level \in Nat
  PROVE  /\ WordFront \in Nat /\ WordFront <= LeafBegin(Old)
         /\ level * NodesPerWord >= LeafBegin(Old) => WordFront = LeafBegin(Old)
         /\ \A next : next = (IF (level + 1) * NodesPerWord <= LeafBegin(Old) THEN (level + 1) * NodesPerWord ELSE LeafBegin(Old))
               => /\ next \in Nat /\ WordFront <= next /\ next <= LeafBegin(Old)
                  /\ level * NodesPerWord < LeafBegin(Old)
                       => \A n \in Nat : n \in Inner(Old) /\ n \div NodesPerWord = level <=> WordFront <= n /\ n < next
<1> DEFINE a == level * NodesPerWord
           b == (level + 1) * NodesPerWord
           end == LeafBegin(Old)
<1>1. NodesPerWord \in Nat \ {0} /\ end \in Nat /\ Inner(Old) = {n \in Nat : n < end}
  BY WordSizes, BasicFacts
<1>2. a \in Nat /\ b \in Nat /\ a <= b
  <2>1. b = a + NodesPerWord /\ a \in Nat
    BY <1>1
  <2> HIDE DEF a, b
  <2> QED
    BY <1>1, <2>1
<1>3. \A n \in Nat : (n \div NodesPerWord < level <=> n < a) /\ (n \div NodesPerWord < level + 1 <=> n < b) /\ n \div NodesPerWord \in Nat
  BY <1>1, DivLess, Quotient
<1>4. WordFront = IF a <= end THEN a ELSE end
  BY DEF WordFront
<1> HIDE DEF a, b, end
<1>5. \A n \in Nat : n \div NodesPerWord = level <=> a <= n /\ n < b
  <2> SUFFICES ASSUME NEW n \in Nat PROVE n \div NodesPerWord = level <=> a <= n /\ n < b
    OBVIOUS
  <2> DEFINE q == n \div NodesPerWord
  <2>1. (q < level <=> n < a) /\ (q < level + 1 <=> n < b) /\ q \in Nat
    BY <1>3
  <2> HIDE DEF q
  <2>2. q = level <=> a <= n /\ n < b
    BY <1>2, <2>1
  <2> QED
    BY <2>2 DEF q
<1>6. WordFront \in Nat /\ WordFront <= end /\ (a >= end => WordFront = end)
  BY <1>1, <1>2, <1>4
<1>7. ASSUME NEW next, next = IF b <= end THEN b ELSE end
      PROVE  /\ next \in Nat /\ WordFront <= next /\ next <= end
             /\ a < end => \A n \in Nat : n \in Inner(Old) /\ n \div NodesPerWord = level <=> WordFront <= n /\ n < next
  <2>1. next \in Nat /\ WordFront <= next /\ next <= end
    BY <1>1, <1>2, <1>4, <1>7
  <2>2. ASSUME a < end, NEW n \in Nat PROVE n \in Inner(Old) /\ n \div NodesPerWord = level <=> WordFront <= n /\ n < next
    <3>1. n \in Inner(Old) <=> n < end
      BY <1>1
    <3>2. n \div NodesPerWord = level <=> a <= n /\ n < b
      BY <1>5
    <3>3. WordFront = a
      BY <1>1, <1>2, <1>4, <2>2
    <3>4. n < next <=> n < b /\ n < end
      BY <1>1, <1>2, <1>7
    <3> QED
      BY <3>1, <3>2, <3>3, <3>4
  <2> QED
    BY <2>1, <2>2
<1> QED
  BY <1>6, <1>7 DEF a, b, end

\* A word that is full goes where only words already read were.
LEMMA CompactWordStep ==
  ASSUME Basic, Compacting, CompactWord
  PROVE  Basic' /\ Compacting'
<1> DEFINE word == {n \in Inner(in.tree) : n \div NodesPerWord = level}
           first(n) == cursor.child + Bits(tree, {m \in word : m < n})
           kept == Ascending(word \cap tags)
           masks == [i \in DOMAIN kept |-> RetainedMask(tree.mask[kept[i]], first(kept[i]))]
           waiting == cursor.pending \o masks
           full == NodesPerWord * (Len(waiting) \div NodesPerWord)
           begin == cursor.write - Len(cursor.pending)
           mask(n) == IF n \in begin .. (begin + full - 1) THEN waiting[n - begin + 1] ELSE tree.mask[n]
           a == WordFront
           b == WordFront'
           end == LeafBegin(Old)
           c == Cardinality(word \cap tags)
           held == Len(cursor.pending)
<1>1. /\ in' = in /\ tags' = tags /\ live' = live /\ level' = level + 1 /\ phase' = phase /\ result' = result
      /\ level * NodesPerWord < end
      /\ tree' = [level |-> tree.level, mask |-> [n \in DOMAIN tree.mask |-> mask(n)]]
      /\ cursor' = [child |-> cursor.child + Bits(tree, word), write |-> cursor.write + Len(masks),
                    pending |-> SubSeq(waiting, full + 1, Len(waiting))]
      /\ clause' = Clauses(kept, cursor.write, masks)
  BY DEF CompactWord, Old
<1>2. Old' = Old /\ Height' = Height /\ Basic'
  BY <1>1, Same, Shared
<1>3. /\ level \in Nat /\ tags \in SUBSET Nat /\ WellFormed(Old) /\ end \in Nat /\ NodesPerWord \in Nat \ {0}
      /\ Inner(Old) = {n \in Nat : n < end}
  BY BasicFacts, WordSizes DEF Compacting
<1>4. b = IF (level + 1) * NodesPerWord <= end THEN (level + 1) * NodesPerWord ELSE end
  BY <1>1, <1>2 DEF WordFront
<1>5. /\ a \in Nat /\ b \in Nat /\ a <= b /\ b <= end /\ a <= end
      /\ \A n \in Nat : n \in word <=> a <= n /\ n < b
  <2>1. a \in Nat /\ a <= end
    BY <1>3, FrontIs
  <2>2. /\ b \in Nat /\ a <= b /\ b <= end
        /\ \A n \in Nat : n \in Inner(Old) /\ n \div NodesPerWord = level <=> a <= n /\ n < b
    BY <1>1, <1>3, <1>4, FrontIs
  <2> QED
    BY <2>1, <2>2 DEF Old
<1>6. /\ cursor.child = Before(Old, a) + 1 /\ cursor.write = Rank(tags, a)
      /\ cursor.pending \in Seq(SUBSET Label)
      /\ held <= cursor.write /\ \A i \in 1 .. held, p \in Nat : p = begin + (i - 1) => cursor.pending[i] = Final(p)
      /\ DOMAIN tree.mask = Inner(Old)
      /\ \A p \in Nat : p < begin => tree.mask[p] = Final(p)
      /\ \A n \in Inner(Old) : n >= a => tree.mask[n] = Old.mask[n]
      /\ \A n : HasByte(n) /\ n < a => Noted(n)
  BY DEF Compacting, PendingBegin
<1>7. word \in SUBSET Nat /\ \A n \in word : n \in Inner(Old) /\ a <= n /\ n < b
  BY <1>3, <1>5 DEF Old
<1> HIDE DEF word, a, b, end, first, kept, masks, waiting, full, begin, mask, c, held
<1>8. /\ c \in Nat /\ Rank(tags, a) \in Nat /\ Rank(tags, b) = Rank(tags, a) + c /\ kept \in Seq(word \cap tags)
      /\ Len(kept) = c /\ DOMAIN kept = 1 .. c
      /\ \A i \in 1 .. c : kept[i] \in word \cap tags /\ Rank(tags, kept[i]) = Rank(tags, a) + (i - 1)
  <2>1. /\ tags \in SUBSET Nat /\ a \in Nat /\ b \in Nat /\ a <= b
        /\ word \in SUBSET Nat /\ \A n \in Nat : n \in word <=> a <= n /\ n < b
    BY <1>3, <1>5, <1>7
  <2>2. BlockOf(tags, a, b, word \cap tags)
    BY <2>1 DEF BlockOf
  <2>3. Listed(tags, a, b, word \cap tags)
    BY <2>2, BlockListed
  <2> QED
    BY <2>3 DEF c, kept, Listed
<1>9. \A n \in word : first(n) = FirstChild(Old, n) /\ tree.mask[n] = Old.mask[n]
  <2> SUFFICES ASSUME NEW n \in word PROVE first(n) = FirstChild(Old, n) /\ tree.mask[n] = Old.mask[n]
    OBVIOUS
  <2>1. n \in Nat /\ a <= n /\ n < b /\ n \in Inner(Old)
    BY <1>7
  <2>2. {m \in word : m < n} = a .. (n - 1)
    <3>1. \A m \in Nat : m \in word /\ m < n <=> a <= m /\ m <= n - 1
      BY <1>5, <2>1
    <3>2. \A m \in a .. (n - 1) : m \in Nat
      BY <1>5
    <3>3. \A m \in word : m \in Nat
      BY <1>7
    <3> DEFINE below == {m \in word : m < n}
               upto == a .. (n - 1)
    <3>4. \A m \in Nat : m \in below <=> m \in upto
      <4>1. n - 1 \in Int /\ a \in Nat
        BY <1>5, <2>1
      <4> QED
        BY ONLY <3>1, <4>1
    <3>5. (\A m \in below : m \in Nat) /\ (\A m \in upto : m \in Nat)
      BY <3>2, <3>3
    <3> HIDE DEF below, upto
    <3>6. below = upto
      BY <3>4, <3>5
    <3> QED
      BY <3>6 DEF below, upto
  <2>3. \A m \in word : tree.mask[m] = Old.mask[m]
    BY <1>6, <1>7
  <2>4. Bits(tree, {m \in word : m < n}) = Bits(Old, a .. (n - 1))
    <3>1. \A m \in {m \in word : m < n} : tree.mask[m] = Old.mask[m]
      BY <2>3
    <3>2. Bits(tree, {m \in word : m < n}) = Bits(Old, {m \in word : m < n})
      BY <3>1, BitsSame
    <3> QED
      BY <2>2, <3>2
  <2>5. /\ Before(Old, a) \in Nat /\ Before(Old, n) \in Nat /\ Bits(Old, a .. (n - 1)) \in Nat
        /\ Before(Old, n) = Before(Old, a) + Bits(Old, a .. (n - 1))
    BY <1>5, <2>1, BeforeSplit
  <2>6. FirstChild(Old, n) = Before(Old, n) + 1
    BY <1>3, <1>7, <2>1, FirstChildIs, Masks
  <2>7. first(n) = FirstChild(Old, n)
    BY <1>6, <2>4, <2>5, <2>6 DEF first
  <2> QED
    BY <2>3, <2>7
<1>10. cursor.child + Bits(tree, word) = Before(Old, b) + 1
  <2>1. word = a .. (b - 1)
    <3>1. \A m \in a .. (b - 1) : m \in Nat
      BY <1>5
    <3>2. \A m \in word : m \in Nat
      BY <1>7
    <3>3. \A m \in Nat : m \in word <=> m \in a .. (b - 1)
      BY ONLY <1>5
    <3> QED
      BY ONLY <3>1, <3>2, <3>3
  <2>2. Bits(tree, word) = Bits(Old, word)
    <3>1. \A m \in word : tree.mask[m] = Old.mask[m]
      BY <1>9
    <3> QED
      BY <3>1, BitsSame
  <2>3. /\ Before(Old, a) \in Nat /\ Bits(Old, a .. (b - 1)) \in Nat
        /\ Before(Old, b) = Before(Old, a) + Bits(Old, a .. (b - 1))
    BY <1>5, BeforeSplit
  <2> QED
    BY <1>6, <2>1, <2>2, <2>3
<1>11. /\ DOMAIN masks = 1 .. c
       /\ \A i \in 1 .. c : /\ kept[i] \in tags \cap Inner(Old) /\ Rank(tags, kept[i]) = cursor.write + (i - 1)
                            /\ masks[i] = Remaining(Old, tags, kept[i])
                            /\ masks[i] = Final(cursor.write + (i - 1))
                            /\ masks[i] \in SUBSET Label
  <2>1. DOMAIN masks = 1 .. c
    BY <1>8 DEF masks
  <2>2. ASSUME NEW i \in 1 .. c
        PROVE  /\ kept[i] \in tags \cap Inner(Old) /\ Rank(tags, kept[i]) = cursor.write + (i - 1)
               /\ masks[i] = Remaining(Old, tags, kept[i]) /\ masks[i] = Final(cursor.write + (i - 1))
               /\ masks[i] \in SUBSET Label
    <3>1. kept[i] \in word /\ kept[i] \in tags \cap Inner(Old) /\ Rank(tags, kept[i]) = cursor.write + (i - 1)
      BY <1>6, <1>7, <1>8
    <3>2. masks[i] = RetainedMask(tree.mask[kept[i]], first(kept[i]))
      BY <1>8 DEF masks
    <3>3. masks[i] = Remaining(Old, tags, kept[i])
      <4>1. first(kept[i]) = FirstChild(Old, kept[i]) /\ tree.mask[kept[i]] = Old.mask[kept[i]]
        BY <1>9, <3>1
      <4> QED
        BY <3>2, <4>1, RetainedMaskIs
    <3>4. Final(Rank(tags, kept[i])) = Remaining(Old, tags, kept[i])
      BY <3>1, FinalIs
    <3>5. Remaining(Old, tags, kept[i]) \in SUBSET Label
      BY <1>3, <3>1, TreeShape DEF Remaining
    <3> QED
      BY <3>1, <3>3, <3>4, <3>5
  <2> QED
    BY <2>1, <2>2
<1>12. masks \in Seq(SUBSET Label) /\ Len(masks) = c
  <2>1. masks = [i \in 1 .. c |-> masks[i]]
    BY <1>8 DEF masks
  <2> QED
    BY <1>8, <1>11, <2>1
<1>13. held \in Nat /\ begin \in Nat /\ cursor.write = begin + held /\ cursor.write \in Nat
  <2>1. held \in Nat
    BY <1>6 DEF held
  <2> QED
    BY <1>6, <1>8, <2>1 DEF begin, held
<1>14. /\ waiting \in Seq(SUBSET Label) /\ Len(waiting) = held + c
       /\ \A i \in 1 .. (held + c) : waiting[i] = Final(begin + (i - 1))
  <2>1. /\ waiting \in Seq(SUBSET Label) /\ Len(waiting) = held + c
        /\ \A i \in 1 .. (held + c) : waiting[i] = IF i <= held THEN cursor.pending[i] ELSE masks[i - held]
    <3>1. cursor.pending \in Seq(SUBSET Label) /\ masks \in Seq(SUBSET Label) /\ Len(masks) = c
      BY <1>6, <1>12
    <3> HIDE DEF masks
    <3>2. /\ cursor.pending \o masks \in Seq(SUBSET Label)
          /\ Len(cursor.pending \o masks) = Len(cursor.pending) + Len(masks)
          /\ \A i \in 1 .. (Len(cursor.pending) + Len(masks)) :
               (cursor.pending \o masks)[i] =
                 IF i <= Len(cursor.pending) THEN cursor.pending[i] ELSE masks[i - Len(cursor.pending)]
      BY ONLY <3>1, ConcatProperties
    <3> QED
      BY <3>1, <3>2 DEF waiting, held
  <2>2. ASSUME NEW i \in 1 .. (held + c) PROVE waiting[i] = Final(begin + (i - 1))
    <3>1. CASE i <= held
      <4>1. i \in 1 .. held
        BY <1>8, <1>13, <3>1
      <4>2. begin + (i - 1) \in Nat
        BY <1>13, <4>1
      <4> QED
        BY <1>6, <2>1, <3>1, <4>1, <4>2
    <3>2. CASE ~ (i <= held)
      <4>1. i - held \in 1 .. c /\ cursor.write + ((i - held) - 1) = begin + (i - 1)
        <5>1. /\ c \in Nat /\ held \in Nat /\ begin \in Nat
              /\ cursor.write = begin + held /\ i \in Nat /\ i > held /\ i <= held + c
          BY <1>8, <1>13, <3>2
        <5> QED
          BY ONLY <5>1
      <4>2. masks[i - held] = Final(cursor.write + ((i - held) - 1))
        BY <1>11, <4>1
      <4> QED
        BY <2>1, <3>2, <4>1, <4>2
    <3> QED
      BY <3>1, <3>2
  <2> QED
    BY <2>1, <2>2
<1>15. full \in Nat /\ full <= held + c
  <2> DEFINE x == Len(waiting)
             q == x \div NodesPerWord
  <2>1. x \in Nat /\ x = held + c
    BY <1>8, <1>13, <1>14
  <2>2. q \in Nat /\ q * NodesPerWord <= x /\ q * NodesPerWord \in Nat
    BY <1>3, <2>1, Quotient
  <2> HIDE DEF q, x
  <2>3. NodesPerWord * q = q * NodesPerWord
    BY <1>3, <2>2
  <2> QED
    BY <2>1, <2>2, <2>3 DEF q, x, full
<1> DEFINE rest == held + c - full
<1>16. rest \in Nat /\ full + rest = held + c
  BY <1>8, <1>13, <1>15
<1>17. /\ cursor'.child = Before(Old, b) + 1 /\ cursor'.write = Rank(tags, b)
       /\ cursor'.write = cursor.write + c
       /\ cursor'.pending = SubSeq(waiting, full + 1, full + rest)
  <2>1. Len(waiting) = full + rest
    BY <1>14, <1>16
  <2> HIDE DEF rest
  <2> QED
    BY <1>1, <1>6, <1>8, <1>10, <1>12, <2>1
<1>18. /\ cursor'.pending \in Seq(SUBSET Label) /\ Len(cursor'.pending) = rest
       /\ \A i \in 1 .. rest : cursor'.pending[i] = waiting[full + i]
  <2>1. full + rest <= Len(waiting)
    BY <1>8, <1>13, <1>14, <1>16
  <2> HIDE DEF rest
  <2>2. waiting \in Seq(SUBSET Label) /\ full \in Nat /\ rest \in Nat /\ full + rest <= Len(waiting)
    BY <1>14, <1>15, <1>16, <2>1
  <2>3. /\ SubSeq(waiting, full + 1, full + rest) \in Seq(SUBSET Label)
        /\ Len(SubSeq(waiting, full + 1, full + rest)) = rest
        /\ \A i \in 1 .. rest : SubSeq(waiting, full + 1, full + rest)[i] = waiting[full + i]
    BY ONLY <2>2, SliceListed
  <2> QED
    BY <1>17, <2>3
<1>19. /\ PendingBegin' = begin + full /\ rest <= cursor'.write
       /\ begin + full <= Rank(tags, b) /\ Rank(tags, b) <= b /\ Rank(tags, b) \in Nat
  <2>1. PendingBegin' = cursor'.write - rest
    BY <1>18 DEF PendingBegin
  <2>2. Rank(tags, b) <= b
    <3>1. Below(tags, b) \subseteq 0 .. (b - 1)
      <4> SUFFICES ASSUME NEW m \in Below(tags, b) PROVE m \in 0 .. (b - 1)
        OBVIOUS
      <4>1. m \in Nat /\ m < b /\ b \in Nat
        BY <1>3, <1>5 DEF Below
      <4> QED
        BY ONLY <4>1
    <3>2. IsFiniteSet(0 .. (b - 1)) /\ Cardinality(0 .. (b - 1)) = b
      <4>1. 0 \in Int /\ b - 1 \in Int
        BY <1>5
      <4>2. IsFiniteSet(0 .. (b - 1)) /\ Cardinality(0 .. (b - 1)) = IF 0 > b - 1 THEN 0 ELSE (b - 1) - 0 + 1
        BY <4>1, FS_Interval
      <4>3. (IF 0 > b - 1 THEN 0 ELSE (b - 1) - 0 + 1) = b
        BY <1>5
      <4> QED
        BY <4>2, <4>3
    <3> QED
      BY <3>1, <3>2, FS_Subset DEF Rank
  <2>3. Rank(tags, b) \in Nat
    BY <1>3, <1>5, RankType
  <2>4. cursor'.write = (begin + held) + c
    BY <1>13, <1>17
  <2>5. PendingBegin' = begin + full /\ rest <= cursor'.write /\ begin + full <= cursor'.write
    BY <1>8, <1>13, <1>15, <1>16, <2>1, <2>4
  <2> QED
    BY <1>17, <2>2, <2>3, <2>5
<1> HIDE DEF rest
<1>20. \A p : Final(p)' = Final(p)
  BY <1>1, <1>2 DEF Final
<1>21. \A i \in 1 .. rest, p \in Nat : p = PendingBegin' + (i - 1) => cursor'.pending[i] = Final(p)
  <2> SUFFICES ASSUME NEW i \in 1 .. rest, NEW p \in Nat, p = PendingBegin' + (i - 1)
               PROVE  cursor'.pending[i] = Final(p)
    OBVIOUS
  <2>1. full + i \in 1 .. (held + c) /\ begin + ((full + i) - 1) = (begin + full) + (i - 1)
    BY <1>8, <1>13, <1>15, <1>16
  <2> QED
    BY <1>14, <1>18, <1>19, <2>1
<1>22. DOMAIN tree'.mask = Inner(Old) /\ \A n \in Inner(Old) : tree'.mask[n] = mask(n)
  BY <1>1, <1>6
<1>23. \A p \in Nat : p < PendingBegin' => tree'.mask[p] = Final(p)
  <2> SUFFICES ASSUME NEW p \in Nat, p < begin + full PROVE tree'.mask[p] = Final(p)
    BY <1>19
  <2>1. p \in Inner(Old)
    BY <1>3, <1>5, <1>13, <1>15, <1>19
  <2>2. tree'.mask[p] = mask(p)
    BY <1>22, <2>1
  <2>3. CASE p < begin
    <3>1. p \notin begin .. (begin + full - 1)
      BY <1>13, <2>3
    <3> QED
      BY <1>6, <2>2, <2>3, <3>1 DEF mask
  <2>4. CASE begin <= p
    <3>1. p \in begin .. (begin + full - 1)
      BY <1>13, <1>15, <2>4
    <3>2. p - begin + 1 \in 1 .. (held + c) /\ begin + ((p - begin + 1) - 1) = p
      BY <1>8, <1>13, <1>15, <2>4
    <3>3. waiting[p - begin + 1] = Final(p)
      BY <1>14, <3>2
    <3> QED
      BY <2>2, <3>1, <3>3 DEF mask
  <2> QED
    BY <1>13, <2>3, <2>4
<1>24. \A n \in Inner(Old) : n >= b => tree'.mask[n] = Old.mask[n]
  <2> SUFFICES ASSUME NEW n \in Inner(Old), n >= b PROVE tree'.mask[n] = Old.mask[n]
    OBVIOUS
  <2>1. n \in Nat /\ n >= a
    BY <1>3, <1>5
  <2>2. n \notin begin .. (begin + full - 1)
    <3>1. b \in Nat /\ begin + full <= b
      BY <1>5, <1>13, <1>15, <1>19
    <3> QED
      BY <1>13, <1>15, <2>1, <3>1
  <2>3. tree'.mask[n] = tree.mask[n]
    BY <1>22, <2>2 DEF mask
  <2> QED
    BY <1>6, <2>1, <2>3
<1>25. \A n : HasByte(n)' /\ n < b => Noted(n)'
  <2> SUFFICES ASSUME NEW n, HasByte(n), n < b PROVE Noted(n)'
    BY <1>1, <1>2 DEF HasByte
  <2>1. n \in tags /\ n \in Nat
    BY <1>3 DEF HasByte
  <2>2. Noted(n) \/ (cursor.write <= Rank(tags, n) /\ Rank(tags, n) < cursor.write + c)
    <3>1. CASE n < a
      BY <1>6, <3>1
    <3>2. CASE a <= n
      <4>1. Rank(tags, a) <= Rank(tags, n) /\ Rank(tags, n) \in Nat
        BY <1>3, <1>5, <2>1, <3>2, RankOrder
      <4>2. Rank(tags, n) < Rank(tags, b)
        BY <1>3, <1>5, <2>1, RankOrder, n <= b
      <4> QED
        BY <1>6, <1>8, <4>1, <4>2
    <3> QED
      BY <1>5, <2>1, <3>1, <3>2
  <2>3. ClauseAt(n) \in DOMAIN clause' /\ clause'[ClauseAt(n)] = <<n, Remaining(Old, tags, n)>>
    <3> DEFINE from == cursor.write
    <3>1. /\ Basic /\ HasByte(n) /\ from \in Nat /\ c \in Nat /\ DOMAIN kept = 1 .. c
          /\ \A i \in 1 .. c : /\ kept[i] \in tags \cap Inner(Old) /\ Rank(tags, kept[i]) = from + (i - 1)
                                /\ masks[i] = Remaining(Old, tags, kept[i])
          /\ clause' = Clauses(kept, from, masks)
      BY <1>1, <1>8, <1>11, <1>13
    <3>2. Noted(n) \/ (from <= Rank(tags, n) /\ Rank(tags, n) < from + c)
      BY <2>2
    <3> HIDE DEF from
    <3>3. /\ Noted(n) => ClauseAt(n) \in DOMAIN clause' /\ clause'[ClauseAt(n)] = <<n, Remaining(Old, tags, n)>>
          /\ from <= Rank(tags, n) /\ Rank(tags, n) < from + c
               => ClauseAt(n) \in DOMAIN clause' /\ clause'[ClauseAt(n)] = <<n, Remaining(Old, tags, n)>>
      BY ONLY <3>1, ClausesWritten
    <3> QED
      BY <3>2, <3>3
  <2>4. ClauseAt(n)' = ClauseAt(n)
    BY <1>1, <1>2 DEF ClauseAt
  <2> QED
    BY <1>1, <1>2, <2>3, <2>4 DEF Noted
<1>26. level' \in Nat /\ LiveAbove(Old', tags') /\ phase' = "compact" /\ result' = "running"
  BY <1>1, <1>2, <1>3 DEF Compacting
<1>27. /\ cursor'.child = Before(Old', WordFront') + 1 /\ cursor'.write = Rank(tags', WordFront')
       /\ \A n \in Inner(Old') : n >= WordFront' => tree'.mask[n] = Old'.mask[n]
       /\ \A n : HasByte(n)' /\ n < WordFront' => Noted(n)'
  BY <1>1, <1>2, <1>17, <1>24, <1>25 DEF b
<1>28. cursor'.pending \in Seq(SUBSET Label) /\ Len(cursor'.pending) <= cursor'.write
  BY <1>18, <1>19
<1>29. \A i \in 1 .. Len(cursor'.pending), p \in Nat : p = PendingBegin' + (i - 1) => cursor'.pending[i] = Final(p)'
  BY <1>18, <1>20, <1>21
<1>30. DOMAIN tree'.mask = Inner(Old') /\ \A p \in Nat : p < PendingBegin' => tree'.mask[p] = Final(p)'
  BY <1>2, <1>20, <1>22, <1>23
<1> QED
  BY <1>2, <1>26, <1>27, <1>28, <1>29, <1>30 DEF Compacting

\* The last word, behind which both cursors agree.
LEMMA CompactDoneStep ==
  ASSUME Basic, Compacting, CompactDone
  PROVE  Basic' /\ Finished'
<1> DEFINE begin == cursor.write - Len(cursor.pending)
           mask(n) == IF n >= begin THEN cursor.pending[n - begin + 1] ELSE tree.mask[n]
           masks == [n \in 0 .. (cursor.write - 1) |-> mask(n)]
<1>1. /\ in' = in /\ tags' = tags /\ live' = live /\ clause' = clause /\ level * NodesPerWord >= LeafBegin(Old)
      /\ IF \/ cursor.child # in.tree.level[Height + 1]
            \/ cursor.write + live[Height] # Retained
         THEN Finish("logic_error") /\ UNCHANGED tree
         ELSE Store(masks)
  BY DEF CompactDone, Old
<1>2. /\ WordFront = LeafBegin(Old) /\ WellFormed(Old) /\ Height = Deep(Old)
      /\ tags \in SUBSET Nat /\ LeafBegin(Old) \in Nat
  BY <1>1, FrontIs, BasicFacts DEF Compacting
<1>3. /\ cursor.child = Before(Old, LeafBegin(Old)) + 1 /\ cursor.write = Rank(tags, LeafBegin(Old))
      /\ cursor.write \in Nat /\ cursor.pending \in Seq(SUBSET Label) /\ Len(cursor.pending) <= cursor.write
      /\ \A i \in 1 .. Len(cursor.pending), p \in Nat : p = begin + (i - 1) => cursor.pending[i] = Final(p)
      /\ \A p \in Nat : p < begin => tree.mask[p] = Final(p)
      /\ \A n : HasByte(n) /\ n < LeafBegin(Old) => Noted(n)
  BY <1>2, RankType DEF Compacting, PendingBegin
<1>4. cursor.child = in.tree.level[Height + 1]
  <2>1. in.tree.level[Height + 1] = EndNode(Old)
    BY <1>2 DEF EndNode, Old
  <2>2. EndNode(Old) = Before(Old, LeafBegin(Old)) + 1
    BY <1>2, TreeShape
  <2> QED
    BY <1>3, <2>1, <2>2
<1>5. cursor.write + live[Height] = Retained
  BY <1>3, RetainedIs
<1>6. Store(masks)
  BY <1>1, <1>4, <1>5
<1>7. Masked(masks)
  <2>1. DOMAIN masks = 0 .. (Rank(tags, LeafBegin(Old)) - 1)
    BY <1>3
  <2>2. \A p \in DOMAIN masks : masks[p] = Final(p)
    <3> SUFFICES ASSUME NEW p \in 0 .. (cursor.write - 1) PROVE mask(p) = Final(p)
      BY <1>3
    <3> DEFINE held == Len(cursor.pending)
    <3>1. /\ held \in Nat /\ held <= cursor.write /\ begin = cursor.write - held
          /\ p \in Nat /\ p <= cursor.write - 1
      BY <1>3
    <3> HIDE DEF begin, held
    <3>2. CASE p >= begin
      <4>1. p - begin + 1 \in 1 .. held /\ begin + ((p - begin + 1) - 1) = p
        BY <1>3, <3>1, <3>2
      <4>2. cursor.pending[p - begin + 1] = Final(p)
        BY <1>3, <4>1 DEF held, begin
      <4> QED
        BY <3>2, <4>1, <4>2
    <3>3. CASE ~ (p >= begin)
      <4>1. p < begin
        BY <1>3, <3>1, <3>3
      <4> QED
        BY <1>3, <3>1, <3>3, <4>1
    <3> QED
      BY <3>2, <3>3
  <2>3. masks = [p \in DOMAIN masks |-> masks[p]]
    OBVIOUS
  <2> HIDE DEF masks
  <2>4. masks = [p \in DOMAIN masks |-> Final(p)]
    BY <2>2, <2>3
  <2> QED
    BY <2>1, <2>4 DEF Masked
<1>8. \A n : HasByte(n) => Noted(n)
  <2>1. \A n : HasByte(n) => n < LeafBegin(Old)
    BY BasicFacts DEF HasByte
  <2> QED
    BY <1>3, <2>1
<1> HIDE DEF masks
<1> QED
  BY <1>1, <1>6, <1>7, <1>8, RetainedFinished DEF Compacting

-----------------------------------------------------------------------------
\* What a reification has done is exact at every step, and each phase hands the next one
\* what it starts from.
ReifyInv == Basic /\ (Closing \/ Counting \/ Writing \/ Ending \/ Compacting \/ Finished)

\* Each step keeps the invariant of its phase, or establishes that of the next one.
LEMMA ReifyKept ==
  ASSUME ReifyInv, [Next]_vars
  PROVE  ReifyInv'
<1>1. Basic
  BY DEF ReifyInv
<1>2. CASE UNCHANGED vars
  <2>1. /\ in' = in /\ tree' = tree /\ tags' = tags /\ phase' = phase /\ level' = level /\ task' = task
        /\ loaded' = loaded /\ live' = live /\ offset' = offset /\ output' = output /\ clause' = clause
        /\ cursor' = cursor /\ result' = result
    BY <1>2 DEF vars
  <2>2. Old' = Old /\ Height' = Height /\ Basic'
    BY <1>1, <2>1, Same, Shared
  <2>3. /\ CloseTasks' = CloseTasks /\ Tasks' = Tasks /\ LastTask' = LastTask /\ WordFront' = WordFront
        /\ PendingBegin' = PendingBegin /\ Offsets' = Offsets
        /\ \A n : Alive(n)' = Alive(n) /\ TagWord(n)' = TagWord(n) /\ Final(n)' = Final(n)
        /\ \A n : HasByte(n)' = HasByte(n) /\ Noted(n)' = Noted(n) /\ Bound(n)' = Bound(n) /\ InTask(n)' = InTask(n)
    BY <2>1, <2>2 DEF CloseTasks, Tasks, LastTask, WordFront, PendingBegin, Offsets, Alive, TagWord, Final, HasByte, Noted,
                      ClauseAt, Bound, InTask
  <2>4. \A t : Working(t)' = Working(t) /\ Emitted(t)' = Emitted(t)
    BY <2>1, <2>2, <2>3 DEF Working, Emitted
  <2>5. CASE Closing
    BY <2>1, <2>2, <2>3, <2>4, <2>5 DEF ReifyInv, Closing
  <2>6. CASE Counting
    BY <2>1, <2>2, <2>6 DEF ReifyInv, Counting
  <2>7. CASE Writing
    BY <2>1, <2>2, <2>3, <2>4, <2>7 DEF ReifyInv, Writing
  <2>8. CASE Ending
    BY <2>1, <2>2, <2>3, <2>8 DEF ReifyInv, Ending, Masked
  <2>9. CASE Compacting
    BY <2>1, <2>2, <2>3, <2>9 DEF ReifyInv, Compacting
  <2>10. CASE Finished
    BY <2>1, <2>2, <2>3, <2>10 DEF ReifyInv, Finished
  <2> QED
    BY <2>5, <2>6, <2>7, <2>8, <2>9, <2>10 DEF ReifyInv
<1>3. /\ phase = "close" => Closing
      /\ phase = "count" => Counting
      /\ phase = "emit" => Writing
      /\ phase = "finalize" => Ending
      /\ phase = "compact" => Compacting
  BY DEF ReifyInv, Closing, Counting, Writing, Ending, Compacting, Finished
<1>4. CASE CloseBegin
  <2>1. Closing
    BY <1>3, <1>4 DEF CloseBegin
  <2> QED
    BY <1>1, <1>4, <2>1, CloseBeginStep DEF ReifyInv
<1>5. ASSUME NEW t \in DOMAIN task, CloseVisit(t) PROVE ReifyInv'
  <2>1. Closing
    BY <1>3, <1>5 DEF CloseVisit
  <2> QED
    BY <1>1, <1>5, <2>1, CloseVisitStep DEF ReifyInv
<1>6. ASSUME NEW t \in DOMAIN task, CloseStore(t) PROVE ReifyInv'
  <2>1. Closing
    BY <1>3, <1>6 DEF CloseStore
  <2> QED
    BY <1>1, <1>6, <2>1, CloseStoreStep DEF ReifyInv
<1>7. CASE CloseLevelDone
  <2>1. Closing
    BY <1>3, <1>7 DEF CloseLevelDone
  <2> QED
    BY <1>1, <1>7, <2>1, CloseLevelDoneStep DEF ReifyInv
<1>8. CASE Count
  <2>1. Counting
    BY <1>3, <1>8 DEF Count
  <2> QED
    BY <1>1, <1>8, <2>1, CountStep DEF ReifyInv
<1>9. ASSUME NEW k \in Tasks, EmitWord(k) PROVE ReifyInv'
  <2>1. Writing
    BY <1>3, <1>9 DEF EmitWord
  <2> QED
    BY <1>1, <1>9, <2>1, EmitWordStep DEF ReifyInv
<1>10. CASE EmitDone
  <2>1. Writing
    BY <1>3, <1>10 DEF EmitDone
  <2> QED
    BY <1>1, <1>10, <2>1, EmitDoneStep DEF ReifyInv
<1>11. CASE Finalize
  <2>1. Ending
    BY <1>3, <1>11 DEF Finalize
  <2> QED
    BY <1>1, <1>11, <2>1, FinalizeStep DEF ReifyInv
<1>12. CASE CloseSerial
  <2>1. Closing
    BY <1>3, <1>12 DEF CloseSerial
  <2> QED
    BY <1>1, <1>12, <2>1, CompactBegins DEF ReifyInv
<1>13. CASE CompactWord
  <2>1. Compacting
    BY <1>3, <1>13 DEF CompactWord
  <2> QED
    BY <1>1, <1>13, <2>1, CompactWordStep DEF ReifyInv
<1>14. CASE CompactDone
  <2>1. Compacting
    BY <1>3, <1>14 DEF CompactDone
  <2> QED
    BY <1>1, <1>14, <2>1, CompactDoneStep DEF ReifyInv
<1> QED
  BY <1>2, <1>4, <1>5, <1>6, <1>7, <1>8, <1>9, <1>10, <1>11, <1>12, <1>13, <1>14 DEF Next

\* A reification keeps every lineage of a kept leaf and no other, in the order of the
\* leaves, and finds the search empty exactly when no leaf is kept.
LEMMA FinishedKeepsLineages ==
  ASSUME Basic, Finished
  PROVE  LineagesKept
<1>1. CASE result = "empty" /\ in.keep = {}
  BY <1>1 DEF LineagesKept
<1>2. CASE result = "retained" /\ in.keep # {} /\ LiveAbove(Old, tags) /\ Compacted(Old, tags, tree)
  <2>1. WellFormed(Old) /\ in.keep = tags \cap Leaves(Old)
    BY BasicFacts DEF Basic
  <2>2. /\ Cardinality(Leaves(tree)) = Cardinality(in.keep)
        /\ \A x \in in.keep : Rank(tags, x) = LeafBegin(tree) + Cardinality({y \in in.keep : y < x})
    BY <1>2, <2>1, CompactedLeaves
  <2>3. \A x \in in.keep : Lineage(tree, Rank(tags, x)) = Lineage(Old, x)
    BY <1>2, <2>1, CompactedLineages
  <2>4. \A x \in in.keep : Lineage(tree, LeafBegin(tree) + Cardinality({y \in in.keep : y < x})) = Lineage(in.tree, x)
    BY <2>2, <2>3 DEF Old
  <2> QED
    BY <1>2, <2>2, <2>4 DEF LineagesKept
<1> QED
  BY <1>1, <1>2 DEF Finished

\* The stored tree is one that a checkpoint would accept, without a dead end, and its rows
\* lead back to their leaves.
LEMMA FinishedInverts ==
  ASSUME Basic, Finished
  PROVE  DescentInverts /\ (result = "retained" => WellFormed(tree) /\ NoDeadEnd(tree) /\ Deep(tree) = Height)
<1> SUFFICES ASSUME result = "retained"
             PROVE  /\ \A x \in Leaves(tree) : Descend(tree, Lineage(tree, x)) = x
                    /\ WellFormed(tree) /\ NoDeadEnd(tree) /\ Deep(tree) = Height
  BY DEF DescentInverts
<1>1. LiveAbove(Old, tags) /\ Compacted(Old, tags, tree)
  BY DEF Finished
<1>2. WellFormed(Old) /\ Height = Deep(Old)
  BY BasicFacts
<1>3. WellFormed(tree) /\ NoDeadEnd(tree) /\ Deep(tree) = Height
  BY <1>1, <1>2, CompactedShape
<1> QED
  BY <1>3, DescentInverse

\* A clause byte is found where its node is found.
LEMMA FinishedNotes ==
  ASSUME Basic, Finished
  PROVE  ClausesFollow
<1> SUFFICES ASSUME result = "retained", in.clauseDepth > 0,
                    NEW d \in (in.clauseDepth - 1) .. (Height - 1), NEW x \in in.keep
             PROVE  LET new == LeafBegin(tree) + Cardinality({y \in in.keep : y < x})
                        parent == Ancestor(tree, new, d)
                        at == parent - tree.level[in.clauseDepth - 1]
                    IN  at \in DOMAIN clause /\ clause[at] = <<Ancestor(in.tree, x, d), tree.mask[parent]>>
  BY DEF ClausesFollow
<1> DEFINE new == LeafBegin(tree) + Cardinality({y \in in.keep : y < x})
           n == Ancestor(Old, x, d)
           parent == Ancestor(tree, new, d)
           begin == Old.level[in.clauseDepth - 1]
<1>1. LiveAbove(Old, tags) /\ Compacted(Old, tags, tree) /\ \A m : HasByte(m) => Noted(m)
  BY DEF Finished
<1>2. /\ WellFormed(Old) /\ Height = Deep(Old) /\ Height \in Nat \ {0}
      /\ in.keep = tags \cap Leaves(Old) /\ in.clauseDepth \in 0 .. Height
  BY BasicFacts DEF Basic
<1>3. /\ d \in 0 .. Deep(Old) /\ d < Deep(Old) /\ in.clauseDepth - 1 \in 0 .. (Deep(Old) + 1)
      /\ d \in 0 .. (Deep(Old) + 1) /\ in.clauseDepth - 1 <= d
  BY <1>2
<1>4. new = Rank(tags, x)
  BY <1>1, <1>2, CompactedLeaves
<1>5. parent = Rank(tags, n) /\ At(Old, d, n) /\ n \in tags
  BY <1>1, <1>2, <1>3, <1>4, CompactedLineages
<1>6. n \in Inner(Old) /\ n \in Nat /\ Old.level[d] \in Nat /\ Old.level[d] <= n
  BY <1>2, <1>3, <1>5, Levels DEF At
<1>7. begin \in Nat /\ begin <= n
  BY <1>2, <1>3, <1>6, LevelsOrdered
<1>8. HasByte(n)
  BY <1>5, <1>6, <1>7 DEF HasByte
<1>9. Noted(n)
  BY <1>1, <1>8
<1>10. tree.level[in.clauseDepth - 1] = Rank(tags, begin)
  BY <1>1, <1>3 DEF Compacted
<1>11. tree.mask[parent] = Remaining(Old, tags, n)
  BY <1>1, <1>5, <1>6 DEF Compacted
<1>12. parent - tree.level[in.clauseDepth - 1] = ClauseAt(n)
  BY <1>5, <1>10 DEF ClauseAt
<1> HIDE DEF parent, n
<1>13. parent - tree.level[in.clauseDepth - 1] \in DOMAIN clause
       /\ clause[parent - tree.level[in.clauseDepth - 1]] = <<n, tree.mask[parent]>>
  BY <1>9, <1>11, <1>12 DEF Noted
<1> QED
  BY <1>13 DEF parent, n, Old

\* Every phase of a reification, in place or by any number of workers in any order, leaves
\* exactly what the next one counts on (reify and reify_parallel_group).
THEOREM ReifyInvariant == Spec => []ReifyInv
<1>1. Init => ReifyInv
  BY InitClosing DEF ReifyInv
<1>2. ReifyInv /\ [Next]_vars => ReifyInv'
  BY ReifyKept
<1> QED
  BY <1>1, <1>2, PTL DEF Spec

\* No alignment check of the reification fails, whatever the tree, the leaves and the order
\* of the tasks (reify and reify_parallel_group never throw logic_error).
THEOREM ReifyAccounting == Spec => []AccountingHolds
<1>1. ReifyInv => AccountingHolds
  BY DEF ReifyInv, Closing, Counting, Writing, Ending, Compacting, Finished, AccountingHolds
<1> QED
  BY <1>1, ReifyInvariant, PTL

\* The new tree holds the lineages of the kept leaves, in their order, and no others.
THEOREM ReifyKeepsLineages == Spec => []LineagesKept
<1>1. ReifyInv => LineagesKept
  <2> SUFFICES ASSUME ReifyInv PROVE LineagesKept
    OBVIOUS
  <2>1. CASE Finished
    BY <2>1, FinishedKeepsLineages DEF ReifyInv
  <2>2. CASE result = "running"
    BY <2>2 DEF LineagesKept
  <2> QED
    BY <2>1, <2>2 DEF ReifyInv, Closing, Counting, Writing, Ending, Compacting
<1> QED
  BY <1>1, ReifyInvariant, PTL

\* What lineage reads upwards leads child_from_word downwards to the same leaf.
THEOREM ReifyInvertsDescent == Spec => []DescentInverts
<1>1. ReifyInv => DescentInverts
  <2> SUFFICES ASSUME ReifyInv PROVE DescentInverts
    OBVIOUS
  <2>1. CASE Finished
    BY <2>1, FinishedInverts DEF ReifyInv
  <2>2. CASE result = "running"
    BY <2>2 DEF DescentInverts
  <2> QED
    BY <2>1, <2>2 DEF ReifyInv, Closing, Counting, Writing, Ending, Compacting
<1> QED
  BY <1>1, ReifyInvariant, PTL

\* A node's clause byte is compacted to the position that its node gets.
THEOREM ReifyMovesClauses == Spec => []ClausesFollow
<1>1. ReifyInv => ClausesFollow
  <2> SUFFICES ASSUME ReifyInv PROVE ClausesFollow
    OBVIOUS
  <2>1. CASE Finished
    BY <2>1, FinishedNotes DEF ReifyInv
  <2>2. CASE result = "running"
    BY <2>2 DEF ClausesFollow
  <2> QED
    BY <2>1, <2>2 DEF ReifyInv, Closing, Counting, Writing, Ending, Compacting
<1> QED
  BY <1>1, ReifyInvariant, PTL

\* What is stored could be loaded again, and every branch of it reaches a row: the trees that
\* reification leaves pass from_checkpoint's validation.
THEOREM ReifyStoresTrees == Spec => [](result = "retained" => WellFormed(tree) /\ NoDeadEnd(tree) /\ Deep(tree) = Height)
<1>1. ReifyInv => (result = "retained" => WellFormed(tree) /\ NoDeadEnd(tree) /\ Deep(tree) = Height)
  <2> SUFFICES ASSUME ReifyInv, result = "retained"
               PROVE  WellFormed(tree) /\ NoDeadEnd(tree) /\ Deep(tree) = Height
    OBVIOUS
  <2>1. Basic /\ Finished
    BY DEF ReifyInv, Closing, Counting, Writing, Ending, Compacting
  <2> QED
    BY <2>1, FinishedInverts
<1> QED
  BY <1>1, ReifyInvariant, PTL

-----------------------------------------------------------------------------
\* The planner's descent.  The first and the last leaf below a node are reached along the
\* edges of its subtree.
Sound == WellFormed(source) /\ NoDeadEnd(source)

Step(last, n) == FirstChild(source, n) + IF last THEN Cardinality(source.mask[n]) - 1 ELSE 0

EdgeOf(n, d, last, f) ==
  /\ f \in [d .. Deep(source) -> Nat] /\ f[d] = n
  /\ \A e \in d .. Deep(source) : At(source, e, f[e])
  /\ \A e \in (d + 1) .. Deep(source) : f[e] = Step(last, f[e - 1])

\* The children of a node are on the next level, and there is one.
LEMMA BlockIs ==
  ASSUME Sound, NEW d \in 0 .. Deep(source), d < Deep(source), NEW n, At(source, d, n)
  PROVE  /\ n \in Inner(source) /\ n \in Nat /\ FirstChild(source, n) \in Nat /\ Cardinality(source.mask[n]) \in Nat \ {0}
         /\ FirstChild(source, n) = Before(source, n) + 1
         /\ Step(FALSE, n) = Before(source, n) + 1 /\ Step(TRUE, n) = Before(source, n + 1)
         /\ Step(TRUE, n) = FirstChild(source, n) + Cardinality(source.mask[n]) - 1
         /\ \A c \in Step(FALSE, n) .. Step(TRUE, n) : At(source, d + 1, c)
         /\ Step(FALSE, n) \in Nat /\ Step(TRUE, n) \in Nat /\ Step(FALSE, n) <= Step(TRUE, n)
<1> DEFINE first == FirstChild(source, n)
           size == Cardinality(source.mask[n])
           x == Before(source, n)
           y == Before(source, n + 1)
<1>1. WellFormed(source) /\ n \in Inner(source) /\ n \in Nat
  BY Levels DEF Sound, At
<1>2. n \in 0 .. LeafBegin(source) /\ IsFiniteSet(source.mask[n]) /\ size \in Nat /\ x \in Nat /\ y = x + size
  BY <1>1, Masks
<1>3. first = x + 1
  BY <1>1, <1>2, FirstChildIs
<1>4. size # 0
  <2>1. source.mask[n] # {}
    BY <1>1 DEF Sound, NoDeadEnd
  <2> QED
    BY <1>2, <2>1, FS_EmptySet
<1>5. d \in Nat /\ d + 1 \in 0 .. Deep(source) /\ Deep(source) \in Nat /\ (d + 1) + 1 = d + 2
  BY <1>1, TreeShape
<1> DEFINE a == source.level[d]
           b == source.level[d + 1]
           e == source.level[d + 2]
<1>6. b = Before(source, a) + 1 /\ e = Before(source, b) + 1
  BY <1>1, <1>5, LevelBefore
<1>7. a \in Nat /\ b \in Nat /\ a <= n /\ n + 1 <= b
  BY <1>1, Levels DEF At
<1>8. Before(source, a) \in Nat /\ Before(source, b) \in Nat /\ Before(source, a) <= x /\ y <= Before(source, b)
  BY <1>1, <1>7, BeforeOrder
<1>9. Step(FALSE, n) = first /\ Step(TRUE, n) = first + size - 1
  <2>1. Step(FALSE, n) = first + 0
    BY DEF Step
  <2>2. Step(TRUE, n) = first + size - 1
    BY DEF Step
  <2>3. first \in Nat /\ size \in Nat
    BY <1>2, <1>3
  <2> DEFINE low == Step(FALSE, n)
             high == Step(TRUE, n)
  <2>4. low = first + 0 /\ high = first + size - 1
    BY <2>1, <2>2
  <2> HIDE DEF first, size, low, high
  <2>5. low = first /\ high = first + size - 1
    BY <2>3, <2>4
  <2> QED
    BY <2>5 DEF low, high
<1> HIDE DEF first, size, x, y, a, b, e
<1>10. first = x + 1 /\ first + size - 1 = y /\ first \in Nat /\ y \in Nat /\ first <= y /\ size \in Nat \ {0}
  BY <1>2, <1>3, <1>4
<1>11. \A c \in first .. y : c \in b .. (e - 1)
  <2> DEFINE u == Before(source, a)
             v == Before(source, b)
  <2>1. u \in Nat /\ v \in Nat /\ u <= x /\ y <= v /\ b = u + 1 /\ e = v + 1
    BY <1>6, <1>8
  <2> HIDE DEF u, v
  <2> QED
    BY ONLY <1>2, <1>10, <2>1
<1>12. \A c \in first .. y : At(source, d + 1, c)
  BY <1>5, <1>11 DEF At, b, e
<1> QED
  BY <1>1, <1>3, <1>9, <1>10, <1>12 DEF first, size, x, y

\* Without dead ends, the edges reach the leaves.
LEMMA EdgeExists ==
  ASSUME Sound, NEW d \in 0 .. Deep(source), NEW n, At(source, d, n), NEW last \in BOOLEAN
  PROVE  \E f : EdgeOf(n, d, last, f)
<1> DEFINE deep == Deep(source)
           Part(f, k) == /\ f \in [d .. (d + k) -> Nat] /\ f[d] = n
                         /\ \A e \in d .. (d + k) : At(source, e, f[e])
                         /\ \A e \in (d + 1) .. (d + k) : f[e] = Step(last, f[e - 1])
           Reached(k) == \E f : Part(f, k)
           G == {k \in Nat : d + k <= deep => Reached(k)}
<1>1. deep \in Nat /\ d \in Nat /\ d <= deep /\ n \in Nat
  BY TreeShape, Levels DEF Sound, At
<1>2. 0 \in G
  <2> DEFINE f == [e \in d .. (d + 0) |-> n]
  <2>1. d .. (d + 0) = {d} /\ (d + 1) .. (d + 0) = {}
    BY <1>1
  <2>2. Part(f, 0)
    BY <1>1, <2>1
  <2>3. Reached(0)
    BY <2>2
  <2> HIDE DEF Reached
  <2> QED
    BY <2>3
<1>3. ASSUME NEW k \in G PROVE k + 1 \in G
  <2> SUFFICES ASSUME d + (k + 1) <= deep PROVE Reached(k + 1)
    <3> HIDE DEF Reached
    <3> QED
      OBVIOUS
  <2>1. /\ k \in Nat /\ d + k < deep /\ d + k \in 0 .. deep
        /\ d + (k + 1) = (d + k) + 1 /\ d + k <= deep /\ d + k \in Nat
    BY <1>1
  <2>2. PICK f : Part(f, k)
    BY <2>1
  <2> DEFINE m == f[d + k]
             g == [e \in d .. (d + (k + 1)) |-> IF e = d + (k + 1) THEN Step(last, m) ELSE f[e]]
  <2>3. At(source, d + k, m)
    BY <1>1, <2>1, <2>2
  <2>4. Step(last, m) \in Nat /\ At(source, d + (k + 1), Step(last, m))
    <3> DEFINE x == Step(FALSE, m)
               y == Step(TRUE, m)
    <3>1. x \in Nat /\ y \in Nat /\ x <= y /\ \A c \in x .. y : At(source, (d + k) + 1, c)
      BY <2>1, <2>3, BlockIs
    <3> HIDE DEF x, y
    <3>2. x \in Nat /\ At(source, d + (k + 1), x) /\ y \in Nat /\ At(source, d + (k + 1), y)
      <4>1. x \in x .. y /\ y \in x .. y
        BY <3>1
      <4> QED
        BY <2>1, <3>1, <4>1
    <3>3. CASE last = TRUE
      BY <3>2, <3>3 DEF y
    <3>4. CASE last = FALSE
      BY <3>2, <3>4 DEF x
    <3> QED
      BY <3>3, <3>4
  <2>5. ASSUME NEW e \in d .. (d + (k + 1)) PROVE e = d + (k + 1) \/ e \in d .. (d + k)
    BY <1>1, <2>1
  <2>6. ASSUME NEW e \in d .. (d + k) PROVE g[e] = f[e] /\ f[e] \in Nat /\ At(source, e, f[e])
    <3>1. e \in d .. (d + (k + 1)) /\ e # d + (k + 1)
      BY <1>1, <2>1
    <3> QED
      BY <2>2, <3>1
  <2>7. g[d + (k + 1)] = Step(last, m)
    <3>1. d + (k + 1) \in d .. (d + (k + 1))
      BY <1>1, <2>1
    <3> QED
      BY <3>1
  <2>8. d \in d .. (d + k) /\ d + k \in d .. (d + k)
    BY <1>1, <2>1
  <2>9. ASSUME NEW e \in (d + 1) .. (d + (k + 1)) PROVE g[e] = Step(last, g[e - 1])
    <3>1. e \in d .. (d + (k + 1)) /\ e \in Nat
      BY <1>1, <2>1
    <3>2. CASE e = d + (k + 1)
      <4>1. e - 1 = d + k
        BY <1>1, <2>1, <3>2
      <4> QED
        BY <2>6, <2>7, <2>8, <3>2, <4>1
    <3>3. CASE e # d + (k + 1)
      <4>1. e \in d .. (d + k) /\ e - 1 \in d .. (d + k) /\ e \in (d + 1) .. (d + k)
        BY <1>1, <2>1, <3>1, <3>3
      <4> QED
        BY <2>2, <2>6, <4>1
    <3> QED
      BY <3>2, <3>3
  <2>10. g = [e \in d .. (d + (k + 1)) |-> g[e]]
    OBVIOUS
  <2> HIDE DEF g, m
  <2>11. \A e \in d .. (d + (k + 1)) : g[e] \in Nat /\ At(source, e, g[e])
    BY <2>4, <2>5, <2>6, <2>7
  <2>12. g \in [d .. (d + (k + 1)) -> Nat] /\ g[d] = n
    BY <2>2, <2>6, <2>8, <2>10, <2>11
  <2>13. Part(g, k + 1)
    BY <2>9, <2>11, <2>12
  <2> QED
    BY <2>13
<1>4. G \in SUBSET Nat
  OBVIOUS
<1> HIDE DEF G
<1>5. G = Nat
  BY <1>2, <1>3, <1>4, AllNumbers
<1>6. deep - d \in G /\ d + (deep - d) = deep
  BY <1>1, <1>5
<1>7. PICK f : Part(f, deep - d)
  <2>1. Reached(deep - d)
    <3> HIDE DEF Reached
    <3> QED
      BY <1>1, <1>6 DEF G
  <2> QED
    BY <2>1
<1>8. EdgeOf(n, d, last, f)
  BY <1>6, <1>7 DEF EdgeOf
<1> QED
  BY <1>8

\* extreme_descendant_leaf follows the edge.
LEMMA ExtremeIs ==
  ASSUME Sound, NEW d \in 0 .. Deep(source), NEW n, NEW last \in BOOLEAN, NEW f, EdgeOf(n, d, last, f)
  PROVE  ExtremeLeaf(n, d, last) = f[Deep(source)] - LeafBegin(source)
<1> DEFINE deep == Deep(source)
           Def(g) == g = [e \in d .. deep |-> IF e = d THEN n
                                              ELSE FirstChild(source, g[e - 1])
                                                   + IF last THEN Cardinality(source.mask[g[e - 1]]) - 1 ELSE 0]
           at == CHOOSE g : Def(g)
           G == {k \in Nat : d + k <= deep => at[d + k] = f[d + k]}
<1>1. deep \in Nat /\ d \in Nat /\ d <= deep
  BY TreeShape DEF Sound
<1>2. ExtremeLeaf(n, d, last) = at[deep] - LeafBegin(source)
  BY DEF ExtremeLeaf
<1>3. Def(f)
  <2>1. f = [e \in d .. deep |-> f[e]] /\ f[d] = n
    BY DEF EdgeOf
  <2>2. ASSUME NEW e \in d .. deep, e # d
        PROVE  f[e] = FirstChild(source, f[e - 1]) + IF last THEN Cardinality(source.mask[f[e - 1]]) - 1 ELSE 0
    <3>1. e \in (d + 1) .. deep
      BY <1>1, <2>2
    <3> QED
      BY <3>1 DEF EdgeOf, Step
  <2> QED
    BY <2>1, <2>2
<1>4. Def(at)
  BY <1>3
<1> HIDE DEF at
<1>5. at[d] = n /\ \A e \in d .. deep : e # d => at[e] = Step(last, at[e - 1])
  BY <1>1, <1>4 DEF Step
<1>6. f[d] = n /\ \A e \in d .. deep : e # d => f[e] = Step(last, f[e - 1])
  BY <1>1, <1>3 DEF Step
<1> HIDE DEF Def
<1>7. 0 \in G
  BY <1>1, <1>5, <1>6
<1>8. ASSUME NEW k \in G PROVE k + 1 \in G
  <2> SUFFICES ASSUME d + (k + 1) <= deep PROVE at[d + (k + 1)] = f[d + (k + 1)]
    OBVIOUS
  <2>1. k \in Nat /\ d + k <= deep /\ (d + (k + 1)) - 1 = d + k /\ d + (k + 1) \in d .. deep /\ d + (k + 1) # d
    BY <1>1
  <2>2. at[d + k] = f[d + k]
    BY <2>1
  <2> DEFINE e == d + (k + 1)
  <2>3. e \in d .. deep /\ e # d /\ e - 1 = d + k
    BY <2>1
  <2> HIDE DEF e
  <2>4. at[e] = f[e]
    BY <1>5, <1>6, <2>2, <2>3
  <2> QED
    BY <2>4 DEF e
<1>9. G \in SUBSET Nat
  OBVIOUS
<1> HIDE DEF G
<1>10. G = Nat
  BY <1>7, <1>8, <1>9, AllNumbers
<1>11. deep - d \in G /\ d + (deep - d) = deep
  BY <1>1, <1>10
<1>12. at[deep] = f[deep]
  BY <1>11 DEF G
<1> QED
  BY <1>2, <1>12

\* What an edge meets on a level.
LEMMA EdgeStep ==
  ASSUME Sound, NEW d \in 0 .. Deep(source), NEW n, NEW last \in BOOLEAN, NEW f, EdgeOf(n, d, last, f),
         NEW e \in d .. Deep(source), e < Deep(source)
  PROVE  /\ f[e] \in Nat /\ f[e] \in Inner(source) /\ f[e + 1] \in Nat
         /\ f[e + 1] = IF last THEN Before(source, f[e] + 1) ELSE Before(source, f[e]) + 1
<1>1. Deep(source) \in Nat /\ d \in Nat
  BY TreeShape DEF Sound
<1>2. /\ e \in 0 .. Deep(source) /\ e + 1 \in (d + 1) .. Deep(source)
      /\ e + 1 \in d .. Deep(source) /\ (e + 1) - 1 = e
  BY <1>1
<1>3. At(source, e, f[e]) /\ f[e + 1] = Step(last, f[e]) /\ f[e + 1] \in Nat
  BY <1>2 DEF EdgeOf
<1> QED
  BY <1>2, <1>3, BlockIs

\* A node is below n when it lies between the edges of n.
LEMMA EdgesEnclose ==
  ASSUME Sound, NEW d \in 0 .. Deep(source), NEW n, NEW lo, NEW hi, EdgeOf(n, d, FALSE, lo), EdgeOf(n, d, TRUE, hi),
         NEW c, NEW anc, NEW lab, PathTo(source, anc, lab, Deep(source), c)
  PROVE  anc[d] = n <=> lo[Deep(source)] <= c /\ c <= hi[Deep(source)]
<1> DEFINE deep == Deep(source)
           G == {k \in Nat : d + k <= deep => (anc[d] = n <=> lo[d + k] <= anc[d + k] /\ anc[d + k] <= hi[d + k])}
<1>1. /\ deep \in Nat /\ d \in Nat /\ d <= deep /\ WellFormed(source)
      /\ anc \in [0 .. deep -> Nat] /\ anc[deep] = c
  BY TreeShape DEF Sound, PathTo
<1>2. 0 \in G
  <2>1. anc[d] \in Nat /\ n \in Nat /\ lo[d] = n /\ hi[d] = n /\ d + 0 = d
    BY <1>1 DEF EdgeOf
  <2> QED
    BY <2>1
<1>3. ASSUME NEW k \in G PROVE k + 1 \in G
  <2> SUFFICES ASSUME d + (k + 1) <= deep
               PROVE  anc[d] = n <=> lo[d + (k + 1)] <= anc[d + (k + 1)] /\ anc[d + (k + 1)] <= hi[d + (k + 1)]
    OBVIOUS
  <2> DEFINE e == d + k
  <2>1. /\ k \in Nat /\ e \in d .. deep /\ e < deep /\ e + 1 = d + (k + 1) /\ e <= deep
        /\ e + 1 \in 1 .. deep /\ (e + 1) - 1 = e /\ e \in 0 .. deep /\ e + 1 \in 0 .. deep
    BY <1>1
  <2> DEFINE p == anc[e]
             q == anc[e + 1]
             x == lo[e]
             y == hi[e]
  <2>2. anc[d] = n <=> x <= p /\ p <= y
    BY <2>1
  <2>3. p \in Inner(source) /\ p \in Nat /\ q \in Nat /\ Before(source, p) < q /\ q <= Before(source, p + 1)
    <3>1. p \in Inner(source) /\ lab[e + 1] \in source.mask[p] /\ Child(source, p, lab[e + 1]) = q
      BY <2>1 DEF PathTo
    <3>2. p \in Nat /\ q \in Nat /\ WellFormed(source)
      BY <1>1, <2>1
    <3> DEFINE l == lab[e + 1]
    <3>3. l \in source.mask[p] /\ Child(source, p, l) = q
      BY <3>1
    <3> HIDE DEF l, p, q
    <3>4. Before(source, p) < Child(source, p, l) /\ Child(source, p, l) <= Before(source, p + 1)
      BY ONLY <3>1, <3>2, <3>3, ChildRange
    <3> QED
      BY ONLY <3>1, <3>2, <3>3, <3>4
  <2>4. x \in Nat /\ lo[e + 1] = Before(source, x) + 1 /\ y \in Nat /\ hi[e + 1] = Before(source, y + 1)
    <3>1. x \in Nat /\ lo[e + 1] = IF FALSE THEN Before(source, x + 1) ELSE Before(source, x) + 1
      BY <2>1, EdgeStep, ZenonT(60)
    <3>2. y \in Nat /\ hi[e + 1] = Before(source, y + 1)
      <4>1. TRUE \in BOOLEAN /\ EdgeOf(n, d, TRUE, hi) /\ e \in d .. Deep(source) /\ e < Deep(source)
        BY <2>1
      <4>2. hi[e] \in Nat /\ hi[e + 1] = IF TRUE THEN Before(source, hi[e] + 1) ELSE Before(source, hi[e]) + 1
        <5> HIDE DEF e
        <5> QED
          BY <4>1, EdgeStep, ZenonT(60)
      <4> QED
        BY <4>2
    <3> QED
      BY <3>1, <3>2
  <2>5. x <= p <=> lo[e + 1] <= q
    <3>1. ASSUME x <= p PROVE lo[e + 1] <= q
      <4>1. Before(source, x) \in Nat /\ Before(source, p) \in Nat /\ Before(source, x) <= Before(source, p)
        BY <2>3, <2>4, <3>1, BeforeOrder
      <4> QED
        BY <2>3, <2>4, <4>1
    <3>2. ASSUME p < x PROVE ~ (lo[e + 1] <= q)
      <4>1. p + 1 \in Nat /\ p + 1 <= x
        BY <2>3, <2>4, <3>2
      <4>2. /\ Before(source, x) \in Nat /\ Before(source, p + 1) \in Nat
            /\ Before(source, p + 1) <= Before(source, x)
        BY <2>4, <4>1, BeforeOrder
      <4> QED
        BY <2>3, <2>4, <4>2
    <3> QED
      BY <2>3, <2>4, <3>1, <3>2
  <2>6. p <= y <=> q <= hi[e + 1]
    <3>1. ASSUME p <= y PROVE q <= hi[e + 1]
      <4>1. p + 1 \in Nat /\ y + 1 \in Nat /\ p + 1 <= y + 1
        BY <2>3, <2>4, <3>1
      <4>2. /\ Before(source, y + 1) \in Nat /\ Before(source, p + 1) \in Nat
            /\ Before(source, p + 1) <= Before(source, y + 1)
        BY <4>1, BeforeOrder
      <4> QED
        BY <2>3, <2>4, <4>2
    <3>2. ASSUME y < p PROVE ~ (q <= hi[e + 1])
      <4>1. y + 1 \in Nat /\ y + 1 <= p
        BY <2>3, <2>4, <3>2
      <4>2. /\ Before(source, p) \in Nat /\ Before(source, y + 1) \in Nat
            /\ Before(source, y + 1) <= Before(source, p)
        BY <2>3, <4>1, BeforeOrder
      <4> QED
        BY <2>3, <2>4, <4>2
    <3> QED
      BY <2>3, <2>4, <3>1, <3>2
  <2> HIDE DEF e
  <2> QED
    BY <2>1, <2>2, <2>5, <2>6
<1>4. G \in SUBSET Nat
  OBVIOUS
<1> HIDE DEF G
<1>5. G = Nat
  BY <1>2, <1>3, <1>4, AllNumbers
<1>6. deep - d \in G /\ d + (deep - d) = deep
  BY <1>1, <1>5
<1> QED
  BY <1>1, <1>6 DEF G

\* Subtrees of different nodes of a level follow each other.
LEMMA EdgesApart ==
  ASSUME Sound, NEW d \in 0 .. Deep(source), NEW m, NEW n, NEW hi, NEW lo,
         EdgeOf(m, d, TRUE, hi), EdgeOf(n, d, FALSE, lo), m < n
  PROVE  hi[Deep(source)] < lo[Deep(source)]
<1> DEFINE deep == Deep(source)
           G == {k \in Nat : d + k <= deep => hi[d + k] < lo[d + k]}
<1>1. deep \in Nat /\ d \in Nat /\ d <= deep
  BY TreeShape DEF Sound
<1>2. 0 \in G
  <2>1. hi[d] = m /\ lo[d] = n /\ d + 0 = d
    BY <1>1 DEF EdgeOf
  <2> QED
    BY <2>1
<1>3. ASSUME NEW k \in G PROVE k + 1 \in G
  <2> SUFFICES ASSUME d + (k + 1) <= deep PROVE hi[d + (k + 1)] < lo[d + (k + 1)]
    OBVIOUS
  <2> DEFINE e == d + k
             x == lo[e]
             y == hi[e]
  <2>1. k \in Nat /\ e \in d .. deep /\ e < deep /\ e + 1 = d + (k + 1) /\ e <= deep
    BY <1>1
  <2>2. y < x
    BY <2>1
  <2>3. x \in Nat /\ lo[e + 1] = Before(source, x) + 1 /\ y \in Nat /\ hi[e + 1] = Before(source, y + 1)
    <3>1. x \in Nat /\ lo[e + 1] = IF FALSE THEN Before(source, x + 1) ELSE Before(source, x) + 1
      BY <2>1, EdgeStep, ZenonT(60)
    <3>2. y \in Nat /\ hi[e + 1] = Before(source, y + 1)
      <4>1. TRUE \in BOOLEAN /\ EdgeOf(m, d, TRUE, hi) /\ e \in d .. Deep(source) /\ e < Deep(source)
        BY <2>1
      <4>2. hi[e] \in Nat /\ hi[e + 1] = IF TRUE THEN Before(source, hi[e] + 1) ELSE Before(source, hi[e]) + 1
        <5> HIDE DEF e
        <5> QED
          BY <4>1, EdgeStep, ZenonT(60)
      <4> QED
        BY <4>2
    <3> QED
      BY <3>1, <3>2
  <2>4. y + 1 \in Nat /\ y + 1 <= x
    BY <2>2, <2>3
  <2>5. Before(source, x) \in Nat /\ Before(source, y + 1) \in Nat /\ Before(source, y + 1) <= Before(source, x)
    BY <2>3, <2>4, BeforeOrder
  <2>6. hi[e + 1] < lo[e + 1]
    BY <2>3, <2>5
  <2> HIDE DEF e
  <2> QED
    BY <2>1, <2>6
<1>4. G \in SUBSET Nat
  OBVIOUS
<1> HIDE DEF G
<1>5. G = Nat
  BY <1>2, <1>3, <1>4, AllNumbers
<1>6. deep - d \in G /\ d + (deep - d) = deep
  BY <1>1, <1>5
<1> QED
  BY <1>6 DEF G

\* The edges of one node do not cross.
LEMMA EdgesMeet ==
  ASSUME Sound, NEW d \in 0 .. Deep(source), NEW n, NEW hi, NEW lo,
         EdgeOf(n, d, TRUE, hi), EdgeOf(n, d, FALSE, lo)
  PROVE  lo[Deep(source)] <= hi[Deep(source)]
<1> DEFINE deep == Deep(source)
           G == {k \in Nat : d + k <= deep => lo[d + k] <= hi[d + k]}
<1>1. deep \in Nat /\ d \in Nat /\ d <= deep
  BY TreeShape DEF Sound
<1>2. 0 \in G
  <2>1. hi[d] = n /\ lo[d] = n /\ d + 0 = d /\ d \in d .. deep
    BY <1>1 DEF EdgeOf
  <2>2. n \in Nat
    BY <2>1 DEF EdgeOf
  <2> QED
    BY <2>1, <2>2
<1>3. ASSUME NEW k \in G PROVE k + 1 \in G
  <2> SUFFICES ASSUME d + (k + 1) <= deep PROVE lo[d + (k + 1)] <= hi[d + (k + 1)]
    OBVIOUS
  <2> DEFINE e == d + k
             x == lo[e]
             y == hi[e]
  <2>1. k \in Nat /\ e \in d .. deep /\ e < deep /\ e + 1 = d + (k + 1) /\ e <= deep /\ e \in 0 .. deep
    BY <1>1
  <2>2. x <= y /\ At(source, e, x)
    BY <2>1 DEF EdgeOf
  <2>3. x \in Nat /\ lo[e + 1] = Before(source, x) + 1 /\ y \in Nat /\ hi[e + 1] = Before(source, y + 1)
    <3>1. x \in Nat /\ lo[e + 1] = Before(source, x) + 1
      <4>1. FALSE \in BOOLEAN /\ EdgeOf(n, d, FALSE, lo) /\ e \in d .. Deep(source) /\ e < Deep(source)
        BY <2>1
      <4>2. lo[e] \in Nat /\ lo[e + 1] = IF FALSE THEN Before(source, lo[e] + 1) ELSE Before(source, lo[e]) + 1
        <5> HIDE DEF e
        <5> QED
          BY <4>1, EdgeStep, ZenonT(60)
      <4> QED
        BY <4>2
    <3>2. y \in Nat /\ hi[e + 1] = Before(source, y + 1)
      <4>1. TRUE \in BOOLEAN /\ EdgeOf(n, d, TRUE, hi) /\ e \in d .. Deep(source) /\ e < Deep(source)
        BY <2>1
      <4>2. hi[e] \in Nat /\ hi[e + 1] = IF TRUE THEN Before(source, hi[e] + 1) ELSE Before(source, hi[e]) + 1
        <5> HIDE DEF e
        <5> QED
          BY <4>1, EdgeStep, ZenonT(60)
      <4> QED
        BY <4>2
    <3> QED
      BY <3>1, <3>2
  <2>4. y + 1 \in Nat /\ x + 1 \in Nat /\ x + 1 <= y + 1
    BY <2>2, <2>3
  <2>5. /\ Before(source, x + 1) \in Nat /\ Before(source, y + 1) \in Nat
        /\ Before(source, x + 1) <= Before(source, y + 1)
    BY <2>4, BeforeOrder
  <2>6. Before(source, x) + 1 <= Before(source, x + 1) /\ Before(source, x) \in Nat
    <3> DEFINE u == Step(FALSE, x)
               v == Step(TRUE, x)
    <3>1. u = Before(source, x) + 1 /\ v = Before(source, x + 1) /\ u <= v
      BY <2>1, <2>2, BlockIs
    <3>2. Before(source, x) \in Nat
      BY <2>3, BeforeSplit
    <3> HIDE DEF u, v
    <3> QED
      BY <3>1, <3>2
  <2>7. lo[e + 1] <= hi[e + 1]
    BY <2>3, <2>5, <2>6
  <2> HIDE DEF e
  <2> QED
    BY <2>1, <2>7
<1>4. G \in SUBSET Nat
  OBVIOUS
<1> HIDE DEF G
<1>5. G = Nat
  BY <1>2, <1>3, <1>4, AllNumbers
<1>6. deep - d \in G /\ d + (deep - d) = deep
  BY <1>1, <1>5
<1> QED
  BY <1>6 DEF G

\* Leaves by ordinal, and the node of a level above one.
Leaf(x) == LeafBegin(source) + x

Up(x, d) == Ancestor(source, Leaf(x), d)

\* Leaves by ordinal are the nodes of the last level.
LEMMA LeafCountIs ==
  ASSUME Sound
  PROVE  /\ LeafCount \in Nat /\ LeafBegin(source) \in Nat /\ EndNode(source) = LeafBegin(source) + LeafCount
         /\ \A x \in Nat : x < LeafCount => Leaf(x) \in Leaves(source) /\ Leaf(x) \in Nat
<1> DEFINE a == LeafBegin(source)
           b == EndNode(source)
<1>1. a \in Nat /\ b \in Nat /\ a <= b /\ Leaves(source) = a .. (b - 1)
  BY TreeShape DEF Sound
<1>2. LeafCount = Cardinality(a .. (b - 1))
  BY <1>1 DEF LeafCount
<1> HIDE DEF a, b
<1>3. a \in Int /\ b - 1 \in Int
  BY <1>1
<1>4. Cardinality(a .. (b - 1)) = IF a > b - 1 THEN 0 ELSE (b - 1) - a + 1
  BY <1>3, FS_Interval
<1>5. LeafCount = b - a
  BY <1>1, <1>2, <1>4
<1>6. \A x \in Nat : x < LeafCount => a + x \in Leaves(source) /\ a + x \in Nat
  BY <1>1, <1>5
<1> QED
  BY <1>1, <1>5, <1>6 DEF a, b, Leaf

\* The first and the last leaf below a node enclose the leaves that have it above them.
LEMMA Under ==
  ASSUME Sound, NEW d \in 0 .. Deep(source), NEW n, At(source, d, n)
  PROVE  /\ ExtremeLeaf(n, d, FALSE) \in Nat /\ ExtremeLeaf(n, d, TRUE) \in Nat
         /\ ExtremeLeaf(n, d, FALSE) <= ExtremeLeaf(n, d, TRUE) /\ ExtremeLeaf(n, d, TRUE) < LeafCount
         /\ \A x \in Nat : x < LeafCount =>
              (Up(x, d) = n <=> ExtremeLeaf(n, d, FALSE) <= x /\ x <= ExtremeLeaf(n, d, TRUE))
<1> DEFINE deep == Deep(source)
           a == LeafBegin(source)
<1>1. FALSE \in BOOLEAN /\ TRUE \in BOOLEAN
  OBVIOUS
<1>2. PICK lo : EdgeOf(n, d, FALSE, lo)
  BY <1>1, EdgeExists, Zenon
<1>3. PICK hi : EdgeOf(n, d, TRUE, hi)
  BY <1>1, EdgeExists, Zenon
<1> DEFINE first == ExtremeLeaf(n, d, FALSE)
           final == ExtremeLeaf(n, d, TRUE)
           p == lo[deep]
           q == hi[deep]
<1>4. first = p - a /\ final = q - a
  <2>1. first = p - a
    BY <1>1, <1>2, ExtremeIs, Zenon
  <2>2. final = q - a
    BY <1>1, <1>3, ExtremeIs, Zenon
  <2> QED
    BY <2>1, <2>2
<1>5. WellFormed(source) /\ deep \in Nat /\ d \in Nat /\ d <= deep /\ deep \in d .. deep
  BY TreeShape DEF Sound
<1>6. At(source, deep, p) /\ At(source, deep, q)
  BY <1>2, <1>3, <1>5 DEF EdgeOf
<1>7. a \in Nat /\ LeafCount \in Nat /\ p \in Nat /\ q \in Nat /\ a <= p /\ a <= q /\ q < a + LeafCount
  <2>1. source.level[deep] = a /\ source.level[deep + 1] = EndNode(source)
    BY DEF LeafBegin, EndNode
  <2> QED
    BY <1>6, <2>1, LeafCountIs DEF At
<1>8. ASSUME NEW x \in Nat, x < LeafCount PROVE Up(x, d) = n <=> p <= a + x /\ a + x <= q
  <2>1. Leaf(x) \in Leaves(source) /\ Leaf(x) = a + x
    BY <1>8, LeafCountIs DEF Leaf
  <2>2. PICK anc : PathTo(source, anc, Lineage(source, Leaf(x)), deep, Leaf(x))
    BY <1>5, <2>1, LeafPath
  <2>3. Up(x, d) = anc[d]
    BY <1>5, <2>2, AncestorIs DEF Up
  <2>4. anc[d] = n <=> p <= Leaf(x) /\ Leaf(x) <= q
    BY <1>2, <1>3, <2>2, EdgesEnclose
  <2> QED
    BY <2>1, <2>3, <2>4
<1>11. p <= q
  BY <1>2, <1>3, EdgesMeet
<1> HIDE DEF p, q, a, first, final
<1>9. first \in Nat /\ final \in Nat /\ first <= final /\ final < LeafCount
  BY <1>4, <1>7, <1>11
<1>10. \A x \in Nat : x < LeafCount => (Up(x, d) = n <=> first <= x /\ x <= final)
  <2> SUFFICES ASSUME NEW x \in Nat, x < LeafCount PROVE Up(x, d) = n <=> first <= x /\ x <= final
    OBVIOUS
  <2>1. (p <= a + x <=> first <= x) /\ (a + x <= q <=> x <= final)
    BY <1>4, <1>7
  <2> QED
    BY <1>8, <2>1
<1> QED
  BY <1>9, <1>10 DEF first, final

\* The leaves of a node come before those of the next one.
LEMMA ExtremesApart ==
  ASSUME Sound, NEW d \in 0 .. Deep(source), NEW m, NEW n, At(source, d, m), At(source, d, n), m < n
  PROVE  ExtremeLeaf(m, d, TRUE) < ExtremeLeaf(n, d, FALSE)
<1> DEFINE deep == Deep(source)
           a == LeafBegin(source)
<1>1. FALSE \in BOOLEAN /\ TRUE \in BOOLEAN
  OBVIOUS
<1>2. PICK lo : EdgeOf(n, d, FALSE, lo)
  BY <1>1, EdgeExists, Zenon
<1>3. PICK hi : EdgeOf(m, d, TRUE, hi)
  BY <1>1, EdgeExists, Zenon
<1> DEFINE p == lo[deep]
           q == hi[deep]
<1>4. ExtremeLeaf(n, d, FALSE) = p - a
  BY <1>1, <1>2, ExtremeIs, Zenon
<1>5. ExtremeLeaf(m, d, TRUE) = q - a
  BY <1>1, <1>3, ExtremeIs, Zenon
<1>6. q < p
  BY <1>2, <1>3, EdgesApart
<1>7. deep \in d .. deep
  BY TreeShape DEF Sound
<1>8. p \in Nat /\ q \in Nat /\ a \in Nat
  BY <1>2, <1>3, <1>7, LeafCountIs DEF EdgeOf
<1> DEFINE x == ExtremeLeaf(m, d, TRUE)
           y == ExtremeLeaf(n, d, FALSE)
<1>9. x = q - a /\ y = p - a
  BY <1>4, <1>5
<1> HIDE DEF p, q, a, x, y
<1>10. x < y
  BY <1>6, <1>8, <1>9
<1> QED
  BY <1>10 DEF x, y

\* The way to a leaf.
LEMMA UpIs ==
  ASSUME Sound, NEW x \in Nat, x < LeafCount, NEW d \in 0 .. Deep(source)
  PROVE  /\ At(source, d, Up(x, d)) /\ Up(x, 0) = 0
         /\ d < Deep(source) =>
              /\ Up(x, d + 1) \in Step(FALSE, Up(x, d)) .. Step(TRUE, Up(x, d))
              /\ Child(source, Up(x, d), Lineage(source, Leaf(x))[d + 1]) = Up(x, d + 1)
<1> DEFINE deep == Deep(source)
           lab == Lineage(source, Leaf(x))
<1>1. WellFormed(source) /\ deep \in Nat /\ Leaf(x) \in Leaves(source) /\ 0 \in 0 .. deep
  BY LeafCountIs, TreeShape DEF Sound
<1>2. PICK anc : PathTo(source, anc, lab, deep, Leaf(x))
  BY <1>1, LeafPath
<1>3. \A e \in 0 .. deep : Up(x, e) = anc[e] /\ At(source, e, anc[e])
  BY <1>1, <1>2, AncestorIs, PathLevels DEF Up
<1>4. Up(x, 0) = 0
  BY <1>1, <1>2, <1>3 DEF PathTo
<1>5. ASSUME d < deep
      PROVE  /\ Up(x, d + 1) \in Step(FALSE, Up(x, d)) .. Step(TRUE, Up(x, d))
             /\ Child(source, Up(x, d), lab[d + 1]) = Up(x, d + 1)
  <2>1. d + 1 \in 1 .. deep /\ d + 1 \in 0 .. deep /\ (d + 1) - 1 = d
    BY <1>1, <1>5
  <2> DEFINE n == anc[d]
             c == anc[d + 1]
  <2>2. n \in Inner(source) /\ lab[d + 1] \in source.mask[n] /\ Child(source, n, lab[d + 1]) = c
    BY <1>2, <2>1 DEF PathTo
  <2>3. Before(source, n) < c /\ c <= Before(source, n + 1) /\ c \in Nat
    BY <1>1, <2>2, ChildRange
  <2>4. At(source, d, n) /\ n = Up(x, d) /\ c = Up(x, d + 1)
    BY <1>3, <2>1
  <2>5. /\ Step(FALSE, n) = Before(source, n) + 1
        /\ Step(TRUE, n) = Before(source, n + 1) /\ Before(source, n) \in Nat
    <3>1. n \in Nat /\ Before(source, n) \in Nat
      BY <1>1, <2>2, Masks
    <3> QED
      BY <1>5, <2>4, <3>1, BlockIs
  <2> HIDE DEF n, c
  <2>6. c \in Step(FALSE, n) .. Step(TRUE, n)
    <3> DEFINE u == Before(source, n)
               v == Before(source, n + 1)
    <3>1. v \in Nat
      BY <1>5, <2>4, <2>5, BlockIs
    <3> HIDE DEF u, v
    <3>2. c \in (u + 1) .. v
      BY <2>3, <2>5, <3>1 DEF u, v
    <3> QED
      BY <2>5, <3>2 DEF u, v
  <2> QED
    BY <2>2, <2>4, <2>6
<1> QED
  BY <1>3, <1>4, <1>5

\* Two leaves agree as far as they have their nodes in common.
LEMMA LcaIs ==
  ASSUME Sound, NEW b \in Nat, 1 <= b, b < LeafCount, NEW d \in 0 .. Deep(source), Up(b - 1, d) = Up(b, d)
  PROVE  /\ LcaDepth(b) \in Nat /\ d <= LcaDepth(b)
         /\ d < Deep(source) /\ Up(b - 1, d + 1) # Up(b, d + 1) => LcaDepth(b) = d
<1> DEFINE deep == Deep(source)
           left == Lineage(source, Leaf(b - 1))
           right == Lineage(source, Leaf(b))
           S == {e \in 1 .. deep : \A i \in 1 .. e : left[i] = right[i]}
<1>1. WellFormed(source) /\ deep \in Nat /\ d \in Nat /\ d <= deep /\ b - 1 \in Nat /\ b - 1 < LeafCount
  BY LeafCountIs, TreeShape DEF Sound
<1>2. Leaf(b - 1) \in Leaves(source) /\ Leaf(b) \in Leaves(source)
  BY <1>1, LeafCountIs
<1>3. LcaDepth(b) = Cardinality(S)
  <2>1. Leaf(b) = LeafBegin(source) + b /\ Leaf(b - 1) = LeafBegin(source) + b - 1
    BY DEF Leaf
  <2> QED
    BY <2>1 DEF LcaDepth
<1>4. PICK p : PathTo(source, p, left, deep, Leaf(b - 1))
  BY <1>1, <1>2, LeafPath
<1>5. PICK q : PathTo(source, q, right, deep, Leaf(b))
  BY <1>1, <1>2, LeafPath
<1>6. p[d] = q[d]
  BY <1>1, <1>4, <1>5, AncestorIs DEF Up
<1>7. \A e \in 1 .. d : left[e] = right[e]
  <2> DEFINE a == [i \in 1 .. d |-> left[i]]
             c == [i \in 1 .. d |-> right[i]]
  <2>1. /\ PathTo(source, [i \in 0 .. d |-> p[i]], a, d, p[d])
        /\ PathTo(source, [i \in 0 .. d |-> q[i]], c, d, q[d])
    BY <1>1, <1>4, <1>5, PathPrefix
  <2>2. a = c
    <3> DEFINE x == [i \in 0 .. d |-> p[i]]
               y == [i \in 0 .. d |-> q[i]]
    <3>1. PathTo(source, x, a, d, p[d]) /\ PathTo(source, y, c, d, p[d])
      BY <1>6, <2>1
    <3> HIDE DEF x, y, a, c
    <3> QED
      BY <1>1, <3>1, PathUnique
  <2>3. \A e \in 1 .. d : a[e] = left[e] /\ c[e] = right[e]
    OBVIOUS
  <2> HIDE DEF a, c
  <2> QED
    BY <2>2, <2>3
<1>8. IsFiniteSet(1 .. d) /\ Cardinality(1 .. d) = d /\ IsFiniteSet(1 .. deep)
  <2>1. 1 \in Int /\ d \in Int /\ deep \in Int
    BY <1>1
  <2>2. IsFiniteSet(1 .. d) /\ Cardinality(1 .. d) = (IF 1 > d THEN 0 ELSE d - 1 + 1) /\ IsFiniteSet(1 .. deep)
    BY <2>1, FS_Interval
  <2>3. (IF 1 > d THEN 0 ELSE d - 1 + 1) = d
    BY <1>1
  <2> QED
    BY <2>2, <2>3
<1>9. 1 .. d \subseteq S
  BY <1>1, <1>7
<1>10. IsFiniteSet(S) /\ Cardinality(S) \in Nat /\ d <= Cardinality(S)
  <2>1. S \subseteq 1 .. deep
    OBVIOUS
  <2> HIDE DEF S
  <2>2. IsFiniteSet(S)
    BY <1>8, <2>1, FS_Subset
  <2>3. Cardinality(S) \in Nat
    BY <2>2, FS_CardinalityType
  <2>4. Cardinality(1 .. d) <= Cardinality(S)
    BY <1>9, <2>2, FS_Subset
  <2> QED
    BY <1>8, <2>2, <2>3, <2>4
<1>11. ASSUME d < deep, Up(b - 1, d + 1) # Up(b, d + 1) PROVE Cardinality(S) = d
  <2>1. d + 1 \in 0 .. deep
    BY <1>1, <1>11
  <2>2. /\ Child(source, Up(b - 1, d), left[d + 1]) = Up(b - 1, d + 1)
        /\ Child(source, Up(b, d), right[d + 1]) = Up(b, d + 1)
    BY <1>1, <1>11, UpIs
  <2>3. left[d + 1] # right[d + 1]
    BY <1>11, <2>2
  <2>4. ASSUME NEW e \in S PROVE e \in 1 .. d
    <3>1. CASE e <= d
      BY <1>1, <3>1
    <3>2. CASE d + 1 <= e
      <4>1. d + 1 \in 1 .. e
        BY <1>1, <3>2
      <4> QED
        BY <2>3, <4>1
    <3> QED
      BY <1>1, <3>1, <3>2
  <2>5. S = 1 .. d
    BY <1>9, <2>4
  <2> QED
    BY <1>8, <2>5
<1> QED
  BY <1>3, <1>10, <1>11

\* What the descent for a boundary keeps: its interval is whole, below the node.
Descending ==
  /\ depth \in 0 .. Deep(source) /\ At(source, depth, node)
  /\ window = Lowest .. Highest /\ Lowest \in Nat /\ Highest \in Nat /\ Lowest <= Highest
  /\ \A b \in window : ExtremeLeaf(node, depth, FALSE) < b /\ b <= ExtremeLeaf(node, depth, TRUE)

\* The descent never arrives at a leaf.
LEMMA NotLeaf ==
  ASSUME Sound, Descending
  PROVE  depth < Deep(source)
<1>1. depth \in Nat /\ Deep(source) \in Nat /\ depth <= Deep(source)
  BY TreeShape DEF Sound, Descending
<1> SUFFICES ASSUME depth = Deep(source) PROVE FALSE
  BY <1>1
<1>2. depth \in 0 .. Deep(source) /\ At(source, depth, node) /\ FALSE \in BOOLEAN /\ TRUE \in BOOLEAN
  BY DEF Descending
<1>3. PICK lo : EdgeOf(node, depth, FALSE, lo)
  BY <1>2, EdgeExists, Zenon
<1>4. PICK hi : EdgeOf(node, depth, TRUE, hi)
  BY <1>2, EdgeExists, Zenon
<1> DEFINE x == ExtremeLeaf(node, depth, FALSE)
           y == ExtremeLeaf(node, depth, TRUE)
<1>5. x = lo[Deep(source)] - LeafBegin(source)
  BY <1>2, <1>3, ExtremeIs, Zenon
<1>6. y = hi[Deep(source)] - LeafBegin(source)
  BY <1>2, <1>4, ExtremeIs, Zenon
<1>7. lo[Deep(source)] = hi[Deep(source)]
  BY <1>3, <1>4 DEF EdgeOf
<1>8. x \in Nat /\ y \in Nat
  BY <1>2, Under
<1>9. x = y
  BY <1>5, <1>6, <1>7
<1>10. \A b \in window : x < b /\ b <= y
  BY Zenon DEF Descending
<1> HIDE DEF x, y
<1>11. Lowest \in window /\ Lowest \in Nat
  <2>1. window = Lowest .. Highest /\ Lowest \in Nat /\ Highest \in Nat /\ Lowest <= Highest
    BY Zenon DEF Descending
  <2> QED
    BY <2>1
<1> QED
  BY <1>8, <1>9, <1>10, <1>11

\* The children that are looked at.
LEMMA ChildrenAre ==
  ASSUME Sound, Descending
  PROVE  /\ Children = Step(FALSE, node) .. Step(TRUE, node) /\ FirstChild(source, node) = Step(FALSE, node)
         /\ Step(FALSE, node) \in Nat /\ \A c \in Children : c \in Nat /\ At(source, depth + 1, c) /\ Step(FALSE, node) <= c
         /\ depth < Deep(source) /\ depth \in Nat /\ depth + 1 \in 0 .. Deep(source)
<1>1. depth < Deep(source) /\ depth \in 0 .. Deep(source) /\ At(source, depth, node) /\ Deep(source) \in Nat
  BY NotLeaf, TreeShape DEF Descending, Sound
<1> DEFINE x == Step(FALSE, node)
           y == Step(TRUE, node)
<1>2. /\ x = Before(source, node) + 1 /\ FirstChild(source, node) = Before(source, node) + 1
      /\ y = FirstChild(source, node) + Cardinality(source.mask[node]) - 1
      /\ \A c \in x .. y : At(source, depth + 1, c)
      /\ x \in Nat /\ y \in Nat
  BY <1>1, BlockIs
<1>3. x = FirstChild(source, node)
  BY <1>2
<1>4. Children = x .. y
  BY <1>2, <1>3 DEF Children
<1> HIDE DEF x, y
<1>5. \A c \in Children : c \in Nat /\ At(source, depth + 1, c) /\ x <= c
  BY <1>2, <1>4
<1>6. depth \in Nat /\ depth + 1 \in 0 .. Deep(source)
  BY <1>1
<1> QED
  BY <1>1, <1>2, <1>3, <1>4, <1>5, <1>6 DEF x, y

\* Boundaries of the interval: the leaves on both sides are below the node.
LEMMA Beside ==
  ASSUME Sound, Descending, NEW b \in window
  PROVE  /\ b \in Nat /\ 1 <= b /\ b < LeafCount /\ b - 1 \in Nat
         /\ Up(b - 1, depth) = node /\ Up(b, depth) = node
<1> DEFINE x == ExtremeLeaf(node, depth, FALSE)
           y == ExtremeLeaf(node, depth, TRUE)
<1>1. depth \in 0 .. Deep(source) /\ At(source, depth, node) /\ b \in Nat /\ x < b /\ b <= y
  <2>1. window = Lowest .. Highest /\ Lowest \in Nat /\ Highest \in Nat /\ x < b /\ b <= y
    BY Zenon DEF Descending
  <2>2. depth \in 0 .. Deep(source) /\ At(source, depth, node)
    BY Zenon DEF Descending
  <2> HIDE DEF x, y
  <2> QED
    BY <2>1, <2>2
<1>2. /\ x \in Nat /\ y \in Nat /\ y < LeafCount
      /\ \A z \in Nat : z < LeafCount => (Up(z, depth) = node <=> x <= z /\ z <= y)
  BY <1>1, Under
<1>3. LeafCount \in Nat
  BY LeafCountIs
<1> HIDE DEF x, y
<1>4. 1 <= b /\ b < LeafCount /\ b - 1 \in Nat /\ b - 1 < LeafCount /\ x <= b - 1 /\ b - 1 <= y /\ x <= b
  BY <1>1, <1>2, <1>3
<1> QED
  BY <1>1, <1>2, <1>4

\* Leaves of different children have the node as their lowest common ancestor; leaves of
\* one child have a lower one.
LEMMA CandidateIs ==
  ASSUME Sound, Descending, NEW b \in Candidates
  PROVE  b \in window /\ LcaDepth(b) = depth
<1>1. PICK c \in Children \ {FirstChild(source, node)} : b = ExtremeLeaf(c, depth + 1, FALSE)
  BY DEF Candidates
<1>2. /\ b \in window /\ At(source, depth + 1, c) /\ depth + 1 \in 0 .. Deep(source)
      /\ depth \in 0 .. Deep(source) /\ depth < Deep(source)
  BY <1>1, ChildrenAre DEF Candidates, Descending
<1>3. b \in Nat /\ 1 <= b /\ b < LeafCount /\ b - 1 \in Nat /\ Up(b - 1, depth) = Up(b, depth)
  BY <1>2, Beside
<1> DEFINE y == ExtremeLeaf(c, depth + 1, TRUE)
<1>4. \A z \in Nat : z < LeafCount => (Up(z, depth + 1) = c <=> b <= z /\ z <= y)
  BY <1>1, <1>2, Under
<1>5. Up(b - 1, depth + 1) # c
  <2>1. b - 1 < LeafCount /\ ~ (b <= b - 1)
    BY <1>3, LeafCountIs
  <2> QED
    BY <1>3, <1>4, <2>1
<1>6. Up(b, depth + 1) = c
  <2>1. y \in Nat /\ b <= y
    BY <1>1, <1>2, Under
  <2> HIDE DEF y
  <2> QED
    BY <1>3, <1>4, <2>1
<1> QED
  BY <1>2, <1>3, <1>5, <1>6, LcaIs

\* A boundary inside a child has a deeper common ancestor.
LEMMA NestedIs ==
  ASSUME Sound, Descending, NEW c \in Children, NEW b \in Nested(c)
  PROVE  b \in window /\ LcaDepth(b) \in Nat /\ depth + 1 <= LcaDepth(b)
<1> DEFINE x == ExtremeLeaf(c, depth + 1, FALSE)
           y == ExtremeLeaf(c, depth + 1, TRUE)
<1>1. b \in window /\ At(source, depth + 1, c) /\ depth + 1 \in 0 .. Deep(source) /\ x < b /\ b <= y
  BY ChildrenAre DEF Nested
<1>2. b \in Nat /\ 1 <= b /\ b < LeafCount /\ b - 1 \in Nat
  BY <1>1, Beside
<1>3. x \in Nat /\ y \in Nat /\ \A z \in Nat : z < LeafCount => (Up(z, depth + 1) = c <=> x <= z /\ z <= y)
  BY <1>1, Under
<1> HIDE DEF x, y
<1>4. LeafCount \in Nat
  BY LeafCountIs
<1>5. b - 1 < LeafCount /\ x <= b - 1 /\ b - 1 <= y /\ x <= b
  BY <1>1, <1>2, <1>3, <1>4
<1>6. Up(b - 1, depth + 1) = c /\ Up(b, depth + 1) = c
  BY <1>1, <1>2, <1>3, <1>5
<1> QED
  BY <1>1, <1>2, <1>6, LcaIs

\* Every boundary of the interval is between two children or within one.
LEMMA Divided ==
  ASSUME Sound, Descending, NEW b \in window
  PROVE  b \in Candidates \/ \E c \in Children : b \in Nested(c)
<1> DEFINE p == Up(b - 1, depth + 1)
           q == Up(b, depth + 1)
<1>1. b \in Nat /\ 1 <= b /\ b < LeafCount /\ b - 1 \in Nat /\ Up(b - 1, depth) = node /\ Up(b, depth) = node
  BY Beside
<1>2. /\ depth + 1 \in 0 .. Deep(source) /\ depth \in 0 .. Deep(source) /\ depth < Deep(source)
      /\ Children = Step(FALSE, node) .. Step(TRUE, node) /\ FirstChild(source, node) = Step(FALSE, node)
      /\ \A c \in Children : c \in Nat /\ At(source, depth + 1, c) /\ Step(FALSE, node) <= c
  BY ChildrenAre DEF Descending
<1>3. b - 1 < LeafCount
  BY <1>1, LeafCountIs
<1>4. p \in Children /\ q \in Children
  BY <1>1, <1>2, <1>3, UpIs
<1> DEFINE px == ExtremeLeaf(p, depth + 1, FALSE)
           py == ExtremeLeaf(p, depth + 1, TRUE)
           qx == ExtremeLeaf(q, depth + 1, FALSE)
           qy == ExtremeLeaf(q, depth + 1, TRUE)
<1>5. px \in Nat /\ py \in Nat /\ px <= b - 1 /\ b - 1 <= py
  <2>1. At(source, depth + 1, p) /\ depth + 1 \in 0 .. Deep(source)
    BY <1>2, <1>4
  <2> HIDE DEF p
  <2>2. px \in Nat /\ py \in Nat /\ \A z \in Nat : z < LeafCount => (Up(z, depth + 1) = p <=> px <= z /\ z <= py)
    BY <2>1, Under
  <2>3. Up(b - 1, depth + 1) = p
    BY DEF p
  <2> DEFINE z == b - 1
  <2>4. z \in Nat /\ z < LeafCount /\ Up(z, depth + 1) = p
    BY <1>1, <1>3, <2>3
  <2> HIDE DEF px, py, z
  <2>5. px <= z /\ z <= py
    BY <2>2, <2>4
  <2> QED
    BY <2>2, <2>5 DEF z
<1>6. qx \in Nat /\ qy \in Nat /\ qx <= b /\ b <= qy
  BY <1>1, <1>2, <1>4, Under
<1>7. p < q => py < qx
  BY <1>2, <1>4, ExtremesApart
<1>8. q < p => qy < px
  BY <1>2, <1>4, ExtremesApart
<1>9. p = q => b \in Nested(q)
  <2> SUFFICES ASSUME p = q PROVE b \in Nested(q)
    OBVIOUS
  <2>1. qx = px
    OBVIOUS
  <2>2. qx < b /\ b <= qy
    <3> HIDE DEF qx, px, qy, p, q
    <3> QED
      BY <1>1, <1>5, <1>6, <2>1
  <2> QED
    BY <2>2 DEF Nested
<1>10. p < q => b \in Candidates
  <2> SUFFICES ASSUME p < q PROVE b \in Candidates
    OBVIOUS
  <2>1. q # FirstChild(source, node)
    <3> DEFINE low == Step(FALSE, node)
    <3>1. low <= p /\ p \in Nat /\ q \in Nat /\ FirstChild(source, node) = low
      BY <1>2, <1>4
    <3>2. low \in Nat
      BY ChildrenAre
    <3> HIDE DEF p, q, low
    <3> QED
      BY <3>1, <3>2
  <2>2. b = qx
    <3> HIDE DEF qx, px, py, qy, p, q
    <3> QED
      BY <1>1, <1>5, <1>6, <1>7
  <2> QED
    BY <1>4, <2>1, <2>2 DEF Candidates
<1>11. ~ (q < p)
  <2> HIDE DEF qx, px, py, qy, p, q
  <2> QED
    BY <1>1, <1>5, <1>6, <1>8
<1>12. p \in Nat /\ q \in Nat
  BY <1>2, <1>4
<1> HIDE DEF p, q
<1>13. p = q \/ p < q
  BY <1>11, <1>12
<1> QED
  BY <1>4, <1>9, <1>10, <1>13

\* Without a boundary between children, the whole interval is within one of them.
LEMMA NarrowKeeps ==
  ASSUME Sound, Descending, Candidates = {}
  PROVE  /\ Holding # {}
         /\ \A c \in Holding : (\A d \in Holding : c <= d) => Nested(c) = window
<1>1. \A b \in window : \E c \in Children : b \in Nested(c)
  BY Divided
<1>2. Holding # {}
  <2>1. Lowest \in window
    BY DEF Descending
  <2> QED
    BY <1>1, <2>1 DEF Holding
<1>3. ASSUME NEW c \in Holding, \A d \in Holding : c <= d, NEW b \in window PROVE b \in Nested(c)
  <2>1. PICK d \in Children : b \in Nested(d)
    BY <1>1
  <2>2. d \in Holding /\ c <= d /\ c \in Children
    BY <1>3, <2>1 DEF Holding
  <2>3. /\ depth + 1 \in 0 .. Deep(source) /\ c \in Nat /\ d \in Nat
        /\ At(source, depth + 1, c) /\ At(source, depth + 1, d)
        /\ FirstChild(source, node) <= c
    BY <2>2, ChildrenAre
  <2>4. ~ (c < d)
    <3> SUFFICES ASSUME c < d PROVE FALSE
      OBVIOUS
    <3>1. PICK a \in window : a \in Nested(c)
      BY DEF Holding, Nested
    <3> DEFINE cy == ExtremeLeaf(c, depth + 1, TRUE)
               dx == ExtremeLeaf(d, depth + 1, FALSE)
    <3>2. a <= cy /\ dx < b
      BY <2>1, <3>1 DEF Nested
    <3>3. cy < dx
      BY <2>3, ExtremesApart
    <3>4. cy \in Nat /\ dx \in Nat
      BY <2>3, Under
    <3>5. a \in Nat /\ b \in Nat /\ window = Lowest .. Highest /\ Lowest \in Nat /\ Highest \in Nat
      BY DEF Descending
    <3>6. dx \in window
      <4> HIDE DEF cy, dx
      <4> QED
        BY <3>2, <3>3, <3>4, <3>5
    <3>7. d # FirstChild(source, node)
      <4>1. FirstChild(source, node) \in Nat
        BY ChildrenAre
      <4> QED
        BY <2>3, <4>1
    <3>8. dx \in Candidates
      BY <2>1, <3>6, <3>7 DEF Candidates
    <3> QED
      BY <3>8
  <2>5. c = d
    BY <2>2, <2>3, <2>4
  <2> QED
    BY <2>1, <2>5
<1>4. \A c \in Holding : (\A d \in Holding : c <= d) => Nested(c) = window
  BY <1>3 DEF Nested
<1> QED
  BY <1>2, <1>4

Settings ==
  /\ parts \in Nat /\ 2 <= parts /\ parts <= LeafCount /\ slack \in Nat
  /\ part \in 1 .. parts
  /\ boundary \in [0 .. parts -> Nat]
  /\ boundary[0] = 0 /\ boundary[parts] = LeafCount

\* The boundaries placed so far increase, leave a leaf to every part still to come and
\* stay within the slack; every leaf below the last one has its part.
Placed ==
  /\ \A j, k \in 0 .. (part - 1) : j < k => boundary[j] < boundary[k]
  /\ boundary[part - 1] <= LeafCount - (parts - (part - 1))
  /\ boundary[part - 1] <= BalancedBoundary(part - 1) + slack
  /\ \A x \in Nat : x < boundary[part - 1] =>
       \E k \in 0 .. (part - 2) : boundary[k] <= x /\ x < boundary[k + 1]

\* A boundary of an interval with the shallowest common ancestor, the nearest of those.
Shallowest(chosen, first, last, ideal) ==
  /\ chosen \in first .. last
  /\ \A b \in (first .. last) \ {chosen} :
       \/ LcaDepth(chosen) < LcaDepth(b)
       \/ /\ LcaDepth(chosen) = LcaDepth(b)
          /\ Distance(chosen, ideal) <= Distance(b, ideal)

Shallow(placed) ==
  Shallowest(boundary[placed],
             Larger(BalancedBoundary(placed) - slack, boundary[placed - 1] + 1),
             Smaller(BalancedBoundary(placed) + slack, LeafCount - (parts - placed)),
             BalancedBoundary(placed))

PlanInv ==
  /\ Sound /\ LeafCount \in Nat
  /\ step \in {"idle", "interval", "descend", "planned"}
  /\ step # "idle" => Settings /\ Placed
  /\ step \in {"interval", "descend"} => part < parts
  /\ step = "planned" => part = parts
  /\ step = "descend" => Descending
  /\ step # "idle" /\ part > 1 => Shallow(part - 1)

-----------------------------------------------------------------------------
\* The ideal boundaries leave a leaf to each part on both sides, and increase.
LEMMA BalancedBounds ==
  ASSUME LeafCount \in Nat, parts \in Nat, 2 <= parts, parts <= LeafCount,
         NEW k \in 0 .. parts
  PROVE  /\ BalancedBoundary(k) \in Nat
         /\ k <= BalancedBoundary(k)
         /\ BalancedBoundary(k) <= LeafCount - (parts - k)
         /\ k < parts => BalancedBoundary(k) < BalancedBoundary(k + 1)
<1> DEFINE q == LeafCount \div parts
           r == LeafCount % parts
<1>1. q \in Nat /\ r \in 0 .. (parts - 1) /\ LeafCount = q * parts + r
  OBVIOUS
<1>2. q >= 1
  <2>1. CASE q = 0
    BY <1>1, <2>1
  <2> QED
    BY <1>1, <2>1
<1> HIDE DEF q, r
<1>3. q * k \in Nat /\ q * k >= k
  BY <1>1, <1>2
<1>4. q * (parts - k) >= parts - k /\ q * (parts - k) \in Nat
  BY <1>1, <1>2
<1>5. q * parts = q * k + q * (parts - k)
  BY <1>1
<1>6. q * (k + 1) = q * k + q
  BY <1>1
<1>7. Smaller(r, k) \in Nat /\ Smaller(r, k) <= r /\ Smaller(r, k) <= k /\ Smaller(r, k) <= Smaller(r, k + 1)
  BY <1>1 DEF Smaller
<1>8. BalancedBoundary(k) = q * k + Smaller(r, k) /\ BalancedBoundary(k + 1) = q * (k + 1) + Smaller(r, k + 1)
  BY DEF BalancedBoundary, q, r
<1>9. Smaller(r, k + 1) \in Nat
  BY <1>1 DEF Smaller
<1>10. BalancedBoundary(k) \in Nat /\ k <= BalancedBoundary(k)
  BY <1>3, <1>7, <1>8
<1>11. BalancedBoundary(k) <= LeafCount - (parts - k)
  BY <1>1, <1>3, <1>4, <1>5, <1>7, <1>8
<1>12. BalancedBoundary(k) < BalancedBoundary(k + 1)
  BY <1>1, <1>2, <1>3, <1>6, <1>7, <1>8, <1>9
<1> QED
  BY <1>10, <1>11, <1>12

\* What the interval of the next boundary is good for.
LEMMA IntervalBounds ==
  ASSUME LeafCount \in Nat, Settings, Placed, part < parts
  PROVE  /\ Lowest \in Nat /\ Highest \in Nat
         /\ boundary[part - 1] < Lowest
         /\ Highest <= LeafCount - (parts - part)
         /\ Highest <= BalancedBoundary(part) + slack
         /\ Lowest <= Highest
<1> DEFINE ideal == BalancedBoundary(part)
           before == BalancedBoundary(part - 1)
<1>1. part \in 0 .. parts /\ part - 1 \in 0 .. parts /\ part - 1 < parts /\ (part - 1) + 1 = part
  BY DEF Settings
<1>2. ideal \in Nat /\ part <= ideal /\ ideal <= LeafCount - (parts - part)
  BY <1>1, BalancedBounds DEF Settings
<1>3. before \in Nat /\ before < ideal
  BY <1>1, BalancedBounds DEF Settings
<1>4. /\ boundary[part - 1] \in Nat
      /\ boundary[part - 1] <= LeafCount - (parts - (part - 1))
      /\ boundary[part - 1] <= before + slack
  BY <1>1 DEF Settings, Placed
<1>5. slack \in Nat /\ part \in 1 .. parts /\ parts \in Nat
  BY DEF Settings
<1> HIDE DEF ideal, before
<1>6. Lowest = Larger(IF ideal > slack THEN ideal - slack ELSE 1, boundary[part - 1] + 1)
  BY DEF Lowest, ideal
<1>7. Highest = Smaller(IF ideal <= LeafCount - 1 - slack THEN ideal + slack ELSE LeafCount - 1, LeafCount - (parts - part))
  BY DEF Highest, ideal
<1>8. Lowest \in Nat /\ boundary[part - 1] < Lowest
  BY <1>2, <1>4, <1>5, <1>6 DEF Larger
<1>9. Highest \in Nat /\ Highest <= LeafCount - (parts - part) /\ Highest <= ideal + slack
  BY <1>2, <1>5, <1>7 DEF Smaller
<1>10. Lowest <= Highest
  BY <1>2, <1>3, <1>4, <1>5, <1>6, <1>7 DEF Larger, Smaller
<1> QED
  BY <1>8, <1>9, <1>10 DEF ideal

\* A boundary from the interval keeps what the boundaries before it had.
LEMMA PlaceKeeps ==
  ASSUME LeafCount \in Nat, Settings, Placed, part < parts, step = "descend",
         window \subseteq Lowest .. Highest,
         NEW b \in Candidates, boundary' = [boundary EXCEPT ![part] = b],
         part' = part + 1, UNCHANGED <<source, parts, slack>>
  PROVE  Settings' /\ Placed'
<1>1. /\ b \in Nat /\ boundary[part - 1] < b /\ b <= LeafCount - (parts - part)
      /\ b <= BalancedBoundary(part) + slack
  <2>1. /\ Lowest \in Nat /\ Highest \in Nat /\ boundary[part - 1] < Lowest
        /\ Highest <= LeafCount - (parts - part) /\ Highest <= BalancedBoundary(part) + slack
    BY IntervalBounds
  <2>2. b \in Lowest .. Highest
    BY DEF Candidates
  <2>3. BalancedBoundary(part) \in Nat /\ boundary[part - 1] \in Nat /\ parts - part \in Nat /\ slack \in Nat
    BY BalancedBounds DEF Settings
  <2> QED
    BY <2>1, <2>2, <2>3
<1>2. part \in 1 .. parts /\ parts \in Nat /\ boundary \in [0 .. parts -> Nat]
  BY DEF Settings
<1>3. LeafCount' = LeafCount /\ BalancedBoundary(part)' = BalancedBoundary(part + 1)
  BY DEF LeafCount, BalancedBoundary
<1>4. boundary'[part] = b /\ \A k \in 0 .. parts : k # part => boundary'[k] = boundary[k]
  BY <1>2
<1>5. Settings'
  BY <1>1, <1>2, <1>3, <1>4 DEF Settings
<1>6. part' - 1 = part /\ part' - 2 = part - 1 /\ part - 1 \in 0 .. parts /\ part \in 0 .. parts
  BY <1>2
<1>7. ASSUME NEW j \in 0 .. part, NEW k \in 0 .. part, j < k
      PROVE  boundary'[j] < boundary'[k]
  <2>1. CASE k < part
    BY <1>2, <1>4, <1>7, <2>1 DEF Placed
  <2>2. CASE k = part
    <3>1. boundary[j] <= boundary[part - 1]
      BY <1>2, <1>7, <2>2 DEF Placed
    <3> QED
      BY <1>1, <1>2, <1>4, <1>7, <2>2, <3>1
  <2> QED
    BY <1>2, <2>1, <2>2
<1>8. ASSUME NEW x \in Nat, x < b
      PROVE  \E k \in 0 .. (part - 1) : boundary'[k] <= x /\ x < boundary'[k + 1]
  <2>1. CASE x < boundary[part - 1]
    <3>1. PICK k \in 0 .. (part - 2) : boundary[k] <= x /\ x < boundary[k + 1]
      BY <2>1 DEF Placed
    <3> QED
      BY <1>2, <1>4, <3>1
  <2>2. CASE boundary[part - 1] <= x
    BY <1>2, <1>4, <1>8, <2>2
  <2> QED
    BY <1>2, <1>6, <2>1, <2>2
<1>9. (BalancedBoundary(part - 1))' = BalancedBoundary(part)
  BY <1>2 DEF BalancedBoundary, LeafCount
<1> QED
  BY <1>1, <1>3, <1>4, <1>5, <1>6, <1>7, <1>8, <1>9 DEF Placed

-----------------------------------------------------------------------------
\* The root is above every boundary of the interval.
LEMMA RootHolds ==
  ASSUME Sound, Settings, Placed, part < parts
  PROVE  /\ 0 \in 0 .. Deep(source) /\ At(source, 0, 0)
         /\ \A b \in Lowest .. Highest : ExtremeLeaf(0, 0, FALSE) < b /\ b <= ExtremeLeaf(0, 0, TRUE)
<1> DEFINE x == ExtremeLeaf(0, 0, FALSE)
           y == ExtremeLeaf(0, 0, TRUE)
<1>1. 0 \in 0 .. Deep(source) /\ At(source, 0, 0) /\ LeafCount \in Nat
  <2>1. WellFormed(source) /\ Deep(source) \in Nat /\ LeafCount \in Nat
    BY LeafCountIs, TreeShape DEF Sound
  <2> QED
    BY <2>1, Levels DEF At
<1>2. x \in Nat /\ y \in Nat /\ \A z \in Nat : z < LeafCount => (Up(z, 0) = 0 <=> x <= z /\ z <= y)
  BY <1>1, Under
<1>3. /\ Lowest \in Nat /\ Highest \in Nat /\ boundary[part - 1] < Lowest
      /\ Highest <= LeafCount - (parts - part)
  BY <1>1, IntervalBounds
<1>4. parts \in Nat /\ part \in 1 .. parts /\ parts <= LeafCount /\ 2 <= parts /\ boundary[part - 1] \in Nat
  BY DEF Settings
<1> HIDE DEF x, y
<1>5. 0 < LeafCount /\ LeafCount - 1 \in Nat /\ LeafCount - 1 < LeafCount
  BY <1>1, <1>4
<1>6. Up(0, 0) = 0 /\ Up(LeafCount - 1, 0) = 0
  BY <1>1, <1>5, UpIs
<1>7. x <= 0 /\ LeafCount - 1 <= y
  BY <1>2, <1>5, <1>6
<1>8. \A b \in Lowest .. Highest : x < b /\ b <= y
  BY <1>1, <1>2, <1>3, <1>4, <1>7
<1> QED
  BY <1>1, <1>8 DEF x, y

\* The interval that is searched is the one the property speaks of.
LEMMA IntervalIs ==
  ASSUME LeafCount \in Nat, Settings, part < parts
  PROVE  /\ Lowest = Larger(BalancedBoundary(part) - slack, boundary[part - 1] + 1)
         /\ Highest = Smaller(BalancedBoundary(part) + slack, LeafCount - (parts - part))
<1> DEFINE ideal == BalancedBoundary(part)
<1>1. /\ parts \in Nat /\ part \in 1 .. parts /\ slack \in Nat /\ boundary[part - 1] \in Nat
      /\ part \in 0 .. parts /\ 2 <= parts /\ parts <= LeafCount
  BY DEF Settings
<1>2. ideal \in Nat
  BY <1>1, BalancedBounds
<1>3. Lowest = Larger(IF ideal > slack THEN ideal - slack ELSE 1, boundary[part - 1] + 1)
  BY DEF Lowest
<1>4. Highest = Smaller(IF ideal <= LeafCount - 1 - slack THEN ideal + slack ELSE LeafCount - 1, LeafCount - (parts - part))
  BY DEF Highest
<1> HIDE DEF ideal
<1>5. Lowest = Larger(ideal - slack, boundary[part - 1] + 1)
  BY <1>1, <1>2, <1>3 DEF Larger
<1>6. Highest = Smaller(ideal + slack, LeafCount - (parts - part))
  BY <1>1, <1>2, <1>4 DEF Smaller
<1> QED
  BY <1>5, <1>6 DEF ideal

\* A boundary between two children of the node is above every boundary inside one.
LEMMA CandidateShallowest ==
  ASSUME LeafCount \in Nat, Sound, Settings, part < parts, Descending,
         NEW b \in Candidates, Nearest(b, BalancedBoundary(part))
  PROVE  Shallowest(b, Lowest, Highest, BalancedBoundary(part))
<1> DEFINE ideal == BalancedBoundary(part)
<1>1. b \in Lowest .. Highest /\ LcaDepth(b) = depth /\ depth \in Nat /\ window = Lowest .. Highest
  BY CandidateIs, ChildrenAre DEF Descending
<1>2. ideal \in Nat /\ \A c \in window : c \in Nat
  <2>1. part \in 0 .. parts /\ parts \in Nat /\ 2 <= parts /\ parts <= LeafCount
    BY DEF Settings
  <2> QED
    BY <2>1, BalancedBounds, Beside
<1>3. ASSUME NEW c \in window
      PROVE  LcaDepth(b) < LcaDepth(c) \/ (LcaDepth(b) = LcaDepth(c) /\ Distance(b, ideal) <= Distance(c, ideal))
  <2>1. CASE c \in Candidates
    <3>1. LcaDepth(c) = depth
      BY <2>1, CandidateIs
    <3>2. Distance(b, ideal) < Distance(c, ideal) \/ Distance(b, ideal) = Distance(c, ideal)
      BY <2>1 DEF Nearest
    <3>3. Distance(b, ideal) \in Nat /\ Distance(c, ideal) \in Nat
      BY <1>1, <1>2 DEF Distance
    <3> QED
      BY <1>1, <3>1, <3>2, <3>3
  <2>2. CASE \E d \in Children : c \in Nested(d)
    <3>1. LcaDepth(c) \in Nat /\ depth + 1 <= LcaDepth(c)
      BY <2>2, NestedIs
    <3> QED
      BY <1>1, <3>1
  <2> QED
    BY <2>1, <2>2, Divided
<1> QED
  BY <1>1, <1>3 DEF Shallowest

\* What the placed boundary is shallowest among does not change while the next is sought.
LEMMA ShallowKept ==
  ASSUME UNCHANGED <<source, parts, slack, boundary, part>>
  PROVE  /\ Sound' = Sound /\ LeafCount' = LeafCount /\ Settings' = Settings /\ Placed' = Placed
         /\ Lowest' = Lowest /\ Highest' = Highest
         /\ (Shallow(part - 1))' = Shallow(part - 1)
<1>1. Sound' = Sound /\ LeafCount' = LeafCount
  BY DEF Sound, LeafCount
<1>2. Settings' = Settings /\ Placed' = Placed
  BY DEF Settings, Placed, LeafCount, BalancedBoundary
<1>3. Lowest' = Lowest /\ Highest' = Highest
  BY DEF Lowest, Highest, LeafCount, BalancedBoundary
<1>4. (Shallow(part - 1))' = Shallow(part - 1)
  BY DEF Shallow, Shallowest, LcaDepth, BalancedBoundary, LeafCount
<1> QED
  BY <1>1, <1>2, <1>3, <1>4

\* Nothing is placed in the beginning.
LEMMA PlanInitInv == PlanInit => PlanInv
BY LeafCountIs DEF PlanInit, Idle, PlanInv, Sound

\* Every step of the planner keeps the invariant.
LEMMA PlanStepInv == PlanInv /\ [PlanNext]_planVars => PlanInv'
<1> SUFFICES ASSUME PlanInv, [PlanNext]_planVars PROVE PlanInv'
  OBVIOUS
<1>1. CASE Begin
  <2>1. PICK p \in 2 .. LeafCount :
          /\ parts' = p /\ slack' \in 0 .. ((LeafCount - 1) \div (2 * p))
          /\ boundary' = [k \in 0 .. p |-> IF k = p THEN LeafCount ELSE 0]
    BY <1>1 DEF Begin
  <2>2. LeafCount' = LeafCount /\ LeafCount \in Nat /\ part' = 1 /\ step' = "interval"
    BY <1>1 DEF Begin, LeafCount, PlanInv
  <2>3. slack' \in Nat
    BY <2>1
  <2>4. Settings'
    BY <2>1, <2>2, <2>3 DEF Settings
  <2>5. boundary'[0] = 0
    BY <2>1, <2>2
  <2>6. (BalancedBoundary(part - 1))' \in Nat
    <3>1. (part - 1)' = 0
      BY <2>2
    <3>2. (BalancedBoundary(part - 1))' = (LeafCount \div p) * 0 + Smaller(LeafCount % p, 0)
      BY <2>1, <2>2, <3>1 DEF BalancedBoundary
    <3>3. LeafCount \div p \in Nat /\ LeafCount % p \in Nat
      BY <2>1, <2>2
    <3> QED
      BY <3>2, <3>3 DEF Smaller
  <2>7. Placed'
    BY <2>1, <2>2, <2>3, <2>5, <2>6 DEF Placed
  <2>8. Sound'
    BY <1>1 DEF Begin, PlanInv, Sound
  <2>9. parts' \in Nat /\ 2 <= parts'
    BY <2>1, <2>2
  <2> QED
    BY <2>2, <2>4, <2>7, <2>8, <2>9 DEF PlanInv
<1>2. CASE Interval
  <2>1. UNCHANGED <<source, parts, slack, boundary, part>> /\ step = "interval"
    BY <1>2 DEF Interval
  <2>2. Sound /\ Settings /\ Placed /\ part < parts /\ LeafCount \in Nat
    BY <2>1 DEF PlanInv
  <2>3. Lowest \in Nat /\ Highest \in Nat /\ Lowest <= Highest
    BY <2>2, IntervalBounds
  <2>4. window' = Lowest .. Highest /\ node' = 0 /\ depth' = 0 /\ step' = "descend"
    BY <1>2, <2>3 DEF Interval
  <2>5. Descending'
    <3>1. /\ (ExtremeLeaf(node, depth, FALSE))' = ExtremeLeaf(0, 0, FALSE)
          /\ (ExtremeLeaf(node, depth, TRUE))' = ExtremeLeaf(0, 0, TRUE)
      BY <2>1, <2>4 DEF ExtremeLeaf
    <3>2. (depth \in 0 .. Deep(source))' /\ (At(source, depth, node))'
      BY <2>1, <2>2, <2>4, RootHolds
    <3>3. (\A b \in window : ExtremeLeaf(node, depth, FALSE) < b /\ b <= ExtremeLeaf(node, depth, TRUE))'
      BY <2>2, <2>4, <3>1, RootHolds
    <3>4. Lowest' = Lowest /\ Highest' = Highest
      BY <2>1, ShallowKept
    <3> QED
      BY <2>3, <2>4, <3>2, <3>3, <3>4 DEF Descending
  <2> QED
    BY <2>1, <2>2, <2>4, <2>5, ShallowKept DEF PlanInv
<1>3. CASE Place
  <2>1. PICK b \in Candidates : Nearest(b, BalancedBoundary(part)) /\ boundary' = [boundary EXCEPT ![part] = b]
    BY <1>3 DEF Place
  <2>2. /\ step = "descend" /\ part' = part + 1 /\ UNCHANGED <<source, parts, slack>>
        /\ step' = IF part + 1 = parts THEN "planned" ELSE "interval"
    BY <1>3 DEF Place
  <2>3. Sound /\ Settings /\ Placed /\ part < parts /\ LeafCount \in Nat /\ Descending
    BY <2>2 DEF PlanInv
  <2>4. Settings' /\ Placed'
    BY <2>1, <2>2, <2>3, PlaceKeeps DEF Descending
  <2>5. LeafCount' = LeafCount /\ Sound'
    BY <2>2, <2>3 DEF LeafCount, Sound
  <2>6. part \in Nat /\ part > 0 /\ part \in 1 .. parts /\ parts \in Nat
    BY <2>3 DEF Settings
  <2>7. (Shallow(part - 1))'
    <3>1. Shallowest(b, Lowest, Highest, BalancedBoundary(part))
      BY <2>1, <2>3, CandidateShallowest
    <3>2. /\ Lowest = Larger(BalancedBoundary(part) - slack, boundary[part - 1] + 1)
          /\ Highest = Smaller(BalancedBoundary(part) + slack, LeafCount - (parts - part))
      BY <2>3, IntervalIs
    <3>3. part' - 1 = part /\ boundary'[part] = b /\ boundary'[part - 1] = boundary[part - 1]
      BY <2>1, <2>2, <2>3, <2>6 DEF Settings
    <3>4. (BalancedBoundary(part - 1))' = BalancedBoundary(part)
      BY <2>2, <3>3 DEF BalancedBoundary, LeafCount
    <3>5. \A c : (LcaDepth(c))' = LcaDepth(c)
      BY <2>2 DEF LcaDepth
    <3>6. /\ (Larger(BalancedBoundary(part - 1) - slack, boundary[part - 1 - 1] + 1))' = Lowest
          /\ (Smaller(BalancedBoundary(part - 1) + slack, LeafCount - (parts - (part - 1))))' = Highest
      BY <2>2, <2>5, <3>2, <3>3, <3>4
    <3>7. (Shallowest(boundary[part - 1], Larger(BalancedBoundary(part - 1) - slack, boundary[part - 1 - 1] + 1),
                      Smaller(BalancedBoundary(part - 1) + slack, LeafCount - (parts - (part - 1))),
                      BalancedBoundary(part - 1)))'
      BY <3>1, <3>3, <3>4, <3>5, <3>6 DEF Shallowest
    <3> QED
      BY <3>7 DEF Shallow
  <2>8. part + 1 # parts => part' < parts'
    BY <2>2, <2>3, <2>6
  <2> QED
    BY <2>2, <2>4, <2>5, <2>6, <2>7, <2>8 DEF PlanInv
<1>4. CASE Narrow
  <2>1. UNCHANGED <<source, parts, slack, boundary, part>> /\ step = "descend"
    BY <1>4 DEF Narrow
  <2>2. Sound /\ Settings /\ Placed /\ part < parts /\ LeafCount \in Nat /\ Descending
    BY <2>1 DEF PlanInv
  <2>3. depth < Deep(source) /\ Candidates = {} /\ Holding # {}
    BY <1>4, <2>2, NotLeaf, NarrowKeeps DEF Narrow
  <2>4. PICK c \in Holding : (\A d \in Holding : c <= d) /\ node' = c /\ depth' = depth + 1 /\ window' = Nested(c)
    BY <1>4, <2>3 DEF Narrow
  <2>5. step' = "descend"
    BY <1>4, <2>1, <2>3 DEF Narrow
  <2>6. c \in Children /\ window' = window /\ window = Lowest .. Highest
    BY <2>2, <2>3, <2>4, NarrowKeeps DEF Holding, Descending
  <2>7. Descending'
    <3>1. /\ (ExtremeLeaf(node, depth, FALSE))' = ExtremeLeaf(c, depth + 1, FALSE)
          /\ (ExtremeLeaf(node, depth, TRUE))' = ExtremeLeaf(c, depth + 1, TRUE)
      BY <2>1, <2>4 DEF ExtremeLeaf
    <3>2. (depth \in 0 .. Deep(source))' /\ (At(source, depth, node))'
      BY <2>1, <2>2, <2>4, <2>6, ChildrenAre
    <3>3. (\A b \in window : ExtremeLeaf(node, depth, FALSE) < b /\ b <= ExtremeLeaf(node, depth, TRUE))'
      BY <2>4, <3>1 DEF Nested
    <3>4. Lowest' = Lowest /\ Highest' = Highest
      BY <2>1, ShallowKept
    <3>5. Lowest \in Nat /\ Highest \in Nat /\ Lowest <= Highest
      BY <2>2 DEF Descending
    <3> QED
      BY <2>6, <3>2, <3>3, <3>4, <3>5 DEF Descending
  <2> QED
    BY <2>1, <2>2, <2>5, <2>7, ShallowKept DEF PlanInv
<1>5. CASE UNCHANGED planVars
  <2>1. UNCHANGED <<source, parts, slack, boundary, part>> /\ UNCHANGED <<step, node, depth, window>>
    BY <1>5 DEF planVars
  <2>2. Descending' = Descending
    BY <2>1, ShallowKept DEF Descending, ExtremeLeaf
  <2> QED
    BY <2>1, <2>2, ShallowKept DEF PlanInv
<1> QED
  BY <1>1, <1>2, <1>3, <1>4, <1>5 DEF PlanNext

\* Every reachable state of the planner satisfies the inductive invariant.
THEOREM PlanInvariance == PlanSpec => []PlanInv
BY PlanInitInv, PlanStepInv, PTL DEF PlanSpec

\* The interval that make_plan searches is never empty, whatever the slack: its first
\* exception cannot be thrown.
THEOREM IntervalOpen == PlanSpec => [](step = "interval" => Lowest <= Highest)
<1>1. PlanInv => (step = "interval" => Lowest <= Highest)
  BY IntervalBounds DEF PlanInv
<1> QED
  BY <1>1, PlanInvariance, PTL

\* The descent by intervals finds what it looks for: at every boundary the planner has
\* placed, the interval holds no boundary with a shallower common ancestor and none as
\* shallow and nearer to the ideal; neither exception of the search can be thrown.
THEOREM PlanShallowest == PlanSpec => []PlanShallow
<1>1. PlanInv => PlanShallow
  BY DEF PlanInv, PlanShallow, Shallow, Shallowest
<1> QED
  BY <1>1, PlanInvariance, PTL

\* The parts of a plan are nonempty and disjoint and hold every leaf, of the tree that
\* was planned over and of the tree expanded by a row.
THEOREM DivisionCorrect == PlanSpec => []PlanDivides
<1>1. PlanInv => PlanDivides
  <2> SUFFICES ASSUME PlanInv, step = "planned", NEW e \in {1, 4}
               PROVE  /\ \A k \in 0 .. (parts - 1) : Admitted(k, e) # {}
                      /\ \A x \in 0 .. (e * LeafCount - 1) :
                           \E k \in 0 .. (parts - 1) : x \in Admitted(k, e)
                      /\ \A j, k \in 0 .. (parts - 1) :
                           j # k => Admitted(j, e) \cap Admitted(k, e) = {}
    BY DEF PlanDivides
  <2>1. /\ parts \in Nat /\ 2 <= parts /\ part = parts
        /\ boundary \in [0 .. parts -> Nat] /\ boundary[parts] = LeafCount /\ LeafCount \in Nat
    BY DEF PlanInv, Settings
  <2>2. \A j, k \in 0 .. parts : j < k => boundary[j] < boundary[k]
    <3>1. boundary[parts - 1] < boundary[parts]
      BY <2>1 DEF PlanInv, Placed
    <3>2. \A j, k \in 0 .. (parts - 1) : j < k => boundary[j] < boundary[k]
      BY <2>1 DEF PlanInv, Placed
    <3>3. \A j \in 0 .. (parts - 1) : boundary[j] <= boundary[parts - 1]
      <4> SUFFICES ASSUME NEW j \in 0 .. (parts - 1) PROVE boundary[j] <= boundary[parts - 1]
        OBVIOUS
      <4>1. CASE j = parts - 1
        BY <2>1, <4>1
      <4>2. CASE j < parts - 1
        BY <2>1, <3>2, <4>2
      <4> QED
        BY <2>1, <4>1, <4>2
    <3> QED
      BY <2>1, <3>1, <3>2, <3>3
  <2>3. \A y \in Nat : y < LeafCount =>
          \E k \in 0 .. (parts - 1) : boundary[k] <= y /\ y < boundary[k + 1]
    <3> SUFFICES ASSUME NEW y \in Nat, y < LeafCount
                 PROVE  \E k \in 0 .. (parts - 1) : boundary[k] <= y /\ y < boundary[k + 1]
      OBVIOUS
    <3>1. CASE y < boundary[parts - 1]
      <4>1. PICK k \in 0 .. (parts - 2) : boundary[k] <= y /\ y < boundary[k + 1]
        BY <2>1, <3>1 DEF PlanInv, Placed
      <4> QED
        BY <2>1, <4>1
    <3>2. CASE boundary[parts - 1] <= y
      BY <2>1, <3>2
    <3> QED
      BY <2>1, <3>1, <3>2
  <2>4. ASSUME NEW k \in 0 .. (parts - 1) PROVE Admitted(k, e) # {}
    <3>1. boundary[k] \in Nat /\ boundary[k + 1] \in Nat /\ boundary[k] < boundary[k + 1]
      BY <2>1, <2>2
    <3>2. e * boundary[k] \in Admitted(k, e)
      BY <3>1 DEF Admitted
    <3> QED
      BY <3>2
  <2>5. ASSUME NEW x \in 0 .. (e * LeafCount - 1)
        PROVE  \E k \in 0 .. (parts - 1) : x \in Admitted(k, e)
    <3>1. PICK y \in Nat : e * y <= x /\ x <= e * y + (e - 1)
      <4>1. CASE e = 1
        BY <2>1, <4>1
      <4>2. CASE e = 4
        <5>1. x \in Nat /\ x \div 4 \in Nat /\ 4 * (x \div 4) <= x /\ x <= 4 * (x \div 4) + 3
          BY <2>1, <4>2
        <5> QED
          BY <4>2, <5>1
      <4> QED
        BY <4>1, <4>2
    <3>2. y < LeafCount
      BY <2>1, <3>1
    <3>3. PICK k \in 0 .. (parts - 1) : boundary[k] <= y /\ y < boundary[k + 1]
      BY <2>3, <3>2
    <3>4. boundary[k] \in Nat /\ boundary[k + 1] \in Nat
      BY <2>1
    <3>5. x \in Admitted(k, e)
      BY <2>1, <3>1, <3>3, <3>4 DEF Admitted
    <3> QED
      BY <3>5
  <2>6. ASSUME NEW j \in 0 .. (parts - 1), NEW k \in 0 .. (parts - 1), j < k
        PROVE  Admitted(j, e) \cap Admitted(k, e) = {}
    <3>1. /\ boundary[j + 1] \in Nat /\ boundary[k] \in Nat /\ boundary[j + 1] <= boundary[k]
          /\ boundary[j] \in Nat /\ boundary[k + 1] \in Nat
      BY <2>1, <2>2, <2>6
    <3> QED
      BY <3>1 DEF Admitted
  <2>7. \A j, k \in 0 .. (parts - 1) : j # k => Admitted(j, e) \cap Admitted(k, e) = {}
    <3> SUFFICES ASSUME NEW j \in 0 .. (parts - 1), NEW k \in 0 .. (parts - 1), j # k
                 PROVE  Admitted(j, e) \cap Admitted(k, e) = {}
      OBVIOUS
    <3>1. j < k \/ k < j
      BY <2>1
    <3> QED
      BY <2>6, <3>1
  <2> QED
    BY <2>4, <2>5, <2>7
<1> QED
  BY <1>1, PlanInvariance, PTL
=============================================================================
