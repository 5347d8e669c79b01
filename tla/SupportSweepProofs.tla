------------------------- MODULE SupportSweepProofs -------------------------
(***************************************************************************)
(* The sweep computes what it should for every number of slices, every set *)
(* of leaves and every row.  The invariant says that a plane that is       *)
(* finished marks exactly the leaves with a partial row to that boundary;  *)
(* the plane being written follows from its visited edges.  Each step of   *)
(* the sweep extends partial rows by one slice, so the proof needs no      *)
(* induction over slices: the sweep is the induction.                      *)
(***************************************************************************)
EXTENDS PartialBoard, TLAPS

\* x begins a partial row of slices i..N that the right boundary accepts, and
\* one that is interesting somewhere.
RightRow(c, i, x) ==
  \E p \in Row : p[i] = x /\ p[N] \in c.rightEdge /\ Joins(c, p, i, N)
RightWitness(c, i, x) ==
  \E p \in Row : /\ p[i] = x /\ p[N] \in c.rightEdge /\ Joins(c, p, i, N)
                 /\ \E k \in i .. N : p[k] \in c.interesting[k]

\* x ends a partial row of slices 1..i that the left boundary accepts.
LeftRow(c, i, x) ==
  \E p \in Row : p[i] = x /\ p[1] \in c.leftEdge /\ Joins(c, p, 1, i)
LeftWitness(c, i, x) ==
  \E p \in Row : /\ p[i] = x /\ p[1] \in c.leftEdge /\ Joins(c, p, 1, i)
                 /\ \E k \in 1 .. i : p[k] \in c.interesting[k]

-----------------------------------------------------------------------------
\* At the right boundary a partial row is a single leaf.
LEMMA RightEnd ==
  ASSUME NEW c \in Input, NEW x \in Leaf
  PROVE  /\ RightRow(c, N, x) <=> x \in c.rightEdge /\ x \in c.allowed[N]
         /\ RightWitness(c, N, x) <=> RightRow(c, N, x) /\ x \in c.interesting[N]
<1> DEFINE q == [k \in Slice |-> x]
<1>1. q \in Row /\ N \in Slice /\ q[N] = x
  BY SweepAssumption DEF Row, Slice
<1>2. \A k \in N .. N : k = N
  BY SweepAssumption
<1>3. \A k \in N .. (N - 1) : FALSE
  BY SweepAssumption
<1>4. x \in c.allowed[N] => Joins(c, q, N, N)
  BY <1>1, <1>2, <1>3 DEF Joins
<1>5. N \in N .. N
  BY SweepAssumption
<1> HIDE DEF q
<1>6. QED
  BY <1>1, <1>2, <1>3, <1>4, <1>5 DEF RightRow, RightWitness, Joins

\* A partial row to the right extends by one slice on its left.
LEMMA RightStep ==
  ASSUME NEW c \in Input, NEW i \in Relation, NEW x \in Leaf
  PROVE  /\ RightRow(c, i, x) <=>
              /\ x \in c.allowed[i]
              /\ \E y \in Leaf : <<x, y>> \in c.edge[i] /\ RightRow(c, i + 1, y)
         /\ RightWitness(c, i, x) <=>
              /\ RightRow(c, i, x)
              /\ \/ x \in c.interesting[i]
                 \/ \E y \in Leaf : <<x, y>> \in c.edge[i] /\ RightWitness(c, i + 1, y)
<1>1. /\ i \in Slice /\ (i + 1) \in Slice /\ i # N /\ i + 1 <= N /\ i \in Nat /\ N \in Nat
      /\ N \in Slice
  BY SweepAssumption DEF Relation, Slice
<1>2. \A k : k \in i .. N <=> k = i \/ k \in (i + 1) .. N
  BY <1>1
<1>3. \A k : k \in i .. (N - 1) <=> k = i \/ k \in (i + 1) .. (N - 1)
  BY <1>1
<1>4. ASSUME NEW p \in Row, Joins(c, p, i, N), p[i] = x
      PROVE  /\ x \in c.allowed[i] /\ p[i + 1] \in Leaf /\ <<x, p[i + 1]>> \in c.edge[i]
             /\ Joins(c, p, i + 1, N)
  BY <1>1, <1>2, <1>3, <1>4 DEF Joins, Row
<1>5. ASSUME NEW p \in Row, Joins(c, p, i + 1, N), x \in c.allowed[i],
             <<x, p[i + 1]>> \in c.edge[i]
      PROVE  \E q \in Row : /\ q[i] = x /\ Joins(c, q, i, N) /\ q[N] = p[N]
                            /\ \A k \in (i + 1) .. N : q[k] = p[k]
  <2> DEFINE q == [p EXCEPT ![i] = x]
  <2>1. q \in Row /\ q[i] = x /\ q[N] = p[N]
    BY <1>1 DEF Row
  <2>2. \A k \in (i + 1) .. N : k \in Slice /\ k # i /\ q[k] = p[k]
    BY <1>1 DEF Row, Slice
  <2>3. \A k \in i .. N : q[k] \in c.allowed[k]
    BY <1>2, <1>5, <2>1, <2>2 DEF Joins
  <2>4. \A k \in (i + 1) .. (N - 1) : k \in (i + 1) .. N /\ (k + 1) \in (i + 1) .. N
    BY <1>1
  <2>5. (i + 1) \in (i + 1) .. N
    BY <1>1
  <2> HIDE DEF q
  <2>6. \A k \in i .. (N - 1) : <<q[k], q[k + 1]>> \in c.edge[k]
    BY <1>3, <1>5, <2>1, <2>2, <2>4, <2>5 DEF Joins
  <2>7. QED
    BY <2>1, <2>2, <2>3, <2>6 DEF Joins
<1>6. RightRow(c, i, x) <=>
        /\ x \in c.allowed[i]
        /\ \E y \in Leaf : <<x, y>> \in c.edge[i] /\ RightRow(c, i + 1, y)
  BY <1>1, <1>4, <1>5 DEF RightRow, Row
<1>7. ASSUME RightWitness(c, i, x)
      PROVE  /\ RightRow(c, i, x)
             /\ \/ x \in c.interesting[i]
                \/ \E y \in Leaf : <<x, y>> \in c.edge[i] /\ RightWitness(c, i + 1, y)
  <2>1. PICK p \in Row : /\ p[i] = x /\ p[N] \in c.rightEdge /\ Joins(c, p, i, N)
                         /\ \E k \in i .. N : p[k] \in c.interesting[k]
    BY <1>7 DEF RightWitness
  <2>2. QED
    BY <2>1, <1>2, <1>4 DEF RightWitness, RightRow
<1>8. ASSUME RightRow(c, i, x), x \in c.interesting[i]
      PROVE  RightWitness(c, i, x)
  BY <1>1, <1>2, <1>8 DEF RightWitness, RightRow
<1>9. ASSUME RightRow(c, i, x), NEW y \in Leaf, <<x, y>> \in c.edge[i], RightWitness(c, i + 1, y)
      PROVE  RightWitness(c, i, x)
  <2>1. PICK p \in Row : /\ p[i + 1] = y /\ p[N] \in c.rightEdge /\ Joins(c, p, i + 1, N)
                         /\ \E k \in (i + 1) .. N : p[k] \in c.interesting[k]
    BY <1>9 DEF RightWitness
  <2>2. x \in c.allowed[i]
    BY <1>6, <1>9
  <2>3. PICK q \in Row : /\ q[i] = x /\ Joins(c, q, i, N) /\ q[N] = p[N]
                         /\ \A k \in (i + 1) .. N : q[k] = p[k]
    BY <1>5, <1>9, <2>1, <2>2
  <2>4. QED
    BY <1>2, <2>1, <2>3 DEF RightWitness
<1>10. QED
  BY <1>6, <1>7, <1>8, <1>9

\* At the left boundary a partial row is a single leaf.
LEMMA LeftEnd ==
  ASSUME NEW c \in Input, NEW x \in Leaf
  PROVE  /\ LeftRow(c, 1, x) <=> x \in c.leftEdge /\ x \in c.allowed[1]
         /\ LeftWitness(c, 1, x) <=> LeftRow(c, 1, x) /\ x \in c.interesting[1]
<1> DEFINE q == [k \in Slice |-> x]
<1>1. q \in Row /\ 1 \in Slice /\ q[1] = x
  BY SweepAssumption DEF Row, Slice
<1>2. \A k \in 1 .. 1 : k = 1
  OBVIOUS
<1>3. \A k \in 1 .. (1 - 1) : FALSE
  OBVIOUS
<1>4. x \in c.allowed[1] => Joins(c, q, 1, 1)
  BY <1>1, <1>2, <1>3 DEF Joins
<1>5. 1 \in 1 .. 1
  OBVIOUS
<1> HIDE DEF q
<1>6. QED
  BY <1>1, <1>2, <1>3, <1>4, <1>5 DEF LeftRow, LeftWitness, Joins

\* A partial row to the left extends by one slice on its right.
LEMMA LeftStep ==
  ASSUME NEW c \in Input, NEW i \in Relation, NEW y \in Leaf
  PROVE  /\ LeftRow(c, i + 1, y) <=>
              /\ y \in c.allowed[i + 1]
              /\ \E x \in Leaf : <<x, y>> \in c.edge[i] /\ LeftRow(c, i, x)
         /\ LeftWitness(c, i + 1, y) <=>
              /\ LeftRow(c, i + 1, y)
              /\ \/ y \in c.interesting[i + 1]
                 \/ \E x \in Leaf : <<x, y>> \in c.edge[i] /\ LeftWitness(c, i, x)
<1>1. /\ i \in Slice /\ (i + 1) \in Slice /\ i + 1 # 1 /\ 1 <= i /\ i \in Nat /\ N \in Nat
      /\ 1 \in Slice
  BY SweepAssumption DEF Relation, Slice
<1>2. \A k : k \in 1 .. (i + 1) <=> k = i + 1 \/ k \in 1 .. i
  BY <1>1
<1>3. \A k : k \in 1 .. ((i + 1) - 1) <=> k = i \/ k \in 1 .. (i - 1)
  BY <1>1
<1>4. ASSUME NEW p \in Row, Joins(c, p, 1, i + 1), p[i + 1] = y
      PROVE  /\ y \in c.allowed[i + 1] /\ p[i] \in Leaf /\ <<p[i], y>> \in c.edge[i]
             /\ Joins(c, p, 1, i)
  BY <1>1, <1>2, <1>3, <1>4 DEF Joins, Row
<1>5. ASSUME NEW p \in Row, Joins(c, p, 1, i), y \in c.allowed[i + 1],
             <<p[i], y>> \in c.edge[i]
      PROVE  \E q \in Row : /\ q[i + 1] = y /\ Joins(c, q, 1, i + 1) /\ q[1] = p[1]
                            /\ \A k \in 1 .. i : q[k] = p[k]
  <2> DEFINE q == [p EXCEPT ![i + 1] = y]
  <2>1. q \in Row /\ q[i + 1] = y /\ q[1] = p[1]
    BY <1>1 DEF Row
  <2>2. \A k \in 1 .. i : k \in Slice /\ k # i + 1 /\ q[k] = p[k]
    BY <1>1 DEF Row, Slice
  <2>3. \A k \in 1 .. (i + 1) : q[k] \in c.allowed[k]
    BY <1>2, <1>5, <2>1, <2>2 DEF Joins
  <2>4. \A k \in 1 .. (i - 1) : k \in 1 .. i /\ (k + 1) \in 1 .. i
    BY <1>1
  <2>5. i \in 1 .. i
    BY <1>1
  <2> HIDE DEF q
  <2>6. \A k \in 1 .. ((i + 1) - 1) : <<q[k], q[k + 1]>> \in c.edge[k]
    BY <1>3, <1>5, <2>1, <2>2, <2>4, <2>5 DEF Joins
  <2>7. QED
    BY <2>1, <2>2, <2>3, <2>6 DEF Joins
<1>6. LeftRow(c, i + 1, y) <=>
        /\ y \in c.allowed[i + 1]
        /\ \E x \in Leaf : <<x, y>> \in c.edge[i] /\ LeftRow(c, i, x)
  BY <1>1, <1>4, <1>5 DEF LeftRow, Row
<1>7. ASSUME LeftWitness(c, i + 1, y)
      PROVE  /\ LeftRow(c, i + 1, y)
             /\ \/ y \in c.interesting[i + 1]
                \/ \E x \in Leaf : <<x, y>> \in c.edge[i] /\ LeftWitness(c, i, x)
  <2>1. PICK p \in Row : /\ p[i + 1] = y /\ p[1] \in c.leftEdge /\ Joins(c, p, 1, i + 1)
                         /\ \E k \in 1 .. (i + 1) : p[k] \in c.interesting[k]
    BY <1>7 DEF LeftWitness
  <2>2. QED
    BY <2>1, <1>2, <1>4 DEF LeftWitness, LeftRow
<1>8. ASSUME LeftRow(c, i + 1, y), y \in c.interesting[i + 1]
      PROVE  LeftWitness(c, i + 1, y)
  BY <1>1, <1>2, <1>8 DEF LeftWitness, LeftRow
<1>9. ASSUME LeftRow(c, i + 1, y), NEW x \in Leaf, <<x, y>> \in c.edge[i], LeftWitness(c, i, x)
      PROVE  LeftWitness(c, i + 1, y)
  <2>1. PICK p \in Row : /\ p[i] = x /\ p[1] \in c.leftEdge /\ Joins(c, p, 1, i)
                         /\ \E k \in 1 .. i : p[k] \in c.interesting[k]
    BY <1>9 DEF LeftWitness
  <2>2. y \in c.allowed[i + 1]
    BY <1>6, <1>9
  <2>3. PICK q \in Row : /\ q[i + 1] = y /\ Joins(c, q, 1, i + 1) /\ q[1] = p[1]
                         /\ \A k \in 1 .. i : q[k] = p[k]
    BY <1>5, <1>9, <2>1, <2>2
  <2>4. QED
    BY <1>2, <2>1, <2>3 DEF LeftWitness
<1>10. QED
  BY <1>6, <1>7, <1>8, <1>9

\* The edge between slices i and i+1 joins a left and a right partial row: it is a
\* step of a surviving row exactly when one of the two is interesting somewhere.
LEMMA EdgeOnRow ==
  ASSUME NEW c \in Input, NEW i \in Relation, NEW x \in Leaf, NEW y \in Leaf
  PROVE  (\E p \in Surviving(c) : p[i] = x /\ p[i + 1] = y) <=>
           /\ <<x, y>> \in c.edge[i] /\ LeftRow(c, i, x) /\ RightRow(c, i + 1, y)
           /\ c.bcaf => LeftWitness(c, i, x) \/ RightWitness(c, i + 1, y)
<1>1. /\ i \in Slice /\ (i + 1) \in Slice /\ 1 <= i /\ i + 1 <= N /\ i \in Nat /\ N \in Nat
      /\ 1 \in Slice /\ N \in Slice
  BY SweepAssumption DEF Relation, Slice
<1>2. \A k : k \in Slice <=> k \in 1 .. i \/ k \in (i + 1) .. N
  BY <1>1 DEF Slice
<1>3. \A k : k \in Relation <=> k = i \/ k \in 1 .. (i - 1) \/ k \in (i + 1) .. (N - 1)
  BY <1>1 DEF Relation
<1>4. ASSUME NEW p \in Surviving(c), p[i] = x, p[i + 1] = y
      PROVE  /\ <<x, y>> \in c.edge[i] /\ LeftRow(c, i, x) /\ RightRow(c, i + 1, y)
             /\ c.bcaf => LeftWitness(c, i, x) \/ RightWitness(c, i + 1, y)
  <2>1. /\ p \in Row /\ p[1] \in c.leftEdge /\ p[N] \in c.rightEdge /\ Joins(c, p, 1, N)
        /\ c.bcaf => \E k \in Slice : p[k] \in c.interesting[k]
    BY DEF Surviving, Complete
  <2>2. /\ \A k \in Slice : p[k] \in c.allowed[k]
        /\ \A k \in Relation : <<p[k], p[k + 1]>> \in c.edge[k]
    BY <2>1 DEF Joins, Slice, Relation
  <2>3. Joins(c, p, 1, i) /\ Joins(c, p, i + 1, N)
    BY <1>2, <1>3, <2>2 DEF Joins
  <2>4. QED
    BY <1>2, <1>3, <1>4, <2>1, <2>2, <2>3 DEF LeftRow, RightRow, LeftWitness, RightWitness
<1>5. ASSUME NEW l \in Row, l[i] = x, l[1] \in c.leftEdge, Joins(c, l, 1, i),
             NEW r \in Row, r[i + 1] = y, r[N] \in c.rightEdge, Joins(c, r, i + 1, N),
             <<x, y>> \in c.edge[i],
             c.bcaf => \/ \E k \in 1 .. i : l[k] \in c.interesting[k]
                       \/ \E k \in (i + 1) .. N : r[k] \in c.interesting[k]
      PROVE  \E p \in Surviving(c) : p[i] = x /\ p[i + 1] = y
  <2> DEFINE p == [k \in Slice |-> IF k <= i THEN l[k] ELSE r[k]]
  <2>1. p \in Row
    BY DEF Row
  <2>2. /\ \A k \in 1 .. i : k \in Slice /\ p[k] = l[k]
        /\ \A k \in (i + 1) .. N : k \in Slice /\ p[k] = r[k]
    BY <1>1 DEF Slice
  <2>3. 1 \in 1 .. i /\ i \in 1 .. i /\ N \in (i + 1) .. N /\ (i + 1) \in (i + 1) .. N
    BY <1>1
  <2> HIDE DEF p
  <2>4. \A k \in Slice : p[k] \in c.allowed[k]
    BY <1>2, <1>5, <2>2 DEF Joins
  <2>5. /\ \A k \in 1 .. (i - 1) : k \in 1 .. i /\ (k + 1) \in 1 .. i
        /\ \A k \in (i + 1) .. (N - 1) : k \in (i + 1) .. N /\ (k + 1) \in (i + 1) .. N
    BY <1>1
  <2>6. \A k \in Relation : <<p[k], p[k + 1]>> \in c.edge[k]
    BY <1>3, <1>5, <2>2, <2>3, <2>5 DEF Joins
  <2>7. p[1] \in c.leftEdge /\ p[N] \in c.rightEdge /\ p[i] = x /\ p[i + 1] = y
    BY <1>5, <2>2, <2>3
  <2>8. c.bcaf => \E k \in Slice : p[k] \in c.interesting[k]
    BY <1>5, <2>2
  <2>9. Joins(c, p, 1, N)
    BY <2>4, <2>6 DEF Joins, Slice, Relation
  <2>10. QED
    BY <2>1, <2>7, <2>8, <2>9 DEF Surviving, Complete
<1>6. ASSUME <<x, y>> \in c.edge[i], LeftRow(c, i, x), RightRow(c, i + 1, y), ~c.bcaf
      PROVE  \E p \in Surviving(c) : p[i] = x /\ p[i + 1] = y
  BY <1>5, <1>6 DEF LeftRow, RightRow
<1>7. ASSUME <<x, y>> \in c.edge[i], LeftWitness(c, i, x), RightRow(c, i + 1, y)
      PROVE  \E p \in Surviving(c) : p[i] = x /\ p[i + 1] = y
  BY <1>5, <1>7 DEF LeftWitness, RightRow
<1>8. ASSUME <<x, y>> \in c.edge[i], LeftRow(c, i, x), RightWitness(c, i + 1, y)
      PROVE  \E p \in Surviving(c) : p[i] = x /\ p[i + 1] = y
  BY <1>5, <1>8 DEF LeftRow, RightWitness
<1>9. QED
  BY <1>4, <1>6, <1>7, <1>8

\* A leaf is on a surviving row exactly when partial rows to both sides meet in it
\* and one of them is interesting somewhere: the retention formula.
LEMMA LeafOnRow ==
  ASSUME NEW c \in Input, NEW i \in Slice, NEW x \in Leaf
  PROVE  (\E p \in Surviving(c) : p[i] = x) <=>
           /\ LeftRow(c, i, x) /\ RightRow(c, i, x)
           /\ c.bcaf => LeftWitness(c, i, x) \/ RightWitness(c, i, x)
<1>1. i \in Nat /\ N \in Nat /\ 1 <= i /\ i <= N /\ N > 1
  BY SweepAssumption DEF Slice
<1>2. \A p \in Surviving(c) : \A k \in Slice : p[k] \in Leaf
  BY DEF Surviving, Complete, Row
<1>3. CASE i \in Relation
  <2>1. (\E p \in Surviving(c) : p[i] = x) <=>
          \E y \in Leaf : \E p \in Surviving(c) : p[i] = x /\ p[i + 1] = y
    BY <1>1, <1>2, <1>3 DEF Slice, Relation
  <2>2. (\E p \in Surviving(c) : p[i] = x) <=>
          \E y \in Leaf : /\ <<x, y>> \in c.edge[i] /\ LeftRow(c, i, x) /\ RightRow(c, i + 1, y)
                          /\ c.bcaf => LeftWitness(c, i, x) \/ RightWitness(c, i + 1, y)
    <3>1. \A y \in Leaf :
            (\E p \in Surviving(c) : p[i] = x /\ p[i + 1] = y) <=>
              /\ <<x, y>> \in c.edge[i] /\ LeftRow(c, i, x) /\ RightRow(c, i + 1, y)
              /\ c.bcaf => LeftWitness(c, i, x) \/ RightWitness(c, i + 1, y)
      BY <1>3, EdgeOnRow
    <3>2. QED
      BY <2>1, <3>1, Zenon
  <2>3. LeftRow(c, i, x) => x \in c.allowed[i]
    BY <1>1 DEF LeftRow, Joins
  <2>4. x \in c.interesting[i] /\ LeftRow(c, i, x) => LeftWitness(c, i, x)
    BY <1>1 DEF LeftRow, LeftWitness
  <2>5. \A y \in Leaf : RightWitness(c, i + 1, y) => RightRow(c, i + 1, y)
    BY DEF RightRow, RightWitness
  <2>6. QED
    BY <2>2, <2>3, <2>4, <2>5, <1>3, RightStep
<1>4. CASE i = N
  <2>1. N - 1 \in Relation /\ (N - 1) + 1 = N /\ N - 1 \in Slice
    BY <1>1 DEF Relation, Slice
  <2>2. (\E p \in Surviving(c) : p[N] = x) <=>
          \E w \in Leaf : \E p \in Surviving(c) : p[N - 1] = w /\ p[N] = x
    BY <1>2, <2>1
  <2>3. (\E p \in Surviving(c) : p[N] = x) <=>
          \E w \in Leaf : /\ <<w, x>> \in c.edge[N - 1] /\ LeftRow(c, N - 1, w) /\ RightRow(c, N, x)
                          /\ c.bcaf => LeftWitness(c, N - 1, w) \/ RightWitness(c, N, x)
    <3>1. \A w \in Leaf :
            (\E p \in Surviving(c) : p[N - 1] = w /\ p[N] = x) <=>
              /\ <<w, x>> \in c.edge[N - 1] /\ LeftRow(c, N - 1, w) /\ RightRow(c, N, x)
              /\ c.bcaf => LeftWitness(c, N - 1, w) \/ RightWitness(c, N, x)
      <4>1. TAKE w \in Leaf
      <4>2. (\E p \in Surviving(c) : p[N - 1] = w /\ p[(N - 1) + 1] = x) <=>
              /\ <<w, x>> \in c.edge[N - 1] /\ LeftRow(c, N - 1, w)
              /\ RightRow(c, (N - 1) + 1, x)
              /\ c.bcaf => LeftWitness(c, N - 1, w) \/ RightWitness(c, (N - 1) + 1, x)
        BY <2>1, EdgeOnRow
      <4>3. QED
        BY <2>1, <4>2
    <3>2. QED
      BY <2>2, <3>1, Zenon
  <2>4. \A w \in Leaf : LeftWitness(c, N - 1, w) => LeftRow(c, N - 1, w)
    BY DEF LeftRow, LeftWitness
  <2>5. /\ LeftRow(c, N, x) <=>
             /\ x \in c.allowed[N]
             /\ \E w \in Leaf : <<w, x>> \in c.edge[N - 1] /\ LeftRow(c, N - 1, w)
        /\ LeftWitness(c, N, x) <=>
             /\ LeftRow(c, N, x)
             /\ \/ x \in c.interesting[N]
                \/ \E w \in Leaf : <<w, x>> \in c.edge[N - 1] /\ LeftWitness(c, N - 1, w)
    BY <2>1, LeftStep
  <2>6. QED
    BY <1>4, <2>3, <2>4, <2>5, RightEnd
<1>5. QED
  BY <1>1, <1>3, <1>4 DEF Slice, Relation

-----------------------------------------------------------------------------
\* The planes of slice j, and the gate of relation j, once they are finished.  A
\* witness plane is exact only where the normal planes are set: the restriction of a
\* partition is applied to those alone.
RightDone(j) ==
  \A x \in Leaf : /\ x \in R[j] <=> RightRow(in, j, x)
                  /\ x \in R[j] => (x \in S[j] <=> in.bcaf /\ RightWitness(in, j, x))
LeftDone(j) ==
  \A x \in Leaf : /\ x \in L[j] <=> LeftRow(in, j, x)
                  /\ x \in L[j] \cap R[j] => (x \in P[j] <=> in.bcaf /\ LeftWitness(in, j, x))

OnRow(j, x, y) == /\ LeftRow(in, j, x) /\ RightRow(in, j + 1, y)
                  /\ in.bcaf => LeftWitness(in, j, x) \/ RightWitness(in, j + 1, y)
GateDone(j) ==
  /\ gate[j] \subseteq in.edge[j]
  /\ \A x, y \in Leaf : <<x, y>> \in gate[j] <=> <<x, y>> \in in.edge[j] /\ OnRow(j, x, y)

\* The planes a relation is writing follow from the edges it has visited.
Visited == in.edge[at] \ todo
RightWalk ==
  \A x \in Leaf :
    /\ x \in R[at] <=> \E y \in Leaf : <<x, y>> \in Visited /\ RightRow(in, at + 1, y)
    /\ x \in S[at] <=> /\ in.bcaf
                       /\ \E y \in Leaf : <<x, y>> \in Visited /\ RightWitness(in, at + 1, y)
LeftWalk ==
  \A y \in Leaf :
    /\ y \in L[at + 1] <=> \E x \in Leaf : <<x, y>> \in Visited /\ LeftRow(in, at, x)
    /\ y \in P[at + 1] <=> /\ in.bcaf /\ RightRow(in, at + 1, y)
                           /\ \E x \in Leaf : <<x, y>> \in Visited /\ LeftWitness(in, at, x)
GateWalk ==
  /\ gate[at] \subseteq in.edge[at]
  /\ \A x, y \in Leaf : <<x, y>> \in gate[at] <=> <<x, y>> \in Visited /\ OnRow(at, x, y)

\* The captured board up to slice i: a partial row that has been interesting, or
\* that ends in a leaf which still can be.
Captured(i) ==
  in.partial =>
    /\ \A k \in 1 .. i : board[k] \in Leaf
    /\ Joins(in, board, 1, i) /\ board[1] \in in.leftEdge
    /\ LeftRow(in, i, board[i]) /\ RightRow(in, i, board[i])
    /\ ~in.bcaf \/ board[i] \in in.interesting[i] => seen
    /\ in.bcaf /\ seen => /\ LeftWitness(in, i, board[i])
                          /\ \E k \in 1 .. i : board[k] \in in.interesting[k]
    /\ in.bcaf => seen \/ RightWitness(in, i, board[i])

-----------------------------------------------------------------------------
\* The inductive invariant, one part per phase.
AtBoundary ==
  phase = "boundary" =>
    /\ at = N - 1 /\ result = "running"
    /\ L = Empty /\ R = Empty /\ P = Empty /\ S = Empty
    /\ gate = [i \in Relation |-> {}]

InRight ==
  phase = "right" =>
    /\ todo \subseteq in.edge[at] /\ result = "running"
    /\ \A j \in Slice : j > at => RightDone(j)
    /\ RightWalk
    /\ \A j \in Slice : j < at => R[j] = {} /\ S[j] = {}
    /\ L = [Empty EXCEPT ![1] = in.leftEdge] /\ P = Empty
    /\ gate = [i \in Relation |-> {}]

InLeft ==
  phase = "left" =>
    /\ todo \subseteq in.edge[at] /\ result = "running"
    /\ \A j \in Slice : RightDone(j)
    /\ \A j \in Slice : j <= at => LeftDone(j)
    /\ LeftWalk
    /\ \A j \in Slice : j > at + 1 => L[j] = {} /\ P[j] = {}
    /\ \A j \in Relation : j < at => GateDone(j)
    /\ GateWalk
    /\ \A j \in Relation : j > at => gate[j] = {}
    /\ Captured(at)

AllDone == /\ \A j \in Slice : RightDone(j) /\ LeftDone(j)
           /\ \A j \in Relation : GateDone(j)
           /\ Captured(N)

InRetain == phase = "retain" => AllDone /\ result = "running"

InDone ==
  phase = "done" =>
    /\ result \in {"supported", "exhausted"}
    /\ result = "exhausted" => Surviving(in) = {}
    /\ result = "supported" =>
         /\ AllDone
         /\ in.partial /\ in.bcaf => seen
         /\ \A i \in Slice : /\ keep[i] = Live(i, L[i], R[i], P[i], S[i])
                             /\ keep[i] # {}

IInv == TypeOK /\ AtBoundary /\ InRight /\ InLeft /\ InRetain /\ InDone

-----------------------------------------------------------------------------
\* The fields of a row's input.
LEMMA InputFields ==
  ASSUME NEW c \in Input
  PROVE  /\ c.leftEdge \subseteq Leaf /\ c.rightEdge \subseteq Leaf
         /\ c.bcaf \in BOOLEAN /\ c.partial \in BOOLEAN
         /\ \A i \in Relation : c.edge[i] \subseteq Edge
         /\ \A i \in Slice : c.interesting[i] \subseteq Leaf /\ c.allowed[i] \subseteq Leaf
BY DEF Input

\* Slices and relations are the integers the code counts through.
LEMMA Indices ==
  /\ N \in Nat /\ N > 1 /\ 1 \in Slice /\ N \in Slice /\ N - 1 \in Relation /\ 1 \in Relation
  /\ \A i \in Relation : i \in Slice /\ (i + 1) \in Slice /\ i \in Nat /\ i # i + 1
  /\ \A i \in Slice : i \in Nat /\ (i < N => i \in Relation)
BY SweepAssumption DEF Slice, Relation

LEMMA TypeInit == Init => TypeOK
<1> SUFFICES ASSUME Init PROVE TypeOK
  OBVIOUS
<1> QED
  BY Indices DEF Init, TypeOK, Empty

LEMMA TypeNext == TypeOK /\ [Next]_vars => TypeOK'
<1> SUFFICES ASSUME TypeOK, [Next]_vars PROVE TypeOK'
  OBVIOUS
<1>0. in \in Input
  BY SweepAssumption DEF TypeOK
<1> USE DEF TypeOK
<1>1. CASE MarkBoundaries
  BY <1>0, <1>1, Indices, InputFields DEF MarkBoundaries, Seed
<1>2. ASSUME NEW e \in todo, RightVisit(e) PROVE TypeOK'
  BY <1>0, <1>2, Indices, InputFields DEF RightVisit, Edge
<1>3. CASE RightRelationDone
  <2>1. (at - 1) \in Relation /\ at \in Slice
    BY <1>3, Indices DEF RightRelationDone, Relation
  <2>2. QED
    BY <1>0, <1>3, <2>1, InputFields DEF RightRelationDone, Seed
<1>4. CASE TurnAround
  <2>1. in.allowed[1] \subseteq Leaf /\ in.interesting[1] \subseteq Leaf /\ 1 \in Slice
    BY <1>0, Indices, InputFields
  <2>2. \A reached : Seed(1, reached) \subseteq Leaf
    BY <2>1 DEF Seed
  <2>3. R' \in [Slice -> SUBSET Leaf] /\ S' \in [Slice -> SUBSET Leaf]
    BY <1>4, <2>1, <2>2 DEF TurnAround
  <2>4. L' \in [Slice -> SUBSET Leaf] /\ P' \in [Slice -> SUBSET Leaf]
    BY <1>4, <2>1, <2>2 DEF TurnAround
  <2>5. \A l, r, p, s \in SUBSET Leaf : Live(1, l, r, p, s) \subseteq Leaf
    BY DEF Live
  <2>6. \A x : Interested(1, x) \in BOOLEAN
    BY DEF Interested
  <2>7. board' \in [Slice -> Leaf \cup {NoLeaf}] /\ seen' \in BOOLEAN
    BY <1>4, <2>1, <2>2, <2>5, <2>6 DEF TurnAround
  <2>8. /\ phase' \in {"done", "left"} /\ todo' \subseteq Edge
        /\ result' \in {"running", "supported", "exhausted", "logic_error"}
    BY <1>0, <1>4, Indices, InputFields DEF TurnAround
  <2>9. QED
    BY <1>4, <2>3, <2>4, <2>7, <2>8 DEF TurnAround
<1>5. ASSUME NEW e \in todo, LeftVisit(e) PROVE TypeOK'
  BY <1>0, <1>5, Indices, InputFields DEF LeftVisit, Edge
<1>6. CASE LeftRelationDone
  <2>1. (at + 1) \in Slice /\ (at # N - 1 => (at + 1) \in Relation)
    BY Indices DEF Relation
  <2>2. QED
    BY <1>0, <1>6, <2>1, InputFields DEF LeftRelationDone, Seed, Continuations, Interested
<1>7. CASE Retain
  BY <1>0, <1>7, Indices DEF Retain, Live
<1>8. CASE UNCHANGED vars
  BY <1>8 DEF vars
<1>9. QED
  BY <1>1, <1>2, <1>3, <1>4, <1>5, <1>6, <1>7, <1>8 DEF Next

\* Every reachable state is well typed: the code's planes hold leaves, its relation
\* index stays in range.
THEOREM TypeCorrect == Spec => []TypeOK
BY TypeInit, TypeNext, PTL DEF Spec

-----------------------------------------------------------------------------
\* The parts of the invariant beyond the types.
Phases == AtBoundary /\ InRight /\ InLeft /\ InRetain /\ InDone

LEMMA PhasesInit == Init => Phases
<1> SUFFICES ASSUME Init PROVE Phases
  OBVIOUS
<1> QED
  BY DEF Init, Phases, AtBoundary, InRight, InLeft, InRetain, InDone

\* The restricted and seeded right end is finished; nothing is visited yet.
LEMMA BoundaryStep == ASSUME TypeOK, Phases, MarkBoundaries PROVE Phases'
<1>1. in \in Input /\ in' = in
  BY SweepAssumption DEF TypeOK, MarkBoundaries
<1>2. /\ at = N - 1 /\ at' = at /\ at + 1 = N /\ at \in Relation /\ at \in Slice
      /\ phase' = "right" /\ todo' = in.edge[at] /\ result' = "running"
      /\ L = Empty /\ R = Empty /\ P = Empty /\ S = Empty
      /\ P' = Empty /\ gate' = [i \in Relation |-> {}]
  BY Indices DEF Phases, AtBoundary, MarkBoundaries
<1>3. /\ \A j \in Slice : j # N => R'[j] = {} /\ S'[j] = {}
      /\ R'[N] = in.rightEdge \cap in.allowed[N]
      /\ S'[N] = Seed(N, in.rightEdge \cap in.allowed[N])
      /\ L' = [Empty EXCEPT ![1] = in.leftEdge]
  BY <1>2, Indices DEF MarkBoundaries, Empty
<1>4. RightDone(N)'
  BY <1>1, <1>3, RightEnd DEF RightDone, Seed
<1>5. \A j \in Slice : j > at => j = N
  BY <1>2 DEF Slice
<1>6. \A j \in Slice : j < at => j # N
  BY <1>2, Indices
<1>7. RightWalk'
  BY <1>1, <1>2, <1>3, Indices DEF RightWalk, Visited
<1>8. InRight'
  BY <1>1, <1>2, <1>3, <1>4, <1>5, <1>6, <1>7 DEF InRight
<1>9. QED
  BY <1>2, <1>8 DEF Phases, AtBoundary, InLeft, InRetain, InDone

\* A right visit adds the one row its edge extends.
LEMMA RightVisitStep == ASSUME TypeOK, Phases, NEW e \in todo, RightVisit(e) PROVE Phases'
<1>1. /\ in \in Input /\ in' = in /\ at' = at /\ at \in Relation /\ at \in Slice /\ at + 1 \in Slice
      /\ at \in Nat /\ phase = "right" /\ phase' = "right" /\ result' = result
      /\ L' = L /\ P' = P /\ gate' = gate
  BY SweepAssumption, Indices DEF TypeOK, RightVisit
<1>2. InRight
  BY DEF Phases
<1>3. e \in in.edge[at] /\ e \in Edge
  BY <1>1, <1>2, InputFields DEF InRight
<1>4. PICK u, v \in Leaf : e = <<u, v>>
  BY <1>3 DEF Edge
<1>5. Visited' = Visited \cup {<<u, v>>} /\ todo' \subseteq in.edge[at]
  BY <1>1, <1>2, <1>3, <1>4 DEF Visited, RightVisit, InRight
<1>6. RightDone(at + 1)
  BY <1>1, <1>2 DEF InRight
<1>7. \A j \in Slice : j # at => R'[j] = R[j] /\ S'[j] = S[j]
  BY <1>1 DEF RightVisit, TypeOK
<1>8. /\ R'[at] = IF RightRow(in, at + 1, v) THEN R[at] \cup {u} ELSE R[at]
      /\ S'[at] = IF in.bcaf /\ RightWitness(in, at + 1, v) THEN S[at] \cup {u} ELSE S[at]
  <2>1. RightWitness(in, at + 1, v) => RightRow(in, at + 1, v)
    BY DEF RightRow, RightWitness
  <2>2. /\ v \in R[at + 1] <=> RightRow(in, at + 1, v)
        /\ v \in R[at + 1] => (v \in S[at + 1] <=> in.bcaf /\ RightWitness(in, at + 1, v))
    BY <1>6 DEF RightDone
  <2>3. /\ R'[at] = IF v \in R[at + 1] THEN R[at] \cup {u} ELSE R[at]
        /\ S'[at] = IF v \in R[at + 1] /\ in.bcaf /\ v \in S[at + 1] THEN S[at] \cup {u} ELSE S[at]
    BY <1>1, <1>4 DEF RightVisit, TypeOK
  <2>4. QED
    BY <2>1, <2>2, <2>3
<1>9. RightWalk'
  <2> SUFFICES ASSUME NEW x \in Leaf
               PROVE  /\ x \in R'[at] <=>
                           \E y \in Leaf : <<x, y>> \in Visited' /\ RightRow(in, at + 1, y)
                      /\ x \in S'[at] <=>
                           /\ in.bcaf
                           /\ \E y \in Leaf : <<x, y>> \in Visited' /\ RightWitness(in, at + 1, y)
    BY <1>1 DEF RightWalk
  <2>1. /\ x \in R[at] <=> \E y \in Leaf : <<x, y>> \in Visited /\ RightRow(in, at + 1, y)
        /\ x \in S[at] <=> /\ in.bcaf
                           /\ \E y \in Leaf : <<x, y>> \in Visited /\ RightWitness(in, at + 1, y)
    BY <1>1, <1>2 DEF InRight, RightWalk
  <2>2. \A y \in Leaf : <<x, y>> \in Visited' <=> <<x, y>> \in Visited \/ (x = u /\ y = v)
    BY <1>5
  <2>3. QED
    BY <1>4, <1>8, <2>1, <2>2
<1>10. \A j \in Slice : j > at => j # at /\ RightDone(j)'
  BY <1>1, <1>2, <1>7, Indices DEF InRight, RightDone
<1>11. \A j \in Slice : j < at => R'[j] = {} /\ S'[j] = {}
  BY <1>1, <1>2, <1>7, Indices DEF InRight
<1>12. InRight'
  BY <1>1, <1>2, <1>5, <1>9, <1>10, <1>11 DEF InRight
<1>13. QED
  BY <1>1, <1>12 DEF Phases, AtBoundary, InLeft, InRetain, InDone

\* What a relation's visits, its restriction and its seed leave in the plane.
LEMMA RightPlaneDone ==
  ASSUME TypeOK, InRight, phase = "right", todo = {}, NEW i \in Relation, i = at,
         R'[at] = R[at] \cap in.allowed[at],
         S'[at] = S[at] \cup Seed(at, R[at] \cap in.allowed[at]), in' = in
  PROVE  RightDone(i)'
<1>1. /\ in \in Input /\ at \in Relation
      /\ Visited = in.edge[at]
  BY SweepAssumption DEF TypeOK, Visited
<1> SUFFICES ASSUME NEW x \in Leaf
             PROVE  /\ x \in R'[at] <=> RightRow(in, at, x)
                    /\ x \in R'[at] => (x \in S'[at] <=> in.bcaf /\ RightWitness(in, at, x))
  BY DEF RightDone
<1>2. /\ x \in R[at] <=> \E y \in Leaf : <<x, y>> \in in.edge[at] /\ RightRow(in, at + 1, y)
      /\ x \in S[at] <=> /\ in.bcaf
                         /\ \E y \in Leaf : <<x, y>> \in in.edge[at] /\ RightWitness(in, at + 1, y)
  BY <1>1 DEF InRight, RightWalk
<1>3. x \in Seed(at, R[at] \cap in.allowed[at]) <=>
        in.bcaf /\ x \in R[at] /\ x \in in.allowed[at] /\ x \in in.interesting[at]
  BY DEF Seed
<1>4. QED
  BY <1>1, <1>2, <1>3, RightStep

LEMMA RightRelationStep == ASSUME TypeOK, Phases, RightRelationDone PROVE Phases'
<1>1. /\ in \in Input /\ in' = in /\ at \in Relation /\ at \in Slice /\ at \in Nat /\ at > 1
      /\ at' = at - 1 /\ at - 1 \in Slice /\ at - 1 \in Relation /\ (at - 1) + 1 = at
      /\ phase = "right" /\ phase' = "right" /\ result' = result /\ todo = {}
      /\ todo' = in.edge[at - 1] /\ L' = L /\ P' = P /\ gate' = gate
  BY SweepAssumption, Indices DEF TypeOK, RightRelationDone, Relation, Slice
<1>2. InRight
  BY DEF Phases
<1>3. /\ R'[at] = R[at] \cap in.allowed[at]
      /\ S'[at] = S[at] \cup Seed(at, R[at] \cap in.allowed[at])
      /\ \A j \in Slice : j # at => R'[j] = R[j] /\ S'[j] = S[j]
  BY <1>1 DEF RightRelationDone, TypeOK
<1>4. ASSUME NEW i \in Relation, i = at PROVE RightDone(i)'
  BY <1>1, <1>2, <1>3, <1>4, RightPlaneDone
<1>5. \A j \in Slice : j > at => RightDone(j)'
  BY <1>1, <1>2, <1>3, Indices DEF InRight, RightDone
<1>6. \A j \in Slice : j > at - 1 => RightDone(j)'
  <2>1. \A j \in Slice : j > at - 1 => j = at \/ j > at
    BY <1>1, Indices
  <2>2. QED
    BY <1>1, <1>4, <1>5, <2>1
<1>7. \A j \in Slice : j < at => R'[j] = {} /\ S'[j] = {}
  BY <1>1, <1>2, <1>3, Indices DEF InRight
<1>8. RightWalk'
  <2>1. R'[at'] = {} /\ S'[at'] = {}
    BY <1>1, <1>7
  <2>2. Visited' = {}
    BY <1>1 DEF Visited
  <2>3. QED
    BY <2>1, <2>2 DEF RightWalk
<1>9. InRight'
  BY <1>1, <1>2, <1>6, <1>7, <1>8, Indices DEF InRight
<1>10. QED
  BY <1>1, <1>9 DEF Phases, AtBoundary, InLeft, InRetain, InDone

-----------------------------------------------------------------------------
\* live_leaf is the retention formula: the leaves of finished planes that it keeps
\* are those on surviving rows.
LEMMA LiveOnRow ==
  ASSUME NEW i \in Slice, in \in Input, RightDone(i), LeftDone(i), NEW x \in Leaf
  PROVE  x \in Live(i, L[i], R[i], P[i], S[i]) <=> \E p \in Surviving(in) : p[i] = x
<1>1. (\E p \in Surviving(in) : p[i] = x) <=>
        /\ LeftRow(in, i, x) /\ RightRow(in, i, x)
        /\ in.bcaf => LeftWitness(in, i, x) \/ RightWitness(in, i, x)
  BY LeafOnRow
<1>2. QED
  BY <1>1 DEF Live, RightDone, LeftDone

LEMMA TurnAroundStep == ASSUME TypeOK, TypeOK', Phases, TurnAround PROVE Phases'
<1> DEFINE r == R[1] \cap in.allowed[1]
           s == S[1] \cup Seed(1, r)
           l == L[1] \cap in.allowed[1]
           p == Seed(1, l)
           live == Live(1, l, r, p, s)
<1>1. /\ in \in Input /\ in' = in /\ at = 1 /\ at' = 1 /\ phase = "right" /\ todo = {}
      /\ 1 \in Slice /\ 1 \in Relation /\ gate' = gate /\ 2 \in Slice /\ N \in Slice /\ N \in Nat
  BY SweepAssumption, Indices DEF TypeOK, TurnAround, Slice
<1>2. InRight
  BY DEF Phases
<1>3. /\ R' = [R EXCEPT ![1] = r] /\ S' = [S EXCEPT ![1] = s]
      /\ L' = [L EXCEPT ![1] = l] /\ P' = [P EXCEPT ![1] = p]
  BY DEF TurnAround
<1>4. /\ R'[1] = r /\ S'[1] = s /\ L'[1] = l /\ P'[1] = p
      /\ \A j \in Slice : j # 1 => R'[j] = R[j] /\ S'[j] = S[j] /\ L'[j] = L[j] /\ P'[j] = P[j]
  BY <1>1, <1>3 DEF TypeOK
<1>5. RightDone(1)'
  BY <1>1, <1>2, <1>4, RightPlaneDone
<1>6. \A j \in Slice : RightDone(j)'
  <2>1. \A j \in Slice : j # 1 => RightDone(j)'
    BY <1>1, <1>2, <1>4, Indices DEF InRight, RightDone, Slice
  <2>2. QED
    BY <1>5, <2>1
<1>7. l = in.leftEdge \cap in.allowed[1] /\ P'[1] = Seed(1, l)
  BY <1>1, <1>2, <1>4 DEF InRight, Empty
<1>8. LeftDone(1)'
  <2> SUFFICES ASSUME NEW x \in Leaf
               PROVE  /\ x \in L'[1] <=> LeftRow(in, 1, x)
                      /\ x \in P'[1] <=> in.bcaf /\ LeftWitness(in, 1, x)
    BY <1>1 DEF LeftDone
  <2>1. /\ LeftRow(in, 1, x) <=> x \in in.leftEdge /\ x \in in.allowed[1]
        /\ LeftWitness(in, 1, x) <=> LeftRow(in, 1, x) /\ x \in in.interesting[1]
    BY <1>1, LeftEnd
  <2>2. QED
    BY <1>4, <1>7, <2>1 DEF Seed
<1>9. ASSUME NEW x \in Leaf
      PROVE  x \in live <=> \E q \in Surviving(in) : q[1] = x
  <2>1. (x \in Live(1, L[1], R[1], P[1], S[1]) <=> \E q \in Surviving(in) : q[1] = x)'
    BY <1>1, <1>5, <1>8, LeafOnRow DEF Live, RightDone, LeftDone
  <2>2. QED
    BY <1>1, <1>4, <2>1 DEF Live
<1> HIDE DEF r, s, l, p, live
<1>10. \/ /\ in.partial /\ live = {} /\ phase' = "done" /\ result' = "exhausted"
       \/ /\ in.partial /\ phase' = "left" /\ todo' = in.edge[1] /\ result' = result
          /\ \E x \in live : board' = [board EXCEPT ![1] = x] /\ seen' = Interested(1, x)
       \/ /\ ~in.partial /\ phase' = "left" /\ todo' = in.edge[1] /\ result' = result
  BY DEF TurnAround, r, s, l, p, live
<1>11. CASE phase' = "done"
  <2>1. live = {} /\ result' = "exhausted"
    BY <1>10, <1>11
  <2>2. \A q \in Surviving(in) : q[1] \in Leaf
    BY <1>1 DEF Surviving, Complete, Row
  <2>3. Surviving(in) = {}
    BY <1>9, <2>1, <2>2
  <2>4. QED
    BY <1>1, <1>11, <2>1, <2>3 DEF Phases, AtBoundary, InRight, InLeft, InRetain, InDone
<1>12. CASE phase' = "left"
  <2>1. /\ todo' = in.edge[1] /\ result' = "running"
    BY <1>1, <1>2, <1>10, <1>12 DEF InRight
  <2>2. /\ \A j \in Slice : j > 1 => L'[j] = {} /\ P'[j] = {}
        /\ \A j \in Relation : gate'[j] = {}
    BY <1>1, <1>2, <1>4 DEF InRight, Empty
  <2>3. LeftWalk'
    <3>1. L'[at' + 1] = {} /\ P'[at' + 1] = {} /\ Visited' = {}
      BY <1>1, <2>1, <2>2 DEF Visited
    <3>2. QED
      BY <3>1 DEF LeftWalk
  <2>4. GateWalk'
    <3>1. gate'[at'] = {} /\ Visited' = {}
      BY <1>1, <2>1, <2>2 DEF Visited
    <3>2. QED
      BY <3>1 DEF GateWalk
  <2>5. Captured(at)'
    <3> SUFFICES ASSUME in.partial PROVE Captured(1)'
      BY <1>1 DEF Captured
    <3>1. PICK x \in live : board' = [board EXCEPT ![1] = x] /\ seen' = Interested(1, x)
      BY <1>10, <1>12
    <3>2. x \in l /\ x \in r /\ (in.bcaf => x \in p \/ x \in s)
      BY <3>1 DEF live, Live
    <3>3. x \in Leaf
      BY <1>4, <3>2, <1>1 DEF TypeOK
    <3>4. /\ LeftRow(in, 1, x) /\ RightRow(in, 1, x) /\ x \in in.leftEdge /\ x \in in.allowed[1]
          /\ in.bcaf => LeftWitness(in, 1, x) \/ RightWitness(in, 1, x)
      BY <1>1, <1>4, <1>5, <1>7, <1>8, <3>2, <3>3 DEF RightDone, LeftDone
    <3>5. /\ LeftWitness(in, 1, x) <=> x \in in.interesting[1]
          /\ board'[1] = x /\ (seen' <=> ~in.bcaf \/ x \in in.interesting[1])
      BY <1>1, <3>1, <3>3, <3>4, LeftEnd DEF Interested, TypeOK
    <3>6. Joins(in, board', 1, 1)
      BY <3>4, <3>5 DEF Joins
    <3>7. /\ \A k \in 1 .. 1 : k = 1
          /\ 1 \in 1 .. 1
      OBVIOUS
    <3>8. QED
      BY <1>1, <3>3, <3>4, <3>5, <3>6, <3>7 DEF Captured
  <2>6. /\ \A j \in Slice : j <= 1 => j = 1
        /\ \A j \in Relation : ~(j < 1)
    BY DEF Slice, Relation
  <2>7. InLeft'
    BY <1>1, <1>6, <1>8, <2>1, <2>2, <2>3, <2>4, <2>5, <2>6, Indices DEF InLeft
  <2>8. QED
    BY <1>12, <2>7 DEF Phases, AtBoundary, InRight, InRetain, InDone
<1>13. QED
  BY <1>10, <1>11, <1>12

-----------------------------------------------------------------------------
\* What a left visit decides about its edge, in terms of the rows it stands for.
LEMMA LeftEdge ==
  ASSUME TypeOK, InLeft, phase = "left", NEW u \in Leaf, NEW v \in Leaf,
         <<u, v>> \in in.edge[at]
  PROVE  /\ u \in L[at] <=> LeftRow(in, at, u)
         /\ v \in R[at + 1] <=> RightRow(in, at + 1, v)
         /\ u \in L[at] /\ v \in R[at + 1] =>
              /\ u \in P[at] <=> in.bcaf /\ LeftWitness(in, at, u)
              /\ v \in S[at + 1] <=> in.bcaf /\ RightWitness(in, at + 1, v)
<1>1. /\ in \in Input /\ at \in Relation /\ at \in Slice /\ at + 1 \in Slice /\ at <= at
  BY SweepAssumption, Indices DEF TypeOK
<1>2. RightDone(at) /\ RightDone(at + 1) /\ LeftDone(at)
  BY <1>1 DEF InLeft
<1>3. LeftRow(in, at, u) => u \in in.allowed[at]
  <2>1. at \in 1 .. at
    BY <1>1, Indices DEF Relation
  <2>2. QED
    BY <2>1 DEF LeftRow, Joins
<1>4. RightRow(in, at + 1, v) /\ LeftRow(in, at, u) => RightRow(in, at, u)
  BY <1>1, <1>3, RightStep
<1>5. QED
  BY <1>2, <1>4 DEF RightDone, LeftDone

LEMMA LeftVisitStep == ASSUME TypeOK, Phases, NEW e \in todo, LeftVisit(e) PROVE Phases'
<1>1. /\ in \in Input /\ in' = in /\ at' = at /\ at \in Relation /\ at \in Slice /\ at + 1 \in Slice
      /\ at \in Nat /\ phase = "left" /\ phase' = "left" /\ result' = result
      /\ R' = R /\ S' = S /\ board' = board /\ seen' = seen
  BY SweepAssumption, Indices DEF TypeOK, LeftVisit
<1>2. InLeft
  BY DEF Phases
<1>3. e \in in.edge[at] /\ e \in Edge
  BY <1>1, <1>2, InputFields DEF InLeft
<1>4. PICK u, v \in Leaf : e = <<u, v>>
  BY <1>3 DEF Edge
<1>5. Visited' = Visited \cup {<<u, v>>} /\ todo' \subseteq in.edge[at]
  BY <1>1, <1>2, <1>3, <1>4 DEF Visited, LeftVisit, InLeft
<1>6. /\ \A j \in Slice : j # at + 1 => L'[j] = L[j] /\ P'[j] = P[j]
      /\ \A j \in Relation : j # at => gate'[j] = gate[j]
      /\ L'[at + 1] = IF u \in L[at] THEN L[at + 1] \cup {v} ELSE L[at + 1]
      /\ P'[at + 1] = IF u \in L[at] /\ v \in R[at + 1] /\ in.bcaf /\ u \in P[at]
                      THEN P[at + 1] \cup {v} ELSE P[at + 1]
      /\ gate'[at] = IF /\ u \in L[at] /\ v \in R[at + 1]
                        /\ in.bcaf => u \in P[at] \/ v \in S[at + 1]
                     THEN gate[at] \cup {<<u, v>>} ELSE gate[at]
  BY <1>1, <1>4 DEF LeftVisit, TypeOK
<1>7. /\ u \in L[at] <=> LeftRow(in, at, u)
      /\ v \in R[at + 1] <=> RightRow(in, at + 1, v)
      /\ u \in L[at] /\ v \in R[at + 1] =>
           /\ u \in P[at] <=> in.bcaf /\ LeftWitness(in, at, u)
           /\ v \in S[at + 1] <=> in.bcaf /\ RightWitness(in, at + 1, v)
  BY <1>1, <1>2, <1>3, <1>4, LeftEdge
<1>8. LeftWitness(in, at, u) => LeftRow(in, at, u)
  BY DEF LeftRow, LeftWitness
<1>9. LeftWalk'
  <2> SUFFICES ASSUME NEW y \in Leaf
               PROVE  /\ y \in L'[at + 1] <=>
                           \E x \in Leaf : <<x, y>> \in Visited' /\ LeftRow(in, at, x)
                      /\ y \in P'[at + 1] <=>
                           /\ in.bcaf /\ RightRow(in, at + 1, y)
                           /\ \E x \in Leaf : <<x, y>> \in Visited' /\ LeftWitness(in, at, x)
    BY <1>1 DEF LeftWalk
  <2>1. /\ y \in L[at + 1] <=> \E x \in Leaf : <<x, y>> \in Visited /\ LeftRow(in, at, x)
        /\ y \in P[at + 1] <=> /\ in.bcaf /\ RightRow(in, at + 1, y)
                               /\ \E x \in Leaf : <<x, y>> \in Visited /\ LeftWitness(in, at, x)
    BY <1>1, <1>2 DEF InLeft, LeftWalk
  <2>2. \A x \in Leaf : <<x, y>> \in Visited' <=> <<x, y>> \in Visited \/ (x = u /\ y = v)
    BY <1>5
  <2>3. y \in L'[at + 1] <=> y \in L[at + 1] \/ (y = v /\ LeftRow(in, at, u))
    BY <1>6, <1>7
  <2>4. y \in P'[at + 1] <=>
          \/ y \in P[at + 1]
          \/ y = v /\ in.bcaf /\ RightRow(in, at + 1, v) /\ LeftWitness(in, at, u)
    BY <1>6, <1>7, <1>8
  <2>5. QED
    BY <1>4, <2>1, <2>2, <2>3, <2>4
<1>10. GateWalk'
  <2>1. /\ gate[at] \subseteq in.edge[at]
        /\ \A x, y \in Leaf : <<x, y>> \in gate[at] <=> <<x, y>> \in Visited /\ OnRow(at, x, y)
    BY <1>1, <1>2 DEF InLeft, GateWalk
  <2>2. gate'[at] \subseteq in.edge[at]
    BY <1>3, <1>4, <1>6, <2>1
  <2>3. \A x, y \in Leaf : OnRow(at, x, y)' <=> OnRow(at, x, y)
    BY <1>1 DEF OnRow
  <2>4. OnRow(at, u, v) <=>
          /\ u \in L[at] /\ v \in R[at + 1]
          /\ in.bcaf => u \in P[at] \/ v \in S[at + 1]
    BY <1>7 DEF OnRow
  <2>5. \A x, y \in Leaf :
          <<x, y>> \in gate'[at] <=> <<x, y>> \in gate[at] \/ (x = u /\ y = v /\ OnRow(at, u, v))
    BY <1>6, <2>4
  <2>6. \A x, y \in Leaf :
          <<x, y>> \in gate'[at] <=> <<x, y>> \in Visited' /\ OnRow(at, x, y)
    BY <1>5, <2>1, <2>5
  <2>7. QED
    BY <1>1, <2>2, <2>3, <2>6 DEF GateWalk
<1>11. \A j \in Slice : RightDone(j)'
  BY <1>1, <1>2 DEF InLeft, RightDone
<1>12. \A j \in Slice : j <= at => j # at + 1 /\ LeftDone(j)'
  BY <1>1, <1>2, <1>6, Indices DEF InLeft, LeftDone
<1>13. \A j \in Relation : j < at => j # at /\ GateDone(j)'
  BY <1>1, <1>2, <1>6, Indices DEF InLeft, GateDone, OnRow
<1>14. /\ \A j \in Slice : j > at + 1 => L'[j] = {} /\ P'[j] = {}
       /\ \A j \in Relation : j > at => gate'[j] = {}
  BY <1>1, <1>2, <1>6, Indices DEF InLeft
<1>15. Captured(at)'
  BY <1>1, <1>2 DEF InLeft, Captured
<1>16. InLeft'
  BY <1>1, <1>2, <1>5, <1>9, <1>10, <1>11, <1>12, <1>13, <1>14, <1>15 DEF InLeft
<1>17. QED
  BY <1>1, <1>16 DEF Phases, AtBoundary, InRight, InRetain, InDone

-----------------------------------------------------------------------------
\* What a left relation's visits, its restriction and its seed leave.
LEMMA LeftPlaneDone ==
  ASSUME TypeOK, InLeft, phase = "left", todo = {}, NEW i \in Relation, i = at,
         L'[i + 1] = L[i + 1] \cap in.allowed[i + 1],
         P'[i + 1] = P[i + 1] \cup Seed(i + 1, L[i + 1] \cap in.allowed[i + 1]),
         in' = in, R' = R, gate' = gate
  PROVE  LeftDone(i + 1)' /\ GateDone(i)'
<1>1. in \in Input /\ Visited = in.edge[i] /\ i + 1 \in Slice
  BY SweepAssumption, Indices DEF TypeOK, Visited
<1>2. GateDone(i)'
  BY <1>1 DEF InLeft, GateWalk, GateDone, OnRow
<1>3. ASSUME NEW y \in Leaf
      PROVE  /\ y \in L'[i + 1] <=> LeftRow(in, i + 1, y)
             /\ y \in L'[i + 1] \cap R[i + 1] =>
                  (y \in P'[i + 1] <=> in.bcaf /\ LeftWitness(in, i + 1, y))
  <2>1. /\ y \in L[i + 1] <=> \E x \in Leaf : <<x, y>> \in in.edge[i] /\ LeftRow(in, i, x)
        /\ y \in P[i + 1] <=> /\ in.bcaf /\ RightRow(in, i + 1, y)
                              /\ \E x \in Leaf : <<x, y>> \in in.edge[i] /\ LeftWitness(in, i, x)
    BY <1>1 DEF InLeft, LeftWalk
  <2>2. y \in R[i + 1] <=> RightRow(in, i + 1, y)
    BY <1>1 DEF InLeft, RightDone
  <2>3. y \in Seed(i + 1, L[i + 1] \cap in.allowed[i + 1]) <=>
          /\ in.bcaf /\ y \in L[i + 1] /\ y \in in.allowed[i + 1]
          /\ y \in in.interesting[i + 1]
    BY DEF Seed
  <2>4. QED
    BY <1>1, <2>1, <2>2, <2>3, LeftStep
<1>4. LeftDone(i + 1)'
  BY <1>3 DEF LeftDone
<1>5. QED
  BY <1>2, <1>4

\* A captured leaf can continue over a finished gate, with its witness.
LEMMA CaptureContinues ==
  ASSUME TypeOK, InLeft, phase = "left", todo = {}, in.partial
  PROVE  Continuations # {}
<1>1. /\ in \in Input /\ at \in Relation /\ at \in Slice /\ at + 1 \in Slice /\ at \in Nat
      /\ Visited = in.edge[at] /\ at \in 1 .. at
  BY SweepAssumption, Indices DEF TypeOK, Visited, Relation
<1> DEFINE x == board[at]
<1>2. /\ x \in Leaf /\ LeftRow(in, at, x) /\ RightRow(in, at, x)
      /\ in.bcaf /\ seen => LeftWitness(in, at, x)
      /\ in.bcaf => seen \/ RightWitness(in, at, x)
      /\ x \in in.interesting[at] => seen
  BY <1>1 DEF InLeft, Captured
<1>3. PICK y \in Leaf : /\ <<x, y>> \in in.edge[at] /\ RightRow(in, at + 1, y)
                        /\ in.bcaf => seen \/ RightWitness(in, at + 1, y)
  <2>1. \A y \in Leaf : RightWitness(in, at + 1, y) => RightRow(in, at + 1, y)
    BY DEF RightRow, RightWitness
  <2>2. QED
    BY <1>1, <1>2, <2>1, RightStep
<1>4. <<x, y>> \in gate[at]
  BY <1>1, <1>2, <1>3 DEF InLeft, GateWalk, OnRow
<1>5. in.bcaf => seen \/ y \in S[at + 1]
  BY <1>1, <1>3 DEF InLeft, RightDone
<1>6. QED
  BY <1>3, <1>4, <1>5 DEF Continuations

\* The leaf chosen next extends the captured row.
LEMMA CaptureExtends ==
  ASSUME TypeOK, TypeOK', InLeft, phase = "left", todo = {}, NEW i \in Relation, i = at,
         in' = in, LeftDone(i + 1)',
         in.partial => \E y \in Continuations :
                         /\ board' = [board EXCEPT ![i + 1] = y]
                         /\ seen' = (seen \/ Interested(i + 1, y))
  PROVE  Captured(i + 1)'
<1>1. /\ in \in Input /\ i \in Slice /\ i + 1 \in Slice /\ i \in Nat /\ i >= 1
      /\ Visited = in.edge[i] /\ i \in 1 .. i /\ i + 1 \in 1 .. (i + 1)
  BY SweepAssumption, Indices DEF TypeOK, Visited, Relation
<1> SUFFICES ASSUME in.partial PROVE Captured(i + 1)'
  BY DEF Captured
<1>2. PICK y \in Continuations : /\ board' = [board EXCEPT ![i + 1] = y]
                                 /\ seen' = (seen \/ Interested(i + 1, y))
  OBVIOUS
<1> DEFINE x == board[i]
<1>3. /\ \A k \in 1 .. i : board[k] \in Leaf
      /\ Joins(in, board, 1, i) /\ board[1] \in in.leftEdge
      /\ in.bcaf /\ seen => \E k \in 1 .. i : board[k] \in in.interesting[k]
      /\ x \in Leaf /\ LeftRow(in, i, x)
      /\ in.bcaf /\ seen => LeftWitness(in, i, x)
      /\ ~in.bcaf => seen
  BY <1>1 DEF InLeft, Captured
<1>4. /\ y \in Leaf /\ <<x, y>> \in gate[i]
      /\ in.bcaf => seen \/ y \in S[i + 1]
  BY DEF Continuations
<1>5. <<x, y>> \in in.edge[i] /\ RightRow(in, i + 1, y)
  BY <1>1, <1>3, <1>4 DEF InLeft, GateWalk, OnRow
<1>6. in.bcaf => seen \/ RightWitness(in, i + 1, y)
  BY <1>1, <1>4, <1>5 DEF InLeft, RightDone
<1>7. i + 1 \in 1 .. (i + 1) /\ N \in Nat /\ y \in in.allowed[i + 1]
  <2>1. RightRow(in, i + 1, y) => y \in in.allowed[i + 1]
    <3>1. i + 1 \in (i + 1) .. N
      BY <1>1, Indices DEF Slice
    <3>2. QED
      BY <3>1 DEF RightRow, Joins
  <2>2. QED
    BY <1>1, <1>5, <2>1, Indices
<1>8. /\ LeftRow(in, i + 1, y)
      /\ in.bcaf /\ seen => LeftWitness(in, i + 1, y)
      /\ y \in in.interesting[i + 1] => LeftWitness(in, i + 1, y)
  BY <1>1, <1>3, <1>4, <1>5, <1>7, LeftStep
<1>9. /\ \A k : k \in 1 .. (i + 1) <=> k = i + 1 \/ k \in 1 .. i
      /\ \A k : k \in 1 .. ((i + 1) - 1) <=> k = i \/ k \in 1 .. (i - 1)
      /\ \A k \in 1 .. (i - 1) : k \in 1 .. i /\ (k + 1) \in 1 .. i
      /\ 1 \in 1 .. i
  BY <1>1
<1>10. /\ \A k \in 1 .. i : board'[k] = board[k]
       /\ board'[i + 1] = y
  BY <1>1, <1>2 DEF TypeOK, Slice
<1>11. Joins(in, board', 1, i + 1)
  <2>1. \A k \in 1 .. (i + 1) : board'[k] \in in.allowed[k]
    BY <1>3, <1>7, <1>9, <1>10 DEF Joins
  <2>2. \A k \in 1 .. ((i + 1) - 1) : <<board'[k], board'[k + 1]>> \in in.edge[k]
    BY <1>1, <1>3, <1>5, <1>9, <1>10 DEF Joins
  <2>3. QED
    BY <2>1, <2>2 DEF Joins
<1>12. seen' <=> seen \/ ~in.bcaf \/ y \in in.interesting[i + 1]
  BY <1>2 DEF Interested
<1>13. in.bcaf /\ seen' => /\ LeftWitness(in, i + 1, y)
                           /\ \E k \in 1 .. (i + 1) : board'[k] \in in.interesting[k]
  BY <1>3, <1>8, <1>9, <1>10, <1>12
<1>14. \A k \in 1 .. (i + 1) : board'[k] \in Leaf
  BY <1>3, <1>4, <1>9, <1>10
<1>15. QED
  BY <1>3, <1>5, <1>6, <1>8, <1>9, <1>10, <1>11, <1>12, <1>13, <1>14 DEF Captured

LEMMA LeftRelationStep ==
  ASSUME TypeOK, TypeOK', Phases, LeftRelationDone, NEW i \in Relation, i = at
  PROVE  Phases'
<1>1. /\ in \in Input /\ in' = in /\ i \in Slice /\ i + 1 \in Slice /\ i \in Nat /\ N \in Nat
      /\ phase = "left" /\ todo = {} /\ R' = R /\ S' = S /\ gate' = gate
  BY SweepAssumption, Indices DEF TypeOK, LeftRelationDone
<1>2. InLeft
  BY DEF Phases
<1>3. /\ L'[i + 1] = L[i + 1] \cap in.allowed[i + 1]
      /\ P'[i + 1] = P[i + 1] \cup Seed(i + 1, L[i + 1] \cap in.allowed[i + 1])
      /\ \A j \in Slice : j # i + 1 => L'[j] = L[j] /\ P'[j] = P[j]
  BY <1>1 DEF LeftRelationDone, TypeOK
<1>4. LeftDone(i + 1)' /\ GateDone(i)'
  BY <1>1, <1>2, <1>3, LeftPlaneDone
<1>5. \A j \in Slice : RightDone(j)'
  BY <1>1, <1>2 DEF InLeft, RightDone
<1>6. \A j \in Slice : j <= i + 1 => LeftDone(j)'
  <2>1. \A j \in Slice : j <= i => LeftDone(j)'
    BY <1>1, <1>2, <1>3, Indices DEF InLeft, LeftDone
  <2>2. \A j \in Slice : j <= i + 1 => j <= i \/ j = i + 1
    BY <1>1, Indices
  <2>3. QED
    BY <1>4, <2>1, <2>2
<1>7. \A j \in Relation : j <= i => GateDone(j)'
  <2>1. \A j \in Relation : j < i => GateDone(j)'
    BY <1>1, <1>2 DEF InLeft, GateDone, OnRow
  <2>2. \A j \in Relation : j <= i => j < i \/ j = i
    BY <1>1, Indices
  <2>3. QED
    BY <1>4, <2>1, <2>2
<1>8. /\ \A j \in Slice : j > i + 1 => L'[j] = {} /\ P'[j] = {}
      /\ \A j \in Relation : j > i => gate'[j] = {}
  BY <1>1, <1>2, <1>3, Indices DEF InLeft
<1>9. \/ gate[i] = {} /\ phase' = "done" /\ result' = "exhausted"
      \/ in.partial /\ Continuations = {}
      \/ /\ result' = result
         /\ in.partial => \E y \in Continuations : /\ board' = [board EXCEPT ![i + 1] = y]
                                                   /\ seen' = (seen \/ Interested(i + 1, y))
         /\ \/ i = N - 1 /\ phase' = "retain"
            \/ i # N - 1 /\ at' = i + 1 /\ todo' = in.edge[i + 1] /\ phase' = "left"
  BY <1>1 DEF LeftRelationDone
<1>10. ~(in.partial /\ Continuations = {})
  BY <1>1, <1>2, CaptureContinues
<1>11. CASE gate[i] = {} /\ phase' = "done" /\ result' = "exhausted"
  <2>1. ASSUME NEW p \in Surviving(in) PROVE FALSE
    <3>1. p[i] \in Leaf /\ p[i + 1] \in Leaf
      BY <1>1 DEF Surviving, Complete, Row
    <3>2. <<p[i], p[i + 1]>> \in in.edge[i] /\ OnRow(i, p[i], p[i + 1])
      BY <1>1, <3>1, EdgeOnRow DEF OnRow
    <3>3. <<p[i], p[i + 1]>> \in gate[i]
      <4>1. \A x, y \in Leaf : <<x, y>> \in gate[i] <=> <<x, y>> \in in.edge[i] /\ OnRow(i, x, y)
        BY <1>1, <1>2 DEF InLeft, GateWalk, Visited, OnRow
      <4>2. QED
        BY <3>1, <3>2, <4>1
    <3>4. QED
      BY <3>3, <1>11
  <2>2. QED
    BY <1>1, <1>11, <2>1 DEF Phases, AtBoundary, InRight, InLeft, InRetain, InDone
<1>12. CASE /\ result' = result
            /\ in.partial => \E y \in Continuations :
                               /\ board' = [board EXCEPT ![i + 1] = y]
                               /\ seen' = (seen \/ Interested(i + 1, y))
            /\ \/ i = N - 1 /\ phase' = "retain"
               \/ i # N - 1 /\ at' = i + 1 /\ todo' = in.edge[i + 1] /\ phase' = "left"
  <2>1. Captured(i + 1)'
    BY <1>1, <1>2, <1>4, <1>12, CaptureExtends
  <2>2. result' = "running"
    BY <1>1, <1>2, <1>12 DEF InLeft
  <2>3. CASE i = N - 1 /\ phase' = "retain"
    <3>1. /\ i + 1 = N /\ \A j \in Slice : j <= i + 1
          /\ \A j \in Relation : j <= i
      BY <1>1, <2>3 DEF Slice, Relation
    <3>2. AllDone'
      BY <1>5, <1>6, <1>7, <2>1, <3>1 DEF AllDone
    <3>3. QED
      BY <2>2, <2>3, <3>2 DEF Phases, AtBoundary, InRight, InLeft, InRetain, InDone
  <2>4. CASE i # N - 1 /\ at' = i + 1 /\ todo' = in.edge[i + 1] /\ phase' = "left"
    <3>1. /\ Visited' = {} /\ (i + 1) \in Relation
      BY <1>1, <2>4 DEF Visited, TypeOK
    <3>2. (i + 1) + 1 \in Slice /\ (i + 1) + 1 > i + 1 /\ i + 1 > i
      BY <1>1, <3>1, Indices
    <3>3. LeftWalk'
      <4>1. L'[at' + 1] = {} /\ P'[at' + 1] = {}
        BY <1>8, <2>4, <3>2
      <4>2. QED
        BY <3>1, <4>1 DEF LeftWalk
    <3>4. GateWalk'
      <4>1. gate'[at'] = {}
        BY <1>8, <2>4, <3>1, <3>2
      <4>2. QED
        BY <3>1, <4>1 DEF GateWalk
    <3>5. Captured(at)'
      BY <2>1, <2>4
    <3>6. /\ \A j \in Slice : j <= at' => LeftDone(j)'
          /\ \A j \in Relation : j < at' => GateDone(j)'
          /\ \A j \in Slice : j > at' + 1 => L'[j] = {} /\ P'[j] = {}
          /\ \A j \in Relation : j > at' => gate'[j] = {}
      <4>1. /\ \A j \in Relation : j < i + 1 => j <= i
            /\ \A j \in Relation : j > i + 1 => j > i
            /\ \A j \in Slice : j > (i + 1) + 1 => j > i + 1
        BY <1>1, Indices
      <4>2. QED
        BY <1>6, <1>7, <1>8, <2>4, <4>1
    <3>7. todo' \subseteq in'.edge[at']
      BY <1>1, <2>4
    <3>8. InLeft'
      BY <1>5, <2>2, <3>3, <3>4, <3>5, <3>6, <3>7 DEF InLeft
    <3>9. QED
      BY <2>4, <3>8 DEF Phases, AtBoundary, InRight, InRetain, InDone
  <2>5. QED
    BY <1>12, <2>3, <2>4
<1>13. QED
  BY <1>9, <1>10, <1>11, <1>12

LEMMA RetainStep == ASSUME TypeOK, TypeOK', Phases, Retain PROVE Phases'
<1>1. /\ in \in Input /\ in' = in /\ phase = "retain" /\ phase' = "done" /\ seen' = seen
      /\ L' = L /\ R' = R /\ P' = P /\ S' = S /\ gate' = gate /\ board' = board
  BY SweepAssumption DEF TypeOK, Retain
<1>2. AllDone
  BY <1>1 DEF Phases, InRetain
<1>3. AllDone'
  BY <1>1, <1>2 DEF AllDone, RightDone, LeftDone, GateDone, OnRow, Captured
<1>4. in.partial /\ in.bcaf => seen
  <2>1. \A x \in Leaf : RightWitness(in, N, x) => x \in in.interesting[N]
    BY <1>1, RightEnd
  <2>2. N \in 1 .. N
    BY Indices DEF Slice
  <2>3. QED
    BY <1>2, <2>1, <2>2 DEF AllDone, Captured
<1>5. \A i \in Slice : keep'[i] = Live(i, L[i], R[i], P[i], S[i])
  BY DEF Retain
<1>6. result' = IF \E i \in Slice : keep'[i] = {} THEN "exhausted" ELSE "supported"
  BY <1>4 DEF Retain
<1>7. ASSUME NEW i \in Slice, keep'[i] = {} PROVE Surviving(in) = {}
  <2>1. \A p \in Surviving(in) : p[i] \in Leaf
    BY DEF Surviving, Complete, Row
  <2>2. \A x \in Leaf : x \in keep'[i] <=> \E p \in Surviving(in) : p[i] = x
    BY <1>1, <1>2, <1>5, LiveOnRow DEF AllDone
  <2>3. QED
    BY <1>7, <2>1, <2>2
<1>8. \A i \in Slice : keep'[i] = Live(i, L[i], R[i], P[i], S[i])'
  BY <1>1, <1>5 DEF Live
<1>9. InDone'
  <2>1. result' \in {"supported", "exhausted"}
    BY <1>6
  <2>2. result' = "exhausted" => Surviving(in') = {}
    BY <1>1, <1>6, <1>7
  <2>3. result' = "supported" => \A i \in Slice : keep'[i] # {}
    BY <1>6
  <2>4. QED
    BY <1>1, <1>3, <1>4, <1>8, <2>1, <2>2, <2>3 DEF InDone
<1>10. QED
  BY <1>1, <1>9 DEF Phases, AtBoundary, InRight, InLeft, InRetain

LEMMA PhasesNext == TypeOK /\ TypeOK' /\ Phases /\ [Next]_vars => Phases'
<1> SUFFICES ASSUME TypeOK, TypeOK', Phases, [Next]_vars PROVE Phases'
  OBVIOUS
<1>1. CASE UNCHANGED vars
  <2>1. /\ in' = in /\ phase' = phase /\ at' = at /\ todo' = todo /\ L' = L /\ R' = R
        /\ P' = P /\ S' = S /\ gate' = gate /\ keep' = keep /\ board' = board /\ seen' = seen
        /\ result' = result
    BY <1>1 DEF vars
  <2>2. \A j : /\ RightDone(j)' <=> RightDone(j)
               /\ LeftDone(j)' <=> LeftDone(j)
               /\ GateDone(j)' <=> GateDone(j)
               /\ Captured(j)' <=> Captured(j)
    BY <2>1 DEF RightDone, LeftDone, GateDone, OnRow, Captured
  <2>3. /\ RightWalk' <=> RightWalk
        /\ LeftWalk' <=> LeftWalk
        /\ GateWalk' <=> GateWalk
    BY <2>1 DEF RightWalk, LeftWalk, GateWalk, OnRow, Visited
  <2>4. AtBoundary' /\ InRight'
    BY <2>1, <2>2, <2>3 DEF Phases, AtBoundary, InRight
  <2>5. InLeft'
    <3>1. Captured(at)' <=> Captured(at)
      BY <2>1 DEF Captured
    <3>2. QED
      BY <2>1, <2>2, <2>3, <3>1 DEF Phases, InLeft
  <2>6. InRetain' /\ InDone'
    <3>1. AllDone' <=> AllDone
      BY <2>1, <2>2 DEF AllDone, Captured
    <3>2. QED
      BY <2>1, <3>1 DEF Phases, InRetain, InDone, Live
  <2>7. QED
    BY <2>4, <2>5, <2>6 DEF Phases
<1>2. CASE LeftRelationDone
  BY <1>2, LeftRelationStep DEF TypeOK
<1>3. QED
  BY <1>1, <1>2, BoundaryStep, RightVisitStep, RightRelationStep, TurnAroundStep,
     LeftVisitStep, RetainStep DEF Next

\* IInv is inductive, so it holds in every reachable state.
THEOREM Invariance == Spec => []IInv
<1>1. Init => IInv
  BY TypeInit, PhasesInit DEF IInv, Phases
<1>2. IInv /\ [Next]_vars => IInv'
  BY TypeNext, PhasesNext DEF IInv, Phases
<1>3. QED
  BY <1>1, <1>2, PTL DEF Spec

-----------------------------------------------------------------------------
\* Retention keeps exactly the leaves on surviving rows, for every row and every
\* order of the workers' visits.
THEOREM RetentionCorrect == Spec => []RetentionExact
<1>1. IInv => RetentionExact
  <2> SUFFICES ASSUME IInv, result = "supported", NEW i \in Slice
               PROVE  keep[i] = {p[i] : p \in Surviving(in)}
    BY DEF RetentionExact
  <2>1. in \in Input /\ phase = "done" /\ keep[i] \subseteq Leaf
    <3>1. in \in Input /\ keep[i] \subseteq Leaf
      BY SweepAssumption DEF IInv, TypeOK
    <3>2. phase = "done"
      BY DEF IInv, TypeOK, AtBoundary, InRight, InLeft, InRetain
    <3>3. QED
      BY <3>1, <3>2
  <2>2. keep[i] = Live(i, L[i], R[i], P[i], S[i]) /\ RightDone(i) /\ LeftDone(i)
    BY <2>1 DEF IInv, InDone, AllDone
  <2>3. \A x \in Leaf : x \in keep[i] <=> \E p \in Surviving(in) : p[i] = x
    BY <2>1, <2>2, LiveOnRow
  <2>4. \A p \in Surviving(in) : p[i] \in Leaf
    BY DEF Surviving, Complete, Row
  <2>5. QED
    BY <2>1, <2>3, <2>4
<1>2. QED
  BY <1>1, Invariance, PTL

\* The surviving edges are exactly the steps of surviving rows.
THEOREM GateCorrect == Spec => []GateExact
<1>1. IInv => GateExact
  <2> SUFFICES ASSUME IInv, result = "supported", NEW i \in Relation
               PROVE  gate[i] = {<<p[i], p[i + 1]>> : p \in Surviving(in)}
    BY DEF GateExact
  <2>1. in \in Input /\ phase = "done" /\ gate[i] \subseteq Edge
    <3>1. in \in Input /\ gate[i] \subseteq Edge
      BY SweepAssumption DEF IInv, TypeOK
    <3>2. phase = "done"
      BY DEF IInv, TypeOK, AtBoundary, InRight, InLeft, InRetain
    <3>3. QED
      BY <3>1, <3>2
  <2>2. GateDone(i)
    BY <2>1 DEF IInv, InDone, AllDone
  <2>3. \A x, y \in Leaf :
          <<x, y>> \in gate[i] <=> \E p \in Surviving(in) : p[i] = x /\ p[i + 1] = y
    <3>1. TAKE x, y \in Leaf
    <3>2. (\E p \in Surviving(in) : p[i] = x /\ p[i + 1] = y) <=>
            /\ <<x, y>> \in in.edge[i] /\ LeftRow(in, i, x) /\ RightRow(in, i + 1, y)
            /\ in.bcaf => LeftWitness(in, i, x) \/ RightWitness(in, i + 1, y)
      BY <2>1, EdgeOnRow
    <3>3. QED
      BY <2>2, <3>2 DEF GateDone, OnRow
  <2>4. \A p \in Surviving(in) : p[i] \in Leaf /\ p[i + 1] \in Leaf
    BY Indices DEF Surviving, Complete, Row
  <2>5. QED
    BY <2>1, <2>3, <2>4 DEF Edge
<1>2. QED
  BY <1>1, Invariance, PTL

\* The search reports exhaustion exactly when no complete row survives.
THEOREM ExhaustionCorrect == Spec => []ExhaustionSound
<1>1. IInv => ExhaustionSound
  <2> SUFFICES ASSUME IInv
               PROVE  /\ result = "exhausted" => Surviving(in) = {}
                      /\ result = "supported" => Surviving(in) # {}
    BY DEF ExhaustionSound
  <2>1. in \in Input /\ (result \in {"exhausted", "supported"} => phase = "done")
    <3>1. in \in Input
      BY SweepAssumption DEF IInv, TypeOK
    <3>2. result \in {"exhausted", "supported"} => phase = "done"
      BY DEF IInv, TypeOK, AtBoundary, InRight, InLeft, InRetain
    <3>3. QED
      BY <3>1, <3>2
  <2>2. result = "exhausted" => Surviving(in) = {}
    BY <2>1 DEF IInv, InDone
  <2>3. result = "supported" => \E x \in Leaf : x \in keep[1]
    BY <2>1, Indices DEF IInv, TypeOK, InDone
  <2>4. result = "supported" =>
          /\ keep[1] = Live(1, L[1], R[1], P[1], S[1]) /\ RightDone(1) /\ LeftDone(1)
    BY <2>1, Indices DEF IInv, InDone, AllDone
  <2>5. QED
    BY <2>1, <2>2, <2>3, <2>4, LiveOnRow, Indices
<1>2. QED
  BY <1>1, Invariance, PTL

\* The reconstruction of a partial board never throws, and the board it returns is a
\* surviving row.
THEOREM CaptureCorrect == Spec => []CaptureSound
<1>1. IInv => CaptureSound
  <2> SUFFICES ASSUME IInv
               PROVE  /\ result # "logic_error"
                      /\ result = "supported" /\ in.partial => board \in Surviving(in)
    BY DEF CaptureSound
  <2>1. in \in Input /\ (result # "running" => phase = "done")
    <3>1. in \in Input
      BY SweepAssumption DEF IInv, TypeOK
    <3>2. result # "running" => phase = "done"
      BY DEF IInv, TypeOK, AtBoundary, InRight, InLeft, InRetain
    <3>3. QED
      BY <3>1, <3>2
  <2>2. result # "logic_error"
    BY <2>1 DEF IInv, InDone
  <2>3. ASSUME result = "supported", in.partial PROVE board \in Surviving(in)
    <3>1. Captured(N) /\ (in.bcaf => seen)
      BY <2>1, <2>3 DEF IInv, InDone, AllDone
    <3>2. board \in Row
      BY <2>3, <3>1 DEF Captured, IInv, TypeOK, Row, Slice
    <3>3. board[N] \in in.rightEdge
      <4>1. board[N] \in Leaf
        BY <3>2, Indices DEF Row
      <4>2. QED
        BY <2>1, <2>3, <3>1, <4>1, RightEnd DEF Captured
    <3>4. QED
      BY <2>3, <3>1, <3>2, <3>3 DEF Captured, Surviving, Complete, Slice
  <2>4. QED
    BY <2>2, <2>3
<1>2. QED
  BY <1>1, Invariance, PTL

\* The clause bytes of the retained leaves recover the surviving edges, so the next
\* row's walk meets no pair that this row rejected.
THEOREM ClausesCorrect == Spec => []ClausesRecoverGate
<1>1. IInv => ClausesRecoverGate
  <2> SUFFICES ASSUME IInv, result = "supported", NEW i \in Relation
               PROVE  FilteredEdges(i) = gate[i]
    BY DEF ClausesRecoverGate
  <2>1. /\ in \in Input /\ phase = "done" /\ gate[i] \subseteq Edge /\ in.edge[i] \subseteq Edge
        /\ i \in Slice /\ i + 1 \in Slice
    <3>1. in \in Input /\ gate[i] \subseteq Edge
      BY SweepAssumption DEF IInv, TypeOK
    <3>2. phase = "done"
      BY DEF IInv, TypeOK, AtBoundary, InRight, InLeft, InRetain
    <3>3. QED
      BY <3>1, <3>2, InputFields, Indices
  <2>2. /\ GateDone(i) /\ RightDone(i) /\ LeftDone(i) /\ RightDone(i + 1) /\ LeftDone(i + 1)
        /\ keep[i] = Live(i, L[i], R[i], P[i], S[i])
        /\ keep[i + 1] = Live(i + 1, L[i + 1], R[i + 1], P[i + 1], S[i + 1])
    BY <2>1 DEF IInv, InDone, AllDone
  <2>3. ASSUME NEW x \in Leaf, NEW y \in Leaf, <<x, y>> \in in.edge[i]
        PROVE  <<x, y>> \in FilteredEdges(i) <=> <<x, y>> \in gate[i]
    <3>1. /\ LeftRow(in, i, x) => x \in in.allowed[i]
          /\ RightRow(in, i + 1, y) => y \in in.allowed[i + 1]
      <4>1. i \in 1 .. i /\ i + 1 \in (i + 1) .. N
        BY <2>1, Indices DEF Slice
      <4>2. QED
        BY <4>1 DEF LeftRow, RightRow, Joins
    <3>2. LeftRow(in, i, x) /\ RightRow(in, i + 1, y) =>
            /\ RightRow(in, i, x) /\ LeftRow(in, i + 1, y)
            /\ LeftWitness(in, i, x) => LeftWitness(in, i + 1, y)
            /\ RightWitness(in, i + 1, y) => RightWitness(in, i, x)
      BY <2>1, <2>3, <3>1, LeftStep, RightStep
    <3>3. /\ x \in keep[i] <=> /\ LeftRow(in, i, x) /\ RightRow(in, i, x)
                               /\ in.bcaf => LeftWitness(in, i, x) \/ RightWitness(in, i, x)
          /\ y \in keep[i + 1] <=>
               /\ LeftRow(in, i + 1, y) /\ RightRow(in, i + 1, y)
               /\ in.bcaf => LeftWitness(in, i + 1, y) \/ RightWitness(in, i + 1, y)
      <4>1. x \in keep[i] <=> /\ LeftRow(in, i, x) /\ RightRow(in, i, x)
                              /\ in.bcaf => LeftWitness(in, i, x) \/ RightWitness(in, i, x)
        BY <2>1, <2>2, LiveOnRow, LeafOnRow
      <4>2. y \in keep[i + 1] <=>
              /\ LeftRow(in, i + 1, y) /\ RightRow(in, i + 1, y)
              /\ in.bcaf => LeftWitness(in, i + 1, y) \/ RightWitness(in, i + 1, y)
        BY <2>1, <2>2, LiveOnRow, LeafOnRow
      <4>3. QED
        BY <4>1, <4>2
    <3>4. <<x, y>> \in gate[i] <=> OnRow(i, x, y)
      BY <2>2, <2>3 DEF GateDone
    <3>5. <<x, y>> \in FilteredEdges(i) <=>
            /\ x \in keep[i] /\ y \in keep[i + 1]
            /\ in.bcaf => x \in P[i] \/ y \in S[i + 1]
      BY <2>3 DEF FilteredEdges
    <3>6. x \in keep[i] /\ y \in keep[i + 1] =>
            /\ x \in P[i] <=> in.bcaf /\ LeftWitness(in, i, x)
            /\ y \in S[i + 1] <=> in.bcaf /\ RightWitness(in, i + 1, y)
      BY <2>2 DEF Live, RightDone, LeftDone
    <3>7. QED
      BY <3>2, <3>3, <3>4, <3>5, <3>6 DEF OnRow
  <2>4. FilteredEdges(i) \subseteq in.edge[i] /\ gate[i] \subseteq in.edge[i]
    BY <2>2 DEF FilteredEdges, GateDone
  <2>5. QED
    BY <2>1, <2>3, <2>4 DEF Edge
<1>2. QED
  BY <1>1, Invariance, PTL

-----------------------------------------------------------------------------
(***************************************************************************)
(* Showing a partial board leaves the sweeps alone, so what is proved of   *)
(* them holds here too; with it, the reconstruction never loses its way,   *)
(* for every number of slices and every row.                               *)
(***************************************************************************)

\* What the sweeps promise.
Base ==
  /\ IInv /\ RetentionExact /\ GateExact /\ ExhaustionSound /\ CaptureSound /\ ClausesRecoverGate

PartialTyped ==
  /\ stage \in {"sweep", "mark", "follow", "shown", "logic_error"}
  /\ here \in Relation /\ lit \in BOOLEAN
  /\ suffix \in [Slice -> SUBSET Leaf]
  /\ image \in [Slice -> Leaf \cup {NoLeaf}]

\* The reconstruction begins with no marks, once the row has been retained.
Link ==
  /\ stage = "sweep" => suffix = Empty
  /\ stage # "sweep" => result = "supported"

\* Every mark is on a retained leaf and leads to an interesting one.
Led ==
  /\ suffix[N] \subseteq in.interesting[N]
  /\ \A k \in Slice : suffix[k] \subseteq keep[k]
  /\ \A k \in Relation : \A x \in suffix[k] :
       x \in in.interesting[k] \/ \E y \in suffix[k + 1] : <<x, y>> \in FilteredEdges(k)

\* The marks of slice k follow the row p.
Follows(p, k) == (\E j \in k .. N : p[j] \in in.interesting[j]) => p[k] \in suffix[k]

MarkInv ==
  stage = "mark" =>
    /\ in.bcaf /\ left \subseteq FilteredEdges(here)
    /\ \A p \in Surviving(in) :
         /\ \A k \in (here + 1) .. N : Follows(p, k)
         /\ <<p[here], p[here + 1]>> \notin left => Follows(p, here)

\* The image so far is a way through retained leaves that can be continued.
FollowInv ==
  stage = "follow" =>
    /\ \A j \in 1 .. here : image[j] \in keep[j]
    /\ \A j \in 1 .. (here - 1) : <<image[j], image[j + 1]>> \in FilteredEdges(j)
    /\ lit <=> (in.bcaf => \E j \in 1 .. here : image[j] \in in.interesting[j])
    /\ ~lit => image[here] \in suffix[here]

PInv == PartialTyped /\ Link /\ Led /\ MarkInv /\ FollowInv /\ PartialShown

-----------------------------------------------------------------------------
LEMMA SlicesAndRelations ==
  /\ N \in Nat /\ N > 1 /\ 1 \in Relation /\ N - 1 \in Relation /\ 1 \in Slice /\ N \in Slice
  /\ (N - 1) + 1 = N
  /\ \A k \in Relation : k \in Slice /\ k + 1 \in Slice /\ k \in Nat /\ k # N /\ k # k + 1
  BY SweepAssumption DEF Relation, Slice

LEMMA Fields ==
  ASSUME in \in Inputs
  PROVE  /\ \A i \in Relation : in.edge[i] \subseteq Leaf \X Leaf
         /\ in.bcaf \in BOOLEAN /\ in.partial \in BOOLEAN
  BY SweepAssumption DEF Input, Edge

\* What a retained row is made of.
LEMMA Retained ==
  ASSUME Base, result = "supported"
  PROVE  /\ \A i \in Slice : keep[i] = {p[i] : p \in Surviving(in)} /\ keep[i] \subseteq Leaf
         /\ \A i \in Relation : FilteredEdges(i) = {<<p[i], p[i + 1]>> : p \in Surviving(in)}
         /\ Surviving(in) # {} /\ in \in Inputs
<1>1. in \in Inputs /\ keep \in [Slice -> SUBSET Leaf]
  BY DEF Base, IInv, TypeOK
<1> QED
  BY <1>1 DEF Base, RetentionExact, GateExact, ExhaustionSound, ClausesRecoverGate

LEMMA RowFacts ==
  ASSUME NEW p \in Surviving(in)
  PROVE  /\ p \in [Slice -> Leaf] /\ p[1] \in in.leftEdge /\ p[N] \in in.rightEdge
         /\ \A i \in Slice : p[i] \in in.allowed[i]
         /\ \A i \in Relation : <<p[i], p[i + 1]>> \in in.edge[i]
         /\ in.bcaf => \E k \in Slice : p[k] \in in.interesting[k]
<1>1. p \in Complete(in) /\ (in.bcaf => \E k \in Slice : p[k] \in in.interesting[k])
  BY DEF Surviving
<1> QED
  BY <1>1 DEF Complete, Row, Joins, Slice, Relation

LEMMA EdgeFacts ==
  ASSUME Base, result = "supported", NEW i \in Relation
  PROVE  /\ \A e \in FilteredEdges(i) : /\ e[1] \in keep[i] /\ e[2] \in keep[i + 1]
                                        /\ e = <<e[1], e[2]>> /\ e \in in.edge[i]
         /\ \A x \in keep[i] : \E y \in Leaf : <<x, y>> \in FilteredEdges(i)
<1>1. i \in Slice /\ i + 1 \in Slice
  BY SlicesAndRelations
<1>2. ASSUME NEW e \in FilteredEdges(i)
      PROVE  e[1] \in keep[i] /\ e[2] \in keep[i + 1] /\ e = <<e[1], e[2]>> /\ e \in in.edge[i]
  <2>1. PICK p \in Surviving(in) : e = <<p[i], p[i + 1]>>
    BY Retained
  <2> QED
    BY <1>1, <2>1, Retained, RowFacts
<1>3. ASSUME NEW x \in keep[i]
      PROVE  \E y \in Leaf : <<x, y>> \in FilteredEdges(i)
  <2>1. PICK p \in Surviving(in) : x = p[i]
    BY <1>1, Retained
  <2>2. <<p[i], p[i + 1]>> \in FilteredEdges(i)
    BY Retained
  <2>3. p[i + 1] \in Leaf
    BY <1>1, RowFacts
  <2> QED
    BY <2>1, <2>2, <2>3
<1> QED
  BY <1>2, <1>3

\* A way through retained leaves from end to end is a surviving row.
LEMMA WayIsRow ==
  ASSUME Base, result = "supported", NEW q \in [Slice -> Leaf \cup {NoLeaf}],
         \A j \in Slice : q[j] \in keep[j],
         \A j \in Relation : <<q[j], q[j + 1]>> \in FilteredEdges(j),
         in.bcaf => \E j \in Slice : q[j] \in in.interesting[j]
  PROVE  q \in Surviving(in)
<1>1. q \in [Slice -> Leaf]
  BY Retained
<1>2. \A j \in Slice : q[j] \in in.allowed[j]
  <2> SUFFICES ASSUME NEW j \in Slice PROVE q[j] \in in.allowed[j]
    OBVIOUS
  <2>1. PICK p \in Surviving(in) : q[j] = p[j]
    BY Retained
  <2> QED
    BY <2>1, RowFacts
<1>3. q[1] \in in.leftEdge
  <2>1. PICK p \in Surviving(in) : q[1] = p[1]
    BY Retained, SlicesAndRelations
  <2> QED
    BY <2>1, RowFacts
<1>4. q[N] \in in.rightEdge
  <2>1. PICK p \in Surviving(in) : q[N] = p[N]
    BY Retained, SlicesAndRelations
  <2> QED
    BY <2>1, RowFacts
<1>5. \A j \in Relation : <<q[j], q[j + 1]>> \in in.edge[j]
  BY EdgeFacts
<1>6. Joins(in, q, 1, N)
  BY <1>2, <1>5 DEF Joins, Slice, Relation
<1> QED
  BY <1>1, <1>3, <1>4, <1>6 DEF Surviving, Complete, Row

\* A reconstruction does not touch the row.
LEMMA RowKept ==
  ASSUME UNCHANGED vars
  PROVE  /\ in' = in /\ keep' = keep /\ result' = result
         /\ Surviving(in)' = Surviving(in)
         /\ \A i \in Relation : FilteredEdges(i)' = FilteredEdges(i)
         /\ FilteredEdges(here)' = FilteredEdges(here')
  BY DEF vars, FilteredEdges

LEMMA PartialStart == PartialInit => PInv
<1> SUFFICES ASSUME PartialInit PROVE PInv
  OBVIOUS
<1>1. /\ stage = "sweep" /\ here = N - 1 /\ suffix = Empty /\ image = [i \in Slice |-> NoLeaf]
      /\ lit = FALSE
  BY DEF PartialInit
<1>2. \A k \in Slice : suffix[k] = {}
  BY <1>1 DEF Empty
<1>3. PartialTyped
  BY <1>1, SlicesAndRelations DEF PartialTyped, Empty
<1>4. Led
  BY <1>2, SlicesAndRelations DEF Led
<1> QED
  BY <1>1, <1>3, <1>4 DEF PInv, Link, MarkInv, FollowInv, PartialShown

\* Behind the row the sweeps have nothing left to do.
LEMMA SweepingKeeps == ASSUME PInv, Base, Sweeping PROVE PInv'
<1>1. Next /\ UNCHANGED partial
  BY DEF Sweeping
<1>2. phase # "done"
  BY <1>1 DEF Next, MarkBoundaries, RightVisit, RightRelationDone, TurnAround, LeftVisit,
              LeftRelationDone, Retain
<1>3. result = "running"
  BY <1>2 DEF Base, IInv, TypeOK, AtBoundary, InRight, InLeft, InRetain
<1>4. stage = "sweep" /\ suffix = Empty
  BY <1>3 DEF PInv, Link
<1>5. stage' = stage /\ suffix' = suffix /\ here' = here /\ image' = image /\ lit' = lit
  BY <1>1 DEF partial
<1>6. \A k \in Slice : suffix'[k] = {}
  BY <1>4, <1>5 DEF Empty
<1>7. Led'
  BY <1>6, SlicesAndRelations DEF Led
<1> QED
  BY <1>4, <1>5, <1>7 DEF PInv, PartialTyped, Link, MarkInv, FollowInv, PartialShown

LEMMA RecallKeeps == ASSUME PInv, Base, Recall PROVE PInv'
<1>1. /\ UNCHANGED vars /\ result = "supported" /\ in.partial /\ stage' = "shown" /\ image' = board
      /\ here' = here /\ suffix' = suffix /\ lit' = lit
  BY DEF Recall
<1>2. board \in Surviving(in)
  BY <1>1 DEF Base, CaptureSound
<1>3. image' \in [Slice -> Leaf]
  BY <1>1, <1>2, RowFacts
<1>4. PartialTyped'
  BY <1>1, <1>3 DEF PInv, PartialTyped
<1>5. Led'
  BY <1>1, RowKept DEF PInv, Led
<1> QED
  BY <1>1, <1>2, <1>4, <1>5, RowKept DEF PInv, Link, MarkInv, FollowInv, PartialShown

LEMMA RebuildAnyKeeps == ASSUME PInv, Base, RebuildAny PROVE PInv'
<1>1. /\ UNCHANGED vars /\ stage = "sweep" /\ result = "supported" /\ ~in.bcaf
      /\ stage' = "follow" /\ here' = 1 /\ lit' = TRUE /\ suffix' = suffix
  BY DEF RebuildAny
<1>2. PICK x \in keep[1] : image' = [image EXCEPT ![1] = x]
  BY DEF RebuildAny
<1>3. x \in Leaf /\ 1 \in Slice /\ image \in [Slice -> Leaf \cup {NoLeaf}]
  BY <1>1, <1>2, Retained, SlicesAndRelations DEF PInv, PartialTyped
<1>4. image' \in [Slice -> Leaf \cup {NoLeaf}] /\ image'[1] = x
  BY <1>2, <1>3
<1>5. PartialTyped'
  BY <1>1, <1>4, SlicesAndRelations DEF PInv, PartialTyped
<1>6. Led'
  BY <1>1, RowKept DEF PInv, Led
<1>7. FollowInv'
  <2>1. 1 .. 1 = {1} /\ 1 .. (1 - 1) = {}
    OBVIOUS
  <2>2. /\ \A j \in 1 .. here' : image'[j] \in keep'[j]
        /\ \A j \in 1 .. (here' - 1) : <<image'[j], image'[j + 1]>> \in FilteredEdges(j)'
    BY <1>1, <1>2, <1>4, <2>1, RowKept
  <2>3. lit' /\ ~in'.bcaf
    BY <1>1, RowKept
  <2> QED
    BY <2>2, <2>3 DEF FollowInv
<1> QED
  BY <1>1, <1>5, <1>6, <1>7, RowKept DEF PInv, Link, MarkInv, PartialShown

LEMMA RebuildInterestingKeeps == ASSUME PInv, Base, RebuildInteresting PROVE PInv'
<1>1. /\ UNCHANGED vars /\ stage = "sweep" /\ result = "supported" /\ in.bcaf
      /\ suffix' = [suffix EXCEPT ![N] = keep[N] \cap in.interesting[N]]
      /\ stage' = "mark" /\ here' = N - 1 /\ left' = FilteredEdges(N - 1)
      /\ image' = image /\ lit' = lit
  BY DEF RebuildInteresting
<1>2. suffix = Empty
  BY <1>1 DEF PInv, Link
<1>3. keep[N] \subseteq Leaf
  BY <1>1, Retained, SlicesAndRelations
<1>4. /\ suffix'[N] = keep[N] \cap in.interesting[N] /\ suffix' \in [Slice -> SUBSET Leaf]
      /\ \A k \in Slice \ {N} : suffix'[k] = {}
  BY <1>1, <1>2, <1>3, SlicesAndRelations DEF Empty
<1>5. PartialTyped'
  BY <1>1, <1>4, SlicesAndRelations DEF PInv, PartialTyped
<1>6. Led'
  BY <1>1, <1>4, SlicesAndRelations, RowKept DEF Led
<1>7. MarkInv'
  <2>1. (here' + 1) .. N = {N} /\ here' + 1 = N /\ N .. N = {N}
    BY <1>1, SlicesAndRelations
  <2>2. ASSUME NEW p \in Surviving(in)
        PROVE  Follows(p, N)' /\ <<p[here'], p[here' + 1]>> \in left'
    <3>1. p[N] \in keep[N] /\ <<p[N - 1], p[(N - 1) + 1]>> \in FilteredEdges(N - 1)
      BY <1>1, Retained, SlicesAndRelations
    <3> QED
      BY <1>1, <1>4, <2>1, <3>1, RowKept, SlicesAndRelations DEF Follows
  <2>3. in'.bcaf /\ left' \subseteq FilteredEdges(here)'
    BY <1>1, RowKept, SlicesAndRelations
  <2> QED
    BY <1>1, <2>1, <2>2, <2>3, RowKept DEF MarkInv
<1> QED
  BY <1>1, <1>5, <1>6, <1>7, RowKept DEF PInv, Link, FollowInv, PartialShown

\* A mark goes to the left leaf of an edge if it is interesting or leads to a mark.
LEMMA MarkKeeps == ASSUME PInv, Base, NEW e \in left, Mark(e) PROVE PInv'
<1>1. /\ UNCHANGED vars /\ stage = "mark" /\ stage' = stage /\ here' = here /\ left' = left \ {e}
      /\ image' = image /\ lit' = lit /\ result = "supported"
  BY DEF Mark, PInv, Link
<1>2. /\ here \in Relation /\ here \in Slice /\ here + 1 \in Slice /\ here # N /\ here # here + 1
      /\ here \in Nat /\ suffix \in [Slice -> SUBSET Leaf] /\ Led /\ in.bcaf
      /\ left \subseteq FilteredEdges(here)
  BY <1>1, SlicesAndRelations DEF PInv, PartialTyped, MarkInv
<1>3. e \in FilteredEdges(here) /\ e = <<e[1], e[2]>> /\ e[1] \in keep[here] /\ e[1] \in Leaf
  <2>1. e \in FilteredEdges(here)
    BY <1>2
  <2>2. e[1] \in keep[here] /\ e = <<e[1], e[2]>>
    BY <1>1, <1>2, <2>1, EdgeFacts
  <2> QED
    BY <1>1, <1>2, <2>1, <2>2, Retained
<1> DEFINE sets == e[2] \in suffix[here + 1] \/ e[1] \in in.interesting[here]
           new == IF sets THEN suffix[here] \cup {e[1]} ELSE suffix[here]
<1>4. suffix' = [suffix EXCEPT ![here] = new]
  BY DEF Mark
<1>5. new \subseteq Leaf /\ suffix[here] \subseteq new /\ (sets => e[1] \in new)
      /\ \A x \in new : x \in suffix[here] \/ (x = e[1] /\ sets)
  BY <1>2, <1>3
<1> HIDE DEF new
<1>6. suffix' \in [Slice -> SUBSET Leaf] /\ suffix'[here] = new
      /\ \A k \in Slice \ {here} : suffix'[k] = suffix[k]
  BY <1>2, <1>4, <1>5
<1>7. PartialTyped'
  BY <1>1, <1>6 DEF PInv, PartialTyped
<1>8. Led'
  <2>1. suffix'[N] \subseteq in'.interesting[N]
    BY <1>1, <1>2, <1>6, SlicesAndRelations, RowKept DEF Led
  <2>2. \A k \in Slice : suffix'[k] \subseteq keep'[k]
    BY <1>1, <1>2, <1>3, <1>5, <1>6, RowKept DEF Led
  <2>3. ASSUME NEW k \in Relation, NEW x \in suffix'[k]
        PROVE  x \in in.interesting[k] \/ \E y \in suffix'[k + 1] : <<x, y>> \in FilteredEdges(k)
    <3>1. k \in Slice /\ k + 1 \in Slice /\ suffix[k + 1] \subseteq suffix'[k + 1]
      BY <1>5, <1>6, SlicesAndRelations
    <3>2. CASE x \in suffix[k]
      BY <1>2, <3>1, <3>2 DEF Led
    <3>3. CASE k = here /\ x = e[1] /\ sets
      <4>1. suffix'[here + 1] = suffix[here + 1]
        BY <1>2, <1>6
      <4> QED
        BY <1>3, <3>3, <4>1
    <3> QED
      BY <1>5, <1>6, <2>3, <3>1, <3>2, <3>3
  <2> QED
    BY <1>1, <2>1, <2>2, <2>3, RowKept DEF Led
<1>9. ASSUME NEW p \in Surviving(in)
      PROVE  /\ \A k \in (here + 1) .. N : Follows(p, k)'
             /\ <<p[here], p[here + 1]>> \notin left' => Follows(p, here)'
  <2>1. \A k \in (here + 1) .. N : Follows(p, k) /\ k \in Slice \ {here}
    <3>1. \A k \in (here + 1) .. N : Follows(p, k)
      BY <1>1 DEF PInv, MarkInv
    <3>2. \A k \in (here + 1) .. N : k \in Slice /\ k # here
      BY <1>2, SlicesAndRelations DEF Slice, Relation
    <3> QED
      BY <3>1, <3>2
  <2>2. \A k \in (here + 1) .. N : Follows(p, k)'
    BY <1>1, <1>6, <2>1, RowKept DEF Follows
  <2>3. CASE <<p[here], p[here + 1]>> \notin left
    <3>1. Follows(p, here)
      BY <1>1, <2>3 DEF PInv, MarkInv
    <3> QED
      BY <1>1, <1>5, <1>6, <2>2, <3>1, RowKept DEF Follows
  <2>4. CASE <<p[here], p[here + 1]>> = e
    <3>1. e[1] = p[here] /\ e[2] = p[here + 1]
      BY <2>4
    <3>2. \A j \in here .. N : j = here \/ j \in (here + 1) .. N
      BY <1>2
    <3>3. here + 1 \in (here + 1) .. N
      BY <1>2, SlicesAndRelations DEF Relation
    <3>4. (\E j \in here .. N : p[j] \in in.interesting[j]) => sets
      BY <2>1, <3>1, <3>2, <3>3 DEF Follows
    <3>5. Follows(p, here)'
      BY <1>1, <1>5, <1>6, <3>1, <3>4, RowKept DEF Follows
    <3> QED
      BY <2>2, <3>5
  <2> QED
    BY <1>1, <2>2, <2>3, <2>4
<1>10. MarkInv'
  <2>1. left' \subseteq FilteredEdges(here)'
    BY <1>1, <1>2, RowKept
  <2> QED
    BY <1>1, <1>2, <1>9, <2>1, RowKept DEF MarkInv
<1> QED
  BY <1>1, <1>7, <1>8, <1>10, RowKept DEF PInv, Link, FollowInv, PartialShown

LEMMA MarkDoneKeeps == ASSUME PInv, Base, MarkDone PROVE PInv'
<1>1. /\ UNCHANGED vars /\ stage = "mark" /\ stage' = stage /\ left = {} /\ here > 1
      /\ here' = here - 1 /\ left' = FilteredEdges(here - 1)
      /\ suffix' = suffix /\ image' = image /\ lit' = lit /\ result = "supported"
  BY DEF MarkDone, PInv, Link
<1>2. here \in Relation /\ here \in Nat /\ here - 1 \in Relation /\ (here - 1) + 1 = here
  BY <1>1, SlicesAndRelations DEF PInv, PartialTyped, Relation
<1>3. ASSUME NEW p \in Surviving(in)
      PROVE  (\A k \in here .. N : Follows(p, k)') /\ <<p[here - 1], p[here]>> \in left'
  <2>1. \A k \in here .. N : k = here \/ k \in (here + 1) .. N
    BY <1>2
  <2>2. \A k \in here .. N : Follows(p, k)
    BY <1>1, <2>1 DEF PInv, MarkInv
  <2>3. <<p[here - 1], p[here]>> \in FilteredEdges(here - 1)
    BY <1>1, <1>2, Retained
  <2> QED
    BY <1>1, <2>2, <2>3, RowKept DEF Follows
<1>4. MarkInv'
  <2>1. left' \subseteq FilteredEdges(here)'
    BY <1>1, <1>2, RowKept
  <2>2. in'.bcaf
    BY <1>1, RowKept DEF PInv, MarkInv
  <2> QED
    BY <1>1, <1>2, <1>3, <2>1, <2>2, RowKept DEF MarkInv
<1>5. PartialTyped' /\ Led'
  BY <1>1, <1>2, RowKept DEF PInv, PartialTyped, Led
<1> QED
  BY <1>1, <1>4, <1>5, RowKept DEF PInv, Link, FollowInv, PartialShown

\* Some leaf of the first slice is marked, because some row survives.
LEMMA BeginKeeps == ASSUME PInv, Base, Begin PROVE PInv'
<1>1. /\ UNCHANGED vars /\ stage = "mark" /\ left = {} /\ here = 1 /\ here' = here
      /\ suffix' = suffix /\ result = "supported" /\ in.bcaf /\ Led
  BY DEF Begin, PInv, Link, MarkInv
<1>2. suffix[1] # {}
  <2>1. PICK p \in Surviving(in) : TRUE
    BY <1>1, Retained
  <2>2. Follows(p, 1)
    BY <1>1 DEF PInv, MarkInv
  <2>3. \E k \in 1 .. N : p[k] \in in.interesting[k]
    BY <1>1, RowFacts DEF Slice
  <2> QED
    BY <2>2, <2>3 DEF Follows
<1>3. PICK x \in suffix[1] : /\ image' = [image EXCEPT ![1] = x]
                             /\ lit' = (x \in in.interesting[1]) /\ stage' = "follow"
  BY <1>2 DEF Begin
<1>4. x \in keep[1] /\ x \in Leaf /\ 1 \in Slice /\ image \in [Slice -> Leaf \cup {NoLeaf}]
  BY <1>1, <1>3, Retained, SlicesAndRelations DEF PInv, PartialTyped, Led
<1>5. image' \in [Slice -> Leaf \cup {NoLeaf}] /\ image'[1] = x
  BY <1>3, <1>4
<1>6. PartialTyped'
  BY <1>1, <1>3, <1>5 DEF PInv, PartialTyped
<1>7. Led'
  BY <1>1, RowKept DEF Led
<1>8. FollowInv'
  <2>1. 1 .. 1 = {1} /\ 1 .. (1 - 1) = {}
    OBVIOUS
  <2>2. /\ \A j \in 1 .. here' : image'[j] \in keep'[j]
        /\ \A j \in 1 .. (here' - 1) : <<image'[j], image'[j + 1]>> \in FilteredEdges(j)'
    BY <1>1, <1>4, <1>5, <2>1, RowKept
  <2>3. lit' <=> (in'.bcaf => \E j \in 1 .. here' : image'[j] \in in'.interesting[j])
    BY <1>1, <1>3, <1>5, <2>1, RowKept
  <2>4. image'[here'] \in suffix'[here']
    BY <1>1, <1>3, <1>5
  <2> QED
    BY <2>2, <2>3, <2>4 DEF FollowInv
<1> QED
  BY <1>1, <1>3, <1>6, <1>7, <1>8, RowKept DEF PInv, Link, MarkInv, PartialShown

\* The way goes on: any retained leaf has a successor, a marked one a marked successor
\* until an interesting leaf is found; found or not, the last slice settles it.
LEMMA FollowKeeps == ASSUME PInv, Base, Follow PROVE PInv'
<1>1. /\ UNCHANGED vars /\ stage = "follow" /\ result = "supported" /\ suffix' = suffix /\ Led
      /\ FollowInv
  BY DEF Follow, PInv, Link
<1>2. /\ here \in Relation /\ here \in Slice /\ here + 1 \in Slice /\ here \in Nat /\ here # here + 1
      /\ image \in [Slice -> Leaf \cup {NoLeaf}] /\ suffix \in [Slice -> SUBSET Leaf] /\ lit \in BOOLEAN
      /\ here \in 1 .. here /\ here + 1 \in 1 .. (here + 1) /\ N \in Nat
      /\ \A j \in 1 .. here : j \in Slice /\ j # here + 1
      /\ \A j \in 1 .. (here + 1) : j \in 1 .. here \/ j = here + 1
      /\ \A j \in 1 .. here : j \in 1 .. (here - 1) \/ j = here
      /\ \A j \in 1 .. (here - 1) : j \in 1 .. here /\ j + 1 \in 1 .. here
  BY <1>1, SlicesAndRelations DEF PInv, PartialTyped, Slice, Relation
<1>3. ~lit => in.bcaf /\ \A j \in 1 .. here : image[j] \notin in.interesting[j]
  BY <1>1 DEF FollowInv
<1>4. Successors # {}
  <2>1. CASE lit
    <3>1. image[here] \in keep[here]
      BY <1>1, <1>2 DEF FollowInv
    <3>2. PICK y \in Leaf : <<image[here], y>> \in FilteredEdges(here)
      BY <1>1, <1>2, <3>1, EdgeFacts
    <3> QED
      BY <2>1, <3>2 DEF Successors
  <2>2. CASE ~lit
    <3>1. image[here] \in suffix[here] /\ image[here] \notin in.interesting[here]
      BY <1>1, <1>2, <1>3, <2>2 DEF FollowInv
    <3>2. PICK y \in suffix[here + 1] : <<image[here], y>> \in FilteredEdges(here)
      BY <1>1, <1>2, <3>1 DEF Led
    <3>3. y \in Leaf
      BY <1>2, <3>2
    <3> QED
      BY <3>2, <3>3 DEF Successors
  <2> QED
    BY <2>1, <2>2
<1>5. PICK y \in Successors :
        /\ image' = [image EXCEPT ![here + 1] = y]
        /\ lit' = (lit \/ y \in in.interesting[here + 1])
        /\ IF here < N - 1 THEN here' = here + 1 /\ stage' = stage
           ELSE /\ stage' = IF lit \/ y \in in.interesting[here + 1] THEN "shown" ELSE "logic_error"
                /\ here' = here
  BY <1>4 DEF Follow
<1>6. /\ y \in Leaf /\ <<image[here], y>> \in FilteredEdges(here) /\ y \in keep[here + 1]
      /\ lit \/ y \in suffix[here + 1]
  <2>1. y \in Leaf /\ <<image[here], y>> \in FilteredEdges(here) /\ (lit \/ y \in suffix[here + 1])
    BY <1>5 DEF Successors
  <2> QED
    BY <1>1, <1>2, <2>1, EdgeFacts
<1>7. /\ image' \in [Slice -> Leaf \cup {NoLeaf}] /\ image'[here + 1] = y
      /\ \A j \in 1 .. here : image'[j] = image[j]
  BY <1>2, <1>5, <1>6
<1>8. \A j \in 1 .. (here + 1) : image'[j] \in keep[j]
  BY <1>1, <1>2, <1>6, <1>7 DEF FollowInv
<1>9. \A j \in 1 .. here : <<image'[j], image'[j + 1]>> \in FilteredEdges(j)
  BY <1>1, <1>2, <1>6, <1>7 DEF FollowInv
<1>10. lit' <=> (in.bcaf => \E j \in 1 .. (here + 1) : image'[j] \in in.interesting[j])
  <2>1. (\E j \in 1 .. (here + 1) : image'[j] \in in.interesting[j])
          <=> (\E j \in 1 .. here : image[j] \in in.interesting[j]) \/ y \in in.interesting[here + 1]
    BY <1>2, <1>7
  <2>2. lit <=> (in.bcaf => \E j \in 1 .. here : image[j] \in in.interesting[j])
    BY <1>1 DEF FollowInv
  <2> QED
    BY <1>3, <1>5, <2>1, <2>2
<1>11. lit' \in BOOLEAN /\ (~lit' => y \in suffix[here + 1] /\ y \notin in.interesting[here + 1])
  BY <1>2, <1>5, <1>6
<1>12. Led'
  BY <1>1, RowKept DEF Led
<1>13. CASE here < N - 1
  <2>1. here' = here + 1 /\ stage' = stage /\ here' \in Relation /\ here' - 1 = here
    BY <1>2, <1>5, <1>13 DEF Relation
  <2>2. PartialTyped'
    BY <1>1, <1>2, <1>7, <1>11, <2>1 DEF PInv, PartialTyped
  <2>3. FollowInv'
    <3>1. \A j \in 1 .. here' : image'[j] \in keep'[j]
      BY <1>1, <1>8, <2>1, RowKept
    <3>2. \A j \in 1 .. (here' - 1) : <<image'[j], image'[j + 1]>> \in FilteredEdges(j)'
      <4>1. \A j \in 1 .. here : j \in Relation
        BY <1>2 DEF Relation
      <4> QED
        BY <1>1, <1>9, <2>1, <4>1, RowKept
    <3>3. lit' <=> (in'.bcaf => \E j \in 1 .. here' : image'[j] \in in'.interesting[j])
      BY <1>1, <1>10, <2>1, RowKept
    <3>4. ~lit' => image'[here'] \in suffix'[here']
      BY <1>1, <1>7, <1>11, <2>1
    <3> QED
      BY <3>1, <3>2, <3>3, <3>4 DEF FollowInv
  <2> QED
    BY <1>1, <1>12, <2>1, <2>2, <2>3, RowKept DEF PInv, Link, MarkInv, PartialShown
<1>14. CASE ~(here < N - 1)
  <2>1. here = N - 1 /\ here + 1 = N /\ here' = here
    BY <1>2, <1>5, <1>14 DEF Relation
  <2>2. lit'
    BY <1>1, <1>11, <2>1 DEF Led
  <2>3. stage' = "shown"
    BY <1>5, <1>14, <2>2
  <2>4. image' \in Surviving(in)
    <3>1. \A j \in Slice : image'[j] \in keep[j]
      BY <1>8, <2>1 DEF Slice
    <3>2. \A j \in Relation : <<image'[j], image'[j + 1]>> \in FilteredEdges(j)
      BY <1>9, <2>1 DEF Relation
    <3>3. in.bcaf => \E j \in Slice : image'[j] \in in.interesting[j]
      BY <1>10, <2>1, <2>2 DEF Slice
    <3> QED
      BY <1>1, <1>7, <3>1, <3>2, <3>3, WayIsRow
  <2>5. PartialTyped'
    BY <1>1, <1>2, <1>7, <1>11, <2>1, <2>3 DEF PInv, PartialTyped
  <2> QED
    BY <1>1, <1>12, <2>3, <2>4, <2>5, RowKept DEF PInv, Link, MarkInv, FollowInv, PartialShown
<1> QED
  BY <1>13, <1>14

LEMMA PartialKeeps == PInv /\ Base /\ [PartialNext]_allVars => PInv'
<1> SUFFICES ASSUME PInv, Base, [PartialNext]_allVars PROVE PInv'
  OBVIOUS
<1>1. CASE PartialNext
  <2>1. ASSUME NEW e \in left, Mark(e) PROVE PInv'
    BY <2>1, MarkKeeps
  <2> QED
    BY <1>1, <2>1, SweepingKeeps, RecallKeeps, RebuildAnyKeeps, RebuildInterestingKeeps,
       MarkDoneKeeps, BeginKeeps, FollowKeeps DEF PartialNext
<1>2. CASE UNCHANGED allVars
  <2>1. UNCHANGED vars /\ stage' = stage /\ here' = here /\ left' = left /\ suffix' = suffix
        /\ image' = image /\ lit' = lit
    BY <1>2 DEF allVars, partial
  <2>2. PartialTyped' /\ Link'
    BY <2>1, RowKept DEF PInv, PartialTyped, Link
  <2>3. Led'
    BY <2>1, RowKept DEF PInv, Led
  <2>4. here \in Relation /\ \A j \in 1 .. (here - 1) : j \in Relation
    BY SlicesAndRelations DEF PInv, PartialTyped, Relation
  <2>5. FilteredEdges(here)' = FilteredEdges(here)
    BY <2>1, RowKept
  <2>6. MarkInv'
    BY <2>1, <2>5, RowKept DEF PInv, MarkInv, Follows
  <2>7. FollowInv'
    BY <2>1, <2>4, RowKept DEF PInv, FollowInv
  <2> QED
    BY <2>1, <2>2, <2>3, <2>6, <2>7, RowKept DEF PInv, PartialShown
<1> QED
  BY <1>1, <1>2

\* The sweeps under the partial board are the sweeps.
LEMMA SweepsBelow == PartialSpec => Spec
<1>1. PartialInit => Init
  BY DEF PartialInit
<1>2. [PartialNext]_allVars => [Next]_vars
  BY DEF PartialNext, Sweeping, Recall, RebuildAny, RebuildInteresting, Mark, MarkDone, Begin,
         Follow, allVars
<1> QED
  BY <1>1, <1>2, PTL DEF PartialSpec, Spec

\* The board shown is a surviving row and neither exception is thrown, for every
\* number of slices, every row and every order of the marks.
THEOREM PartialCorrect == PartialSpec => []PartialShown
<1>1. Spec => []Base
  BY Invariance, RetentionCorrect, GateCorrect, ExhaustionCorrect, CaptureCorrect, ClausesCorrect,
     PTL DEF Base
<1>2. PInv => PartialShown
  BY DEF PInv
<1> QED
  BY <1>1, <1>2, SweepsBelow, PartialStart, PartialKeeps, PTL DEF PartialSpec
=============================================================================
