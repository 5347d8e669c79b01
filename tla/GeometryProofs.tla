--------------------------- MODULE GeometryProofs ---------------------------
(***************************************************************************)
(* The search lattice, for every movement and all columns.  In order:      *)
(*   - division, extended_gcd and the physical cells of a shift;           *)
(*   - the lattice: its points are the places of all physical cells, and   *)
(*     they repeat by whole tiles in U, V and W;                           *)
(*   - what is closed under the generators of build_spots is a whole tile, *)
(*     and a tile has subtile_count spots, so that parse never throws      *)
(*     "geometry lattice has the wrong determinant";                       *)
(*   - the inductive invariant of parse, with a part for each of its       *)
(*     loops;                                                              *)
(*   - columns and depths, reflections, and the generations of the rows;   *)
(* then the acceptance tables compiled for it, for every pair of edges:    *)
(*   - rows, their cells and mirror images some tiles above: no cell of an *)
(*     equation of the candidate lies above the history window;            *)
(*   - greedy grouping keeps every item and the budget;                    *)
(*   - the interior: no two reads of a cell, equations as on the physical  *)
(*     cells, five rows a key;                                             *)
(*   - an edge: at most two reads of a cell, equations and ties as on the  *)
(*     physical mirror image, ten bits a key;                              *)
(*   - the compact lookups, and the inductive invariant of build.          *)
(***************************************************************************)
EXTENDS GeometryAcceptance, TLAPS, FiniteSetTheorems, WellFoundedInduction

\* The divisors that the loop of extended_gcd keeps.
Common(a, b) == {d \in Nat \ {0} : Divides(d, a) /\ Divides(d, b)}

Looping ==
  /\ displacement \in Nat /\ period \in Nat \ {0}
  /\ old_r \in Nat /\ r \in Nat /\ old_r + r > 0
  /\ {old_x, x, old_y, y} \subseteq Int
  /\ gcd = std_gcd(displacement, period)
  /\ old_r = (displacement * old_x) + (period * old_y)
  /\ r = (displacement * x) + (period * y)
  /\ Common(old_r, r) = Common(displacement, period)

Constructed ==
  /\ displacement \in Nat /\ period \in Nat \ {0}
  /\ gcd = std_gcd(displacement, period) /\ gcd \in Nat \ {0}
  /\ Divides(gcd, displacement) /\ Divides(gcd, period)
  /\ subtile_count = (IF diagonal THEN 2 ELSE 1) * gcd
  /\ w_time \in Int /\ w_space \in Int
  /\ (displacement * w_time) + (period * w_space) = gcd

-----------------------------------------------------------------------------
\* Division.
LEMMA Division ==
  ASSUME NEW n \in Int, NEW d \in Nat \ {0}
  PROVE  /\ n \div d \in Int /\ n % d \in 0 .. (d - 1)
         /\ n = (d * (n \div d)) + (n % d)
  OBVIOUS

LEMMA Quotients ==
  ASSUME NEW d \in Nat \ {0}, NEW p \in Int, NEW q \in Int, NEW s \in Int,
         0 <= s + (d * (p - q)), s + (d * (p - q)) < d, 0 <= s, s < d
  PROVE  p = q
<1>1. CASE p > q
  <2>1. d * (p - q) >= d
    <3>1. p - q >= 1
      BY <1>1
    <3> QED
      BY <3>1
  <2> QED
    BY <2>1
<1>2. CASE q > p
  <2>1. d * (q - p) >= d
    <3>1. q - p >= 1
      BY <1>2
    <3> QED
      BY <3>1
  <2>2. d * (p - q) = -(d * (q - p))
    OBVIOUS
  <2> QED
    BY <2>1, <2>2
<1> QED
  BY <1>1, <1>2

\* A number has one quotient.
LEMMA QuotientUnique ==
  ASSUME NEW n \in Int, NEW d \in Nat \ {0}, NEW q \in Int, NEW s \in 0 .. (d - 1), n = (d * q) + s
  PROVE  n \div d = q /\ n % d = s
<1> DEFINE p == n \div d
           t == n % d
<1>1. p \in Int /\ t \in 0 .. (d - 1) /\ n = (d * p) + t
  BY Division
<1> HIDE DEF p, t
<1>2. d * (p - q) = (d * p) - (d * q)
  BY <1>1
<1>3. t + (d * (p - q)) = s
  BY <1>1, <1>2
<1>4. p = q
  BY <1>1, <1>3, Quotients
<1>5. t = s
  BY <1>1, <1>4
<1> QED
  BY <1>4, <1>5 DEF p, t

LEMMA DividesFactor ==
  ASSUME NEW n \in Int, NEW d \in Nat \ {0}
  PROVE  Divides(d, n) <=> \E k \in Int : n = d * k
<1>1. ASSUME Divides(d, n) PROVE \E k \in Int : n = d * k
  <2>1. n = d * (n \div d)
    BY <1>1, Division DEF Divides
  <2> QED
    BY <2>1, Division
<1>2. ASSUME NEW k \in Int, n = d * k PROVE Divides(d, n)
  <2>1. 0 \in 0 .. (d - 1) /\ n = (d * k) + 0
    BY <1>2
  <2> QED
    BY <2>1, QuotientUnique DEF Divides
<1> QED
  BY <1>1, <1>2

\* The division of the code and its remainder, for a positive divisor.
LEMMA FloorDivision ==
  ASSUME NEW n \in Int, NEW d \in Nat \ {0}
  PROVE  floor_div(n, d) = n \div d /\ floor_mod(n, d) = n % d
<1>1. CASE n >= 0
  <2> DEFINE q == n \div d
             s == n % d
  <2>1. q \in Int /\ s \in 0 .. (d - 1) /\ n = (d * q) + s
    BY Division
  <2>2. Quotient(n, d) = q
    BY <1>1 DEF Quotient
  <2> HIDE DEF q, s
  <2>3. Remainder(n, d) = s
    BY <2>1, <2>2 DEF Remainder
  <2>4. floor_div(n, d) = q /\ floor_mod(n, d) = s
    BY <2>1, <2>2, <2>3 DEF floor_div, floor_mod
  <2> QED
    BY <2>4 DEF q, s
<1>2. CASE n < 0
  <2> DEFINE q == (-n) \div d
             s == (-n) % d
  <2>0. -n \in Int
    OBVIOUS
  <2>1. q \in Int /\ s \in 0 .. (d - 1) /\ -n = (d * q) + s
    BY <2>0, Division
  <2> HIDE DEF q, s
  <2>2. Quotient(n, d) = -q
    BY <1>2 DEF Quotient, q
  <2>3. d * (-q) = -(d * q)
    BY <2>1
  <2>4. Remainder(n, d) = -s
    BY <2>1, <2>2, <2>3 DEF Remainder
  <2>5. CASE s = 0
    <3>1. n = (d * (-q)) + 0
      BY <2>1, <2>3, <2>5
    <3>2. n \div d = -q /\ n % d = 0
      BY <3>1, <2>1, QuotientUnique
    <3> QED
      BY <2>2, <2>4, <2>5, <3>2 DEF floor_div, floor_mod
  <2>6. CASE s # 0
    <3>1. d * (-q - 1) = -(d * q) - d
      BY <2>1
    <3>2. n = (d * (-q - 1)) + (d - s) /\ (d - s) \in 0 .. (d - 1)
      BY <2>1, <2>6, <3>1
    <3>4. -q - 1 \in Int
      BY <2>1
    <3>3. n \div d = -q - 1 /\ n % d = d - s
      BY <3>2, <3>4, QuotientUnique
    <3> QED
      BY <2>1, <2>2, <2>4, <2>6, <3>3 DEF floor_div, floor_mod
  <2> QED
    BY <2>5, <2>6
<1> QED
  BY <1>1, <1>2

\* A divisor keeps dividing what a pass of the loop replaces.
LEMMA DividesCombination ==
  ASSUME NEW d \in Nat \ {0}, NEW a \in Int, NEW b \in Int, NEW q \in Int, Divides(d, b)
  PROVE  Divides(d, a) <=> Divides(d, a - (q * b))
<1>1. PICK k \in Int : b = d * k
  BY DividesFactor
<1>2. q * b = d * (q * k)
  BY <1>1
<1>3. ASSUME NEW j \in Int, a = d * j PROVE a - (q * b) = d * (j - (q * k))
  BY <1>2, <1>3
<1>4. ASSUME NEW j \in Int, a - (q * b) = d * j PROVE a = d * (j + (q * k))
  BY <1>2, <1>4
<1>5. Divides(d, a) => Divides(d, a - (q * b))
  <2> SUFFICES ASSUME Divides(d, a) PROVE Divides(d, a - (q * b))
    OBVIOUS
  <2>1. PICK j \in Int : a = d * j
    BY DividesFactor
  <2>2. j - (q * k) \in Int /\ a - (q * b) \in Int
    OBVIOUS
  <2> QED
    BY <1>3, <2>1, <2>2, DividesFactor
<1>6. Divides(d, a - (q * b)) => Divides(d, a)
  <2> SUFFICES ASSUME Divides(d, a - (q * b)) PROVE Divides(d, a)
    OBVIOUS
  <2>1. a - (q * b) \in Int
    OBVIOUS
  <2>2. PICK j \in Int : a - (q * b) = d * j
    BY <2>1, DividesFactor
  <2>3. j + (q * k) \in Int
    OBVIOUS
  <2> QED
    BY <1>4, <2>2, <2>3, DividesFactor
<1> QED
  BY <1>5, <1>6

LEMMA CommonStep ==
  ASSUME NEW a \in Int, NEW b \in Int, NEW q \in Int
  PROVE  Common(b, a - (q * b)) = Common(a, b)
  BY DividesCombination DEF Common

\* What the loop ends with is the number std::gcd finds by looking for it.
LEMMA GcdFound ==
  ASSUME NEW a \in Nat, NEW b \in Nat \ {0}, NEW g \in Nat \ {0}, Common(g, 0) = Common(a, b)
  PROVE  std_gcd(a, b) = g
<1>1. \A e \in Nat \ {0} : Divides(e, g) => e <= g
  <2> SUFFICES ASSUME NEW e \in Nat \ {0}, Divides(e, g) PROVE e <= g
    OBVIOUS
  <2>1. PICK k \in Int : g = e * k
    BY DividesFactor
  <2>2. k >= 1
    <3>1. CASE k <= 0
      <4>1. e * (-k) >= 0
        BY <3>1
      <4>2. e * k = -(e * (-k))
        OBVIOUS
      <4> QED
        BY <2>1, <4>1, <4>2
    <3> QED
      BY <3>1
  <2>3. e * (k - 1) >= 0
    BY <2>2
  <2>4. e * k = (e * (k - 1)) + e
    OBVIOUS
  <2> QED
    BY <2>1, <2>3, <2>4
<1>2. \A e \in Nat \ {0} : Divides(e, 0)
  <2> TAKE e \in Nat \ {0}
  <2>1. 0 = e * 0
    OBVIOUS
  <2> QED
    BY <2>1, DividesFactor
<1>3. Divides(g, g)
  <2>1. g = g * 1
    OBVIOUS
  <2> QED
    BY <2>1, DividesFactor
<1>4. Divides(g, a) /\ Divides(g, b)
  BY <1>2, <1>3 DEF Common
<1>5. g <= b
  <2>1. PICK k \in Int : b = g * k
    BY <1>4, DividesFactor
  <2>2. k >= 1
    <3>1. CASE k <= 0
      <4>1. g * (-k) >= 0
        BY <3>1
      <4>2. g * k = -(g * (-k))
        OBVIOUS
      <4> QED
        BY <2>1, <4>1, <4>2
    <3> QED
      BY <3>1
  <2>3. g * (k - 1) >= 0
    BY <2>2
  <2>4. g * k = (g * (k - 1)) + g
    OBVIOUS
  <2> QED
    BY <2>1, <2>3, <2>4
<1>6. \A e \in 1 .. b : Divides(e, a) /\ Divides(e, b) => e <= g
  <2> SUFFICES ASSUME NEW e \in 1 .. b, Divides(e, a), Divides(e, b) PROVE e <= g
    OBVIOUS
  <2>1. e \in Common(g, 0)
    BY DEF Common
  <2> QED
    BY <1>1, <2>1 DEF Common
<1> DEFINE Greatest(d) == /\ Divides(d, a) /\ Divides(d, b)
                          /\ \A e \in 1 .. b : Divides(e, a) /\ Divides(e, b) => e <= d
<1>7. g \in 1 .. b /\ Greatest(g)
  BY <1>4, <1>5, <1>6
<1>8. ASSUME NEW d \in 1 .. b, Greatest(d) PROVE d = g
  <2>1. d <= g
    BY <1>6, <1>8
  <2>2. g <= d
    BY <1>7, <1>8
  <2> QED
    BY <2>1, <2>2
<1>9. std_gcd(a, b) = CHOOSE d \in 1 .. b : Greatest(d)
  BY DEF std_gcd
<1> HIDE DEF Greatest
<1> QED
  BY <1>7, <1>8, <1>9

-----------------------------------------------------------------------------
\* A multiple of the subtile count is divided without remainder, whatever its sign.
LEMMA ExactQuotient ==
  ASSUME NEW d \in Nat \ {0}, NEW m \in Int
  PROVE  Quotient(d * m, d) = m /\ Remainder(d * m, d) = 0
<1>1. Quotient(d * m, d) = m
  <2>1. CASE d * m >= 0
    <3>1. d * m = (d * m) + 0 /\ 0 \in 0 .. (d - 1) /\ d * m \in Int
      OBVIOUS
    <3>2. (d * m) \div d = m
      BY <3>1, QuotientUnique
    <3> QED
      BY <2>1, <3>2 DEF Quotient
  <2>2. CASE ~(d * m >= 0)
    <3>1. -(d * m) = (d * (-m)) + 0 /\ 0 \in 0 .. (d - 1) /\ -(d * m) \in Int /\ -m \in Int
      OBVIOUS
    <3>2. (-(d * m)) \div d = -m
      BY <3>1, QuotientUnique
    <3> QED
      BY <2>2, <3>2 DEF Quotient
  <2> QED
    BY <2>1, <2>2
<1>2. d * m \in Int
  OBVIOUS
<1> QED
  BY <1>1, <1>2 DEF Remainder

LEMMA ExactFactor ==
  ASSUME NEW d \in Nat \ {0}, NEW n \in Int, Remainder(n, d) = 0
  PROVE  Quotient(n, d) \in Int /\ n = d * Quotient(n, d)
<1>1. Quotient(n, d) \in Int
  <2>1. n \div d \in Int /\ (-n) \div d \in Int
    BY Division
  <2> QED
    BY <2>1 DEF Quotient
<1> QED
  BY <1>1 DEF Remainder

\* The ship's own movement, forwards or backwards, leads to the same cell of the ship.
LEMMA ShipPeriod ==
  ASSUME Constructed, diagonal \in BOOLEAN,
         NEW a \in Int, NEW b \in Int, NEW n \in Int, NEW k \in Int
  PROVE  ShipCell([x |-> a + (IF diagonal THEN displacement * k ELSE 0), y |-> b + (displacement * k),
                   t |-> n - (period * k)])
           = ShipCell([x |-> a, y |-> b, t |-> n])
<1>1. period \in Nat \ {0} /\ displacement \in Nat
  BY DEF Constructed
<1> DEFINE q == n \div period
           s == n % period
<1>2. q \in Int /\ s \in 0 .. (period - 1) /\ n = (period * q) + s
  BY <1>1, Division
<1> HIDE DEF q, s
<1>3. period * (q - k) = (period * q) - (period * k)
  BY <1>1, <1>2
<1>4. period * k \in Int
  BY <1>1
<1>5. n - (period * k) \in Int /\ q - k \in Int /\ n - (period * k) = (period * (q - k)) + s
  BY <1>1, <1>2, <1>3, <1>4
<1>6. (n - (period * k)) \div period = q - k
  BY <1>1, <1>2, <1>5, QuotientUnique
<1>7. floor_div(n - (period * k), period) = q - k
  BY <1>1, <1>5, <1>6, FloorDivision
<1>8. floor_div(n, period) = q
  BY <1>1, FloorDivision DEF q
<1>9. (q - k) * displacement = (q * displacement) - (displacement * k)
  BY <1>1, <1>2
<1>10. (q - k) * period = (q * period) - (period * k)
  BY <1>1, <1>2
<1>11. displacement * k \in Int /\ q * displacement \in Int /\ q * period \in Int
  BY <1>1, <1>2
<1>12. /\ b + (displacement * k) + ((q - k) * displacement) = b + (q * displacement)
       /\ a + (displacement * k) + ((q - k) * displacement) = a + (q * displacement)
       /\ n - (period * k) - ((q - k) * period) = n - (q * period)
  BY <1>4, <1>9, <1>10, <1>11
<1>13. CASE diagonal
  BY <1>7, <1>8, <1>12, <1>13 DEF ShipCell
<1>14. CASE ~diagonal
  BY <1>7, <1>8, <1>12, <1>14 DEF ShipCell
<1> QED
  BY <1>13, <1>14

\* A step on the lattice moves the numerators of the physical cell by the step and by
\* the periods of the ship that the reduction of V takes away.
LEMMA NumeratorsShift ==
  ASSUME Constructed, diagonal \in BOOLEAN, NEW c \in Coordinate,
         NEW dx \in Int, NEW dy \in Int, NEW dt \in Int
  PROVE  \E k \in Int :
           LET n == Numerators(shift(c, <<dx, dy, dt>>))
           IN  /\ shift(c, <<dx, dy, dt>>) \in Coordinate
               /\ n.x = Numerators(c).x
                          + (subtile_count * (dx + (IF diagonal THEN displacement * k ELSE 0)))
               /\ n.y = Numerators(c).y + (subtile_count * (dy + (displacement * k)))
               /\ n.t = Numerators(c).t + (subtile_count * (dt - (period * k)))
<1> DEFINE D == displacement
           P == period
           S == subtile_count
           wt == w_time
           ws == w_space
           g == gcd
           cu == c.u
           cv == c.v
           cw == c.w
           i == IF diagonal THEN dx + dy ELSE dy
           j == IF diagonal THEN 2 * dt ELSE dt
           du == IF diagonal THEN g * (dx - dy) ELSE S * dx
           a == cv + (ws * j) - (wt * i)
           w == cw + (P * i) + (D * j)
           e == shift(c, <<dx, dy, dt>>)
<1>1. /\ D \in Int /\ P \in Int /\ g \in Nat \ {0} /\ S \in Nat \ {0}
      /\ wt \in Int /\ ws \in Int /\ (D * wt) + (P * ws) = g
      /\ S = (IF diagonal THEN 2 ELSE 1) * g
  BY DEF Constructed
<1>2. cu \in Int /\ cv \in Int /\ cw \in Int
  BY DEF Coordinate
<1>3. i \in Int /\ j \in Int
  OBVIOUS
<1>4. e = [u |-> cu + du, v |-> floor_mod(a, S), w |-> w]
  <2>1. CASE diagonal
    <3>1. /\ e.u = cu + du
          /\ e.w = w
          /\ e.v = floor_mod(cv + ((2 * ws) * dt) - (wt * (dx + dy)), S)
          /\ e = [u |-> e.u, v |-> e.v, w |-> e.w]
      <4>1. e.w = cw + (P * (dx + dy)) + ((2 * D) * dt)
        BY <2>1 DEF shift
      <4>2. (2 * D) * dt = D * (2 * dt)
        BY <1>1
      <4> QED
        BY <2>1, <4>1, <4>2 DEF shift
    <3>2. (2 * ws) * dt = ws * j
      BY <1>1, <2>1
    <3> QED
      BY <2>1, <3>1, <3>2
  <2>2. CASE ~diagonal
    BY <2>2 DEF shift
  <2> QED
    BY <2>1, <2>2
<1> HIDE DEF D, P, S, wt, ws, g, cu, cv, cw, i, j, e
<1>5. a \in Int /\ w \in Int /\ du \in Int
  BY <1>1, <1>2, <1>3
<1>6. PICK k \in Int : floor_mod(a, S) = a - (S * k)
  <2> HIDE DEF a
  <2> DEFINE q == a \div S
             s == a % S
  <2>1. floor_mod(a, S) = s
    BY <1>1, <1>5, FloorDivision
  <2>4. S \in Nat \ {0} /\ a \in Int
    BY <1>1, <1>5
  <2>2. q \in Int /\ s \in 0 .. (S - 1) /\ a = (S * q) + s
    BY ONLY <2>4, Division
  <2> HIDE DEF q, s
  <2>3. s = a - (S * q)
    BY <1>1, <2>2
  <2> QED
    BY <2>1, <2>2, <2>3
<1> DEFINE m == S * k
           v == a - m
           B == D * cv
           C == ws * cw
           Y == g * i
           T == g * j
<1>7. m \in Int /\ v \in Int
  BY <1>1, <1>5
<1> HIDE DEF m
<1>8. (ws * w) - (D * v) = (C - B) + Y + (D * m)
  <2>1. ((D * wt) * i) + ((P * ws) * i) = g * i
    BY <1>1, <1>3
  <2>2. ws * w = (ws * cw) + ((P * ws) * i) + ((D * ws) * j)
    BY <1>1, <1>2, <1>3
  <2>3. D * v = (D * cv) + ((D * ws) * j) - ((D * wt) * i) - (D * m)
    BY <1>1, <1>2, <1>3, <1>7
  <2>4. {ws * cw, (P * ws) * i, (D * ws) * j, (D * wt) * i, D * cv, D * m, g * i} \subseteq Int
    BY <1>1, <1>2, <1>3, <1>7
  <2> QED
    BY <2>1, <2>2, <2>3, <2>4
<1>9. (P * v) + (wt * w) = ((P * cv) + (wt * cw)) + T - (P * m)
  <2>1. ((D * wt) * j) + ((P * ws) * j) = g * j
    BY <1>1, <1>3
  <2>2. P * v = (P * cv) + ((P * ws) * j) - ((P * wt) * i) - (P * m)
    BY <1>1, <1>2, <1>3, <1>7
  <2>3. wt * w = (wt * cw) + ((P * wt) * i) + ((D * wt) * j)
    BY <1>1, <1>2, <1>3
  <2>4. {wt * cw, (P * ws) * j, (P * wt) * i, (D * wt) * j, P * cv, P * m, g * j} \subseteq Int
    BY <1>1, <1>2, <1>3, <1>7
  <2> QED
    BY <2>1, <2>2, <2>3, <2>4
<1> HIDE DEF a, w, du, v
<1>10. e = [u |-> cu + du, v |-> v, w |-> w]
  BY <1>4, <1>6 DEF v, m
<1>11. e \in Coordinate
  BY <1>2, <1>5, <1>7, <1>10 DEF Coordinate
<1>12. /\ Numerators(e).x = IF diagonal THEN ((cu + du) - (D * v)) + (ws * w) ELSE cu + du
       /\ Numerators(e).y = ((IF diagonal THEN -(cu + du) ELSE 0) - (D * v)) + (ws * w)
       /\ Numerators(e).t = (P * v) + (wt * w)
  BY <1>10 DEF Numerators, D, P, ws, wt
<1>13. /\ Numerators(c).x = IF diagonal THEN (cu - B) + C ELSE cu
       /\ Numerators(c).y = ((IF diagonal THEN -cu ELSE 0) - B) + C
       /\ Numerators(c).t = (P * cv) + (wt * cw)
  BY DEF Numerators, D, P, ws, wt, cu, cv, cw
<1>14. /\ S * (dx + (D * k)) = (S * dx) + (D * m)
       /\ S * (dy + (D * k)) = (S * dy) + (D * m)
       /\ S * (dt - (P * k)) = (S * dt) - (P * m)
  BY <1>1 DEF m
<1>15. /\ diagonal => du + Y = S * dx /\ Y - du = S * dy
       /\ ~diagonal => du = S * dx /\ Y = S * dy
       /\ T = S * dt
  <2>1. CASE diagonal
    <3>1. g * (dx - dy) = (g * dx) - (g * dy) /\ g * (dx + dy) = (g * dx) + (g * dy)
          /\ g * (2 * dt) = 2 * (g * dt)
      BY <1>1
    <3>2. S = 2 * g
      BY <1>1, <2>1
    <3>3. S * dx = 2 * (g * dx) /\ S * dy = 2 * (g * dy) /\ S * dt = 2 * (g * dt)
      BY <1>1, <3>2
    <3>4. {g * dx, g * dy, g * dt} \subseteq Int
      BY <1>1
    <3> QED
      BY <2>1, <3>1, <3>3, <3>4 DEF du, i, j
  <2>2. CASE ~diagonal
    <3>1. S = g
      BY <1>1, <2>2
    <3> QED
      BY <2>2, <3>1 DEF du, i, j
  <2> QED
    BY <2>1, <2>2
<1> DEFINE M == D * v
           W == ws * w
           Z == D * m
           Q == P * m
           X == S * dx
           R == S * dy
           N == S * dt
           p0 == P * cv
           w0 == wt * cw
<1>16. {M, W, Z, Q, X, R, N, B, C, Y, T, p0, w0, du} \subseteq Int
  BY <1>1, <1>2, <1>3, <1>5, <1>7
<1>17. W - M = (C - B) + Y + Z
  BY <1>8
<1>18. (P * v) + (wt * w) = (p0 + w0) + T - Q
  BY <1>9
<1> HIDE DEF M, W, Z, Q, X, R, N, B, C, Y, T, p0, w0
<1>19. Numerators(e).x = Numerators(c).x + (S * (dx + (IF diagonal THEN D * k ELSE 0)))
  <2>1. CASE diagonal
    <3>1. S * (dx + (D * k)) = X + Z /\ du + Y = X
      BY <1>14, <1>15, <2>1 DEF X, Z, Y
    <3>2. Numerators(e).x = ((cu + du) - M) + W /\ Numerators(c).x = (cu - B) + C
      BY <1>12, <1>13, <2>1 DEF M, W, B, C
    <3>3. Numerators(e).x = Numerators(c).x + (S * (dx + (D * k)))
      BY <1>2, <1>16, <1>17, <3>1, <3>2
    <3> QED
      BY <2>1, <3>3
  <2>2. CASE ~diagonal
    <3>1. Numerators(e).x = cu + X /\ Numerators(c).x = cu
      BY <1>12, <1>13, <1>15, <2>2 DEF X
    <3>2. S * (dx + 0) = X
      BY DEF X
    <3>3. Numerators(e).x = Numerators(c).x + (S * (dx + 0))
      BY <3>1, <3>2
    <3> QED
      BY <2>2, <3>3
  <2> QED
    BY <2>1, <2>2
<1>20. Numerators(e).y = Numerators(c).y + (S * (dy + (D * k)))
  <2>1. S * (dy + (D * k)) = R + Z
    BY <1>14 DEF R, Z
  <2>2. CASE diagonal
    <3>1. Numerators(e).y = ((-(cu + du)) - M) + W /\ Numerators(c).y = ((-cu) - B) + C
      BY <1>12, <1>13, <2>2 DEF M, W, B, C
    <3>2. Y - du = R
      BY <1>15, <2>2 DEF R, Y
    <3> QED
      BY <1>2, <1>16, <1>17, <2>1, <3>1, <3>2
  <2>3. CASE ~diagonal
    <3>1. Numerators(e).y = (0 - M) + W /\ Numerators(c).y = (0 - B) + C
      BY <1>12, <1>13, <2>3 DEF M, W, B, C
    <3>2. Y = R
      BY <1>15, <2>3 DEF R, Y
    <3> QED
      BY <1>16, <1>17, <2>1, <3>1, <3>2
  <2> QED
    BY <2>2, <2>3
<1>21. Numerators(e).t = Numerators(c).t + (S * (dt - (P * k)))
  <2>1. S * (dt - (P * k)) = N - Q /\ T = N
    BY <1>14, <1>15 DEF N, Q, T
  <2>2. Numerators(c).t = p0 + w0
    BY <1>13 DEF p0, w0
  <2> QED
    BY <1>12, <1>16, <1>18, <2>1, <2>2
<1> QED
  BY <1>11, <1>19, <1>20, <1>21 DEF D, P, S, e

\* One step from one cell.
LEMMA StepTranslates ==
  ASSUME Constructed, diagonal \in BOOLEAN, NEW c \in Coordinate, Integral(c),
         NEW dx \in Int, NEW dy \in Int, NEW dt \in Int
  PROVE  LET p == to_physical(c)
             e == shift(c, <<dx, dy, dt>>)
         IN  /\ Integral(e)
             /\ ShipCell(to_physical(e)) = ShipCell([x |-> p.x + dx, y |-> p.y + dy, t |-> p.t + dt])
<1> DEFINE S == subtile_count
           D == displacement
           P == period
           e == shift(c, <<dx, dy, dt>>)
           n == Numerators(c)
           m == Numerators(e)
           px == Quotient(n.x, S)
           py == Quotient(n.y, S)
           pt == Quotient(n.t, S)
<1>1. S \in Nat \ {0} /\ D \in Int /\ P \in Int
  BY DEF Constructed
<1>2. PICK k \in Int :
        /\ m.x = n.x + (S * (dx + (IF diagonal THEN D * k ELSE 0)))
        /\ m.y = n.y + (S * (dy + (D * k)))
        /\ m.t = n.t + (S * (dt - (P * k)))
  BY NumeratorsShift
<1>3. n.x \in Int /\ n.y \in Int /\ n.t \in Int
  <2>1. c.u \in Int /\ c.v \in Int /\ c.w \in Int
    BY DEF Coordinate
  <2>2. {displacement * c.v, w_space * c.w, period * c.v, w_time * c.w} \subseteq Int
    BY <2>1 DEF Constructed
  <2> QED
    BY <2>1, <2>2 DEF Numerators
<1>4. Remainder(n.x, S) = 0 /\ Remainder(n.y, S) = 0 /\ Remainder(n.t, S) = 0
  BY DEF Integral
<1>5. /\ px \in Int /\ n.x = S * px
      /\ py \in Int /\ n.y = S * py
      /\ pt \in Int /\ n.t = S * pt
  BY <1>1, <1>3, <1>4, ExactFactor
<1>6. to_physical(c) = [x |-> px, y |-> py, t |-> pt]
  BY DEF to_physical
<1> DEFINE ix == dx + (IF diagonal THEN D * k ELSE 0)
           iy == dy + (D * k)
           it == dt - (P * k)
<1>7. D * k \in Int /\ P * k \in Int
  BY <1>1
<1>8. ix \in Int /\ iy \in Int /\ it \in Int
  BY <1>7
<1> HIDE DEF px, py, pt
<1> HIDE DEF ix, iy, it
<1>9. m.x = S * (px + ix) /\ m.y = S * (py + iy) /\ m.t = S * (pt + it)
  <2>1. m.x = (S * px) + (S * ix) /\ m.y = (S * py) + (S * iy) /\ m.t = (S * pt) + (S * it)
    BY <1>2, <1>5 DEF ix, iy, it
  <2> QED
    BY <1>1, <1>5, <1>8, <2>1
<1>10. px + ix \in Int /\ py + iy \in Int /\ pt + it \in Int
  BY <1>5, <1>8
<1>11. /\ Quotient(m.x, S) = px + ix /\ Remainder(m.x, S) = 0
       /\ Quotient(m.y, S) = py + iy /\ Remainder(m.y, S) = 0
       /\ Quotient(m.t, S) = pt + it /\ Remainder(m.t, S) = 0
  BY <1>1, <1>9, <1>10, ExactQuotient
<1>12. Integral(e)
  BY <1>11 DEF Integral
<1>13. to_physical(e) = [x |-> px + ix, y |-> py + iy, t |-> pt + it]
  BY <1>11 DEF to_physical
<1>14. /\ px + ix = (px + dx) + (IF diagonal THEN D * k ELSE 0)
       /\ py + iy = (py + dy) + (D * k)
       /\ pt + it = (pt + dt) - (P * k)
  BY <1>5, <1>7 DEF ix, iy, it
<1>15. px + dx \in Int /\ py + dy \in Int /\ pt + dt \in Int
  BY <1>5
<1>16. ShipCell(to_physical(e)) = ShipCell([x |-> px + dx, y |-> py + dy, t |-> pt + dt])
  BY <1>13, <1>14, <1>15, ShipPeriod
<1> QED
  BY <1>6, <1>12, <1>16

-----------------------------------------------------------------------------
\* The lattice without reduction.  Along the edge, across it and in time a cell has three
\* numbers; on the diagonal lattice the first two have one parity and the third is even.
Point(h, e, f) ==
  [u |-> gcd * h, v |-> (w_space * f) - (w_time * e), w |-> (period * e) + (displacement * f)]

Place(p, q, s) == IF diagonal THEN Point(p - q, p + q, 2 * s) ELSE Point(p, q, s)

Lattice == {Place(p, q, s) : p \in Int, q \in Int, s \in Int}

Moved(c, i, j, k) == [u |-> c.u + i, v |-> c.v + j, w |-> c.w + k]

Scale == IF diagonal THEN 2 ELSE 1

\* What Constructed says of the numbers of the lattice.
LEMMA Numbers ==
  ASSUME Constructed
  PROVE  /\ displacement \in Nat /\ period \in Nat \ {0} /\ gcd \in Nat \ {0}
         /\ w_time \in Int /\ w_space \in Int
         /\ (displacement * w_time) + (period * w_space) = gcd
         /\ Scale \in Nat \ {0} /\ subtile_count = Scale * gcd /\ subtile_count \in Nat \ {0}
<1>1. Scale \in Nat \ {0}
  BY DEF Scale
<1>2. gcd \in Nat \ {0} /\ subtile_count = Scale * gcd
  BY DEF Constructed, Scale
<1>3. subtile_count \in Nat \ {0}
  <2>1. CASE diagonal
    BY <1>2, <2>1 DEF Scale
  <2>2. CASE ~diagonal
    BY <1>2, <2>2 DEF Scale
  <2> QED
    BY <2>1, <2>2
<1> QED
  BY <1>1, <1>2, <1>3 DEF Constructed

\* The three ways to move a point by the greatest common divisor in one coordinate.
LEMMA PointMoves ==
  ASSUME Constructed, NEW h \in Int, NEW e \in Int, NEW f \in Int,
         NEW i \in Int, NEW j \in Int, NEW k \in Int
  PROVE  Point(h + i, (e - (displacement * j)) + (w_space * k), (f + (period * j)) + (w_time * k))
           = Moved(Point(h, e, f), gcd * i, gcd * j, gcd * k)
<1> DEFINE D == displacement
           P == period
           g == gcd
           a == w_time
           b == w_space
           e2 == (e - (D * j)) + (b * k)
           f2 == (f + (P * j)) + (a * k)
<1>1. {D, P, g, a, b} \subseteq Int /\ (D * a) + (P * b) = g
  BY Numbers
<1> HIDE DEF D, P, g, a, b
<1>2. g * (h + i) = (g * h) + (g * i)
  BY <1>1
<1>3. (b * f2) - (a * e2) = ((b * f) - (a * e)) + (g * j)
  <2>1. b * f2 = (b * f) + ((P * b) * j) + ((a * b) * k)
    BY <1>1
  <2>2. a * e2 = (a * e) - ((D * a) * j) + ((a * b) * k)
    BY <1>1
  <2>3. ((D * a) * j) + ((P * b) * j) = g * j
    BY <1>1
  <2>4. {b * f, a * e, (P * b) * j, (D * a) * j, (a * b) * k, g * j} \subseteq Int
    BY <1>1
  <2> HIDE DEF e2, f2
  <2> QED
    BY <2>1, <2>2, <2>3, <2>4
<1>4. (P * e2) + (D * f2) = ((P * e) + (D * f)) + (g * k)
  <2>1. P * e2 = (P * e) - ((P * D) * j) + ((P * b) * k)
    BY <1>1
  <2>2. D * f2 = (D * f) + ((P * D) * j) + ((D * a) * k)
    BY <1>1
  <2>3. ((D * a) * k) + ((P * b) * k) = g * k
    BY <1>1
  <2>4. {P * e, D * f, (P * D) * j, (P * b) * k, (D * a) * k, g * k} \subseteq Int
    BY <1>1
  <2> HIDE DEF e2, f2
  <2> QED
    BY <2>1, <2>2, <2>3, <2>4
<1> HIDE DEF e2, f2
<1>5. Point(h + i, e2, f2) = [u |-> g * (h + i), v |-> (b * f2) - (a * e2), w |-> (P * e2) + (D * f2)]
  BY DEF Point, D, P, g, a, b
<1>6. Moved(Point(h, e, f), g * i, g * j, g * k)
        = [u |-> (g * h) + (g * i), v |-> ((b * f) - (a * e)) + (g * j), w |-> ((P * e) + (D * f)) + (g * k)]
  BY DEF Point, Moved, D, P, g, a, b
<1> QED
  BY <1>2, <1>3, <1>4, <1>5, <1>6 DEF e2, f2, D, P, g, a, b

\* The whole tile repeats in every coordinate; V is the movement of the ship.
LEMMA PlaceMoves ==
  ASSUME Constructed, diagonal \in BOOLEAN, NEW p \in Int, NEW q \in Int, NEW s \in Int,
         NEW i \in Int, NEW j \in Int, NEW k \in Int
  PROVE  LET along == (w_space * k) - (displacement * j)
         IN  Place(p + i + (IF diagonal THEN along ELSE 0), (IF diagonal THEN q - i ELSE q) + along,
                   s + (period * j) + (w_time * k))
               = Moved(Place(p, q, s), subtile_count * i, subtile_count * j, subtile_count * k)
<1> DEFINE D == displacement
           P == period
           g == gcd
           a == w_time
           b == w_space
           S == subtile_count
           along == (b * k) - (D * j)
           later == (P * j) + (a * k)
<1>1. {D, P, g, a, b} \subseteq Int /\ S = Scale * g
  BY Numbers
<1>2. along \in Int /\ later \in Int /\ P * j \in Int /\ a * k \in Int
  BY <1>1
<1>3. CASE diagonal
  <2>1. S = 2 * g
    BY <1>1, <1>3 DEF Scale
  <2>2. g * (2 * i) = S * i /\ g * (2 * j) = S * j /\ g * (2 * k) = S * k
    BY <1>1, <2>1
  <2>3. (((p + q) - (D * (2 * j))) + (b * (2 * k))) = (p + q) + (2 * along)
    BY <1>1
  <2>4. (((2 * s) + (P * (2 * j))) + (a * (2 * k))) = 2 * (s + later)
    BY <1>1
  <2>5. p - q \in Int /\ p + q \in Int /\ 2 * s \in Int /\ 2 * i \in Int /\ 2 * j \in Int /\ 2 * k \in Int
    OBVIOUS
  <2>6. Point((p - q) + (2 * i), ((p + q) - (D * (2 * j))) + (b * (2 * k)),
              ((2 * s) + (P * (2 * j))) + (a * (2 * k)))
          = Moved(Point(p - q, p + q, 2 * s), g * (2 * i), g * (2 * j), g * (2 * k))
    BY <2>5, PointMoves
  <2>7. Point((p - q) + (2 * i), (p + q) + (2 * along), 2 * (s + later))
          = Moved(Point(p - q, p + q, 2 * s), S * i, S * j, S * k)
    BY <2>2, <2>3, <2>4, <2>6
  <2> HIDE DEF along, S
  <2>8. Place(p + i + along, (q - i) + along, s + later)
          = Point((p + i + along) - ((q - i) + along), (p + i + along) + ((q - i) + along), 2 * (s + later))
    BY <1>3 DEF Place
  <2>9. /\ (p + i + along) - ((q - i) + along) = (p - q) + (2 * i)
        /\ (p + i + along) + ((q - i) + along) = (p + q) + (2 * along)
        /\ s + (P * j) + (a * k) = s + later
    BY <1>2
  <2>10. Place(p, q, s) = Point(p - q, p + q, 2 * s)
    BY <1>3 DEF Place
  <2>11. Place(p + i + along, (q - i) + along, s + later) = Moved(Place(p, q, s), S * i, S * j, S * k)
    BY <2>7, <2>8, <2>9, <2>10
  <2> QED
    BY <1>3, <2>9, <2>11 DEF along, S
<1>4. CASE ~diagonal
  <2>1. S = g
    BY <1>1, <1>4 DEF Scale
  <2>2. Point(p + i, (q - (D * j)) + (b * k), (s + (P * j)) + (a * k))
          = Moved(Point(p, q, s), S * i, S * j, S * k)
    BY <2>1, PointMoves
  <2>4. D * j \in Int /\ b * k \in Int
    BY <1>1
  <2>3. (q - (D * j)) + (b * k) = q + along /\ p + i + 0 = p + i
    BY <2>4
  <2> HIDE DEF along, S
  <2>5. Place(p, q, s) = Point(p, q, s)
        /\ Place(p + i, q + along, (s + (P * j)) + (a * k)) = Point(p + i, q + along, (s + (P * j)) + (a * k))
    BY <1>4 DEF Place
  <2>6. Place(p + i, q + along, (s + (P * j)) + (a * k)) = Moved(Place(p, q, s), S * i, S * j, S * k)
    BY <2>2, <2>3, <2>5
  <2> QED
    BY <1>4, <2>3, <2>6 DEF along, S
<1> QED
  BY <1>3, <1>4

\* A point of the lattice names one physical cell, and to_physical does not throw for it.
LEMMA PlaceExact ==
  ASSUME Constructed, diagonal \in BOOLEAN, NEW p \in Int, NEW q \in Int, NEW s \in Int
  PROVE  /\ Place(p, q, s) \in Coordinate
         /\ Integral(Place(p, q, s))
         /\ to_physical(Place(p, q, s)) = [x |-> p, y |-> q, t |-> s]
<1> DEFINE D == displacement
           P == period
           g == gcd
           a == w_time
           b == w_space
           S == subtile_count
           h == IF diagonal THEN p - q ELSE p
           e == IF diagonal THEN p + q ELSE q
           f == IF diagonal THEN 2 * s ELSE s
           c == Place(p, q, s)
           cv == (b * f) - (a * e)
           cw == (P * e) + (D * f)
           n == Numerators(c)
<1>1. {D, P, g, a, b} \subseteq Int /\ (D * a) + (P * b) = g /\ S = Scale * g /\ S \in Nat \ {0}
  BY Numbers
<1>2. h \in Int /\ e \in Int /\ f \in Int
  OBVIOUS
<1>3. c = [u |-> g * h, v |-> cv, w |-> cw]
  BY DEF Place, Point
<1>4. /\ diagonal => h + e = 2 * p /\ e - h = 2 * q /\ f = 2 * s
      /\ ~diagonal => h = p /\ e = q /\ f = s
  OBVIOUS
<1> HIDE DEF D, P, g, a, b, S, h, e, f, c
<1>5. (b * cw) - (D * cv) = g * e
  <2>1. b * cw = ((P * b) * e) + ((b * D) * f)
    BY <1>1, <1>2
  <2>2. D * cv = ((b * D) * f) - ((D * a) * e)
    BY <1>1, <1>2
  <2>3. ((P * b) * e) + ((D * a) * e) = g * e
    BY <1>1, <1>2
  <2>4. {(P * b) * e, (b * D) * f, (D * a) * e, g * e} \subseteq Int
    BY <1>1, <1>2
  <2> HIDE DEF cv, cw
  <2> QED
    BY <2>1, <2>2, <2>3, <2>4
<1>6. (P * cv) + (a * cw) = g * f
  <2>1. P * cv = ((P * b) * f) - ((P * a) * e)
    BY <1>1, <1>2
  <2>2. a * cw = ((P * a) * e) + ((D * a) * f)
    BY <1>1, <1>2
  <2>3. ((P * b) * f) + ((D * a) * f) = g * f
    BY <1>1, <1>2
  <2>4. {(P * b) * f, (P * a) * e, (D * a) * f, g * f} \subseteq Int
    BY <1>1, <1>2
  <2> HIDE DEF cv, cw
  <2> QED
    BY <2>1, <2>2, <2>3, <2>4
<1>7. cv \in Int /\ cw \in Int /\ g * h \in Int /\ D * cv \in Int /\ b * cw \in Int
  <2>1. cv \in Int /\ cw \in Int
    BY <1>1, <1>2
  <2> HIDE DEF cv, cw
  <2> QED
    BY <1>1, <1>2, <2>1
<1>8. c \in Coordinate
  BY <1>3, <1>7 DEF Coordinate
<1> HIDE DEF cv, cw
<1>9. n.x = S * p /\ n.y = S * q /\ n.t = S * s
  <2>1. /\ n.x = IF diagonal THEN ((g * h) - (D * cv)) + (b * cw) ELSE g * h
        /\ n.y = ((IF diagonal THEN -(g * h) ELSE 0) - (D * cv)) + (b * cw)
        /\ n.t = (P * cv) + (a * cw)
    BY <1>3 DEF Numerators, D, P, a, b
  <2> HIDE DEF n
  <2>2. CASE diagonal
    <3>1. S = 2 * g
      BY <1>1, <2>2 DEF Scale
    <3>2. n.x = (g * h) + (g * e) /\ n.y = (g * e) - (g * h) /\ n.t = g * f
      <4>1. g * e \in Int
        BY <1>1, <1>2
      <4> QED
        BY <1>5, <1>6, <1>7, <2>1, <2>2, <4>1
    <3>3. (g * h) + (g * e) = g * (h + e) /\ (g * e) - (g * h) = g * (e - h)
      BY <1>1, <1>2
    <3>4. g * (2 * p) = S * p /\ g * (2 * q) = S * q /\ g * (2 * s) = S * s
      BY <1>1, <3>1
    <3> QED
      BY <1>4, <2>2, <3>2, <3>3, <3>4
  <2>3. CASE ~diagonal
    <3>1. S = g
      BY <1>1, <2>3 DEF Scale
    <3>2. n.x = g * h /\ n.y = g * e /\ n.t = g * f
      BY <1>5, <1>6, <1>7, <2>1, <2>3
    <3> QED
      BY <1>4, <2>3, <3>1, <3>2
  <2> QED
    BY <2>2, <2>3
<1> HIDE DEF n
<1>10. /\ Quotient(n.x, S) = p /\ Remainder(n.x, S) = 0
       /\ Quotient(n.y, S) = q /\ Remainder(n.y, S) = 0
       /\ Quotient(n.t, S) = s /\ Remainder(n.t, S) = 0
  BY <1>1, <1>9, ExactQuotient
<1>11. Integral(c) /\ to_physical(c) = [x |-> p, y |-> q, t |-> s]
  BY <1>10 DEF Integral, to_physical, n, S
<1> QED
  BY <1>8, <1>11 DEF c

-----------------------------------------------------------------------------
\* Reduction modulo the tile.
LEMMA Modulo ==
  ASSUME NEW n \in Int, NEW S \in Nat \ {0}
  PROVE  /\ floor_mod(n, S) \in 0 .. (S - 1)
         /\ \E k \in Int : floor_mod(n, S) = n + (S * k)
<1> DEFINE q == n \div S
           s == n % S
<1>1. q \in Int /\ s \in 0 .. (S - 1) /\ n = (S * q) + s
  BY Division
<1>2. floor_mod(n, S) = s
  BY FloorDivision
<1> HIDE DEF q, s
<1>3. -q \in Int /\ s = n + (S * (-q))
  BY <1>1
<1> QED
  BY <1>1, <1>2, <1>3

\* Numbers a multiple apart have one remainder, and a remainder is its own.
LEMMA ModuloMoved ==
  ASSUME NEW n \in Int, NEW S \in Nat \ {0}, NEW k \in Int
  PROVE  floor_mod(n + (S * k), S) = floor_mod(n, S)
<1> DEFINE q == n \div S
           s == n % S
           m == n + (S * k)
<1>1. q \in Int /\ s \in 0 .. (S - 1) /\ n = (S * q) + s
  BY Division
<1>2. floor_mod(n, S) = s
  BY FloorDivision
<1> HIDE DEF q, s
<1>3. m \in Int /\ m = (S * (q + k)) + s /\ q + k \in Int
  BY <1>1
<1> HIDE DEF m
<1>4. m % S = s
  BY <1>1, <1>3, QuotientUnique
<1>5. floor_mod(m, S) = s
  BY <1>3, <1>4, FloorDivision
<1> QED
  BY <1>2, <1>5 DEF m

LEMMA ModuloOwn ==
  ASSUME NEW S \in Nat \ {0}, NEW n \in 0 .. (S - 1)
  PROVE  floor_mod(n, S) = n
<1>1. n \in Int /\ 0 \in Int /\ n = (S * 0) + n
  OBVIOUS
<1>2. n % S = n
  BY <1>1, QuotientUnique
<1> QED
  BY <1>1, <1>2, FloorDivision

Ranged(c) == /\ c.u \in 0 .. (subtile_count - 1)
             /\ c.v \in 0 .. (subtile_count - 1)
             /\ c.w \in 0 .. (subtile_count - 1)

LEMMA MovedType ==
  ASSUME NEW c \in Coordinate, NEW i \in Int, NEW j \in Int, NEW k \in Int
  PROVE  /\ Moved(c, i, j, k) \in Coordinate
         /\ Moved(c, i, j, k).u = c.u + i /\ Moved(c, i, j, k).v = c.v + j /\ Moved(c, i, j, k).w = c.w + k
  BY DEF Moved, Coordinate

LEMMA Normalized ==
  ASSUME Constructed, NEW c \in Coordinate
  PROVE  /\ normalized(c) \in Coordinate /\ Ranged(normalized(c))
         /\ \E i, j, k \in Int : normalized(c) = Moved(c, subtile_count * i, subtile_count * j, subtile_count * k)
<1>1. subtile_count \in Nat \ {0}
  BY Numbers
<1>2. c.u \in Int /\ c.v \in Int /\ c.w \in Int
  BY DEF Coordinate
<1>3. PICK i \in Int : floor_mod(c.u, subtile_count) = c.u + (subtile_count * i)
  BY <1>1, <1>2, Modulo
<1>4. PICK j \in Int : floor_mod(c.v, subtile_count) = c.v + (subtile_count * j)
  BY <1>1, <1>2, Modulo
<1>5. PICK k \in Int : floor_mod(c.w, subtile_count) = c.w + (subtile_count * k)
  BY <1>1, <1>2, Modulo
<1>6. normalized(c) = Moved(c, subtile_count * i, subtile_count * j, subtile_count * k)
  BY <1>3, <1>4, <1>5 DEF normalized, Moved
<1>7. /\ floor_mod(c.u, subtile_count) \in 0 .. (subtile_count - 1)
      /\ floor_mod(c.v, subtile_count) \in 0 .. (subtile_count - 1)
      /\ floor_mod(c.w, subtile_count) \in 0 .. (subtile_count - 1)
  BY <1>1, <1>2, Modulo
<1>8. normalized(c) \in Coordinate /\ Ranged(normalized(c))
  BY <1>1, <1>7 DEF normalized, Coordinate, Ranged
<1> QED
  BY <1>6, <1>8

LEMMA NormalizedMoved ==
  ASSUME Constructed, NEW c \in Coordinate, NEW i \in Int, NEW j \in Int, NEW k \in Int
  PROVE  normalized(Moved(c, subtile_count * i, subtile_count * j, subtile_count * k)) = normalized(c)
<1>1. subtile_count \in Nat \ {0}
  BY Numbers
<1>2. c.u \in Int /\ c.v \in Int /\ c.w \in Int
  BY DEF Coordinate
<1>3. /\ floor_mod(c.u + (subtile_count * i), subtile_count) = floor_mod(c.u, subtile_count)
      /\ floor_mod(c.v + (subtile_count * j), subtile_count) = floor_mod(c.v, subtile_count)
      /\ floor_mod(c.w + (subtile_count * k), subtile_count) = floor_mod(c.w, subtile_count)
  BY <1>1, <1>2, ModuloMoved
<1> QED
  BY <1>3 DEF normalized, Moved

LEMMA NormalizedOwn ==
  ASSUME Constructed, NEW c \in Coordinate, Ranged(c)
  PROVE  normalized(c) = c
<1>1. subtile_count \in Nat \ {0}
  BY Numbers
<1>2. /\ floor_mod(c.u, subtile_count) = c.u /\ floor_mod(c.v, subtile_count) = c.v
      /\ floor_mod(c.w, subtile_count) = c.w
  BY <1>1, ModuloOwn DEF Ranged
<1> QED
  BY <1>2 DEF normalized, Coordinate

\* The lattice has all translates of its points by whole tiles.
LEMMA LatticeMoves ==
  ASSUME Constructed, diagonal \in BOOLEAN, NEW c \in Lattice, NEW i \in Int, NEW j \in Int, NEW k \in Int
  PROVE  Moved(c, subtile_count * i, subtile_count * j, subtile_count * k) \in Lattice
<1>1. PICK p \in Int, q \in Int, s \in Int : c = Place(p, q, s)
  BY DEF Lattice
<1> DEFINE along == (w_space * k) - (displacement * j)
           p2 == p + i + (IF diagonal THEN along ELSE 0)
           q2 == (IF diagonal THEN q - i ELSE q) + along
           s2 == s + (period * j) + (w_time * k)
<1>2. along \in Int /\ s2 \in Int
  <2>1. w_space * k \in Int /\ displacement * j \in Int /\ period * j \in Int /\ w_time * k \in Int
    BY Numbers
  <2> QED
    BY <2>1
<1>4. Place(p2, q2, s2) = Moved(Place(p, q, s), subtile_count * i, subtile_count * j, subtile_count * k)
  BY PlaceMoves
<1> HIDE DEF along, s2
<1>3. p2 \in Int /\ q2 \in Int
  BY <1>2
<1> HIDE DEF p2, q2
<1> QED
  BY <1>1, <1>2, <1>3, <1>4 DEF Lattice

LEMMA LatticePlace ==
  ASSUME NEW p \in Int, NEW q \in Int, NEW s \in Int
  PROVE  Place(p, q, s) \in Lattice
  BY DEF Lattice

LEMMA LatticeType ==
  ASSUME Constructed, diagonal \in BOOLEAN, NEW c \in Lattice
  PROVE  c \in Coordinate /\ Integral(c)
  BY PlaceExact DEF Lattice

LEMMA NormalizedLattice ==
  ASSUME Constructed, diagonal \in BOOLEAN, NEW c \in Lattice
  PROVE  normalized(c) \in Lattice /\ Ranged(normalized(c))
<1>1. c \in Coordinate
  BY LatticeType
<1>2. PICK i \in Int, j \in Int, k \in Int :
        normalized(c) = Moved(c, subtile_count * i, subtile_count * j, subtile_count * k)
  BY <1>1, Normalized
<1> QED
  BY <1>1, <1>2, LatticeMoves, Normalized

\* The spots of a tile.
Reduced == {c \in Lattice : Ranged(c)}

\* Reducing a summand first changes nothing.
LEMMA NormalizedPlus ==
  ASSUME Constructed, NEW c \in Coordinate, NEW e \in Coordinate
  PROVE  /\ Plus(c, e) \in Coordinate
         /\ normalized(Plus(normalized(c), e)) = normalized(Plus(c, e))
<1>1. PICK i \in Int, j \in Int, k \in Int :
        normalized(c) = Moved(c, subtile_count * i, subtile_count * j, subtile_count * k)
  BY Normalized
<1>2. Plus(c, e) \in Coordinate
  BY DEF Plus, Coordinate
<1> DEFINE i2 == subtile_count * i
           j2 == subtile_count * j
           k2 == subtile_count * k
<1>3. i2 \in Int /\ j2 \in Int /\ k2 \in Int
  BY Numbers
<1>5. normalized(Moved(Plus(c, e), i2, j2, k2)) = normalized(Plus(c, e))
  BY <1>2, NormalizedMoved
<1> HIDE DEF i2, j2, k2
<1>4. Plus(Moved(c, i2, j2, k2), e) = Moved(Plus(c, e), i2, j2, k2)
  BY <1>3 DEF Plus, Moved, Coordinate
<1> QED
  BY <1>1, <1>2, <1>4, <1>5 DEF i2, j2, k2

LEMMA PointAdded ==
  ASSUME Constructed, NEW h \in Int, NEW e \in Int, NEW f \in Int,
         NEW h2 \in Int, NEW e2 \in Int, NEW f2 \in Int
  PROVE  Plus(Point(h, e, f), Point(h2, e2, f2)) = Point(h + h2, e + e2, f + f2)
<1> DEFINE D == displacement
           P == period
           g == gcd
           a == w_time
           b == w_space
<1>1. {D, P, g, a, b} \subseteq Int
  BY Numbers
<1> HIDE DEF D, P, g, a, b
<1>2. /\ g * (h + h2) = (g * h) + (g * h2)
      /\ b * (f + f2) = (b * f) + (b * f2) /\ a * (e + e2) = (a * e) + (a * e2)
      /\ P * (e + e2) = (P * e) + (P * e2) /\ D * (f + f2) = (D * f) + (D * f2)
  BY <1>1
<1>3. {b * f, b * f2, a * e, a * e2, P * e, P * e2, D * f, D * f2} \subseteq Int
  BY <1>1
<1>4. /\ g * (h + h2) = (g * h) + (g * h2)
      /\ (b * (f + f2)) - (a * (e + e2)) = ((b * f) - (a * e)) + ((b * f2) - (a * e2))
      /\ (P * (e + e2)) + (D * (f + f2)) = ((P * e) + (D * f)) + ((P * e2) + (D * f2))
  BY <1>2, <1>3
<1> QED
  BY <1>4 DEF Plus, Point, D, P, g, a, b

LEMMA PlaceAdded ==
  ASSUME Constructed, diagonal \in BOOLEAN,
         NEW p \in Int, NEW q \in Int, NEW s \in Int, NEW p2 \in Int, NEW q2 \in Int, NEW s2 \in Int
  PROVE  Plus(Place(p, q, s), Place(p2, q2, s2)) = Place(p + p2, q + q2, s + s2)
<1> DEFINE h == IF diagonal THEN p - q ELSE p
           e == IF diagonal THEN p + q ELSE q
           f == IF diagonal THEN 2 * s ELSE s
           h2 == IF diagonal THEN p2 - q2 ELSE p2
           e2 == IF diagonal THEN p2 + q2 ELSE q2
           f2 == IF diagonal THEN 2 * s2 ELSE s2
<1>1. {h, e, f, h2, e2, f2} \subseteq Int
  OBVIOUS
<1>2. Place(p, q, s) = Point(h, e, f) /\ Place(p2, q2, s2) = Point(h2, e2, f2)
  BY DEF Place
<1>3. /\ h + h2 = IF diagonal THEN (p + p2) - (q + q2) ELSE p + p2
      /\ e + e2 = IF diagonal THEN (p + p2) + (q + q2) ELSE q + q2
      /\ f + f2 = IF diagonal THEN 2 * (s + s2) ELSE s + s2
  OBVIOUS
<1>4. Place(p + p2, q + q2, s + s2) = Point(h + h2, e + e2, f + f2)
  <2> HIDE DEF h, e, f, h2, e2, f2
  <2> QED
    BY <1>3 DEF Place
<1> HIDE DEF h, e, f, h2, e2, f2
<1>5. Plus(Point(h, e, f), Point(h2, e2, f2)) = Point(h + h2, e + e2, f + f2)
  BY <1>1, PointAdded
<1> QED
  BY <1>2, <1>4, <1>5

LEMMA LatticeAdds ==
  ASSUME Constructed, diagonal \in BOOLEAN, NEW c \in Lattice, NEW e \in Lattice
  PROVE  Plus(c, e) \in Lattice
<1>1. PICK p \in Int, q \in Int, s \in Int : c = Place(p, q, s)
  BY DEF Lattice
<1>2. PICK p2 \in Int, q2 \in Int, s2 \in Int : e = Place(p2, q2, s2)
  BY DEF Lattice
<1>3. Plus(Place(p, q, s), Place(p2, q2, s2)) = Place(p + p2, q + q2, s + s2)
  BY PlaceAdded, SMTT(30)
<1>4. p + p2 \in Int /\ q + q2 \in Int /\ s + s2 \in Int
  OBVIOUS
<1>5. Place(p + p2, q + q2, s + s2) \in Lattice
  BY <1>4, LatticePlace
<1> QED
  BY <1>1, <1>2, <1>3, <1>5

\* build_spots adds the three unit steps.
LEMMA GeneratorSteps ==
  ASSUME Constructed, diagonal \in BOOLEAN
  PROVE  Generators = <<Place(1, 0, 0), Place(0, 1, 0), Place(0, 0, 1)>>
<1>1. /\ gcd \in Int /\ w_time \in Int /\ w_space \in Int /\ period \in Int /\ displacement \in Int
      /\ subtile_count = Scale * gcd
  BY Numbers
<1>2. CASE diagonal
  <2>1. /\ Place(1, 0, 0) = [u |-> gcd * (1 - 0), v |-> (w_space * (2 * 0)) - (w_time * (1 + 0)),
                             w |-> (period * (1 + 0)) + (displacement * (2 * 0))]
        /\ Place(0, 1, 0) = [u |-> gcd * (0 - 1), v |-> (w_space * (2 * 0)) - (w_time * (0 + 1)),
                             w |-> (period * (0 + 1)) + (displacement * (2 * 0))]
        /\ Place(0, 0, 1) = [u |-> gcd * (0 - 0), v |-> (w_space * (2 * 1)) - (w_time * (0 + 0)),
                             w |-> (period * (0 + 0)) + (displacement * (2 * 1))]
    BY <1>2 DEF Place, Point
  <2>2. /\ gcd * (1 - 0) = gcd /\ gcd * (0 - 1) = -gcd /\ gcd * (0 - 0) = 0
        /\ (w_space * (2 * 0)) - (w_time * (1 + 0)) = -w_time
        /\ (w_space * (2 * 0)) - (w_time * (0 + 1)) = -w_time
        /\ (w_space * (2 * 1)) - (w_time * (0 + 0)) = 2 * w_space
        /\ (period * (1 + 0)) + (displacement * (2 * 0)) = period
        /\ (period * (0 + 1)) + (displacement * (2 * 0)) = period
        /\ (period * (0 + 0)) + (displacement * (2 * 1)) = 2 * displacement
    BY <1>1
  <2> QED
    BY <1>2, <2>1, <2>2 DEF Generators
<1>3. CASE ~diagonal
  <2>1. /\ Place(1, 0, 0) = [u |-> gcd * 1, v |-> (w_space * 0) - (w_time * 0),
                             w |-> (period * 0) + (displacement * 0)]
        /\ Place(0, 1, 0) = [u |-> gcd * 0, v |-> (w_space * 0) - (w_time * 1),
                             w |-> (period * 1) + (displacement * 0)]
        /\ Place(0, 0, 1) = [u |-> gcd * 0, v |-> (w_space * 1) - (w_time * 0),
                             w |-> (period * 0) + (displacement * 1)]
    BY <1>3 DEF Place, Point
  <2>2. /\ gcd * 1 = subtile_count /\ gcd * 0 = 0
        /\ (w_space * 0) - (w_time * 0) = 0 /\ (w_space * 0) - (w_time * 1) = -w_time
        /\ (w_space * 1) - (w_time * 0) = w_space
        /\ (period * 0) + (displacement * 0) = 0 /\ (period * 1) + (displacement * 0) = period
        /\ (period * 0) + (displacement * 1) = displacement
    BY <1>1, <1>3 DEF Scale
  <2> QED
    BY <1>3, <2>1, <2>2 DEF Generators
<1> QED
  BY <1>2, <1>3

-----------------------------------------------------------------------------
LEMMA Least ==
  ASSUME NEW T \in SUBSET Nat, T # {}
  PROVE  \E n \in T : \A m \in T : n <= m
<1>1. PICK n \in T : \A m \in T : ~ (<<m, n>> \in OpToRel(<, Nat))
  BY NatLessThanWellFounded, WFMin
<1>2. \A m \in T : ~ (m < n)
  BY <1>1 DEF OpToRel
<1> QED
  BY <1>2

\* Every set of numbers that contains 0 and with each number the next is Nat: induction.
LEMMA AllNumbers ==
  ASSUME NEW G \in SUBSET Nat, 0 \in G, \A n \in G : n + 1 \in G
  PROVE  G = Nat
<1>1. SUFFICES ASSUME Nat \ G # {} PROVE FALSE
  OBVIOUS
<1>2. PICK m \in Nat \ G : \A k \in Nat \ G : m <= k
  BY <1>1, Least
<1>3. m - 1 \in Nat /\ m - 1 \in G
  BY <1>2
<1> QED
  BY <1>2, <1>3

Times(n, e) == [u |-> n * e.u, v |-> n * e.v, w |-> n * e.w]

Closed(X, e) == \A c \in X : normalized(Plus(c, e)) \in X

LEMMA TimesType ==
  ASSUME NEW e \in Coordinate, NEW n \in Int
  PROVE  Times(n, e) \in Coordinate
<1> DEFINE eu == e.u
           ev == e.v
           ew == e.w
<1>1. eu \in Int /\ ev \in Int /\ ew \in Int
  BY DEF Coordinate
<1> HIDE DEF eu, ev, ew
<1>2. n * eu \in Int /\ n * ev \in Int /\ n * ew \in Int
  BY <1>1
<1> QED
  BY <1>2 DEF Times, Coordinate, eu, ev, ew

LEMMA TimesNext ==
  ASSUME NEW c \in Coordinate, NEW e \in Coordinate, NEW n \in Int
  PROVE  Plus(c, Times(n + 1, e)) = Plus(Plus(c, Times(n, e)), e)
<1> DEFINE eu == e.u
           ev == e.v
           ew == e.w
           cu == c.u
           cv == c.v
           cw == c.w
<1>1. eu \in Int /\ ev \in Int /\ ew \in Int /\ cu \in Int /\ cv \in Int /\ cw \in Int
  BY DEF Coordinate
<1> HIDE DEF eu, ev, ew, cu, cv, cw
<1>2. /\ cu + ((n + 1) * eu) = (cu + (n * eu)) + eu
      /\ cv + ((n + 1) * ev) = (cv + (n * ev)) + ev
      /\ cw + ((n + 1) * ew) = (cw + (n * ew)) + ew
  BY <1>1
<1> QED
  BY <1>2 DEF Plus, Times, eu, ev, ew, cu, cv, cw

\* A set that is closed under one generator holds what any number of its steps reaches.
LEMMA Repeated ==
  ASSUME Constructed, NEW X, NEW e \in Coordinate, Closed(X, e),
         NEW c \in Coordinate, normalized(c) \in X, NEW n \in Nat
  PROVE  normalized(Plus(c, Times(n, e))) \in X
<1> DEFINE G == {m \in Nat : normalized(Plus(c, Times(m, e))) \in X}
<1>1. 0 \in G
  <2>1. Times(0, e) = [u |-> 0, v |-> 0, w |-> 0]
    BY DEF Times, Coordinate
  <2>2. Plus(c, Times(0, e)) = c
    BY <2>1 DEF Plus, Coordinate
  <2> QED
    BY <2>2
<1>2. ASSUME NEW m \in G PROVE m + 1 \in G
  <2>1. m \in Nat /\ m \in Int
    OBVIOUS
  <2> DEFINE d == Plus(c, Times(m, e))
  <2>2. Times(m, e) \in Coordinate
    BY <2>1, TimesType
  <2>3. d \in Coordinate
    BY <2>2, NormalizedPlus
  <2>4. normalized(d) \in X
    OBVIOUS
  <2>5. Plus(c, Times(m + 1, e)) = Plus(d, e)
    BY <2>1, TimesNext
  <2> HIDE DEF d
  <2>6. normalized(Plus(d, e)) = normalized(Plus(normalized(d), e))
    BY <2>3, NormalizedPlus
  <2>7. normalized(Plus(normalized(d), e)) \in X
    BY <2>4 DEF Closed
  <2> QED
    BY <2>1, <2>5, <2>6, <2>7
<1>3. G = Nat
  <2>1. G \in SUBSET Nat /\ \A m \in G : m + 1 \in G
    BY <1>2
  <2> HIDE DEF G
  <2> QED
    BY <1>1, <2>1, AllNumbers
<1> QED
  BY <1>3

\* Backwards too: as many steps as the tile has spots lead nowhere.
LEMMA RepeatedBack ==
  ASSUME Constructed, NEW X, NEW e \in Coordinate, Closed(X, e),
         NEW c \in Coordinate, normalized(c) \in X, NEW n \in Int
  PROVE  normalized(Plus(c, Times(n, e))) \in X
<1> DEFINE S == subtile_count
           q == n \div S
           m == n % S
           eu == e.u
           ev == e.v
           ew == e.w
           d == Plus(c, Times(m, e))
<1>1. S \in Nat \ {0}
  BY Numbers
<1>2. q \in Int /\ m \in 0 .. (S - 1) /\ n = (S * q) + m
  BY <1>1, Division
<1> HIDE DEF q, m
<1>3. m \in Nat /\ m \in Int
  BY <1>1, <1>2
<1>4. normalized(d) \in X
  BY <1>3, Repeated
<1>5. Times(m, e) \in Coordinate
  BY <1>3, TimesType
<1>6. d \in Coordinate
  BY <1>5, NormalizedPlus
<1>7. eu \in Int /\ ev \in Int /\ ew \in Int
  BY DEF Coordinate
<1>8. Plus(c, Times(n, e)) = Moved(d, S * (q * eu), S * (q * ev), S * (q * ew))
  <2> DEFINE cu == c.u
             cv == c.v
             cw == c.w
  <2>1. cu \in Int /\ cv \in Int /\ cw \in Int
    BY DEF Coordinate
  <2> HIDE DEF cu, cv, cw, S, eu, ev, ew
  <2>2. /\ cu + (n * eu) = (cu + (m * eu)) + (S * (q * eu))
        /\ cv + (n * ev) = (cv + (m * ev)) + (S * (q * ev))
        /\ cw + (n * ew) = (cw + (m * ew)) + (S * (q * ew))
    <3>1. \A z \in Int : ((S * q) + m) * z = (S * (q * z)) + (m * z)
      BY <1>1, <1>2
    <3>2. n * eu = (S * (q * eu)) + (m * eu) /\ n * ev = (S * (q * ev)) + (m * ev)
          /\ n * ew = (S * (q * ew)) + (m * ew)
      BY <1>2, <1>7, <3>1
    <3>3. {S * (q * eu), m * eu, S * (q * ev), m * ev, S * (q * ew), m * ew} \subseteq Int
      BY <1>1, <1>2, <1>7
    <3> QED
      BY <2>1, <3>2, <3>3
  <2> QED
    BY <2>2 DEF Plus, Times, Moved, cu, cv, cw, eu, ev, ew
<1> HIDE DEF d, eu, ev, ew
<1>9. q * eu \in Int /\ q * ev \in Int /\ q * ew \in Int
  BY <1>2, <1>7
<1>10. normalized(Moved(d, S * (q * eu), S * (q * ev), S * (q * ew))) = normalized(d)
  BY <1>6, <1>9, NormalizedMoved
<1> QED
  BY <1>4, <1>8, <1>10

LEMMA PlaceTimes ==
  ASSUME Constructed, diagonal \in BOOLEAN, NEW n \in Int
  PROVE  /\ Times(n, Place(1, 0, 0)) = Place(n, 0, 0)
         /\ Times(n, Place(0, 1, 0)) = Place(0, n, 0)
         /\ Times(n, Place(0, 0, 1)) = Place(0, 0, n)
<1> DEFINE D == displacement
           P == period
           g == gcd
           a == w_time
           b == w_space
<1>1. {D, P, g, a, b} \subseteq Int
  BY Numbers
<1>2. ASSUME NEW h \in Int, NEW e \in Int, NEW f \in Int
      PROVE  Times(n, Point(h, e, f)) = Point(n * h, n * e, n * f)
  <2> HIDE DEF D, P, g, a, b
  <2>1. /\ n * (g * h) = g * (n * h)
        /\ n * ((b * f) - (a * e)) = (b * (n * f)) - (a * (n * e))
        /\ n * ((P * e) + (D * f)) = (P * (n * e)) + (D * (n * f))
    BY <1>1
  <2> QED
    BY <2>1 DEF Times, Point, D, P, g, a, b
<1>4. \A h, e, f \in Int : Times(n, Point(h, e, f)) = Point(n * h, n * e, n * f)
  BY <1>2
<1>5. /\ Times(n, Point(1, 1, 0)) = Point(n, n, 0)
      /\ Times(n, Point(-1, 1, 0)) = Point(-n, n, 0)
      /\ Times(n, Point(0, 0, 2)) = Point(0, 0, 2 * n)
      /\ Times(n, Point(1, 0, 0)) = Point(n, 0, 0)
      /\ Times(n, Point(0, 1, 0)) = Point(0, n, 0)
      /\ Times(n, Point(0, 0, 1)) = Point(0, 0, n)
  <2>1. /\ n * 1 = n /\ n * 0 = 0 /\ n * (-1) = -n /\ n * 2 = 2 * n
        /\ {1, -1, 0, 2} \subseteq Int
    OBVIOUS
  <2> QED
    BY <1>4, <2>1
<1>6. CASE diagonal
  <2>1. /\ Place(1, 0, 0) = Point(1 - 0, 1 + 0, 2 * 0) /\ Place(n, 0, 0) = Point(n - 0, n + 0, 2 * 0)
        /\ Place(0, 1, 0) = Point(0 - 1, 0 + 1, 2 * 0) /\ Place(0, n, 0) = Point(0 - n, 0 + n, 2 * 0)
        /\ Place(0, 0, 1) = Point(0 - 0, 0 + 0, 2 * 1) /\ Place(0, 0, n) = Point(0 - 0, 0 + 0, 2 * n)
    BY <1>6 DEF Place
  <2>2. /\ 1 - 0 = 1 /\ 1 + 0 = 1 /\ 2 * 0 = 0 /\ n - 0 = n /\ n + 0 = n /\ 0 - 1 = -1 /\ 0 + 1 = 1
        /\ 0 - n = -n /\ 0 + n = n /\ 2 * 1 = 2 /\ 0 - 0 = 0 /\ 0 + 0 = 0
    OBVIOUS
  <2> QED
    BY <1>5, <2>1, <2>2
<1>7. CASE ~diagonal
  BY <1>5, <1>7 DEF Place
<1> QED
  BY <1>6, <1>7

LEMMA OriginPlace ==
  ASSUME Constructed, diagonal \in BOOLEAN
  PROVE  Origin = Place(0, 0, 0) /\ Origin \in Reduced /\ normalized(Origin) = Origin
<1>1. {displacement, period, gcd, w_time, w_space} \subseteq Int /\ subtile_count \in Nat \ {0}
  BY Numbers
<1>2. Point(0, 0, 0) = Origin
  BY <1>1 DEF Point, Origin
<1>3. 0 - 0 = 0 /\ 0 + 0 = 0 /\ 2 * 0 = 0
  OBVIOUS
<1>4. Place(0, 0, 0) = Origin
  BY <1>2, <1>3 DEF Place
<1>5. Origin \in Lattice /\ Ranged(Origin) /\ Origin \in Coordinate
  BY <1>1, <1>4 DEF Lattice, Ranged, Origin, Coordinate
<1> QED
  BY <1>4, <1>5, NormalizedOwn DEF Reduced

\* What is closed under the three generators and holds the origin is the whole tile.
LEMMA AllReached ==
  ASSUME Constructed, diagonal \in BOOLEAN, NEW X, Origin \in X,
         \A i \in 1 .. 3 : Closed(X, Generators[i])
  PROVE  Reduced \subseteq X
<1> SUFFICES ASSUME NEW c \in Reduced PROVE c \in X
  OBVIOUS
<1>1. PICK p \in Int, q \in Int, s \in Int : c = Place(p, q, s)
  BY DEF Reduced, Lattice
<1>2. Closed(X, Place(1, 0, 0)) /\ Closed(X, Place(0, 1, 0)) /\ Closed(X, Place(0, 0, 1))
  BY GeneratorSteps
<1>3. /\ Place(1, 0, 0) \in Coordinate /\ Place(0, 1, 0) \in Coordinate /\ Place(0, 0, 1) \in Coordinate
      /\ Place(0, 0, 0) \in Coordinate /\ Place(p, 0, 0) \in Coordinate /\ Place(p, q, 0) \in Coordinate
  BY PlaceExact
<1>4. normalized(Place(0, 0, 0)) \in X
  BY OriginPlace
<1>5. normalized(Place(p, 0, 0)) \in X
  <2>1. normalized(Plus(Place(0, 0, 0), Times(p, Place(1, 0, 0)))) \in X
    BY <1>2, <1>3, <1>4, RepeatedBack
  <2>2. Plus(Place(0, 0, 0), Place(p, 0, 0)) = Place(0 + p, 0 + 0, 0 + 0)
    BY PlaceAdded
  <2>3. 0 + p = p /\ 0 + 0 = 0
    OBVIOUS
  <2> QED
    BY <2>1, <2>2, <2>3, PlaceTimes
<1>6. normalized(Place(p, q, 0)) \in X
  <2>1. normalized(Plus(Place(p, 0, 0), Times(q, Place(0, 1, 0)))) \in X
    BY <1>2, <1>3, <1>5, RepeatedBack
  <2>2. Plus(Place(p, 0, 0), Place(0, q, 0)) = Place(p + 0, 0 + q, 0 + 0)
    BY PlaceAdded
  <2>3. p + 0 = p /\ 0 + q = q /\ 0 + 0 = 0
    OBVIOUS
  <2> QED
    BY <2>1, <2>2, <2>3, PlaceTimes
<1>7. normalized(Place(p, q, s)) \in X
  <2>1. normalized(Plus(Place(p, q, 0), Times(s, Place(0, 0, 1)))) \in X
    BY <1>2, <1>3, <1>6, RepeatedBack
  <2>2. Plus(Place(p, q, 0), Place(0, 0, s)) = Place(p + 0, q + 0, 0 + s)
    BY PlaceAdded
  <2>3. p + 0 = p /\ q + 0 = q /\ 0 + s = s
    OBVIOUS
  <2> QED
    BY <2>1, <2>2, <2>3, PlaceTimes
<1>8. normalized(c) = c
  BY NormalizedOwn, LatticeType DEF Reduced
<1> QED
  BY <1>1, <1>7, <1>8

-----------------------------------------------------------------------------
\* How many spots a tile has.
LEMMA Bounds ==
  ASSUME NEW g \in Nat \ {0}, NEW z \in Int, NEW m \in Int, 0 <= g * z, g * z < g * m
  PROVE  0 <= z /\ z < m
<1>1. 0 <= z
  <2> SUFFICES ASSUME z <= -1 PROVE FALSE
    OBVIOUS
  <2>1. g * (-z) >= g
    <3>1. -z >= 1
      OBVIOUS
    <3> QED
      BY <3>1
  <2>2. g * (-z) = -(g * z)
    OBVIOUS
  <2> QED
    BY <2>1, <2>2
<1>2. z < m
  <2> SUFFICES ASSUME z >= m PROVE FALSE
    OBVIOUS
  <2>1. g * (z - m) >= 0
    BY z - m >= 0
  <2>2. g * (z - m) = (g * z) - (g * m)
    OBVIOUS
  <2>3. g * z \in Int /\ g * m \in Int
    OBVIOUS
  <2> QED
    BY <2>1, <2>2, <2>3
<1> QED
  BY <1>1, <1>2

LEMMA Cancel ==
  ASSUME NEW g \in Nat \ {0}, NEW z \in Int, NEW m \in Int, g * z = g * m
  PROVE  z = m
<1>1. 0 <= g * (z - m) /\ g * (z - m) < g * 1
  <2>1. g * (z - m) = (g * z) - (g * m) /\ g * m \in Int
    OBVIOUS
  <2> QED
    BY <2>1
<1>2. z - m \in Int /\ 1 \in Int
  OBVIOUS
<1>3. 0 <= z - m /\ z - m < 1
  BY <1>1, <1>2, Bounds
<1> QED
  BY <1>3

LEMMA Coprime ==
  ASSUME Constructed
  PROVE  \E k, p \in Int : /\ displacement = gcd * k /\ period = gcd * p
                           /\ (k * w_time) + (p * w_space) = 1
<1> DEFINE g == gcd
           a == w_time
           b == w_space
<1>1. /\ displacement \in Nat /\ period \in Nat \ {0} /\ g \in Nat \ {0} /\ a \in Int /\ b \in Int
      /\ (displacement * a) + (period * b) = g
  BY Numbers
<1>7. displacement \in Int /\ period \in Int /\ Divides(g, displacement) /\ Divides(g, period)
  BY <1>1 DEF Constructed
<1>2. PICK k \in Int : displacement = g * k
  BY <1>1, <1>7, DividesFactor
<1>3. PICK p \in Int : period = g * p
  BY <1>1, <1>7, DividesFactor
<1> HIDE DEF g, a, b
<1>4. g * ((k * a) + (p * b)) = g * 1
  <2>1. ((g * k) * a) + ((g * p) * b) = g
    BY <1>1, <1>2, <1>3
  <2>2. ((g * k) * a) + ((g * p) * b) = g * ((k * a) + (p * b))
    BY <1>1
  <2> QED
    BY <1>1, <2>1, <2>2
<1>5. (k * a) + (p * b) \in Int
  BY <1>1
<1>6. (k * a) + (p * b) = 1
  BY <1>1, <1>4, <1>5, Cancel
<1> QED
  BY <1>2, <1>3, <1>6 DEF g, a, b

\* Moving by one in V: steps over the coprime parts of the movement.
LEMMA PointAlong ==
  ASSUME Constructed, NEW h \in Int, NEW e \in Int, NEW f \in Int, NEW j \in Int,
         NEW k \in Int, NEW p \in Int, displacement = gcd * k, period = gcd * p,
         (k * w_time) + (p * w_space) = 1
  PROVE  Point(h, e - (k * j), f + (p * j)) = Moved(Point(h, e, f), 0, j, 0)
<1> DEFINE D == displacement
           P == period
           g == gcd
           a == w_time
           b == w_space
<1>1. {D, P, g, a, b} \subseteq Int /\ D = g * k /\ P = g * p /\ (k * a) + (p * b) = 1
  BY Numbers
<1>2. Point(h, e - (k * j), f + (p * j))
        = [u |-> g * h, v |-> (b * (f + (p * j))) - (a * (e - (k * j))),
           w |-> (P * (e - (k * j))) + (D * (f + (p * j)))]
  BY DEF Point
<1>3. Moved(Point(h, e, f), 0, j, 0)
        = [u |-> (g * h) + 0, v |-> ((b * f) - (a * e)) + j, w |-> ((P * e) + (D * f)) + 0]
  BY DEF Point, Moved
<1> HIDE DEF D, P, g, a, b
<1>4. (b * (f + (p * j))) - (a * (e - (k * j))) = ((b * f) - (a * e)) + j
  <2>1. b * (f + (p * j)) = (b * f) + ((p * b) * j)
    BY <1>1
  <2>2. a * (e - (k * j)) = (a * e) - ((k * a) * j)
    BY <1>1
  <2>3. ((k * a) * j) + ((p * b) * j) = ((k * a) + (p * b)) * j
    BY <1>1
  <2>4. {b * f, (p * b) * j, a * e, (k * a) * j} \subseteq Int
    BY <1>1
  <2>5. ((k * a) * j) + ((p * b) * j) = j
    BY <1>1, <2>3
  <2> QED
    BY <2>1, <2>2, <2>4, <2>5
<1>5. (P * (e - (k * j))) + (D * (f + (p * j))) = (P * e) + (D * f)
  <2>1. P * (e - (k * j)) = (P * e) - ((P * k) * j)
    BY <1>1
  <2>2. D * (f + (p * j)) = (D * f) + ((D * p) * j)
    BY <1>1
  <2>3. (P * k) * j = (D * p) * j
    <3>1. (g * p) * k = (g * k) * p
      BY <1>1
    <3> QED
      BY <1>1, <3>1
  <2>4. {P * e, (P * k) * j, D * f, (D * p) * j} \subseteq Int
    BY <1>1
  <2> QED
    BY <2>1, <2>2, <2>3, <2>4
<1>6. (g * h) + 0 = g * h /\ ((P * e) + (D * f)) + 0 = (P * e) + (D * f)
  <2>1. {g * h, P * e, D * f} \subseteq Int
    BY <1>1
  <2> QED
    BY <2>1
<1> QED
  BY <1>2, <1>3, <1>4, <1>5, <1>6 DEF D, P, g, a, b

\* A spot by its number across the tile and its number along it.
Spot(i, n) ==
  [u |-> gcd * i, v |-> (Scale * n) + ((w_time % 2) * i), w |-> gcd * (((period \div gcd) % 2) * i)]

SpotNames == (0 .. (Scale - 1)) \X (0 .. (gcd - 1))

LEMMA SpotIn ==
  ASSUME Constructed, diagonal \in BOOLEAN, NEW i \in 0 .. (Scale - 1), NEW n \in 0 .. (gcd - 1)
  PROVE  Spot(i, n) \in Reduced
<1> DEFINE g == gcd
           a == w_time
<1>1. PICK k \in Int, p \in Int : /\ displacement = gcd * k /\ period = gcd * p
                                  /\ (k * w_time) + (p * w_space) = 1
  BY Coprime
<1>2. g \in Nat \ {0} /\ a \in Int /\ subtile_count = Scale * g /\ w_space \in Int /\ period \in Nat
  BY Numbers
<1>3. (period \div gcd) % 2 = p % 2
  <2>1. period \in Int /\ p \in Int /\ 0 \in 0 .. (gcd - 1) /\ period = (gcd * p) + 0
    BY <1>1, <1>2
  <2>2. period \div gcd = p
    BY <1>2, <2>1, QuotientUnique
  <2> QED
    BY <2>2
<1>4. CASE ~diagonal
  <2>1. i = 0 /\ Scale = 1 /\ subtile_count = g
    BY <1>2, <1>4 DEF Scale
  <2>2. Spot(i, n) = [u |-> 0, v |-> n, w |-> 0]
    <3>1. g * 0 = 0 /\ (1 * n) + ((a % 2) * 0) = n /\ g * ((p % 2) * 0) = 0
      BY <1>2
    <3> QED
      BY <1>3, <2>1, <3>1 DEF Spot
  <2>3. Point(0, 0 - (k * n), 0 + (p * n)) = Moved(Point(0, 0, 0), 0, n, 0)
    BY <1>1, PointAlong
  <2>4. Point(0, 0, 0) = [u |-> 0, v |-> 0, w |-> 0]
    BY OriginPlace, <1>4 DEF Place, Origin
  <2>5. Spot(i, n) = Place(0, 0 - (k * n), 0 + (p * n))
    BY <1>4, <2>2, <2>3, <2>4 DEF Moved, Place
  <2>6. Place(0, 0 - (k * n), 0 + (p * n)) \in Lattice
    <3>1. 0 - (k * n) \in Int /\ 0 + (p * n) \in Int /\ 0 \in Int
      BY <1>1
    <3> QED
      BY <3>1, LatticePlace
  <2>7. Ranged(Spot(i, n))
    BY <1>2, <2>1, <2>2 DEF Ranged
  <2> QED
    BY <2>5, <2>6, <2>7 DEF Reduced
<1>5. CASE diagonal
  <2>1. i \in 0 .. 1 /\ Scale = 2 /\ subtile_count = 2 * g
    BY <1>2, <1>5 DEF Scale
  <2> DEFINE al == a % 2
             pi == p % 2
             a2 == a \div 2
             p2 == p \div 2
  <2>2. al \in 0 .. 1 /\ pi \in 0 .. 1 /\ a2 \in Int /\ p2 \in Int /\ a = (2 * a2) + al /\ p = (2 * p2) + pi
    BY <1>1, <1>2
  <2>3. Spot(i, n) = [u |-> g * i, v |-> (2 * n) + (al * i), w |-> g * (pi * i)]
    BY <1>3, <2>1 DEF Spot
  <2> HIDE DEF al, pi, a2, p2
  <2>4. Ranged(Spot(i, n))
    <3>1. CASE i = 0
      <4>1. Spot(i, n) = [u |-> 0, v |-> 2 * n, w |-> 0]
        <5>1. g * 0 = 0 /\ (2 * n) + (al * 0) = 2 * n /\ g * (pi * 0) = 0
          BY <1>2, <2>2
        <5> QED
          BY <2>3, <3>1, <5>1
      <4> QED
        BY <1>2, <2>1, <4>1 DEF Ranged
    <3>2. CASE i = 1
      <4>1. Spot(i, n) = [u |-> g, v |-> (2 * n) + al, w |-> g * pi]
        <5>1. g * 1 = g /\ (2 * n) + (al * 1) = (2 * n) + al /\ g * (pi * 1) = g * pi
          BY <1>2, <2>2
        <5> QED
          BY <2>3, <3>2, <5>1
      <4>2. g * pi \in {0, g}
        BY <1>2, <2>2
      <4> QED
        BY <1>2, <2>1, <2>2, <4>1, <4>2 DEF Ranged
    <3> QED
      BY <2>1, <3>1, <3>2
  <2>5. Spot(i, n) \in Lattice
    <3>1. CASE i = 0
      <4> DEFINE j == 2 * n
      <4>1. j \in Int
        OBVIOUS
      <4>2. Point(0, 0 - (k * j), 0 + (p * j)) = Moved(Point(0, 0, 0), 0, j, 0)
        BY <1>1, <4>1, PointAlong
      <4>3. Point(0, 0, 0) = [u |-> 0, v |-> 0, w |-> 0]
        <5>1. 0 - 0 = 0 /\ 0 + 0 = 0 /\ 2 * 0 = 0
          OBVIOUS
        <5> QED
          BY OriginPlace, <1>5, <5>1 DEF Place, Origin
      <4>4. Spot(i, n) = [u |-> 0, v |-> j, w |-> 0]
        <5>1. g * 0 = 0 /\ (2 * n) + (al * 0) = 2 * n /\ g * (pi * 0) = 0
          BY <1>2, <2>2
        <5> QED
          BY <2>3, <3>1, <5>1
      <4>5. Spot(i, n) = Point(0, 0 - (k * j), 0 + (p * j))
        BY <4>1, <4>2, <4>3, <4>4 DEF Moved
      <4>6. Spot(i, n) = Place(-(k * n), -(k * n), p * n)
        <5>1. /\ (-(k * n)) - (-(k * n)) = 0 /\ (-(k * n)) + (-(k * n)) = 0 - (k * j)
              /\ 2 * (p * n) = 0 + (p * j)
          BY <1>1
        <5> HIDE DEF j
        <5> QED
          BY <1>5, <4>5, <5>1 DEF Place
      <4>7. -(k * n) \in Int /\ p * n \in Int
        BY <1>1
      <4> QED
        BY <4>6, <4>7, LatticePlace
    <3>2. CASE i = 1
      <4> DEFINE m == n + al + a2
                 j == 2 * m
                 c == Place(1 - (k * m), -(k * m), p * m)
      <4>1. j \in Int /\ m \in Int
        BY <2>2
      <4>2. Point(1, 1 - (k * j), 0 + (p * j)) = Moved(Point(1, 1, 0), 0, j, 0)
        BY <1>1, <4>1, PointAlong
      <4>3. Point(1, 1, 0) = [u |-> g, v |-> -a, w |-> period]
        <5>1. /\ g * 1 = g /\ (w_space * 0) - (a * 1) = -a
              /\ (period * 1) + (displacement * 0) = period
          BY <1>2, Numbers
        <5> QED
          BY <5>1 DEF Point
      <4>4. c = Point(1, 1 - (k * j), 0 + (p * j))
        <5>1. /\ (1 - (k * m)) - (-(k * m)) = 1 /\ (1 - (k * m)) + (-(k * m)) = 1 - (k * j)
              /\ 2 * (p * m) = 0 + (p * j)
          <6> HIDE DEF m
          <6> QED
            BY <1>1, <4>1
        <5> HIDE DEF j, m
        <5> QED
          BY <1>5, <5>1 DEF Place
      <4>5. c \in Lattice
        <5>1. 1 - (k * m) \in Int /\ -(k * m) \in Int /\ p * m \in Int
          <6> HIDE DEF m
          <6> QED
            BY <1>1, <4>1
        <5> HIDE DEF m
        <5> QED
          BY <5>1, LatticePlace
      <4>6. c = [u |-> g, v |-> j - a, w |-> period]
        <5> HIDE DEF c, j
        <5>1. g + 0 = g /\ (-a) + j = j - a /\ period + 0 = period
          BY <1>2, <4>1
        <5> QED
          BY <4>2, <4>3, <4>4, <5>1 DEF Moved
      <4>7. Spot(i, n) = Moved(c, subtile_count * 0, subtile_count * 0, subtile_count * (-p2))
        <5>1. j - a = (2 * n) + (al * 1)
          BY <1>2, <2>2
        <5>2. period + (subtile_count * (-p2)) = g * (pi * 1)
          <6>1. period = g * ((2 * p2) + pi)
            BY <1>1, <2>2
          <6>2. g * ((2 * p2) + pi) = ((2 * g) * p2) + (g * pi) /\ (2 * g) * (-p2) = -((2 * g) * p2)
                /\ pi * 1 = pi
            BY <1>2, <2>2
          <6>3. (2 * g) * p2 \in Int /\ g * pi \in Int
            BY <1>2, <2>2
          <6> QED
            BY <2>1, <6>1, <6>2, <6>3
        <5>3. subtile_count * 0 = 0 /\ g * 1 = g /\ g + 0 = g /\ (j - a) + 0 = j - a
          BY <1>2, <2>1, <4>1
        <5> HIDE DEF c, j
        <5> QED
          BY <2>3, <3>2, <4>6, <5>1, <5>2, <5>3 DEF Moved
      <4> HIDE DEF c
      <4>8. -p2 \in Int
        BY <2>2
      <4>9. Moved(c, subtile_count * 0, subtile_count * 0, subtile_count * (-p2)) \in Lattice
        BY <4>5, <4>8, LatticeMoves
      <4> QED
        BY <4>7, <4>9
    <3> QED
      BY <2>1, <3>1, <3>2
  <2> QED
    BY <2>4, <2>5 DEF Reduced
<1> QED
  BY <1>4, <1>5

LEMMA SpotOnto ==
  ASSUME Constructed, diagonal \in BOOLEAN, NEW c \in Reduced
  PROVE  \E i \in 0 .. (Scale - 1), n \in 0 .. (gcd - 1) : c = Spot(i, n)
<1> DEFINE g == gcd
           a == w_time
           b == w_space
           D == displacement
           P == period
<1>1. PICK k \in Int, p \in Int : /\ displacement = gcd * k /\ period = gcd * p
                                  /\ (k * w_time) + (p * w_space) = 1
  BY Coprime
<1>2. g \in Nat \ {0} /\ a \in Int /\ b \in Int /\ subtile_count = Scale * g /\ D = g * k /\ P = g * p
  BY Numbers, <1>1
<1>3. (period \div gcd) % 2 = p % 2
  <2>1. period \in Int /\ p \in Int /\ 0 \in 0 .. (gcd - 1) /\ period = (gcd * p) + 0
    BY <1>1, <1>2
  <2>2. period \div gcd = p
    BY <1>2, <2>1, QuotientUnique
  <2> QED
    BY <2>2
<1>4. PICK p1 \in Int, q \in Int, s \in Int : c = Place(p1, q, s)
  BY DEF Reduced, Lattice
<1>5. Ranged(c)
  BY DEF Reduced
<1>6. CASE ~diagonal
  <2>1. Scale = 1 /\ subtile_count = g
    BY <1>2, <1>6 DEF Scale
  <2>2. c = [u |-> g * p1, v |-> (b * s) - (a * q), w |-> (P * q) + (D * s)]
    BY <1>4, <1>6 DEF Place, Point
  <2> DEFINE n == (b * s) - (a * q)
             z == (p * q) + (k * s)
  <2> HIDE DEF g, a, b, D, P
  <2>3. z \in Int /\ n \in Int /\ (P * q) + (D * s) = g * z
    <3>1. (g * p) * q = g * (p * q) /\ (g * k) * s = g * (k * s) /\ g * ((p * q) + (k * s)) = (g * (p * q)) + (g * (k * s))
      BY <1>2
    <3>2. z \in Int /\ n \in Int
      BY <1>2
    <3> QED
      BY <1>2, <3>1, <3>2
  <2> HIDE DEF z, n
  <2>4. c = [u |-> g * p1, v |-> n, w |-> g * z]
    BY <2>2, <2>3 DEF n
  <2>5. n \in 0 .. (g - 1) /\ g * p1 \in 0 .. (g - 1) /\ g * z \in 0 .. (g - 1)
    BY <1>5, <2>1, <2>4 DEF Ranged
  <2>6. p1 = 0 /\ z = 0
    <3>1. 0 <= g * p1 /\ g * p1 < g * 1 /\ 0 <= g * z /\ g * z < g * 1 /\ 1 \in Int
      BY <1>2, <2>5
    <3>2. 0 <= p1 /\ p1 < 1 /\ 0 <= z /\ z < 1
      BY <1>2, <2>3, <3>1, Bounds
    <3> QED
      BY <2>3, <3>2
  <2>7. Spot(0, n) = [u |-> g * 0, v |-> (1 * n) + ((a % 2) * 0), w |-> g * ((p % 2) * 0)]
    BY <1>3, <2>1 DEF Spot, g, a
  <2>8. (1 * n) + ((a % 2) * 0) = n /\ (p % 2) * 0 = 0
    BY <1>2, <2>3
  <2>9. c = Spot(0, n)
    BY <2>4, <2>6, <2>7, <2>8
  <2> QED
    BY <2>1, <2>5, <2>9 DEF g
<1>7. CASE diagonal
  <2>1. Scale = 2 /\ subtile_count = 2 * g
    BY <1>2, <1>7 DEF Scale
  <2>2. c = [u |-> g * (p1 - q), v |-> (b * (2 * s)) - (a * (p1 + q)), w |-> (P * (p1 + q)) + (D * (2 * s))]
    BY <1>4, <1>7 DEF Place, Point
  <2> DEFINE al == a % 2
             pi == p % 2
             a2 == a \div 2
             p2 == p \div 2
             i == p1 - q
             n == ((b * s) - (a * q)) - ((a2 + al) * i)
             m == (p2 * i) + (p * q) + (k * s)
             z == (pi * i) + (2 * m)
  <2>3. al \in 0 .. 1 /\ pi \in 0 .. 1 /\ a2 \in Int /\ p2 \in Int /\ a = (2 * a2) + al /\ p = (2 * p2) + pi
    BY <1>1, <1>2
  <2>4. \A j, t \in Int : Spot(j, t) = [u |-> g * j, v |-> (2 * t) + (al * j), w |-> g * (pi * j)]
    BY <1>3, <2>1 DEF Spot
  <2>5. i \in Int /\ p1 + q = i + (2 * q)
    OBVIOUS
  <2> HIDE DEF g, a, b, D, P, al, pi, a2, p2, i
  <2>6. n \in Int /\ m \in Int /\ z \in Int
    BY <1>2, <2>3, <2>5
  <2>7. (b * (2 * s)) - (a * (i + (2 * q))) = (2 * n) + (al * i)
    <3>1. a * i = (2 * (a2 * i)) + (al * i)
      BY <1>2, <2>3, <2>5
    <3>2. /\ b * (2 * s) = 2 * (b * s) /\ a * (i + (2 * q)) = (a * i) + (2 * (a * q))
          /\ (a2 + al) * i = (a2 * i) + (al * i)
      BY <1>2, <2>3, <2>5
    <3>3. {b * s, a * i, a * q, a2 * i, al * i} \subseteq Int
      BY <1>2, <2>3, <2>5
    <3> QED
      BY <3>1, <3>2, <3>3
  <2>8. (P * (i + (2 * q))) + (D * (2 * s)) = g * z
    <3>1. P * (i + (2 * q)) = g * ((p * i) + (2 * (p * q))) /\ D * (2 * s) = g * (2 * (k * s))
      <4>1. /\ (g * p) * (i + (2 * q)) = g * ((p * i) + (2 * (p * q)))
            /\ (g * k) * (2 * s) = g * (2 * (k * s))
        BY <1>2, <2>5
      <4> QED
        BY <1>2, <4>1
    <3>2. p * i = (2 * (p2 * i)) + (pi * i)
      <4>1. ((2 * p2) + pi) * i = (2 * (p2 * i)) + (pi * i)
        BY <2>3, <2>5
      <4> QED
        BY <2>3, <4>1
    <3>3. {p * i, p * q, k * s, p2 * i, pi * i} \subseteq Int
      BY <1>2, <2>3, <2>5
    <3>4. ((p * i) + (2 * (p * q))) + (2 * (k * s)) = z
      BY <3>2, <3>3
    <3>5. g * ((p * i) + (2 * (p * q))) + g * (2 * (k * s)) = g * (((p * i) + (2 * (p * q))) + (2 * (k * s)))
      <4>1. \A e, f \in Int : (g * e) + (g * f) = g * (e + f)
        BY <1>2
      <4>2. (p * i) + (2 * (p * q)) \in Int /\ 2 * (k * s) \in Int
        BY <3>3
      <4> QED
        BY <4>1, <4>2
    <3> HIDE DEF z
    <3> QED
      BY <3>1, <3>4, <3>5
  <2> HIDE DEF n
  <2> DEFINE y2 == z
  <2> HIDE DEF y2
  <2>9. c = [u |-> g * i, v |-> (2 * n) + (al * i), w |-> g * y2]
    <3> HIDE DEF m, z
    <3> QED
      BY <2>2, <2>5, <2>7, <2>8 DEF y2, i
  <2>10. /\ g * i \in 0 .. ((2 * g) - 1) /\ (2 * n) + (al * i) \in 0 .. ((2 * g) - 1)
         /\ g * y2 \in 0 .. ((2 * g) - 1)
    BY <1>5, <2>1, <2>9 DEF Ranged
  <2>13. y2 \in Int
    BY <2>6 DEF y2
  <2>11. i \in 0 .. 1 /\ y2 \in 0 .. 1
    <3>1. 0 <= g * i /\ g * i < g * 2 /\ 0 <= g * y2 /\ g * y2 < g * 2 /\ 2 \in Int
      <4>1. g * 2 = 2 * g
        BY <1>2
      <4> QED
        BY <1>2, <2>10, <4>1
    <3>2. 0 <= i /\ i < 2 /\ 0 <= y2 /\ y2 < 2
      BY <1>2, <2>5, <2>13, <3>1, Bounds
    <3> QED
      BY <2>5, <2>13, <3>2
  <2>12. al * i \in 0 .. 1 /\ pi * i \in 0 .. 1
    BY <2>3, <2>11
  <2>14. n \in 0 .. (g - 1)
    BY <1>2, <2>6, <2>10, <2>12
  <2>15. y2 = pi * i
    <3> HIDE DEF m
    <3> QED
      BY <2>6, <2>11, <2>12 DEF y2
  <2>16. c = Spot(i, n)
    BY <2>4, <2>5, <2>6, <2>9, <2>15
  <2>17. i \in 0 .. (Scale - 1) /\ n \in 0 .. (gcd - 1)
    BY <2>1, <2>11, <2>14 DEF g
  <2> QED
    BY <2>16, <2>17
<1> QED
  BY <1>6, <1>7

LEMMA SpotOnce ==
  ASSUME Constructed, diagonal \in BOOLEAN,
         NEW i \in 0 .. (Scale - 1), NEW n \in 0 .. (gcd - 1), NEW j \in 0 .. (Scale - 1), NEW m \in 0 .. (gcd - 1),
         Spot(i, n) = Spot(j, m)
  PROVE  i = j /\ n = m
<1> DEFINE al == w_time % 2
           k == Scale
           g == gcd
<1>1. g \in Nat \ {0} /\ al \in Int /\ k \in Nat \ {0}
  BY Numbers
<1>2. g * i = g * j /\ (k * n) + (al * i) = (k * m) + (al * j)
  BY DEF Spot
<1>3. i \in Int /\ j \in Int /\ n \in Int /\ m \in Int
  BY <1>1
<1> HIDE DEF al, k, g
<1>4. i = j
  BY <1>1, <1>2, <1>3, Cancel
<1>5. k * n = k * m
  <2>1. k * n \in Int /\ k * m \in Int /\ al * i \in Int
    BY <1>1, <1>3
  <2>2. al * i = al * j
    BY <1>4
  <2> DEFINE kn == k * n
             km == k * m
             ai == al * i
             aj == al * j
  <2>3. kn + ai = km + aj /\ ai = aj /\ kn \in Int /\ km \in Int /\ ai \in Int
    BY <1>2, <2>1, <2>2
  <2> HIDE DEF kn, km, ai, aj
  <2>4. kn = km
    BY <2>3
  <2> QED
    BY <2>4 DEF kn, km
<1>6. n = m
  BY <1>1, <1>3, <1>5, Cancel
<1> QED
  BY <1>4, <1>6

\* build_spots can only find the number of spots that parse expects.
LEMMA SpotCount ==
  ASSUME Constructed, diagonal \in BOOLEAN
  PROVE  IsFiniteSet(Reduced) /\ Cardinality(Reduced) = subtile_count
<1>1. gcd \in Nat \ {0} /\ Scale \in Nat \ {0} /\ subtile_count = Scale * gcd
  BY Numbers
<1>2. /\ IsFiniteSet(0 .. (Scale - 1)) /\ Cardinality(0 .. (Scale - 1)) = Scale
      /\ IsFiniteSet(0 .. (gcd - 1)) /\ Cardinality(0 .. (gcd - 1)) = gcd
  <2>1. \A k \in Nat \ {0} : IsFiniteSet(0 .. (k - 1)) /\ Cardinality(0 .. (k - 1)) = k
    BY FS_Interval
  <2> QED
    BY <1>1, <2>1
<1>3. IsFiniteSet(SpotNames) /\ Cardinality(SpotNames) = subtile_count
  BY <1>1, <1>2, FS_Product DEF SpotNames
<1> DEFINE f == [name \in SpotNames |-> Spot(name[1], name[2])]
<1>4. f \in [SpotNames -> Reduced]
  BY SpotIn DEF SpotNames
<1>5. \A c \in Reduced : \E name \in SpotNames : f[name] = c
  <2> SUFFICES ASSUME NEW c \in Reduced PROVE \E name \in SpotNames : f[name] = c
    OBVIOUS
  <2>1. PICK i \in 0 .. (Scale - 1), n \in 0 .. (gcd - 1) : c = Spot(i, n)
    BY SpotOnto
  <2>2. <<i, n>> \in SpotNames
    BY DEF SpotNames
  <2> QED
    BY <2>1, <2>2
<1>6. \A d, e \in SpotNames : f[d] = f[e] => d = e
  BY SpotOnce DEF SpotNames
<1>7. ExistsBijection(SpotNames, Reduced)
  <2>1. f \in Bijection(SpotNames, Reduced)
    BY <1>4, <1>5, <1>6 DEF Bijection, Injection, Surjection, IsInjective
  <2> QED
    BY <2>1 DEF ExistsBijection
<1> QED
  BY <1>3, <1>7, FS_Bijection

-----------------------------------------------------------------------------
\* The queue of build_spots.
Distinct(s) == \A i, j \in DOMAIN s : s[i] = s[j] => i = j

Extends(s, t) == Len(s) <= Len(t) /\ \A i \in 1 .. Len(s) : t[i] = s[i]

LEMMA DiscoverAdds ==
  ASSUME NEW R, NEW s \in Seq(R), Distinct(s), NEW c \in R
  PROVE  /\ Discover(s, c) \in Seq(R) /\ Distinct(Discover(s, c))
         /\ Discovered(Discover(s, c)) = Discovered(s) \cup {c}
         /\ Extends(s, Discover(s, c))
<1>1. CASE c \in Discovered(s)
  BY <1>1 DEF Discover, Extends
<1>2. CASE c \notin Discovered(s)
  <2> DEFINE t == Append(s, c)
  <2>1. /\ t \in Seq(R) /\ Len(t) = Len(s) + 1 /\ Len(s) \in Nat
        /\ DOMAIN s = 1 .. Len(s) /\ DOMAIN t = 1 .. (Len(s) + 1)
        /\ \A i \in 1 .. Len(s) : t[i] = s[i]
        /\ t[Len(s) + 1] = c
    OBVIOUS
  <2>2. Discover(s, c) = t
    BY <1>2 DEF Discover
  <2> HIDE DEF t
  <2>3. \A i \in DOMAIN s : s[i] # c
    BY <1>2 DEF Discovered
  <2>4. Distinct(t)
    <3> SUFFICES ASSUME NEW i \in DOMAIN t, NEW j \in DOMAIN t, t[i] = t[j] PROVE i = j
      BY DEF Distinct
    <3>1. CASE i \in DOMAIN s /\ j \in DOMAIN s
      BY <2>1, <3>1 DEF Distinct
    <3>2. CASE i = Len(s) + 1
      BY <2>1, <2>3, <3>2
    <3>3. CASE j = Len(s) + 1
      BY <2>1, <2>3, <3>3
    <3> QED
      BY <2>1, <3>1, <3>2, <3>3
  <2>5. Discovered(t) = Discovered(s) \cup {c}
    <3>1. ASSUME NEW e \in Discovered(t) PROVE e \in Discovered(s) \cup {c}
      <4>1. PICK i \in DOMAIN t : e = t[i]
        BY <3>1 DEF Discovered
      <4>2. CASE i \in 1 .. Len(s)
        BY <2>1, <4>1, <4>2 DEF Discovered
      <4>3. CASE i = Len(s) + 1
        BY <2>1, <4>1, <4>3
      <4> QED
        BY <2>1, <4>2, <4>3
    <3>2. c \in Discovered(t)
      <4>1. Len(s) + 1 \in DOMAIN t
        BY <2>1
      <4> QED
        BY <2>1, <4>1 DEF Discovered
    <3>3. ASSUME NEW e \in Discovered(s) PROVE e \in Discovered(t)
      <4>1. PICK i \in DOMAIN s : e = s[i]
        BY <3>3 DEF Discovered
      <4>2. i \in DOMAIN t /\ t[i] = e
        BY <2>1, <4>1
      <4> QED
        BY <4>2 DEF Discovered
    <3> QED
      BY <3>1, <3>2, <3>3
  <2> QED
    BY <2>1, <2>2, <2>4, <2>5 DEF Extends
<1> QED
  BY <1>1, <1>2

LEMMA DistinctLength ==
  ASSUME NEW R, NEW s \in Seq(R), Distinct(s), Discovered(s) = R, IsFiniteSet(R)
  PROVE  Len(s) = Cardinality(R)
<1>1. s \in [1 .. Len(s) -> R] /\ Len(s) \in Nat
  OBVIOUS
<1>2. s \in Bijection(1 .. Len(s), R)
  BY <1>1 DEF Bijection, Injection, Surjection, IsInjective, Distinct, Discovered
<1>3. IsFiniteSet(1 .. Len(s)) /\ Cardinality(1 .. Len(s)) = Len(s)
  <2>1. \A k \in Nat : IsFiniteSet(1 .. k) /\ Cardinality(1 .. k) = k
    BY FS_Interval
  <2> QED
    BY <1>1, <2>1
<1>4. ExistsBijection(1 .. Len(s), R)
  BY <1>2 DEF ExistsBijection
<1>5. Cardinality(R) = Cardinality(1 .. Len(s))
  BY <1>3, <1>4, FS_Bijection
<1> QED
  BY <1>3, <1>5

\* A set of coordinates is listed in its order, each coordinate once.
LEMMA Total ==
  ASSUME NEW c \in Coordinate, NEW e \in Coordinate
  PROVE  /\ ~Less(c, c) /\ (c # e => Less(c, e) \/ Less(e, c))
         /\ \A d \in Coordinate : Less(d, c) /\ Less(c, e) => Less(d, e)
  BY DEF Less, Coordinate

LEMMA InOrderLists ==
  ASSUME NEW S \in SUBSET Coordinate, IsFiniteSet(S)
  PROVE  InOrder(S) \in Bijection(1 .. Cardinality(S), S)
<1> DEFINE n == Cardinality(S)
           below(c) == {e \in S : Less(e, c)}
           rank == [c \in S |-> Cardinality(below(c))]
           order == [i \in 1 .. n |-> CHOOSE c \in S : rank[c] = i - 1]
<1>1. n \in Nat
  BY FS_CardinalityType
<1>2. \A c \in S : rank[c] \in 0 .. (n - 1)
  <2> SUFFICES ASSUME NEW c \in S PROVE rank[c] \in 0 .. (n - 1)
    OBVIOUS
  <2>1. below(c) \in SUBSET S
    OBVIOUS
  <2>2. IsFiniteSet(below(c)) /\ Cardinality(below(c)) <= n /\ (n = Cardinality(below(c)) => S = below(c))
    BY <2>1, FS_Subset
  <2>3. c \notin below(c)
    BY Total
  <2>4. Cardinality(below(c)) \in Nat
    BY <2>2, FS_CardinalityType
  <2>5. n # Cardinality(below(c))
    BY <2>2, <2>3
  <2> HIDE DEF below, n
  <2> QED
    BY <1>1, <2>2, <2>4, <2>5
<1>3. ASSUME NEW c \in S, NEW e \in S, Less(c, e) PROVE rank[c] < rank[e]
  <2>1. below(c) \in SUBSET below(e)
    BY <1>3, Total
  <2>2. c \in below(e) /\ c \notin below(c)
    BY <1>3, Total
  <2>3. IsFiniteSet(below(e))
    <3>1. below(e) \in SUBSET S
      OBVIOUS
    <3> QED
      BY <3>1, FS_Subset
  <2>4. IsFiniteSet(below(c)) /\ Cardinality(below(c)) <= Cardinality(below(e))
        /\ (Cardinality(below(e)) = Cardinality(below(c)) => below(e) = below(c))
    BY <2>1, <2>3, FS_Subset
  <2>5. Cardinality(below(c)) \in Nat /\ Cardinality(below(e)) \in Nat
    BY <2>3, <2>4, FS_CardinalityType
  <2>6. rank[c] = Cardinality(below(c)) /\ rank[e] = Cardinality(below(e))
    OBVIOUS
  <2> HIDE DEF below, rank
  <2> QED
    BY <2>2, <2>4, <2>5, <2>6
<1>4. \A c, e \in S : rank[c] = rank[e] => c = e
  <2> SUFFICES ASSUME NEW c \in S, NEW e \in S, c # e PROVE rank[c] # rank[e]
    OBVIOUS
  <2>1. Less(c, e) \/ Less(e, c)
    BY Total
  <2>2. rank[c] \in Int /\ rank[e] \in Int
    BY <1>2
  <2> HIDE DEF rank
  <2> QED
    BY <1>3, <2>1, <2>2
<1>5. \A k \in 0 .. (n - 1) : \E c \in S : rank[c] = k
  <2>1. IsFiniteSet(0 .. (n - 1)) /\ Cardinality(0 .. (n - 1)) = n
    <3>1. \A m \in Nat : IsFiniteSet(0 .. (m - 1)) /\ Cardinality(0 .. (m - 1)) = m
      BY FS_Interval
    <3> HIDE DEF n
    <3> QED
      BY <1>1, <3>1
  <2>2. rank \in Injection(S, 0 .. (n - 1))
    <3>1. rank \in [S -> 0 .. (n - 1)]
      BY <1>2
    <3> HIDE DEF rank
    <3> QED
      BY <1>4, <3>1 DEF Injection, IsInjective
  <2>3. rank \in Surjection(S, 0 .. (n - 1))
    BY <2>1, <2>2, FS_Injection
  <2> HIDE DEF rank, n
  <2> QED
    BY <2>3 DEF Surjection
<1>6. InOrder(S) = order
  BY DEF InOrder
<1> HIDE DEF rank, n
<1>7. \A i \in 1 .. n : order[i] \in S /\ rank[order[i]] = i - 1
  <2> SUFFICES ASSUME NEW i \in 1 .. n PROVE order[i] \in S /\ rank[order[i]] = i - 1
    OBVIOUS
  <2>1. i - 1 \in 0 .. (n - 1)
    BY <1>1
  <2>2. \E c \in S : rank[c] = i - 1
    BY <1>5, <2>1
  <2> QED
    BY <2>2
<1>8. order \in [1 .. n -> S]
  BY <1>7
<1>9. \A i, j \in 1 .. n : order[i] = order[j] => i = j
  <2> SUFFICES ASSUME NEW i \in 1 .. n, NEW j \in 1 .. n, order[i] = order[j] PROVE i = j
    OBVIOUS
  <2>1. i - 1 = j - 1
    BY <1>7
  <2> QED
    BY <1>1, <2>1
<1>10. \A c \in S : \E i \in 1 .. n : order[i] = c
  <2> SUFFICES ASSUME NEW c \in S PROVE \E i \in 1 .. n : order[i] = c
    OBVIOUS
  <2> DEFINE i == rank[c] + 1
  <2>1. rank[c] \in 0 .. (n - 1) /\ i \in 1 .. n /\ i - 1 = rank[c]
    BY <1>1, <1>2
  <2>2. order[i] \in S /\ rank[order[i]] = rank[c]
    BY <1>7, <2>1
  <2>3. order[i] = c
    BY <1>4, <2>2
  <2> QED
    BY <2>1, <2>3
<1> HIDE DEF order
<1>11. order \in Bijection(1 .. n, S)
  BY <1>8, <1>9, <1>10 DEF Bijection, Injection, Surjection, IsInjective
<1> QED
  BY <1>6, <1>11 DEF n

-----------------------------------------------------------------------------
\* While the queue grows: its coordinates are different spots of the tile, and the steps
\* from the spots before the cursor are in it.
Exploring ==
  /\ pending \in Seq(Reduced) /\ Distinct(pending) /\ Origin \in Discovered(pending)
  /\ cursor \in 1 .. (Len(pending) + 1)
  /\ \A n \in 1 .. (cursor - 1), i \in 1 .. 3 :
       normalized(Plus(pending[n], Generators[i])) \in Discovered(pending)

\* The phases name the spots of the tile, each once.
Listed == spots \in Bijection(0 .. (subtile_count - 1), Reduced)

IInv ==
  /\ diagonal \in BOOLEAN
  /\ pc \in {"parse", "rejected", "euclid", "spots", "parsed"}
  /\ pc = "parse" => displacement \in Nat /\ period \in Nat
  /\ pc = "euclid" => Looping /\ subtile_count = (IF diagonal THEN 2 ELSE 1) * gcd
  /\ pc \in {"spots", "parsed"} => Constructed
  /\ pc = "spots" => Exploring
  /\ pc = "parsed" => Listed

LEMMA InitInv == GeometryInit => IInv
<1> SUFFICES ASSUME GeometryInit PROVE IInv
  OBVIOUS
<1>1. displacement \in Nat /\ period \in Nat /\ diagonal \in BOOLEAN
  BY MovementsAssumption DEF GeometryInit
<1> QED
  BY <1>1 DEF GeometryInit, IInv

LEMMA ParseStep == ASSUME IInv, Parse PROVE IInv'
<1>1. displacement \in Nat /\ period \in Nat \ {0} /\ diagonal \in BOOLEAN
  BY DEF IInv, Parse
<1>2. UNCHANGED movement
  BY DEF Parse
<1>3. Common(old_r, r)' = Common(displacement, period)'
  BY <1>2 DEF Parse, movement, Common
<1>4. gcd' = std_gcd(displacement, period) /\ subtile_count' = (IF diagonal THEN 2 ELSE 1) * gcd'
  BY DEF Parse
<1>5. std_gcd(displacement, period)' = std_gcd(displacement, period)
  BY <1>2 DEF movement, std_gcd, Divides
<1>6. /\ old_r' = displacement /\ r' = period /\ old_x' = 1 /\ x' = 0 /\ old_y' = 0 /\ y' = 1
      /\ pc' = "euclid"
  BY DEF Parse
<1>7. /\ displacement = (displacement * 1) + (period * 0)
      /\ period = (displacement * 0) + (period * 1)
      /\ displacement + period > 0
  BY <1>1
<1>8. displacement' = displacement /\ period' = period /\ diagonal' = diagonal
  BY <1>2 DEF movement
<1>9. Looping'
  BY <1>1, <1>3, <1>4, <1>5, <1>6, <1>7, <1>8 DEF Looping
<1> QED
  BY <1>1, <1>4, <1>6, <1>8, <1>9 DEF IInv

LEMMA EuclidStepKeeps == ASSUME IInv, EuclidStep PROVE IInv'
<1>1. Looping /\ pc = "euclid" /\ pc' = "euclid" /\ r # 0
  BY DEF IInv, EuclidStep
<1>2. displacement' = displacement /\ period' = period /\ diagonal' = diagonal /\ gcd' = gcd
      /\ subtile_count' = subtile_count
  BY DEF EuclidStep, movement, tile
<1> DEFINE q == old_r \div r
           s == old_r % r
<1>3. r \in Nat \ {0} /\ old_r \in Nat
  BY <1>1 DEF Looping
<1>4. q \in Int /\ s \in 0 .. (r - 1) /\ old_r = (r * q) + s
  BY <1>3, Division
<1>5. Quotient(old_r, r) = q
  BY <1>3 DEF Quotient
<1> HIDE DEF q, s
<1>6. /\ old_r' = r /\ r' = old_r - (q * r)
      /\ old_x' = x /\ x' = old_x - (q * x)
      /\ old_y' = y /\ y' = old_y - (q * y)
  BY <1>5 DEF EuclidStep
<1>7. r' \in Nat
  <2>1. r' = s
    BY <1>3, <1>4, <1>6
  <2> QED
    BY <2>1, <1>4
<1>8. old_x \in Int /\ x \in Int /\ old_y \in Int /\ y \in Int /\ displacement \in Nat /\ period \in Nat
  BY <1>1 DEF Looping
<1>9. r' = (displacement * x') + (period * y')
  <2>1. /\ displacement * (old_x - (q * x)) = (displacement * old_x) - (q * (displacement * x))
        /\ period * (old_y - (q * y)) = (period * old_y) - (q * (period * y))
    BY <1>4, <1>8
  <2>2. q * r = (q * (displacement * x)) + (q * (period * y))
    <3>1. r = (displacement * x) + (period * y)
      BY <1>1 DEF Looping
    <3> QED
      BY <3>1, <1>4, <1>8
  <2>3. old_r = (displacement * old_x) + (period * old_y)
    BY <1>1 DEF Looping
  <2>4. /\ displacement * old_x \in Int /\ period * old_y \in Int
        /\ q * (displacement * x) \in Int /\ q * (period * y) \in Int
    BY <1>4, <1>8
  <2> QED
    BY <1>6, <2>1, <2>2, <2>3, <2>4
<1>10. Common(old_r, r)' = Common(displacement, period)'
  <2>3. old_r \in Int /\ r \in Int /\ q \in Int
    BY <1>3, <1>4
  <2>1. Common(r, old_r - (q * r)) = Common(old_r, r)
    BY <2>3, CommonStep
  <2>2. Common(old_r, r) = Common(displacement, period)
    BY <1>1 DEF Looping
  <2> QED
    BY <1>2, <1>6, <2>1, <2>2
<1>11. std_gcd(displacement, period)' = std_gcd(displacement, period)
  BY <1>2 DEF std_gcd, Divides
<1>12. x' \in Int /\ y' \in Int
  BY <1>4, <1>6, <1>8
<1>13. old_r' = (displacement * old_x') + (period * old_y') /\ old_r' + r' > 0
  BY <1>1, <1>3, <1>6, <1>7 DEF Looping
<1>14. Looping'
  BY <1>1, <1>2, <1>3, <1>6, <1>7, <1>8, <1>9, <1>10, <1>11, <1>12, <1>13 DEF Looping
<1> QED
  BY <1>1, <1>2, <1>14 DEF IInv

\* The origin is a spot of every tile.
LEMMA OriginPlaced == Constructed /\ diagonal \in BOOLEAN => Origin \in Reduced
  BY OriginPlace

LEMMA OriginNext == (Constructed /\ diagonal \in BOOLEAN => Origin \in Reduced)'
  BY OriginPlaced, PTL

LEMMA EuclidDoneKeeps == ASSUME IInv, EuclidDone PROVE IInv'
<1>1. Looping /\ r = 0 /\ subtile_count = (IF diagonal THEN 2 ELSE 1) * gcd
  BY DEF IInv, EuclidDone
<1>2. displacement' = displacement /\ period' = period /\ diagonal' = diagonal /\ gcd' = gcd
      /\ subtile_count' = subtile_count
  BY DEF EuclidDone, movement, tile
<1>3. old_r \in Nat \ {0} /\ displacement \in Nat /\ period \in Nat \ {0}
  BY <1>1 DEF Looping
<1>4. Common(old_r, 0) = Common(displacement, period)
  BY <1>1 DEF Looping
<1>5. std_gcd(displacement, period) = old_r
  BY <1>3, <1>4, GcdFound
<1>6. gcd = old_r
  BY <1>1, <1>5 DEF Looping
<1>7. Sign = 1
  BY <1>3 DEF Sign
<1>8. old_x \in Int /\ old_y \in Int
  BY <1>1 DEF Looping
<1>9. pc' = "spots" /\ w_time' = old_x /\ w_space' = old_y
  BY <1>3, <1>6, <1>7, <1>8 DEF EuclidDone
<1>10. std_gcd(displacement, period)' = std_gcd(displacement, period)
  BY <1>2 DEF std_gcd, Divides
<1>11. (displacement * old_x) + (period * old_y) = gcd
  BY <1>1, <1>6 DEF Looping
<1>13. Divides(gcd, displacement) /\ Divides(gcd, period)
  <2>1. old_r = old_r * 1 /\ 0 = old_r * 0
    BY <1>3
  <2>2. Divides(old_r, old_r) /\ Divides(old_r, 0)
    BY <1>3, <2>1, DividesFactor
  <2>3. old_r \in Common(displacement, period)
    BY <1>3, <1>4, <2>2 DEF Common
  <2> QED
    BY <1>6, <2>3 DEF Common
<1>14. Divides(gcd, displacement)' /\ Divides(gcd, period)'
  BY <1>2, <1>13 DEF Divides
<1>12. Constructed'
  BY <1>1, <1>2, <1>3, <1>5, <1>6, <1>8, <1>9, <1>10, <1>11, <1>14 DEF Constructed
<1>15. diagonal' \in BOOLEAN
  BY <1>2 DEF IInv
<1>16. Exploring'
  <2>1. pending' = <<Origin>> /\ cursor' = 1
    BY <1>3, <1>6, <1>7, <1>8 DEF EuclidDone
  <2>2. Origin \in Reduced'
    <3>1. Constructed' /\ diagonal' \in BOOLEAN => Origin' \in Reduced'
      BY OriginNext
    <3> QED
      BY <1>12, <1>15, <3>1 DEF Origin
  <2> QED
    BY <2>1, <2>2 DEF Exploring, Distinct, Discovered
<1> QED
  BY <1>2, <1>9, <1>12, <1>16 DEF IInv

LEMMA TileUnchanged ==
  ASSUME UNCHANGED <<movement, tile, bezout>>
  PROVE  /\ Reduced' = Reduced /\ Generators' = Generators
         /\ \A c : normalized(c)' = normalized(c)
<1>1. /\ displacement' = displacement /\ period' = period /\ diagonal' = diagonal
      /\ gcd' = gcd /\ subtile_count' = subtile_count
      /\ w_time' = w_time /\ w_space' = w_space
  BY DEF movement, tile, bezout
<1>2. \A p, q, s : Place(p, q, s)' = Place(p, q, s)
  BY <1>1 DEF Place, Point
<1>3. Lattice' = Lattice
  BY <1>2 DEF Lattice
<1>4. \A c : Ranged(c)' = Ranged(c)
  BY <1>1 DEF Ranged
<1>5. Reduced' = Reduced
  BY <1>3, <1>4 DEF Reduced
<1>6. Generators' = Generators
  BY <1>1 DEF Generators
<1>7. \A c : normalized(c)' = normalized(c)
  BY <1>1 DEF normalized, floor_mod, Remainder, Quotient
<1> QED
  BY <1>5, <1>6, <1>7

LEMMA ConstructedUnchanged ==
  ASSUME Constructed, UNCHANGED <<movement, tile, bezout>>
  PROVE  Constructed'
<1>1. /\ displacement' = displacement /\ period' = period /\ diagonal' = diagonal
      /\ gcd' = gcd /\ subtile_count' = subtile_count
      /\ w_time' = w_time /\ w_space' = w_space
  BY DEF movement, tile, bezout
<1>2. std_gcd(displacement, period)' = std_gcd(displacement, period)
  BY <1>1 DEF std_gcd, Divides
<1>3. Divides(gcd, displacement)' /\ Divides(gcd, period)'
  BY <1>1 DEF Constructed, Divides
<1> QED
  BY <1>1, <1>2, <1>3 DEF Constructed

\* A step of the search leads to a spot of the tile.
LEMMA StepSpot ==
  ASSUME Constructed, diagonal \in BOOLEAN, NEW c \in Reduced, NEW i \in 1 .. 3
  PROVE  normalized(Plus(c, Generators[i])) \in Reduced
<1>1. c \in Lattice
  BY DEF Reduced
<1>2. Place(1, 0, 0) \in Lattice /\ Place(0, 1, 0) \in Lattice /\ Place(0, 0, 1) \in Lattice
  BY LatticePlace
<1>4. /\ Plus(c, Place(1, 0, 0)) \in Lattice /\ Plus(c, Place(0, 1, 0)) \in Lattice
      /\ Plus(c, Place(0, 0, 1)) \in Lattice
  BY <1>1, <1>2, LatticeAdds
<1>5. Plus(c, Generators[i]) \in Lattice
  BY <1>4, GeneratorSteps
<1> QED
  BY <1>5, NormalizedLattice DEF Reduced

LEMMA ExpandSpotKeeps == ASSUME IInv, ExpandSpot PROVE IInv'
<1>1. Constructed /\ Exploring /\ diagonal \in BOOLEAN /\ pc = "spots" /\ pc' = "spots"
  BY DEF IInv, ExpandSpot
<1>2. UNCHANGED <<movement, tile, bezout>> /\ diagonal' = diagonal
  BY DEF ExpandSpot, movement
<1>3. Reduced' = Reduced /\ Generators' = Generators /\ \A c : normalized(c)' = normalized(c)
  BY <1>2, TileUnchanged
<1> DEFINE c == pending[cursor]
           next(i) == normalized(Plus(c, Generators[i]))
           t1 == Discover(pending, next(1))
           t2 == Discover(t1, next(2))
           t3 == Discover(t2, next(3))
<1>4. cursor \in 1 .. Len(pending) /\ cursor' = cursor + 1 /\ pending' = t3
  BY <1>1 DEF ExpandSpot, Exploring
<1>5. pending \in Seq(Reduced) /\ Distinct(pending) /\ c \in Reduced
  BY <1>1, <1>4 DEF Exploring
<1>6. next(1) \in Reduced /\ next(2) \in Reduced /\ next(3) \in Reduced
  BY <1>1, <1>5, StepSpot
<1> HIDE DEF c
<1> HIDE DEF next
<1>7. /\ t1 \in Seq(Reduced) /\ Distinct(t1) /\ Discovered(t1) = Discovered(pending) \cup {next(1)}
      /\ Extends(pending, t1)
  BY <1>5, <1>6, DiscoverAdds
<1> HIDE DEF t1
<1>18. t1 \in Seq(Reduced) /\ Distinct(t1) /\ next(2) \in Reduced
  BY <1>6, <1>7
<1>8. /\ t2 \in Seq(Reduced) /\ Distinct(t2) /\ Discovered(t2) = Discovered(t1) \cup {next(2)}
      /\ Extends(t1, t2)
  BY <1>18, DiscoverAdds
<1> HIDE DEF t2
<1>19. t2 \in Seq(Reduced) /\ Distinct(t2) /\ next(3) \in Reduced
  BY <1>6, <1>8
<1>9. /\ t3 \in Seq(Reduced) /\ Distinct(t3) /\ Discovered(t3) = Discovered(t2) \cup {next(3)}
      /\ Extends(t2, t3)
  BY <1>19, DiscoverAdds
<1> HIDE DEF t3
<1>10. Discovered(t3) = Discovered(pending) \cup {next(1), next(2), next(3)}
  BY <1>7, <1>8, <1>9
<1>11. Extends(pending, t3)
  <2>1. Len(pending) \in Nat /\ Len(t1) \in Nat /\ Len(t2) \in Nat /\ Len(t3) \in Nat
    BY <1>5, <1>7, <1>8, <1>9
  <2> QED
    BY <1>7, <1>8, <1>9, <2>1 DEF Extends
<1>12. cursor + 1 \in 1 .. (Len(t3) + 1)
  <2>1. Len(pending) \in Nat /\ Len(t3) \in Nat
    BY <1>5, <1>9
  <2> QED
    BY <1>4, <1>11, <2>1 DEF Extends
<1>13. ASSUME NEW n \in 1 .. cursor, NEW i \in 1 .. 3
       PROVE  normalized(Plus(t3[n], Generators[i])) \in Discovered(t3)
  <2>1. t3[n] = pending[n]
    <3>1. n \in 1 .. Len(pending)
      BY <1>4, <1>5
    <3> QED
      BY <1>11, <3>1 DEF Extends
  <2>2. CASE n = cursor
    <3>1. normalized(Plus(t3[n], Generators[i])) = next(i)
      BY <2>1, <2>2 DEF next, c
    <3>2. next(i) \in {next(1), next(2), next(3)}
      OBVIOUS
    <3> QED
      BY <1>10, <3>1, <3>2
  <2>3. CASE n # cursor
    <3>1. n \in 1 .. (cursor - 1)
      BY <1>4, <2>3
    <3>2. normalized(Plus(pending[n], Generators[i])) \in Discovered(pending)
      BY <1>1, <3>1 DEF Exploring
    <3> QED
      BY <1>10, <2>1, <3>2
  <2> QED
    BY <2>2, <2>3
<1>14. Origin \in Discovered(t3)
  BY <1>1, <1>10 DEF Exploring
<1>15. Discovered(t3) = Discovered(pending)' /\ Distinct(t3) = Distinct(pending)'
  BY <1>4 DEF Discovered, Distinct
<1>16. (cursor + 1) - 1 = cursor
  BY <1>4
<1>17. Exploring'
  BY <1>3, <1>4, <1>9, <1>12, <1>13, <1>14, <1>15, <1>16 DEF Exploring, Origin
<1>20. Constructed'
  BY <1>1, <1>2, ConstructedUnchanged
<1> QED
  BY <1>1, <1>2, <1>17, <1>20 DEF IInv

\* The search ends with the whole tile, and so with the number of spots that is expected.
LEMMA SearchEnds ==
  ASSUME Constructed, diagonal \in BOOLEAN, Exploring, cursor > Len(pending)
  PROVE  Discovered(pending) = Reduced /\ Len(pending) = subtile_count
<1>1. pending \in Seq(Reduced) /\ Distinct(pending) /\ Origin \in Discovered(pending)
  BY DEF Exploring
<1>2. Discovered(pending) \subseteq Reduced
  BY <1>1 DEF Discovered
<1>3. cursor - 1 = Len(pending)
  BY DEF Exploring
<1>4. ASSUME NEW i \in 1 .. 3 PROVE Closed(Discovered(pending), Generators[i])
  <2> SUFFICES ASSUME NEW c \in Discovered(pending)
               PROVE  normalized(Plus(c, Generators[i])) \in Discovered(pending)
    BY DEF Closed
  <2>1. PICK n \in DOMAIN pending : c = pending[n]
    BY DEF Discovered
  <2>2. n \in 1 .. (cursor - 1)
    BY <1>1, <1>3
  <2> QED
    BY <2>1, <2>2 DEF Exploring
<1>5. Reduced \subseteq Discovered(pending)
  BY <1>1, <1>4, AllReached
<1>6. Discovered(pending) = Reduced
  BY <1>2, <1>5
<1> QED
  BY <1>1, <1>6, DistinctLength, SpotCount

LEMMA SpotsDoneKeeps == ASSUME IInv, SpotsDone PROVE IInv'
<1>1. Constructed /\ Exploring /\ diagonal \in BOOLEAN /\ cursor > Len(pending)
  BY DEF IInv, SpotsDone
<1>2. UNCHANGED <<movement, tile, bezout>> /\ diagonal' = diagonal /\ subtile_count' = subtile_count
  BY DEF SpotsDone, movement, tile
<1>3. Discovered(pending) = Reduced /\ Len(pending) = subtile_count
  BY <1>1, SearchEnds
<1> DEFINE S == subtile_count
           sorted == InOrder(Reduced)
           names == [p \in 0 .. (S - 1) |-> sorted[p + 1]]
<1>4. spots' = names /\ pc' = "parsed"
  BY <1>3 DEF SpotsDone
<1>5. Reduced \in SUBSET Coordinate /\ IsFiniteSet(Reduced) /\ Cardinality(Reduced) = S
  BY <1>1, LatticeType, SpotCount DEF Reduced
<1>6. sorted \in Bijection(1 .. S, Reduced)
  BY <1>5, InOrderLists
<1>7. S \in Nat \ {0}
  BY <1>1, Numbers
<1> HIDE DEF S, sorted
<1>8. /\ \A i \in 1 .. S : sorted[i] \in Reduced
      /\ \A i, j \in 1 .. S : sorted[i] = sorted[j] => i = j
      /\ \A c \in Reduced : \E i \in 1 .. S : sorted[i] = c
  BY <1>6 DEF Bijection, Injection, Surjection, IsInjective
<1>9. names \in Bijection(0 .. (S - 1), Reduced)
  <2>1. \A p \in 0 .. (S - 1) : p + 1 \in 1 .. S /\ names[p] = sorted[p + 1]
    BY <1>7
  <2>2. names \in [0 .. (S - 1) -> Reduced]
    BY <1>8, <2>1
  <2>3. \A i, j \in 0 .. (S - 1) : names[i] = names[j] => i = j
    <3> SUFFICES ASSUME NEW i \in 0 .. (S - 1), NEW j \in 0 .. (S - 1), names[i] = names[j] PROVE i = j
      OBVIOUS
    <3>1. i + 1 = j + 1
      BY <1>8, <2>1
    <3> QED
      BY <1>7, <3>1
  <2>4. \A c \in Reduced : \E p \in 0 .. (S - 1) : names[p] = c
    <3> SUFFICES ASSUME NEW c \in Reduced PROVE \E p \in 0 .. (S - 1) : names[p] = c
      OBVIOUS
    <3>1. PICK i \in 1 .. S : sorted[i] = c
      BY <1>8
    <3>2. i - 1 \in 0 .. (S - 1) /\ (i - 1) + 1 = i
      BY <1>7
    <3> QED
      BY <2>1, <3>1, <3>2
  <2> HIDE DEF names
  <2> QED
    BY <2>2, <2>3, <2>4 DEF Bijection, Injection, Surjection, IsInjective
<1>10. Reduced' = Reduced
  BY <1>2, TileUnchanged
<1>11. Listed'
  BY <1>2, <1>4, <1>9, <1>10 DEF Listed, S
<1>12. Constructed'
  BY <1>1, <1>2, ConstructedUnchanged
<1> QED
  BY <1>1, <1>2, <1>4, <1>11, <1>12 DEF IInv

LEMMA InvNext == IInv /\ [GeometryNext]_geometryVars => IInv'
<1> SUFFICES ASSUME IInv, [GeometryNext]_geometryVars PROVE IInv'
  OBVIOUS
<1>1. CASE Reject
  BY <1>1 DEF IInv, Reject, movement
<1>2. CASE Parse
  BY <1>2, ParseStep
<1>3. CASE EuclidStep
  BY <1>3, EuclidStepKeeps
<1>4. CASE EuclidDone
  BY <1>4, EuclidDoneKeeps
<1>6. CASE ExpandSpot
  BY <1>6, ExpandSpotKeeps
<1>7. CASE SpotsDone
  BY <1>7, SpotsDoneKeeps
<1>8. CASE UNCHANGED geometryVars
  <2>1. std_gcd(displacement, period)' = std_gcd(displacement, period)
    BY <1>8 DEF geometryVars, movement, std_gcd, Divides
  <2>2. Common(old_r, r)' = Common(old_r, r) /\ Common(displacement, period)' = Common(displacement, period)
    BY <1>8 DEF geometryVars, movement, euclid, Common, Divides
  <2>3. /\ Divides(gcd, displacement)' <=> Divides(gcd, displacement)
        /\ Divides(gcd, period)' <=> Divides(gcd, period)
    BY <1>8 DEF geometryVars, movement, tile, Divides
  <2>4. Reduced' = Reduced /\ Exploring' = Exploring
    BY <1>8, TileUnchanged DEF geometryVars, queue, Exploring, Distinct, Discovered
  <2>5. Listed' = Listed
    BY <1>8, <2>4 DEF geometryVars, tile, Listed
  <2> QED
    BY <1>8, <2>1, <2>2, <2>3, <2>4, <2>5
       DEF geometryVars, movement, tile, bezout, euclid, IInv, Looping, Constructed
<1> QED
  BY <1>1, <1>2, <1>3, <1>4, <1>6, <1>7, <1>8 DEF GeometryNext

\* The inductive invariant: while the loop runs, the remainders have the divisors of the
\* movement; after it, the pair is one for its greatest common divisor.
THEOREM Invariance == GeometrySpec => []IInv
  BY InitInv, InvNext, PTL DEF GeometrySpec

\* For every movement, extended_gcd keeps its combinations, ends with a Bezout pair for
\* std::gcd, and parse does not throw "geometry Bezout construction failed".
THEOREM BezoutCorrect == GeometrySpec => []BezoutKept
<1>1. IInv => BezoutKept
  BY DEF IInv, Looping, Constructed, BezoutKept
<1> QED
  BY Invariance, <1>1, PTL

\* For every movement, a shift of a lattice cell is the shift of the physical cell that it
\* names, up to the ship's movement, and to_physical never throws for the result.
THEOREM ShiftCorrect == GeometrySpec => []ShiftTranslates
<1>1. IInv => ShiftTranslates
  <2> SUFFICES ASSUME IInv, pc = "parsed",
                      NEW c \in {a \in TileCells : a \in Coordinate /\ Integral(a)}, NEW d \in Steps
               PROVE  LET p == to_physical(c)
                      IN  /\ Integral(shift(c, d))
                          /\ ShipCell(to_physical(shift(c, d)))
                               = ShipCell([x |-> p.x + d[1], y |-> p.y + d[2], t |-> p.t + d[3]])
    BY DEF ShiftTranslates
  <2>1. Constructed /\ diagonal \in BOOLEAN
    BY DEF IInv
  <2>2. PICK dx \in -1 .. 1, dy \in -1 .. 1, dt \in 0 .. 1 : d = <<dx, dy, dt>>
    BY DEF Steps
  <2>3. c \in Coordinate /\ Integral(c) /\ dx \in Int /\ dy \in Int /\ dt \in Int
    OBVIOUS
  <2> QED
    BY <2>1, <2>2, <2>3, StepTranslates
<1> QED
  BY Invariance, <1>1, PTL

-----------------------------------------------------------------------------
\* Cells of columns and depths.
VReduced(c) == [u |-> c.u, v |-> floor_mod(c.v, subtile_count), w |-> c.w]

\* The periods of the ship.
LEMMA PlacePeriods ==
  ASSUME Constructed, diagonal \in BOOLEAN, NEW p \in Int, NEW q \in Int, NEW s \in Int, NEW j \in Int
  PROVE  Place(IF diagonal THEN p - (displacement * j) ELSE p, q - (displacement * j), s + (period * j))
           = Moved(Place(p, q, s), 0, subtile_count * j, 0)
<1> DEFINE i == 0
           D == displacement
           P == period
           S == subtile_count
           along == (w_space * i) - (D * j)
           p2 == p + i + (IF diagonal THEN along ELSE 0)
           q2 == (IF diagonal THEN q - i ELSE q) + along
           s2 == s + (P * j) + (w_time * i)
<1>1. {D, P, S, w_space, w_time} \subseteq Int
  BY Numbers
<1>2. D * j \in Int /\ P * j \in Int
  BY <1>1
<1>3. along = -(D * j) /\ w_time * i = 0 /\ S * i = 0
  <2>1. w_space * 0 = 0 /\ w_time * 0 = 0 /\ S * 0 = 0
    BY <1>1
  <2> HIDE DEF D
  <2> QED
    BY <1>2, <2>1
<1>4. i \in Int /\ i = 0
  OBVIOUS
<1>7. i \in Int
  OBVIOUS
<1> HIDE DEF i
<1>5. Place(p2, q2, s2) = Moved(Place(p, q, s), S * i, S * j, S * i)
  BY <1>7, PlaceMoves
<1> HIDE DEF along, D, P
<1>6. p2 = (IF diagonal THEN p - (D * j) ELSE p) /\ q2 = q - (D * j) /\ s2 = s + (P * j)
  BY <1>2, <1>3, <1>4
<1> HIDE DEF p2, q2, s2
<1> QED
  BY <1>3, <1>5, <1>6 DEF D, P, S

LEMMA VReducedLattice ==
  ASSUME Constructed, diagonal \in BOOLEAN, NEW p \in Int, NEW q \in Int, NEW s \in Int
  PROVE  /\ VReduced(Place(p, q, s)) \in Lattice
         /\ VReduced(Place(p, q, s)).v \in 0 .. (subtile_count - 1)
         /\ \E j \in Int : /\ VReduced(Place(p, q, s)) = Moved(Place(p, q, s), 0, subtile_count * j, 0)
                           /\ \E p2, q2 \in Int : VReduced(Place(p, q, s)) = Place(p2, q2, s + (period * j))
<1> DEFINE c == Place(p, q, s)
           S == subtile_count
<1>1. S \in Nat \ {0} /\ period \in Int /\ displacement \in Int /\ w_space \in Int /\ w_time \in Int
  BY Numbers
<1>2. c \in Coordinate /\ c \in Lattice
  BY PlaceExact, LatticePlace
<1>3. c.u \in Int /\ c.v \in Int /\ c.w \in Int
  BY <1>2 DEF Coordinate
<1>4. PICK j \in Int : floor_mod(c.v, S) = c.v + (S * j)
  BY <1>1, <1>3, Modulo
<1>5. floor_mod(c.v, S) \in 0 .. (S - 1)
  BY <1>1, <1>3, Modulo
<1> DEFINE p2 == IF diagonal THEN p - (displacement * j) ELSE p
           q2 == q - (displacement * j)
<1>6. Place(p2, q2, s + (period * j)) = Moved(c, 0, S * j, 0)
  BY PlacePeriods
<1>8. p2 \in Int /\ q2 \in Int
  BY <1>1
<1> HIDE DEF c, S, p2, q2
<1>9. VReduced(c) = Moved(c, 0, S * j, 0)
  BY <1>3, <1>4 DEF VReduced, Moved, S
<1>10. VReduced(c) = Place(p2, q2, s + (period * j))
  BY <1>6, <1>9
<1>11. VReduced(c) \in Lattice
  <2>1. s + (period * j) \in Int
    BY <1>1
  <2> QED
    BY <1>8, <1>10, <2>1, LatticePlace
<1>12. VReduced(c).v \in 0 .. (S - 1)
  BY <1>5 DEF VReduced, S
<1> QED
  BY <1>8, <1>9, <1>10, <1>11, <1>12 DEF c, S

\* A step adds its own coordinate and keeps V within the period.
LEMMA ShiftAdds ==
  ASSUME Constructed, diagonal \in BOOLEAN, NEW c \in Coordinate,
         NEW dx \in Int, NEW dy \in Int, NEW dt \in Int
  PROVE  shift(c, <<dx, dy, dt>>) = VReduced(Plus(c, Place(dx, dy, dt)))
<1> DEFINE D == displacement
           P == period
           g == gcd
           a == w_time
           b == w_space
           S == subtile_count
           cu == c.u
           cv == c.v
           cw == c.w
<1>1. {D, P, g, a, b, S} \subseteq Int /\ S = Scale * g
  BY Numbers
<1>2. cu \in Int /\ cv \in Int /\ cw \in Int
  BY DEF Coordinate
<1>3. CASE diagonal
  <2>1. shift(c, <<dx, dy, dt>>)
          = [u |-> cu + (g * (dx - dy)), v |-> floor_mod(cv + (((2 * b) * dt) - (a * (dx + dy))), S),
             w |-> (cw + (P * (dx + dy))) + ((2 * D) * dt)]
    BY <1>3 DEF shift
  <2>2. VReduced(Plus(c, Place(dx, dy, dt)))
          = [u |-> cu + (g * (dx - dy)), v |-> floor_mod(cv + ((b * (2 * dt)) - (a * (dx + dy))), S),
             w |-> cw + ((P * (dx + dy)) + (D * (2 * dt)))]
    BY <1>3 DEF VReduced, Plus, Place, Point
  <2> HIDE DEF D, P, g, a, b, S, cu, cv, cw
  <2>3. (2 * b) * dt = b * (2 * dt) /\ (2 * D) * dt = D * (2 * dt)
    BY <1>1
  <2>4. {b * (2 * dt), a * (dx + dy), P * (dx + dy), D * (2 * dt)} \subseteq Int
    BY <1>1
  <2>5. /\ (cw + (P * (dx + dy))) + (D * (2 * dt)) = cw + ((P * (dx + dy)) + (D * (2 * dt)))
    BY <1>2, <2>4
  <2> QED
    BY <2>1, <2>2, <2>3, <2>5
<1>4. CASE ~diagonal
  <2>1. shift(c, <<dx, dy, dt>>)
          = [u |-> cu + (S * dx), v |-> floor_mod(cv + ((b * dt) - (a * dy)), S),
             w |-> (cw + (P * dy)) + (D * dt)]
    BY <1>4 DEF shift
  <2>2. VReduced(Plus(c, Place(dx, dy, dt)))
          = [u |-> cu + (g * dx), v |-> floor_mod(cv + ((b * dt) - (a * dy)), S),
             w |-> cw + ((P * dy) + (D * dt))]
    BY <1>4 DEF VReduced, Plus, Place, Point
  <2>3. S = g
    BY <1>1, <1>4 DEF Scale
  <2> HIDE DEF D, P, g, a, b, S, cu, cv, cw
  <2>4. {b * dt, a * dy, P * dy, D * dt} \subseteq Int
    BY <1>1
  <2>5. /\ (cw + (P * dy)) + (D * dt) = cw + ((P * dy) + (D * dt))
    BY <1>2, <2>4
  <2> QED
    BY <2>1, <2>2, <2>3, <2>5
<1> QED
  BY <1>3, <1>4

LEMMA ShiftLattice ==
  ASSUME Constructed, diagonal \in BOOLEAN, NEW c \in Lattice,
         NEW dx \in Int, NEW dy \in Int, NEW dt \in Int
  PROVE  /\ shift(c, <<dx, dy, dt>>) \in Lattice
         /\ shift(c, <<dx, dy, dt>>).v \in 0 .. (subtile_count - 1)
<1>1. c \in Coordinate
  BY LatticeType
<1>2. shift(c, <<dx, dy, dt>>) = VReduced(Plus(c, Place(dx, dy, dt)))
  BY <1>1, ShiftAdds
<1>3. Plus(c, Place(dx, dy, dt)) \in Lattice
  <2>1. Place(dx, dy, dt) \in Lattice
    BY LatticePlace
  <2> QED
    BY <2>1, LatticeAdds
<1>4. PICK p \in Int, q \in Int, s \in Int : Plus(c, Place(dx, dy, dt)) = Place(p, q, s)
  BY <1>3 DEF Lattice
<1>5. VReduced(Place(p, q, s)) \in Lattice /\ VReduced(Place(p, q, s)).v \in 0 .. (subtile_count - 1)
  BY VReducedLattice
<1> QED
  BY <1>2, <1>4, <1>5

\* What cell names.
LEMMA CellMoves ==
  ASSUME Constructed, diagonal \in BOOLEAN, Listed, NEW i \in Int, NEW depth \in Int
  PROVE  LET p == floor_mod(depth, subtile_count)
             k == floor_div(depth, subtile_count)
         IN  /\ p \in 0 .. (subtile_count - 1) /\ k \in Int /\ depth = (subtile_count * k) + p
             /\ spots[p] \in Reduced
             /\ cell(i, depth) = Moved(spots[p], subtile_count * i, 0, subtile_count * k)
<1> DEFINE S == subtile_count
           p == floor_mod(depth, S)
           k == floor_div(depth, S)
<1>1. S \in Nat \ {0}
  BY Numbers
<1>2. k = depth \div S /\ p = depth % S
  BY <1>1, FloorDivision
<1>3. p \in 0 .. (S - 1) /\ k \in Int /\ depth = (S * k) + p
  BY <1>1, <1>2, Division
<1>4. spots[p] \in Reduced
  BY <1>3 DEF Listed, Bijection, Injection
<1>5. spots[p] \in Coordinate
  BY <1>4, LatticeType DEF Reduced
<1> DEFINE c == spots[p]
<1>6. cell(i, depth) = [u |-> c.u + (S * i), v |-> c.v, w |-> c.w + (S * k)]
  BY DEF cell
<1> HIDE DEF p, k, S
<1>9. c.v + 0 = c.v
  BY <1>5 DEF Coordinate
<1> HIDE DEF c
<1>10. cell(i, depth) = Moved(c, S * i, 0, S * k)
  BY <1>6, <1>9 DEF Moved
<1> QED
  BY <1>3, <1>4, <1>10 DEF p, k, S, c

LEMMA CellLattice ==
  ASSUME Constructed, diagonal \in BOOLEAN, Listed, NEW i \in Int, NEW depth \in Int
  PROVE  /\ cell(i, depth) \in Lattice /\ cell(i, depth) \in Coordinate /\ Integral(cell(i, depth))
         /\ cell(i, depth).v \in 0 .. (subtile_count - 1)
<1> DEFINE p == floor_mod(depth, subtile_count)
           k == floor_div(depth, subtile_count)
           S == subtile_count
<1>1. k \in Int /\ spots[p] \in Reduced /\ cell(i, depth) = Moved(spots[p], S * i, 0, S * k)
  BY CellMoves
<1>2. S \in Nat \ {0} /\ S * 0 = 0
  BY Numbers
<1> HIDE DEF p, k
<1>3. spots[p] \in Lattice /\ Ranged(spots[p])
  BY <1>1 DEF Reduced
<1>4. 0 \in Int
  OBVIOUS
<1>5. Moved(spots[p], S * i, S * 0, S * k) \in Lattice
  BY <1>1, <1>3, <1>4, LatticeMoves
<1>6. cell(i, depth) \in Lattice
  BY <1>1, <1>2, <1>5
<1>7. cell(i, depth).v = spots[p].v + 0
  BY <1>1 DEF Moved
<1>8. spots[p].v + 0 = spots[p].v
  BY <1>3 DEF Ranged
<1> QED
  BY <1>3, <1>6, <1>7, <1>8, LatticeType DEF Ranged

\* No two columns and depths name one cell.
LEMMA CellOnce ==
  ASSUME Constructed, diagonal \in BOOLEAN, Listed,
         NEW i \in Int, NEW depth \in Int, NEW j \in Int, NEW other \in Int,
         cell(i, depth) = cell(j, other)
  PROVE  i = j /\ depth = other
<1> DEFINE S == subtile_count
           p == floor_mod(depth, S)
           k == floor_div(depth, S)
           q == floor_mod(other, S)
           l == floor_div(other, S)
           c == spots[p]
           e == spots[q]
<1>1. S \in Nat \ {0}
  BY Numbers
<1>2. /\ p \in 0 .. (S - 1) /\ k \in Int /\ depth = (S * k) + p
      /\ c \in Reduced /\ cell(i, depth) = Moved(c, S * i, 0, S * k)
  BY CellMoves
<1>3. /\ q \in 0 .. (S - 1) /\ l \in Int /\ other = (S * l) + q
      /\ e \in Reduced /\ cell(j, other) = Moved(e, S * j, 0, S * l)
  BY CellMoves
<1> HIDE DEF p, q, k, l, S
<1>4. /\ c.u \in 0 .. (S - 1) /\ c.v \in 0 .. (S - 1) /\ c.w \in 0 .. (S - 1)
      /\ e.u \in 0 .. (S - 1) /\ e.v \in 0 .. (S - 1) /\ e.w \in 0 .. (S - 1)
      /\ c \in Coordinate /\ e \in Coordinate
  BY <1>2, <1>3, LatticeType DEF Reduced, Ranged, S
<1>10. \A f, h : f = h => p = q \/ c # e \/ f # h
  BY <1>2, <1>3 DEF Listed, Bijection, Injection, IsInjective, S
<1>5. c.u + (S * i) = e.u + (S * j) /\ c.v + 0 = e.v + 0 /\ c.w + (S * k) = e.w + (S * l)
  BY <1>2, <1>3 DEF Moved
<1>6. i = j /\ c.u = e.u
  <2>1. S * (i - j) = (S * i) - (S * j) /\ S * i \in Int /\ S * j \in Int
    BY <1>1
  <2>2. 0 <= c.u + (S * (i - j)) /\ c.u + (S * (i - j)) < S /\ 0 <= c.u /\ c.u < S /\ c.u \in Int
    BY <1>1, <1>4, <1>5, <2>1
  <2>3. i = j
    BY <1>1, <2>2, Quotients
  <2> QED
    BY <1>4, <1>5, <2>1, <2>3
<1>7. k = l /\ c.w = e.w
  <2>1. S * (k - l) = (S * k) - (S * l) /\ S * k \in Int /\ S * l \in Int
    BY <1>1, <1>2, <1>3
  <2>2. 0 <= c.w + (S * (k - l)) /\ c.w + (S * (k - l)) < S /\ 0 <= c.w /\ c.w < S /\ c.w \in Int
    BY <1>1, <1>4, <1>5, <2>1
  <2>3. k = l
    BY <1>1, <1>2, <1>3, <2>2, Quotients
  <2> QED
    BY <1>4, <1>5, <2>1, <2>3
<1>8. c = e
  BY <1>4, <1>5, <1>6, <1>7 DEF Coordinate
<1>9. p = q
  BY <1>8, <1>10
<1> QED
  BY <1>2, <1>3, <1>6, <1>7, <1>9

\* No two of them name one cell of the ship.
LEMMA ShipOnce ==
  ASSUME Constructed, diagonal \in BOOLEAN, NEW c \in Lattice, NEW e \in Lattice,
         c.v \in 0 .. (subtile_count - 1), e.v \in 0 .. (subtile_count - 1),
         ShipCell(to_physical(c)) = ShipCell(to_physical(e))
  PROVE  c = e
<1> DEFINE D == displacement
           P == period
           S == subtile_count
<1>1. S \in Nat \ {0} /\ D \in Int /\ P \in Nat \ {0} /\ w_space \in Int /\ w_time \in Int
  BY Numbers
<1>2. PICK p \in Int, q \in Int, s \in Int : c = Place(p, q, s)
  BY DEF Lattice
<1>3. PICK p2 \in Int, q2 \in Int, s2 \in Int : e = Place(p2, q2, s2)
  BY DEF Lattice
<1>4. to_physical(c) = [x |-> p, y |-> q, t |-> s] /\ to_physical(e) = [x |-> p2, y |-> q2, t |-> s2]
  BY <1>2, <1>3, PlaceExact
<1> DEFINE m == floor_div(s, P)
           n == floor_div(s2, P)
<1> DEFINE md == m * D
           nd == n * D
           mp == m * P
           np == n * P
<1>6. m \in Int /\ n \in Int
  BY <1>1, FloorDivision, Division
<1>5. /\ ShipCell(to_physical(c)).x = p + (IF diagonal THEN md ELSE 0)
      /\ ShipCell(to_physical(c)).y = q + md
      /\ ShipCell(to_physical(c)).t = s - mp
      /\ ShipCell(to_physical(e)).x = p2 + (IF diagonal THEN nd ELSE 0)
      /\ ShipCell(to_physical(e)).y = q2 + nd
      /\ ShipCell(to_physical(e)).t = s2 - np
  BY <1>4 DEF ShipCell
<1> HIDE DEF m, n
<1> DEFINE j == n - m
<1>7. j \in Int
  BY <1>6
<1>9. D * j = nd - md /\ P * j = np - mp /\ {md, nd, mp, np} \subseteq Int
  <2> HIDE DEF D, P
  <2> QED
    BY <1>1, <1>6
<1> HIDE DEF j, md, nd, mp, np
<1>8. /\ p + (IF diagonal THEN md ELSE 0) = p2 + (IF diagonal THEN nd ELSE 0)
      /\ q + md = q2 + nd /\ s - mp = s2 - np
  BY <1>5
<1>11. /\ q2 = q - (D * j)
       /\ p2 = (IF diagonal THEN p - (D * j) ELSE p)
       /\ s2 = s + (P * j)
  <2> DEFINE dj == D * j
             pj == P * j
  <2>1. dj = nd - md /\ pj = np - mp
    BY <1>9
  <2> HIDE DEF dj, pj, D, P
  <2>2. q2 = q - dj /\ p2 = (IF diagonal THEN p - dj ELSE p) /\ s2 = s + pj
    BY <1>8, <1>9, <2>1
  <2> QED
    BY <2>2 DEF dj, pj
<1>14. e = Moved(c, 0, S * j, 0)
  BY <1>2, <1>3, <1>7, <1>11, PlacePeriods
<1>15. S * 0 = 0 /\ c \in Coordinate /\ S * j \in Int
  BY <1>1, <1>7, LatticeType
<1>16. e = [u |-> c.u, v |-> c.v + (S * j), w |-> c.w]
  <2> HIDE DEF S
  <2> QED
    BY <1>14, <1>15 DEF Moved, Coordinate
<1>17. j = 0
  <2>1. S * (j - 0) = S * j
    BY <1>7
  <2>2. e.v = c.v + (S * j)
    BY <1>16
  <2>3. c.v \in 0 .. (S - 1) /\ e.v \in 0 .. (S - 1)
    OBVIOUS
  <2>4. 0 <= c.v + (S * (j - 0)) /\ c.v + (S * (j - 0)) < S /\ 0 <= c.v /\ c.v < S /\ c.v \in Int
    BY <1>1, <2>1, <2>2, <2>3
  <2>5. 0 \in Int
    OBVIOUS
  <2> QED
    BY <1>1, <1>7, <2>4, <2>5, Quotients
<1>18. c.v + (S * j) = c.v
  BY <1>1, <1>15, <1>17 DEF Coordinate
<1> QED
  BY <1>15, <1>16, <1>18 DEF Coordinate

LEMMA Exact ==
  ASSUME IInv, pc = "parsed"
  PROVE  LET names == Columns \X ((-subtile_count) .. short_window)
         IN  /\ \A c \in TileCells : c \in Coordinate /\ Integral(c)
             /\ Cardinality({ShipCell(to_physical(c)) : c \in TileCells}) = Cardinality(names)
             /\ \A dx, dy \in -2 .. 2, dt \in 0 .. (period - 1) :
                  \E p \in DOMAIN spots : spots[p] = normalized(shift(Origin, <<dx, dy, dt>>))
<1>1. Constructed /\ diagonal \in BOOLEAN /\ Listed
  BY DEF IInv
<1>2. subtile_count \in Nat \ {0} /\ period \in Nat \ {0}
  BY <1>1, Numbers
<1>3. short_window \in Nat
  BY <1>1, <1>2 DEF short_window
<1> DEFINE depths == (-subtile_count) .. short_window
           names == Columns \X depths
           drawn == {ShipCell(to_physical(c)) : c \in TileCells}
           f == [name \in names |-> ShipCell(to_physical(cell(name[1], name[2])))]
<1>4. Columns \subseteq Int /\ depths \subseteq Int
  BY ColumnsAssumption, <1>2, <1>3
<1>5. IsFiniteSet(names)
  <2>1. IsFiniteSet(depths)
    <3>1. -subtile_count \in Int /\ short_window \in Int
      BY <1>2, <1>3
    <3> QED
      BY <3>1, FS_Interval
  <2> HIDE DEF depths
  <2> QED
    BY <2>1, ColumnsAssumption, FS_Product
<1>6. TileCells = {cell(i, depth) : i \in Columns, depth \in depths}
  BY DEF TileCells
<1> HIDE DEF depths
<1>7. \A i \in Columns, depth \in depths :
        /\ cell(i, depth) \in Lattice /\ cell(i, depth) \in Coordinate /\ Integral(cell(i, depth))
        /\ cell(i, depth).v \in 0 .. (subtile_count - 1)
  BY <1>1, <1>4, CellLattice
<1>8. \A c \in TileCells : c \in Coordinate /\ Integral(c)
  BY <1>6, <1>7
<1>9. f \in Bijection(names, drawn)
  <2>1. f \in [names -> drawn]
    <3> SUFFICES ASSUME NEW name \in names PROVE f[name] \in drawn
      OBVIOUS
    <3>1. cell(name[1], name[2]) \in TileCells
      BY <1>6
    <3> QED
      BY <3>1
  <2>2. ASSUME NEW a \in names, NEW b \in names, f[a] = f[b] PROVE a = b
    <3>1. /\ a[1] \in Columns /\ a[2] \in depths /\ a = <<a[1], a[2]>>
          /\ b[1] \in Columns /\ b[2] \in depths /\ b = <<b[1], b[2]>>
      OBVIOUS
    <3>2. a[1] \in Int /\ a[2] \in Int /\ b[1] \in Int /\ b[2] \in Int
      BY <1>4, <3>1
    <3>3. ShipCell(to_physical(cell(a[1], a[2]))) = ShipCell(to_physical(cell(b[1], b[2])))
      BY <2>2
    <3>4. cell(a[1], a[2]) = cell(b[1], b[2])
      BY <1>1, <1>7, <3>1, <3>3, ShipOnce
    <3>5. a[1] = b[1] /\ a[2] = b[2]
      BY <1>1, <3>2, <3>4, CellOnce
    <3> QED
      BY <3>1, <3>5
  <2>3. \A e \in drawn : \E name \in names : f[name] = e
    <3> SUFFICES ASSUME NEW e \in drawn PROVE \E name \in names : f[name] = e
      OBVIOUS
    <3>1. PICK c \in TileCells : e = ShipCell(to_physical(c))
      OBVIOUS
    <3>2. PICK i \in Columns, depth \in depths : c = cell(i, depth)
      BY <1>6
    <3>3. <<i, depth>> \in names /\ f[<<i, depth>>] = e
      BY <3>1, <3>2
    <3> QED
      BY <3>3
  <2> HIDE DEF f, names, drawn
  <2> QED
    BY <2>1, <2>2, <2>3 DEF Bijection, Injection, Surjection, IsInjective
<1>10. Cardinality(drawn) = Cardinality(names)
  <2> HIDE DEF f, names, drawn
  <2>1. ExistsBijection(names, drawn)
    BY <1>9 DEF ExistsBijection
  <2> QED
    BY <1>5, <2>1, FS_Bijection
<1>11. ASSUME NEW dx \in -2 .. 2, NEW dy \in -2 .. 2, NEW dt \in 0 .. (period - 1)
       PROVE  \E p \in DOMAIN spots : spots[p] = normalized(shift(Origin, <<dx, dy, dt>>))
  <2>1. dx \in Int /\ dy \in Int /\ dt \in Int
    BY <1>2
  <2>2. Origin \in Lattice
    BY <1>1, OriginPlace DEF Reduced
  <2>3. shift(Origin, <<dx, dy, dt>>) \in Lattice
    BY <1>1, <2>1, <2>2, ShiftLattice
  <2>4. normalized(shift(Origin, <<dx, dy, dt>>)) \in Reduced
    BY <1>1, <2>3, NormalizedLattice DEF Reduced
  <2> QED
    BY <1>1, <2>4 DEF Listed, Bijection, Surjection
<1> QED
  BY <1>8, <1>10, <1>11 DEF depths

\* For every movement, parse enumerates as many spots as it expects, columns and depths
\* name integral physical cells, each cell of the ship once, and none is missing.
THEOREM LatticeCorrect == GeometrySpec => []LatticeExact
<1>1. IInv => LatticeExact
  <2>1. IInv => pc # "wrong_determinant"
    BY DEF IInv
  <2> QED
    BY <2>1, Exact DEF LatticeExact
<1> QED
  BY Invariance, <1>1, PTL

-----------------------------------------------------------------------------
\* Reflections.
Axis(mode, edge, origin) == (2 * subtile_count * origin) + local_constant(mode, edge)
Slide(mode) == IF mode \in Glides THEN (IF diagonal THEN gcd ELSE gcd \div 2) ELSE 0
Mirror(c, mode, edge, origin) == [u |-> Axis(mode, edge, origin) - c.u, v |-> c.v + Slide(mode), w |-> c.w]

HalfPeriod(mode) == IF mode \in Glides THEN period \div 2 ELSE 0

Reflecting(mode) == mode \in EdgeMode \ {Background} /\ edge_compatible(mode)

\* What a glide asks of the movement.
LEMMA GlideCompatible ==
  ASSUME NEW mode \in Glides, edge_compatible(mode)
  PROVE  IF diagonal THEN /\ period % 2 = 0
                          /\ displacement % 2 = (IF mode = GlideOdd THEN 0 ELSE 1)
                     ELSE period % 2 = 0 /\ displacement % 2 = 0
<1> DEFINE G == IF diagonal THEN /\ period % 2 = 0
                          /\ displacement % 2 = (IF mode = GlideOdd THEN 0 ELSE 1)
                     ELSE period % 2 = 0 /\ displacement % 2 = 0
<1>1. mode \notin {Background, Odd} /\ mode # Even /\ mode \in Glides
  BY DEF Glides, Background, Odd, Even, GlideEven, GlideOdd
<1>2. edge_compatible(mode) = CASE mode \in {Background, Odd} -> TRUE
    [] mode = Even -> ~diagonal
    [] mode \in Glides -> G
  BY DEF edge_compatible
<1> HIDE DEF G
<1>3. G
  BY <1>1, <1>2
<1> QED
  BY <1>3 DEF G

\* A glide halves the movement of the ship, and the tile with it.
LEMMA GlideHalves ==
  ASSUME Constructed, diagonal \in BOOLEAN, NEW mode \in Glides, Reflecting(mode)
  PROVE  /\ period = 2 * (period \div 2) /\ period \div 2 \in Int
         /\ \/ displacement = 2 * (displacement \div 2)
            \/ displacement = (2 * (displacement \div 2)) + 1
         /\ displacement \div 2 \in Int
         /\ diagonal => /\ mode = GlideOdd => displacement = 2 * (displacement \div 2)
                        /\ mode = GlideEven => displacement = (2 * (displacement \div 2)) + 1
         /\ ~diagonal => /\ displacement = 2 * (displacement \div 2)
                         /\ gcd = 2 * (gcd \div 2) /\ gcd \div 2 \in Int
                         /\ ((displacement \div 2) * w_time) + ((period \div 2) * w_space) = gcd \div 2
<1>1. /\ displacement \in Nat /\ period \in Nat /\ gcd \in Nat \ {0} /\ w_time \in Int /\ w_space \in Int
      /\ (displacement * w_time) + (period * w_space) = gcd
  BY Numbers
<1>2. IF diagonal THEN /\ period % 2 = 0
                       /\ displacement % 2 = (IF mode = GlideOdd THEN 0 ELSE 1)
                  ELSE period % 2 = 0 /\ displacement % 2 = 0
  BY GlideCompatible DEF Reflecting
<1>3. /\ period % 2 = 0
      /\ diagonal => /\ mode = GlideOdd => displacement % 2 = 0
                     /\ mode = GlideEven => displacement % 2 = 1
      /\ ~diagonal => displacement % 2 = 0
  BY <1>2 DEF GlideEven, GlideOdd
<1>4. /\ period = 2 * (period \div 2) /\ period \div 2 \in Int /\ displacement \div 2 \in Int
      /\ displacement = (2 * (displacement \div 2)) + (displacement % 2) /\ displacement % 2 \in 0 .. 1
  BY <1>1, <1>3
<1>5. ASSUME ~diagonal
      PROVE  /\ gcd = 2 * (gcd \div 2) /\ gcd \div 2 \in Int
             /\ ((displacement \div 2) * w_time) + ((period \div 2) * w_space) = gcd \div 2
  <2> DEFINE k == displacement \div 2
             p == period \div 2
             a == w_time
             b == w_space
             m == (k * a) + (p * b)
  <2>1. displacement = 2 * k /\ period = 2 * p /\ k \in Int /\ p \in Int /\ a \in Int /\ b \in Int
    BY <1>1, <1>3, <1>4, <1>5
  <2>2. gcd = ((2 * k) * a) + ((2 * p) * b)
    BY <1>1, <2>1
  <2> HIDE DEF k, p, a, b
  <2>3. ((2 * k) * a) + ((2 * p) * b) = 2 * m /\ m \in Int
    BY <2>1
  <2> HIDE DEF m
  <2>4. gcd = 2 * m
    BY <2>2, <2>3
  <2>5. gcd \div 2 = m
    BY <2>3, <2>4
  <2> QED
    BY <2>3, <2>4, <2>5 DEF m, k, p, a, b
<1> QED
  BY <1>3, <1>4, <1>5 DEF Glides

LEMMA LocalConstant ==
  ASSUME Constructed, diagonal \in BOOLEAN, NEW mode \in EdgeMode, NEW edge \in Side
  PROVE  \E l \in Int : /\ local_constant(mode, edge) = gcd * l
                        /\ diagonal => /\ mode \in {Odd, GlideOdd} => l = 2 \/ l = 4
                                       /\ mode \notin {Odd, GlideOdd} => l = 3
<1> DEFINE g == gcd
<1>1. g \in Nat \ {0}
  BY Numbers
<1>2. \A l \in 0 .. 4 : l * g = g * l
  BY <1>1
<1>3. CASE mode \in {Odd, GlideOdd}
  <2> DEFINE l == IF diagonal THEN (IF edge = "left" THEN 2 ELSE 4) ELSE (IF edge = "left" THEN 0 ELSE 2)
  <2>1. local_constant(mode, edge) = l * g
    BY <1>3 DEF local_constant
  <2>2. l \in 0 .. 4 /\ (diagonal => l = 2 \/ l = 4)
    OBVIOUS
  <2> HIDE DEF l, g
  <2>3. local_constant(mode, edge) = g * l /\ l \in Int
    BY <1>2, <2>1, <2>2
  <2> QED
    BY <1>3, <2>2, <2>3 DEF g
<1>4. CASE mode \notin {Odd, GlideOdd}
  <2> DEFINE l == IF diagonal THEN 3 ELSE 1
  <2>1. local_constant(mode, edge) = l * g
    BY <1>4 DEF local_constant
  <2>2. l \in 0 .. 4 /\ (diagonal => l = 3)
    OBVIOUS
  <2> HIDE DEF l, g
  <2>3. local_constant(mode, edge) = g * l /\ l \in Int
    BY <1>2, <2>1, <2>2
  <2> QED
    BY <1>4, <2>2, <2>3 DEF g
<1> QED
  BY <1>3, <1>4

\* Where the axis is and how far a glide slides.
LEMMA AxisType ==
  ASSUME Constructed, diagonal \in BOOLEAN, NEW mode \in EdgeMode, Reflecting(mode), NEW edge \in Side, NEW origin \in Int
  PROVE  /\ Axis(mode, edge, origin) \in Int
         /\ Slide(mode) \in Int /\ \E n \in Int : Slide(mode) + Slide(mode) = subtile_count * n
<1> DEFINE g == gcd
           S == subtile_count
<1>1. g \in Nat \ {0} /\ S = Scale * g /\ S \in Nat \ {0}
  BY Numbers
<1>2. PICK l \in Int : local_constant(mode, edge) = gcd * l
  BY LocalConstant
<1>3. Axis(mode, edge, origin) \in Int
  <2>1. Axis(mode, edge, origin) = (2 * S * origin) + (g * l)
    BY <1>2 DEF Axis
  <2> HIDE DEF S, g
  <2> QED
    BY <1>1, <2>1
<1>4. CASE mode \notin Glides
  <2>1. Slide(mode) = 0 /\ S * 0 = 0 /\ 0 \in Int
    BY <1>1, <1>4 DEF Slide
  <2> QED
    BY <1>3, <2>1
<1>5. CASE mode \in Glides /\ diagonal
  <2>1. Slide(mode) = g /\ S = 2 * g
    BY <1>1, <1>5 DEF Slide, Scale
  <2> HIDE DEF g, S
  <2>2. Slide(mode) \in Int /\ Slide(mode) + Slide(mode) = S * 1 /\ 1 \in Int
    BY <1>1, <2>1
  <2> QED
    BY <1>3, <2>2 DEF S
<1>6. CASE mode \in Glides /\ ~diagonal
  <2>1. Slide(mode) = gcd \div 2 /\ S = g
    BY <1>1, <1>6 DEF Slide, Scale
  <2>2. gcd = 2 * (gcd \div 2) /\ gcd \div 2 \in Int
    BY <1>6, GlideHalves
  <2> DEFINE h == gcd \div 2
  <2> HIDE DEF h
  <2>3. g = 2 * h /\ h \in Int /\ Slide(mode) = h
    BY <2>1, <2>2 DEF h
  <2> HIDE DEF g, S
  <2>4. Slide(mode) \in Int /\ Slide(mode) + Slide(mode) = S * 1 /\ 1 \in Int
    BY <1>1, <2>1, <2>3
  <2> QED
    BY <1>3, <2>4 DEF S
<1> QED
  BY <1>4, <1>5, <1>6

\* The code only reduces V where it adds to it.
LEMMA ReflectMirror ==
  ASSUME Constructed, diagonal \in BOOLEAN, NEW mode \in EdgeMode, Reflecting(mode), NEW edge \in Side, NEW origin \in Int,
         NEW c \in Coordinate, c.v \in 0 .. (subtile_count - 1)
  PROVE  reflect(c, mode, edge, origin) = VReduced(Mirror(c, mode, edge, origin))
<1> DEFINE S == subtile_count
           A == Axis(mode, edge, origin)
           a == 2 * S * origin
           b == local_constant(mode, edge)
           m == Mirror(c, mode, edge, origin)
<1>1. S \in Nat \ {0} /\ c.u \in Int /\ c.v \in Int /\ gcd \in Int
  BY Numbers DEF Coordinate
<1>2. a + (b - c.u) = A - c.u
  <2>1. PICK l \in Int : b = gcd * l
    BY LocalConstant
  <2>2. a \in Int /\ b \in Int
    BY <1>1, <2>1
  <2>3. A = a + b
    BY DEF Axis
  <2> HIDE DEF a, b, A
  <2> QED
    BY <1>1, <2>2, <2>3
<1>3. CASE mode \in Glides
  <2>1. reflect(c, mode, edge, origin)
          = [u |-> a + (b - c.u), v |-> floor_mod(c.v + (IF diagonal THEN gcd ELSE gcd \div 2), S), w |-> c.w]
    BY <1>3 DEF reflect
  <2>2. VReduced(m) = [u |-> A - c.u, v |-> floor_mod(c.v + (IF diagonal THEN gcd ELSE gcd \div 2), S), w |-> c.w]
    BY <1>3 DEF VReduced, Mirror, Slide
  <2> HIDE DEF a, b, A, m
  <2> QED
    BY <1>2, <2>1, <2>2 DEF m
<1>4. CASE mode \notin Glides
  <2>1. reflect(c, mode, edge, origin) = [u |-> a + (b - c.u), v |-> c.v, w |-> c.w]
    BY <1>4 DEF reflect
  <2>2. VReduced(m) = [u |-> A - c.u, v |-> floor_mod(c.v + 0, S), w |-> c.w]
    BY <1>4 DEF VReduced, Mirror, Slide
  <2>3. floor_mod(c.v, S) = c.v
    BY <1>1, ModuloOwn
  <2>4. c.v + 0 = c.v
    BY <1>1
  <2> HIDE DEF a, b, A, m
  <2> QED
    BY <1>2, <2>1, <2>2, <2>3, <2>4 DEF m
<1> QED
  BY <1>3, <1>4

LEMMA MirrorType ==
  ASSUME Constructed, diagonal \in BOOLEAN, NEW mode \in EdgeMode, Reflecting(mode), NEW edge \in Side, NEW origin \in Int,
         NEW c \in Coordinate
  PROVE  /\ Mirror(c, mode, edge, origin) \in Coordinate
         /\ VReduced(c) \in Coordinate /\ VReduced(c).v \in 0 .. (subtile_count - 1)
<1>1. Axis(mode, edge, origin) \in Int /\ Slide(mode) \in Int /\ subtile_count \in Nat \ {0}
  BY AxisType, Numbers
<1>2. c.u \in Int /\ c.v \in Int /\ c.w \in Int
  BY DEF Coordinate
<1>3. floor_mod(c.v, subtile_count) \in 0 .. (subtile_count - 1)
  BY <1>1, <1>2, Modulo
<1>4. floor_mod(c.v, subtile_count) \in Int
  BY <1>1, <1>3
<1> QED
  BY <1>1, <1>2, <1>3, <1>4 DEF Mirror, VReduced, Coordinate

LEMMA ModuloTwice ==
  ASSUME NEW S \in Nat \ {0}, NEW n \in Int, NEW m \in Int
  PROVE  floor_mod(floor_mod(n, S) + m, S) = floor_mod(n + m, S)
<1>1. PICK k \in Int : floor_mod(n, S) = n + (S * k)
  BY Modulo
<1>2. S * k \in Int /\ n + m \in Int
  BY <1>1
<1>3. floor_mod(n, S) + m = (n + m) + (S * k)
  BY <1>1, <1>2
<1>4. floor_mod((n + m) + (S * k), S) = floor_mod(n + m, S)
  BY ONLY <1>1, <1>2, S \in Nat \ {0}, ModuloMoved
<1> QED
  BY <1>3, <1>4

\* The image of the image.
LEMMA ReflectTwice ==
  ASSUME Constructed, diagonal \in BOOLEAN, NEW mode \in EdgeMode, Reflecting(mode), NEW edge \in Side, NEW origin \in Int,
         NEW c \in Coordinate, c.v \in 0 .. (subtile_count - 1)
  PROVE  reflect(reflect(c, mode, edge, origin), mode, edge, origin) = c
<1> DEFINE S == subtile_count
           A == Axis(mode, edge, origin)
           H == Slide(mode)
           m == Mirror(c, mode, edge, origin)
           e == VReduced(m)
<1>1. S \in Nat \ {0} /\ A \in Int /\ H \in Int
  BY AxisType, Numbers
<1>2. PICK n \in Int : H + H = S * n
  BY AxisType
<1>3. m \in Coordinate
  BY MirrorType
<1>4. e \in Coordinate /\ e.v \in 0 .. (S - 1)
  <2> HIDE DEF m
  <2> QED
    BY <1>3, MirrorType
<1>5. reflect(c, mode, edge, origin) = e
  BY ReflectMirror
<1>6. e = [u |-> A - c.u, v |-> floor_mod(c.v + H, S), w |-> c.w]
  BY DEF VReduced, Mirror
<1> HIDE DEF m, e
<1>7. reflect(e, mode, edge, origin) = VReduced(Mirror(e, mode, edge, origin))
  BY <1>4, ReflectMirror
<1>8. VReduced(Mirror(e, mode, edge, origin))
        = [u |-> A - (A - c.u), v |-> floor_mod(floor_mod(c.v + H, S) + H, S), w |-> c.w]
  BY <1>6 DEF VReduced, Mirror
<1> HIDE DEF A, H, S
<1>9. c.u \in Int /\ c.v \in Int /\ c = [u |-> c.u, v |-> c.v, w |-> c.w]
  BY DEF Coordinate
<1>10. A - (A - c.u) = c.u
  BY <1>1, <1>9
<1>11. floor_mod(floor_mod(c.v + H, S) + H, S) = c.v
  <2>1. floor_mod(floor_mod(c.v + H, S) + H, S) = floor_mod((c.v + H) + H, S)
    <3>1. c.v + H \in Int
      BY <1>1, <1>9
    <3> QED
      BY <1>1, <3>1, ModuloTwice
  <2>2. (c.v + H) + H = c.v + (S * n)
    BY <1>1, <1>2, <1>9
  <2>3. floor_mod(c.v + (S * n), S) = floor_mod(c.v, S)
    BY <1>1, <1>9, ModuloMoved
  <2>4. floor_mod(c.v, S) = c.v
    BY <1>1, ModuloOwn DEF S
  <2> QED
    BY <2>1, <2>2, <2>3, <2>4
<1> QED
  BY <1>5, <1>7, <1>8, <1>9, <1>10, <1>11

\* The step on the other side.
Across(d) == IF diagonal THEN <<d[2], d[1], d[3]>> ELSE <<-d[1], d[2], d[3]>>

LEMMA PlaceAcross ==
  ASSUME Constructed, diagonal \in BOOLEAN, NEW dx \in Int, NEW dy \in Int, NEW dt \in Int
  PROVE  LET e == Place(dx, dy, dt)
             f == IF diagonal THEN Place(dy, dx, dt) ELSE Place(-dx, dy, dt)
         IN  f.u = -e.u /\ f.v = e.v /\ f.w = e.w /\ e \in Coordinate /\ f \in Coordinate
<1> DEFINE g == gcd
           a == w_time
           b == w_space
           P == period
           D == displacement
<1>1. {g, a, b, P, D} \subseteq Int
  BY Numbers
<1>2. CASE diagonal
  <2>1. Place(dx, dy, dt) = [u |-> g * (dx - dy), v |-> (b * (2 * dt)) - (a * (dx + dy)), w |-> (P * (dx + dy)) + (D * (2 * dt))]
    BY <1>2 DEF Place, Point
  <2>2. Place(dy, dx, dt) = [u |-> g * (dy - dx), v |-> (b * (2 * dt)) - (a * (dy + dx)), w |-> (P * (dy + dx)) + (D * (2 * dt))]
    BY <1>2 DEF Place, Point
  <2>3. dy + dx = dx + dy
    OBVIOUS
  <2>4. g * (dy - dx) = -(g * (dx - dy))
    <3> HIDE DEF g
    <3> QED
      BY <1>1
  <2>5. Place(dx, dy, dt) \in Coordinate /\ Place(dy, dx, dt) \in Coordinate
    BY PlaceExact
  <2> HIDE DEF g, a, b, P, D
  <2> QED
    BY <1>2, <2>1, <2>2, <2>3, <2>4, <2>5
<1>3. CASE ~diagonal
  <2>1. Place(dx, dy, dt) = [u |-> g * dx, v |-> (b * dt) - (a * dy), w |-> (P * dy) + (D * dt)]
    BY <1>3 DEF Place, Point
  <2>2. Place(-dx, dy, dt) = [u |-> g * (-dx), v |-> (b * dt) - (a * dy), w |-> (P * dy) + (D * dt)]
    BY <1>3 DEF Place, Point
  <2>4. g * (-dx) = -(g * dx)
    <3> HIDE DEF g
    <3> QED
      BY <1>1
  <2>5. Place(dx, dy, dt) \in Coordinate /\ Place(-dx, dy, dt) \in Coordinate
    <3>1. -dx \in Int
      OBVIOUS
    <3> QED
      BY <3>1, PlaceExact
  <2> HIDE DEF g, a, b, P, D
  <2> QED
    BY <1>3, <2>1, <2>2, <2>4, <2>5
<1> QED
  BY <1>2, <1>3

LEMMA ReflectShift ==
  ASSUME Constructed, diagonal \in BOOLEAN, NEW mode \in EdgeMode, Reflecting(mode), NEW edge \in Side, NEW origin \in Int,
         NEW c \in Coordinate, c.v \in 0 .. (subtile_count - 1),
         NEW dx \in Int, NEW dy \in Int, NEW dt \in Int
  PROVE  reflect(shift(c, <<dx, dy, dt>>), mode, edge, origin)
           = shift(reflect(c, mode, edge, origin), IF diagonal THEN <<dy, dx, dt>> ELSE <<-dx, dy, dt>>)
<1> DEFINE S == subtile_count
           A == Axis(mode, edge, origin)
           H == Slide(mode)
           e == Place(dx, dy, dt)
           f == IF diagonal THEN Place(dy, dx, dt) ELSE Place(-dx, dy, dt)
           m == Mirror(c, mode, edge, origin)
           later == VReduced(Plus(c, e))
           image == VReduced(m)
<1>1. S \in Nat \ {0} /\ A \in Int /\ H \in Int
  BY AxisType, Numbers
<1>2. f.u = -e.u /\ f.v = e.v /\ f.w = e.w /\ e \in Coordinate /\ f \in Coordinate
  BY PlaceAcross
<1>3. shift(c, <<dx, dy, dt>>) = later
  BY ShiftAdds
<1>4. later = [u |-> c.u + e.u, v |-> floor_mod(c.v + e.v, S), w |-> c.w + e.w]
  BY DEF VReduced, Plus
<1>5. image = [u |-> A - c.u, v |-> floor_mod(c.v + H, S), w |-> c.w]
  BY DEF VReduced, Mirror
<1>6. m \in Coordinate
  BY MirrorType
<1>7. image \in Coordinate
  <2> HIDE DEF m
  <2> QED
    BY <1>6, MirrorType
<1>8. later \in Coordinate /\ later.v \in 0 .. (S - 1)
  <2>1. Plus(c, e) \in Coordinate
    BY <1>2, NormalizedPlus
  <2> HIDE DEF e
  <2> QED
    BY <2>1, MirrorType
<1>9. reflect(c, mode, edge, origin) = image
  BY ReflectMirror
<1>10. shift(image, IF diagonal THEN <<dy, dx, dt>> ELSE <<-dx, dy, dt>>) = VReduced(Plus(image, f))
  <2> HIDE DEF image
  <2>1. -dx \in Int
    OBVIOUS
  <2>2. /\ shift(image, <<dy, dx, dt>>) = VReduced(Plus(image, Place(dy, dx, dt)))
        /\ shift(image, <<-dx, dy, dt>>) = VReduced(Plus(image, Place(-dx, dy, dt)))
    BY <1>7, <2>1, ShiftAdds
  <2> QED
    BY <2>2
<1>11. reflect(later, mode, edge, origin) = VReduced(Mirror(later, mode, edge, origin))
  <2> HIDE DEF later
  <2> QED
    BY <1>8, ReflectMirror
<1> HIDE DEF e, f, m, later, image
<1>12. VReduced(Plus(image, f))
         = [u |-> (A - c.u) + f.u, v |-> floor_mod(floor_mod(c.v + H, S) + f.v, S), w |-> c.w + f.w]
  BY <1>5 DEF VReduced, Plus
<1>13. VReduced(Mirror(later, mode, edge, origin))
         = [u |-> A - (c.u + e.u), v |-> floor_mod(floor_mod(c.v + e.v, S) + H, S), w |-> c.w + e.w]
  BY <1>4 DEF VReduced, Mirror
<1> HIDE DEF S, A, H
<1>14. c.u \in Int /\ c.v \in Int /\ e.u \in Int /\ e.v \in Int /\ f.v \in Int
  BY <1>2 DEF Coordinate
<1>15. (A - c.u) + f.u = A - (c.u + e.u)
  BY <1>1, <1>2, <1>14
<1>16. floor_mod(floor_mod(c.v + H, S) + f.v, S) = floor_mod(floor_mod(c.v + e.v, S) + H, S)
  <2>1. c.v + H \in Int /\ c.v + e.v \in Int
    BY <1>1, <1>14
  <2>2. floor_mod(floor_mod(c.v + H, S) + f.v, S) = floor_mod((c.v + H) + f.v, S)
    BY <1>1, <1>14, <2>1, ModuloTwice
  <2>3. floor_mod(floor_mod(c.v + e.v, S) + H, S) = floor_mod((c.v + e.v) + H, S)
    BY <1>1, <2>1, ModuloTwice
  <2>4. (c.v + H) + f.v = (c.v + e.v) + H
    BY <1>1, <1>2, <1>14
  <2> QED
    BY <2>2, <2>3, <2>4
<1> QED
  BY <1>2, <1>3, <1>9, <1>10, <1>11, <1>12, <1>13, <1>15, <1>16

\* A diagonal lattice has no mirror between two cells.
LEMMA NotEven ==
  ASSUME diagonal, Reflecting(Even)
  PROVE  FALSE
<1> DEFINE mode == Even
           G == IF diagonal THEN /\ period % 2 = 0
                                 /\ displacement % 2 = (IF mode = GlideOdd THEN 0 ELSE 1)
                            ELSE period % 2 = 0 /\ displacement % 2 = 0
<1>1. mode \notin {Background, Odd} /\ mode \notin Glides
  BY DEF Glides, Background, Odd, Even, GlideEven, GlideOdd
<1>2. edge_compatible(mode) = CASE mode \in {Background, Odd} -> TRUE
    [] mode = Even -> ~diagonal
    [] mode \in Glides -> G
  BY DEF edge_compatible
<1>3. mode = Even /\ edge_compatible(mode)
  BY DEF Reflecting
<1> HIDE DEF G, mode
<1>4. ~diagonal
  BY <1>1, <1>2, <1>3
<1> QED
  BY <1>4

\* The mirror image of a place is a place, half a period later for a glide.
LEMMA MirrorStraight ==
  ASSUME Constructed, diagonal \in BOOLEAN, ~diagonal, NEW mode \in EdgeMode, Reflecting(mode), NEW edge \in Side, NEW origin \in Int,
         NEW p \in Int, NEW q \in Int, NEW s \in Int
  PROVE  \E p2, q2 \in Int : Mirror(Place(p, q, s), mode, edge, origin) = Place(p2, q2, s + HalfPeriod(mode))
<1> DEFINE D == displacement
           P == period
           g == gcd
           a == w_time
           b == w_space
           S == subtile_count
           H == Slide(mode)
           A == Axis(mode, edge, origin)
           F == HalfPeriod(mode)
<1>1. {D, P, g, a, b} \subseteq Int /\ S = g
  BY Numbers DEF Scale
<1>2. PICK l \in Int : local_constant(mode, edge) = gcd * l
  BY LocalConstant
<1>3. PICK E \in Int : /\ F \in Int /\ H = (b * F) + (a * E) /\ (D * F) - (P * E) = 0
  <2>1. CASE mode \notin Glides
    <3>1. F = 0 /\ H = 0 /\ 0 \in Int
      BY <2>1 DEF HalfPeriod, Slide
    <3>2. 0 = (b * 0) + (a * 0) /\ (D * 0) - (P * 0) = 0
      BY <1>1
    <3> HIDE DEF F, H
    <3> QED
      BY <3>1, <3>2
  <2>2. CASE mode \in Glides
    <3> DEFINE k == displacement \div 2
               p2 == period \div 2
    <3>1. /\ D = 2 * k /\ P = 2 * p2 /\ k \in Int /\ p2 \in Int
          /\ (k * a) + (p2 * b) = g \div 2
      BY <2>2, GlideHalves
    <3>2. F = p2 /\ H = g \div 2
      BY <2>2 DEF HalfPeriod, Slide
    <3> HIDE DEF k, p2, F, H, D, P, a, b
    <3>3. k * a = a * k /\ p2 * b = b * p2 /\ {a * k, b * p2} \subseteq Int
      BY <1>1, <3>1
    <3>4. H = (b * F) + (a * k)
      BY <3>1, <3>2, <3>3
    <3>5. (D * F) - (P * k) = 0
      <4>1. (2 * k) * p2 = (2 * p2) * k /\ (2 * k) * p2 \in Int
        BY <3>1
      <4> QED
        BY <3>1, <3>2, <4>1
    <3> QED
      BY <3>1, <3>2, <3>4, <3>5
  <2> QED
    BY <2>1, <2>2
<1> DEFINE p2 == ((2 * origin) + l) - p
           q2 == q - E
<1>4. p2 \in Int /\ q2 \in Int
  OBVIOUS
<1>5. A = (2 * S * origin) + (g * l)
  BY <1>2 DEF Axis
<1>6. Place(p, q, s) = [u |-> g * p, v |-> (b * s) - (a * q), w |-> (P * q) + (D * s)]
  BY DEF Place, Point
<1>7. Place(p2, q2, s + F) = [u |-> g * p2, v |-> (b * (s + F)) - (a * q2), w |-> (P * q2) + (D * (s + F))]
  BY DEF Place, Point
<1>8. Mirror(Place(p, q, s), mode, edge, origin)
        = [u |-> A - (g * p), v |-> ((b * s) - (a * q)) + H, w |-> (P * q) + (D * s)]
  BY <1>6 DEF Mirror
<1> HIDE DEF D, P, g, a, b, S, H, A, F
<1>9. A - (g * p) = g * p2
  <2>1. (2 * g * origin) + (g * l) - (g * p) = g * (((2 * origin) + l) - p)
    BY <1>1
  <2>2. {2 * g * origin, g * l, g * p} \subseteq Int
    BY <1>1
  <2> HIDE DEF p2
  <2>3. A - (g * p) = (2 * g * origin) + (g * l) - (g * p)
    BY <1>1, <1>5, <2>2
  <2> QED
    BY <2>1, <2>3 DEF p2
<1>10. ((b * s) - (a * q)) + H = (b * (s + F)) - (a * q2)
  <2>1. b * (s + F) = (b * s) + (b * F) /\ a * (q - E) = (a * q) - (a * E)
    BY <1>1, <1>3
  <2>2. {b * s, b * F, a * q, a * E} \subseteq Int
    BY <1>1, <1>3
  <2> QED
    BY <1>3, <2>1, <2>2
<1>11. (P * q) + (D * s) = (P * q2) + (D * (s + F))
  <2>1. D * (s + F) = (D * s) + (D * F) /\ P * (q - E) = (P * q) - (P * E)
    BY <1>1, <1>3
  <2>2. {P * q, P * E, D * s, D * F} \subseteq Int
    BY <1>1, <1>3
  <2> QED
    BY <1>3, <2>1, <2>2
<1>12. Mirror(Place(p, q, s), mode, edge, origin) = Place(p2, q2, s + F)
  <2> HIDE DEF p2, q2
  <2> QED
    BY <1>7, <1>8, <1>9, <1>10, <1>11
<1> QED
  BY <1>4, <1>12 DEF F

LEMMA MirrorDiagonal ==
  ASSUME Constructed, diagonal \in BOOLEAN, diagonal, NEW mode \in EdgeMode, Reflecting(mode), NEW edge \in Side, NEW origin \in Int,
         NEW p \in Int, NEW q \in Int, NEW s \in Int
  PROVE  \E p2, q2 \in Int : Mirror(Place(p, q, s), mode, edge, origin) = Place(p2, q2, s + HalfPeriod(mode))
<1> DEFINE D == displacement
           P == period
           g == gcd
           a == w_time
           b == w_space
           S == subtile_count
           H == Slide(mode)
           A == Axis(mode, edge, origin)
           F == HalfPeriod(mode)
<1>1. {D, P, g, a, b} \subseteq Int /\ S = 2 * g /\ (D * a) + (P * b) = g
  BY Numbers DEF Scale
<1>2. PICK l \in Int : /\ local_constant(mode, edge) = gcd * l
                       /\ mode \in {Odd, GlideOdd} => l = 2 \/ l = 4
                       /\ mode \notin {Odd, GlideOdd} => l = 3
  BY LocalConstant
<1>3. PICK E \in Int, n \in Int :
        /\ F \in Int /\ H = (b * (2 * F)) + (a * E) /\ (D * (2 * F)) - (P * E) = 0 /\ l = (2 * n) + E
  <2>1. CASE mode \notin Glides
    <3>1. F = 0 /\ H = 0 /\ 0 \in Int
      BY <2>1 DEF HalfPeriod, Slide
    <3>2. 0 = (b * 0) + (a * 0) /\ (D * 0) - (P * 0) = 0 /\ 2 * 0 = 0
      BY <1>1
    <3>3. mode = Odd
      BY <2>1, NotEven DEF EdgeMode, Glides, Reflecting
    <3>4. \E n \in Int : l = (2 * n) + 0
      BY <1>2, <3>3
    <3> HIDE DEF F, H
    <3> QED
      BY <3>1, <3>2, <3>4
  <2>2. CASE mode \in Glides
    <3> DEFINE k == displacement \div 2
               p2 == period \div 2
    <3>1. /\ P = 2 * p2 /\ k \in Int /\ p2 \in Int
          /\ mode = GlideOdd => D = 2 * k
          /\ mode = GlideEven => D = (2 * k) + 1
      BY <2>2, GlideHalves
    <3>2. F = p2 /\ H = g
      BY <2>2 DEF HalfPeriod, Slide
    <3>3. \E n \in Int : l = (2 * n) + D
      <4> HIDE DEF k, p2, D
      <4>1. CASE mode = GlideOdd
        <5>1. l = 2 \/ l = 4
          BY <1>2, <4>1
        <5>2. D = 2 * k /\ k \in Int
          BY <3>1, <4>1
        <5>3. (l = 2 => l = (2 * (1 - k)) + D) /\ (l = 4 => l = (2 * (2 - k)) + D) /\ 1 - k \in Int /\ 2 - k \in Int
          BY <5>1, <5>2
        <5> QED
          BY <5>1, <5>3
      <4>2. CASE mode = GlideEven
        <5>1. mode \notin {Odd, GlideOdd}
          BY <4>2 DEF Odd, GlideOdd, GlideEven
        <5> QED
          BY <1>2, <3>1, <4>2, <5>1
      <4> QED
        BY <2>2, <4>1, <4>2 DEF Glides
    <3> HIDE DEF k, p2, F, H, D, P, a, b
    <3>4. b * (2 * F) = P * b /\ a * D = D * a /\ D * (2 * F) = P * D
      BY <1>1, <3>1, <3>2
    <3>5. {P * b, D * a, P * D} \subseteq Int
      BY <1>1
    <3>6. H = (b * (2 * F)) + (a * D) /\ (D * (2 * F)) - (P * D) = 0
      BY <1>1, <3>2, <3>4, <3>5
    <3> QED
      BY <1>1, <3>1, <3>2, <3>3, <3>6
  <2> QED
    BY <2>1, <2>2
<1> DEFINE m == (2 * origin) + n
           p2 == q + m
           q2 == (p - m) - E
           h == p - q
           e == p + q
           f == 2 * s
<1>4. p2 \in Int /\ q2 \in Int /\ m \in Int /\ h \in Int /\ e \in Int /\ f \in Int
  OBVIOUS
<1>5. A = (2 * S * origin) + (g * l)
  BY <1>2 DEF Axis
<1>6. Place(p, q, s) = [u |-> g * h, v |-> (b * f) - (a * e), w |-> (P * e) + (D * f)]
  BY DEF Place, Point
<1>7. Place(p2, q2, s + F)
        = [u |-> g * (p2 - q2), v |-> (b * (2 * (s + F))) - (a * (p2 + q2)), w |-> (P * (p2 + q2)) + (D * (2 * (s + F)))]
  BY DEF Place, Point
<1>8. Mirror(Place(p, q, s), mode, edge, origin)
        = [u |-> A - (g * h), v |-> ((b * f) - (a * e)) + H, w |-> (P * e) + (D * f)]
  BY <1>6 DEF Mirror
<1> HIDE DEF D, P, g, a, b, S, H, A, F
<1>20. p2 + q2 = e - E /\ p2 - q2 = ((4 * origin) + l) - h /\ 2 * (s + F) = f + (2 * F)
  BY <1>3
<1> HIDE DEF m, p2, q2, h, e, f
<1>9. A - (g * h) = g * (p2 - q2)
  <2>1. 2 * (2 * g) * origin = g * (4 * origin) /\ g * (((4 * origin) + l) - h) = (g * (4 * origin)) + (g * l) - (g * h)
    BY <1>1, <1>4
  <2>2. {g * (4 * origin), g * l, g * h} \subseteq Int
    BY <1>1, <1>4
  <2>3. A = (g * (4 * origin)) + (g * l)
    BY <1>1, <1>5, <2>1
  <2> QED
    BY <1>20, <2>1, <2>2, <2>3
<1>10. ((b * f) - (a * e)) + H = (b * (2 * (s + F))) - (a * (p2 + q2))
  <2>1. b * (f + (2 * F)) = (b * f) + (b * (2 * F)) /\ a * (e - E) = (a * e) - (a * E)
    BY <1>1, <1>3, <1>4
  <2>2. {b * f, b * (2 * F), a * e, a * E} \subseteq Int
    BY <1>1, <1>3, <1>4
  <2> QED
    BY <1>3, <1>20, <2>1, <2>2
<1>11. (P * e) + (D * f) = (P * (p2 + q2)) + (D * (2 * (s + F)))
  <2>1. D * (f + (2 * F)) = (D * f) + (D * (2 * F)) /\ P * (e - E) = (P * e) - (P * E)
    BY <1>1, <1>3, <1>4
  <2>2. {P * e, P * E, D * f, D * (2 * F)} \subseteq Int
    BY <1>1, <1>3, <1>4
  <2> QED
    BY <1>3, <1>20, <2>1, <2>2
<1>12. Mirror(Place(p, q, s), mode, edge, origin) = Place(p2, q2, s + F)
  BY <1>7, <1>8, <1>9, <1>10, <1>11
<1> QED
  BY <1>4, <1>12 DEF F

LEMMA MirrorPlace ==
  ASSUME Constructed, diagonal \in BOOLEAN, NEW mode \in EdgeMode, Reflecting(mode), NEW edge \in Side, NEW origin \in Int,
         NEW p \in Int, NEW q \in Int, NEW s \in Int
  PROVE  \E p2, q2 \in Int : Mirror(Place(p, q, s), mode, edge, origin) = Place(p2, q2, s + HalfPeriod(mode))
<1>1. CASE diagonal
  BY <1>1, MirrorDiagonal
<1>2. CASE ~diagonal
  BY <1>2, MirrorStraight
<1> QED
  BY <1>1, <1>2

LEMMA HalfPeriodType ==
  ASSUME Constructed, NEW mode
  PROVE  HalfPeriod(mode) \in Int
<1>1. period \in Nat
  BY Numbers
<1> QED
  BY <1>1 DEF HalfPeriod

\* An image is a cell of the lattice.
LEMMA ReflectLattice ==
  ASSUME Constructed, diagonal \in BOOLEAN, NEW mode \in EdgeMode, Reflecting(mode), NEW edge \in Side, NEW origin \in Int,
         NEW c \in Lattice, c.v \in 0 .. (subtile_count - 1)
  PROVE  reflect(c, mode, edge, origin) \in Lattice
<1>1. PICK p \in Int, q \in Int, s \in Int : c = Place(p, q, s)
  BY DEF Lattice
<1>2. c \in Coordinate
  BY LatticeType
<1>3. PICK p2 \in Int, q2 \in Int : Mirror(c, mode, edge, origin) = Place(p2, q2, s + HalfPeriod(mode))
  BY <1>1, MirrorPlace
<1>4. s + HalfPeriod(mode) \in Int
  BY HalfPeriodType
<1>5. VReduced(Place(p2, q2, s + HalfPeriod(mode))) \in Lattice
  BY <1>4, VReducedLattice
<1> QED
  BY <1>2, <1>3, <1>5, ReflectMirror

LEMMA Reflects ==
  ASSUME IInv, pc = "parsed"
  PROVE  ReflectionSound
<1>1. Constructed /\ diagonal \in BOOLEAN /\ Listed
  BY DEF IInv
<1> SUFFICES ASSUME NEW mode \in {m \in EdgeMode \ {Background} : edge_compatible(m)}, NEW edge \in Side,
                    NEW origin \in Columns, NEW c \in TileCells
             PROVE  LET image(a) == reflect(a, mode, edge, origin)
                    IN  /\ Integral(image(c))
                        /\ image(image(c)) = c
                        /\ \A d \in Steps :
                             image(shift(c, d)) = shift(image(c), IF diagonal THEN <<d[2], d[1], d[3]>> ELSE <<-d[1], d[2], d[3]>>)
  BY DEF ReflectionSound
<1>2. mode \in EdgeMode /\ Reflecting(mode)
  BY DEF Reflecting
<1>3. origin \in Int
  BY ColumnsAssumption
<1>4. PICK i \in Columns, depth \in (-subtile_count) .. short_window : c = cell(i, depth)
  BY DEF TileCells
<1>5. i \in Int /\ depth \in Int
  <2>1. subtile_count \in Int /\ period \in Int
    BY <1>1, Numbers
  <2>2. short_window \in Int
    BY <2>1 DEF short_window
  <2> QED
    BY <2>1, <2>2, ColumnsAssumption
<1>6. c \in Lattice /\ c \in Coordinate /\ c.v \in 0 .. (subtile_count - 1)
  BY <1>1, <1>4, <1>5, CellLattice
<1>7. Integral(reflect(c, mode, edge, origin))
  BY <1>1, <1>2, <1>3, <1>6, ReflectLattice, LatticeType
<1>8. reflect(reflect(c, mode, edge, origin), mode, edge, origin) = c
  BY <1>1, <1>2, <1>3, <1>6, ReflectTwice
<1>9. ASSUME NEW d \in Steps
      PROVE  reflect(shift(c, d), mode, edge, origin)
               = shift(reflect(c, mode, edge, origin), IF diagonal THEN <<d[2], d[1], d[3]>> ELSE <<-d[1], d[2], d[3]>>)
  <2>1. PICK dx \in -1 .. 1, dy \in -1 .. 1, dt \in 0 .. 1 : d = <<dx, dy, dt>>
    BY DEF Steps
  <2>2. dx \in Int /\ dy \in Int /\ dt \in Int
    OBVIOUS
  <2>3. d[1] = dx /\ d[2] = dy /\ d[3] = dt
    BY <2>1
  <2> QED
    BY <1>1, <1>2, <1>3, <1>6, <2>1, <2>2, <2>3, ReflectShift
<1> QED
  BY <1>7, <1>8, <1>9

\* For every movement and every edge it accepts: the image of a cell is a cell, the image
\* of the image is the cell, and steps commute with the reflection.
THEOREM ReflectionCorrect == GeometrySpec => []ReflectionSound
<1>1. IInv => ReflectionSound
  BY Reflects DEF ReflectionSound
<1> QED
  BY Invariance, <1>1, PTL

-----------------------------------------------------------------------------
\* Generations.
Generation(c) == ShipCell(to_physical(c)).t

LEMMA GenerationPlace ==
  ASSUME Constructed, diagonal \in BOOLEAN, NEW p \in Int, NEW q \in Int, NEW s \in Int
  PROVE  Generation(Place(p, q, s)) = s % period /\ s % period \in 0 .. (period - 1)
<1> DEFINE P == period
           k == floor_div(s, P)
<1>1. P \in Nat \ {0}
  BY Numbers
<1>2. k = s \div P /\ s \div P \in Int /\ s % P \in 0 .. (P - 1) /\ s = (P * (s \div P)) + (s % P)
  BY <1>1, FloorDivision, Division
<1>3. to_physical(Place(p, q, s)).t = s
  BY PlaceExact
<1>4. Generation(Place(p, q, s)) = s - (k * P)
  BY <1>3 DEF Generation, ShipCell
<1> DEFINE n == s % P
<1> HIDE DEF P, k, n
<1>5. s = (P * k) + n /\ k \in Int /\ n \in Int
  BY <1>1, <1>2 DEF n
<1>6. P * k = k * P /\ k * P \in Int
  BY <1>1, <1>5
<1>7. s - (k * P) = n
  BY <1>5, <1>6
<1> QED
  BY <1>2, <1>4, <1>7 DEF n, P

LEMMA GenerationPeriods ==
  ASSUME NEW P \in Nat \ {0}, NEW n \in 0 .. (P - 1), NEW j \in Int
  PROVE  (n + (P * j)) % P = n
<1>1. n + (P * j) = (P * j) + n /\ n + (P * j) \in Int
  OBVIOUS
<1> QED
  BY <1>1, QuotientUnique

\* A tile is no larger than the window.
LEMMA TileFits ==
  ASSUME Constructed, diagonal \in BOOLEAN
  PROVE  subtile_count + period <= short_window /\ short_window \in Nat
<1>1. gcd \in Nat \ {0} /\ period \in Nat \ {0} /\ subtile_count = Scale * gcd
  BY Numbers
<1>2. gcd <= period
  <2>1. PICK m \in Int : period = gcd * m
    BY Coprime
  <2> DEFINE g == gcd
             P == period
  <2>2. P = g * m /\ g \in Nat \ {0} /\ P \in Nat \ {0}
    BY <1>1, <2>1
  <2> HIDE DEF g, P
  <2>3. m >= 1
    <3>1. m <= 0 => g * m <= 0
      BY <2>2
    <3> QED
      BY <2>2, <3>1
  <2>4. g * m >= g
    BY <2>2, <2>3
  <2> QED
    BY <2>2, <2>4 DEF g, P
<1>3. CASE diagonal
  <2>1. subtile_count = 2 * gcd /\ short_window = 4 * period
    BY <1>1, <1>3 DEF Scale, short_window
  <2> QED
    BY <1>1, <1>2, <2>1
<1>4. CASE ~diagonal
  <2>1. subtile_count = gcd /\ short_window = 2 * period
    BY <1>1, <1>4 DEF Scale, short_window
  <2> QED
    BY <1>1, <1>2, <2>1
<1> QED
  BY <1>3, <1>4

\* At every time there is a place whose U lies in the tile and whose W lies in the first
\* period of depths.
LEMMA PlaceInWindow ==
  ASSUME Constructed, diagonal \in BOOLEAN, NEW s \in Int
  PROVE  \E p, q \in Int : /\ Place(p, q, s).u \in 0 .. (subtile_count - 1)
                           /\ Place(p, q, s).w \in 0 .. (period - 1)
<1> DEFINE D == displacement
           P == period
           g == gcd
           S == subtile_count
           f == Scale * s
           k == (D * f) \div P
           e == -k
           h == IF diagonal THEN e % 2 ELSE 0
           p == IF diagonal THEN (e \div 2) + h ELSE 0
           q == IF diagonal THEN e \div 2 ELSE e
<1>1. D \in Int /\ P \in Nat \ {0} /\ g \in Nat \ {0} /\ S = Scale * g /\ Scale \in Int
  BY Numbers
<1>2. f \in Int /\ D * f \in Int
  BY <1>1
<1>3. k \in Int /\ (D * f) % P \in 0 .. (P - 1) /\ D * f = (P * k) + ((D * f) % P)
  <2> DEFINE n == D * f
  <2>1. n \in Int
    BY <1>2
  <2> HIDE DEF n, P
  <2>2. n \div P \in Int /\ n % P \in 0 .. (P - 1) /\ n = (P * (n \div P)) + (n % P)
    BY <1>1, <2>1, Division
  <2> QED
    BY <2>2 DEF n, P
<1> DEFINE rest == (D * f) % P
<1>4. e \in Int
  BY <1>3
<1>5. (P * e) + (D * f) = rest /\ rest \in 0 .. (P - 1)
  <2>1. P * (-k) = -(P * k) /\ P * k \in Int
    BY <1>1, <1>3
  <2>2. rest \in Int /\ D * f = (P * k) + rest
    BY <1>1, <1>3
  <2> HIDE DEF rest, k, D, P, f
  <2> QED
    BY <1>3, <2>1, <2>2 DEF rest
<1> HIDE DEF k, rest
<1>6. /\ p \in Int /\ q \in Int /\ h \in Int /\ 0 <= h /\ h < Scale
      /\ diagonal => p - q = h /\ p + q = e
      /\ ~diagonal => p = h /\ q = e
  <2>1. e % 2 \in 0 .. 1 /\ e \div 2 \in Int /\ e = (2 * (e \div 2)) + (e % 2)
    BY <1>4
  <2> HIDE DEF e
  <2> QED
    BY <1>4, <2>1 DEF Scale
<1> HIDE DEF h, p, q, e, f, D, P, S, g
<1>7. Place(p, q, s) = Point(h, e, f)
  <2>1. CASE diagonal
    <3>1. Place(p, q, s) = Point(p - q, p + q, 2 * s) /\ f = 2 * s
      BY <2>1 DEF Place, Scale, f
    <3> QED
      BY <1>6, <2>1, <3>1
  <2>2. CASE ~diagonal
    <3>1. Place(p, q, s) = Point(p, q, s) /\ f = s
      BY <2>2 DEF Place, Scale, f
    <3> QED
      BY <1>6, <2>2, <3>1
  <2> QED
    BY <2>1, <2>2
<1>8. Place(p, q, s).u = g * h /\ Place(p, q, s).w = (P * e) + (D * f)
  BY <1>7 DEF Point, g, P, D
<1>9. g * h \in 0 .. (S - 1)
  <2>1. S = g * Scale
    BY <1>1
  <2>2. g * (h + 1) <= g * Scale /\ 0 <= g * h /\ g * (h + 1) = (g * h) + g /\ g * h \in Int
    BY <1>1, <1>6
  <2>3. g * Scale \in Int
    BY <1>1
  <2> QED
    BY <1>1, <2>1, <2>2, <2>3
<1>10. Place(p, q, s).u \in 0 .. (S - 1) /\ Place(p, q, s).w \in 0 .. (P - 1)
  BY <1>5, <1>8, <1>9
<1> QED
  BY <1>6, <1>10 DEF S, P

\* Such a cell is a row of the logical column 0.
LEMMA RowCell ==
  ASSUME Constructed, diagonal \in BOOLEAN, Listed, NEW c \in Lattice,
         c.u \in 0 .. (subtile_count - 1), c.v \in 0 .. (subtile_count - 1), c.w \in 0 .. (period - 1)
  PROVE  \E depth \in 0 .. (short_window - 1) : cell(0, depth) = c
<1> DEFINE S == subtile_count
           P == period
           W == short_window
           k == floor_div(c.w, S)
           spot == normalized(c)
<1>1. S \in Nat \ {0} /\ P \in Nat \ {0} /\ S + P <= W /\ W \in Nat
  BY Numbers, TileFits
<1>2. c \in Coordinate
  BY LatticeType
<1>3. c.u \in Int /\ c.v \in Int /\ c.w \in Int /\ c = [u |-> c.u, v |-> c.v, w |-> c.w]
  BY <1>2 DEF Coordinate
<1>4. k = c.w \div S /\ floor_mod(c.w, S) = c.w % S /\ k \in Int /\ c.w % S \in 0 .. (S - 1)
      /\ c.w = (S * k) + (c.w % S)
  BY <1>1, <1>3, FloorDivision, Division
<1>5. floor_mod(c.u, S) = c.u /\ floor_mod(c.v, S) = c.v
  BY <1>1, ModuloOwn
<1>6. spot = [u |-> c.u, v |-> c.v, w |-> c.w % S]
  BY <1>4, <1>5 DEF normalized
<1>7. spot \in Reduced
  <2>1. normalized(c) \in Lattice /\ Ranged(normalized(c))
    BY NormalizedLattice
  <2> QED
    BY <2>1 DEF Reduced
<1>8. PICK p \in 0 .. (S - 1) : spots[p] = spot
  BY <1>7 DEF Listed, Bijection, Surjection
<1> DEFINE depth == (S * k) + p
           n == c.w % S
<1> HIDE DEF S, P, W, k, spot, n
<1>9. depth \in 0 .. (W - 1)
  <2>1. S * k \in Int /\ n \in 0 .. (S - 1) /\ c.w = (S * k) + n /\ c.w \in 0 .. (P - 1)
    BY <1>1, <1>4 DEF n, P
  <2>2. S * k > -S
    BY <1>1, <2>1
  <2>3. k >= 0
    <3>1. SUFFICES ASSUME k < 0 PROVE FALSE
      BY <1>4
    <3> DEFINE z == (-1) - k
    <3>2. z \in Nat /\ k = (-1) - z
      BY <1>4, <3>1
    <3> HIDE DEF z
    <3>3. S * z \in Nat /\ S * ((-1) - z) = (-S) - (S * z)
      BY <1>1, <3>2
    <3> QED
      BY <1>1, <2>1, <2>2, <3>2, <3>3
  <2>4. 0 <= S * k
    BY <1>1, <1>4, <2>3
  <2> QED
    BY <1>1, <2>1, <2>4
<1>10. depth \in Int /\ depth \div S = k /\ depth % S = p
  <2>1. depth \in Int
    BY <1>1, <1>4
  <2> QED
    BY <1>1, <1>4, <2>1, QuotientUnique
<1> HIDE DEF depth
<1>11. floor_div(depth, S) = k /\ floor_mod(depth, S) = p
  BY <1>1, <1>10, FloorDivision
<1>12. cell(0, depth) = [u |-> c.u + (S * 0), v |-> c.v, w |-> n + (S * k)]
  BY <1>6, <1>8, <1>11 DEF cell, S, n
<1>13. c.u + (S * 0) = c.u /\ n + (S * k) = c.w
  <2>1. S * 0 = 0 /\ S * k \in Int /\ n \in Int
    BY <1>1, <1>4 DEF n
  <2> QED
    BY <1>3, <1>4, <2>1 DEF n
<1>14. cell(0, depth) = c
  BY <1>3, <1>12, <1>13
<1> QED
  BY <1>9, <1>14 DEF W

\* The place of a cell of generation s, up to whole periods.
OfGeneration(c, s) == \E p, q, j \in Int : c = Place(p, q, s + (period * j))

LEMMA VReducedPlace ==
  ASSUME Constructed, diagonal \in BOOLEAN, NEW p \in Int, NEW q \in Int, NEW s \in Int
  PROVE  OfGeneration(VReduced(Place(p, q, s)), s)
<1>1. PICK j \in Int : /\ VReduced(Place(p, q, s)) = Moved(Place(p, q, s), 0, subtile_count * j, 0)
                      /\ \E p2, q2 \in Int : VReduced(Place(p, q, s)) = Place(p2, q2, s + (period * j))
  BY VReducedLattice
<1> QED
  BY <1>1 DEF OfGeneration

\* At every time, up to whole periods, there is a row.
LEMMA RowAt ==
  ASSUME Constructed, diagonal \in BOOLEAN, Listed, NEW s \in Int
  PROVE  \E depth \in 0 .. (short_window - 1), p, q, j \in Int :
           cell(0, depth) = Place(p, q, s + (period * j))
<1>1. PICK p0 \in Int, q0 \in Int : /\ Place(p0, q0, s).u \in 0 .. (subtile_count - 1)
                                    /\ Place(p0, q0, s).w \in 0 .. (period - 1)
  BY PlaceInWindow
<1> DEFINE c == VReduced(Place(p0, q0, s))
<1>2. c \in Lattice /\ c.v \in 0 .. (subtile_count - 1)
  BY VReducedLattice
<1>3. OfGeneration(c, s)
  BY VReducedPlace
<1>4. c.u \in 0 .. (subtile_count - 1) /\ c.w \in 0 .. (period - 1)
  BY <1>1 DEF VReduced
<1> HIDE DEF c
<1>5. PICK depth \in 0 .. (short_window - 1) : cell(0, depth) = c
  BY <1>2, <1>4, RowCell
<1> QED
  BY <1>3, <1>5 DEF OfGeneration

LEMMA ReflectGeneration ==
  ASSUME Constructed, diagonal \in BOOLEAN, NEW mode \in EdgeMode, Reflecting(mode), NEW edge \in Side,
         NEW p \in Int, NEW q \in Int, NEW s \in Int,
         Place(p, q, s).v \in 0 .. (subtile_count - 1)
  PROVE  \E p2, q2, j \in Int :
           reflect(Place(p, q, s), mode, edge, 0) = Place(p2, q2, (s + HalfPeriod(mode)) + (period * j))
<1> DEFINE origin == 0
<1>1. origin \in Int /\ origin = 0
  OBVIOUS
<1> HIDE DEF origin
<1>2. PICK p2 \in Int, q2 \in Int : Mirror(Place(p, q, s), mode, edge, origin) = Place(p2, q2, s + HalfPeriod(mode))
  BY <1>1, MirrorPlace
<1>3. s + HalfPeriod(mode) \in Int
  BY HalfPeriodType
<1>4. Place(p, q, s) \in Coordinate
  BY PlaceExact
<1>5. reflect(Place(p, q, s), mode, edge, origin) = VReduced(Place(p2, q2, s + HalfPeriod(mode)))
  BY <1>1, <1>2, <1>4, ReflectMirror
<1>6. OfGeneration(VReduced(Place(p2, q2, s + HalfPeriod(mode))), s + HalfPeriod(mode))
  BY <1>3, VReducedPlace
<1>7. OfGeneration(reflect(Place(p, q, s), mode, edge, 0), s + HalfPeriod(mode))
  BY <1>1, <1>5, <1>6
<1> QED
  BY <1>7 DEF OfGeneration

LEMMA PhasesDrawn ==
  ASSUME IInv, pc = "parsed"
  PROVE  EveryPhaseDrawn
<1> DEFINE rows == {cell(0, depth) : depth \in 0 .. (short_window - 1)}
           phases == 0 .. (period - 1)
<1>1. Constructed /\ diagonal \in BOOLEAN /\ Listed
  BY DEF IInv
<1>2. period \in Nat \ {0} /\ short_window \in Nat
  BY <1>1, Numbers, TileFits
<1>3. \A c \in rows : c \in Lattice /\ c.v \in 0 .. (subtile_count - 1)
  <2>1. \A depth \in 0 .. (short_window - 1) : depth \in Int
    BY <1>2
  <2>2. 0 \in Int
    OBVIOUS
  <2> QED
    BY <1>1, <2>1, <2>2, CellLattice
<1>4. \A c \in Lattice : Generation(c) \in phases
  BY <1>1, GenerationPlace DEF Lattice
<1>5. \A n \in phases : \E c \in rows : Generation(c) = n
  <2> SUFFICES ASSUME NEW n \in phases PROVE \E c \in rows : Generation(c) = n
    OBVIOUS
  <2>1. n \in Int
    BY <1>2
  <2>2. PICK depth \in 0 .. (short_window - 1), p \in Int, q \in Int, j \in Int :
          cell(0, depth) = Place(p, q, n + (period * j))
    BY <1>1, <2>1, RowAt
  <2>3. n + (period * j) \in Int /\ (n + (period * j)) % period = n
    BY <1>2, <2>1, GenerationPeriods
  <2>4. Generation(cell(0, depth)) = n
    BY <1>1, <2>2, <2>3, GenerationPlace
  <2> QED
    BY <2>4
<1>6. ASSUME NEW mode \in {m \in EdgeMode \ {Background} : edge_compatible(m)}, NEW edge \in Side
      PROVE  /\ \A c \in rows : Generation(reflect(c, mode, edge, 0)) \in phases
             /\ \A n \in phases : \E c \in rows : Generation(reflect(c, mode, edge, 0)) = n
  <2>1. mode \in EdgeMode /\ Reflecting(mode)
    BY DEF Reflecting
  <2>2. 0 \in Int
    OBVIOUS
  <2>3. \A c \in rows : reflect(c, mode, edge, 0) \in Lattice
    <3> HIDE DEF rows
    <3> QED
      BY <1>1, <1>3, <2>1, <2>2, ReflectLattice
  <2>4. ASSUME NEW n \in phases PROVE \E c \in rows : Generation(reflect(c, mode, edge, 0)) = n
    <3> DEFINE half == HalfPeriod(mode)
               s == n - half
    <3>1. half \in Int /\ s \in Int /\ n \in Int
      BY <1>1, <1>2, HalfPeriodType
    <3> HIDE DEF half
    <3>2. PICK depth \in 0 .. (short_window - 1), p \in Int, q \in Int, j \in Int :
            cell(0, depth) = Place(p, q, s + (period * j))
      BY <1>1, <3>1, RowAt
    <3>3. cell(0, depth) \in rows
      OBVIOUS
    <3> DEFINE at == s + (period * j)
    <3>4. at \in Int /\ Place(p, q, at) \in rows
      BY <1>2, <3>1, <3>2, <3>3
    <3> HIDE DEF at, rows
    <3>5. PICK p2 \in Int, q2 \in Int, k \in Int :
            reflect(Place(p, q, at), mode, edge, 0) = Place(p2, q2, (at + half) + (period * k))
      BY <1>1, <1>3, <2>1, <3>4, ReflectGeneration DEF half
    <3>6. (at + half) + (period * k) = n + (period * (j + k)) /\ j + k \in Int
      <4>1. period * (j + k) = (period * j) + (period * k) /\ {period * j, period * k} \subseteq Int
        BY <1>2
      <4> QED
        BY <3>1, <4>1 DEF at
    <3>7. n + (period * (j + k)) \in Int /\ (n + (period * (j + k))) % period = n
      BY <1>2, <3>1, <3>6, GenerationPeriods
    <3>8. Generation(reflect(Place(p, q, at), mode, edge, 0)) = n
      BY <1>1, <3>5, <3>6, <3>7, GenerationPlace
    <3> QED
      BY <3>4, <3>8
  <2> QED
    BY <1>4, <2>3, <2>4
<1> HIDE DEF rows, phases
<1>7. {Generation(c) : c \in rows} = phases
  BY <1>3, <1>4, <1>5
<1>8. ASSUME NEW mode \in {m \in EdgeMode \ {Background} : edge_compatible(m)}, NEW edge \in Side
      PROVE  {Generation(c) : c \in {reflect(c, mode, edge, 0) : c \in rows}} = phases
  BY <1>6
<1> QED
  BY <1>7, <1>8 DEF EveryPhaseDrawn, Generation, rows, phases

\* For every movement: the rows of the least board hold cells of every generation of the
\* period, and so do their images at every edge the geometry accepts.
THEOREM PhasesCorrect == GeometrySpec => []EveryPhaseDrawn
<1>1. IInv => EveryPhaseDrawn
  BY PhasesDrawn DEF EveryPhaseDrawn
<1> QED
  BY Invariance, <1>1, PTL

-----------------------------------------------------------------------------
\* What build finds: an accepted movement with its tile.
Ready == Constructed /\ diagonal \in BOOLEAN /\ Listed /\ displacement <= period

LEMMA ReadyNumbers ==
  ASSUME Ready
  PROVE  /\ subtile_count \in Nat \ {0} /\ short_window \in Nat /\ period \in Nat \ {0} /\ displacement \in 0 .. period
         /\ \E m \in Nat : short_window = subtile_count * m /\ long_window = subtile_count * (m + 1)
         /\ long_window = short_window + subtile_count
<1>1. gcd \in Nat \ {0} /\ period \in Nat \ {0} /\ displacement \in Nat /\ subtile_count = Scale * gcd /\ subtile_count \in Nat \ {0}
  BY Numbers DEF Ready
<1>2. short_window \in Nat
  BY TileFits DEF Ready
<1>3. PICK n \in Int : period = gcd * n
  BY Coprime DEF Ready
<1> DEFINE m == 2 * n
           S == subtile_count
           W == short_window
<1>4. short_window = S * m
  <2>1. CASE diagonal
    <3>1. S = 2 * gcd /\ short_window = 4 * period
      BY <1>1, <2>1 DEF Scale, short_window
    <3> DEFINE g == gcd
               P == period
    <3>2. g \in Int /\ S = 2 * g /\ W = 4 * P /\ P = g * n
      BY <1>1, <1>3, <3>1
    <3> HIDE DEF g, P, S, W
    <3>3. S * m = 4 * (g * n)
      BY <3>2
    <3> QED
      BY <3>2, <3>3 DEF S, W
  <2>2. CASE ~diagonal
    <3>1. S = gcd /\ short_window = 2 * period
      BY <1>1, <2>2 DEF Scale, short_window
    <3> DEFINE g == gcd
               P == period
    <3>2. g \in Int /\ S = g /\ W = 2 * P /\ P = g * n
      BY <1>1, <1>3, <3>1
    <3> HIDE DEF g, P, S, W
    <3>3. S * m = 2 * (g * n)
      BY <3>2
    <3> QED
      BY <3>2, <3>3 DEF S, W
  <2> QED
    BY <2>1, <2>2
<1>5. long_window = W + S
  BY DEF long_window
<1>6. displacement \in 0 .. period
  BY <1>1 DEF Ready
<1> HIDE DEF S, W, m
<1>7. S \in Nat \ {0} /\ W \in Nat /\ m \in Int
  BY <1>1, <1>2 DEF S, W, m
<1>8. m \in Nat
  <2>1. m < 0 => S * m < 0
    BY <1>7
  <2> QED
    BY <1>4, <1>7, <2>1 DEF W
<1>9. S * (m + 1) = (S * m) + S
  BY <1>7
<1> QED
  BY <1>1, <1>2, <1>4, <1>5, <1>6, <1>8, <1>9 DEF S, W

\* A row some tiles above is the same row, higher in W.
LEMMA CellAbove ==
  ASSUME Ready, NEW i \in Int, NEW depth \in Int, NEW m \in Int
  PROVE  /\ subtile_count * m \in Int /\ depth + (subtile_count * m) \in Int
         /\ cell(i, depth + (subtile_count * m)) = Moved(cell(i, depth), 0, 0, subtile_count * m)
<1> DEFINE S == subtile_count
           p == floor_mod(depth, S)
           k == floor_div(depth, S)
           up == depth + (S * m)
<1>1. S \in Nat \ {0}
  BY ReadyNumbers
<1>2. /\ p \in 0 .. (S - 1) /\ k \in Int /\ depth = (S * k) + p /\ spots[p] \in Reduced
      /\ cell(i, depth) = Moved(spots[p], S * i, 0, S * k)
  BY CellMoves DEF Ready
<1>3. S * m \in Int /\ up \in Int
  BY <1>1
<1>4. floor_mod(up, S) = p /\ floor_div(up, S) = k + m
  <2> HIDE DEF S, p, k
  <2>1. up = (S * (k + m)) + p /\ k + m \in Int
    <3>1. S * (k + m) = (S * k) + (S * m) /\ S * k \in Int
      BY <1>1, <1>2
    <3> QED
      BY <1>1, <1>2, <1>3, <3>1
  <2> HIDE DEF up
  <2>2. up \div S = k + m /\ up % S = p
    BY <1>1, <1>2, <1>3, <2>1, QuotientUnique
  <2> QED
    BY <1>1, <1>3, <2>2, FloorDivision
<1>5. cell(i, up) = Moved(spots[p], S * i, 0, S * (k + m))
  BY <1>3, <1>4, CellMoves DEF Ready
<1>6. spots[p] \in Coordinate
  BY <1>2, LatticeType DEF Reduced, Ready
<1> DEFINE c == spots[p]
<1> HIDE DEF c, p, k, S, up
<1>7. S * (k + m) = (S * k) + (S * m) /\ {S * k, S * m, S * i} \subseteq Int
  BY <1>1, <1>2
<1>8. Moved(c, S * i, 0, S * (k + m)) = Moved(Moved(c, S * i, 0, S * k), 0, 0, S * m)
  <2> DEFINE a == S * i
             b == S * k
             d == S * m
             cu == c.u
             cv == c.v
             cw == c.w
  <2>1. {a, b, d, cu, cv, cw} \subseteq Int
    BY <1>6, <1>7 DEF c, Coordinate
  <2> HIDE DEF a, b, d, cu, cv, cw
  <2>2. cw + (b + d) = (cw + b) + d /\ (cu + a) + 0 = cu + a /\ (cv + 0) + 0 = cv + 0
    BY <2>1
  <2>3. S * (k + m) = b + d
    BY <1>7 DEF b, d
  <2> QED
    BY <2>2, <2>3 DEF Moved, a, b, d, cu, cv, cw
<1> QED
  BY <1>2, <1>3, <1>5, <1>8 DEF c, S, up

\* Steps and reflections do not look at W.
LEMMA ShiftAbove ==
  ASSUME Ready, NEW c \in Coordinate, NEW n \in Int, NEW dx \in Int, NEW dy \in Int, NEW dt \in Int
  PROVE  shift(Moved(c, 0, 0, n), <<dx, dy, dt>>) = Moved(shift(c, <<dx, dy, dt>>), 0, 0, n)
<1> DEFINE e == Place(dx, dy, dt)
           up == Moved(c, 0, 0, n)
<1>1. e \in Coordinate
  BY LatticePlace, LatticeType DEF Ready
<1>2. up \in Coordinate /\ up.u = c.u + 0 /\ up.v = c.v + 0 /\ up.w = c.w + n
  BY MovedType
<1>3. shift(up, <<dx, dy, dt>>) = VReduced(Plus(up, e)) /\ shift(c, <<dx, dy, dt>>) = VReduced(Plus(c, e))
  BY <1>2, ShiftAdds DEF Ready
<1> HIDE DEF e, up
<1>4. up.u = c.u /\ up.v = c.v /\ c.w + n = up.w
  BY <1>2 DEF Coordinate
<1>5. up.w + e.w = (c.w + e.w) + n /\ c.u + e.u \in Int /\ c.v + e.v \in Int
  BY <1>1, <1>4, <1>2 DEF Coordinate
<1> DEFINE z == floor_mod(c.v + e.v, subtile_count)
<1>8. z \in Int
  <2>1. floor_mod(c.v + e.v, subtile_count) \in 0 .. (subtile_count - 1) /\ subtile_count \in Nat \ {0}
    BY <1>5, Modulo, ReadyNumbers
  <2> QED
    BY <2>1
<1>6. floor_mod(c.v + e.v, subtile_count) + 0 = floor_mod(c.v + e.v, subtile_count) /\ (c.u + e.u) + 0 = c.u + e.u
  <2> HIDE DEF z
  <2>1. z + 0 = z
    BY <1>8
  <2> QED
    BY <1>5, <2>1 DEF z
<1>7. VReduced(Plus(up, e)) = Moved(VReduced(Plus(c, e)), 0, 0, n)
  BY <1>4, <1>5, <1>6 DEF VReduced, Plus, Moved
<1> QED
  BY <1>3, <1>7 DEF up

LEMMA ReflectAbove ==
  ASSUME Ready, NEW mode \in EdgeMode, Reflecting(mode), NEW edge \in Side, NEW c \in Coordinate, NEW n \in Int
  PROVE  reflect(Moved(c, 0, 0, n), mode, edge, 0) = Moved(reflect(c, mode, edge, 0), 0, 0, n)
<1> DEFINE r1 == reflect(Moved(c, 0, 0, n), mode, edge, 0)
           r2 == reflect(c, mode, edge, 0)
<1>1. c.u \in Int /\ c.v \in Int /\ c.w \in Int
  BY DEF Coordinate
<1>2. Axis(mode, edge, 0) \in Int
  BY AxisType DEF Ready
<1>3. /\ (c.u + 0) = c.u /\ c.v + 0 = c.v
  BY <1>1
<1>4. r1.w = r2.w + n /\ r1.u = r2.u /\ r1.v = r2.v
  BY <1>3 DEF reflect, Moved
<1>5. r1 = [u |-> r1.u, v |-> r1.v, w |-> r1.w]
  BY DEF reflect
<1>6. r2.u + 0 = r2.u
  <2> DEFINE k == 2 * subtile_count * 0
             l == local_constant(mode, edge)
             cu == c.u
  <2>1. r2.u = k + (l - cu)
    BY DEF reflect
  <2>2. cu \in Int /\ k \in Int /\ l \in Int
    <3>1. PICK n2 \in Int : l = gcd * n2
      BY LocalConstant DEF Ready
    <3>2. gcd * n2 \in Int /\ subtile_count \in Int
      BY Numbers DEF Ready
    <3> QED
      BY <1>1, <3>1, <3>2
  <2> HIDE DEF k, l, cu
  <2> QED
    BY <2>1, <2>2
<1>7. r2.v + 0 = r2.v
  <2>1. CASE mode \in Glides
    <3>1. c.v + (IF diagonal THEN gcd ELSE gcd \div 2) \in Int
      BY <1>1, Numbers DEF Ready
    <3>2. r2.v = floor_mod(c.v + (IF diagonal THEN gcd ELSE gcd \div 2), subtile_count)
      BY <2>1 DEF reflect
    <3>3. r2.v \in 0 .. (subtile_count - 1) /\ subtile_count \in Nat \ {0}
      BY <3>1, <3>2, Modulo, ReadyNumbers
    <3> QED
      BY <3>3
  <2>2. CASE mode \notin Glides
    BY <1>1, <2>2 DEF reflect
  <2> QED
    BY <2>1, <2>2
<1> HIDE DEF r1, r2
<1> QED
  BY <1>4, <1>5, <1>6, <1>7 DEF Moved, r1, r2

LEMMA MovedOnce ==
  ASSUME NEW c \in Coordinate, NEW e \in Coordinate, NEW n \in Int, Moved(c, 0, 0, n) = Moved(e, 0, 0, n)
  PROVE  c = e
<1>1. c.u + 0 = e.u + 0 /\ c.v + 0 = e.v + 0 /\ c.w + n = e.w + n
  BY DEF Moved
<1>3. {c.u, c.v, c.w, e.u, e.v, e.w} \subseteq Int
  BY DEF Coordinate
<1>2. c.u = e.u /\ c.v = e.v /\ c.w = e.w
  BY <1>1, <1>3
<1> QED
  BY <1>2 DEF Coordinate

-----------------------------------------------------------------------------
\* The ten cells of an equation.
LEMMA OffsetIs ==
  /\ Bits = 1 .. 10
  /\ \A b \in Bits :
       LET d == ca_offsets[b]
       IN  /\ d[1] \in -1 .. 1 /\ d[2] \in -1 .. 1 /\ d[3] \in 0 .. 1
           /\ d[3] = 1 => d[1] = 0 /\ d[2] = 0
           /\ d = <<d[1], d[2], d[3]>> /\ Negated(d) = <<-d[1], -d[2], -d[3]>>
<1>1. Bits = 1 .. 10
  BY DEF Bits, ca_offsets
<1>2. /\ ca_offsets[1] = <<-1, -1, 0>> /\ ca_offsets[2] = <<0, -1, 0>> /\ ca_offsets[3] = <<1, -1, 0>>
      /\ ca_offsets[4] = <<-1, 0, 0>> /\ ca_offsets[5] = <<0, 0, 0>> /\ ca_offsets[6] = <<1, 0, 0>>
      /\ ca_offsets[7] = <<-1, 1, 0>> /\ ca_offsets[8] = <<0, 1, 0>> /\ ca_offsets[9] = <<1, 1, 0>>
      /\ ca_offsets[10] = <<0, 0, 1>>
  BY DEF ca_offsets
<1>3. ASSUME NEW b \in 1 .. 10
      PROVE  \E dx \in -1 .. 1, dy \in -1 .. 1, dt \in 0 .. 1 :
               ca_offsets[b] = <<dx, dy, dt>> /\ (dt = 1 => dx = 0 /\ dy = 0)
  <2>1. b \in {1, 2, 3, 4, 5, 6, 7, 8, 9, 10}
    OBVIOUS
  <2> QED
    BY <1>2, <2>1
<1>4. ASSUME NEW b \in Bits
      PROVE  LET d == ca_offsets[b]
             IN  /\ d[1] \in -1 .. 1 /\ d[2] \in -1 .. 1 /\ d[3] \in 0 .. 1
                 /\ d[3] = 1 => d[1] = 0 /\ d[2] = 0
                 /\ d = <<d[1], d[2], d[3]>> /\ Negated(d) = <<-d[1], -d[2], -d[3]>>
  <2>1. PICK dx \in -1 .. 1, dy \in -1 .. 1, dt \in 0 .. 1 :
               ca_offsets[b] = <<dx, dy, dt>> /\ (dt = 1 => dx = 0 /\ dy = 0)
    BY <1>1, <1>3
  <2> QED
    BY <2>1 DEF Negated
<1> QED
  BY <1>1, <1>4

LEMMA PlusTwice ==
  ASSUME NEW c \in Coordinate, NEW d \in Coordinate, NEW e \in Coordinate
  PROVE  Plus(Plus(c, d), e) = Plus(c, Plus(d, e))
<1>1. {c.u, c.v, c.w, d.u, d.v, d.w, e.u, e.v, e.w} \subseteq Int
  BY DEF Coordinate
<1>2. (c.u + d.u) + e.u = c.u + (d.u + e.u) /\ (c.v + d.v) + e.v = c.v + (d.v + e.v) /\ (c.w + d.w) + e.w = c.w + (d.w + e.w)
  BY <1>1
<1> QED
  BY <1>2 DEF Plus

\* Two steps are one.
LEMMA ShiftTwice ==
  ASSUME Ready, NEW c \in Coordinate,
         NEW dx \in Int, NEW dy \in Int, NEW dt \in Int, NEW ex \in Int, NEW ey \in Int, NEW et \in Int
  PROVE  shift(shift(c, <<dx, dy, dt>>), <<ex, ey, et>>) = shift(c, <<dx + ex, dy + ey, dt + et>>)
<1> DEFINE d == Place(dx, dy, dt)
           e == Place(ex, ey, et)
           f == Plus(c, d)
           S == subtile_count
<1>1. d \in Coordinate /\ e \in Coordinate /\ Plus(d, e) = Place(dx + ex, dy + ey, dt + et)
  <2>1. d \in Coordinate /\ e \in Coordinate
    BY LatticePlace, LatticeType DEF Ready
  <2>2. Plus(d, e) = Place(dx + ex, dy + ey, dt + et)
    BY PlaceAdded, SMTT(30) DEF Ready
  <2> QED
    BY <2>1, <2>2
<1>2. S \in Nat \ {0}
  BY ReadyNumbers
<1>3. shift(c, <<dx, dy, dt>>) = VReduced(f) /\ shift(c, <<dx + ex, dy + ey, dt + et>>) = VReduced(Plus(c, Plus(d, e)))
  BY <1>1, ShiftAdds DEF Ready
<1> HIDE DEF d, e
<1>4. f \in Coordinate /\ f.u = c.u + d.u /\ f.v = c.v + d.v /\ f.w = c.w + d.w
  <2>1. {c.u, c.v, c.w, d.u, d.v, d.w} \subseteq Int
    BY <1>1 DEF Coordinate
  <2> QED
    BY <2>1 DEF Plus, Coordinate
<1> HIDE DEF f
<1>5. floor_mod(f.v, S) \in 0 .. (S - 1)
  BY <1>2, <1>4, Modulo DEF Coordinate
<1>6. VReduced(f) \in Coordinate
  BY <1>2, <1>4, <1>5 DEF VReduced, Coordinate
<1>7. shift(VReduced(f), <<ex, ey, et>>) = VReduced(Plus(VReduced(f), e))
  BY <1>6, ShiftAdds DEF Ready, e
<1>8. VReduced(Plus(VReduced(f), e)) = VReduced(Plus(f, e))
  <2>1. floor_mod(floor_mod(f.v, S) + e.v, S) = floor_mod(f.v + e.v, S)
    BY <1>1, <1>2, <1>4, ModuloTwice DEF Coordinate
  <2> QED
    BY <2>1 DEF VReduced, Plus
<1>9. Plus(f, e) = Plus(c, Plus(d, e))
  BY <1>1, PlusTwice DEF f
<1> QED
  BY <1>3, <1>7, <1>8, <1>9

\* Physical cells that the ship's movement takes into each other keep doing so.
LEMMA ShipPlus ==
  ASSUME Constructed, diagonal \in BOOLEAN,
         NEW a \in [x : Int, y : Int, t : Int], NEW b \in [x : Int, y : Int, t : Int], ShipCell(a) = ShipCell(b),
         NEW dx \in Int, NEW dy \in Int, NEW dt \in Int
  PROVE  ShipCell([x |-> a.x + dx, y |-> a.y + dy, t |-> a.t + dt]) = ShipCell([x |-> b.x + dx, y |-> b.y + dy, t |-> b.t + dt])
<1> DEFINE D == displacement
           P == period
           i == floor_div(a.t, P)
           j == floor_div(b.t, P)
           k == j - i
<1>1. D \in Int /\ P \in Nat \ {0}
  BY Numbers
<1>2. {a.x, a.y, a.t, b.x, b.y, b.t} \subseteq Int
  OBVIOUS
<1>3. i \in Int /\ j \in Int
  <2> HIDE DEF P
  <2>1. i = a.t \div P /\ j = b.t \div P
    BY <1>1, <1>2, FloorDivision
  <2> QED
    BY <1>1, <1>2, <2>1
<1>4. /\ a.x + (IF diagonal THEN i * D ELSE 0) = b.x + (IF diagonal THEN j * D ELSE 0)
      /\ a.y + (i * D) = b.y + (j * D) /\ a.t - (i * P) = b.t - (j * P)
  BY DEF ShipCell
<1> HIDE DEF D, P, i, j
<1>5. D * k = (j * D) - (i * D) /\ P * k = (j * P) - (i * P) /\ {i * D, j * D, i * P, j * P, k} \subseteq Int
  BY <1>1, <1>3
<1> HIDE DEF k
<1>6. /\ a.x + dx = (b.x + dx) + (IF diagonal THEN D * k ELSE 0)
      /\ a.y + dy = (b.y + dy) + (D * k) /\ a.t + dt = (b.t + dt) - (P * k)
  BY <1>2, <1>4, <1>5
<1>7. b.x + dx \in Int /\ b.y + dy \in Int /\ b.t + dt \in Int
  BY <1>2
<1>8. ShipCell([x |-> (b.x + dx) + (IF diagonal THEN displacement * k ELSE 0), y |-> (b.y + dy) + (displacement * k),
                t |-> (b.t + dt) - (period * k)])
        = ShipCell([x |-> b.x + dx, y |-> b.y + dy, t |-> b.t + dt])
  BY <1>5, <1>7, ShipPeriod
<1> QED
  BY <1>6, <1>8 DEF D, P

\* A cell of the equations that a cell takes part in.
Partner(c, i, b) == shift(shift(c, Negated(ca_offsets[i])), ca_offsets[b])

PartnerStep(i, b) ==
  <<(-ca_offsets[i][1]) + ca_offsets[b][1], (-ca_offsets[i][2]) + ca_offsets[b][2], (-ca_offsets[i][3]) + ca_offsets[b][3]>>

Reduced1(c) == c \in Lattice /\ c.v \in 0 .. (subtile_count - 1)

LEMMA PartnerIs ==
  ASSUME Ready, NEW c, Reduced1(c), NEW i \in Bits, NEW b \in Bits
  PROVE  /\ Partner(c, i, b) = shift(c, PartnerStep(i, b)) /\ Reduced1(Partner(c, i, b))
         /\ Reduced1(shift(c, Negated(ca_offsets[i])))
         /\ Partner(c, i, b).w >= c.w - short_window
         /\ \A n \in Int : Partner(Moved(c, 0, 0, n), i, b) = Moved(Partner(c, i, b), 0, 0, n)
<1>1. c \in Coordinate /\ c \in Lattice
  BY LatticeType DEF Ready, Reduced1
<1>2. PICK dx \in -1 .. 1, dy \in -1 .. 1, dt \in 0 .. 1 :
         /\ Negated(ca_offsets[i]) = <<-dx, -dy, -dt>> /\ (dt = 1 => dx = 0 /\ dy = 0)
         /\ dx = ca_offsets[i][1] /\ dy = ca_offsets[i][2] /\ dt = ca_offsets[i][3]
  BY OffsetIs
<1>3. PICK ex \in -1 .. 1, ey \in -1 .. 1, et \in 0 .. 1 :
         /\ ca_offsets[b] = <<ex, ey, et>> /\ (et = 1 => ex = 0 /\ ey = 0)
         /\ ex = ca_offsets[b][1] /\ ey = ca_offsets[b][2] /\ et = ca_offsets[b][3]
  BY OffsetIs
<1> DEFINE fx == (-dx) + ex
           fy == (-dy) + ey
           ft == (-dt) + et
<1>4. fx \in Int /\ fy \in Int /\ ft \in Int /\ -dx \in Int /\ -dy \in Int /\ -dt \in Int
  OBVIOUS
<1>10. ASSUME NEW e \in Coordinate
      PROVE  Partner(e, i, b) = shift(e, <<fx, fy, ft>>)
  <2> DEFINE hx == -dx
             hy == -dy
             ht == -dt
  <2>1. hx \in Int /\ hy \in Int /\ ht \in Int /\ ex \in Int /\ ey \in Int /\ et \in Int
    OBVIOUS
  <2>2. Partner(e, i, b) = shift(shift(e, <<hx, hy, ht>>), <<ex, ey, et>>)
    BY <1>2, <1>3 DEF Partner
  <2> HIDE DEF hx, hy, ht
  <2>3. shift(shift(e, <<hx, hy, ht>>), <<ex, ey, et>>) = shift(e, <<hx + ex, hy + ey, ht + et>>)
    BY <2>1, ShiftTwice
  <2> QED
    BY <2>2, <2>3 DEF hx, hy, ht
<1>5. Partner(c, i, b) = shift(c, <<fx, fy, ft>>) /\ PartnerStep(i, b) = <<fx, fy, ft>>
  <2>1. PartnerStep(i, b) = <<fx, fy, ft>>
    BY <1>2, <1>3 DEF PartnerStep
  <2> QED
    BY <1>1, <1>10, <2>1
<1>6. Reduced1(shift(c, <<fx, fy, ft>>)) /\ Reduced1(shift(c, <<-dx, -dy, -dt>>))
  BY <1>1, <1>4, ShiftLattice DEF Reduced1, Ready
<1>7. shift(c, <<fx, fy, ft>>).w >= c.w - short_window
  <2> DEFINE P == period
             D == displacement
             cw == c.w
             W == short_window
  <2>1. P \in Nat \ {0} /\ D \in 0 .. P /\ cw \in Int /\ W \in Nat
    BY <1>1, ReadyNumbers DEF Coordinate
  <2>2. CASE diagonal
    <3>1. W = 4 * P /\ shift(c, <<fx, fy, ft>>).w = (cw + (P * (fx + fy))) + (2 * D * ft)
      BY <2>2 DEF short_window, shift
    <3> HIDE DEF P, D, cw, W
    <3> DEFINE n == fx + fy
    <3>2. n \in -4 .. 4 /\ ft \in -1 .. 1 /\ (ft = -1 => n >= -2)
      BY <1>2, <1>3
    <3> HIDE DEF fx, fy, ft, n
    <3>3. P * n >= -(4 * P) /\ (ft = -1 => P * n >= -(2 * P)) /\ P * n \in Int
      <4>1. n \in {-4, -3, -2, -1, 0, 1, 2, 3, 4}
        BY <3>2
      <4> QED
        BY <2>1, <3>2, <4>1
    <3>4. 2 * D * ft \in Int /\ (ft # -1 => 2 * D * ft >= 0) /\ (ft = -1 => 2 * D * ft >= -(2 * P))
      <4>1. ft \in {-1, 0, 1}
        BY <3>2
      <4> QED
        BY <2>1, <4>1
    <3>5. (cw + (P * n)) + (2 * D * ft) >= cw - W
      BY <2>1, <3>1, <3>2, <3>3, <3>4
    <3> QED
      BY <3>1, <3>5 DEF n, cw, W
  <2>3. CASE ~diagonal
    <3>1. W = 2 * P /\ shift(c, <<fx, fy, ft>>).w = (cw + (P * fy)) + (D * ft)
      BY <2>3 DEF short_window, shift
    <3> HIDE DEF P, D, cw, W
    <3>2. fy \in -2 .. 2 /\ ft \in -1 .. 1 /\ (ft = -1 => fy >= -1)
      BY <1>2, <1>3
    <3> HIDE DEF fx, fy, ft
    <3>3. P * fy >= -(2 * P) /\ (ft = -1 => P * fy >= -P) /\ P * fy \in Int
      <4>1. fy \in {-2, -1, 0, 1, 2}
        BY <3>2
      <4> QED
        BY <2>1, <3>2, <4>1
    <3>4. D * ft \in Int /\ (ft # -1 => D * ft >= 0) /\ (ft = -1 => D * ft >= -P)
      <4>1. ft \in {-1, 0, 1}
        BY <3>2
      <4> QED
        BY <2>1, <4>1
    <3>5. (cw + (P * fy)) + (D * ft) >= cw - W
      BY <2>1, <3>1, <3>2, <3>3, <3>4
    <3> QED
      BY <3>1, <3>5 DEF cw, W
  <2> QED
    BY <2>2, <2>3, <1>1 DEF Ready
<1>8. ASSUME NEW n \in Int
      PROVE  Partner(Moved(c, 0, 0, n), i, b) = Moved(shift(c, <<fx, fy, ft>>), 0, 0, n)
  <2>1. Moved(c, 0, 0, n) \in Coordinate
    BY <1>1, MovedType
  <2>2. Partner(Moved(c, 0, 0, n), i, b) = shift(Moved(c, 0, 0, n), <<fx, fy, ft>>)
    BY <1>10, <2>1
  <2> QED
    BY <1>1, <1>4, <2>2, ShiftAbove
<1> HIDE DEF fx, fy, ft
<1> QED
  BY <1>2, <1>5, <1>6, <1>7, <1>8

\* On the physical cells it is the same cell.
LEMMA PartnerPhysical ==
  ASSUME Ready, NEW c, Reduced1(c), NEW i \in Bits, NEW b \in Bits,
         NEW a \in [x : Int, y : Int, t : Int], ShipCell(a) = ShipCell(to_physical(c))
  PROVE  ShipCell(PhysicalPlus(PhysicalPlus(a, Negated(ca_offsets[i])), ca_offsets[b])) = ShipCell(to_physical(Partner(c, i, b)))
<1>1. c \in Coordinate /\ Integral(c)
  BY LatticeType DEF Ready, Reduced1
<1>2. PICK dx \in Int, dy \in Int, dt \in Int : Negated(ca_offsets[i]) = <<-dx, -dy, -dt>>
         /\ dx = ca_offsets[i][1] /\ dy = ca_offsets[i][2] /\ dt = ca_offsets[i][3]
  BY OffsetIs
<1>3. PICK ex \in Int, ey \in Int, et \in Int : ca_offsets[b] = <<ex, ey, et>>
         /\ ex = ca_offsets[b][1] /\ ey = ca_offsets[b][2] /\ et = ca_offsets[b][3]
  BY OffsetIs
<1> DEFINE fx == (-dx) + ex
           fy == (-dy) + ey
           ft == (-dt) + et
           q == to_physical(c)
<1>4. fx \in Int /\ fy \in Int /\ ft \in Int
  OBVIOUS
<1>5. Partner(c, i, b) = shift(c, <<fx, fy, ft>>)
  BY <1>2, <1>3, PartnerIs DEF PartnerStep
<1>6. q \in [x : Int, y : Int, t : Int]
  <2>1. PICK m \in Int, n \in Int, s \in Int : c = Place(m, n, s)
    BY DEF Reduced1, Lattice
  <2> QED
    BY <2>1, PlaceExact DEF Ready
<1>7. ShipCell([x |-> a.x + fx, y |-> a.y + fy, t |-> a.t + ft]) = ShipCell([x |-> q.x + fx, y |-> q.y + fy, t |-> q.t + ft])
  <2> HIDE DEF fx, fy, ft, q
  <2> QED
    BY <1>4, <1>6, ShipPlus DEF Ready, q
<1>8. ShipCell([x |-> q.x + fx, y |-> q.y + fy, t |-> q.t + ft]) = ShipCell(to_physical(Partner(c, i, b)))
  <2> HIDE DEF fx, fy, ft
  <2> QED
    BY <1>1, <1>4, <1>5, StepTranslates DEF Ready
<1>9. PhysicalPlus(PhysicalPlus(a, Negated(ca_offsets[i])), ca_offsets[b]) = [x |-> a.x + fx, y |-> a.y + fy, t |-> a.t + ft]
  <2>1. {a.x, a.y, a.t} \subseteq Int
    OBVIOUS
  <2>2. (a.x + (-dx)) + ex = a.x + fx /\ (a.y + (-dy)) + ey = a.y + fy /\ (a.t + (-dt)) + et = a.t + ft
    BY <2>1
  <2> QED
    BY <1>2, <1>3, <2>2 DEF PhysicalPlus
<1> QED
  BY <1>7, <1>8, <1>9

-----------------------------------------------------------------------------
\* W of a row of the first tile.
LEMMA CandidateW ==
  ASSUME Ready, NEW p \in 0 .. (subtile_count - 1), NEW i \in Int
  PROVE  cell(i, p).w = spots[p].w /\ spots[p].w \in 0 .. (subtile_count - 1)
<1>1. subtile_count \in Nat \ {0} /\ p \in Int
  BY ReadyNumbers
<1>2. floor_mod(p, subtile_count) = p
  BY <1>1, ModuloOwn
<1> DEFINE k == floor_div(p, subtile_count)
           S == subtile_count
<1>3. k \in Int /\ p = (S * k) + p /\ spots[p] \in Reduced /\ cell(i, p) = Moved(spots[p], S * i, 0, S * k)
  BY <1>1, <1>2, CellMoves DEF Ready
<1>4. spots[p].w \in 0 .. (S - 1)
  BY <1>3 DEF Reduced, Ranged
<1> DEFINE w == spots[p].w
<1> HIDE DEF k, S, w
<1>5. S * k = 0
  <2>1. S * k \in Int
    BY <1>1, <1>3 DEF S
  <2> QED
    BY <1>1, <1>3, <2>1
<1>6. cell(i, p).w = w + (S * k)
  BY <1>3 DEF Moved, w
<1>7. w \in Int
  BY <1>1, <1>4 DEF w, S
<1> QED
  BY <1>4, <1>5, <1>6, <1>7 DEF w, S

\* No row above the history window lies as low as a cell of an equation of the candidate.
LEMMA RowBound ==
  ASSUME Ready, NEW p \in 0 .. (subtile_count - 1), NEW i \in Int, NEW j \in Nat,
         cell(i, p - j).w >= spots[p].w - short_window
  PROVE  j \in 0 .. history_window(p)
<1> DEFINE S == subtile_count
           q == floor_mod(p - j, S)
           k == floor_div(p - j, S)
<1>1. S \in Nat \ {0} /\ p \in Int /\ p - j \in Int
  BY ReadyNumbers
<1>2. PICK m \in Nat : short_window = S * m
  BY ReadyNumbers
<1>3. /\ q \in 0 .. (S - 1) /\ k \in Int /\ p - j = (S * k) + q /\ spots[q] \in Reduced
      /\ cell(i, p - j) = Moved(spots[q], S * i, 0, S * k)
  BY <1>1, CellMoves DEF Ready
<1>4. spots[q].w \in 0 .. (S - 1) /\ spots[p].w \in 0 .. (S - 1)
  BY <1>3, CandidateW DEF Reduced, Ranged
<1> DEFINE w == spots[q].w
           z == spots[p].w
           H == short_window
<1>5. w + (S * k) >= z - H
  BY <1>3 DEF Moved
<1>6. history_window(p) = H + p
  BY DEF history_window
<1>7. w \in Int /\ w < S /\ z \in Nat
  BY <1>1, <1>4
<1> HIDE DEF S, q, k, w, z, H
<1>8. S * k \in Int /\ S * m \in Int /\ S * (k + m) = (S * k) + (S * m)
  BY <1>1, <1>2, <1>3
<1>9. S * (k + m) > -S
  BY <1>1, <1>2, <1>5, <1>7, <1>8 DEF H
<1>10. k + m >= 0
  <2>1. k + m <= -1 => S * (k + m) <= -S
    <3> DEFINE n == k + m
    <3>1. n \in Int
      BY <1>3
    <3> HIDE DEF n
    <3>2. n <= -1 => S * n <= -S
      BY <1>1, <3>1
    <3> QED
      BY <3>2 DEF n
  <2>2. S * (k + m) \in Int /\ S \in Int /\ k + m \in Int
    BY <1>1, <1>2, <1>3, <1>8
  <2> QED
    BY <1>9, <2>1, <2>2
<1>11. S * (k + m) >= 0
  <2> DEFINE n == k + m
  <2>1. n \in Nat
    BY <1>2, <1>3, <1>10
  <2> HIDE DEF n
  <2>2. S * n >= 0
    BY <1>1, <2>1
  <2> QED
    BY <2>2 DEF n
<1>12. j <= H + p
  BY <1>1, <1>2, <1>3, <1>8, <1>11 DEF H
<1>13. H + p \in Int
  BY <1>1, <1>2, <1>8 DEF H
<1> QED
  BY <1>6, <1>12, <1>13

\* The mirror image on the physical cells.
LEMMA MirrorExact ==
  ASSUME Ready, NEW mode \in EdgeMode, Reflecting(mode), NEW edge \in Side,
         NEW p \in Int, NEW q \in Int, NEW s \in Int
  PROVE  LET m == PhysicalMirror([x |-> p, y |-> q, t |-> s], mode, edge)
         IN  /\ m.x \in Int /\ m.y \in Int /\ m.t \in Int
             /\ Mirror(Place(p, q, s), mode, edge, 0) = Place(m.x, m.y, m.t)
<1> DEFINE D == displacement
           P == period
           g == gcd
           a == w_time
           b == w_space
           A == Axis(mode, edge, 0)
           L == local_constant(mode, edge)
           m == PhysicalMirror([x |-> p, y |-> q, t |-> s], mode, edge)
           half == IF mode \in Glides THEN 1 ELSE 0
<1>1. {D, P, a, b} \subseteq Int /\ g \in Nat \ {0} /\ (D * a) + (P * b) = g
  BY Numbers DEF Ready
<1>2. PICK l \in Int : L = g * l /\ (diagonal => /\ mode \in {Odd, GlideOdd} => l = 2 \/ l = 4
                                                 /\ mode \notin {Odd, GlideOdd} => l = 3)
  BY LocalConstant DEF Ready
<1>3. L \div g = l
  <2> HIDE DEF g, L
  <2>1. L = (g * l) + 0 /\ 0 \in 0 .. (g - 1) /\ g * l \in Int
    BY <1>1, <1>2
  <2>2. L \div g = l
    BY <1>1, <1>2, <2>1, QuotientUnique
  <2> QED
    BY <2>2
<1>4. A = L
  <2>1. A = (2 * subtile_count * 0) + L /\ subtile_count \in Int
    BY ReadyNumbers DEF Axis
  <2>2. L \in Int
    BY <1>1, <1>2
  <2> HIDE DEF A, L
  <2> QED
    BY <2>1, <2>2
<1>5. CASE diagonal
  <2>1. /\ m.x = q + ((l - (half * D)) \div 2) /\ m.y = p - ((l + (half * D)) \div 2) /\ m.t = s + ((half * P) \div 2)
    BY <1>3, <1>5 DEF PhysicalMirror
  <2>2. Mirror(Place(p, q, s), mode, edge, 0)
          = [u |-> A - (g * (p - q)), v |-> ((b * (2 * s)) - (a * (p + q))) + Slide(mode), w |-> (P * (p + q)) + (D * (2 * s))]
    BY <1>5 DEF Mirror, Place, Point
  <2>3. Place(m.x, m.y, m.t)
          = [u |-> g * (m.x - m.y), v |-> (b * (2 * m.t)) - (a * (m.x + m.y)), w |-> (P * (m.x + m.y)) + (D * (2 * m.t))]
    BY <1>5 DEF Place, Point
  <2>4. CASE mode \notin Glides
    <3>1. Slide(mode) = 0 /\ half = 0
      BY <2>4 DEF Slide
    <3>2. l % 2 = 0
      <4>1. mode # Even
        BY <1>5, NotEven
      <4>2. mode = Odd
        BY <2>4, <4>1 DEF Reflecting, EdgeMode, Glides
      <4>3. l = 2 \/ l = 4
        BY <1>2, <1>5, <4>2
      <4> QED
        BY <4>3
    <3>3. PICK n \in Int : l = 2 * n
      BY <3>2
    <3>4. m.x = q + n /\ m.y = p - n /\ m.t = s
      <4>1. half * D = 0 /\ half * P = 0
        BY <1>1, <3>1
      <4>2. l - (half * D) = 2 * n /\ l + (half * D) = 2 * n
        BY <3>3, <4>1
      <4>3. (2 * n) \div 2 = n /\ 0 \div 2 = 0
        OBVIOUS
      <4> HIDE DEF half, m, D, P
      <4> QED
        BY <2>1, <4>1, <4>2, <4>3
    <3> HIDE DEF D, P, g, a, b, A, L, m
    <3>5. m.x + m.y = p + q /\ m.x - m.y = (2 * n) - (p - q) /\ m.t = s /\ m.x \in Int /\ m.y \in Int /\ m.t \in Int
      BY <3>4
    <3>6. A - (g * (p - q)) = g * ((2 * n) - (p - q))
      <4> DEFINE i == p - q
      <4>1. i \in Int /\ A = g * (2 * n)
        BY <1>2, <1>4, <3>3
      <4> HIDE DEF i
      <4>2. g * (2 * n) - (g * i) = g * ((2 * n) - i)
        BY <1>1, <4>1
      <4>3. (g * (2 * n)) - (g * i) = g * ((2 * n) - i)
        BY <1>1, <4>1
      <4> QED
        BY <4>1, <4>3 DEF i
    <3>7. ((b * (2 * s)) - (a * (p + q))) + 0 = (b * (2 * s)) - (a * (p + q))
      <4>1. b * (2 * s) \in Int /\ a * (p + q) \in Int
        BY <1>1
      <4> QED
        BY <4>1
    <3> QED
      BY <2>2, <2>3, <3>1, <3>5, <3>6, <3>7 DEF m
  <2>5. CASE mode \in Glides
    <3>1. Slide(mode) = g /\ half = 1
      BY <1>5, <2>5 DEF Slide
    <3>2. PICK h \in Int : P = 2 * h /\ h = P \div 2
      BY <1>5, <2>5, GlideHalves DEF Ready
    <3>4. PICK n \in Int : l - D = 2 * n
      <4>1. mode = GlideOdd => D % 2 = 0
        BY <1>5, <2>5, GlideCompatible DEF Reflecting
      <4>2. mode = GlideEven => D % 2 = 1
        BY <1>5, <2>5, GlideCompatible DEF Reflecting, GlideOdd, GlideEven
      <4>3. mode = GlideOdd => l = 2 \/ l = 4
        BY <1>2, <1>5
      <4>4. mode = GlideEven => l = 3
        BY <1>2, <1>5 DEF GlideEven, GlideOdd, Odd
      <4>5. (l - D) % 2 = 0
        <5> HIDE DEF D
        <5> QED
          BY <1>1, <2>5, <4>1, <4>2, <4>3, <4>4 DEF Glides
      <4>6. l - D \in Int
        BY <1>1
      <4> QED
        BY <4>5, <4>6
    <3>5. m.x = q + n /\ m.y = p - (n + D) /\ m.t = s + h
      <4>1. half * D = D /\ half * P = P
        BY <1>1, <3>1
      <4>2. l + D = 2 * (n + D) /\ l - D = 2 * n /\ P = 2 * h
        <5> HIDE DEF D, P
        <5> QED
          BY <1>1, <3>2, <3>4
      <4>3. (2 * n) \div 2 = n /\ (2 * h) \div 2 = h
        OBVIOUS
      <4>4. (2 * (n + D)) \div 2 = n + D
        <5> DEFINE e == n + D
        <5>1. e \in Int
          BY <1>1
        <5> HIDE DEF e
        <5>2. (2 * e) \div 2 = e
          BY <5>1
        <5> QED
          BY <5>2 DEF e
      <4> HIDE DEF half, m, D, P
      <4> QED
        BY <2>1, <4>1, <4>2, <4>3, <4>4
    <3> HIDE DEF D, P, g, a, b, A, L, m
    <3>6. m.x + m.y = (p + q) - D /\ m.x - m.y = l - (p - q) /\ m.t = s + h /\ m.x \in Int /\ m.y \in Int /\ m.t \in Int
      BY <1>1, <3>4, <3>5
    <3> DEFINE i == p - q
               j == p + q
    <3>7. i \in Int /\ j \in Int
      OBVIOUS
    <3>12. m.x - m.y = l - i /\ m.x + m.y = j - D
      BY <3>6
    <3> HIDE DEF i, j
    <3>8. A - (g * i) = g * (l - i)
      BY <1>1, <1>2, <1>4, <3>7
    <3>9. ((b * (2 * s)) - (a * j)) + g = (b * (2 * (s + h))) - (a * (j - D))
      <4>1. b * (2 * (s + h)) = (b * (2 * s)) + (P * b)
        BY <1>1, <3>2
      <4>2. a * (j - D) = (a * j) - (D * a)
        BY <1>1, <3>7
      <4>3. {b * (2 * s), P * b, a * j, D * a} \subseteq Int
        BY <1>1, <3>7
      <4> QED
        BY <1>1, <4>1, <4>2, <4>3
    <3>10. (P * j) + (D * (2 * s)) = (P * (j - D)) + (D * (2 * (s + h)))
      <4>1. D * (2 * (s + h)) = (D * (2 * s)) + (P * D) /\ P * (j - D) = (P * j) - (P * D)
        BY <1>1, <3>2, <3>7
      <4>2. {D * (2 * s), P * j, P * D} \subseteq Int
        BY <1>1, <3>7
      <4> QED
        BY <4>1, <4>2
    <3>11. Mirror(Place(p, q, s), mode, edge, 0) = [u |-> A - (g * i), v |-> ((b * (2 * s)) - (a * j)) + g, w |-> (P * j) + (D * (2 * s))]
      BY <2>2, <3>1 DEF i, j
    <3> QED
      BY <2>3, <3>6, <3>8, <3>9, <3>10, <3>11, <3>12 DEF m
  <2> QED
    BY <2>4, <2>5
<1>6. CASE ~diagonal
  <2>1. /\ m.x = l - p /\ m.y = q - ((half * D) \div 2) /\ m.t = s + ((half * P) \div 2)
    BY <1>3, <1>6 DEF PhysicalMirror
  <2>2. Mirror(Place(p, q, s), mode, edge, 0)
          = [u |-> A - (g * p), v |-> ((b * s) - (a * q)) + Slide(mode), w |-> (P * q) + (D * s)]
    BY <1>6 DEF Mirror, Place, Point
  <2>3. Place(m.x, m.y, m.t) = [u |-> g * m.x, v |-> (b * m.t) - (a * m.y), w |-> (P * m.y) + (D * m.t)]
    BY <1>6 DEF Place, Point
  <2>6. A - (g * p) = g * (l - p)
    <3> HIDE DEF A, g, L
    <3> QED
      BY <1>1, <1>2, <1>4
  <2>4. CASE mode \notin Glides
    <3>1. Slide(mode) = 0 /\ half = 0
      BY <2>4 DEF Slide
    <3>2. m.x = l - p /\ m.y = q /\ m.t = s
      <4>1. half * D = 0 /\ half * P = 0
        BY <1>1, <3>1
      <4>2. 0 \div 2 = 0
        OBVIOUS
      <4> HIDE DEF half, m, D, P
      <4> QED
        BY <2>1, <4>1, <4>2
    <3>3. ((b * s) - (a * q)) + 0 = (b * s) - (a * q)
      <4>1. b * s \in Int /\ a * q \in Int
        BY <1>1
      <4> QED
        BY <4>1
    <3> QED
      BY <2>2, <2>3, <2>6, <3>1, <3>2, <3>3
  <2>5. CASE mode \in Glides
    <3>1. Slide(mode) = g \div 2 /\ half = 1
      BY <1>6, <2>5 DEF Slide
    <3>2. PICK h \in Int, c \in Int, e \in Int :
             P = 2 * h /\ D = 2 * c /\ g \div 2 = e /\ (c * a) + (h * b) = e
      <4>1. /\ period = 2 * (period \div 2) /\ period \div 2 \in Int
            /\ displacement \div 2 \in Int
            /\ displacement = 2 * (displacement \div 2)
            /\ gcd = 2 * (gcd \div 2) /\ gcd \div 2 \in Int
            /\ ((displacement \div 2) * w_time) + ((period \div 2) * w_space) = gcd \div 2
        BY <1>6, <2>5, GlideHalves DEF Ready
      <4> QED
        BY <4>1
    <3>3. m.x = l - p /\ m.y = q - c /\ m.t = s + h
      <4>1. half * D = 2 * c /\ half * P = 2 * h
        BY <1>1, <3>1, <3>2
      <4>2. (2 * c) \div 2 = c /\ (2 * h) \div 2 = h
        OBVIOUS
      <4> HIDE DEF half, m, D, P
      <4> QED
        BY <2>1, <4>1, <4>2
    <3> HIDE DEF D, P, g, a, b, A, L, m
    <3>4. ((b * s) - (a * q)) + e = (b * (s + h)) - (a * (q - c))
      <4>1. b * (s + h) = (b * s) + (h * b) /\ a * (q - c) = (a * q) - (c * a)
        BY <1>1
      <4>2. {b * s, h * b, a * q, c * a} \subseteq Int
        BY <1>1
      <4> QED
        BY <3>2, <4>1, <4>2
    <3>5. (P * q) + (D * s) = (P * (q - c)) + (D * (s + h))
      <4>1. P * (q - c) = (P * q) - (2 * (h * c)) /\ D * (s + h) = (D * s) + (2 * (h * c))
        BY <1>1, <3>2
      <4>2. {P * q, D * s, 2 * (h * c)} \subseteq Int
        BY <1>1
      <4> QED
        BY <4>1, <4>2
    <3> QED
      BY <2>2, <2>3, <2>6, <3>1, <3>2, <3>3, <3>4, <3>5 DEF m, g
  <2> QED
    BY <2>4, <2>5
<1> QED
  BY <1>5, <1>6 DEF Ready

LEMMA PhysicalPlace ==
  ASSUME Ready, NEW c, Reduced1(c)
  PROVE  /\ c \in Coordinate /\ to_physical(c) \in [x : Int, y : Int, t : Int]
         /\ c = Place(to_physical(c).x, to_physical(c).y, to_physical(c).t)
<1>1. PICK m \in Int, n \in Int, s \in Int : c = Place(m, n, s)
  BY DEF Reduced1, Lattice
<1>2. to_physical(c) = [x |-> m, y |-> n, t |-> s] /\ c \in Coordinate
  BY <1>1, PlaceExact DEF Ready
<1> QED
  BY <1>1, <1>2

\* A place some ship's periods on stands for the same physical cell.
LEMMA PlaceShip ==
  ASSUME Ready, NEW p \in Int, NEW q \in Int, NEW s \in Int
  PROVE  ShipCell(to_physical(VReduced(Place(p, q, s)))) = ShipCell([x |-> p, y |-> q, t |-> s])
<1>11. \A a, b, n, k \in Int :
          ShipCell([x |-> a + (IF diagonal THEN displacement * k ELSE 0), y |-> b + (displacement * k), t |-> n - (period * k)])
            = ShipCell([x |-> a, y |-> b, t |-> n])
  BY ShipPeriod DEF Ready
<1>9. \E j \in Int : /\ VReduced(Place(p, q, s)) = Moved(Place(p, q, s), 0, subtile_count * j, 0)
                    /\ \E p2, q2 \in Int : VReduced(Place(p, q, s)) = Place(p2, q2, s + (period * j))
  BY ONLY Ready, VReducedLattice DEF Ready
<1>1. PICK j \in Int : VReduced(Place(p, q, s)) = Moved(Place(p, q, s), 0, subtile_count * j, 0)
  BY <1>9
<1> DEFINE a == IF diagonal THEN p - (displacement * j) ELSE p
           b == q - (displacement * j)
           n == s + (period * j)
           k == -j
<1>2. Place(a, b, n) = Moved(Place(p, q, s), 0, subtile_count * j, 0)
  BY PlacePeriods DEF Ready
<1>3. displacement \in Int /\ period \in Int /\ k \in Int
  BY Numbers DEF Ready
<1>4. displacement * j \in Int /\ period * j \in Int /\ displacement * k = -(displacement * j) /\ period * k = -(period * j)
  BY <1>3
<1>5. a \in Int /\ b \in Int /\ n \in Int
  BY <1>4
<1>6. to_physical(Place(a, b, n)) = [x |-> a, y |-> b, t |-> n]
  BY <1>5, PlaceExact DEF Ready
<1>7. ShipCell([x |-> p + (IF diagonal THEN displacement * k ELSE 0), y |-> q + (displacement * k), t |-> s - (period * k)])
        = ShipCell([x |-> p, y |-> q, t |-> s])
  BY <1>3, <1>11
<1>8. a = p + (IF diagonal THEN displacement * k ELSE 0) /\ b = q + (displacement * k) /\ n = s - (period * k)
  <2> DEFINE d == displacement * j
             e == period * j
             d2 == displacement * k
             e2 == period * k
  <2>1. d \in Int /\ e \in Int /\ d2 = -d /\ e2 = -e
    BY <1>4
  <2>2. a = (IF diagonal THEN p - d ELSE p) /\ b = q - d /\ n = s + e
    OBVIOUS
  <2> HIDE DEF d, e, d2, e2, a, b, n
  <2>3. a = p + (IF diagonal THEN d2 ELSE 0) /\ b = q + d2 /\ n = s - e2
    BY <2>1, <2>2
  <2> QED
    BY <2>3 DEF d2, e2
<1> HIDE DEF a, b, n, k
<1> QED
  BY <1>1, <1>2, <1>6, <1>7, <1>8

LEMMA MirrorPhysical ==
  ASSUME Ready, NEW mode \in EdgeMode, Reflecting(mode), NEW edge \in Side, NEW c, Reduced1(c)
  PROVE  /\ ShipCell(PhysicalMirror(to_physical(c), mode, edge)) = ShipCell(to_physical(reflect(c, mode, edge, 0)))
         /\ PhysicalMirror(to_physical(c), mode, edge) \in [x : Int, y : Int, t : Int]
         /\ Reduced1(reflect(c, mode, edge, 0)) /\ reflect(c, mode, edge, 0).w = c.w
<1> DEFINE a == to_physical(c)
           m == PhysicalMirror(a, mode, edge)
<1>1. c \in Coordinate /\ a \in [x : Int, y : Int, t : Int] /\ c = Place(a.x, a.y, a.t)
  BY PhysicalPlace
<1>2. a = [x |-> a.x, y |-> a.y, t |-> a.t] /\ a.x \in Int /\ a.y \in Int /\ a.t \in Int
  BY <1>1
<1> HIDE DEF a
<1>3. m.x \in Int /\ m.y \in Int /\ m.t \in Int /\ Mirror(c, mode, edge, 0) = Place(m.x, m.y, m.t)
  BY <1>1, <1>2, MirrorExact
<1>4. m = [x |-> m.x, y |-> m.y, t |-> m.t]
  BY DEF PhysicalMirror
<1>5. reflect(c, mode, edge, 0) = VReduced(Mirror(c, mode, edge, 0))
  BY <1>1, ReflectMirror DEF Ready, Reduced1
<1> HIDE DEF m
<1>6. ShipCell(to_physical(reflect(c, mode, edge, 0))) = ShipCell(m)
  BY <1>3, <1>4, <1>5, PlaceShip
<1>7. m \in [x : Int, y : Int, t : Int]
  BY <1>3, <1>4
<1>8. reflect(c, mode, edge, 0) \in Lattice
  BY ReflectLattice DEF Ready, Reduced1
<1>9. reflect(c, mode, edge, 0).v \in 0 .. (subtile_count - 1)
  <2>1. VReduced(Place(m.x, m.y, m.t)).v \in 0 .. (subtile_count - 1)
    <3>1. Constructed /\ diagonal \in BOOLEAN
      BY DEF Ready
    <3> QED
      BY <1>3, <3>1, VReducedLattice
  <2> QED
    BY <1>3, <1>5, <2>1
<1>10. reflect(c, mode, edge, 0).w = c.w
  BY DEF reflect
<1> QED
  BY <1>6, <1>7, <1>8, <1>9, <1>10 DEF m, a, Reduced1

\* What the candidate's rows, and the same rows in a higher tile, say of a cell.
LEMMA ReadCellIs ==
  ASSUME Ready, NEW p \in 0 .. (subtile_count - 1), NEW read \in Nat \X Int
  PROVE  /\ Reduced1(ReadCell(p, read)) /\ Reduced1(cell(read[2], StripRow(p) - read[1]))
         /\ Physical(p, read) = to_physical(cell(read[2], StripRow(p) - read[1]))
         /\ cell(read[2], StripRow(p) - read[1]) = Moved(ReadCell(p, read), 0, 0, long_window)
         /\ ReadCell(p, read) \in Coordinate /\ long_window \in Int
<1> DEFINE i == read[2]
           j == read[1]
<1>1. i \in Int /\ j \in Nat
  OBVIOUS
<1>2. PICK m \in Nat : long_window = subtile_count * (m + 1)
  BY ReadyNumbers
<1>3. p \in Int /\ subtile_count \in Int /\ subtile_count * (m + 1) \in Int /\ m + 1 \in Int
  BY ReadyNumbers
<1>4. p - j \in Int /\ StripRow(p) - j = (p - j) + (subtile_count * (m + 1))
  <2> DEFINE L == long_window
  <2>1. L \in Int /\ L = subtile_count * (m + 1)
    BY <1>2, <1>3
  <2>2. StripRow(p) = L + p
    BY DEF StripRow
  <2> HIDE DEF L, i, j
  <2>3. (L + p) - j = (p - j) + L
    BY <1>1, <1>3, <2>1
  <2> QED
    BY <1>1, <1>3, <2>1, <2>2, <2>3
<1>5. cell(i, StripRow(p) - j) = Moved(cell(i, p - j), 0, 0, long_window)
  <2> DEFINE n == m + 1
  <2>1. cell(i, (p - j) + (subtile_count * n)) = Moved(cell(i, p - j), 0, 0, subtile_count * n)
    <3> DEFINE d == p - j
    <3>1. d \in Int /\ n \in Int /\ i \in Int
      BY <1>1, <1>3, <1>4
    <3> HIDE DEF i, d, n
    <3>2. cell(i, d + (subtile_count * n)) = Moved(cell(i, d), 0, 0, subtile_count * n)
      BY <3>1, CellAbove
    <3> QED
      BY <3>2 DEF d
  <2> QED
    BY <1>2, <1>4, <2>1
<1>6. StripRow(p) - j \in Int
  BY <1>3, <1>4
<1>7. Reduced1(cell(i, p - j)) /\ Reduced1(cell(i, StripRow(p) - j)) /\ cell(i, p - j) \in Coordinate
  BY <1>1, <1>4, <1>6, CellLattice DEF Ready, Reduced1
<1> QED
  BY <1>2, <1>3, <1>5, <1>7 DEF ReadCell, Physical

Low(p, t) == Reduced1(t) /\ t.w >= spots[p].w - short_window

Above(t) == Moved(t, 0, 0, long_window)

LEMMA StripWindow ==
  ASSUME Ready, NEW p \in 0 .. (subtile_count - 1), NEW columns \in SUBSET Int
  PROVE  /\ Window(p, columns) \subseteq Strip(p, columns) /\ Strip(p, columns) \subseteq Nat \X Int
         /\ \A read \in Strip(p, columns) : read \in Window(p, columns) <=> read[1] \in 0 .. history_window(p)
         /\ history_window(p) \in Nat /\ \A read \in Window(p, columns) : read[1] \in 0 .. history_window(p) /\ read[2] \in columns
<1>1. p \in Nat /\ subtile_count \in Nat \ {0} /\ short_window \in Nat /\ long_window = short_window + subtile_count
  BY ReadyNumbers
<1>2. history_window(p) = short_window + p /\ StripRow(p) = long_window + p
  BY DEF history_window, StripRow
<1>3. history_window(p) \in Nat /\ StripRow(p) \in Nat /\ history_window(p) <= StripRow(p)
  BY <1>1, <1>2
<1> DEFINE H == history_window(p)
           L == StripRow(p)
<1> HIDE DEF H, L
<1>4. H \in Nat /\ L \in Nat /\ H <= L
  BY <1>3 DEF H, L
<1>5. Window(p, columns) = (0 .. H) \X columns /\ Strip(p, columns) = (0 .. L) \X columns
  BY DEF Window, Strip, H, L
<1>6. 0 .. H \subseteq 0 .. L /\ 0 .. L \subseteq Nat
  BY <1>4
<1>7. \A read \in (0 .. L) \X columns : read[1] \in 0 .. L /\ read[2] \in columns /\ read = <<read[1], read[2]>>
  OBVIOUS
<1>8. \A read \in (0 .. L) \X columns : read \in (0 .. H) \X columns <=> read[1] \in 0 .. H
  BY <1>7
<1>9. (0 .. H) \X columns \subseteq (0 .. L) \X columns
  BY <1>6
<1>10. (0 .. L) \X columns \subseteq Nat \X Int
  BY <1>6
<1>11. \A read \in (0 .. H) \X columns : read[1] \in 0 .. H /\ read[2] \in columns
  OBVIOUS
<1> QED
  BY <1>4, <1>5, <1>8, <1>9, <1>10, <1>11 DEF H

LEMMA SamePlain ==
  ASSUME Ready, NEW p \in 0 .. (subtile_count - 1), NEW columns \in SUBSET Int, NEW t, Low(p, t), Reduced1(Above(t))
  PROVE  {read \in Strip(p, columns) : ShipCell(Physical(p, read)) = ShipCell(to_physical(Above(t)))}
           = {read \in Window(p, columns) : ReadCell(p, read) = t}
<1>1. t \in Coordinate
  BY LatticeType DEF Low, Reduced1, Ready
<1>2. ASSUME NEW read \in Strip(p, columns)
      PROVE  ShipCell(Physical(p, read)) = ShipCell(to_physical(Above(t))) <=> ReadCell(p, read) = t
  <2> DEFINE e == cell(read[2], StripRow(p) - read[1])
  <2>1. read \in Nat \X Int
    BY StripWindow
  <2>2. /\ Reduced1(e) /\ Physical(p, read) = to_physical(e) /\ e = Above(ReadCell(p, read))
        /\ ReadCell(p, read) \in Coordinate /\ long_window \in Int
    BY <2>1, ReadCellIs DEF Above
  <2> HIDE DEF e
  <2>3. ShipCell(to_physical(e)) = ShipCell(to_physical(Above(t))) => e = Above(t)
    BY <2>2, ShipOnce DEF Reduced1, Ready
  <2>4. e = Above(t) => ReadCell(p, read) = t
    BY <1>1, <2>2, MovedOnce DEF Above
  <2> QED
    BY <2>2, <2>3, <2>4
<1>3. ASSUME NEW read \in Strip(p, columns), ReadCell(p, read) = t
      PROVE  read \in Window(p, columns)
  <2>1. read \in Nat \X Int
    BY StripWindow
  <2>2. cell(read[2], p - read[1]).w >= spots[p].w - short_window
    BY <1>3 DEF Low, ReadCell
  <2>3. read[1] \in 0 .. history_window(p)
    BY <2>1, <2>2, RowBound
  <2> QED
    BY <2>3, StripWindow
<1> QED
  BY <1>2, <1>3, StripWindow

LEMMA SameMirror ==
  ASSUME Ready, NEW p \in 0 .. (subtile_count - 1), NEW columns \in SUBSET Int, NEW t, Low(p, t), Reduced1(Above(t)),
         NEW mode \in EdgeMode, Reflecting(mode), NEW edge \in Side
  PROVE  {read \in Strip(p, columns) : ShipCell(PhysicalMirror(Physical(p, read), mode, edge)) = ShipCell(to_physical(Above(t)))}
           = {read \in Window(p, columns) : reflect(ReadCell(p, read), mode, edge, 0) = t}
<1>1. t \in Coordinate
  BY LatticeType DEF Low, Reduced1, Ready
<1>2. ASSUME NEW read \in Strip(p, columns)
      PROVE  ShipCell(PhysicalMirror(Physical(p, read), mode, edge)) = ShipCell(to_physical(Above(t)))
               <=> reflect(ReadCell(p, read), mode, edge, 0) = t
  <2> DEFINE e == cell(read[2], StripRow(p) - read[1])
             c == ReadCell(p, read)
             image(a) == reflect(a, mode, edge, 0)
  <2>1. read \in Nat \X Int
    BY StripWindow
  <2>2. /\ Reduced1(e) /\ Physical(p, read) = to_physical(e) /\ e = Above(c) /\ Reduced1(c)
        /\ c \in Coordinate /\ long_window \in Int
    BY <2>1, ReadCellIs DEF Above
  <2> HIDE DEF e, c
  <2>3. ShipCell(PhysicalMirror(to_physical(e), mode, edge)) = ShipCell(to_physical(image(e))) /\ Reduced1(image(e))
    BY <2>2, MirrorPhysical
  <2>4. image(e) = Above(image(c))
    BY <2>2, ReflectAbove DEF Above
  <2>5. image(c) \in Coordinate
    BY <2>2, MirrorPhysical, PhysicalPlace
  <2> HIDE DEF image
  <2>6. ShipCell(to_physical(image(e))) = ShipCell(to_physical(Above(t))) => image(e) = Above(t)
    BY <2>3, ShipOnce DEF Reduced1, Ready
  <2>7. Above(image(c)) = Above(t) => image(c) = t
    BY <1>1, <2>2, <2>5, MovedOnce DEF Above
  <2> QED
    BY <2>2, <2>3, <2>4, <2>6, <2>7 DEF c, image
<1>3. ASSUME NEW read \in Strip(p, columns), reflect(ReadCell(p, read), mode, edge, 0) = t
      PROVE  read \in Window(p, columns)
  <2>1. read \in Nat \X Int
    BY StripWindow
  <2>2. cell(read[2], p - read[1]).w >= spots[p].w - short_window
    BY <1>3, <2>1, ReadCellIs, MirrorPhysical DEF Low, ReadCell
  <2>3. read[1] \in 0 .. history_window(p)
    BY <2>1, <2>2, RowBound
  <2> QED
    BY <2>3, StripWindow
<1> QED
  BY <1>2, <1>3, StripWindow

-----------------------------------------------------------------------------
\* Recursion on the numbers up to N has a solution, in the set its steps stay in.
StepsOf(N, X) == [(1 .. N) \X X -> X]
Solution(X, a, N, s, f) == f \in [0 .. N -> X] /\ f[0] = a /\ \A n \in 1 .. N : f[n] = s[<<n, f[n - 1]>>]

LEMMA Recursion ==
  ASSUME NEW X, NEW a \in X, NEW N \in Nat, NEW s \in StepsOf(N, X)
  PROVE  \E f : Solution(X, a, N, s, f)
<1> DEFINE Part(k, f) == f[0] = a /\ \A n \in 1 .. k : f[n] = s[<<n, f[n - 1]>>]
           Reached(k) == \E f \in [0 .. k -> X] : Part(k, f)
           G == {k \in Nat : k <= N => Reached(k)}
<1>1. 0 \in G
  <2> DEFINE f == [n \in 0 .. 0 |-> a]
  <2>1. f \in [0 .. 0 -> X] /\ f[0] = a
    OBVIOUS
  <2>2. Part(0, f)
    BY <2>1
  <2> QED
    BY <2>1, <2>2
<1>2. ASSUME NEW k \in G PROVE k + 1 \in G
  <2> SUFFICES ASSUME k + 1 <= N PROVE Reached(k + 1)
    <3> HIDE DEF Reached
    <3> QED
      OBVIOUS
  <2>1. k \in Nat /\ k <= N /\ k + 1 \in 1 .. N /\ (k + 1) - 1 = k
    OBVIOUS
  <2>2. PICK f \in [0 .. k -> X] : Part(k, f)
    BY <2>1
  <2> DEFINE z == s[<<k + 1, f[k]>>]
             g == [n \in 0 .. (k + 1) |-> IF n = k + 1 THEN z ELSE f[n]]
  <2>3. f[k] \in X /\ <<k + 1, f[k]>> \in (1 .. N) \X X
    BY <2>1
  <2>4. z \in X
    BY <2>3 DEF StepsOf
  <2>5. \A n \in 0 .. k : g[n] = f[n] /\ f[n] \in X
    BY <2>1
  <2>6. g[k + 1] = z
    BY <2>1
  <2>7. g \in [0 .. (k + 1) -> X]
    <3>1. \A n \in 0 .. (k + 1) : n # k + 1 => n \in 0 .. k
      BY <2>1
    <3> HIDE DEF z
    <3> QED
      BY <2>4, <2>5, <3>1
  <2>8. g[0] = a
    BY <2>1, <2>2, <2>5
  <2>9. ASSUME NEW n \in 1 .. (k + 1) PROVE g[n] = s[<<n, g[n - 1]>>]
    <3>1. CASE n = k + 1
      <4>1. n - 1 = k /\ k \in 0 .. k
        BY <2>1, <3>1
      <4>2. g[n - 1] = f[k]
        BY <2>5, <4>1
      <4> HIDE DEF g
      <4> QED
        BY <2>6, <3>1, <4>2
    <3>2. CASE n # k + 1
      <4>1. n \in 1 .. k /\ n \in 0 .. k /\ n - 1 \in 0 .. k
        BY <2>1, <3>2
      <4>2. g[n] = f[n] /\ g[n - 1] = f[n - 1]
        BY <2>5, <4>1
      <4> HIDE DEF g
      <4> QED
        BY <2>2, <4>1, <4>2
    <3> QED
      BY <3>1, <3>2
  <2> HIDE DEF g
  <2>10. Part(k + 1, g)
    BY <2>8, <2>9
  <2> QED
    BY <2>7, <2>10
<1>3. G \in SUBSET Nat
  OBVIOUS
<1> HIDE DEF G
<1>4. G = Nat
  BY <1>1, <1>2, <1>3, AllNumbers
<1>5. PICK f \in [0 .. N -> X] : Part(N, f)
  <2>1. Reached(N)
    <3> HIDE DEF Reached
    <3> QED
      BY <1>4 DEF G
  <2> QED
    BY <2>1
<1>6. Solution(X, a, N, s, f)
  BY <1>5 DEF Solution
<1> QED
  BY <1>6

\* The image of a finite set.
LEMMA ImageSize ==
  ASSUME NEW S, NEW T, IsFiniteSet(S), NEW f \in [S -> T], \A t \in T : \E s \in S : f[s] = t
  PROVE  IsFiniteSet(T) /\ Cardinality(T) <= Cardinality(S)
<1>1. f \in Surjection(S, T)
  BY DEF Surjection
<1> QED
  BY ONLY <1>1, IsFiniteSet(S), FS_Surjection

LEMMA PairSize ==
  ASSUME NEW a, NEW b
  PROVE  /\ IsFiniteSet({a, b}) /\ Cardinality({a, b}) <= 2
         /\ a # b => Cardinality({a, b}) = 2
<1>1. IsFiniteSet({a}) /\ Cardinality({a}) = 1
  BY FS_Singleton
<1>2. IsFiniteSet({a} \cup {b}) /\ Cardinality({a} \cup {b}) = IF b \in {a} THEN Cardinality({a}) ELSE Cardinality({a}) + 1
  BY <1>1, FS_AddElement
<1>3. {a, b} = {a} \cup {b}
  OBVIOUS
<1>4. b \in {a} <=> a = b
  OBVIOUS
<1> QED
  BY <1>1, <1>2, <1>3, <1>4

\* The numbers of a finite set, in ascending order, each once.
LEMMA AscendingLists ==
  ASSUME NEW S \in SUBSET Int, IsFiniteSet(S)
  PROVE  Ascending(S) \in Bijection(1 .. Cardinality(S), S)
<1> DEFINE n == Cardinality(S)
           below(c) == {e \in S : e < c}
           rank == [c \in S |-> Cardinality(below(c))]
           order == [i \in 1 .. n |-> CHOOSE c \in S : Cardinality(below(c)) = i - 1]
<1>1. n \in Nat
  BY FS_CardinalityType
<1>2. \A c \in S : rank[c] \in 0 .. (n - 1)
  <2> SUFFICES ASSUME NEW c \in S PROVE rank[c] \in 0 .. (n - 1)
    OBVIOUS
  <2>1. below(c) \in SUBSET S
    OBVIOUS
  <2>2. IsFiniteSet(below(c)) /\ Cardinality(below(c)) <= n /\ (n = Cardinality(below(c)) => S = below(c))
    BY <2>1, FS_Subset
  <2>3. c \notin below(c)
    OBVIOUS
  <2>4. Cardinality(below(c)) \in Nat
    BY <2>2, FS_CardinalityType
  <2>5. n # Cardinality(below(c))
    BY <2>2, <2>3
  <2> HIDE DEF below, n
  <2> QED
    BY <1>1, <2>2, <2>4, <2>5
<1>3. ASSUME NEW c \in S, NEW e \in S, c < e PROVE rank[c] < rank[e]
  <2>1. below(c) \in SUBSET below(e)
    <3>1. \A d \in S : d < c => d < e
      BY <1>3
    <3> QED
      BY <3>1
  <2>2. c \in below(e) /\ c \notin below(c)
    BY <1>3
  <2>3. IsFiniteSet(below(e))
    <3>1. below(e) \in SUBSET S
      OBVIOUS
    <3> QED
      BY <3>1, FS_Subset
  <2>4. IsFiniteSet(below(c)) /\ Cardinality(below(c)) <= Cardinality(below(e))
        /\ (Cardinality(below(e)) = Cardinality(below(c)) => below(e) = below(c))
    BY <2>1, <2>3, FS_Subset
  <2>5. Cardinality(below(c)) \in Nat /\ Cardinality(below(e)) \in Nat
    BY <2>3, <2>4, FS_CardinalityType
  <2>6. rank[c] = Cardinality(below(c)) /\ rank[e] = Cardinality(below(e))
    OBVIOUS
  <2> HIDE DEF below, rank
  <2> QED
    BY <2>2, <2>4, <2>5, <2>6
<1>4. \A c, e \in S : rank[c] = rank[e] => c = e
  <2> SUFFICES ASSUME NEW c \in S, NEW e \in S, c # e PROVE rank[c] # rank[e]
    OBVIOUS
  <2>1. c < e \/ e < c
    OBVIOUS
  <2>2. rank[c] \in Int /\ rank[e] \in Int
    BY <1>2
  <2> HIDE DEF rank
  <2> QED
    BY <1>3, <2>1, <2>2
<1>5. \A k \in 0 .. (n - 1) : \E c \in S : rank[c] = k
  <2>1. IsFiniteSet(0 .. (n - 1)) /\ Cardinality(0 .. (n - 1)) = n
    <3>1. \A m \in Nat : IsFiniteSet(0 .. (m - 1)) /\ Cardinality(0 .. (m - 1)) = m
      BY FS_Interval
    <3> HIDE DEF n
    <3> QED
      BY <1>1, <3>1
  <2>2. rank \in Injection(S, 0 .. (n - 1))
    <3>1. rank \in [S -> 0 .. (n - 1)]
      BY <1>2
    <3> HIDE DEF rank
    <3> QED
      BY <1>4, <3>1 DEF Injection, IsInjective
  <2>3. rank \in Surjection(S, 0 .. (n - 1))
    BY <2>1, <2>2, FS_Injection
  <2> HIDE DEF rank, n
  <2> QED
    BY <2>3 DEF Surjection
<1>6. Ascending(S) = order
  BY DEF Ascending
<1>12. \A c \in S : rank[c] = Cardinality(below(c))
  OBVIOUS
<1> HIDE DEF rank, n, below
<1>7. \A i \in 1 .. n : order[i] \in S /\ rank[order[i]] = i - 1
  <2> SUFFICES ASSUME NEW i \in 1 .. n PROVE order[i] \in S /\ rank[order[i]] = i - 1
    OBVIOUS
  <2>1. i - 1 \in 0 .. (n - 1)
    BY <1>1
  <2>2. \E c \in S : Cardinality(below(c)) = i - 1
    BY <1>5, <1>12, <2>1
  <2> QED
    BY <1>12, <2>2
<1>8. order \in [1 .. n -> S]
  BY <1>7
<1>9. \A i, j \in 1 .. n : order[i] = order[j] => i = j
  <2> SUFFICES ASSUME NEW i \in 1 .. n, NEW j \in 1 .. n, order[i] = order[j] PROVE i = j
    OBVIOUS
  <2>1. i - 1 = j - 1
    BY <1>7
  <2> QED
    BY <1>1, <2>1
<1>10. \A c \in S : \E i \in 1 .. n : order[i] = c
  <2> SUFFICES ASSUME NEW c \in S PROVE \E i \in 1 .. n : order[i] = c
    OBVIOUS
  <2> DEFINE i == rank[c] + 1
  <2>1. rank[c] \in 0 .. (n - 1) /\ i \in 1 .. n /\ i - 1 = rank[c]
    BY <1>1, <1>2
  <2>2. order[i] \in S /\ rank[order[i]] = rank[c]
    BY <1>7, <2>1
  <2>3. order[i] = c
    BY <1>4, <2>2
  <2> QED
    BY <2>1, <2>3
<1> HIDE DEF order
<1>11. order \in Bijection(1 .. n, S)
  BY <1>8, <1>9, <1>10 DEF Bijection, Injection, Surjection, IsInjective
<1> QED
  BY <1>6, <1>11 DEF n

LEMMA SetToSeqLists ==
  ASSUME NEW S, IsFiniteSet(S)
  PROVE  SetToSeq(S) \in Seq(S) /\ Discovered(SetToSeq(S)) = S
<1> DEFINE n == Cardinality(S)
           f == SetToSeq(S)
<1>1. n \in Nat /\ ExistsBijection(1 .. n, S)
  BY FS_CardinalityType
<1>2. PICK g : g \in Bijection(1 .. n, S)
  BY <1>1 DEF ExistsBijection
<1>3. g \in [1 .. n -> S] /\ IsInjective(g)
  BY <1>2 DEF Bijection, Injection
<1>4. f \in [1 .. n -> S] /\ IsInjective(f)
  BY <1>3 DEF SetToSeq
<1>5. IsFiniteSet(1 .. n) /\ Cardinality(1 .. n) = n
  <2>1. \A m \in Nat : IsFiniteSet(1 .. m) /\ Cardinality(1 .. m) = m
    BY FS_Interval
  <2> QED
    BY <1>1, <2>1
<1> HIDE DEF f
<1>6. f \in Injection(1 .. n, S)
  BY <1>4 DEF Injection
<1>7. f \in Surjection(1 .. n, S)
  BY ONLY <1>5, <1>6, IsFiniteSet(S), FS_Injection
<1> HIDE DEF n
<1>8. f \in Seq(S) /\ DOMAIN f = 1 .. n
  BY <1>1, <1>4
<1>9. Discovered(f) = S
  BY <1>4, <1>7, <1>8 DEF Discovered, Surjection
<1> QED
  BY <1>8, <1>9 DEF f

-----------------------------------------------------------------------------
\* Greedy grouping keeps every item and the budget.
Projections(K, I) == Seq([key : SUBSET K, items : SUBSET I])

Fits(ps, budget) == \A j \in 1 .. Len(ps) : IsFiniteSet(ps[j].key) /\ Cardinality(ps[j].key) <= budget

LEMMA GroupIs ==
  ASSUME NEW K, NEW I, NEW ps \in Projections(K, I), NEW need \in SUBSET K, NEW item \in I, NEW budget \in Nat,
         IsFiniteSet(need), Cardinality(need) <= budget
  PROVE  /\ Group(ps, need, item, budget) \in Projections(K, I)
         /\ Imposed(Group(ps, need, item, budget)) = Imposed(ps) \cup {item}
         /\ Fits(ps, budget) => Fits(Group(ps, need, item, budget), budget)
<1> DEFINE n == Len(ps)
           R == [key : SUBSET K, items : SUBSET I]
           fits == {i \in DOMAIN ps : Cardinality(ps[i].key \cup need) <= budget}
           new == [key |-> need, items |-> {item}]
           i == Min(fits)
           grown == [key |-> ps[i].key \cup need, items |-> ps[i].items \cup {item}]
           g == Group(ps, need, item, budget)
<1>1. n \in Nat /\ DOMAIN ps = 1 .. n /\ ps \in [1 .. n -> R] /\ \A j \in 1 .. n : ps[j] \in R
  <2>1. ps \in Seq(R)
    BY DEF Projections
  <2> HIDE DEF R, g, i, grown, fits, new
  <2> QED
    BY <2>1
<1>2. CASE fits = {}
  <2>1. g = Append(ps, new)
    BY <1>2 DEF Group
  <2>2. new \in R /\ new.key = need /\ new.items = {item}
    OBVIOUS
  <2>9. ps \in Seq(R)
    BY DEF Projections
  <2> HIDE DEF new, R, g
  <2>3. /\ g \in Seq(R) /\ Len(g) = n + 1 /\ DOMAIN g = 1 .. (n + 1)
        /\ \A j \in 1 .. n : g[j] = ps[j]
        /\ g[n + 1] = new
    BY <1>1, <2>1, <2>2, <2>9
  <2> HIDE DEF n
  <2>4. \A j \in DOMAIN g : j \in 1 .. n \/ j = n + 1
    BY <1>1, <2>3
  <2>5. n + 1 \in DOMAIN g /\ \A j \in 1 .. n : j \in DOMAIN g
    BY <1>1, <2>3
  <2>6. Imposed(g) = Imposed(ps) \cup {item}
    <3>1. ASSUME NEW e \in Imposed(g) PROVE e \in Imposed(ps) \cup {item}
      <4>1. PICK j \in DOMAIN g : e \in g[j].items
        BY DEF Imposed
      <4> QED
        BY <1>1, <2>2, <2>3, <2>4, <4>1 DEF Imposed
    <3>2. ASSUME NEW e \in Imposed(ps) PROVE e \in Imposed(g)
      <4>1. PICK j \in 1 .. n : e \in ps[j].items
        BY <1>1 DEF Imposed
      <4> QED
        BY <2>3, <2>5, <4>1 DEF Imposed
    <3>3. item \in Imposed(g)
      BY <2>2, <2>3, <2>5 DEF Imposed
    <3> QED
      BY <3>1, <3>2, <3>3
  <2>7. ASSUME Fits(ps, budget) PROVE Fits(g, budget)
    <3>1. \A j \in 1 .. n : IsFiniteSet(ps[j].key) /\ Cardinality(ps[j].key) <= budget
      BY <2>7 DEF Fits, n
    <3>2. ASSUME NEW j \in 1 .. Len(g) PROVE IsFiniteSet(g[j].key) /\ Cardinality(g[j].key) <= budget
      <4>1. j \in 1 .. n \/ j = n + 1
        BY <2>3, <2>4
      <4> QED
        BY <2>2, <2>3, <3>1, <4>1
    <3> QED
      BY <3>2 DEF Fits
  <2> QED
    BY <2>3, <2>6, <2>7 DEF Projections, g, R
<1>3. CASE fits # {}
  <2>1. i \in fits
    <3>1. fits \in SUBSET Nat
      BY <1>1
    <3>2. \E k \in fits : \A m \in fits : k <= m
      BY <1>3, <3>1, Least
    <3> QED
      BY <3>2 DEF Min
  <2>2. i \in 1 .. n /\ Cardinality(ps[i].key \cup need) <= budget /\ ps[i] \in R
    BY <1>1, <2>1
  <2>3. g = [ps EXCEPT ![i].key = @ \cup need, ![i].items = @ \cup {item}]
    BY <1>3 DEF Group
  <2> HIDE DEF fits, i
  <2>4. ps[i].key \in SUBSET K /\ ps[i].items \in SUBSET I /\ ps[i] = [key |-> ps[i].key, items |-> ps[i].items]
    BY <2>2
  <2>5. g = [j \in 1 .. n |-> IF j = i THEN grown ELSE ps[j]]
    <3>1. [[ps[i] EXCEPT !.key = @ \cup need] EXCEPT !.items = @ \cup {item}] = grown
      <4>1. /\ \A a, b, d : [[key |-> a, items |-> b] EXCEPT !.key = d] = [key |-> d, items |-> b]
            /\ \A a, b, d : [[key |-> a, items |-> b] EXCEPT !.items = d] = [key |-> a, items |-> d]
        OBVIOUS
      <4> DEFINE e == ps[i]
      <4>2. e = [key |-> e.key, items |-> e.items]
        BY <2>4
      <4> HIDE DEF e
      <4>3. [[e EXCEPT !.key = @ \cup need] EXCEPT !.items = @ \cup {item}]
              = [key |-> e.key \cup need, items |-> e.items \cup {item}]
        <5> DEFINE a == e.key
                   b == e.items
                   k == a \cup need
                   m == b \cup {item}
        <5>1. e = [key |-> a, items |-> b]
          BY <4>2
        <5> HIDE DEF a, b, k, m
        <5>2. [e EXCEPT !.key = k] = [key |-> k, items |-> b]
          BY <4>1, <5>1
        <5>3. [[key |-> k, items |-> b] EXCEPT !.items = m] = [key |-> k, items |-> m]
          BY <4>1
        <5>4. [key |-> k, items |-> b].items = b
          OBVIOUS
        <5> QED
          BY <5>2, <5>3, <5>4 DEF a, b, k, m
      <4> QED
        BY <4>3 DEF e
    <3>2. g = [ps EXCEPT ![i] = [[ps[i] EXCEPT !.key = @ \cup need] EXCEPT !.items = @ \cup {item}]]
      BY <1>1, <2>2, <2>3
    <3> HIDE DEF g, grown, R, n
    <3> QED
      BY <1>1, <2>2, <3>1, <3>2
  <2>6. grown \in R /\ grown.key = ps[i].key \cup need /\ grown.items = ps[i].items \cup {item}
    BY <2>4
  <2> HIDE DEF g, grown, R
  <2>7. g \in [1 .. n -> R] /\ DOMAIN g = 1 .. n /\ g[i] = grown /\ \A j \in 1 .. n : j # i => g[j] = ps[j]
    BY <1>1, <2>2, <2>5, <2>6
  <2>8. g \in Seq(R) /\ Len(g) = n
    BY <1>1, <2>7
  <2> HIDE DEF n
  <2>9. Imposed(g) = Imposed(ps) \cup {item}
    <3>1. ASSUME NEW e \in Imposed(g) PROVE e \in Imposed(ps) \cup {item}
      <4>1. PICK j \in 1 .. n : e \in g[j].items
        BY <2>7 DEF Imposed
      <4>2. CASE j = i
        BY <1>1, <2>2, <2>6, <2>7, <4>1, <4>2 DEF Imposed
      <4>3. CASE j # i
        BY <1>1, <2>7, <4>1, <4>3 DEF Imposed
      <4> QED
        BY <4>2, <4>3
    <3>2. ASSUME NEW e \in Imposed(ps) PROVE e \in Imposed(g)
      <4>1. PICK j \in 1 .. n : e \in ps[j].items
        BY <1>1 DEF Imposed
      <4>2. e \in g[j].items
        BY <2>6, <2>7, <4>1
      <4> QED
        BY <2>7, <4>1, <4>2 DEF Imposed
    <3>3. item \in Imposed(g)
      <4>1. item \in g[i].items
        BY <2>6, <2>7
      <4> QED
        BY <2>2, <2>7, <4>1 DEF Imposed
    <3> QED
      BY <3>1, <3>2, <3>3
  <2>10. ASSUME Fits(ps, budget) PROVE Fits(g, budget)
    <3>1. \A j \in 1 .. n : IsFiniteSet(ps[j].key) /\ Cardinality(ps[j].key) <= budget
      BY <2>10 DEF Fits, n
    <3>2. IsFiniteSet(ps[i].key)
      BY <2>2, <3>1
    <3>3. IsFiniteSet(ps[i].key \cup need)
      BY <3>2, FS_Union
    <3>4. ASSUME NEW j \in 1 .. Len(g) PROVE IsFiniteSet(g[j].key) /\ Cardinality(g[j].key) <= budget
      BY <2>2, <2>6, <2>7, <2>8, <3>1, <3>3, <3>4
    <3> QED
      BY <3>4 DEF Fits
  <2> QED
    BY <2>8, <2>9, <2>10 DEF Projections, g, R
<1> QED
  BY <1>2, <1>3

Maps(S, T) == [S -> T]

LEMMA GroupedIs ==
  ASSUME NEW K, NEW I, NEW items \in Seq(I), NEW needs \in Maps(1 .. Len(items), SUBSET K), NEW budget \in Nat,
         \A n \in 1 .. Len(items) : IsFiniteSet(needs[n]) /\ Cardinality(needs[n]) <= budget
  PROVE  LET g == Grouped(items, needs, budget)
         IN  g \in Projections(K, I) /\ Imposed(g) = Discovered(items) /\ Fits(g, budget)
<1> DEFINE N == Len(items)
           X == Projections(K, I)
           Onto(n, ps) == Group(ps, needs[n], items[n], budget)
           step == [np \in (1 .. N) \X X |-> Onto(np[1], np[2])]
           Def(f) == f = [n \in 0 .. N |-> IF n = 0 THEN <<>> ELSE Group(f[n - 1], needs[n], items[n], budget)]
           g == CHOOSE h : Def(h)
<1>1. N \in Nat /\ items \in [1 .. N -> I]
  OBVIOUS
<1>2. Grouped(items, needs, budget) = g[N]
  BY DEF Grouped
<1>3. \A f : Def(f) <=> f = [n \in 0 .. N |-> IF n = 0 THEN <<>> ELSE Onto(n, f[n - 1])]
  OBVIOUS
<1>4. ASSUME NEW n \in 1 .. N
      PROVE  needs[n] \in SUBSET K /\ items[n] \in I /\ IsFiniteSet(needs[n]) /\ Cardinality(needs[n]) <= budget
  BY <1>1 DEF Maps
<1> HIDE DEF N, Def
<1>5. ASSUME NEW n \in 1 .. N, NEW ps \in X
      PROVE  /\ Onto(n, ps) \in X /\ Imposed(Onto(n, ps)) = Imposed(ps) \cup {items[n]}
             /\ Fits(ps, budget) => Fits(Onto(n, ps), budget)
  BY <1>4, GroupIs
<1>6. <<>> \in X /\ Imposed(<<>>) = {} /\ Fits(<<>>, budget)
  BY DEF Projections, Imposed, Fits
<1> HIDE DEF Onto, X
<1>7. step \in StepsOf(N, X)
  <2>1. \A np \in (1 .. N) \X X : Onto(np[1], np[2]) \in X
    BY <1>5
  <2> QED
    BY <2>1 DEF StepsOf
<1>8. PICK f : Solution(X, <<>>, N, step, f)
  <2> HIDE DEF step
  <2> QED
    BY <1>1, <1>6, <1>7, Recursion DEF N
<1>9. ASSUME NEW n \in 1 .. N PROVE f[n] = Onto(n, f[n - 1])
  <2>1. n - 1 \in 0 .. N
    BY <1>1
  <2>2. f[n - 1] \in X
    BY <1>8, <2>1 DEF Solution
  <2>3. <<n, f[n - 1]>> \in (1 .. N) \X X
    BY <2>2
  <2> QED
    BY <1>8, <2>3 DEF Solution
<1>10. Def(f)
  <2>1. \A n \in 0 .. N : n = 0 \/ n \in 1 .. N
    BY <1>1
  <2>2. f = [n \in 0 .. N |-> f[n]] /\ f[0] = <<>>
    BY <1>8 DEF Solution
  <2> QED
    BY <1>3, <1>9, <2>1, <2>2
<1>11. Def(g)
  BY <1>10
<1> HIDE DEF g
<1>12. g[0] = <<>> /\ \A n \in 1 .. N : g[n] = Onto(n, g[n - 1])
  <2>1. \A n \in 1 .. N : n \in 0 .. N /\ n # 0
    BY <1>1
  <2>2. 0 \in 0 .. N
    BY <1>1
  <2>3. g = [n \in 0 .. N |-> IF n = 0 THEN <<>> ELSE Onto(n, g[n - 1])]
    BY <1>3, <1>11
  <2> QED
    BY <2>1, <2>2, <2>3
<1> DEFINE Good(n) == g[n] \in X /\ Imposed(g[n]) = {items[k] : k \in 1 .. n} /\ Fits(g[n], budget)
           G == {n \in Nat : n <= N => Good(n)}
<1>13. 0 \in G
  <2>1. {items[k] : k \in 1 .. 0} = {}
    OBVIOUS
  <2> QED
    BY <1>6, <1>12, <2>1
<1>14. ASSUME NEW n \in G PROVE n + 1 \in G
  <2> SUFFICES ASSUME n + 1 <= N PROVE Good(n + 1)
    <3> HIDE DEF Good
    <3> QED
      OBVIOUS
  <2>1. n \in Nat /\ n <= N /\ n + 1 \in 1 .. N /\ (n + 1) - 1 = n
    BY <1>1
  <2>2. Good(n)
    <3> HIDE DEF Good
    <3> QED
      BY <2>1
  <2>3. g[n + 1] = Onto(n + 1, g[n])
    BY <1>12, <2>1
  <2>4. \A k : k \in 1 .. (n + 1) <=> k \in 1 .. n \/ k = n + 1
    BY <2>1
  <2>5. {items[k] : k \in 1 .. (n + 1)} = {items[k] : k \in 1 .. n} \cup {items[n + 1]}
    BY <2>4
  <2> QED
    BY <1>5, <2>1, <2>2, <2>3, <2>5
<1>15. G \in SUBSET Nat
  OBVIOUS
<1> HIDE DEF G
<1>16. G = Nat
  BY <1>13, <1>14, <1>15, AllNumbers
<1>17. Good(N)
  <2> HIDE DEF Good
  <2> QED
    BY <1>1, <1>16 DEF G
<1>18. Discovered(items) = {items[k] : k \in 1 .. N}
  BY <1>1 DEF Discovered
<1>19. Grouped(items, needs, budget) \in X /\ Imposed(Grouped(items, needs, budget)) = Discovered(items)
       /\ Fits(Grouped(items, needs, budget), budget)
  BY <1>2, <1>17, <1>18
<1> QED
  BY <1>19 DEF X

\* What two sequences list together.
LEMMA JoinedIs ==
  ASSUME NEW T, NEW a \in Seq(T), NEW b \in Seq(T)
  PROVE  a \o b \in Seq(T) /\ Discovered(a \o b) = Discovered(a) \cup Discovered(b)
<1>2. a \o b \in Seq(T) /\ Len(a \o b) = Len(a) + Len(b) /\ Len(a) \in Nat /\ Len(b) \in Nat
  OBVIOUS
<1>3. DOMAIN a = 1 .. Len(a) /\ DOMAIN b = 1 .. Len(b) /\ DOMAIN (a \o b) = 1 .. (Len(a) + Len(b))
  BY <1>2
<1>4. \A k \in 1 .. Len(a) : k \in DOMAIN (a \o b) /\ (a \o b)[k] = a[k]
  BY <1>2, <1>3
<1>5. \A k \in 1 .. Len(b) : Len(a) + k \in DOMAIN (a \o b) /\ (a \o b)[Len(a) + k] = b[k]
  BY <1>2, <1>3
<1>6. ASSUME NEW k \in DOMAIN (a \o b)
      PROVE  k \in 1 .. Len(a) \/ \E m \in 1 .. Len(b) : k = Len(a) + m
  <2>1. CASE k <= Len(a)
    BY <1>2, <1>3, <2>1
  <2>2. CASE k > Len(a)
    <3>1. k - Len(a) \in 1 .. Len(b) /\ k = Len(a) + (k - Len(a))
      BY <1>2, <1>3, <2>2
    <3> QED
      BY <3>1
  <2> QED
    BY <1>2, <1>3, <2>1, <2>2
<1>7. ASSUME NEW e \in Discovered(a \o b) PROVE e \in Discovered(a) \cup Discovered(b)
  <2>1. PICK k \in DOMAIN (a \o b) : e = (a \o b)[k]
    BY DEF Discovered
  <2> QED
    BY <1>3, <1>4, <1>5, <1>6, <2>1 DEF Discovered
<1>8. ASSUME NEW e \in Discovered(a) PROVE e \in Discovered(a \o b)
  BY <1>3, <1>4 DEF Discovered
<1>9. ASSUME NEW e \in Discovered(b) PROVE e \in Discovered(a \o b)
  <2>1. PICK k \in 1 .. Len(b) : e = b[k]
    BY <1>3 DEF Discovered
  <2>2. Len(a) + k \in DOMAIN (a \o b) /\ (a \o b)[Len(a) + k] = e
    BY <1>5, <2>1
  <2> QED
    BY <2>2 DEF Discovered
<1> QED
  BY <1>2, <1>7, <1>8, <1>9

\* What a sequence of sequences lists.
LEMMA FlattenIs ==
  ASSUME NEW T, NEW seqs \in Seq(Seq(T))
  PROVE  /\ FlattenSeq(seqs) \in Seq(T)
         /\ Discovered(FlattenSeq(seqs)) = UNION {Discovered(seqs[i]) : i \in 1 .. Len(seqs)}
<1> DEFINE N == Len(seqs)
           X == Seq(T)
           step == [np \in (1 .. N) \X X |-> np[2] \o seqs[np[1]]]
           Def(f) == f = [i \in 1 .. N |-> IF i = 1 THEN seqs[i] ELSE f[i - 1] \o seqs[i]]
           g == CHOOSE h : Def(h)
<1>1. N \in Nat /\ seqs \in [1 .. N -> X] /\ \A i \in 1 .. N : seqs[i] \in X
  OBVIOUS
<1>2. CASE N = 0
  <2>1. FlattenSeq(seqs) = seqs
    BY <1>2 DEF FlattenSeq
  <2>2. seqs = <<>>
    BY <1>2
  <2>3. Discovered(<<>>) = {} /\ {Discovered(seqs[i]) : i \in 1 .. 0} = {}
    BY DEF Discovered
  <2> QED
    BY <1>2, <2>1, <2>2, <2>3
<1>3. CASE N # 0
  <2>1. FlattenSeq(seqs) = g[N]
    BY <1>3 DEF FlattenSeq
  <2> HIDE DEF N
  <2>2. step \in StepsOf(N, X)
    <3>1. \A np \in (1 .. N) \X X : np[1] \in 1 .. N /\ np[2] \in X
      OBVIOUS
    <3>2. \A np \in (1 .. N) \X X : np[2] \o seqs[np[1]] \in X
      BY <1>1, <3>1
    <3> HIDE DEF X
    <3> QED
      BY <3>2 DEF StepsOf
  <2>3. <<>> \in X
    OBVIOUS
  <2>4. PICK f : Solution(X, <<>>, N, step, f)
    <3> HIDE DEF step, X
    <3> QED
      BY <1>1, <2>2, <2>3, Recursion
  <2> DEFINE h == [i \in 1 .. N |-> f[i]]
  <2>5. ASSUME NEW i \in 1 .. N PROVE f[i] = f[i - 1] \o seqs[i] /\ f[i - 1] \in X
    <3>1. i - 1 \in 0 .. N
      BY <1>1
    <3>2. f[i - 1] \in X
      BY <2>4, <3>1 DEF Solution
    <3>3. <<i, f[i - 1]>> \in (1 .. N) \X X
      BY <3>2
    <3>4. f[i] = step[<<i, f[i - 1]>>]
      BY <2>4 DEF Solution
    <3> HIDE DEF X
    <3> QED
      BY <3>2, <3>3, <3>4
  <2>6. Def(h)
    <3>1. ASSUME NEW i \in 1 .. N PROVE f[i] = IF i = 1 THEN seqs[i] ELSE h[i - 1] \o seqs[i]
      <4>1. CASE i = 1
        <5>1. f[0] = <<>> /\ seqs[i] \in X
          BY <1>1, <2>4 DEF Solution
        <5>2. <<>> \o seqs[i] = seqs[i]
          BY <5>1
        <5> HIDE DEF h, X, step, Def
        <5>3. f[i] = f[i - 1] \o seqs[i] /\ i - 1 = 0
          <6>1. f[i] = f[i - 1] \o seqs[i]
            BY <2>5
          <6>2. i - 1 = 0
            BY <4>1
          <6> QED
            BY <6>1, <6>2
        <5> QED
          BY <4>1, <5>1, <5>2, <5>3
      <4>2. CASE i # 1
        <5>1. i - 1 \in 1 .. N
          BY <1>1, <4>2
        <5> QED
          BY <2>5, <4>2, <5>1
      <4> QED
        BY <4>1, <4>2
    <3> HIDE DEF h, X
    <3>2. h = [i \in 1 .. N |-> f[i]]
      BY DEF h
    <3> QED
      BY <3>1, <3>2
  <2>7. Def(g)
    <3> HIDE DEF Def, h
    <3> QED
      BY <2>6
  <2> HIDE DEF g
  <2>8. \A i \in 1 .. N : g[i] = IF i = 1 THEN seqs[i] ELSE g[i - 1] \o seqs[i]
    BY <2>7
  <2> DEFINE Listing(i) == UNION {Discovered(seqs[k]) : k \in 1 .. i}
             Good(i) == g[i] \in X /\ Discovered(g[i]) = Listing(i)
             G == {i \in Nat : i + 1 <= N => Good(i + 1)}
  <2>9. 0 \in G
    <3>1. 1 \in 1 .. N /\ 0 + 1 = 1
      BY <1>1, <1>3
    <3>2. g[1] = seqs[1]
      BY <2>8, <3>1
    <3>3. \A k : k \in 1 .. 1 <=> k = 1
      OBVIOUS
    <3>4. Listing(1) = Discovered(seqs[1])
      BY <3>3
    <3> HIDE DEF Listing, X
    <3> QED
      BY <1>1, <3>1, <3>2, <3>4
  <2>10. ASSUME NEW n \in G PROVE n + 1 \in G
    <3> SUFFICES ASSUME (n + 1) + 1 <= N PROVE Good((n + 1) + 1)
      <4> HIDE DEF Good
      <4> QED
        OBVIOUS
    <3> DEFINE i == (n + 1) + 1
    <3>1. n \in Nat /\ n + 1 <= N /\ i \in 1 .. N /\ i # 1 /\ i - 1 = n + 1
      BY <1>1
    <3>2. Good(n + 1)
      <4> HIDE DEF Good
      <4> QED
        BY <3>1
    <3>3. g[i] = g[n + 1] \o seqs[i] /\ seqs[i] \in X
      BY <1>1, <2>8, <3>1
    <3>4. \A k : k \in 1 .. i <=> k \in 1 .. (n + 1) \/ k = i
      BY <3>1
    <3> DEFINE a == g[n + 1]
               b == seqs[i]
    <3>5. Listing(i) = Listing(n + 1) \cup Discovered(b)
      <4> HIDE DEF i
      <4> QED
        BY <3>4
    <3>6. a \in X /\ Discovered(a) = Listing(n + 1)
      BY <3>2
    <3> HIDE DEF Listing, a, b, i, g
    <3>7. Discovered(a \o b) = Discovered(a) \cup Discovered(b) /\ a \o b \in X
      BY <3>3, <3>6, JoinedIs DEF b
    <3>8. g[i] = a \o b
      BY <3>3 DEF a, b
    <3> HIDE DEF X
    <3> QED
      BY <3>5, <3>6, <3>7, <3>8 DEF i
  <2>11. G \in SUBSET Nat
    OBVIOUS
  <2> HIDE DEF G
  <2>12. G = Nat
    BY <2>9, <2>10, <2>11, AllNumbers
  <2>13. Good(N)
    <3>1. N - 1 \in Nat /\ (N - 1) + 1 = N
      BY <1>1, <1>3
    <3> HIDE DEF Good
    <3>2. N - 1 \in G
      BY <2>12, <3>1
    <3>3. (N - 1) + 1 <= N
      BY <1>1, <3>1
    <3>4. Good((N - 1) + 1)
      BY <3>2, <3>3 DEF G
    <3> QED
      BY <3>1, <3>4
  <2> HIDE DEF Good
  <2> QED
    BY <2>1, <2>13 DEF Good, N
<1> QED
  BY <1>2, <1>3

-----------------------------------------------------------------------------
\* Cells as low as the candidate's row, and the equations around them.
Resting(p, c) == Reduced1(c) /\ Reduced1(Above(c)) /\ c.w = spots[p].w

LEMMA PartnerSelf ==
  ASSUME Ready, NEW c, Reduced1(c), NEW i \in Bits
  PROVE  Partner(c, i, i) = c
<1>1. c \in Coordinate /\ c.v \in 0 .. (subtile_count - 1)
  BY LatticeType DEF Ready, Reduced1
<1>2. PartnerStep(i, i) = <<0, 0, 0>>
  <2> DEFINE d == ca_offsets[i]
  <2>1. d[1] \in Int /\ d[2] \in Int /\ d[3] \in Int
    BY OffsetIs
  <2> HIDE DEF d
  <2>2. (-d[1]) + d[1] = 0 /\ (-d[2]) + d[2] = 0 /\ (-d[3]) + d[3] = 0
    BY <2>1
  <2> QED
    BY <2>2 DEF PartnerStep, d
<1>3. Partner(c, i, i) = shift(c, <<0, 0, 0>>)
  BY <1>2, PartnerIs
<1> DEFINE cu == c.u
           cv == c.v
           cw == c.w
           z == Place(0, 0, 0)
<1>4. cu \in Int /\ cv \in Int /\ cw \in Int /\ c = [u |-> cu, v |-> cv, w |-> cw]
  BY <1>1 DEF Coordinate
<1>5. shift(c, <<0, 0, 0>>) = VReduced(Plus(c, z))
  BY <1>1, ShiftAdds DEF Ready
<1>6. z = [u |-> 0, v |-> 0, w |-> 0]
  <2>1. gcd * 0 = 0 /\ w_space * 0 = 0 /\ w_time * 0 = 0 /\ period * 0 = 0 /\ displacement * 0 = 0
    BY Numbers DEF Ready
  <2> QED
    BY <2>1 DEF Place, Point
<1>7. floor_mod(cv, subtile_count) = cv
  BY <1>1, ModuloOwn, ReadyNumbers
<1> HIDE DEF cu, cv, cw, z
<1>8. Plus(c, z) = c
  BY <1>4, <1>6 DEF Plus
<1>9. c.u = cu /\ c.v = cv /\ c.w = cw
  BY <1>4
<1>10. VReduced(c) = c
  BY <1>4, <1>7, <1>9 DEF VReduced
<1> QED
  BY <1>3, <1>5, <1>8, <1>10

LEMMA PartnerLow ==
  ASSUME Ready, NEW p \in 0 .. (subtile_count - 1), NEW c, Resting(p, c), NEW i \in Bits, NEW b \in Bits,
         NEW a \in [x : Int, y : Int, t : Int], ShipCell(a) = ShipCell(to_physical(Above(c)))
  PROVE  LET t == Partner(c, i, b)
         IN  /\ Low(p, t) /\ Reduced1(Above(t))
             /\ ShipCell(PhysicalPlus(PhysicalPlus(a, Negated(ca_offsets[i])), ca_offsets[b])) = ShipCell(to_physical(Above(t)))
<1>1. Reduced1(c) /\ Reduced1(Above(c)) /\ c.w = spots[p].w
  BY DEF Resting
<1>2. long_window \in Int
  <2>1. \E m \in Nat : long_window = subtile_count * (m + 1)
    BY ReadyNumbers
  <2>2. \A m \in Nat : subtile_count * (m + 1) \in Int
    BY ReadyNumbers
  <2> QED
    BY <2>1, <2>2
<1>3. Partner(Above(c), i, b) = Above(Partner(c, i, b))
  BY <1>1, <1>2, PartnerIs DEF Above
<1>4. Low(p, Partner(c, i, b))
  BY <1>1, PartnerIs DEF Low
<1>5. Reduced1(Partner(Above(c), i, b))
  BY <1>1, PartnerIs
<1>6. ShipCell(PhysicalPlus(PhysicalPlus(a, Negated(ca_offsets[i])), ca_offsets[b])) = ShipCell(to_physical(Partner(Above(c), i, b)))
  BY <1>1, PartnerPhysical
<1> QED
  BY <1>3, <1>4, <1>5, <1>6

LEMMA CandidateRests ==
  ASSUME Ready, NEW p \in 0 .. (subtile_count - 1), NEW column \in Int
  PROVE  /\ Resting(p, ReadCell(p, <<0, column>>))
         /\ Physical(p, <<0, column>>) = to_physical(Above(ReadCell(p, <<0, column>>)))
         /\ Physical(p, <<0, column>>) \in [x : Int, y : Int, t : Int]
<1> DEFINE read == <<0, column>>
<1>1. read \in Nat \X Int /\ read[1] = 0 /\ read[2] = column
  OBVIOUS
<1>2. p - 0 = p
  BY ReadyNumbers
<1>3. ReadCell(p, read) = cell(column, p)
  BY <1>1, <1>2 DEF ReadCell
<1> HIDE DEF read
<1>4. /\ Reduced1(ReadCell(p, read)) /\ Reduced1(cell(read[2], StripRow(p) - read[1]))
      /\ Physical(p, read) = to_physical(cell(read[2], StripRow(p) - read[1]))
      /\ cell(read[2], StripRow(p) - read[1]) = Above(ReadCell(p, read))
  BY <1>1, ReadCellIs DEF Above
<1>5. Resting(p, ReadCell(p, read))
  BY <1>3, <1>4, CandidateW DEF Resting
<1>6. to_physical(Above(ReadCell(p, read))) \in [x : Int, y : Int, t : Int]
  BY <1>4, PhysicalPlace
<1> QED
  BY <1>4, <1>5, <1>6 DEF read

LEMMA MirrorRests ==
  ASSUME Ready, NEW p \in 0 .. (subtile_count - 1), NEW c, Resting(p, c), NEW mode \in EdgeMode, Reflecting(mode), NEW edge \in Side
  PROVE  /\ Resting(p, reflect(c, mode, edge, 0))
         /\ ShipCell(PhysicalMirror(to_physical(Above(c)), mode, edge)) = ShipCell(to_physical(Above(reflect(c, mode, edge, 0))))
         /\ PhysicalMirror(to_physical(Above(c)), mode, edge) \in [x : Int, y : Int, t : Int]
<1>1. Reduced1(c) /\ Reduced1(Above(c)) /\ c.w = spots[p].w
  BY DEF Resting
<1>2. long_window \in Int
  <2>1. \E m \in Nat : long_window = subtile_count * (m + 1)
    BY ReadyNumbers
  <2>2. \A m \in Nat : subtile_count * (m + 1) \in Int
    BY ReadyNumbers
  <2> QED
    BY <2>1, <2>2
<1>3. reflect(Above(c), mode, edge, 0) = Above(reflect(c, mode, edge, 0))
  <2>1. c \in Coordinate
    BY <1>1, PhysicalPlace
  <2> QED
    BY <1>2, <2>1, ReflectAbove DEF Above
<1> HIDE DEF Above
<1>4. Reduced1(reflect(c, mode, edge, 0)) /\ reflect(c, mode, edge, 0).w = c.w
  BY <1>1, MirrorPhysical
<1>5. /\ ShipCell(PhysicalMirror(to_physical(Above(c)), mode, edge)) = ShipCell(to_physical(reflect(Above(c), mode, edge, 0)))
      /\ PhysicalMirror(to_physical(Above(c)), mode, edge) \in [x : Int, y : Int, t : Int]
      /\ Reduced1(reflect(Above(c), mode, edge, 0))
  BY <1>1, MirrorPhysical
<1> QED
  BY <1>1, <1>3, <1>4, <1>5 DEF Resting

LEMMA BoardFound ==
  ASSUME NEW p, NEW columns, NEW t
  PROVE  Found(Board(p, columns), t) = {read \in Window(p, columns) : ReadCell(p, read) = t}
<1> DEFINE board == Board(p, columns)
<1>1. ASSUME NEW read \in Found(board, t) PROVE read \in Window(p, columns) /\ ReadCell(p, read) = t
  <2>1. PICK e \in board : e[1] = t /\ e[2] = read
    BY DEF Found
  <2>2. PICK other \in Window(p, columns) : e = <<ReadCell(p, other), other>>
    BY DEF Board
  <2> QED
    BY <2>1, <2>2
<1>2. ASSUME NEW read \in Window(p, columns), ReadCell(p, read) = t PROVE read \in Found(board, t)
  <2> DEFINE e == <<ReadCell(p, read), read>>
  <2>1. e \in board /\ e[1] = t /\ e[2] = read
    BY <1>2 DEF Board
  <2> HIDE DEF e
  <2> QED
    BY <2>1 DEF Found
<1> QED
  BY <1>1, <1>2

LEMMA StripFound ==
  ASSUME NEW p, NEW columns, NEW k
  PROVE  LET board == {<<ShipCell(Physical(p, read)), read>> : read \in Strip(p, columns)}
         IN  Found(board, k) = {read \in Strip(p, columns) : ShipCell(Physical(p, read)) = k}
<1> DEFINE board == {<<ShipCell(Physical(p, read)), read>> : read \in Strip(p, columns)}
<1>1. ASSUME NEW read \in Found(board, k) PROVE read \in Strip(p, columns) /\ ShipCell(Physical(p, read)) = k
  <2>1. PICK e \in board : e[1] = k /\ e[2] = read
    BY DEF Found
  <2>2. PICK other \in Strip(p, columns) : e = <<ShipCell(Physical(p, other)), other>>
    OBVIOUS
  <2> QED
    BY <2>1, <2>2
<1>2. ASSUME NEW read \in Strip(p, columns), ShipCell(Physical(p, read)) = k PROVE read \in Found(board, k)
  <2> DEFINE e == <<ShipCell(Physical(p, read)), read>>
  <2>1. e \in board /\ e[1] = k /\ e[2] = read
    BY <1>2
  <2> HIDE DEF e, board
  <2> QED
    BY <2>1 DEF Found
<1> QED
  BY <1>1, <1>2

\* The items of a set of centres, in their order.
LEMMA ListedInOrder ==
  ASSUME NEW S \in SUBSET Coordinate, IsFiniteSet(S), NEW T, NEW f \in Maps(S, T)
  PROVE  LET items == [i \in DOMAIN InOrder(S) |-> f[InOrder(S)[i]]]
         IN  items \in Seq(T) /\ Discovered(items) = {f[c] : c \in S}
<1> DEFINE n == Cardinality(S)
           order == InOrder(S)
           items == [i \in DOMAIN order |-> f[order[i]]]
<1>1. n \in Nat
  BY FS_CardinalityType
<1>2. order \in Bijection(1 .. n, S)
  BY InOrderLists
<1> HIDE DEF n, order
<1>3. order \in [1 .. n -> S] /\ \A c \in S : \E i \in 1 .. n : order[i] = c
  BY <1>2 DEF Bijection, Injection, Surjection
<1>4. DOMAIN order = 1 .. n /\ \A i \in 1 .. n : order[i] \in S
  BY <1>3
<1>5. \A c \in S : f[c] \in T
  BY DEF Maps
<1>6. items \in [1 .. n -> T] /\ \A i \in 1 .. n : items[i] = f[order[i]]
  BY <1>4, <1>5
<1> HIDE DEF items
<1>7. items \in Seq(T) /\ DOMAIN items = 1 .. n
  BY <1>1, <1>6
<1>8. Discovered(items) = {f[c] : c \in S}
  BY <1>3, <1>4, <1>6, <1>7 DEF Discovered
<1> QED
  BY <1>7, <1>8 DEF items, order

-----------------------------------------------------------------------------
\* The cells of an equation lie in at most six rows, one of them its candidate's.
Class(b) ==
  IF ca_offsets[b][3] = 1 THEN 3
  ELSE IF diagonal THEN ca_offsets[b][1] + ca_offsets[b][2] ELSE ca_offsets[b][2]

LEMMA SameClass ==
  ASSUME Ready, NEW c \in Coordinate, NEW b \in Bits, NEW e \in Bits, Class(b) = Class(e),
         NEW i \in Int, NEW depth \in Int, NEW j \in Int, NEW other \in Int,
         cell(i, depth) = shift(c, ca_offsets[b]), cell(j, other) = shift(c, ca_offsets[e])
  PROVE  depth = other
<1>1. PICK dx \in -1 .. 1, dy \in -1 .. 1, dt \in 0 .. 1 :
         /\ ca_offsets[b] = <<dx, dy, dt>> /\ (dt = 1 => dx = 0 /\ dy = 0)
         /\ dx = ca_offsets[b][1] /\ dy = ca_offsets[b][2] /\ dt = ca_offsets[b][3]
  BY OffsetIs
<1>2. PICK ex \in -1 .. 1, ey \in -1 .. 1, et \in 0 .. 1 :
         /\ ca_offsets[e] = <<ex, ey, et>> /\ (et = 1 => ex = 0 /\ ey = 0)
         /\ ex = ca_offsets[e][1] /\ ey = ca_offsets[e][2] /\ et = ca_offsets[e][3]
  BY OffsetIs
<1> DEFINE k == ex - dx
           S == subtile_count
           g == gcd
           d1 == shift(c, <<dx, dy, dt>>)
           d2 == shift(c, <<ex, ey, et>>)
<1>3. et = dt /\ (diagonal => ex + ey = dx + dy) /\ (~diagonal => ey = dy)
  BY <1>1, <1>2 DEF Class
<1>4. k \in Int /\ S \in Nat \ {0} /\ g \in Nat \ {0} /\ (diagonal => S = 2 * g) /\ c.u \in Int
      /\ S = Scale * g
  BY Numbers DEF Ready, Scale, Coordinate
<1>5. d2.v = d1.v /\ d2.w = d1.w /\ d2.u = d1.u + (S * k)
  <2>1. CASE diagonal
    <3>1. d1.u = c.u + g * (dx - dy) /\ d2.u = c.u + g * (ex - ey)
      BY <2>1 DEF shift
    <3>2. ex - ey = (dx - dy) + (2 * k)
      BY <1>3, <2>1
    <3>3. g * (ex - ey) = (g * (dx - dy)) + (S * k)
      <4> DEFINE a == dx - dy
      <4>1. a \in Int
        OBVIOUS
      <4> HIDE DEF a, k, g, S
      <4>2. g * (a + (2 * k)) = (g * a) + (S * k)
        BY <1>4, <2>1, <4>1
      <4> QED
        BY <3>2, <4>2 DEF a
    <3>4. d2.u = d1.u + (S * k)
      <4> DEFINE a == g * (dx - dy)
                 z == S * k
                 h == c.u
      <4>1. a \in Int /\ z \in Int /\ h \in Int
        BY <1>4
      <4>2. d1.u = h + a /\ d2.u = h + (a + z)
        BY <3>1, <3>3
      <4> HIDE DEF a, z, h, d1, d2
      <4>3. d2.u = d1.u + z
        BY <4>1, <4>2
      <4> QED
        BY <4>3 DEF z
    <3>5. d2.v = d1.v /\ d2.w = d1.w
      BY <1>3, <2>1 DEF shift
    <3> QED
      BY <3>4, <3>5
  <2>2. CASE ~diagonal
    <3>1. d1.u = c.u + S * dx /\ d2.u = c.u + S * ex
      BY <2>2 DEF shift
    <3>2. S * ex = (S * dx) + (S * k)
      <4> HIDE DEF S
      <4> QED
        BY <1>4
    <3>3. d2.u = d1.u + (S * k)
      <4> DEFINE a == S * dx
                 z == S * k
                 h == c.u
      <4>1. a \in Int /\ z \in Int /\ h \in Int
        BY <1>4
      <4>2. d1.u = h + a /\ d2.u = h + (a + z)
        BY <3>1, <3>2
      <4> HIDE DEF a, z, h, d1, d2
      <4>3. d2.u = d1.u + z
        BY <4>1, <4>2
      <4> QED
        BY <4>3 DEF z
    <3>4. d2.v = d1.v /\ d2.w = d1.w
      BY <1>3, <2>2 DEF shift
    <3> QED
      BY <3>3, <3>4
  <2> QED
    BY <2>1, <2>2 DEF Ready
<1>6. cell(i, depth) = d1 /\ cell(j, other) = d2
  BY <1>1, <1>2
<1> HIDE DEF d1, d2, k, S
<1>7. d1 \in Coordinate /\ d2 \in Coordinate
  BY <1>6, CellLattice DEF Ready
<1>8. d2 = Moved(d1, S * k, 0, 0)
  <2> DEFINE z == S * k
             h == d1.u
             q == d1.v
             n == d1.w
  <2>1. z \in Int /\ h \in Int /\ q \in Int /\ n \in Int /\ d2 = [u |-> d2.u, v |-> d2.v, w |-> d2.w]
    BY <1>4, <1>7 DEF Coordinate
  <2>2. d2 = [u |-> h + z, v |-> q, w |-> n]
    BY <1>5, <2>1
  <2>3. Moved(d1, z, 0, 0) = [u |-> h + z, v |-> q + 0, w |-> n + 0]
    BY DEF Moved
  <2> HIDE DEF z, h, q, n
  <2>4. q + 0 = q /\ n + 0 = n
    BY <2>1
  <2>5. d2 = Moved(d1, z, 0, 0)
    BY <2>2, <2>3, <2>4
  <2> QED
    BY <2>5 DEF z
<1>9. d2 = cell(i + k, depth)
  <2> DEFINE q == floor_mod(depth, S)
             n == floor_div(depth, S)
             a == spots[q]
             h == S * n
             m == i + k
  <2>0. i + k \in Int
    BY <1>4
  <2>1. n \in Int /\ a \in Reduced /\ cell(i, depth) = Moved(a, S * i, 0, h) /\ cell(m, depth) = Moved(a, S * m, 0, h)
    BY <2>0, CellMoves DEF Ready, S
  <2>2. a \in Coordinate
    BY <2>1, LatticeType DEF Reduced, Ready
  <2>3. S * m = (S * i) + (S * k) /\ S * i \in Int /\ S * k \in Int /\ h \in Int
    <3> HIDE DEF n
    <3> QED
      BY <1>4, <2>1
  <2> HIDE DEF a, h, m
  <2> DEFINE au == a.u
             av == a.v
             aw == a.w
             f == S * i
             z == S * k
  <2>4. au \in Int /\ av \in Int /\ aw \in Int
    BY <2>2 DEF Coordinate
  <2>5. Moved(Moved(a, f, 0, h), z, 0, 0) = [u |-> (au + f) + z, v |-> (av + 0) + 0, w |-> (aw + h) + 0]
        /\ Moved(a, f + z, 0, h) = [u |-> au + (f + z), v |-> av + 0, w |-> aw + h]
    BY DEF Moved
  <2>6. f \in Int /\ z \in Int /\ h \in Int /\ S * m = f + z
    BY <2>3
  <2> HIDE DEF au, av, aw, f, z
  <2>7. (au + f) + z = au + (f + z) /\ (av + 0) + 0 = av + 0 /\ (aw + h) + 0 = aw + h
    BY <2>4, <2>6
  <2>8. d1 = Moved(a, f, 0, h) /\ d2 = Moved(d1, z, 0, 0) /\ cell(m, depth) = Moved(a, f + z, 0, h)
    BY <1>6, <1>8, <2>1, <2>6 DEF f, z
  <2> QED
    BY <2>5, <2>7, <2>8 DEF m
<1>10. i + k \in Int /\ cell(i + k, depth) = cell(j, other)
  BY <1>4, <1>6, <1>9
<1> QED
  BY <1>10, CellOnce DEF Ready

-----------------------------------------------------------------------------
\* The interior, a phase at a time.
LEMMA WindowFinite ==
  ASSUME Ready, NEW p \in 0 .. (subtile_count - 1), NEW columns, IsFiniteSet(columns)
  PROVE  IsFiniteSet(Window(p, columns))
<1>1. history_window(p) \in Nat
  BY ReadyNumbers DEF history_window
<1>2. \A n \in Nat : IsFiniteSet(0 .. n)
  BY FS_Interval
<1>3. IsFiniteSet(0 .. history_window(p))
  BY <1>1, <1>2
<1> QED
  BY <1>3, FS_Product DEF Window

\* The three columns name no cell twice.
LEMMA ReadOnce ==
  ASSUME Ready, NEW p \in 0 .. (subtile_count - 1), NEW a \in Nat \X Int, NEW b \in Nat \X Int, ReadCell(p, a) = ReadCell(p, b)
  PROVE  a = b
<1> DEFINE i == a[2]
           j == b[2]
           d == p - a[1]
           e == p - b[1]
<1>1. i \in Int /\ j \in Int /\ a[1] \in Nat /\ b[1] \in Nat /\ a = <<a[1], a[2]>> /\ b = <<b[1], b[2]>> /\ p \in Int
  BY ReadyNumbers
<1>2. d \in Int /\ e \in Int
  BY <1>1
<1>3. cell(i, d) = cell(j, e)
  BY DEF ReadCell
<1>5. a[1] = p - d /\ b[1] = p - e
  BY <1>1
<1> HIDE DEF i, j, d, e
<1>4. i = j /\ d = e
  BY <1>1, <1>2, <1>3, CellOnce DEF Ready
<1> QED
  BY <1>1, <1>4, <1>5 DEF i, j

LEMMA NeverAliased == ASSUME Ready, NEW p \in 0 .. (subtile_count - 1) PROVE ~Aliased(p)
<1> DEFINE window == Window(p, 0 .. 2)
           cells == Cells(Board(p, 0 .. 2))
           f == [read \in window |-> ReadCell(p, read)]
<1>1. 0 .. 2 \in SUBSET Int /\ IsFiniteSet(0 .. 2)
  <2>1. 0 \in Int /\ 2 \in Int
    OBVIOUS
  <2>2. IsFiniteSet(0 .. 2)
    BY ONLY <2>1, FS_Interval
  <2> QED
    BY <2>2
<1>2. IsFiniteSet(window)
  BY <1>1, WindowFinite
<1>3. \A read \in window : read \in Nat \X Int
  BY <1>1, StripWindow
<1>4. ASSUME NEW read \in window PROVE ReadCell(p, read) \in cells
  <2> DEFINE e == <<ReadCell(p, read), read>>
  <2>1. e \in Board(p, 0 .. 2) /\ e[1] = ReadCell(p, read)
    BY DEF Board
  <2> HIDE DEF e
  <2> QED
    BY <2>1 DEF Cells
<1>5. ASSUME NEW c \in cells PROVE \E read \in window : ReadCell(p, read) = c
  <2>1. PICK e \in Board(p, 0 .. 2) : e[1] = c
    BY DEF Cells
  <2>2. PICK read \in window : e = <<ReadCell(p, read), read>>
    BY DEF Board
  <2> QED
    BY <2>1, <2>2
<1> HIDE DEF window, cells
<1>6. f \in [window -> cells]
  BY <1>4
<1>7. \A a, b \in window : f[a] = f[b] => a = b
  BY <1>3, ReadOnce
<1>8. \A c \in cells : \E read \in window : f[read] = c
  BY <1>5
<1> HIDE DEF f
<1>9. f \in Bijection(window, cells)
  BY <1>6, <1>7, <1>8 DEF Bijection, Injection, Surjection, IsInjective
<1>10. ExistsBijection(window, cells)
  BY <1>9 DEF ExistsBijection
<1>11. Cardinality(cells) = Cardinality(window)
  BY ONLY <1>2, <1>10, FS_Bijection
<1> QED
  BY <1>11 DEF Aliased, cells, window

LEMMA FewRows ==
  ASSUME Ready, NEW p \in 0 .. (subtile_count - 1), NEW c \in Coordinate, Touches(Equation(Board(p, 0 .. 2), c))
  PROVE  LET rows == Rows(Equation(Board(p, 0 .. 2), c))
         IN  rows \subseteq 1 .. history_window(p) /\ IsFiniteSet(rows) /\ Cardinality(rows) <= 5
<1> DEFINE q == Equation(Board(p, 0 .. 2), c)
           rows == Rows(q)
           W == Window(p, 0 .. 2)
<1>1. DOMAIN q = Bits /\ \A b \in Bits : q[b] = {read \in W : ReadCell(p, read) = shift(c, ca_offsets[b])}
  BY BoardFound DEF Equation
<1>2. \A read \in W : /\ read[1] \in 0 .. history_window(p) /\ read[1] \in Nat /\ read[2] \in Int
                      /\ history_window(p) \in Nat
  <2>1. 0 .. 2 \in SUBSET Int
    OBVIOUS
  <2>2. \A read \in W : read[1] \in 0 .. history_window(p) /\ read[2] \in 0 .. 2
    BY <2>1, StripWindow
  <2> QED
    BY <2>1, <2>2, StripWindow
<1> HIDE DEF q, W
<1>3. PICK read0 \in Reads(q) : IsCandidate(read0)
  BY DEF Touches, q
<1>4. PICK b0 \in Bits : read0 \in q[b0]
  BY <1>1 DEF Reads
<1>5. ASSUME NEW n \in rows
      PROVE  \E b \in Bits, read \in W : read \in q[b] /\ read[1] = n /\ n # 0
  <2>1. PICK read \in Reads(q) : read[1] = n /\ ~IsCandidate(read)
    BY DEF Rows, History
  <2>2. PICK b \in Bits : read \in q[b]
    BY <1>1, <2>1 DEF Reads
  <2> QED
    BY <1>1, <2>1, <2>2 DEF IsCandidate
<1>6. rows \subseteq 1 .. history_window(p)
  <2> SUFFICES ASSUME NEW n \in rows PROVE n \in 1 .. history_window(p)
    OBVIOUS
  <2>1. n \in 0 .. history_window(p) /\ n # 0 /\ history_window(p) \in Nat
    BY <1>2, <1>5
  <2> QED
    BY <2>1
<1>7. ASSUME NEW b \in Bits, NEW e \in Bits, Class(b) = Class(e), NEW read \in q[b], NEW other \in q[e]
      PROVE  read[1] = other[1]
  <2> DEFINE i == read[2]
             j == other[2]
             d == p - read[1]
             h == p - other[1]
  <2>1. read \in W /\ other \in W /\ ReadCell(p, read) = shift(c, ca_offsets[b]) /\ ReadCell(p, other) = shift(c, ca_offsets[e])
    BY <1>1
  <2>2. i \in Int /\ j \in Int /\ read[1] \in Nat /\ other[1] \in Nat /\ p \in Int
    BY <1>2, <2>1, ReadyNumbers
  <2>3. d \in Int /\ h \in Int /\ read[1] = p - d /\ other[1] = p - h
    BY <2>2
  <2>4. cell(i, d) = shift(c, ca_offsets[b]) /\ cell(j, h) = shift(c, ca_offsets[e])
    BY <2>1 DEF ReadCell
  <2> HIDE DEF i, j, d, h
  <2>5. d = h
    BY <1>7, <2>2, <2>3, <2>4, SameClass
  <2> QED
    BY <2>3, <2>5
<1>8. \A b \in Bits : Class(b) \in -2 .. 3
  BY OffsetIs DEF Class
<1> DEFINE classes == (-2 .. 3) \ {Class(b0)}
           Of(n) == CHOOSE k \in classes : \E b \in Bits, read \in W : read \in q[b] /\ read[1] = n /\ Class(b) = k
           f == [n \in rows |-> Of(n)]
<1>9. ASSUME NEW n \in rows
      PROVE  f[n] \in classes /\ \E b \in Bits, read \in W : read \in q[b] /\ read[1] = n /\ Class(b) = f[n]
  <2>1. PICK b \in Bits, read \in W : read \in q[b] /\ read[1] = n /\ n # 0
    BY <1>5
  <2>2. Class(b) # Class(b0)
    <3>1. read0[1] = 0
      BY <1>3 DEF IsCandidate
    <3> QED
      BY <1>4, <1>7, <2>1, <3>1
  <2>3. Class(b) \in classes
    BY <1>8, <2>2
  <2> HIDE DEF classes
  <2>4. \E k \in classes : \E b1 \in Bits, read1 \in W : read1 \in q[b1] /\ read1[1] = n /\ Class(b1) = k
    BY <2>1, <2>3
  <2> QED
    BY <2>4
<1>10. IsFiniteSet(classes) /\ Cardinality(classes) = 5
  <2>1. -2 \in Int /\ 3 \in Int
    OBVIOUS
  <2>2. IsFiniteSet(-2 .. 3) /\ Cardinality(-2 .. 3) = IF -2 > 3 THEN 0 ELSE (3 - (-2)) + 1
    BY ONLY <2>1, FS_Interval
  <2>3. Cardinality(-2 .. 3) = 6
    BY <2>2
  <2>4. Class(b0) \in -2 .. 3
    BY <1>8
  <2>5. IsFiniteSet(classes)
        /\ Cardinality(classes) = IF Class(b0) \in -2 .. 3 THEN Cardinality(-2 .. 3) - 1 ELSE Cardinality(-2 .. 3)
    BY ONLY <2>2, FS_RemoveElement
  <2> QED
    BY <2>3, <2>4, <2>5
<1> HIDE DEF classes, f, rows
<1>11. f \in Injection(rows, classes)
  <2>1. f \in [rows -> classes]
    BY <1>9 DEF f
  <2>2. ASSUME NEW n \in rows, NEW m \in rows, f[n] = f[m] PROVE n = m
    <3>1. PICK b \in Bits, read \in W : read \in q[b] /\ read[1] = n /\ Class(b) = f[n]
      BY <1>9
    <3>2. PICK e \in Bits, other \in W : other \in q[e] /\ other[1] = m /\ Class(e) = f[m]
      BY <1>9
    <3> QED
      BY <1>7, <2>2, <3>1, <3>2
  <2> QED
    BY <2>1, <2>2 DEF Injection, IsInjective
<1>12. IsFiniteSet(rows) /\ Cardinality(rows) <= Cardinality(classes)
  BY ONLY <1>10, <1>11, FS_Injection
<1> QED
  BY <1>6, <1>10, <1>12 DEF rows, q

LEMMA BitsFinite == IsFiniteSet(Bits) /\ Cardinality(Bits) = 10
<1>1. 1 \in Int /\ 10 \in Int
  OBVIOUS
<1>2. IsFiniteSet(1 .. 10) /\ Cardinality(1 .. 10) = IF 1 > 10 THEN 0 ELSE (10 - 1) + 1
  BY ONLY <1>1, FS_Interval
<1> QED
  BY <1>2, OffsetIs

LEMMA CentersFinite ==
  ASSUME NEW cells, IsFiniteSet(cells), \A c \in cells : Reduced1(c), Ready
  PROVE  IsFiniteSet(CentersOf(cells)) /\ CentersOf(cells) \subseteq Coordinate
<1> DEFINE names == cells \X Bits
           f == [n \in names |-> shift(n[1], Negated(ca_offsets[n[2]]))]
<1>1. IsFiniteSet(names)
  BY BitsFinite, FS_Product
<1>2. ASSUME NEW n \in names PROVE f[n] \in CentersOf(cells)
  <2>1. n[1] \in cells /\ n[2] \in Bits
    OBVIOUS
  <2> QED
    BY <2>1 DEF CentersOf
<1>3. ASSUME NEW c \in CentersOf(cells)
      PROVE  c \in Coordinate /\ \E n \in names : f[n] = c
  <2>1. PICK d \in cells, i \in Bits : c = shift(d, Negated(ca_offsets[i]))
    BY DEF CentersOf
  <2>2. Reduced1(d)
    OBVIOUS
  <2>3. Reduced1(c)
    BY <2>1, <2>2, PartnerIs
  <2>4. c \in Coordinate
    BY <2>3, PhysicalPlace
  <2>5. <<d, i>> \in names /\ f[<<d, i>>] = c
    BY <2>1
  <2> HIDE DEF names, f
  <2> QED
    BY <2>4, <2>5
<1>4. f \in [names -> CentersOf(cells)]
  BY <1>2
<1> HIDE DEF names, f
<1>5. IsFiniteSet(CentersOf(cells))
  BY <1>1, <1>3, <1>4, ImageSize
<1> QED
  BY <1>3, <1>5

\* The equation around a resting cell: what the window says is what the strip says.
LEMMA InteriorSame ==
  ASSUME Ready, NEW p \in 0 .. (subtile_count - 1), NEW column \in 0 .. 2, NEW i \in Bits
  PROVE  LET strip == {<<ShipCell(Physical(p, read)), read>> : read \in Strip(p, 0 .. 2)}
             c == shift(ReadCell(p, <<0, column>>), Negated(ca_offsets[i]))
             a == PhysicalPlus(Physical(p, <<0, column>>), Negated(ca_offsets[i]))
         IN  /\ Equation(Board(p, 0 .. 2), c) = [b \in Bits |-> Found(strip, ShipCell(PhysicalPlus(a, ca_offsets[b])))]
             /\ Equation(Board(p, 0 .. 2), c) \in [Bits -> SUBSET Window(p, 0 .. 2)]
             /\ Touches(Equation(Board(p, 0 .. 2), c))
<1> DEFINE strip == {<<ShipCell(Physical(p, read)), read>> : read \in Strip(p, 0 .. 2)}
           board == Board(p, 0 .. 2)
           d == ReadCell(p, <<0, column>>)
           h == Physical(p, <<0, column>>)
           c == shift(d, Negated(ca_offsets[i]))
           a == PhysicalPlus(h, Negated(ca_offsets[i]))
<1>1. 0 .. 2 \in SUBSET Int /\ column \in Int
  OBVIOUS
<1>2. Resting(p, d) /\ h = to_physical(Above(d)) /\ h \in [x : Int, y : Int, t : Int]
  BY <1>1, CandidateRests
<1>3. ASSUME NEW b \in Bits
      PROVE  /\ Found(board, shift(c, ca_offsets[b])) = Found(strip, ShipCell(PhysicalPlus(a, ca_offsets[b])))
             /\ Found(board, shift(c, ca_offsets[b])) \subseteq Window(p, 0 .. 2)
  <2> DEFINE t == Partner(d, i, b)
             k == ShipCell(PhysicalPlus(a, ca_offsets[b]))
  <2>1. shift(c, ca_offsets[b]) = t
    BY DEF Partner
  <2>2. Low(p, t) /\ Reduced1(Above(t)) /\ k = ShipCell(to_physical(Above(t)))
    <3> HIDE DEF h, d
    <3> QED
      BY <1>2, PartnerLow
  <2> HIDE DEF t, k, d, h
  <2>3. {read \in Strip(p, 0 .. 2) : ShipCell(Physical(p, read)) = k} = {read \in Window(p, 0 .. 2) : ReadCell(p, read) = t}
    BY <1>1, <2>2, SamePlain
  <2>4. Found(board, t) = {read \in Window(p, 0 .. 2) : ReadCell(p, read) = t}
    BY BoardFound
  <2>5. Found(strip, k) = {read \in Strip(p, 0 .. 2) : ShipCell(Physical(p, read)) = k}
    BY StripFound
  <2> HIDE DEF board, strip, c
  <2> QED
    BY <2>1, <2>3, <2>4, <2>5 DEF k
<1>4. <<0, column>> \in Found(board, shift(c, ca_offsets[i]))
  <2>1. shift(c, ca_offsets[i]) = d
    <3>1. Partner(d, i, i) = d
      BY <1>2, PartnerSelf DEF Resting
    <3> QED
      BY <3>1 DEF Partner
  <2>2. <<0, column>> \in Window(p, 0 .. 2)
    <3>1. 0 \in 0 .. history_window(p)
      BY ReadyNumbers DEF history_window
    <3> QED
      BY <3>1 DEF Window
  <2>3. Found(board, d) = {read \in Window(p, 0 .. 2) : ReadCell(p, read) = d}
    BY BoardFound
  <2> QED
    BY <2>1, <2>2, <2>3
<1> HIDE DEF c, a, board, strip, d, h
<1>5. Equation(board, c) = [b \in Bits |-> Found(board, shift(c, ca_offsets[b]))]
  BY DEF Equation
<1>6. Equation(board, c) = [b \in Bits |-> Found(strip, ShipCell(PhysicalPlus(a, ca_offsets[b])))]
  BY <1>3, <1>5
<1>7. Equation(board, c) \in [Bits -> SUBSET Window(p, 0 .. 2)]
  BY <1>3, <1>5
<1>8. Touches(Equation(board, c))
  <2>1. <<0, column>> \in Equation(board, c)[i] /\ DOMAIN Equation(board, c) = Bits /\ IsCandidate(<<0, column>>)
    BY <1>4, <1>5 DEF IsCandidate
  <2> QED
    BY <2>1 DEF Touches, Reads
<1> QED
  BY <1>6, <1>7, <1>8 DEF c, a, board, strip, d, h

Entries(p) == [Bits -> SUBSET Window(p, 0 .. 2)]

InteriorStrip(p) == {<<ShipCell(Physical(p, read)), read>> : read \in Strip(p, 0 .. 2)}
InteriorNew(p) == {Physical(p, <<0, column>>) : column \in 0 .. 2}

InteriorRight(p, ps) ==
  /\ ps \in Projections(1 .. history_window(p), Entries(p)) /\ Fits(ps, maximum_projection_history_rows)
  /\ \A board, touched : board = InteriorStrip(p) /\ touched = InteriorNew(p) =>
       Imposed(ps) = PhysicalEquations(board, touched)

LEMMA InteriorFor ==
  ASSUME Ready, NEW p \in 0 .. (subtile_count - 1)
  PROVE  InteriorRight(p, InteriorProjections(p))
<1> DEFINE strip == {<<ShipCell(Physical(p, read)), read>> : read \in Strip(p, 0 .. 2)}
           board == Board(p, 0 .. 2)
           cells == {ReadCell(p, <<0, column>>) : column \in 0 .. 2}
           kept == {c \in CentersOf(cells) : Touches(Equation(board, c))}
           eq == [c \in kept |-> Equation(board, c)]
           items == [i \in DOMAIN InOrder(kept) |-> eq[InOrder(kept)[i]]]
           needs == [i \in DOMAIN items |-> Rows(items[i])]
           a(column, i) == PhysicalPlus(Physical(p, <<0, column>>), Negated(ca_offsets[i]))
           Item(e) == [b \in Bits |-> Found(strip, ShipCell(PhysicalPlus(e, ca_offsets[b])))]
           Eq(column, i) == Item(a(column, i))
<1>1. ASSUME NEW c \in CentersOf(cells)
      PROVE  \E column \in 0 .. 2, i \in Bits : c = shift(ReadCell(p, <<0, column>>), Negated(ca_offsets[i]))
  BY DEF CentersOf
<1>2. ASSUME NEW column \in 0 .. 2, NEW i \in Bits
      PROVE  LET c == shift(ReadCell(p, <<0, column>>), Negated(ca_offsets[i]))
             IN  c \in kept /\ Equation(board, c) = Eq(column, i) /\ Equation(board, c) \in Entries(p)
  <2> DEFINE c == shift(ReadCell(p, <<0, column>>), Negated(ca_offsets[i]))
  <2>1. /\ Equation(board, c) = Eq(column, i) /\ Equation(board, c) \in [Bits -> SUBSET Window(p, 0 .. 2)]
        /\ Touches(Equation(board, c))
    BY InteriorSame
  <2>2. c \in CentersOf(cells)
    <3>1. ReadCell(p, <<0, column>>) \in cells
      OBVIOUS
    <3> HIDE DEF cells
    <3> QED
      BY <3>1 DEF CentersOf
  <2> HIDE DEF c, Eq, board, cells
  <2>3. c \in kept
    BY <2>1, <2>2
  <2> HIDE DEF kept
  <2> QED
    BY <2>1, <2>3 DEF c, Entries
<1>3. IsFiniteSet(cells) /\ \A c \in cells : Reduced1(c)
  <2> DEFINE f == [column \in 0 .. 2 |-> ReadCell(p, <<0, column>>)]
  <2>1. IsFiniteSet(0 .. 2)
    <3>1. 0 \in Int /\ 2 \in Int
      OBVIOUS
    <3> QED
      BY ONLY <3>1, FS_Interval
  <2>2. f \in [0 .. 2 -> cells] /\ \A c \in cells : \E column \in 0 .. 2 : f[column] = c
    OBVIOUS
  <2>3. ASSUME NEW column \in 0 .. 2 PROVE Reduced1(ReadCell(p, <<0, column>>))
    <3>1. column \in Int
      OBVIOUS
    <3> QED
      BY <3>1, CandidateRests DEF Resting
  <2>4. \A c \in cells : Reduced1(c)
    BY <2>3
  <2> HIDE DEF cells, f
  <2> QED
    BY <2>1, <2>2, <2>4, ImageSize
<1>4. IsFiniteSet(CentersOf(cells)) /\ CentersOf(cells) \subseteq Coordinate
  <2> HIDE DEF cells
  <2> QED
    BY <1>3, CentersFinite
<1> HIDE DEF cells, board, Eq
<1>5. IsFiniteSet(kept) /\ kept \in SUBSET Coordinate
  <2>1. kept \in SUBSET CentersOf(cells)
    OBVIOUS
  <2> QED
    BY <1>4, <2>1, FS_Subset
<1>6. \A c \in kept : \E column \in 0 .. 2, i \in Bits : c = shift(ReadCell(p, <<0, column>>), Negated(ca_offsets[i]))
  BY <1>1
<1>7. \A c \in kept : Touches(Equation(board, c))
  OBVIOUS
<1>8. InteriorEquations(p) = items
  <2> DEFINE order == InOrder(kept)
  <2>1. InteriorEquations(p) = [i \in DOMAIN order |-> Equation(board, order[i])]
    BY DEF InteriorEquations, board, cells
  <2>2. \A i \in DOMAIN order : order[i] \in kept
    <3>1. order \in Bijection(1 .. Cardinality(kept), kept)
      BY <1>5, InOrderLists
    <3> HIDE DEF order, kept
    <3> QED
      BY <3>1 DEF Bijection, Injection
  <2> HIDE DEF order, kept
  <2>3. \A i \in DOMAIN order : eq[order[i]] = Equation(board, order[i])
    BY <2>2
  <2> HIDE DEF eq
  <2> QED
    BY <2>1, <2>3 DEF order
<1> HIDE DEF kept
<1>9. eq \in Maps(kept, Entries(p)) /\ \A c \in kept : eq[c] = Equation(board, c)
  <2>1. \A c \in kept : Equation(board, c) \in Entries(p)
    BY <1>2, <1>6
  <2> QED
    BY <2>1 DEF Maps
<1> HIDE DEF eq
<1>10. items \in Seq(Entries(p)) /\ Discovered(items) = {eq[c] : c \in kept}
  BY <1>5, <1>9, ListedInOrder
<1> HIDE DEF items
<1>11. DOMAIN items = 1 .. Len(items) /\ Len(items) \in Nat
  BY <1>10
<1>12. ASSUME NEW n \in 1 .. Len(items)
       PROVE  /\ needs[n] \in SUBSET (1 .. history_window(p)) /\ IsFiniteSet(needs[n]) /\ Cardinality(needs[n]) <= 5
  <2>1. items[n] \in Discovered(items)
    BY <1>11 DEF Discovered
  <2>2. PICK c \in kept : items[n] = Equation(board, c)
    BY <1>9, <1>10, <2>1
  <2>3. c \in Coordinate /\ Touches(Equation(board, c))
    BY <1>5, <1>7
  <2>4. needs[n] = Rows(Equation(board, c))
    BY <1>11, <2>2
  <2> QED
    BY <2>3, <2>4, FewRows DEF board
<1>13. needs \in [1 .. Len(items) -> SUBSET (1 .. history_window(p))]
  BY <1>11, <1>12
<1>14. InteriorProjections(p) = Grouped(items, needs, maximum_projection_history_rows)
  BY <1>8 DEF InteriorProjections
<1>15. \A n \in 1 .. Len(items) : IsFiniteSet(needs[n]) /\ Cardinality(needs[n]) <= maximum_projection_history_rows
  BY <1>12 DEF maximum_projection_history_rows
<1> HIDE DEF needs
<1> DEFINE g == InteriorProjections(p)
<1>16. /\ g \in Projections(1 .. history_window(p), Entries(p)) /\ Imposed(g) = Discovered(items)
       /\ Fits(g, maximum_projection_history_rows)
  <2>1. maximum_projection_history_rows \in Nat
    BY DEF maximum_projection_history_rows
  <2> DEFINE K == 1 .. history_window(p)
             I == Entries(p)
             budget == maximum_projection_history_rows
  <2>2. /\ items \in Seq(I) /\ needs \in Maps(1 .. Len(items), SUBSET K) /\ budget \in Nat
        /\ \A n \in 1 .. Len(items) : IsFiniteSet(needs[n]) /\ Cardinality(needs[n]) <= budget
        /\ g = Grouped(items, needs, budget)
    BY <1>10, <1>13, <1>14, <1>15, <2>1 DEF Maps
  <2> HIDE DEF K, I, budget, g
  <2>3. g \in Projections(K, I) /\ Imposed(g) = Discovered(items) /\ Fits(g, budget)
    BY <2>2, GroupedIs
  <2> QED
    BY <2>3 DEF K, I, budget
<1> HIDE DEF g
<1> DEFINE all == {Eq(column, i) : column \in 0 .. 2, i \in Bits}
           required == PhysicalEquations(strip, {Physical(p, <<0, column>>) : column \in 0 .. 2})
<1>17. required = all
  <2> DEFINE touched == {Physical(p, <<0, column>>) : column \in 0 .. 2}
             centers == {PhysicalPlus(c, Negated(ca_offsets[i])) : c \in touched, i \in Bits}
  <2>1. centers = {a(column, i) : column \in 0 .. 2, i \in Bits}
    OBVIOUS
  <2>2. required = {Item(c) : c \in centers}
    BY DEF PhysicalEquations
  <2>3. \A column \in 0 .. 2, i \in Bits : Eq(column, i) = Item(a(column, i))
    BY DEF Eq
  <2> HIDE DEF centers, touched, a, strip, Item, required
  <2> QED
    BY <2>1, <2>2, <2>3
<1>18. \A z : z \in all <=> \E column \in 0 .. 2, i \in Bits : z = Eq(column, i)
  OBVIOUS
<1> HIDE DEF all, required, strip, Item, a
<1>19. {eq[c] : c \in kept} = all
  <2>1. ASSUME NEW c \in kept PROVE eq[c] \in all
    BY <1>2, <1>6, <1>9, <1>18
  <2>2. ASSUME NEW z \in all PROVE \E c \in kept : z = eq[c]
    BY <1>2, <1>9, <1>18
  <2> QED
    BY <2>1, <2>2
<1>20. Imposed(g) = required
  BY <1>10, <1>16, <1>17, <1>19
<1>21. InteriorRight(p, g)
  <2>1. strip = InteriorStrip(p) /\ required = PhysicalEquations(InteriorStrip(p), InteriorNew(p))
    BY DEF strip, required, InteriorStrip, InteriorNew
  <2> QED
    BY <1>16, <1>20, <2>1 DEF InteriorRight
<1> QED
  BY <1>21 DEF g

-----------------------------------------------------------------------------
\* The boundary, an edge and a phase at a time: what the window and its image say of a cell.
Edged(s) == s \in Side /\ Mode(s) \in EdgeMode /\ Reflecting(Mode(s))

Image(s, c) == reflect(c, Mode(s), s, 0)
MirrorOf(s, a) == PhysicalMirror(a, Mode(s), s)

EdgeWindow(p) == Window(p, {0, 1})

Told(p, s, t) ==
  {read \in EdgeWindow(p) : ReadCell(p, read) = t} \cup {read \in EdgeWindow(p) : Image(s, ReadCell(p, read)) = t}

StripBoard(p, s) ==
  {<<ShipCell(Physical(p, read)), read>> : read \in Strip(p, {0, 1})}
  \cup {<<ShipCell(MirrorOf(s, Physical(p, read))), read>> : read \in Strip(p, {0, 1})}

LEMMA EdgeBoardIs ==
  ASSUME NEW p, NEW s
  PROVE  /\ \A e \in EdgeBoard(p, s) :
              /\ e[2] \in EdgeWindow(p) /\ (e[1] = ReadCell(p, e[2]) \/ e[1] = Image(s, ReadCell(p, e[2])))
              /\ e = <<e[1], e[2]>>
         /\ \A read \in EdgeWindow(p) :
              <<ReadCell(p, read), read>> \in EdgeBoard(p, s) /\ <<Image(s, ReadCell(p, read)), read>> \in EdgeBoard(p, s)
<1> DEFINE plain == Board(p, {0, 1})
           images == {<<reflect(e[1], Mode(s), s, 0), e[2]>> : e \in plain}
<1>1. EdgeBoard(p, s) = plain \cup images
  BY DEF EdgeBoard
<1>2. plain = {<<ReadCell(p, read), read>> : read \in EdgeWindow(p)}
  BY DEF Board, EdgeWindow
<1>3. ASSUME NEW e \in EdgeBoard(p, s)
      PROVE  /\ e[2] \in EdgeWindow(p) /\ (e[1] = ReadCell(p, e[2]) \/ e[1] = Image(s, ReadCell(p, e[2])))
             /\ e = <<e[1], e[2]>>
  <2>1. CASE e \in plain
    <3>1. PICK read \in EdgeWindow(p) : e = <<ReadCell(p, read), read>>
      BY <1>2, <2>1
    <3> QED
      BY <3>1
  <2>2. CASE e \in images
    <3>1. PICK f \in plain : e = <<reflect(f[1], Mode(s), s, 0), f[2]>>
      BY <2>2
    <3>2. PICK read \in EdgeWindow(p) : f = <<ReadCell(p, read), read>>
      BY <1>2
    <3>3. f[1] = ReadCell(p, read) /\ f[2] = read
      BY <3>2
    <3>4. e = <<Image(s, ReadCell(p, read)), read>>
      BY <3>1, <3>3 DEF Image
    <3> QED
      BY <3>4
  <2> QED
    BY <1>1, <2>1, <2>2
<1>4. ASSUME NEW read \in EdgeWindow(p)
      PROVE  <<ReadCell(p, read), read>> \in EdgeBoard(p, s) /\ <<Image(s, ReadCell(p, read)), read>> \in EdgeBoard(p, s)
  <2> DEFINE f == <<ReadCell(p, read), read>>
  <2>1. f \in plain /\ f[1] = ReadCell(p, read) /\ f[2] = read
    BY <1>2
  <2> HIDE DEF f, plain
  <2>2. <<reflect(f[1], Mode(s), s, 0), f[2]>> \in images
    BY <2>1
  <2> HIDE DEF images
  <2>3. <<Image(s, ReadCell(p, read)), read>> \in images
    BY <2>1, <2>2 DEF Image
  <2> QED
    BY <1>1, <2>1, <2>3 DEF f
<1> QED
  BY <1>3, <1>4

LEMMA EdgeFound ==
  ASSUME NEW p, NEW s, NEW t
  PROVE  Found(EdgeBoard(p, s), t) = Told(p, s, t)
<1> DEFINE board == EdgeBoard(p, s)
<1>1. ASSUME NEW read \in Found(board, t) PROVE read \in Told(p, s, t)
  <2>1. PICK e \in board : e[1] = t /\ e[2] = read
    BY DEF Found
  <2>2. read \in EdgeWindow(p) /\ (t = ReadCell(p, read) \/ t = Image(s, ReadCell(p, read)))
    BY <2>1, EdgeBoardIs
  <2> QED
    BY <2>2 DEF Told
<1>2. ASSUME NEW read \in Told(p, s, t) PROVE read \in Found(board, t)
  <2>1. read \in EdgeWindow(p) /\ (t = ReadCell(p, read) \/ t = Image(s, ReadCell(p, read)))
    BY DEF Told
  <2> DEFINE e == <<t, read>>
  <2>2. e \in board
    BY <2>1, EdgeBoardIs
  <2>3. e[1] = t /\ e[2] = read
    OBVIOUS
  <2> HIDE DEF e, board
  <2> QED
    BY <2>2, <2>3 DEF Found
<1> QED
  BY <1>1, <1>2

LEMMA EdgeCells ==
  ASSUME NEW p, NEW s
  PROVE  /\ \A c : c \in Cells(EdgeBoard(p, s)) <=> \E read \in EdgeWindow(p) : c = ReadCell(p, read) \/ c = Image(s, ReadCell(p, read))
         /\ \A c : c \in Cells(EdgeBoard(p, s)) <=> Told(p, s, c) # {}
<1>1. ASSUME NEW c \in Cells(EdgeBoard(p, s))
      PROVE  \E read \in EdgeWindow(p) : c = ReadCell(p, read) \/ c = Image(s, ReadCell(p, read))
  <2>1. PICK e \in EdgeBoard(p, s) : c = e[1]
    BY DEF Cells
  <2> QED
    BY <2>1, EdgeBoardIs
<1>2. ASSUME NEW c, NEW read \in EdgeWindow(p), c = ReadCell(p, read) \/ c = Image(s, ReadCell(p, read))
      PROVE  c \in Cells(EdgeBoard(p, s))
  <2> DEFINE e == <<c, read>>
  <2>1. e \in EdgeBoard(p, s) /\ e[1] = c
    BY <1>2, EdgeBoardIs
  <2> HIDE DEF e
  <2> QED
    BY <2>1 DEF Cells
<1>3. \A c : Told(p, s, c) # {} <=> \E read \in EdgeWindow(p) : c = ReadCell(p, read) \/ c = Image(s, ReadCell(p, read))
  BY DEF Told
<1> QED
  BY <1>1, <1>2, <1>3

LEMMA StripBoardFound ==
  ASSUME NEW p, NEW s, NEW k
  PROVE  Found(StripBoard(p, s), k)
           = {read \in Strip(p, {0, 1}) : ShipCell(Physical(p, read)) = k}
             \cup {read \in Strip(p, {0, 1}) : ShipCell(MirrorOf(s, Physical(p, read))) = k}
<1> DEFINE board == StripBoard(p, s)
           said == {read \in Strip(p, {0, 1}) : ShipCell(Physical(p, read)) = k}
                   \cup {read \in Strip(p, {0, 1}) : ShipCell(MirrorOf(s, Physical(p, read))) = k}
<1>1. ASSUME NEW read \in Found(board, k) PROVE read \in said
  <2>1. PICK e \in board : e[1] = k /\ e[2] = read
    BY DEF Found
  <2>2. PICK other \in Strip(p, {0, 1}) :
          e = <<ShipCell(Physical(p, other)), other>> \/ e = <<ShipCell(MirrorOf(s, Physical(p, other))), other>>
    BY DEF StripBoard
  <2>3. other = read /\ (ShipCell(Physical(p, read)) = k \/ ShipCell(MirrorOf(s, Physical(p, read))) = k)
    BY <2>1, <2>2
  <2> QED
    BY <2>3
<1>2. ASSUME NEW read \in said PROVE read \in Found(board, k)
  <2>1. read \in Strip(p, {0, 1}) /\ (ShipCell(Physical(p, read)) = k \/ ShipCell(MirrorOf(s, Physical(p, read))) = k)
    OBVIOUS
  <2> DEFINE e == <<k, read>>
  <2>2. e \in board /\ e[1] = k /\ e[2] = read
    BY <2>1 DEF StripBoard
  <2> HIDE DEF e, board
  <2> QED
    BY <2>2 DEF Found
<1> QED
  BY <1>1, <1>2

\* For a cell as low as the equations of the candidate, it is what the strip says.
LEMMA EdgeSame ==
  ASSUME Ready, NEW p \in 0 .. (subtile_count - 1), NEW s, Edged(s), NEW t, Low(p, t), Reduced1(Above(t))
  PROVE  Found(StripBoard(p, s), ShipCell(to_physical(Above(t)))) = Told(p, s, t)
<1> DEFINE k == ShipCell(to_physical(Above(t)))
           mode == Mode(s)
<1>1. {0, 1} \in SUBSET Int /\ mode \in EdgeMode /\ Reflecting(mode) /\ s \in Side
  BY DEF Edged
<1>2. {read \in Strip(p, {0, 1}) : ShipCell(Physical(p, read)) = k} = {read \in EdgeWindow(p) : ReadCell(p, read) = t}
  BY <1>1, SamePlain DEF EdgeWindow
<1> HIDE DEF mode
<1>3. {read \in Strip(p, {0, 1}) : ShipCell(PhysicalMirror(Physical(p, read), mode, s)) = k}
        = {read \in Window(p, {0, 1}) : reflect(ReadCell(p, read), mode, s, 0) = t}
  BY <1>1, SameMirror
<1>4. {read \in Strip(p, {0, 1}) : ShipCell(MirrorOf(s, Physical(p, read))) = k}
        = {read \in EdgeWindow(p) : Image(s, ReadCell(p, read)) = t}
  BY <1>3 DEF mode, MirrorOf, Image, EdgeWindow
<1> HIDE DEF k
<1>5. Found(StripBoard(p, s), k)
        = {read \in Strip(p, {0, 1}) : ShipCell(Physical(p, read)) = k}
          \cup {read \in Strip(p, {0, 1}) : ShipCell(MirrorOf(s, Physical(p, read))) = k}
  BY StripBoardFound
<1> QED
  BY <1>2, <1>4, <1>5 DEF Told, k

\* A cell is read at most twice: once as it is, once in the mirror.
LEMMA ToldTwice ==
  ASSUME Ready, NEW p \in 0 .. (subtile_count - 1), NEW s, Edged(s), NEW t
  PROVE  /\ \A a, b, c \in Told(p, s, t) : a = b \/ b = c \/ a = c
         /\ Told(p, s, t) \subseteq EdgeWindow(p) /\ EdgeWindow(p) \subseteq Nat \X Int
<1>1. {0, 1} \in SUBSET Int
  OBVIOUS
<1>2. EdgeWindow(p) \subseteq Nat \X Int
  BY <1>1, StripWindow DEF EdgeWindow
<1>3. ASSUME NEW a \in EdgeWindow(p), NEW b \in EdgeWindow(p), ReadCell(p, a) = ReadCell(p, b) PROVE a = b
  BY <1>2, <1>3, ReadOnce
<1>4. ASSUME NEW a \in EdgeWindow(p) PROVE Image(s, Image(s, ReadCell(p, a))) = ReadCell(p, a)
  <2> DEFINE mode == Mode(s)
             c == ReadCell(p, a)
  <2>1. mode \in EdgeMode /\ Reflecting(mode) /\ s \in Side
    BY DEF Edged
  <2>2. c \in Coordinate /\ c.v \in 0 .. (subtile_count - 1)
    BY <1>2, ReadCellIs DEF Reduced1
  <2> HIDE DEF mode, c
  <2>3. reflect(reflect(c, mode, s, 0), mode, s, 0) = c
    BY <2>1, <2>2, ReflectTwice DEF Ready
  <2> QED
    BY <2>3 DEF Image, mode, c
<1>5. ASSUME NEW a \in EdgeWindow(p), NEW b \in EdgeWindow(p), Image(s, ReadCell(p, a)) = Image(s, ReadCell(p, b)) PROVE a = b
  BY <1>3, <1>4, <1>5
<1>6. ASSUME NEW a \in Told(p, s, t), NEW b \in Told(p, s, t), NEW c \in Told(p, s, t) PROVE a = b \/ b = c \/ a = c
  BY <1>3, <1>5 DEF Told
<1>7. Told(p, s, t) \subseteq EdgeWindow(p)
  BY DEF Told
<1> QED
  BY <1>2, <1>6, <1>7

LEMMA FirstIs ==
  ASSUME Ready, NEW p \in 0 .. (subtile_count - 1), NEW reads, reads \subseteq EdgeWindow(p), reads # {}
  PROVE  First(p, reads) \in reads
<1> DEFINE T == {Rank(p, read) : read \in reads}
<1>1. ASSUME NEW read \in reads PROVE Rank(p, read) \in Nat
  <2> DEFINE H == history_window(p)
             n == read[1]
             i == read[2]
  <2>1. {0, 1} \in SUBSET Int
    OBVIOUS
  <2>2. H \in Nat /\ n \in 0 .. H /\ i \in {0, 1}
    BY <2>1, StripWindow DEF EdgeWindow
  <2>3. Rank(p, read) = (i * (H + 1)) + (IF n = 0 THEN H ELSE n - 1)
    BY DEF Rank, IsCandidate
  <2> HIDE DEF H, n, i
  <2> QED
    BY <2>2, <2>3
<1>2. T \in SUBSET Nat /\ T # {}
  BY <1>1
<1> HIDE DEF T
<1>3. PICK n \in T : \A m \in T : n <= m
  BY <1>2, Least
<1>4. \E read \in reads : \A other \in reads : Rank(p, read) <= Rank(p, other)
  BY <1>3 DEF T
<1> QED
  BY <1>4 DEF First

-----------------------------------------------------------------------------
\* The cells a candidate's row is new in, and the physical cells they stand for.
NewCell(p, s, c) ==
  \E column \in {0, 1} : c = ReadCell(p, <<0, column>>) \/ c = Image(s, ReadCell(p, <<0, column>>))

Touched(p, s) ==
  LET candidates == {Physical(p, <<0, column>>) : column \in {0, 1}}
  IN  candidates \cup {MirrorOf(s, c) : c \in candidates}

Stands(p, c, a) ==
  Resting(p, c) /\ a \in [x : Int, y : Int, t : Int] /\ ShipCell(a) = ShipCell(to_physical(Above(c)))

LEMMA NewStands ==
  ASSUME Ready, NEW p \in 0 .. (subtile_count - 1), NEW s, Edged(s)
  PROVE  /\ \A c : NewCell(p, s, c) => \E a \in Touched(p, s) : Stands(p, c, a)
         /\ \A a \in Touched(p, s) : \E c : NewCell(p, s, c) /\ Stands(p, c, a)
<1> DEFINE plain(column) == ReadCell(p, <<0, column>>)
           at(column) == Physical(p, <<0, column>>)
<1>1. ASSUME NEW column \in {0, 1}
      PROVE  Stands(p, plain(column), at(column)) /\ Stands(p, Image(s, plain(column)), MirrorOf(s, at(column)))
  <2> DEFINE c == plain(column)
             a == at(column)
             mode == Mode(s)
  <2>1. column \in Int /\ mode \in EdgeMode /\ Reflecting(mode) /\ s \in Side
    BY DEF Edged
  <2>2. Resting(p, c) /\ a = to_physical(Above(c)) /\ a \in [x : Int, y : Int, t : Int]
    BY <2>1, CandidateRests
  <2> HIDE DEF c, a, mode
  <2>3. /\ Resting(p, reflect(c, mode, s, 0))
        /\ ShipCell(PhysicalMirror(to_physical(Above(c)), mode, s)) = ShipCell(to_physical(Above(reflect(c, mode, s, 0))))
        /\ PhysicalMirror(to_physical(Above(c)), mode, s) \in [x : Int, y : Int, t : Int]
    BY <2>1, <2>2, MirrorRests
  <2>4. Stands(p, c, a)
    BY <2>2 DEF Stands
  <2>5. Image(s, c) = reflect(c, mode, s, 0) /\ MirrorOf(s, a) = PhysicalMirror(to_physical(Above(c)), mode, s)
    BY <2>2 DEF Image, MirrorOf, mode
  <2>6. Stands(p, Image(s, c), MirrorOf(s, a))
    BY <2>3, <2>5 DEF Stands
  <2> QED
    BY <2>4, <2>6 DEF c, a
<1>2. \A column \in {0, 1} : at(column) \in Touched(p, s) /\ MirrorOf(s, at(column)) \in Touched(p, s)
  BY DEF Touched
<1>3. \A a \in Touched(p, s) : \E column \in {0, 1} : a = at(column) \/ a = MirrorOf(s, at(column))
  BY DEF Touched
<1>4. \A c : NewCell(p, s, c) <=> \E column \in {0, 1} : c = plain(column) \/ c = Image(s, plain(column))
  BY DEF NewCell
<1> HIDE DEF plain, at
<1>5. ASSUME NEW c, NewCell(p, s, c) PROVE \E a \in Touched(p, s) : Stands(p, c, a)
  BY <1>1, <1>2, <1>4, <1>5
<1>6. ASSUME NEW a \in Touched(p, s) PROVE \E c : NewCell(p, s, c) /\ Stands(p, c, a)
  BY <1>1, <1>3, <1>4
<1> QED
  BY <1>5, <1>6

LEMMA CandidateRead ==
  ASSUME Ready, NEW p \in 0 .. (subtile_count - 1)
  PROVE  /\ \A column \in {0, 1} : <<0, column>> \in EdgeWindow(p) /\ IsCandidate(<<0, column>>)
         /\ \A read \in EdgeWindow(p) : IsCandidate(read) => \E column \in {0, 1} : read = <<0, column>>
<1>1. {0, 1} \in SUBSET Int /\ 0 \in 0 .. history_window(p)
  BY ReadyNumbers DEF history_window
<1>2. ASSUME NEW column \in {0, 1} PROVE <<0, column>> \in EdgeWindow(p) /\ IsCandidate(<<0, column>>)
  BY <1>1 DEF EdgeWindow, Window, IsCandidate
<1>3. ASSUME NEW read \in EdgeWindow(p), IsCandidate(read) PROVE \E column \in {0, 1} : read = <<0, column>>
  <2>1. read = <<read[1], read[2]>> /\ read[2] \in {0, 1} /\ read[1] = 0
    BY <1>3 DEF EdgeWindow, Window, IsCandidate
  <2> QED
    BY <2>1
<1> QED
  BY <1>2, <1>3

\* A cell is new when the window, or its image, reads it in the candidate's row.
LEMMA NewIs ==
  ASSUME Ready, NEW p \in 0 .. (subtile_count - 1), NEW s
  PROVE  /\ \A c : NewCell(p, s, c) <=> \E read \in Told(p, s, c) : IsCandidate(read)
         /\ \A c : c \in {e[1] : e \in {f \in EdgeBoard(p, s) : IsCandidate(f[2])}} <=> NewCell(p, s, c)
         /\ \A c : NewCell(p, s, c) => c \in Cells(EdgeBoard(p, s))
<1>1. ASSUME NEW c PROVE NewCell(p, s, c) <=> \E read \in Told(p, s, c) : IsCandidate(read)
  BY CandidateRead DEF NewCell, Told
<1>2. ASSUME NEW c, NEW e \in EdgeBoard(p, s), IsCandidate(e[2]), c = e[1] PROVE NewCell(p, s, c)
  <2>1. e[2] \in Told(p, s, c)
    BY <1>2, EdgeBoardIs DEF Told
  <2> QED
    BY <1>1, <1>2, <2>1
<1>3. ASSUME NEW c, NewCell(p, s, c)
      PROVE  \E e \in EdgeBoard(p, s) : IsCandidate(e[2]) /\ c = e[1]
  <2>1. PICK read \in Told(p, s, c) : IsCandidate(read)
    BY <1>1, <1>3
  <2> DEFINE e == <<c, read>>
  <2>2. e \in EdgeBoard(p, s) /\ e[1] = c /\ e[2] = read
    BY <2>1, EdgeBoardIs DEF Told
  <2> HIDE DEF e
  <2> QED
    BY <2>1, <2>2
<1>4. \A c : c \in {e[1] : e \in {f \in EdgeBoard(p, s) : IsCandidate(f[2])}} <=> NewCell(p, s, c)
  BY <1>2, <1>3
<1>5. \A c : NewCell(p, s, c) => c \in Cells(EdgeBoard(p, s))
  BY <1>3 DEF Cells
<1> QED
  BY <1>1, <1>4, <1>5

LEMMA EdgeFinite ==
  ASSUME Ready, NEW p \in 0 .. (subtile_count - 1), NEW s, Edged(s)
  PROVE  /\ IsFiniteSet(EdgeWindow(p)) /\ IsFiniteSet(Cells(EdgeBoard(p, s)))
         /\ \A c \in Cells(EdgeBoard(p, s)) : Reduced1(c) /\ c \in Coordinate
         /\ \A t : IsFiniteSet(Told(p, s, t))
<1> DEFINE plain == {ReadCell(p, read) : read \in EdgeWindow(p)}
           images == {Image(s, ReadCell(p, read)) : read \in EdgeWindow(p)}
           f == [read \in EdgeWindow(p) |-> ReadCell(p, read)]
           g == [read \in EdgeWindow(p) |-> Image(s, ReadCell(p, read))]
<1>1. IsFiniteSet(EdgeWindow(p))
  <2>1. IsFiniteSet({0, 1})
    BY PairSize
  <2> QED
    BY <2>1, WindowFinite DEF EdgeWindow
<1>2. f \in [EdgeWindow(p) -> plain] /\ \A c \in plain : \E read \in EdgeWindow(p) : f[read] = c
  OBVIOUS
<1>3. g \in [EdgeWindow(p) -> images] /\ \A c \in images : \E read \in EdgeWindow(p) : g[read] = c
  OBVIOUS
<1>4. \A c : c \in Cells(EdgeBoard(p, s)) => c \in plain \cup images
  BY EdgeCells
<1>5. ASSUME NEW c \in plain \cup images PROVE Reduced1(c) /\ c \in Coordinate
  <2>1. PICK read \in EdgeWindow(p) : c = ReadCell(p, read) \/ c = Image(s, ReadCell(p, read))
    OBVIOUS
  <2>2. read \in Nat \X Int
    BY ToldTwice
  <2> DEFINE d == ReadCell(p, read)
             mode == Mode(s)
  <2>3. Reduced1(d) /\ mode \in EdgeMode /\ Reflecting(mode) /\ s \in Side
    BY <2>2, ReadCellIs DEF Edged
  <2> HIDE DEF d, mode
  <2>4. Reduced1(reflect(d, mode, s, 0))
    BY <2>3, MirrorPhysical
  <2>5. c = d \/ c = reflect(d, mode, s, 0)
    BY <2>1 DEF d, mode, Image
  <2>6. Reduced1(c)
    BY <2>3, <2>4, <2>5
  <2> QED
    BY <2>6, PhysicalPlace
<1> HIDE DEF plain, images, f, g
<1>6. IsFiniteSet(plain) /\ IsFiniteSet(images)
  <2>1. IsFiniteSet(plain)
    BY ONLY <1>1, <1>2, ImageSize
  <2>2. IsFiniteSet(images)
    BY ONLY <1>1, <1>3, ImageSize
  <2> QED
    BY <2>1, <2>2
<1>7. IsFiniteSet(plain \cup images)
  BY <1>6, FS_Union
<1>8. Cells(EdgeBoard(p, s)) \in SUBSET (plain \cup images)
  BY <1>4
<1>9. IsFiniteSet(Cells(EdgeBoard(p, s)))
  BY ONLY <1>7, <1>8, FS_Subset
<1>10. ASSUME NEW t PROVE IsFiniteSet(Told(p, s, t))
  <2>1. Told(p, s, t) \in SUBSET EdgeWindow(p)
    BY DEF Told
  <2> QED
    BY <1>1, <2>1, FS_Subset
<1> QED
  BY <1>1, <1>5, <1>8, <1>9, <1>10

LEMMA FunctionSeq ==
  ASSUME NEW n \in Nat, NEW T, NEW f \in Maps(1 .. n, T)
  PROVE  f \in Seq(T) /\ Len(f) = n
<1>1. f \in [1 .. n -> T]
  BY DEF Maps
<1> QED
  BY <1>1

\* The equations, each told of by one read of each cell.
Agree(e, q) == \A b \in Bits : e[b] \subseteq q[b] /\ (e[b] = {} <=> q[b] = {})

PhysicalEquation(p, s, a, i) ==
  [b \in Bits |-> Found(StripBoard(p, s), ShipCell(PhysicalPlus(PhysicalPlus(a, Negated(ca_offsets[i])), ca_offsets[b])))]

LEMMA EdgeEquationIs ==
  ASSUME Ready, NEW p \in 0 .. (subtile_count - 1), NEW s, Edged(s), NEW center
  PROVE  LET e == EdgeEquation(p, EdgeBoard(p, s), center)
         IN  /\ DOMAIN e = Bits /\ e \in Seq(SUBSET EdgeWindow(p)) /\ Len(e) = 10
             /\ \A b \in Bits : LET told == Told(p, s, shift(center, ca_offsets[b]))
                                IN  /\ e[b] = (IF told = {} THEN {} ELSE {First(p, told)})
                                    /\ e[b] \subseteq told /\ (e[b] = {} <=> told = {})
             /\ IsFiniteSet(Reads(e)) /\ Cardinality(Reads(e)) <= 10 /\ Reads(e) \subseteq EdgeWindow(p)
<1> DEFINE e == EdgeEquation(p, EdgeBoard(p, s), center)
           told(b) == Told(p, s, shift(center, ca_offsets[b]))
<1>1. e = [b \in Bits |-> IF told(b) = {} THEN {} ELSE {First(p, told(b))}]
  BY EdgeFound DEF EdgeEquation
<1>2. \A b \in Bits : told(b) \subseteq EdgeWindow(p)
  BY ToldTwice
<1> HIDE DEF e, told
<1>3. ASSUME NEW b \in Bits
      PROVE  /\ e[b] = (IF told(b) = {} THEN {} ELSE {First(p, told(b))})
             /\ e[b] \subseteq told(b) /\ (e[b] = {} <=> told(b) = {})
  <2>1. e[b] = (IF told(b) = {} THEN {} ELSE {First(p, told(b))})
    BY <1>1
  <2>2. told(b) # {} => First(p, told(b)) \in told(b)
    <3> DEFINE reads == told(b)
    <3>1. reads \subseteq EdgeWindow(p)
      BY <1>2
    <3> HIDE DEF reads
    <3>2. reads # {} => First(p, reads) \in reads
      BY <3>1, FirstIs
    <3> QED
      BY <3>2 DEF reads
  <2> QED
    BY <2>1, <2>2
<1>4. DOMAIN e = 1 .. 10 /\ Bits = 1 .. 10
  BY <1>1, OffsetIs
<1>5. e \in [1 .. 10 -> SUBSET EdgeWindow(p)]
  <2>1. \A b \in 1 .. 10 : e[b] \in SUBSET EdgeWindow(p)
    BY <1>2, <1>3, <1>4
  <2> QED
    BY <1>1, <1>4, <2>1
<1>6. e \in Seq(SUBSET EdgeWindow(p)) /\ Len(e) = 10
  <2> DEFINE T == SUBSET EdgeWindow(p)
  <2>1. e \in [1 .. 10 -> T] /\ DOMAIN e = 1 .. 10
    BY <1>4, <1>5
  <2> HIDE DEF T
  <2>2. e \in Seq(T) /\ Len(e) = 10
    <3>1. 10 \in Nat /\ e \in Maps(1 .. 10, T)
      BY <2>1 DEF Maps
    <3> QED
      BY <3>1, FunctionSeq
  <2> QED
    BY <2>2 DEF T
<1> DEFINE used == {b \in Bits : e[b] # {}}
           f == [b \in used |-> First(p, told(b))]
<1>7. used \in SUBSET Bits
  OBVIOUS
<1>8. IsFiniteSet(used) /\ Cardinality(used) <= 10
  <2> HIDE DEF used
  <2> QED
    BY <1>7, BitsFinite, FS_Subset
<1>9. \A b \in used : b \in Bits /\ e[b] = {First(p, told(b))}
  BY <1>3
<1>10. \A b \in Bits \ used : e[b] = {}
  OBVIOUS
<1>11. f \in [used -> Reads(e)]
  BY <1>4, <1>9 DEF Reads
<1>12. \A read \in Reads(e) : \E b \in used : f[b] = read
  <2> SUFFICES ASSUME NEW read \in Reads(e) PROVE \E b \in used : f[b] = read
    OBVIOUS
  <2>1. PICK b \in Bits : read \in e[b]
    BY <1>4 DEF Reads
  <2> QED
    BY <1>9, <1>10, <2>1
<1> HIDE DEF used, f
<1>13. IsFiniteSet(Reads(e)) /\ Cardinality(Reads(e)) <= Cardinality(used)
  BY <1>8, <1>11, <1>12, ImageSize
<1>14. Cardinality(Reads(e)) <= 10
  <2>1. Cardinality(Reads(e)) \in Nat /\ Cardinality(used) \in Nat
    BY <1>8, <1>13, FS_CardinalityType
  <2> QED
    BY <1>8, <1>13, <2>1
<1>15. Reads(e) \subseteq EdgeWindow(p)
  BY <1>2, <1>3, <1>4 DEF Reads
<1> QED
  BY <1>3, <1>4, <1>6, <1>13, <1>14, <1>15 DEF e, told

LEMMA EdgeEquationSame ==
  ASSUME Ready, NEW p \in 0 .. (subtile_count - 1), NEW s, Edged(s), NEW c, NEW a, Stands(p, c, a), NEW i \in Bits
  PROVE  LET e == EdgeEquation(p, EdgeBoard(p, s), shift(c, Negated(ca_offsets[i])))
         IN  /\ Agree(e, PhysicalEquation(p, s, a, i))
             /\ NewCell(p, s, c) => Reads(e) # {}
<1> DEFINE center == shift(c, Negated(ca_offsets[i]))
           e == EdgeEquation(p, EdgeBoard(p, s), center)
           h == PhysicalPlus(a, Negated(ca_offsets[i]))
<1>1. Resting(p, c) /\ a \in [x : Int, y : Int, t : Int] /\ ShipCell(a) = ShipCell(to_physical(Above(c)))
  BY DEF Stands
<1>2. ASSUME NEW b \in Bits
      PROVE  Told(p, s, shift(center, ca_offsets[b])) = Found(StripBoard(p, s), ShipCell(PhysicalPlus(h, ca_offsets[b])))
  <2> DEFINE t == Partner(c, i, b)
             k == ShipCell(PhysicalPlus(h, ca_offsets[b]))
  <2>1. shift(center, ca_offsets[b]) = t
    BY DEF Partner
  <2>2. Low(p, t) /\ Reduced1(Above(t)) /\ k = ShipCell(to_physical(Above(t)))
    BY <1>1, PartnerLow
  <2> HIDE DEF t, k, h, center
  <2>3. Found(StripBoard(p, s), ShipCell(to_physical(Above(t)))) = Told(p, s, t)
    BY <2>2, EdgeSame
  <2> QED
    BY <2>1, <2>2, <2>3 DEF k
<1>3. PhysicalEquation(p, s, a, i) = [b \in Bits |-> Found(StripBoard(p, s), ShipCell(PhysicalPlus(h, ca_offsets[b])))]
  BY DEF PhysicalEquation
<1>8. shift(center, ca_offsets[i]) = c
  <2>1. Partner(c, i, i) = c
    BY <1>1, PartnerSelf DEF Resting
  <2> QED
    BY <2>1 DEF Partner
<1> HIDE DEF h, center, e
<1>4. \A b \in Bits : /\ e[b] \subseteq Told(p, s, shift(center, ca_offsets[b]))
                      /\ (e[b] = {} <=> Told(p, s, shift(center, ca_offsets[b])) = {})
  BY EdgeEquationIs DEF e
<1>5. Agree(e, PhysicalEquation(p, s, a, i))
  BY <1>2, <1>3, <1>4 DEF Agree
<1>6. ASSUME NewCell(p, s, c) PROVE Reads(e) # {}
  <2>1. Told(p, s, c) # {}
    BY <1>6, NewIs
  <2>2. e[i] # {}
    BY <1>4, <1>8, <2>1
  <2>3. DOMAIN e = Bits
    BY EdgeEquationIs DEF e
  <2> QED
    BY <2>2, <2>3 DEF Reads
<1> QED
  BY <1>5, <1>6 DEF e, center

-----------------------------------------------------------------------------
\* The ties: the reads of a cell that is read twice, if one of them is new.
Conditions(p) == Seq(SUBSET EdgeWindow(p))

LEMMA TieReads ==
  ASSUME NEW a, NEW b
  PROVE  Reads(<<{a}, {b}>>) = {a, b} /\ Len(<<{a}, {b}>>) = 2
<1> DEFINE e == <<{a}, {b}>>
<1>1. DOMAIN e = {1, 2} /\ e[1] = {a} /\ e[2] = {b} /\ Len(e) = 2
  OBVIOUS
<1> HIDE DEF e
<1>2. Reads(e) = {a, b}
  BY <1>1 DEF Reads
<1> QED
  BY <1>1, <1>2 DEF e

LEMMA EqualitiesAre ==
  ASSUME Ready, NEW p \in 0 .. (subtile_count - 1), NEW s, Edged(s), NEW t, Cardinality(Told(p, s, t)) > 1
  PROVE  /\ Equalities(p, Told(p, s, t)) \in Seq(Conditions(p))
         /\ \A tie \in Discovered(Equalities(p, Told(p, s, t))) :
              /\ Len(tie) = 2 /\ Reads(tie) = Told(p, s, t) /\ (\E read \in Told(p, s, t) : IsCandidate(read))
              /\ IsFiniteSet(Reads(tie)) /\ Cardinality(Reads(tie)) <= 2
         /\ (\E read \in Told(p, s, t) : IsCandidate(read)) => Discovered(Equalities(p, Told(p, s, t))) # {}
<1> DEFINE reads == Told(p, s, t)
           f == First(p, reads)
           ties == {<<{f}, {read}>> : read \in reads \ {f}}
           compared == {tie \in ties : Compared(tie)}
<1>1. IsFiniteSet(reads) /\ Cardinality(reads) > 1
  BY EdgeFinite
<1>2. reads \subseteq EdgeWindow(p) /\ \A a, b, c \in reads : a = b \/ b = c \/ a = c
  BY ToldTwice
<1>9. Equalities(p, reads) = SetToSeq(compared)
  BY DEF Equalities
<1> HIDE DEF reads
<1>3. f \in reads
  <2>1. reads # {}
    BY <1>1, FS_EmptySet
  <2> QED
    BY <1>2, <2>1, FirstIs
<1> HIDE DEF f
<1>4. PICK o \in reads : o # f
  <2> SUFFICES ASSUME \A o \in reads : o = f PROVE FALSE
    OBVIOUS
  <2>1. reads = {f}
    BY <1>3
  <2>2. Cardinality({f}) = 1
    BY FS_Singleton
  <2> QED
    BY <1>1, <2>1, <2>2
<1>5. reads = {f, o} /\ reads \ {f} = {o}
  BY <1>2, <1>3, <1>4
<1> DEFINE tie0 == <<{f}, {o}>>
<1>6. ties = {tie0}
  BY <1>5
<1>7. Reads(tie0) = reads /\ Len(tie0) = 2 /\ tie0 \in Conditions(p)
  <2>1. Reads(tie0) = {f, o} /\ Len(tie0) = 2
    BY TieReads
  <2>2. {f} \in SUBSET EdgeWindow(p) /\ {o} \in SUBSET EdgeWindow(p)
    BY <1>2, <1>3
  <2>3. tie0 \in Seq(SUBSET EdgeWindow(p))
    BY <2>2
  <2> QED
    BY <1>5, <2>1, <2>3 DEF Conditions
<1> HIDE DEF tie0, ties
<1>8. IsFiniteSet(compared)
  <2>1. IsFiniteSet({tie0})
    BY FS_Singleton
  <2>2. compared \in SUBSET {tie0}
    BY <1>6
  <2> QED
    BY ONLY <2>1, <2>2, FS_Subset
<1>10. Equalities(p, reads) \in Seq(compared) /\ Discovered(Equalities(p, reads)) = compared
  <2> HIDE DEF compared
  <2> QED
    BY <1>8, <1>9, SetToSeqLists
<1>11. compared \subseteq Conditions(p)
  BY <1>6, <1>7
<1>12. Compared(tie0) <=> \E read \in reads : IsCandidate(read)
  BY <1>7 DEF Compared
<1>13. Equalities(p, reads) \in Seq(Conditions(p))
  <2> DEFINE q == Equalities(p, reads)
             C == Conditions(p)
  <2>1. q \in Seq(compared) /\ compared \subseteq C
    BY <1>10, <1>11
  <2> HIDE DEF q, C, compared
  <2>2. q \in [1 .. Len(q) -> compared] /\ Len(q) \in Nat
    BY <2>1
  <2>3. q \in Maps(1 .. Len(q), C)
    BY <2>1, <2>2 DEF Maps
  <2>4. q \in Seq(C)
    BY <2>2, <2>3, FunctionSeq
  <2> QED
    BY <2>4 DEF q, C
<1>14. IsFiniteSet(reads) /\ Cardinality(reads) <= 2
  BY <1>5, PairSize
<1>15. \A tie \in compared : tie = tie0 /\ Compared(tie)
  BY <1>6
<1>16. Compared(tie0) => tie0 \in compared
  BY <1>6
<1> HIDE DEF compared
<1>17. \A tie \in Discovered(Equalities(p, reads)) :
         Len(tie) = 2 /\ Reads(tie) = reads /\ (\E read \in reads : IsCandidate(read))
  BY <1>7, <1>10, <1>12, <1>15
<1>18. (\E read \in reads : IsCandidate(read)) => Discovered(Equalities(p, reads)) # {}
  BY <1>10, <1>12, <1>16
<1>19. \A tie \in Discovered(Equalities(p, reads)) :
         /\ Len(tie) = 2 /\ Reads(tie) = reads /\ (\E read \in reads : IsCandidate(read))
         /\ IsFiniteSet(Reads(tie)) /\ Cardinality(Reads(tie)) <= 2
  BY <1>14, <1>17
<1> QED
  BY <1>13, <1>18, <1>19 DEF reads

\* The conditions of an edge are the ties and the equations, no other.
TieAt(p, s, z) ==
  \E t \in Cells(EdgeBoard(p, s)) : Cardinality(Told(p, s, t)) > 1 /\ z \in Discovered(Equalities(p, Told(p, s, t)))

EquationAt(p, s, z) ==
  \E c, i : NewCell(p, s, c) /\ i \in Bits /\ z = EdgeEquation(p, EdgeBoard(p, s), shift(c, Negated(ca_offsets[i])))

LEMMA TiesListed ==
  ASSUME Ready, NEW p \in 0 .. (subtile_count - 1), NEW s, Edged(s)
  PROVE  LET board == EdgeBoard(p, s)
             shared == InOrder({c \in Cells(board) : Cardinality(Found(board, c)) > 1})
             ties == FlattenSeq([i \in DOMAIN shared |-> Equalities(p, Found(board, shared[i]))])
         IN  ties \in Seq(Conditions(p)) /\ \A z : z \in Discovered(ties) <=> TieAt(p, s, z)
<1> DEFINE board == EdgeBoard(p, s)
           twice == {c \in Cells(board) : Cardinality(Found(board, c)) > 1}
           shared == InOrder(twice)
           f == [c \in twice |-> Equalities(p, Told(p, s, c))]
           seqs == [i \in DOMAIN shared |-> f[shared[i]]]
           I == Conditions(p)
<1>1. \A c : c \in twice <=> c \in Cells(board) /\ Cardinality(Told(p, s, c)) > 1
  BY EdgeFound
<1>2. IsFiniteSet(twice) /\ twice \in SUBSET Coordinate
  <2>1. IsFiniteSet(Cells(board)) /\ Cells(board) \subseteq Coordinate
    BY EdgeFinite
  <2>2. twice \in SUBSET Cells(board)
    OBVIOUS
  <2> HIDE DEF twice, board
  <2> QED
    BY <2>1, <2>2, FS_Subset
<1>3. [i \in DOMAIN shared |-> Equalities(p, Found(board, shared[i]))] = seqs
  <2>1. \A i \in DOMAIN shared : shared[i] \in twice
    <3>1. shared \in Bijection(1 .. Cardinality(twice), twice)
      BY <1>2, InOrderLists
    <3> HIDE DEF shared, twice
    <3> QED
      BY <3>1 DEF Bijection, Injection
  <2>2. \A c : Found(board, c) = Told(p, s, c)
    BY EdgeFound
  <2> HIDE DEF shared, twice, board
  <2>3. \A i \in DOMAIN shared : f[shared[i]] = Equalities(p, Found(board, shared[i]))
    BY <2>1, <2>2
  <2> HIDE DEF f
  <2> QED
    BY <2>3
<1> HIDE DEF twice
<1>4. f \in Maps(twice, Seq(I)) /\ \A c \in twice : f[c] = Equalities(p, Told(p, s, c))
  <2>1. \A c \in twice : Equalities(p, Told(p, s, c)) \in Seq(I)
    BY <1>1, EqualitiesAre
  <2> HIDE DEF I
  <2> QED
    BY <2>1 DEF Maps
<1> HIDE DEF f, I
<1>5. seqs \in Seq(Seq(I)) /\ Discovered(seqs) = {f[c] : c \in twice}
  BY <1>2, <1>4, ListedInOrder
<1>6. DOMAIN seqs = 1 .. Len(seqs)
  BY <1>5
<1> HIDE DEF seqs, shared
<1>7. FlattenSeq(seqs) \in Seq(I) /\ Discovered(FlattenSeq(seqs)) = UNION {Discovered(seqs[i]) : i \in 1 .. Len(seqs)}
  BY <1>5, FlattenIs
<1>8. ASSUME NEW z PROVE z \in Discovered(FlattenSeq(seqs)) <=> TieAt(p, s, z)
  <2>1. z \in Discovered(FlattenSeq(seqs)) <=> \E i \in DOMAIN seqs : z \in Discovered(seqs[i])
    BY <1>6, <1>7
  <2>2. \A i \in DOMAIN seqs : \E c \in twice : seqs[i] = f[c]
    BY <1>5 DEF Discovered
  <2>3. \A c \in twice : \E i \in DOMAIN seqs : seqs[i] = f[c]
    <3> SUFFICES ASSUME NEW c \in twice PROVE \E i \in DOMAIN seqs : seqs[i] = f[c]
      OBVIOUS
    <3>1. f[c] \in Discovered(seqs)
      BY <1>5
    <3> QED
      BY <3>1 DEF Discovered
  <2>4. z \in Discovered(FlattenSeq(seqs)) <=> \E c \in twice : z \in Discovered(f[c])
    BY <2>1, <2>2, <2>3
  <2> QED
    BY <1>1, <1>4, <2>4 DEF TieAt, board
<1> QED
  BY <1>3, <1>7, <1>8 DEF I, board, twice, shared

LEMMA EquationsListed ==
  ASSUME Ready, NEW p \in 0 .. (subtile_count - 1), NEW s, Edged(s)
  PROVE  LET board == EdgeBoard(p, s)
             centers == InOrder({c \in CentersOf({e[1] : e \in {f \in board : IsCandidate(f[2])}}) :
                                   Reads(EdgeEquation(p, board, c)) # {}})
             equations == [i \in DOMAIN centers |-> EdgeEquation(p, board, centers[i])]
         IN  equations \in Seq(Conditions(p)) /\ \A z : z \in Discovered(equations) <=> EquationAt(p, s, z)
<1> DEFINE board == EdgeBoard(p, s)
           new == {e[1] : e \in {f \in board : IsCandidate(f[2])}}
           kept == {c \in CentersOf(new) : Reads(EdgeEquation(p, board, c)) # {}}
           centers == InOrder(kept)
           eq == [c \in kept |-> EdgeEquation(p, board, c)]
           equations == [i \in DOMAIN centers |-> eq[centers[i]]]
           I == Conditions(p)
<1>1. \A c : c \in new <=> NewCell(p, s, c)
  BY NewIs
<1> HIDE DEF new
<1>2. IsFiniteSet(new) /\ \A c \in new : Reduced1(c)
  <2>1. IsFiniteSet(Cells(board)) /\ \A c \in Cells(board) : Reduced1(c)
    BY EdgeFinite
  <2>2. new \in SUBSET Cells(board)
    BY <1>1, NewIs
  <2> HIDE DEF board
  <2>3. IsFiniteSet(new)
    BY ONLY <2>1, <2>2, FS_Subset
  <2> QED
    BY <2>1, <2>2, <2>3
<1>3. IsFiniteSet(CentersOf(new)) /\ CentersOf(new) \subseteq Coordinate
  BY <1>2, CentersFinite
<1>4. \A c : c \in CentersOf(new) <=> \E d, i : NewCell(p, s, d) /\ i \in Bits /\ c = shift(d, Negated(ca_offsets[i]))
  BY <1>1 DEF CentersOf
<1>5. kept = CentersOf(new)
  <2> SUFFICES ASSUME NEW c \in CentersOf(new) PROVE Reads(EdgeEquation(p, board, c)) # {}
    OBVIOUS
  <2>1. PICK d, i : NewCell(p, s, d) /\ i \in Bits /\ c = shift(d, Negated(ca_offsets[i]))
    BY <1>4
  <2>2. PICK a \in Touched(p, s) : Stands(p, d, a)
    BY <2>1, NewStands
  <2> QED
    BY <2>1, <2>2, EdgeEquationSame
<1>6. IsFiniteSet(kept) /\ kept \in SUBSET Coordinate
  BY <1>3, <1>5
<1> HIDE DEF kept
<1>7. [i \in DOMAIN centers |-> EdgeEquation(p, board, centers[i])] = equations
  <2>1. \A i \in DOMAIN centers : centers[i] \in kept
    <3>1. centers \in Bijection(1 .. Cardinality(kept), kept)
      BY <1>6, InOrderLists
    <3> HIDE DEF centers
    <3> QED
      BY <3>1 DEF Bijection, Injection
  <2> HIDE DEF centers, board
  <2>2. \A i \in DOMAIN centers : eq[centers[i]] = EdgeEquation(p, board, centers[i])
    BY <2>1
  <2> HIDE DEF eq
  <2> QED
    BY <2>2
<1>8. eq \in Maps(kept, I) /\ \A c \in kept : eq[c] = EdgeEquation(p, board, c)
  <2>1. \A c \in kept : EdgeEquation(p, board, c) \in I
    BY EdgeEquationIs DEF Conditions
  <2> HIDE DEF I
  <2> QED
    BY <2>1 DEF Maps
<1> HIDE DEF eq, I
<1>9. equations \in Seq(I) /\ Discovered(equations) = {eq[c] : c \in kept}
  BY <1>6, <1>8, ListedInOrder
<1> HIDE DEF equations
<1>10. ASSUME NEW z PROVE z \in Discovered(equations) <=> EquationAt(p, s, z)
  <2>1. z \in Discovered(equations) <=> \E c \in CentersOf(new) : z = EdgeEquation(p, board, c)
    BY <1>5, <1>8, <1>9
  <2> QED
    BY <1>4, <2>1 DEF EquationAt, board
<1> QED
  BY <1>7, <1>9, <1>10 DEF I, board, kept, centers, new

LEMMA ConditionsAre ==
  ASSUME Ready, NEW p \in 0 .. (subtile_count - 1), NEW s, Edged(s)
  PROVE  /\ EdgeConditions(p, s) \in Seq(Conditions(p))
         /\ \A z : z \in Discovered(EdgeConditions(p, s)) <=> TieAt(p, s, z) \/ EquationAt(p, s, z)
<1> DEFINE board == EdgeBoard(p, s)
           shared == InOrder({c \in Cells(board) : Cardinality(Found(board, c)) > 1})
           ties == FlattenSeq([i \in DOMAIN shared |-> Equalities(p, Found(board, shared[i]))])
           centers == InOrder({c \in CentersOf({e[1] : e \in {f \in board : IsCandidate(f[2])}}) :
                                 Reads(EdgeEquation(p, board, c)) # {}})
           equations == [i \in DOMAIN centers |-> EdgeEquation(p, board, centers[i])]
           I == Conditions(p)
<1>1. ties \in Seq(I) /\ \A z : z \in Discovered(ties) <=> TieAt(p, s, z)
  BY TiesListed
<1>2. equations \in Seq(I) /\ \A z : z \in Discovered(equations) <=> EquationAt(p, s, z)
  BY EquationsListed
<1>3. EdgeConditions(p, s) = ties \o equations
  BY DEF EdgeConditions
<1> HIDE DEF ties, equations, I
<1>4. ties \o equations \in Seq(I) /\ Discovered(ties \o equations) = Discovered(ties) \cup Discovered(equations)
  BY <1>1, <1>2, JoinedIs
<1> QED
  BY <1>1, <1>2, <1>3, <1>4 DEF I

-----------------------------------------------------------------------------
\* What the projections of an edge say, in terms of the physical mirror image.
IsNew(reads) == \E read \in reads : IsCandidate(read)

Past(p) == (1 .. history_window(p)) \X {0, 1}

BoundaryRight(p, s, ps) ==
  /\ ps \in Projections(Past(p), Conditions(p)) /\ Fits(ps, maximum_projection_history_bits)
  /\ \A a \in Touched(p, s), i \in Bits :
       \E e \in Imposed(ps) : Len(e) = 10 /\ Agree(e, PhysicalEquation(p, s, a, i))
  /\ \A e \in Imposed(ps) :
       Len(e) = 10 => \E a \in Touched(p, s), i \in Bits : Agree(e, PhysicalEquation(p, s, a, i))
  /\ \A e \in Imposed(ps) : Len(e) # 10 =>
       \E k : Reads(e) = Found(StripBoard(p, s), k) /\ Cardinality(Reads(e)) > 1 /\ IsNew(Reads(e))
  /\ \A k : (Cardinality(Found(StripBoard(p, s), k)) > 1 /\ IsNew(Found(StripBoard(p, s), k))) =>
       \E e \in Imposed(ps) : Len(e) # 10 /\ Reads(e) = Found(StripBoard(p, s), k)
  /\ \A t : (Cardinality(Told(p, s, t)) > 1 /\ IsNew(Told(p, s, t))) =>
       \E e \in Imposed(ps) : Reads(e) = Told(p, s, t)

LEMMA HistoryIs ==
  ASSUME Ready, NEW p \in 0 .. (subtile_count - 1), NEW reads, reads \subseteq EdgeWindow(p),
         IsFiniteSet(reads), Cardinality(reads) <= 10
  PROVE  /\ History(reads) \in SUBSET Past(p) /\ IsFiniteSet(History(reads))
         /\ Cardinality(History(reads)) <= maximum_projection_history_bits
<1>1. History(reads) \in SUBSET reads
  BY DEF History
<1>2. IsFiniteSet(History(reads)) /\ Cardinality(History(reads)) <= Cardinality(reads)
  BY <1>1, FS_Subset
<1>3. Cardinality(History(reads)) \in Nat /\ Cardinality(reads) \in Nat
  BY <1>2, FS_CardinalityType
<1>4. ASSUME NEW read \in History(reads) PROVE read \in Past(p)
  <2> DEFINE H == history_window(p)
             n == read[1]
             i == read[2]
  <2>1. H \in Nat
    BY ReadyNumbers DEF history_window
  <2>2. read \in (0 .. H) \X {0, 1} /\ n # 0
    BY DEF History, EdgeWindow, Window, IsCandidate
  <2>3. n \in 0 .. H /\ i \in {0, 1} /\ read = <<n, i>>
    BY <2>2
  <2> HIDE DEF H, n, i
  <2>4. n \in 1 .. H
    BY <2>1, <2>2, <2>3
  <2>5. <<n, i>> \in (1 .. H) \X {0, 1}
    BY <2>3, <2>4
  <2> QED
    BY <2>3, <2>5 DEF Past, H
<1> QED
  BY <1>2, <1>3, <1>4 DEF maximum_projection_history_bits

LEMMA ConditionIs ==
  ASSUME Ready, NEW p \in 0 .. (subtile_count - 1), NEW s, Edged(s), NEW z, TieAt(p, s, z) \/ EquationAt(p, s, z)
  PROVE  /\ Reads(z) \subseteq EdgeWindow(p) /\ IsFiniteSet(Reads(z)) /\ Cardinality(Reads(z)) <= 10
         /\ TieAt(p, s, z) => /\ Len(z) = 2
                              /\ \E t : Reads(z) = Told(p, s, t) /\ Cardinality(Told(p, s, t)) > 1 /\ IsNew(Told(p, s, t))
         /\ EquationAt(p, s, z) => Len(z) = 10
<1>1. ASSUME TieAt(p, s, z)
      PROVE  /\ Len(z) = 2 /\ Reads(z) \subseteq EdgeWindow(p) /\ IsFiniteSet(Reads(z)) /\ Cardinality(Reads(z)) <= 10
             /\ \E t : Reads(z) = Told(p, s, t) /\ Cardinality(Told(p, s, t)) > 1 /\ IsNew(Told(p, s, t))
  <2>1. PICK t : Cardinality(Told(p, s, t)) > 1 /\ z \in Discovered(Equalities(p, Told(p, s, t)))
    BY <1>1 DEF TieAt
  <2>2. /\ Len(z) = 2 /\ Reads(z) = Told(p, s, t) /\ IsNew(Told(p, s, t))
        /\ IsFiniteSet(Reads(z)) /\ Cardinality(Reads(z)) <= 2
    BY <2>1, EqualitiesAre DEF IsNew
  <2>3. Reads(z) \subseteq EdgeWindow(p)
    BY <2>2, ToldTwice
  <2>4. Cardinality(Reads(z)) \in Nat
    BY <2>2, FS_CardinalityType
  <2>5. Cardinality(Reads(z)) <= 10
    BY <2>2, <2>4
  <2> QED
    BY <2>1, <2>2, <2>3, <2>5
<1>2. ASSUME EquationAt(p, s, z)
      PROVE  Len(z) = 10 /\ Reads(z) \subseteq EdgeWindow(p) /\ IsFiniteSet(Reads(z)) /\ Cardinality(Reads(z)) <= 10
  <2>1. PICK c, i : z = EdgeEquation(p, EdgeBoard(p, s), shift(c, Negated(ca_offsets[i])))
    BY <1>2 DEF EquationAt
  <2> QED
    BY <2>1, EdgeEquationIs
<1> QED
  BY <1>1, <1>2

LEMMA NeverOverBudget ==
  ASSUME Ready, NEW p \in 0 .. (subtile_count - 1), NEW s, Edged(s)
  PROVE  ~OverBudget(p, s)
<1> DEFINE conditions == EdgeConditions(p, s)
<1>1. ASSUME NEW i \in DOMAIN conditions PROVE ~(Cardinality(History(Reads(conditions[i]))) > maximum_projection_history_bits)
  <2> DEFINE z == conditions[i]
  <2>1. z \in Discovered(conditions)
    BY DEF Discovered
  <2>2. TieAt(p, s, z) \/ EquationAt(p, s, z)
    BY <2>1, ConditionsAre
  <2> HIDE DEF z, conditions
  <2> DEFINE reads == Reads(z)
  <2>3. reads \subseteq EdgeWindow(p) /\ IsFiniteSet(reads) /\ Cardinality(reads) <= 10
    BY <2>2, ConditionIs
  <2> HIDE DEF reads
  <2> DEFINE n == Cardinality(History(reads))
  <2>4. IsFiniteSet(History(reads)) /\ n <= maximum_projection_history_bits
    BY <2>3, HistoryIs
  <2>5. n \in Nat
    BY <2>4, FS_CardinalityType
  <2> HIDE DEF n
  <2>6. ~(n > maximum_projection_history_bits)
    BY <2>4, <2>5 DEF maximum_projection_history_bits
  <2> QED
    BY <2>6 DEF n, reads, z
<1> QED
  BY <1>1 DEF OverBudget

LEMMA EdgeGrouped ==
  ASSUME Ready, NEW p \in 0 .. (subtile_count - 1), NEW s, Edged(s)
  PROVE  LET ps == EdgeProjections(p, s)
         IN  /\ ps \in Projections(Past(p), Conditions(p)) /\ Fits(ps, maximum_projection_history_bits)
             /\ \A z : z \in Imposed(ps) <=> TieAt(p, s, z) \/ EquationAt(p, s, z)
<1> DEFINE items == EdgeConditions(p, s)
           needs == [i \in DOMAIN items |-> History(Reads(items[i]))]
           K == Past(p)
           I == Conditions(p)
           budget == maximum_projection_history_bits
           g == EdgeProjections(p, s)
<1>1. items \in Seq(I) /\ \A z : z \in Discovered(items) <=> TieAt(p, s, z) \/ EquationAt(p, s, z)
  BY ConditionsAre
<1>2. g = Grouped(items, needs, budget)
  BY DEF EdgeProjections
<1>3. DOMAIN items = 1 .. Len(items)
  BY <1>1
<1>4. budget \in Nat
  BY DEF maximum_projection_history_bits
<1> HIDE DEF items, I, g
<1>5. ASSUME NEW n \in 1 .. Len(items)
      PROVE  needs[n] \in SUBSET K /\ IsFiniteSet(needs[n]) /\ Cardinality(needs[n]) <= budget
  <2> DEFINE z == items[n]
             reads == Reads(z)
  <2>1. z \in Discovered(items) /\ needs[n] = History(reads)
    BY <1>3 DEF Discovered
  <2>2. TieAt(p, s, z) \/ EquationAt(p, s, z)
    BY <1>1, <2>1
  <2> HIDE DEF z
  <2>3. reads \subseteq EdgeWindow(p) /\ IsFiniteSet(reads) /\ Cardinality(reads) <= 10
    BY <2>2, ConditionIs
  <2> HIDE DEF reads, needs, budget
  <2>4. History(reads) \in SUBSET Past(p) /\ IsFiniteSet(History(reads)) /\ Cardinality(History(reads)) <= maximum_projection_history_bits
    BY <2>3, HistoryIs
  <2> QED
    BY <2>1, <2>4 DEF budget
<1>6. needs \in Maps(1 .. Len(items), SUBSET K)
  BY <1>3, <1>5 DEF Maps
<1> HIDE DEF needs, K, budget
<1>7. g \in Projections(K, I) /\ Imposed(g) = Discovered(items) /\ Fits(g, budget)
  BY <1>1, <1>2, <1>4, <1>5, <1>6, GroupedIs
<1> QED
  BY <1>1, <1>7 DEF K, I, budget, g, items

LEMMA StripNew ==
  ASSUME NEW p, NEW s, NEW k, IsNew(Found(StripBoard(p, s), k))
  PROVE  \E a \in Touched(p, s) : ShipCell(a) = k
<1>1. PICK read \in Found(StripBoard(p, s), k) : IsCandidate(read)
  BY DEF IsNew
<1>2. read \in Strip(p, {0, 1}) /\ (ShipCell(Physical(p, read)) = k \/ ShipCell(MirrorOf(s, Physical(p, read))) = k)
  BY <1>1, StripBoardFound
<1>3. \E column \in {0, 1} : read = <<0, column>>
  <2>1. read = <<read[1], read[2]>> /\ read[2] \in {0, 1}
    BY <1>2 DEF Strip
  <2> QED
    BY <1>1, <2>1 DEF IsCandidate
<1>4. Physical(p, read) \in Touched(p, s) /\ MirrorOf(s, Physical(p, read)) \in Touched(p, s)
  BY <1>3 DEF Touched
<1> QED
  BY <1>2, <1>4

LEMMA NewSame ==
  ASSUME Ready, NEW p \in 0 .. (subtile_count - 1), NEW s, Edged(s), NEW c, NEW a, Stands(p, c, a)
  PROVE  Found(StripBoard(p, s), ShipCell(a)) = Told(p, s, c)
<1>1. Resting(p, c) /\ ShipCell(a) = ShipCell(to_physical(Above(c)))
  BY DEF Stands
<1>2. Low(p, c) /\ Reduced1(Above(c))
  <2> DEFINE w == spots[p].w
  <2>1. Reduced1(c) /\ Reduced1(Above(c)) /\ c.w = w
    BY <1>1 DEF Resting
  <2>2. c \in Coordinate /\ short_window \in Nat
    BY <2>1, PhysicalPlace, ReadyNumbers
  <2>3. c.w \in Int
    BY <2>2 DEF Coordinate
  <2> HIDE DEF w
  <2>4. c.w >= w - short_window
    BY <2>1, <2>2, <2>3
  <2> QED
    BY <2>1, <2>4 DEF Low, w
<1> QED
  BY <1>1, <1>2, EdgeSame

LEMMA BoundaryFor ==
  ASSUME Ready, NEW p \in 0 .. (subtile_count - 1), NEW s, Edged(s)
  PROVE  BoundaryRight(p, s, EdgeProjections(p, s))
<1> DEFINE ps == EdgeProjections(p, s)
           imposed == Imposed(ps)
<1>1. ps \in Projections(Past(p), Conditions(p)) /\ Fits(ps, maximum_projection_history_bits)
  BY EdgeGrouped
<1>2. \A z : z \in imposed <=> TieAt(p, s, z) \/ EquationAt(p, s, z)
  BY EdgeGrouped
<1> HIDE DEF ps
<1>3. ASSUME NEW a \in Touched(p, s), NEW i \in Bits
      PROVE  \E e \in imposed : Len(e) = 10 /\ Agree(e, PhysicalEquation(p, s, a, i))
  <2>1. PICK c : NewCell(p, s, c) /\ Stands(p, c, a)
    BY NewStands
  <2> DEFINE e == EdgeEquation(p, EdgeBoard(p, s), shift(c, Negated(ca_offsets[i])))
  <2>2. Agree(e, PhysicalEquation(p, s, a, i))
    BY <2>1, EdgeEquationSame
  <2>3. EquationAt(p, s, e)
    BY <2>1 DEF EquationAt
  <2> HIDE DEF e, imposed
  <2> QED
    BY <1>2, <2>2, <2>3, ConditionIs
<1>4. ASSUME NEW e \in imposed, Len(e) = 10
      PROVE  \E a \in Touched(p, s), i \in Bits : Agree(e, PhysicalEquation(p, s, a, i))
  <2>1. EquationAt(p, s, e)
    <3>1. TieAt(p, s, e) \/ EquationAt(p, s, e)
      BY <1>2
    <3>2. TieAt(p, s, e) => Len(e) = 2
      BY <3>1, ConditionIs
    <3> QED
      BY <1>4, <3>1, <3>2
  <2>2. PICK c, i : NewCell(p, s, c) /\ i \in Bits /\ e = EdgeEquation(p, EdgeBoard(p, s), shift(c, Negated(ca_offsets[i])))
    BY <2>1 DEF EquationAt
  <2>3. PICK a \in Touched(p, s) : Stands(p, c, a)
    BY <2>2, NewStands
  <2> QED
    BY <2>2, <2>3, EdgeEquationSame
<1>5. ASSUME NEW e \in imposed, Len(e) # 10
      PROVE  \E k : Reads(e) = Found(StripBoard(p, s), k) /\ Cardinality(Reads(e)) > 1 /\ IsNew(Reads(e))
  <2>1. TieAt(p, s, e) \/ EquationAt(p, s, e)
    BY <1>2
  <2>2. EquationAt(p, s, e) => Len(e) = 10
    BY <2>1, ConditionIs
  <2>3. TieAt(p, s, e)
    BY <1>5, <2>1, <2>2
  <2>4. \E t : Reads(e) = Told(p, s, t) /\ Cardinality(Told(p, s, t)) > 1 /\ IsNew(Told(p, s, t))
    BY <2>1, <2>3, ConditionIs
  <2>5. PICK t : Reads(e) = Told(p, s, t) /\ Cardinality(Told(p, s, t)) > 1 /\ IsNew(Told(p, s, t))
    BY ONLY <2>4
  <2>6. NewCell(p, s, t)
    BY <2>5, NewIs DEF IsNew
  <2>7. PICK a \in Touched(p, s) : Stands(p, t, a)
    BY <2>6, NewStands
  <2>8. Found(StripBoard(p, s), ShipCell(a)) = Told(p, s, t)
    BY <2>7, NewSame
  <2> QED
    BY <2>5, <2>8
<1>6. ASSUME NEW k, Cardinality(Found(StripBoard(p, s), k)) > 1, IsNew(Found(StripBoard(p, s), k))
      PROVE  \E e \in imposed : Len(e) # 10 /\ Reads(e) = Found(StripBoard(p, s), k)
  <2>1. PICK a \in Touched(p, s) : ShipCell(a) = k
    BY <1>6, StripNew
  <2>2. PICK c : NewCell(p, s, c) /\ Stands(p, c, a)
    BY NewStands
  <2>3. Found(StripBoard(p, s), k) = Told(p, s, c)
    BY <2>1, <2>2, NewSame
  <2>4. Cardinality(Told(p, s, c)) > 1 /\ c \in Cells(EdgeBoard(p, s)) /\ \E read \in Told(p, s, c) : IsCandidate(read)
    BY <1>6, <2>2, <2>3, NewIs
  <2>5. PICK e : e \in Discovered(Equalities(p, Told(p, s, c)))
    BY <2>4, EqualitiesAre
  <2>6. Len(e) = 2 /\ Reads(e) = Told(p, s, c)
    BY <2>4, <2>5, EqualitiesAre
  <2>7. TieAt(p, s, e)
    BY <2>4, <2>5 DEF TieAt
  <2>8. e \in imposed
    BY <1>2, <2>7
  <2> QED
    BY <2>3, <2>6, <2>8
<1>7. ASSUME NEW t, Cardinality(Told(p, s, t)) > 1, IsNew(Told(p, s, t))
      PROVE  \E e \in imposed : Reads(e) = Told(p, s, t)
  <2>1. PICK read \in Told(p, s, t) : IsCandidate(read)
    BY <1>7 DEF IsNew
  <2>2. t \in Cells(EdgeBoard(p, s))
    BY <2>1, EdgeCells
  <2>3. PICK e : e \in Discovered(Equalities(p, Told(p, s, t)))
    BY <1>7, <2>1, EqualitiesAre
  <2>4. Reads(e) = Told(p, s, t)
    BY <1>7, <2>3, EqualitiesAre
  <2>5. e \in imposed
    BY <1>2, <1>7, <2>2, <2>3 DEF TieAt
  <2> QED
    BY <2>4, <2>5
<1> HIDE DEF imposed
<1>8. BoundaryRight(p, s, ps)
  BY <1>1, <1>3, <1>4, <1>5, <1>6, <1>7 DEF BoundaryRight, imposed
<1> QED
  BY <1>8 DEF ps

-----------------------------------------------------------------------------
\* A cell read twice was compared when the later of the two rows was the candidate.
LEMMA AliasTied ==
  ASSUME Ready, NEW p \in 0 .. (subtile_count - 1), NEW s, Edged(s),
         NEW a \in EdgeWindow(p), NEW b \in EdgeWindow(p), a # b, a[1] <= b[1],
         ReadCell(p, b) = Image(s, ReadCell(p, a))
  PROVE  LET d == (p - a[1]) % subtile_count
             told == {<<0, a[2]>>, <<b[1] - a[1], b[2]>>}
         IN  /\ d \in 0 .. (subtile_count - 1)
             /\ \E t : Told(d, s, t) = told /\ Cardinality(told) > 1 /\ IsNew(told)
<1> DEFINE S == subtile_count
           u == a[1]
           v == b[1]
           i == a[2]
           l == b[2]
           d == (p - u) % S
           k == (p - u) \div S
           j == v - u
           n == <<0, i>>
           m == <<j, l>>
           mode == Mode(s)
<1>1. S \in Nat \ {0} /\ p \in Int /\ S \in Int
  BY ReadyNumbers
<1>2. /\ u \in Nat /\ v \in Nat /\ i \in {0, 1} /\ l \in {0, 1} /\ i \in Int /\ l \in Int
      /\ a = <<u, i>> /\ b = <<v, l>> /\ u <= v /\ a \in Nat \X Int /\ b \in Nat \X Int
  <2>1. {0, 1} \in SUBSET Int
    OBVIOUS
  <2>2. history_window(p) \in Nat /\ \A read \in Window(p, {0, 1}) : read[1] \in 0 .. history_window(p) /\ read[2] \in {0, 1}
    BY <2>1, StripWindow
  <2>3. a = <<a[1], a[2]>> /\ b = <<b[1], b[2]>>
    BY DEF EdgeWindow, Window
  <2>4. a \in Window(p, {0, 1}) /\ b \in Window(p, {0, 1})
    BY DEF EdgeWindow
  <2> QED
    BY <2>2, <2>3, <2>4
<1>3. n # m
  <2>1. a # b
    OBVIOUS
  <2> HIDE DEF u, v, i, l
  <2>2. ~(u = v /\ i = l)
    BY <1>2, <2>1
  <2> QED
    BY <1>2, <2>2
<1> HIDE DEF S, u, v, i, l
<1>4. d \in 0 .. (S - 1) /\ k \in Int /\ p - u = (S * k) + d /\ S * k \in Int
  <2> DEFINE g == p - u
  <2>1. g \in Int
    BY <1>1, <1>2
  <2> HIDE DEF g
  <2>2. g % S \in 0 .. (S - 1) /\ g \div S \in Int /\ g = (S * (g \div S)) + (g % S)
    BY <1>1, <2>1, Division
  <2> DEFINE f == g \div S
  <2> HIDE DEF f
  <2>3. f \in Int => S * f \in Int
    BY <1>1
  <2> QED
    BY <2>2, <2>3 DEF f, g, d, k
<1> HIDE DEF d, k
<1>5. j \in Nat /\ p - v = (d - j) + (S * k) /\ d - j \in Int /\ d \in Int /\ p - u = d + (S * k)
  <2>1. d \in Int
    BY <1>1, <1>4
  <2> DEFINE q == S * k
  <2>2. q \in Int /\ p - u = q + d
    BY <1>4
  <2> HIDE DEF q
  <2>3. j \in Nat /\ p - v = (d - j) + q /\ d - j \in Int /\ p - u = d + q
    BY <1>1, <1>2, <2>1, <2>2
  <2> QED
    BY <2>1, <2>3 DEF q
<1>6. ReadCell(p, a) = cell(i, p - u) /\ ReadCell(p, b) = cell(l, p - v)
  BY DEF ReadCell, u, v, i, l
<1> HIDE DEF j
<1>7. m \in Nat \X Int /\ n \in Nat \X Int /\ m[1] = j /\ m[2] = l /\ n[1] = 0 /\ n[2] = i
  BY <1>2, <1>5
<1> HIDE DEF n, m
<1>8. ReadCell(d, m) = cell(l, d - j) /\ ReadCell(d, n) = cell(i, d)
  <2>1. d - 0 = d
    BY <1>5
  <2> QED
    BY <1>7, <2>1 DEF ReadCell
<1> DEFINE e == ReadCell(d, m)
           c == ReadCell(d, n)
           h == S * k
<1>9. e \in Coordinate /\ c \in Coordinate
  BY <1>4, <1>7, ReadCellIs DEF S
<1>10. ReadCell(p, a) = Moved(c, 0, 0, h) /\ ReadCell(p, b) = Moved(e, 0, 0, h)
  <2>1. cell(i, d + (subtile_count * k)) = Moved(cell(i, d), 0, 0, subtile_count * k)
    BY <1>2, <1>4, <1>5, CellAbove
  <2> DEFINE g == d - j
  <2>2. g \in Int
    BY <1>5
  <2> HIDE DEF g
  <2>3. cell(l, g + (subtile_count * k)) = Moved(cell(l, g), 0, 0, subtile_count * k)
    BY <1>2, <1>4, <2>2, CellAbove
  <2> QED
    BY <1>5, <1>6, <1>8, <2>1, <2>3 DEF S, g
<1>11. mode \in EdgeMode /\ Reflecting(mode) /\ s \in Side /\ h \in Int
  BY <1>4 DEF Edged
<1>12. ReadCell(p, b) = reflect(ReadCell(p, a), mode, s, 0)
  BY DEF Image
<1> HIDE DEF mode, h, e, c
<1> DEFINE image == reflect(c, mode, s, 0)
<1>13. reflect(Moved(c, 0, 0, h), mode, s, 0) = Moved(image, 0, 0, h)
  BY <1>9, <1>11, ReflectAbove
<1>14. image \in Coordinate
  <2>1. Reduced1(c)
    BY <1>4, <1>7, ReadCellIs DEF S, c
  <2>2. Reduced1(reflect(c, mode, s, 0))
    BY <1>11, <2>1, MirrorPhysical
  <2> QED
    BY <2>2, PhysicalPlace
<1>15. image.w = c.w
  BY DEF reflect
<1> HIDE DEF image
<1>16. e = image
  <2>1. Moved(e, 0, 0, h) = Moved(image, 0, 0, h)
    BY <1>10, <1>12, <1>13
  <2> QED
    BY <1>9, <1>11, <1>14, <2>1, MovedOnce
<1>17. j \in 0 .. history_window(d)
  <2> DEFINE z == spots[d].w
  <2>1. c.w = z /\ z \in 0 .. (subtile_count - 1)
    BY <1>2, <1>4, <1>8, CandidateW DEF S, c
  <2>2. cell(l, d - j).w = z /\ short_window \in Nat
    BY <1>8, <1>15, <1>16, <2>1, ReadyNumbers DEF e
  <2>3. z \in Int /\ subtile_count \in Int
    BY <1>1, <2>1 DEF S
  <2>4. z >= z - short_window
    <3> HIDE DEF z
    <3> QED
      BY <2>2, <2>3
  <2>5. cell(l, d - j).w >= spots[d].w - short_window
    BY <2>2, <2>4
  <2> QED
    BY <1>2, <1>4, <1>5, <2>5, RowBound DEF S
<1>18. n \in EdgeWindow(d) /\ m \in EdgeWindow(d)
  <2>1. history_window(d) \in Nat
    <3>1. {0, 1} \in SUBSET Int
      OBVIOUS
    <3> QED
      BY <1>4, <3>1, StripWindow DEF S
  <2>2. 0 \in 0 .. history_window(d)
    BY <2>1
  <2> QED
    BY <1>2, <1>17, <2>2 DEF EdgeWindow, Window, n, m
<1>19. n \in Told(d, s, e) /\ m \in Told(d, s, e)
  BY <1>16, <1>18 DEF Told, Image, e, image, c, mode
<1>20. Told(d, s, e) = {n, m}
  <2>1. \A f1, f2, f3 \in Told(d, s, e) : f1 = f2 \/ f2 = f3 \/ f1 = f3
    BY <1>4, ToldTwice DEF S
  <2> QED
    BY <1>3, <1>19, <2>1
<1>21. Cardinality({n, m}) > 1
  <2>1. Cardinality({n, m}) = 2
    BY <1>3, PairSize
  <2> QED
    BY <2>1
<1>22. IsNew({n, m})
  BY <1>7 DEF IsNew, IsCandidate
<1>23. d \in 0 .. (S - 1) /\ \E t : Told(d, s, t) = {n, m} /\ Cardinality({n, m}) > 1 /\ IsNew({n, m})
  BY <1>4, <1>20, <1>21, <1>22
<1> QED
  BY <1>23 DEF d, S, n, m, j, u, v, i, l

-----------------------------------------------------------------------------
\* The compact lookups.
GatheredFrom(bytes) ==
  LET byte == Ascending(bytes)
      at(j) == (7 + displacement) - byte[j]
  IN  <<14, at(1), at(2), at(4), at(3)>>

LayoutRight(l) ==
  /\ l.path = "one" =>
       /\ l.offsets = l.digits
       /\ Discovered(l.digits) = interior[1][1].key
       /\ l.gather # {} => GatheredFrom(l.gather) = l.digits
       /\ l.packed = l.ordered
  /\ l.path = "three" =>
       \A p \in 0 .. 1, k \in 1 .. 3 : ThreeOffsets(p)[k] = Ascending(interior[p + 1][k].key)

\* Looking an element up in a list that has it finds it.
LEMMA PositionIs ==
  ASSUME NEW s, NEW element, element \in Discovered(s)
  PROVE  Position(s, element) \in DOMAIN s /\ s[Position(s, element)] = element
<1>1. \E i \in DOMAIN s : s[i] = element
  BY DEF Discovered
<1> QED
  BY <1>1 DEF Position

\* The bytes of a gather are in ascending order.
LEMMA FourAscending ==
  ASSUME NEW d \in 1 .. 3
  PROVE  LET byte == Ascending({0, d, 2 * d, 7})
         IN  byte[1] = 0 /\ byte[2] = d /\ byte[3] = 2 * d /\ byte[4] = 7
<1> DEFINE T == {0, d, 2 * d, 7}
           below(n) == {m \in T : m < n}
           byte == Ascending(T)
<1>1. d \in Int /\ 0 < d /\ d < 2 * d /\ 2 * d < 7 /\ 2 * d \in Int /\ T \subseteq Int
  OBVIOUS
<1>2. below(0) = {} /\ below(d) = {0} /\ below(2 * d) = {0, d} /\ below(7) = {0, d, 2 * d}
  BY <1>1
<1>3. /\ Cardinality(below(0)) = 0 /\ Cardinality(below(d)) = 1
      /\ Cardinality(below(2 * d)) = 2 /\ Cardinality(below(7)) = 3
  <2>1. Cardinality({}) = 0 /\ IsFiniteSet({})
    BY FS_EmptySet
  <2>2. Cardinality({0}) = 1 /\ IsFiniteSet({0})
    BY FS_Singleton
  <2>3. Cardinality({0, d}) = 2 /\ IsFiniteSet({0, d})
    <3>1. 0 # d
      BY <1>1
    <3> QED
      BY ONLY <3>1, PairSize
  <2>4. {0, d, 2 * d} = {0, d} \cup {2 * d} /\ 2 * d \notin {0, d}
    BY <1>1
  <2> DEFINE e == 2 * d
             P == {0, d}
  <2>5. e \notin P /\ IsFiniteSet(P) /\ Cardinality(P) = 2
    BY <2>3, <2>4
  <2> HIDE DEF e, P
  <2>6. Cardinality(P \cup {e}) = Cardinality(P) + 1
    BY <2>5, FS_AddElement
  <2>7. Cardinality({0, d, 2 * d}) = 3
    BY <2>4, <2>5, <2>6 DEF e, P
  <2> QED
    BY <1>2, <2>1, <2>2, <2>3, <2>7
<1> HIDE DEF below
<1>4. Cardinality(T) = 4 /\ IsFiniteSet(T)
  <2> DEFINE P == {0, d, 2 * d}
  <2>1. P \in SUBSET Int /\ 7 \notin P /\ T = P \cup {7}
    BY <1>1
  <2>2. IsFiniteSet(P) /\ Cardinality(P) = 3
    <3>1. below(7) = P
      BY <1>2
    <3>2. IsFiniteSet({0, d}) /\ IsFiniteSet({2 * d})
      BY PairSize, FS_Singleton
    <3>3. IsFiniteSet({0, d} \cup {2 * d})
      BY <3>2, FS_Union
    <3>4. P = {0, d} \cup {2 * d}
      OBVIOUS
    <3> QED
      BY <1>3, <3>1, <3>3, <3>4
  <2> HIDE DEF P, T
  <2>3. IsFiniteSet(P \cup {7}) /\ Cardinality(P \cup {7}) = Cardinality(P) + 1
    BY <2>1, <2>2, FS_AddElement
  <2> QED
    BY <2>1, <2>2, <2>3
<1>5. byte = [i \in 1 .. 4 |-> CHOOSE n \in T : Cardinality(below(n)) = i - 1]
  BY <1>4 DEF Ascending, below
<1>6. ASSUME NEW n \in T
      PROVE  /\ Cardinality(below(n)) = 0 => n = 0
             /\ Cardinality(below(n)) = 1 => n = d
             /\ Cardinality(below(n)) = 2 => n = 2 * d
             /\ Cardinality(below(n)) = 3 => n = 7
  <2>1. n = 0 \/ n = d \/ n = 2 * d \/ n = 7
    OBVIOUS
  <2> HIDE DEF T
  <2> QED
    BY <1>3, <2>1
<1>7. 0 \in T /\ d \in T /\ 2 * d \in T /\ 7 \in T
  OBVIOUS
<1> HIDE DEF T
<1> DEFINE size(n) == Cardinality(below(n))
           at(i) == CHOOSE n \in T : size(n) = i - 1
<1>8. byte[1] = at(1) /\ byte[2] = at(2) /\ byte[3] = at(3) /\ byte[4] = at(4)
  BY <1>5
<1>9. /\ \A n \in T : size(n) = 0 => n = 0
      /\ \A n \in T : size(n) = 1 => n = d
      /\ \A n \in T : size(n) = 2 => n = 2 * d
      /\ \A n \in T : size(n) = 3 => n = 7
      /\ size(0) = 0 /\ size(d) = 1 /\ size(2 * d) = 2 /\ size(7) = 3
  BY <1>3, <1>6
<1> HIDE DEF size, byte
<1>10. at(1) = 0 /\ at(2) = d
  BY <1>7, <1>9
<1>11. at(3) = 2 * d /\ at(4) = 7
  BY <1>7, <1>9
<1> QED
  BY <1>8, <1>10, <1>11 DEF byte, T

LEMMA OneRight ==
  ASSUME Ready, NEW q, q.key \in SUBSET Int, IsFiniteSet(q.key), Cardinality(q.key) = 5
  PROVE  LET l == OneProjection(q)
         IN  /\ l.path = "one" /\ l.offsets = l.digits /\ Discovered(l.digits) = q.key
             /\ l.gather # {} => GatheredFrom(l.gather) = l.digits
             /\ l.packed = l.ordered
<1> DEFINE K == q.key
           rows == Ascending(K)
           order == locality_order
           local == Discovered(order) = K
           offsets == IF local THEN order ELSE rows
           digits == IF local THEN [i \in 1 .. 5 |-> rows[Position(rows, order[i])]] ELSE rows
           p7 == period = 7 /\ displacement \in 1 .. 3 /\ local
           gather == IF p7 THEN {0, displacement, 2 * displacement, 7} ELSE {}
           shifts == K \subseteq 1 .. 21
           ordered == IF shifts THEN rows ELSE <<>>
           packed == IF shifts THEN [j \in 1 .. 5 |-> digits[Position(offsets, rows[j])]] ELSE <<>>
           l == OneProjection(q)
<1>1. l.path = "one" /\ l.offsets = offsets /\ l.digits = digits /\ l.gather = gather /\ l.ordered = ordered /\ l.packed = packed
  BY DEF OneProjection
<1> HIDE DEF l
<1>2. rows \in Bijection(1 .. 5, K)
  BY AscendingLists
<1>3. rows = [i \in 1 .. 5 |-> CHOOSE n \in K : Cardinality({m \in K : m < n}) = i - 1]
  BY DEF Ascending
<1> HIDE DEF K
<1>4. rows \in [1 .. 5 -> K] /\ Discovered(rows) = K /\ rows = [i \in 1 .. 5 |-> rows[i]]
  <2> HIDE DEF rows
  <2>1. rows \in [1 .. 5 -> K] /\ \A n \in K : \E i \in 1 .. 5 : rows[i] = n
    BY <1>2 DEF Bijection, Injection, Surjection
  <2> QED
    BY <2>1 DEF Discovered
<1> HIDE DEF rows
<1>5. DOMAIN order = 1 .. 5 /\ order = [i \in 1 .. 5 |-> order[i]]
  BY DEF locality_order
<1>6. order = <<2 * period, period + displacement, period, displacement, period - displacement>>
  BY DEF locality_order
<1> HIDE DEF order
<1>7. ASSUME local PROVE digits = order
  <2>1. \A i \in 1 .. 5 : order[i] \in Discovered(rows)
    BY <1>4, <1>5, <1>7 DEF Discovered
  <2>2. \A i \in 1 .. 5 : rows[Position(rows, order[i])] = order[i]
    BY <2>1, PositionIs
  <2>3. digits = [i \in 1 .. 5 |-> rows[Position(rows, order[i])]]
    BY <1>7
  <2>4. [i \in 1 .. 5 |-> rows[Position(rows, order[i])]] = [i \in 1 .. 5 |-> order[i]]
    BY <2>2
  <2> QED
    BY <1>5, <2>3, <2>4
<1>8. offsets = digits
  BY <1>7
<1>9. Discovered(digits) = K
  <2>1. CASE local
    BY <1>7, <2>1
  <2>2. CASE ~local
    BY <1>4, <2>2
  <2> QED
    BY <2>1, <2>2
<1>10. ASSUME p7 PROVE GatheredFrom(gather) = digits
  <2> DEFINE d == displacement
             byte == Ascending({0, d, 2 * d, 7})
  <2>1. d \in 1 .. 3 /\ period = 7 /\ gather = {0, d, 2 * d, 7} /\ local
    BY <1>10
  <2>2. byte[1] = 0 /\ byte[2] = d /\ byte[3] = 2 * d /\ byte[4] = 7
    BY <2>1, FourAscending
  <2>3. GatheredFrom(gather) = <<14, (7 + d) - byte[1], (7 + d) - byte[2], (7 + d) - byte[4], (7 + d) - byte[3]>>
    BY <2>1 DEF GatheredFrom
  <2>4. order = <<2 * 7, 7 + d, 7, d, 7 - d>>
    BY <1>6, <2>1
  <2> HIDE DEF byte, d, gather
  <2>5. (7 + d) - 0 = 7 + d /\ (7 + d) - d = 7 /\ (7 + d) - 7 = d /\ (7 + d) - (2 * d) = 7 - d /\ 2 * 7 = 14
    BY <2>1
  <2>6. GatheredFrom(gather) = <<14, 7 + d, 7, d, 7 - d>>
    BY <2>2, <2>3, <2>5
  <2>7. order = <<14, 7 + d, 7, d, 7 - d>>
    BY <2>4, <2>5
  <2> QED
    BY <1>7, <2>1, <2>6, <2>7
<1>11. gather # {} => p7
  BY DEF gather
<1>12. packed = ordered
  <2>1. CASE shifts
    <3>1. \A j \in 1 .. 5 : rows[j] \in Discovered(offsets)
      BY <1>4, <1>8, <1>9
    <3> HIDE DEF offsets, digits
    <3>2. \A j \in 1 .. 5 : digits[Position(offsets, rows[j])] = rows[j]
      BY <1>8, <3>1, PositionIs
    <3>3. packed = [j \in 1 .. 5 |-> digits[Position(offsets, rows[j])]]
      BY <2>1
    <3>4. [j \in 1 .. 5 |-> digits[Position(offsets, rows[j])]] = [j \in 1 .. 5 |-> rows[j]]
      BY <3>2
    <3> QED
      BY <1>4, <2>1, <3>3, <3>4
  <2>2. CASE ~shifts
    BY <2>2
  <2> QED
    BY <2>1, <2>2
<1> HIDE DEF p7, gather, offsets, digits, packed, ordered
<1>13. /\ l.path = "one" /\ l.offsets = l.digits /\ Discovered(l.digits) = K
       /\ l.gather # {} => GatheredFrom(l.gather) = l.digits
       /\ l.packed = l.ordered
  BY <1>1, <1>8, <1>9, <1>10, <1>11, <1>12
<1> QED
  BY <1>13 DEF l, K

LEMMA ThreeRight ==
  ASSUME NEW p, ThreeCompatible(p), NEW k \in 1 .. 3
  PROVE  ThreeOffsets(p)[k] = Ascending(interior[p + 1][k].key)
<1> DEFINE K(n) == interior[p + 1][n].key
           rows(n) == Ascending(K(n))
           shared == <<rows(2)[1], rows(1)[1], rows(1)[3], rows(1)[4]>>
<1>1. ThreeOffsets(p) = <<rows(1), shared, rows(3)>>
  BY DEF ThreeOffsets
<1>2. Cardinality(K(2)) = 4 /\ rows(2)[2] = rows(1)[1] /\ rows(2)[3] = rows(1)[3] /\ rows(2)[4] = rows(1)[4]
  BY DEF ThreeCompatible
<1>3. DOMAIN rows(2) = 1 .. 4 /\ rows(2) = [i \in 1 .. 4 |-> rows(2)[i]]
  <2> DEFINE T == K(2)
  <2>1. Cardinality(T) = 4
    BY <1>2
  <2> HIDE DEF T
  <2>2. DOMAIN Ascending(T) = 1 .. 4 /\ Ascending(T) = [i \in 1 .. 4 |-> Ascending(T)[i]]
    BY <2>1 DEF Ascending
  <2> QED
    BY <2>2 DEF T
<1> HIDE DEF rows
<1>4. shared = rows(2)
  <2> DEFINE f == rows(2)
             tuple == <<f[1], f[2], f[3], f[4]>>
  <2>1. shared = tuple
    BY <1>2
  <2>2. f = [i \in 1 .. 4 |-> f[i]]
    BY <1>3
  <2> HIDE DEF f
  <2>3. tuple = [i \in 1 .. 4 |-> f[i]]
    OBVIOUS
  <2> QED
    BY <2>1, <2>2, <2>3 DEF f
<1>5. k = 1 \/ k = 2 \/ k = 3
  OBVIOUS
<1>6. ThreeOffsets(p)[k] = rows(k)
  BY <1>1, <1>4, <1>5
<1> QED
  BY <1>6 DEF rows

LEMMA LayoutFor ==
  ASSUME Ready, subtile_count = 1 => InteriorRight(0, interior[1])
  PROVE  LayoutRight(FastLayout)
<1> DEFINE l == FastLayout
           q == interior[1][1]
           one == subtile_count = 1 /\ Len(interior[1]) = 1 /\ Cardinality(interior[1][1].key) = 5
           three == subtile_count = 2 /\ ThreeCompatible(0) /\ ThreeCompatible(1)
<1>1. CASE one
  <2>1. l = OneProjection(q)
    BY <1>1 DEF FastLayout
  <2>2. q.key \in SUBSET Int /\ IsFiniteSet(q.key) /\ Cardinality(q.key) = 5
    <3> DEFINE ps == interior[1]
               H == history_window(0)
    <3>1. InteriorRight(0, ps) /\ Len(ps) = 1 /\ Cardinality(q.key) = 5
      BY <1>1
    <3>2. ps \in Projections(1 .. H, Entries(0)) /\ Fits(ps, maximum_projection_history_rows)
      BY <3>1 DEF InteriorRight
    <3> HIDE DEF ps
    <3>3. 1 \in 1 .. Len(ps)
      BY <3>1
    <3>4. ps[1].key \in SUBSET (1 .. H) /\ IsFiniteSet(ps[1].key)
      <4> DEFINE K == 1 .. H
                 I == Entries(0)
      <4>1. IsFiniteSet(ps[1].key)
        BY <3>2, <3>3 DEF Fits
      <4>2. ps \in Seq([key : SUBSET K, items : SUBSET I])
        BY <3>2 DEF Projections
      <4> HIDE DEF K, I
      <4> DEFINE R == [key : SUBSET K, items : SUBSET I]
      <4>5. ps \in Seq(R)
        BY <4>2
      <4> HIDE DEF R
      <4>6. ps[1] \in R
        BY <3>3, <4>5
      <4>3. ps[1] \in [key : SUBSET K, items : SUBSET I]
        BY <4>6 DEF R
      <4>4. ps[1].key \in SUBSET K
        BY <4>3
      <4> QED
        BY <4>1, <4>4 DEF K
    <3>5. 1 .. H \subseteq Int
      OBVIOUS
    <3> QED
      BY <3>1, <3>4, <3>5 DEF ps
  <2> HIDE DEF q, l
  <2> DEFINE o == OneProjection(q)
  <2>3. /\ o.path = "one" /\ o.offsets = o.digits /\ Discovered(o.digits) = q.key
        /\ o.gather # {} => GatheredFrom(o.gather) = o.digits
        /\ o.packed = o.ordered
    BY <2>2, OneRight
  <2> HIDE DEF o
  <2>4. LayoutRight(o)
    BY <2>3 DEF LayoutRight, q
  <2> QED
    BY <2>1, <2>4 DEF o, l
<1>2. CASE ~one /\ three
  <2>1. l = [NoFast EXCEPT !.path = "three"]
    BY <1>2 DEF FastLayout
  <2>2. l.path = "three"
    BY <2>1 DEF NoFast
  <2>3. \A p \in 0 .. 1 : ThreeCompatible(p)
    <3>1. \A p \in 0 .. 1 : p = 0 \/ p = 1
      OBVIOUS
    <3> QED
      BY <1>2, <3>1
  <2>4. \A p \in 0 .. 1, k \in 1 .. 3 : ThreeOffsets(p)[k] = Ascending(interior[p + 1][k].key)
    BY <2>3, ThreeRight
  <2> HIDE DEF l
  <2>5. LayoutRight(l)
    BY <2>2, <2>4 DEF LayoutRight
  <2> QED
    BY <2>5 DEF l
<1>3. CASE ~one /\ ~three
  <2>1. l = NoFast
    BY <1>3 DEF FastLayout
  <2>2. l.path = "generic"
    BY <2>1 DEF NoFast
  <2> HIDE DEF l
  <2>3. LayoutRight(l)
    BY <2>2 DEF LayoutRight
  <2> QED
    BY <2>3 DEF l
<1> QED
  BY <1>1, <1>2, <1>3

\* The first row checked in a phase has its whole history window below it.
LEMMA FirstRow ==
  ASSUME Ready, NEW p \in 0 .. (subtile_count - 1)
  PROVE  LET firstRow == CHOOSE row \in short_window .. long_window : subtile_position(row) = p
         IN  firstRow \in Nat /\ history_window(p) <= firstRow /\ history_window(p) \in Nat
<1> DEFINE S == subtile_count
           W == short_window
           L == long_window
           row0 == CHOOSE row \in W .. L : subtile_position(row) = p
<1>1. S \in Nat \ {0} /\ W \in Nat /\ L = W + S /\ p \in 0 .. (S - 1) /\ p \in Int
  BY ReadyNumbers
<1>2. PICK m \in Nat : W = S * m
  BY ReadyNumbers
<1>3. ASSUME NEW d \in 0 .. S, d < S PROVE (W + d) % S = d
  <2> DEFINE e == W + d
  <2>1. d \in 0 .. (S - 1) /\ e \in Int
    BY <1>1, <1>3
  <2>2. e = (S * m) + d
    BY <1>2
  <2> HIDE DEF S, W, e, L
  <2>3. m \in Int
    OBVIOUS
  <2>4. e % S = d
    BY <1>1, <2>1, <2>2, <2>3, QuotientUnique
  <2> QED
    BY <2>4 DEF e
<1>4. \E row \in W .. L : subtile_position(row) = p
  <2> DEFINE row1 == W + p
  <2>1. p \in 0 .. S /\ p < S
    BY <1>1
  <2>2. row1 % S = p
    BY <1>3, <2>1
  <2> HIDE DEF W, S, L
  <2>3. row1 \in W .. L
    BY <1>1, <2>1
  <2> QED
    BY <2>2, <2>3 DEF subtile_position, S
<1>5. row0 \in W .. L /\ row0 % S = p
  <2> HIDE DEF W, L
  <2> QED
    BY <1>4 DEF subtile_position
<1> HIDE DEF row0
<1> DEFINE d == row0 - W
<1>6. d \in 0 .. S /\ row0 = W + d /\ row0 \in Nat
  <2> HIDE DEF S, W, L
  <2> QED
    BY <1>1, <1>5
<1> HIDE DEF d
<1>7. ~(d < p)
  <2> SUFFICES ASSUME d < p PROVE FALSE
    OBVIOUS
  <2>1. d < S /\ d \in Int /\ p \in Int
    BY <1>1, <1>6
  <2>2. (W + d) % S = d
    BY <1>3, <1>6, <2>1
  <2>3. d = p
    BY <1>5, <1>6, <2>2
  <2> QED
    BY <2>1, <2>3
<1>8. history_window(p) = W + p
  BY DEF history_window
<1>9. W + p <= row0 /\ W + p \in Nat
  <2> HIDE DEF S, W, L
  <2> QED
    BY <1>1, <1>6, <1>7
<1> QED
  BY <1>6, <1>8, <1>9 DEF row0

-----------------------------------------------------------------------------
\* What is compiled stays right while the movement, the tile and the edges stay.
Settled == <<movement, tile, bezout, spots, edges>>

ImageAt(p, s, read) == Image(s, ReadCell(p, read))
MirrorAt(p, s, read) == MirrorOf(s, Physical(p, read))
ShipAt(p, read) == ShipCell(Physical(p, read))
ShipMirrorAt(p, s, read) == ShipCell(MirrorAt(p, s, read))

LEMMA SettledIs ==
  ASSUME UNCHANGED Settled
  PROVE  /\ displacement' = displacement /\ period' = period /\ diagonal' = diagonal
         /\ gcd' = gcd /\ subtile_count' = subtile_count /\ w_time' = w_time /\ w_space' = w_space
         /\ spots' = spots /\ left_edge' = left_edge /\ right_edge' = right_edge
         /\ UNCHANGED <<movement, tile, bezout>>
  BY DEF Settled, movement, tile, bezout, edges

LEMMA ReadySettled == ASSUME Ready, UNCHANGED Settled PROVE Ready'
<1>1. UNCHANGED <<movement, tile, bezout>> /\ spots' = spots /\ subtile_count' = subtile_count
      /\ displacement' = displacement /\ period' = period /\ diagonal' = diagonal
  BY SettledIs
<1>2. Constructed'
  BY <1>1, ConstructedUnchanged DEF Ready
<1>3. Reduced' = Reduced
  BY <1>1, TileUnchanged
<1>4. Listed'
  BY <1>1, <1>3 DEF Ready, Listed
<1> QED
  BY <1>1, <1>2, <1>4 DEF Ready

LEMMA WindowsSettled ==
  ASSUME UNCHANGED Settled
  PROVE  /\ short_window' = short_window /\ long_window' = long_window
         /\ \A p : history_window(p)' = history_window(p) /\ StripRow(p)' = StripRow(p)
         /\ \A p, columns : Window(p, columns)' = Window(p, columns) /\ Strip(p, columns)' = Strip(p, columns)
         /\ \A p : EdgeWindow(p)' = EdgeWindow(p) /\ Past(p)' = Past(p) /\ Conditions(p)' = Conditions(p)
                   /\ Entries(p)' = Entries(p)
<1>1. period' = period /\ diagonal' = diagonal /\ subtile_count' = subtile_count
  BY SettledIs
<1>2. short_window' = short_window /\ long_window' = long_window
  BY <1>1 DEF short_window, long_window
<1>3. \A p : history_window(p)' = history_window(p) /\ StripRow(p)' = StripRow(p)
  BY <1>2 DEF history_window, StripRow
<1>4. \A p, columns : Window(p, columns)' = Window(p, columns) /\ Strip(p, columns)' = Strip(p, columns)
  BY <1>3 DEF Window, Strip
<1>5. \A p : EdgeWindow(p)' = EdgeWindow(p)
  BY <1>4 DEF EdgeWindow
<1>6. \A p : Past(p)' = Past(p)
  BY <1>3 DEF Past
<1>7. \A p : Conditions(p)' = Conditions(p)
  BY <1>5 DEF Conditions
<1>8. \A p : Entries(p)' = Entries(p)
  BY <1>4 DEF Entries
<1> QED
  BY <1>2, <1>3, <1>4, <1>5, <1>6, <1>7, <1>8

LEMMA CellsSettled ==
  ASSUME UNCHANGED Settled
  PROVE  /\ \A i, depth : cell(i, depth)' = cell(i, depth)
         /\ \A c : to_physical(c)' = to_physical(c) /\ ShipCell(c)' = ShipCell(c)
         /\ \A c, s : Image(s, c)' = Image(s, c) /\ MirrorOf(s, c)' = MirrorOf(s, c)
         /\ \A s : Mode(s)' = Mode(s) /\ (Edged(s)' <=> Edged(s))
<1>1. /\ displacement' = displacement /\ period' = period /\ diagonal' = diagonal
      /\ gcd' = gcd /\ subtile_count' = subtile_count /\ w_time' = w_time /\ w_space' = w_space
      /\ spots' = spots /\ left_edge' = left_edge /\ right_edge' = right_edge
  BY SettledIs
<1>2. \A i, depth : cell(i, depth)' = cell(i, depth)
  BY <1>1 DEF cell, floor_mod, floor_div, Remainder, Quotient
<1>3. \A c : to_physical(c)' = to_physical(c)
  BY <1>1 DEF to_physical, Numerators, Quotient
<1>4. \A c : ShipCell(c)' = ShipCell(c)
  BY <1>1 DEF ShipCell, floor_div, Remainder, Quotient
<1>5. \A s : Mode(s)' = Mode(s)
  BY <1>1 DEF Mode
<1>6. \A mode, s : local_constant(mode, s)' = local_constant(mode, s)
  BY <1>1 DEF local_constant
<1>7. \A c, mode, s, origin : reflect(c, mode, s, origin)' = reflect(c, mode, s, origin)
  BY <1>1, <1>6 DEF reflect, floor_mod, Remainder, Quotient
<1>8. \A c, mode, s : PhysicalMirror(c, mode, s)' = PhysicalMirror(c, mode, s)
  BY <1>1, <1>6 DEF PhysicalMirror
<1>9. \A mode : edge_compatible(mode)' <=> edge_compatible(mode)
  BY <1>1 DEF edge_compatible
<1>10. \A c, s : Image(s, c)' = Image(s, c)
  BY <1>5, <1>7 DEF Image
<1>11. \A c, s : MirrorOf(s, c)' = MirrorOf(s, c)
  BY <1>5, <1>8 DEF MirrorOf
<1>12. \A s : Edged(s)' <=> Edged(s)
  BY <1>5, <1>9 DEF Edged, Reflecting
<1> QED
  BY <1>2, <1>3, <1>4, <1>5, <1>10, <1>11, <1>12

LEMMA ReadsSettled ==
  ASSUME UNCHANGED Settled
  PROVE  /\ \A p, read : Physical(p, read)' = Physical(p, read) /\ ShipAt(p, read)' = ShipAt(p, read)
         /\ \A p, s, t : Told(p, s, t)' = Told(p, s, t)
         /\ \A p, s : StripBoard(p, s)' = StripBoard(p, s) /\ Touched(p, s)' = Touched(p, s)
         /\ \A p, s, a, i : PhysicalEquation(p, s, a, i)' = PhysicalEquation(p, s, a, i)
<1>1. \A p, read : ReadCell(p, read)' = ReadCell(p, read)
  BY CellsSettled DEF ReadCell
<1>2. \A p, read : Physical(p, read)' = Physical(p, read)
  <2>1. \A p, read : cell(read[2], StripRow(p) - read[1])' = cell(read[2], StripRow(p) - read[1])
    BY CellsSettled, WindowsSettled
  <2> QED
    BY <2>1, CellsSettled DEF Physical
<1>3. \A p, read : ShipAt(p, read)' = ShipAt(p, read)
  BY <1>2, CellsSettled DEF ShipAt
<1>4. \A p, s, read : ImageAt(p, s, read)' = ImageAt(p, s, read)
  BY <1>1, CellsSettled DEF ImageAt
<1>5. \A p, s, read : MirrorAt(p, s, read)' = MirrorAt(p, s, read)
  BY <1>2, CellsSettled DEF MirrorAt
<1>6. \A p, s, read : ShipMirrorAt(p, s, read)' = ShipMirrorAt(p, s, read)
  BY <1>5, CellsSettled DEF ShipMirrorAt
<1>7. ASSUME NEW p, NEW s, NEW t PROVE Told(p, s, t)' = Told(p, s, t)
  <2>1. Told(p, s, t) = {read \in EdgeWindow(p) : ReadCell(p, read) = t} \cup {read \in EdgeWindow(p) : ImageAt(p, s, read) = t}
    BY DEF Told, ImageAt
  <2>2. Told(p, s, t)' = ({read \in EdgeWindow(p) : ReadCell(p, read) = t} \cup {read \in EdgeWindow(p) : ImageAt(p, s, read) = t})'
    BY DEF Told, ImageAt
  <2>3. EdgeWindow(p)' = EdgeWindow(p)
    BY WindowsSettled
  <2> QED
    BY <1>1, <1>4, <2>1, <2>2, <2>3
<1>8. ASSUME NEW p, NEW s PROVE StripBoard(p, s)' = StripBoard(p, s)
  <2>1. StripBoard(p, s) = {<<ShipAt(p, read), read>> : read \in Strip(p, {0, 1})}
                           \cup {<<ShipMirrorAt(p, s, read), read>> : read \in Strip(p, {0, 1})}
    BY DEF StripBoard, ShipAt, ShipMirrorAt, MirrorAt
  <2>2. StripBoard(p, s)' = ({<<ShipAt(p, read), read>> : read \in Strip(p, {0, 1})}
                             \cup {<<ShipMirrorAt(p, s, read), read>> : read \in Strip(p, {0, 1})})'
    BY DEF StripBoard, ShipAt, ShipMirrorAt, MirrorAt
  <2>3. Strip(p, {0, 1})' = Strip(p, {0, 1})
    BY WindowsSettled
  <2> QED
    BY <1>3, <1>6, <2>1, <2>2, <2>3
<1>9. ASSUME NEW p, NEW s PROVE Touched(p, s)' = Touched(p, s)
  <2> DEFINE candidates == {Physical(p, <<0, column>>) : column \in {0, 1}}
  <2>1. candidates' = candidates
    BY <1>2
  <2>2. Touched(p, s) = candidates \cup {MirrorOf(s, c) : c \in candidates}
    BY DEF Touched
  <2>3. Touched(p, s)' = (candidates \cup {MirrorOf(s, c) : c \in candidates})'
    BY DEF Touched
  <2> HIDE DEF candidates
  <2> QED
    BY <2>1, <2>2, <2>3, CellsSettled
<1>10. ASSUME NEW p, NEW s, NEW a, NEW i PROVE PhysicalEquation(p, s, a, i)' = PhysicalEquation(p, s, a, i)
  <2> DEFINE at(b) == PhysicalPlus(PhysicalPlus(a, Negated(ca_offsets[i])), ca_offsets[b])
  <2>1. PhysicalEquation(p, s, a, i) = [b \in Bits |-> Found(StripBoard(p, s), ShipCell(at(b)))]
    BY DEF PhysicalEquation
  <2>2. PhysicalEquation(p, s, a, i)' = [b \in Bits |-> Found(StripBoard(p, s), ShipCell(at(b)))]'
    BY DEF PhysicalEquation
  <2> HIDE DEF at
  <2> QED
    BY <1>8, <2>1, <2>2, CellsSettled
<1> QED
  BY <1>2, <1>3, <1>7, <1>8, <1>9, <1>10

LEMMA InteriorSettled ==
  ASSUME UNCHANGED Settled, NEW p, NEW ps
  PROVE  InteriorRight(p, ps)' <=> InteriorRight(p, ps)
<1>1. InteriorStrip(p)' = InteriorStrip(p)
  <2>1. InteriorStrip(p) = {<<ShipAt(p, read), read>> : read \in Strip(p, 0 .. 2)}
    BY DEF InteriorStrip, ShipAt
  <2>2. InteriorStrip(p)' = {<<ShipAt(p, read), read>> : read \in Strip(p, 0 .. 2)}'
    BY DEF InteriorStrip, ShipAt
  <2>3. Strip(p, 0 .. 2)' = Strip(p, 0 .. 2)
    BY WindowsSettled
  <2> QED
    BY <2>1, <2>2, <2>3, ReadsSettled
<1>2. InteriorNew(p)' = InteriorNew(p)
  BY ReadsSettled DEF InteriorNew
<1>3. ASSUME NEW board, NEW touched PROVE PhysicalEquations(board, touched)' = PhysicalEquations(board, touched)
  <2> DEFINE centers == {PhysicalPlus(c, Negated(ca_offsets[i])) : c \in touched, i \in Bits}
             at(c, b) == PhysicalPlus(c, ca_offsets[b])
  <2>1. PhysicalEquations(board, touched) = {[b \in Bits |-> Found(board, ShipCell(at(c, b)))] : c \in centers}
    BY DEF PhysicalEquations
  <2>2. PhysicalEquations(board, touched)' = {[b \in Bits |-> Found(board, ShipCell(at(c, b)))] : c \in centers}'
    BY DEF PhysicalEquations
  <2> HIDE DEF centers, at
  <2>3. \A c : [b \in Bits |-> Found(board, ShipCell(at(c, b)))]' = [b \in Bits |-> Found(board, ShipCell(at(c, b)))]
    BY CellsSettled
  <2> QED
    BY <2>1, <2>2, <2>3
<1>4. history_window(p)' = history_window(p) /\ Entries(p)' = Entries(p)
  BY WindowsSettled
<1> QED
  BY <1>1, <1>2, <1>3, <1>4 DEF InteriorRight

LEMMA BoundarySettled ==
  ASSUME UNCHANGED Settled, NEW p, NEW s, NEW ps
  PROVE  BoundaryRight(p, s, ps)' <=> BoundaryRight(p, s, ps)
<1>1. Past(p)' = Past(p) /\ Conditions(p)' = Conditions(p)
  BY WindowsSettled
<1>2. /\ \A t : Told(p, s, t)' = Told(p, s, t)
      /\ StripBoard(p, s)' = StripBoard(p, s) /\ Touched(p, s)' = Touched(p, s)
      /\ \A a, i : PhysicalEquation(p, s, a, i)' = PhysicalEquation(p, s, a, i)
  BY ReadsSettled
<1> QED
  BY <1>1, <1>2 DEF BoundaryRight

LEMMA LayoutSettled ==
  ASSUME UNCHANGED Settled, interior' = interior, NEW l
  PROVE  LayoutRight(l)' <=> LayoutRight(l)
<1>1. displacement' = displacement
  BY SettledIs
<1>2. \A bytes : GatheredFrom(bytes)' = GatheredFrom(bytes)
  BY <1>1 DEF GatheredFrom
<1>3. \A p : ThreeOffsets(p)' = ThreeOffsets(p)
  BY DEF ThreeOffsets
<1> QED
  BY <1>2, <1>3 DEF LayoutRight

-----------------------------------------------------------------------------
\* The inductive invariant: what has been compiled so far is right.
Tuple(q) == Len(q) \in Nat /\ q = [i \in 1 .. Len(q) |-> q[i]]

InteriorDone ==
  /\ Tuple(interior)
  /\ \A ps : \A p \in 0 .. (Len(interior) - 1) : ps = interior[p + 1] => InteriorRight(p, ps)

LayoutDone == \A l : l = fast => LayoutRight(l)

BoundaryDone ==
  /\ boundary = [s \in Side |-> boundary[s]] /\ \A s \in Side : Tuple(boundary[s])
  /\ \A s \in Side : \A ps : \A p \in 0 .. (Len(boundary[s]) - 1) : ps = boundary[s][p + 1] => BoundaryRight(p, s, ps)

Untouched == phase = 0 /\ side = "left" /\ interior = <<>> /\ boundary = [s \in Side |-> <<>>]

Parsing == {"parse", "rejected", "euclid", "spots", "parsed"}

ModesKnown == left_edge \in EdgeMode /\ right_edge \in EdgeMode

\* A reflecting edge is one the geometry accepts.
Accepted == Ready /\ \A s \in Side : Mode(s) # Background => Edged(s)

\* The edges before the side at work are compiled for every phase.
EdgesDone ==
  /\ phase \in 0 .. subtile_count /\ side \in Side
  /\ Mode(side) # Background => Len(boundary[side]) = phase
  /\ Mode(side) = Background => phase = 0
  /\ side = "right" /\ Mode("left") # Background => Len(boundary["left"]) = subtile_count
  /\ side = "left" => boundary["right"] = <<>>

AInv ==
  /\ ModesKnown
  /\ pc \in Parsing \cup {"interior", "boundary", "built"}
  /\ pc \in Parsing => IInv /\ Untouched
  /\ pc \in {"euclid", "spots", "parsed"} => displacement <= period
  /\ pc \in {"interior", "boundary", "built"} => Accepted /\ InteriorDone /\ BoundaryDone
  /\ pc = "interior" => /\ phase = Len(interior) /\ phase \in 0 .. subtile_count
                        /\ side = "left" /\ boundary = [s \in Side |-> <<>>]
  /\ pc \in {"boundary", "built"} => Len(interior) = subtile_count /\ LayoutDone
  /\ pc = "boundary" => EdgesDone
  /\ pc = "built" => \A s \in Side : Mode(s) # Background => Len(boundary[s]) = subtile_count

LEMMA AppendIs ==
  ASSUME NEW q, Tuple(q), NEW e
  PROVE  LET more == Append(q, e)
         IN  /\ Tuple(more) /\ Len(more) = Len(q) + 1 /\ more[Len(q) + 1] = e
             /\ \A i \in 1 .. Len(q) : more[i] = q[i]
<1> DEFINE n == Len(q)
           T == {q[i] : i \in 1 .. n} \cup {e}
<1>1. n \in Nat /\ q = [i \in 1 .. n |-> q[i]]
  BY DEF Tuple
<1>2. q \in Maps(1 .. n, T)
  <2>1. \A i \in 1 .. n : q[i] \in T
    OBVIOUS
  <2> HIDE DEF T, n
  <2>2. q \in [1 .. n -> T]
    BY <1>1, <2>1
  <2> QED
    BY <2>2 DEF Maps
<1>3. e \in T
  OBVIOUS
<1> HIDE DEF T
<1>4. q \in Seq(T)
  BY <1>1, <1>2, FunctionSeq
<1> DEFINE more == Append(q, e)
<1>5. more \in Seq(T) /\ Len(more) = n + 1 /\ more[n + 1] = e /\ \A i \in 1 .. n : more[i] = q[i]
  BY <1>3, <1>4
<1> HIDE DEF more
<1>6. Tuple(more)
  BY <1>5 DEF Tuple
<1> HIDE DEF n
<1> QED
  BY <1>5, <1>6 DEF more, n

LEMMA EmptyTuple == Tuple(<<>>) /\ Len(<<>>) = 0
<1>1. Len(<<>>) = 0
  OBVIOUS
<1>2. <<>> = [i \in 1 .. 0 |-> <<>>[i]]
  OBVIOUS
<1> QED
  BY <1>1, <1>2 DEF Tuple

LEMMA StartsDone ==
  /\ interior = <<>> => InteriorDone
  /\ boundary = [s \in Side |-> <<>>] => BoundaryDone
<1>1. ASSUME interior = <<>> PROVE InteriorDone
  <2>1. Tuple(interior) /\ Len(interior) = 0
    BY <1>1, EmptyTuple
  <2>2. \A p \in 0 .. (Len(interior) - 1) : FALSE
    BY <2>1
  <2> QED
    BY <2>1, <2>2 DEF InteriorDone
<1>2. ASSUME boundary = [s \in Side |-> <<>>] PROVE BoundaryDone
  <2>1. \A s \in Side : boundary[s] = <<>>
    BY <1>2
  <2>2. boundary = [s \in Side |-> boundary[s]]
    BY <1>2
  <2>3. \A s \in Side : Tuple(boundary[s]) /\ Len(boundary[s]) = 0
    BY <2>1, EmptyTuple
  <2>4. \A s \in Side : \A p \in 0 .. (Len(boundary[s]) - 1) : FALSE
    BY <2>3
  <2> QED
    BY <2>2, <2>3, <2>4 DEF BoundaryDone
<1> QED
  BY <1>1, <1>2

\* What is done stays done.
LEMMA DoneSettled ==
  ASSUME UNCHANGED Settled
  PROVE  /\ Accepted => Accepted'
         /\ InteriorDone /\ interior' = interior => InteriorDone'
         /\ BoundaryDone /\ boundary' = boundary => BoundaryDone'
         /\ LayoutDone /\ interior' = interior /\ fast' = fast => LayoutDone'
         /\ ModesKnown => ModesKnown'
         /\ \A s : Mode(s)' = Mode(s)
<1>1. \A s : Mode(s)' = Mode(s) /\ (Edged(s)' <=> Edged(s))
  BY CellsSettled
<1>2. Accepted => Accepted'
  BY <1>1, ReadySettled DEF Accepted
<1>3. InteriorDone /\ interior' = interior => InteriorDone'
  BY InteriorSettled DEF InteriorDone
<1>4. BoundaryDone /\ boundary' = boundary => BoundaryDone'
  BY BoundarySettled DEF BoundaryDone
<1>5. LayoutDone /\ interior' = interior /\ fast' = fast => LayoutDone'
  BY LayoutSettled DEF LayoutDone
<1>6. ModesKnown => ModesKnown'
  BY SettledIs DEF ModesKnown
<1> QED
  BY <1>1, <1>2, <1>3, <1>4, <1>5, <1>6

LEMMA AcceptanceInitInv == AcceptanceInit => AInv
<1> SUFFICES ASSUME AcceptanceInit PROVE AInv
  OBVIOUS
<1>1. IInv /\ pc = "parse"
  BY InitInv DEF AcceptanceInit, GeometryInit
<1>2. PICK pair \in EdgePairs : left_edge = pair[1] /\ right_edge = pair[2]
  BY DEF AcceptanceInit
<1>3. pair \in EdgeMode \X EdgeMode
  BY EdgePairsAssumption
<1>4. ModesKnown
  BY <1>2, <1>3 DEF ModesKnown
<1>5. Untouched
  BY DEF AcceptanceInit, Untouched
<1> QED
  BY <1>1, <1>4, <1>5 DEF AInv, Parsing

LEMMA ParseKeeps == ASSUME AInv, ParseGeometry PROVE AInv'
<1>1. GeometryNext /\ UNCHANGED acceptanceVars
  BY DEF ParseGeometry
<1>2. pc \in {"parse", "euclid", "spots"}
  BY <1>1 DEF GeometryNext, Reject, Parse, EuclidStep, EuclidDone, ExpandSpot, SpotsDone
<1>3. IInv /\ Untouched /\ ModesKnown
  BY <1>2 DEF AInv, Parsing
<1>4. IInv'
  BY <1>1, <1>3, InvNext
<1>5. pc' \in Parsing
  BY <1>4 DEF IInv, Parsing
<1>6. Untouched' /\ ModesKnown'
  BY <1>1, <1>3 DEF acceptanceVars, edges, Untouched, ModesKnown
<1>7. pc' \in {"euclid", "spots", "parsed"} => displacement' <= period'
  <2>1. CASE Reject
    BY <2>1 DEF Reject
  <2>2. CASE Parse
    BY <2>2 DEF Parse, movement
  <2>3. CASE EuclidStep \/ EuclidDone \/ ExpandSpot \/ SpotsDone
    <3>1. pc \in {"euclid", "spots"} /\ UNCHANGED movement
      BY <2>3 DEF EuclidStep, EuclidDone, ExpandSpot, SpotsDone
    <3>2. displacement <= period
      BY <3>1 DEF AInv
    <3> QED
      BY <3>1, <3>2 DEF movement
  <2> QED
    BY <1>1, <2>1, <2>2, <2>3 DEF GeometryNext
<1> QED
  BY <1>4, <1>5, <1>6, <1>7 DEF AInv, Parsing

LEMMA RejectKeeps == ASSUME AInv, RejectEdges PROVE AInv'
<1>1. /\ pc = "parsed" /\ pc' = "rejected"
      /\ UNCHANGED <<movement, tile, bezout, euclid, queue, spots, acceptanceVars>>
  BY DEF RejectEdges
<1>2. IInv /\ Untouched /\ ModesKnown
  BY <1>1 DEF AInv, Parsing
<1>3. IInv'
  BY <1>1, <1>2 DEF IInv, movement
<1>4. Untouched' /\ ModesKnown'
  BY <1>1, <1>2 DEF acceptanceVars, edges, Untouched, ModesKnown
<1> QED
  BY <1>1, <1>3, <1>4 DEF AInv, Parsing

LEMMA ValidateKeeps == ASSUME AInv, ValidateEdges PROVE AInv'
<1>1. /\ pc = "parsed" /\ pc' = "interior" /\ edge_compatible(left_edge) /\ edge_compatible(right_edge)
      /\ UNCHANGED <<movement, tile, bezout, euclid, queue, spots, acceptanceVars>>
  BY DEF ValidateEdges
<1>2. IInv /\ Untouched /\ ModesKnown /\ displacement <= period
  BY <1>1 DEF AInv, Parsing
<1>3. Ready
  BY <1>1, <1>2 DEF IInv, Ready
<1>4. ASSUME NEW s \in Side, Mode(s) # Background PROVE Edged(s)
  <2>1. s = "left" \/ s = "right"
    BY DEF Side
  <2>2. Mode("left") = left_edge /\ Mode("right") = right_edge
    BY DEF Mode
  <2>3. Mode(s) \in EdgeMode /\ edge_compatible(Mode(s))
    BY <1>1, <1>2, <2>1, <2>2 DEF ModesKnown
  <2> QED
    BY <1>4, <2>3 DEF Edged, Reflecting
<1>5. Accepted
  BY <1>3, <1>4 DEF Accepted
<1>6. UNCHANGED Settled
  BY <1>1 DEF Settled, acceptanceVars
<1>7. phase' = 0 /\ side' = "left" /\ interior' = <<>> /\ boundary' = [s \in Side |-> <<>>]
      /\ interior' = interior /\ boundary' = boundary
  BY <1>1, <1>2 DEF acceptanceVars, Untouched
<1>8. InteriorDone /\ BoundaryDone
  BY <1>2, StartsDone DEF Untouched
<1>9. Accepted' /\ InteriorDone' /\ BoundaryDone' /\ ModesKnown'
  BY <1>2, <1>5, <1>6, <1>7, <1>8, DoneSettled
<1>10. Len(interior') = 0
  BY <1>7, EmptyTuple
<1>11. 0 \in 0 .. subtile_count' /\ subtile_count' = subtile_count
  BY <1>3, <1>6, ReadyNumbers, SettledIs
<1> QED
  BY <1>1, <1>7, <1>9, <1>10, <1>11 DEF AInv, Parsing

LEMMA InteriorKeeps == ASSUME AInv, BuildInteriorPhase PROVE AInv'
<1>1. /\ pc = "interior" /\ phase < subtile_count
      /\ UNCHANGED <<movement, tile, bezout, euclid, queue, spots, edges, side, fast, boundary>>
  BY DEF BuildInteriorPhase
<1>2. /\ Accepted /\ InteriorDone /\ BoundaryDone /\ ModesKnown
      /\ phase = Len(interior) /\ phase \in 0 .. subtile_count /\ side = "left" /\ boundary = [s \in Side |-> <<>>]
  BY <1>1 DEF AInv, Parsing
<1>3. Ready /\ subtile_count \in Nat \ {0}
  BY <1>2, ReadyNumbers DEF Accepted
<1>4. PICK n : n = phase
  OBVIOUS
<1>5. n \in 0 .. (subtile_count - 1) /\ n \in Nat
  BY <1>1, <1>2, <1>3, <1>4
<1>6. ~Aliased(n)
  BY <1>3, <1>5, NeverAliased
<1>7. interior' = Append(interior, InteriorProjections(n)) /\ phase' = n + 1 /\ pc' = pc
  BY <1>4, <1>6 DEF BuildInteriorPhase
<1>8. UNCHANGED Settled
  BY <1>1 DEF Settled
<1>9. Accepted' /\ BoundaryDone' /\ ModesKnown'
  BY <1>1, <1>2, <1>8, DoneSettled
<1>10. InteriorRight(n, InteriorProjections(n))
  BY <1>3, <1>5, InteriorFor
<1>11. PICK new : new = InteriorProjections(n)
  OBVIOUS
<1>12. /\ Tuple(interior') /\ Len(interior') = n + 1 /\ interior'[n + 1] = new
       /\ \A i \in 1 .. n : interior'[i] = interior[i]
  BY <1>2, <1>4, <1>7, <1>11, AppendIs DEF InteriorDone
<1>13. ASSUME NEW ps, NEW p \in 0 .. (Len(interior') - 1), ps = interior'[p + 1] PROVE InteriorRight(p, ps)'
  <2>1. p = n \/ p \in 0 .. (n - 1)
    BY <1>5, <1>12
  <2>2. InteriorRight(p, ps)
    <3>1. CASE p = n
      BY <1>10, <1>11, <1>12, <1>13, <3>1
    <3>2. CASE p \in 0 .. (n - 1)
      <4>1. p + 1 \in 1 .. n /\ ps = interior[p + 1]
        BY <1>5, <1>12, <1>13, <3>2
      <4> QED
        BY <1>2, <1>4, <3>2, <4>1 DEF InteriorDone
    <3> QED
      BY <2>1, <3>1, <3>2
  <2> QED
    BY <1>8, <2>2, InteriorSettled
<1>14. InteriorDone'
  BY <1>12, <1>13 DEF InteriorDone
<1>15. phase' = Len(interior') /\ phase' \in 0 .. subtile_count'
  BY <1>1, <1>3, <1>5, <1>7, <1>12 DEF tile
<1> QED
  BY <1>1, <1>2, <1>7, <1>9, <1>14, <1>15 DEF AInv, Parsing

LEMMA FastKeeps == ASSUME AInv, SelectFast PROVE AInv'
<1>1. /\ pc = "interior" /\ phase = subtile_count /\ fast' = FastLayout /\ pc' = "boundary" /\ phase' = 0
      /\ UNCHANGED <<movement, tile, bezout, euclid, queue, spots, edges, side, interior, boundary>>
  BY DEF SelectFast
<1>2. /\ Accepted /\ InteriorDone /\ BoundaryDone /\ ModesKnown
      /\ phase = Len(interior) /\ side = "left" /\ boundary = [s \in Side |-> <<>>]
  BY <1>1 DEF AInv, Parsing
<1>3. Ready /\ subtile_count \in Nat \ {0}
  BY <1>2, ReadyNumbers DEF Accepted
<1>4. UNCHANGED Settled /\ subtile_count' = subtile_count
  BY <1>1 DEF Settled, tile
<1>5. Accepted' /\ BoundaryDone' /\ ModesKnown' /\ InteriorDone' /\ \A s : Mode(s)' = Mode(s)
  BY <1>1, <1>2, <1>4, DoneSettled
<1>6. subtile_count = 1 => InteriorRight(0, interior[1])
  <2> SUFFICES ASSUME subtile_count = 1 PROVE InteriorRight(0, interior[1])
    OBVIOUS
  <2>1. 0 \in 0 .. (Len(interior) - 1) /\ 0 + 1 = 1
    BY <1>1, <1>2
  <2> QED
    BY <1>2, <2>1 DEF InteriorDone
<1>7. LayoutRight(FastLayout)
  BY <1>3, <1>6, LayoutFor
<1>8. ASSUME NEW l, l = fast' PROVE LayoutRight(l)'
  <2>1. LayoutRight(l)
    BY <1>1, <1>7, <1>8
  <2> QED
    BY <1>1, <1>4, <2>1, LayoutSettled
<1>9. LayoutDone'
  BY <1>8 DEF LayoutDone
<1>10. EdgesDone'
  <2>1. boundary'["left"] = <<>> /\ boundary'["right"] = <<>> /\ side' = "left" /\ "left" \in Side
    BY <1>1, <1>2 DEF Side
  <2>2. Len(boundary'["left"]) = 0
    BY <2>1, EmptyTuple
  <2>3. 0 \in 0 .. subtile_count'
    BY <1>3, <1>4
  <2> QED
    BY <1>1, <2>1, <2>2, <2>3 DEF EdgesDone
<1> QED
  BY <1>1, <1>2, <1>4, <1>5, <1>9, <1>10 DEF AInv, Parsing

LEMMA BoundaryKeeps == ASSUME AInv, BuildBoundaryPhase PROVE AInv'
<1>1. /\ pc = "boundary" /\ Mode(side) # Background /\ phase < subtile_count
      /\ UNCHANGED <<movement, tile, bezout, euclid, queue, spots, edges, side, interior, fast>>
  BY DEF BuildBoundaryPhase
<1>2. /\ Accepted /\ InteriorDone /\ BoundaryDone /\ ModesKnown /\ Len(interior) = subtile_count /\ LayoutDone
      /\ EdgesDone
  BY <1>1 DEF AInv, Parsing
<1>3. Ready /\ subtile_count \in Nat \ {0}
  BY <1>2, ReadyNumbers DEF Accepted
<1>4. PICK n, s : n = phase /\ s = side
  OBVIOUS
<1>5. n \in 0 .. (subtile_count - 1) /\ n \in Nat /\ s \in Side
  BY <1>1, <1>2, <1>3, <1>4 DEF EdgesDone
<1>6. Mode(s) # Background /\ Edged(s) /\ Len(boundary[s]) = n
  BY <1>1, <1>2, <1>4, <1>5 DEF Accepted, EdgesDone
<1>7. ~OverBudget(n, s)
  BY <1>3, <1>5, <1>6, NeverOverBudget
<1>8. boundary' = [boundary EXCEPT ![s] = Append(@, EdgeProjections(n, s))] /\ phase' = n + 1 /\ pc' = pc
  BY <1>4, <1>7 DEF BuildBoundaryPhase
<1>9. UNCHANGED Settled /\ subtile_count' = subtile_count /\ side' = s
  BY <1>1, <1>4 DEF Settled, tile
<1>10. Accepted' /\ ModesKnown' /\ InteriorDone' /\ LayoutDone' /\ \A e : Mode(e)' = Mode(e)
  BY <1>1, <1>2, <1>9, DoneSettled
<1>11. BoundaryRight(n, s, EdgeProjections(n, s))
  BY <1>3, <1>5, <1>6, BoundaryFor
<1>12. PICK new : new = EdgeProjections(n, s)
  OBVIOUS
<1>13. PICK q : q = boundary[s]
  OBVIOUS
<1>14. Tuple(q) /\ Len(q) = n /\ boundary = [e \in Side |-> boundary[e]]
  BY <1>2, <1>5, <1>6, <1>13 DEF BoundaryDone
<1>15. boundary' = [e \in Side |-> IF e = s THEN Append(q, new) ELSE boundary[e]]
  BY <1>5, <1>8, <1>12, <1>13, <1>14
<1>16. PICK more : more = Append(q, new)
  OBVIOUS
<1>17. Tuple(more) /\ Len(more) = n + 1 /\ more[n + 1] = new /\ \A i \in 1 .. n : more[i] = q[i]
  BY <1>14, <1>16, AppendIs
<1>18. boundary'[s] = more /\ \A e \in Side : e # s => boundary'[e] = boundary[e]
  BY <1>5, <1>15, <1>16
<1>19. boundary' = [e \in Side |-> boundary'[e]]
  BY <1>15
<1>20. \A e \in Side : Tuple(boundary'[e])
  BY <1>2, <1>17, <1>18 DEF BoundaryDone
<1>21. ASSUME NEW e \in Side, NEW ps, NEW p \in 0 .. (Len(boundary'[e]) - 1), ps = boundary'[e][p + 1]
       PROVE  BoundaryRight(p, e, ps)'
  <2>1. BoundaryRight(p, e, ps)
    <3>1. CASE e # s
      <4>1. p \in 0 .. (Len(boundary[e]) - 1) /\ ps = boundary[e][p + 1]
        BY <1>18, <1>21, <3>1
      <4> QED
        BY <1>2, <4>1 DEF BoundaryDone
    <3>2. CASE e = s /\ p = n
      BY <1>11, <1>12, <1>17, <1>18, <1>21, <3>2
    <3>3. CASE e = s /\ p # n
      <4>1. p \in 0 .. (n - 1)
        BY <1>5, <1>17, <1>18, <3>3
      <4>2. p + 1 \in 1 .. n
        BY <1>5, <4>1
      <4>3. ps = boundary[e][p + 1] /\ p \in 0 .. (Len(boundary[e]) - 1)
        BY <1>13, <1>14, <1>17, <1>18, <1>21, <3>3, <4>1, <4>2
      <4> QED
        BY <1>2, <4>3 DEF BoundaryDone
    <3> QED
      BY <3>1, <3>2, <3>3
  <2> QED
    BY <1>9, <2>1, BoundarySettled
<1>22. BoundaryDone'
  BY <1>19, <1>20, <1>21 DEF BoundaryDone
<1>23. EdgesDone'
  <2>1. phase' \in 0 .. subtile_count'
    BY <1>3, <1>5, <1>8, <1>9
  <2>2. Len(boundary'[s]) = phase'
    BY <1>8, <1>17, <1>18
  <2>3. s = "right" /\ Mode("left") # Background => Len(boundary'["left"]) = subtile_count'
    BY <1>2, <1>4, <1>9, <1>18 DEF EdgesDone, Side
  <2>4. s = "left" => boundary'["right"] = <<>>
    BY <1>2, <1>4, <1>18 DEF EdgesDone, Side
  <2>5. Mode(s)' # Background /\ Mode("left")' = Mode("left")
    BY <1>6, <1>10
  <2> QED
    BY <1>5, <1>9, <2>1, <2>2, <2>3, <2>4, <2>5 DEF EdgesDone
<1> QED
  BY <1>1, <1>2, <1>8, <1>9, <1>10, <1>22, <1>23 DEF AInv, Parsing

LEMMA EdgeKeeps == ASSUME AInv, NextEdge PROVE AInv'
<1>1. /\ pc = "boundary" /\ (Mode(side) = Background \/ phase = subtile_count) /\ phase' = 0
      /\ IF side = "left" THEN side' = "right" /\ pc' = pc ELSE side' = side /\ pc' = "built"
      /\ UNCHANGED <<movement, tile, bezout, euclid, queue, spots, edges, interior, fast, boundary>>
  BY DEF NextEdge
<1>2. /\ Accepted /\ InteriorDone /\ BoundaryDone /\ ModesKnown /\ Len(interior) = subtile_count /\ LayoutDone
      /\ EdgesDone
  BY <1>1 DEF AInv, Parsing
<1>3. Ready /\ subtile_count \in Nat \ {0}
  BY <1>2, ReadyNumbers DEF Accepted
<1>4. UNCHANGED Settled /\ subtile_count' = subtile_count /\ boundary' = boundary /\ interior' = interior
  BY <1>1 DEF Settled, tile
<1>5. /\ Accepted' /\ ModesKnown' /\ InteriorDone' /\ BoundaryDone' /\ LayoutDone' /\ \A e : Mode(e)' = Mode(e)
  BY <1>1, <1>2, <1>4, DoneSettled
<1>6. Mode(side) # Background => Len(boundary[side]) = subtile_count
  BY <1>1, <1>2 DEF EdgesDone
<1>7. CASE side = "left"
  <2>1. side' = "right" /\ pc' = "boundary"
    BY <1>1, <1>7
  <2>2. boundary["right"] = <<>> /\ 0 \in 0 .. subtile_count
    BY <1>2, <1>3, <1>7 DEF EdgesDone
  <2>3. Len(boundary["right"]) = 0
    BY <2>2, EmptyTuple
  <2>4. EdgesDone'
    BY <1>1, <1>4, <1>5, <1>6, <1>7, <2>1, <2>2, <2>3 DEF EdgesDone, Side
  <2> QED
    BY <1>2, <1>4, <1>5, <2>1, <2>4 DEF AInv, Parsing
<1>8. CASE side # "left"
  <2>1. pc' = "built" /\ side = "right"
    BY <1>1, <1>2, <1>8 DEF EdgesDone, Side
  <2>2. \A s \in Side : Mode(s) # Background => Len(boundary[s]) = subtile_count
    BY <1>2, <1>6, <2>1 DEF EdgesDone, Side
  <2>3. (\A s \in Side : Mode(s) # Background => Len(boundary[s]) = subtile_count)'
    BY <1>4, <1>5, <2>2
  <2> QED
    BY <1>2, <1>4, <1>5, <2>1, <2>3 DEF AInv, Parsing
<1> QED
  BY <1>7, <1>8

LEMMA StutterKeeps == ASSUME AInv, UNCHANGED allVars PROVE AInv'
<1>1. /\ UNCHANGED geometryVars /\ UNCHANGED Settled /\ pc' = pc /\ phase' = phase /\ side' = side
      /\ interior' = interior /\ fast' = fast /\ boundary' = boundary
      /\ subtile_count' = subtile_count /\ displacement' = displacement /\ period' = period
  BY DEF allVars, geometryVars, acceptanceVars, Settled, movement, tile
<1>2. /\ Accepted => Accepted'
      /\ InteriorDone => InteriorDone'
      /\ BoundaryDone => BoundaryDone'
      /\ LayoutDone => LayoutDone'
      /\ ModesKnown => ModesKnown'
      /\ \A s : Mode(s)' = Mode(s)
  BY <1>1, DoneSettled
<1>3. IInv => IInv'
  BY <1>1, InvNext
<1>4. Untouched => Untouched'
  BY <1>1 DEF Untouched
<1>5. EdgesDone => EdgesDone'
  BY <1>1, <1>2 DEF EdgesDone
<1>6. pc = "built" => (\A s \in Side : Mode(s) # Background => Len(boundary[s]) = subtile_count)'
  BY <1>1, <1>2 DEF AInv
<1> QED
  BY <1>1, <1>2, <1>3, <1>4, <1>5, <1>6 DEF AInv

LEMMA AcceptanceNextInv == AInv /\ [AcceptanceNext]_allVars => AInv'
<1> SUFFICES ASSUME AInv, [AcceptanceNext]_allVars PROVE AInv'
  OBVIOUS
<1> QED
  BY ParseKeeps, RejectKeeps, ValidateKeeps, InteriorKeeps, FastKeeps, BoundaryKeeps, EdgeKeeps, StutterKeeps
     DEF AcceptanceNext

\* The inductive invariant of the acceptance tables: every phase compiled so far holds
\* exactly the equations of the physical cells, and construction never throws.
THEOREM AcceptanceInvariance == AcceptanceSpec => []AInv
  BY AcceptanceInitInv, AcceptanceNextInv, PTL DEF AcceptanceSpec

LEMMA BuiltIs ==
  ASSUME AInv, Built
  PROVE  /\ Ready /\ \A s \in Side : Mode(s) # Background => Edged(s)
         /\ \A ps : \A p \in 0 .. (subtile_count - 1) : ps = interior[p + 1] => InteriorRight(p, ps)
         /\ \A s \in Side : Mode(s) # Background =>
              \A ps : \A p \in 0 .. (subtile_count - 1) : ps = boundary[s][p + 1] => BoundaryRight(p, s, ps)
         /\ LayoutRight(fast)
<1>1. /\ Accepted /\ InteriorDone /\ BoundaryDone /\ Len(interior) = subtile_count /\ LayoutDone
      /\ \A s \in Side : Mode(s) # Background => Len(boundary[s]) = subtile_count
  BY DEF AInv, Built, Parsing
<1>2. \A ps : \A p \in 0 .. (subtile_count - 1) : ps = interior[p + 1] => InteriorRight(p, ps)
  BY <1>1 DEF InteriorDone
<1>3. ASSUME NEW s \in Side, Mode(s) # Background, NEW ps, NEW p \in 0 .. (subtile_count - 1), ps = boundary[s][p + 1]
      PROVE  BoundaryRight(p, s, ps)
  <2>1. Len(boundary[s]) = subtile_count
    BY <1>1, <1>3
  <2> QED
    BY <1>1, <1>3, <2>1 DEF BoundaryDone
<1>4. LayoutRight(fast)
  BY <1>1 DEF LayoutDone
<1> QED
  BY <1>1, <1>2, <1>3, <1>4 DEF Accepted

LEMMA InteriorShown == AInv => InteriorExact
<1> SUFFICES ASSUME AInv PROVE InteriorExact
  OBVIOUS
<1>1. pc # "aliased"
  BY DEF AInv, Parsing
<1>2. ASSUME Built, NEW p \in 0 .. (subtile_count - 1)
      PROVE  LET board == {<<ShipCell(Physical(p, read)), read>> : read \in Strip(p, 0 .. 2)}
             IN  Imposed(interior[p + 1]) = PhysicalEquations(board, {Physical(p, <<0, column>>) : column \in 0 .. 2})
  <2>1. PICK ps : ps = interior[p + 1]
    OBVIOUS
  <2>2. InteriorRight(p, ps)
    BY <1>2, <2>1, BuiltIs
  <2>3. Imposed(ps) = PhysicalEquations(InteriorStrip(p), InteriorNew(p))
    BY <2>2 DEF InteriorRight
  <2> QED
    BY <2>1, <2>3 DEF InteriorStrip, InteriorNew
<1> QED
  BY <1>1, <1>2 DEF InteriorExact

LEMMA ImposedShown == AInv => BoundaryImposed
<1> SUFFICES ASSUME AInv, Built, NEW s \in Side, Mode(s) # Background, NEW p \in 0 .. (subtile_count - 1)
             PROVE
    LET strip == Strip(p, {0, 1})
        mirror(c) == PhysicalMirror(c, Mode(s), s)
        board == {<<ShipCell(Physical(p, read)), read>> : read \in strip}
                 \cup {<<ShipCell(mirror(Physical(p, read))), read>> : read \in strip}
        candidates == {Physical(p, <<0, column>>) : column \in {0, 1}}
        required == PhysicalEquations(board, candidates \cup {mirror(c) : c \in candidates})
        imposed == Imposed(boundary[s][p + 1])
        equations == {e \in imposed : Len(e) = 10}
        agree(e, q) == \A b \in Bits : e[b] \subseteq q[b] /\ (e[b] = {} <=> q[b] = {})
    IN  /\ \A q \in required : \E e \in equations : agree(e, q)
        /\ \A e \in equations : \E q \in required : agree(e, q)
        /\ {Reads(e) : e \in imposed \ equations} =
             {reads \in {Found(board, k) : k \in Cells(board)} :
                Cardinality(reads) > 1 /\ \E read \in reads : IsCandidate(read)}
  BY DEF BoundaryImposed
<1> DEFINE strip == Strip(p, {0, 1})
           mirror(c) == PhysicalMirror(c, Mode(s), s)
           board == {<<ShipCell(Physical(p, read)), read>> : read \in strip}
                    \cup {<<ShipCell(mirror(Physical(p, read))), read>> : read \in strip}
           candidates == {Physical(p, <<0, column>>) : column \in {0, 1}}
           touched == candidates \cup {mirror(c) : c \in candidates}
           required == PhysicalEquations(board, touched)
           imposed == Imposed(boundary[s][p + 1])
           equations == {e \in imposed : Len(e) = 10}
           agree(e, q) == \A b \in Bits : e[b] \subseteq q[b] /\ (e[b] = {} <=> q[b] = {})
           tied == {Reads(e) : e \in imposed \ equations}
           twice == {reads \in {Found(board, k) : k \in Cells(board)} :
                       Cardinality(reads) > 1 /\ \E read \in reads : IsCandidate(read)}
<1>1. PICK ps : ps = boundary[s][p + 1]
  OBVIOUS
<1>2. BoundaryRight(p, s, ps) /\ imposed = Imposed(ps)
  BY <1>1, BuiltIs
<1>3. board = StripBoard(p, s) /\ touched = Touched(p, s)
  BY DEF StripBoard, Touched, MirrorOf
<1>4. \A q : q \in required <=> \E a \in touched, i \in Bits : q = PhysicalEquation(p, s, a, i)
  <2> DEFINE centers == {PhysicalPlus(c, Negated(ca_offsets[i])) : c \in touched, i \in Bits}
             eq(c) == [b \in Bits |-> Found(board, ShipCell(PhysicalPlus(c, ca_offsets[b])))]
  <2>1. required = {eq(c) : c \in centers}
    BY DEF PhysicalEquations
  <2>2. \A a, i : PhysicalEquation(p, s, a, i) = eq(PhysicalPlus(a, Negated(ca_offsets[i])))
    BY <1>3 DEF PhysicalEquation
  <2> HIDE DEF eq, required, board, touched
  <2> QED
    BY <2>1, <2>2
<1>5. \A e, q : agree(e, q) <=> Agree(e, q)
  BY DEF Agree
<1>6. /\ \A a \in Touched(p, s), i \in Bits :
           \E e \in imposed : Len(e) = 10 /\ Agree(e, PhysicalEquation(p, s, a, i))
      /\ \A e \in imposed :
           Len(e) = 10 => \E a \in Touched(p, s), i \in Bits : Agree(e, PhysicalEquation(p, s, a, i))
      /\ \A e \in imposed : Len(e) # 10 =>
           \E k : Reads(e) = Found(StripBoard(p, s), k) /\ Cardinality(Reads(e)) > 1 /\ IsNew(Reads(e))
      /\ \A k : (Cardinality(Found(StripBoard(p, s), k)) > 1 /\ IsNew(Found(StripBoard(p, s), k))) =>
           \E e \in imposed : Len(e) # 10 /\ Reads(e) = Found(StripBoard(p, s), k)
  <2> HIDE DEF imposed
  <2> QED
    BY <1>2 DEF BoundaryRight
<1> HIDE DEF board, touched, candidates, required, imposed, agree, strip
<1>7. \A q \in required : \E e \in equations : agree(e, q)
  BY <1>3, <1>4, <1>5, <1>6
<1>8. \A e \in equations : \E q \in required : agree(e, q)
  BY <1>3, <1>4, <1>5, <1>6
<1>9. ASSUME NEW e \in imposed \ equations PROVE Reads(e) \in twice
  <2>1. \E k : Reads(e) = Found(board, k) /\ Cardinality(Reads(e)) > 1 /\ IsNew(Reads(e))
    BY <1>3, <1>6
  <2>2. PICK k : Reads(e) = Found(board, k) /\ Cardinality(Reads(e)) > 1 /\ IsNew(Reads(e))
    BY ONLY <2>1
  <2>3. k \in Cells(board)
    <3>1. PICK read : read \in Found(board, k)
      BY <2>2 DEF IsNew
    <3> QED
      BY <3>1 DEF Found, Cells
  <2> QED
    BY <2>2, <2>3 DEF IsNew
<1>10. ASSUME NEW reads \in twice PROVE \E e \in imposed \ equations : Reads(e) = reads
  <2>1. PICK k : reads = Found(board, k) /\ Cardinality(reads) > 1 /\ IsNew(reads)
    BY DEF IsNew
  <2>2. \E e \in imposed : Len(e) # 10 /\ Reads(e) = reads
    BY <1>3, <1>6, <2>1
  <2> QED
    BY <2>2
<1>11. tied = twice
  <2> HIDE DEF equations, twice
  <2> QED
    BY <1>9, <1>10
<1> QED
  BY <1>7, <1>8, <1>11 DEF board, touched, candidates, required, imposed, agree, strip

LEMMA AliasesShown == AInv => AliasesSettled
<1> SUFFICES ASSUME AInv, Built, NEW s \in Side, Mode(s) # Background, NEW p \in 0 .. (subtile_count - 1),
                    NEW e \in Board(p, {0, 1}), NEW b \in Found(Board(p, {0, 1}), reflect(e[1], Mode(s), s, 0)),
                    e[2] # b, e[2][1] <= b[1]
             PROVE  {<<0, e[2][2]>>, <<b[1] - e[2][1], b[2]>>} \in
                      {Reads(c) : c \in Imposed(boundary[s][((p - e[2][1]) % subtile_count) + 1])}
  BY DEF AliasesSettled
<1>1. Ready /\ Edged(s)
  BY BuiltIs
<1>2. PICK a \in EdgeWindow(p) : e = <<ReadCell(p, a), a>>
  BY DEF Board, EdgeWindow
<1>3. e[1] = ReadCell(p, a) /\ e[2] = a
  BY <1>2
<1>4. b \in EdgeWindow(p) /\ ReadCell(p, b) = Image(s, ReadCell(p, a))
  <2>1. Found(Board(p, {0, 1}), reflect(e[1], Mode(s), s, 0)) = {read \in Window(p, {0, 1}) : ReadCell(p, read) = reflect(e[1], Mode(s), s, 0)}
    BY BoardFound
  <2> QED
    BY <1>3, <2>1 DEF EdgeWindow, Image
<1>5. PICK d : d = (p - a[1]) % subtile_count
  OBVIOUS
<1>6. PICK told : told = {<<0, a[2]>>, <<b[1] - a[1], b[2]>>}
  OBVIOUS
<1>7. /\ d \in 0 .. (subtile_count - 1)
      /\ \E t : Told(d, s, t) = told /\ Cardinality(told) > 1 /\ IsNew(told)
  BY <1>1, <1>3, <1>4, <1>5, <1>6, AliasTied
<1>8. PICK ps : ps = boundary[s][d + 1]
  OBVIOUS
<1>9. BoundaryRight(d, s, ps)
  BY <1>7, <1>8, BuiltIs
<1>10. PICK t : Told(d, s, t) = told /\ Cardinality(told) > 1 /\ IsNew(told)
  BY ONLY <1>7
<1>11. PICK c \in Imposed(ps) : Reads(c) = Told(d, s, t)
  BY <1>9, <1>10 DEF BoundaryRight
<1>12. told \in {Reads(z) : z \in Imposed(ps)}
  BY <1>10, <1>11
<1> QED
  BY <1>3, <1>5, <1>6, <1>8, <1>12

LEMMA KeysBounded ==
  ASSUME NEW K, NEW I, NEW ps \in Projections(K, I), NEW budget, Fits(ps, budget), NEW i \in DOMAIN ps
  PROVE  ps[i].key \in SUBSET K /\ Cardinality(ps[i].key) <= budget
<1> DEFINE R == [key : SUBSET K, items : SUBSET I]
<1>1. ps \in Seq(R)
  BY DEF Projections
<1> HIDE DEF R
<1>2. DOMAIN ps = 1 .. Len(ps) /\ ps[i] \in R
  BY <1>1
<1>3. ps[i].key \in SUBSET K
  BY <1>2 DEF R
<1> QED
  BY <1>2, <1>3 DEF Fits

LEMMA BoundedShown == AInv => LookupsBounded
<1> SUFFICES ASSUME AInv, Built, NEW p \in 0 .. (subtile_count - 1)
             PROVE
    LET firstRow == CHOOSE row \in short_window .. long_window : subtile_position(row) = p
        keys(projections) == {projections[i].key : i \in DOMAIN projections}
    IN  /\ \A key \in keys(interior[p + 1]) : key \subseteq 1 .. firstRow /\ Cardinality(key) <= 5
        /\ \A s \in {e \in Side : Mode(e) # Background} : \A key \in keys(boundary[s][p + 1]) :
             key \subseteq (1 .. firstRow) \X {0, 1} /\ Cardinality(key) <= 10
  BY DEF LookupsBounded
<1> DEFINE firstRow == CHOOSE row \in short_window .. long_window : subtile_position(row) = p
           keys(projections) == {projections[i].key : i \in DOMAIN projections}
           H == history_window(p)
<1>1. firstRow \in Nat /\ H <= firstRow /\ H \in Nat
  BY BuiltIs, FirstRow
<1> HIDE DEF firstRow, H
<1>2. 1 .. H \subseteq 1 .. firstRow
  BY <1>1
<1>3. ASSUME NEW key \in keys(interior[p + 1]) PROVE key \subseteq 1 .. firstRow /\ Cardinality(key) <= 5
  <2>1. PICK ps : ps = interior[p + 1]
    OBVIOUS
  <2>2. ps \in Projections(1 .. H, Entries(p)) /\ Fits(ps, 5)
    BY <2>1, BuiltIs DEF InteriorRight, maximum_projection_history_rows, H
  <2>3. PICK i \in DOMAIN ps : key = ps[i].key
    BY <2>1
  <2> DEFINE K == 1 .. H
             I == Entries(p)
  <2> HIDE DEF K, I
  <2>4. ps \in Projections(K, I)
    BY <2>2 DEF K, I
  <2>5. key \in SUBSET K /\ Cardinality(key) <= 5
    BY <2>2, <2>3, <2>4, KeysBounded
  <2> QED
    BY <1>2, <2>5 DEF K
<1>4. ASSUME NEW s \in Side, Mode(s) # Background, NEW key \in keys(boundary[s][p + 1])
      PROVE  key \subseteq (1 .. firstRow) \X {0, 1} /\ Cardinality(key) <= 10
  <2>1. PICK ps : ps = boundary[s][p + 1]
    OBVIOUS
  <2>2. ps \in Projections((1 .. H) \X {0, 1}, Conditions(p)) /\ Fits(ps, 10)
    BY <1>4, <2>1, BuiltIs DEF BoundaryRight, Past, maximum_projection_history_bits, H
  <2>3. PICK i \in DOMAIN ps : key = ps[i].key
    BY <1>4, <2>1
  <2> DEFINE K == (1 .. H) \X {0, 1}
             I == Conditions(p)
  <2>6. K \subseteq (1 .. firstRow) \X {0, 1}
    BY <1>2
  <2> HIDE DEF K, I
  <2>4. ps \in Projections(K, I)
    BY <2>2 DEF K, I
  <2>5. key \in SUBSET K /\ Cardinality(key) <= 10
    BY <2>2, <2>3, <2>4, KeysBounded
  <2> QED
    BY <2>5, <2>6
<1> HIDE DEF keys
<1>5. \A s \in {e \in Side : Mode(e) # Background} : \A key \in keys(boundary[s][p + 1]) :
        key \subseteq (1 .. firstRow) \X {0, 1} /\ Cardinality(key) <= 10
  BY <1>4
<1> QED
  BY <1>3, <1>5 DEF firstRow, keys

LEMMA FastShown == AInv => FastReads
<1> SUFFICES ASSUME AInv PROVE FastReads
  OBVIOUS
<1>1. LookupsBounded
  BY BoundedShown
<1>2. ASSUME Built PROVE LayoutRight(fast)
  BY <1>2, BuiltIs
<1>3. GatheredFrom(fast.gather) = GatheredOffsets
  BY DEF GatheredFrom, GatheredOffsets
<1> QED
  BY <1>1, <1>2, <1>3 DEF FastReads, LayoutRight

\* For every movement the pattern of parse matches, a row is accepted exactly when it
\* satisfies every equation its cells take part in, as far as its three columns tell, and
\* build_interior never throws for two reads of a cell.
THEOREM InteriorCorrect == AcceptanceSpec => []InteriorExact
  BY AcceptanceInvariance, InteriorShown, PTL

\* For every movement and every pair of edges the geometry accepts, each edge holds its
\* rows to the equations of the physical mirror image, a cell read twice is given one
\* state, now or when its later row was the candidate, and build_boundary never throws
\* for a key of more than ten bits.
THEOREM BoundaryCorrect == AcceptanceSpec => []BoundaryExact
<1>1. AInv => BoundaryExact
  <2>1. AInv => pc # "over_budget"
    BY DEF AInv, Parsing
  <2> QED
    BY <2>1, ImposedShown, AliasesShown DEF BoundaryExact
<1> QED
  BY AcceptanceInvariance, <1>1, PTL

\* For every movement, no key names a row above the first one, and each compact lookup
\* reads for every digit the row that digit was built for: the reordered scalar key, the
\* bytes gathered for period seven, the packed registers and the three shared keys.
THEOREM FastCorrect == AcceptanceSpec => []FastReads
  BY AcceptanceInvariance, FastShown, PTL
=============================================================================
