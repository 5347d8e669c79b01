------------------------------ MODULE Geometry ------------------------------
(***************************************************************************)
(* The search lattice: Geometry::parse with its extended Euclid and the    *)
(* enumeration of the spots of a tile, then the coordinate maps the rest   *)
(* of the solver calls.  A lattice cell is named by a logical column and a *)
(* flattened depth; V, the way the ship moves in one period, is factored   *)
(* out, so that a cell stands for a physical cell (x, y, t) and all its    *)
(* translates by the ship's movement.                                      *)
(***************************************************************************)
EXTENDS Integers, FiniteSets, Sequences

CONSTANTS Movements,   \* the geometries named: displacement, period, diagonal (bound)
          Columns      \* the logical columns the properties look at (bound)

\* The pattern of parse only matches digits.
ASSUME MovementsAssumption == Movements \subseteq Nat \X Nat \X BOOLEAN
ASSUME ColumnsAssumption == Columns \subseteq Int /\ IsFiniteSet(Columns)

VARIABLES
  pc,
  displacement, period, diagonal,      \* the movement: displacement cells in period generations
  gcd, subtile_count, w_time, w_space,
  old_r, r, old_x, x, old_y, y,        \* locals of extended_gcd
  pending, cursor,                     \* locals of build_spots
  spots

movement == <<displacement, period, diagonal>>
tile     == <<gcd, subtile_count>>
bezout   == <<w_time, w_space>>
euclid   == <<old_r, r, old_x, x, old_y, y>>
queue    == <<pending, cursor>>
geometryVars == <<pc, movement, tile, bezout, euclid, queue, spots>>

-----------------------------------------------------------------------------
\* Division of the implementation language: towards zero, the remainder has the
\* sign of the numerator.
Quotient(n, d)  == IF n >= 0 THEN n \div d ELSE -((-n) \div d)
Remainder(n, d) == n - (d * Quotient(n, d))

\* Mistake: rounds towards zero.
floor_divTruncated(n, d) == Quotient(n, d)

floor_div(n, d) == IF Remainder(n, d) < 0 THEN Quotient(n, d) - 1 ELSE Quotient(n, d)
floor_mod(n, d) == IF Remainder(n, d) < 0 THEN Remainder(n, d) + d ELSE Remainder(n, d)

\* std::gcd of two numbers that are not both zero.
Divides(d, n) == n % d = 0
std_gcd(a, b) ==
  CHOOSE d \in 1 .. b :
    /\ Divides(d, a) /\ Divides(d, b)
    /\ \A e \in 1 .. b : Divides(e, a) /\ Divides(e, b) => e <= d

-----------------------------------------------------------------------------
\* Windows and positions.
short_window == (IF diagonal THEN 4 ELSE 2) * period

\* Mistake: the earlier subtiles of the candidate's tile are left out.
history_windowTile(phase) == short_window

history_window(phase) == short_window + phase
long_window == short_window + subtile_count
complete_tile(depth) == depth % subtile_count = 0
subtile_position(depth) == depth % subtile_count

\* Coordinates: U and W scaled by the subtile count, V modulo it.
Coordinate == [u : Int, v : Int, w : Int]
Origin == [u |-> 0, v |-> 0, w |-> 0]

Less(c, e) ==
  \/ c.w < e.w
  \/ c.w = e.w /\ c.v < e.v
  \/ c.w = e.w /\ c.v = e.v /\ c.u < e.u

\* A set of coordinates in the order of operator<: an std::set iterates so.
InOrder(S) ==
  LET rank == [c \in S |-> Cardinality({e \in S : Less(e, c)})]
  IN  [i \in 1 .. Cardinality(S) |-> CHOOSE c \in S : rank[c] = i - 1]

\* Mistake: the generation is not doubled on the diagonal lattice.
shiftUnscaled(c, d) ==
  LET dx == d[1]  dy == d[2]  dt == d[3]
  IN  IF diagonal
      THEN [u |-> c.u + gcd * (dx - dy),
            v |-> floor_mod(c.v + (w_space * dt) - (w_time * (dx + dy)), subtile_count),
            w |-> c.w + (period * (dx + dy)) + (2 * displacement * dt)]
      ELSE [u |-> c.u + subtile_count * dx,
            v |-> floor_mod(c.v + (w_space * dt) - (w_time * dy), subtile_count),
            w |-> c.w + (period * dy) + (displacement * dt)]

\* The lattice cell dx, dy, dt physical cells away.
shift(c, d) ==
  LET dx == d[1]  dy == d[2]  dt == d[3]
  IN  IF diagonal
      THEN [u |-> c.u + gcd * (dx - dy),
            v |-> floor_mod(c.v + (2 * w_space * dt) - (w_time * (dx + dy)), subtile_count),
            w |-> c.w + (period * (dx + dy)) + (2 * displacement * dt)]
      ELSE [u |-> c.u + subtile_count * dx,
            v |-> floor_mod(c.v + (w_space * dt) - (w_time * dy), subtile_count),
            w |-> c.w + (period * dy) + (displacement * dt)]

cell(logical_u, depth) ==
  LET spot == spots[floor_mod(depth, subtile_count)]
  IN  [u |-> spot.u + (subtile_count * logical_u), v |-> spot.v,
       w |-> spot.w + (subtile_count * floor_div(depth, subtile_count))]

\* to_physical: the numerators over subtile_count; it throws when one is not a multiple.
Numerators(c) ==
  [x |-> IF diagonal THEN c.u - (displacement * c.v) + (w_space * c.w) ELSE c.u,
   y |-> (IF diagonal THEN -c.u ELSE 0) - (displacement * c.v) + (w_space * c.w),
   t |-> (period * c.v) + (w_time * c.w)]

Integral(c) ==
  LET n == Numerators(c)
  IN  \A i \in {n.x, n.y, n.t} : Remainder(i, subtile_count) = 0

to_physical(c) ==
  LET n == Numerators(c)
  IN  [x |-> Quotient(n.x, subtile_count), y |-> Quotient(n.y, subtile_count), t |-> Quotient(n.t, subtile_count)]

\* Reflection at an edge.  Checkpoints keep the modes as bytes.
Background == 0
Odd == 1
Even == 2
GlideEven == 3
GlideOdd == 4
EdgeMode == {Background, Odd, Even, GlideEven, GlideOdd}
Glides == {GlideEven, GlideOdd}
Side == {"left", "right"}

\* Mistake: a glide only needs an even period.
edge_compatibleByPeriod(mode) ==
  CASE mode \in {Background, Odd} -> TRUE
    [] mode = Even -> ~diagonal
    [] mode \in Glides -> period % 2 = 0

edge_compatible(mode) ==
  CASE mode \in {Background, Odd} -> TRUE
    [] mode = Even -> ~diagonal
    [] mode \in Glides ->
         IF diagonal THEN /\ period % 2 = 0
                          /\ displacement % 2 = (IF mode = GlideOdd THEN 0 ELSE 1)
                     ELSE period % 2 = 0 /\ displacement % 2 = 0

local_constant(mode, side) ==
  IF mode \in {Odd, GlideOdd}
  THEN (IF diagonal THEN (IF side = "left" THEN 2 ELSE 4) ELSE (IF side = "left" THEN 0 ELSE 2)) * gcd
  ELSE (IF diagonal THEN 3 ELSE 1) * gcd

\* Mistake: a glide does not advance by half a period.
reflectUnglided(c, mode, side, logical_u_origin) ==
  [u |-> (2 * subtile_count * logical_u_origin) + local_constant(mode, side) - c.u, v |-> c.v, w |-> c.w]

reflect(c, mode, side, logical_u_origin) ==
  [u |-> (2 * subtile_count * logical_u_origin) + local_constant(mode, side) - c.u,
   v |-> IF mode \in Glides
         THEN floor_mod(c.v + (IF diagonal THEN gcd ELSE gcd \div 2), subtile_count)
         ELSE c.v,
   w |-> c.w]

-----------------------------------------------------------------------------
\* parse: an input is a displacement, a period and a lattice.
GeometryInit ==
  /\ pc = "parse"
  /\ \E m \in Movements : displacement = m[1] /\ period = m[2] /\ diagonal = m[3]
  /\ gcd = 1 /\ subtile_count = 1 /\ w_time = 1 /\ w_space = 0
  /\ old_r = 0 /\ r = 0 /\ old_x = 0 /\ x = 0 /\ old_y = 0 /\ y = 0
  /\ pending = <<>> /\ cursor = 0 /\ spots = <<>>

Reject ==
  /\ pc = "parse"
  /\ period <= 0 \/ displacement > period
  /\ pc' = "rejected"
  /\ UNCHANGED <<movement, tile, bezout, euclid, queue, spots>>

Parse ==
  /\ pc = "parse"
  /\ period > 0 /\ displacement <= period
  /\ gcd' = std_gcd(displacement, period)
  /\ subtile_count' = (IF diagonal THEN 2 ELSE 1) * gcd'
  /\ old_r' = displacement /\ r' = period
  /\ old_x' = 1 /\ x' = 0
  /\ old_y' = 0 /\ y' = 1
  /\ pc' = "euclid"
  /\ UNCHANGED <<movement, bezout, queue, spots>>

\* Mistake: the quotient is taken after the remainders are replaced.
EuclidStepReused ==
  /\ pc = "euclid" /\ r # 0
  /\ old_r' = r /\ r' = old_r - (Quotient(old_r, r) * r)
  /\ old_x' = x /\ x' = old_x - (Quotient(old_r, r) * x)
  /\ old_y' = y /\ y' = old_y - (Quotient(old_r', r) * y)
  /\ UNCHANGED <<pc, movement, tile, bezout, queue, spots>>

\* One pass of the loop of extended_gcd.
EuclidStep ==
  /\ pc = "euclid" /\ r # 0
  /\ old_r' = r /\ r' = old_r - (Quotient(old_r, r) * r)
  /\ old_x' = x /\ x' = old_x - (Quotient(old_r, r) * x)
  /\ old_y' = y /\ y' = old_y - (Quotient(old_r, r) * y)
  /\ UNCHANGED <<pc, movement, tile, bezout, queue, spots>>

Sign == IF old_r < 0 THEN -1 ELSE 1

\* It throws when the two ways to the greatest common divisor disagree.
EuclidDone ==
  /\ pc = "euclid" /\ r = 0
  /\ IF Sign * old_r = gcd
     THEN /\ w_time' = Sign * old_x /\ w_space' = Sign * old_y
          /\ pending' = <<Origin>> /\ cursor' = 1
          /\ pc' = "spots"
     ELSE pc' = "bezout_failed" /\ UNCHANGED <<bezout, queue>>
  /\ UNCHANGED <<movement, tile, euclid, spots>>

\* build_spots: the closure of the origin under the three generators.
Generators ==
  IF diagonal
  THEN <<[u |-> gcd, v |-> -w_time, w |-> period], [u |-> -gcd, v |-> -w_time, w |-> period],
         [u |-> 0, v |-> 2 * w_space, w |-> 2 * displacement]>>
  ELSE <<[u |-> subtile_count, v |-> 0, w |-> 0], [u |-> 0, v |-> -w_time, w |-> period],
         [u |-> 0, v |-> w_space, w |-> displacement]>>

normalized(c) ==
  [u |-> floor_mod(c.u, subtile_count), v |-> floor_mod(c.v, subtile_count), w |-> floor_mod(c.w, subtile_count)]

Plus(c, e) == [u |-> c.u + e.u, v |-> c.v + e.v, w |-> c.w + e.w]
Discovered(s) == {s[i] : i \in DOMAIN s}
Discover(s, c) == IF c \in Discovered(s) THEN s ELSE Append(s, c)

ExpandSpot ==
  /\ pc = "spots" /\ cursor <= Len(pending)
  /\ LET next(i) == normalized(Plus(pending[cursor], Generators[i]))
     IN  pending' = Discover(Discover(Discover(pending, next(1)), next(2)), next(3))
  /\ cursor' = cursor + 1
  /\ UNCHANGED <<pc, movement, tile, bezout, euclid, spots>>

SpotsDone ==
  /\ pc = "spots" /\ cursor > Len(pending)
  /\ IF Len(pending) = subtile_count
     THEN LET sorted == InOrder(Discovered(pending))
          IN  /\ spots' = [p \in 0 .. (subtile_count - 1) |-> sorted[p + 1]]
              /\ pc' = "parsed"
     ELSE pc' = "wrong_determinant" /\ UNCHANGED spots
  /\ UNCHANGED <<movement, tile, bezout, euclid, queue>>

GeometryNext ==
  \/ Reject \/ Parse
  \/ EuclidStep \/ EuclidDone
  \/ ExpandSpot \/ SpotsDone

GeometrySpec == GeometryInit /\ [][GeometryNext]_geometryVars
-----------------------------------------------------------------------------
\* Mistake: the periods are counted rounding towards zero.
ShipCellTruncated(c) ==
  LET periods == Quotient(c.t, period)
  IN  [x |-> c.x + (IF diagonal THEN periods * displacement ELSE 0),
       y |-> c.y + (periods * displacement),
       t |-> c.t - (periods * period)]

\* A physical cell up to the ship's movement, at its generation within the period: the
\* phase image render_phase_montage draws the cell in, and its place there.
ShipCell(c) ==
  LET periods == floor_div(c.t, period)
  IN  [x |-> c.x + (IF diagonal THEN periods * displacement ELSE 0),
       y |-> c.y + (periods * displacement),
       t |-> c.t - (periods * period)]

TileCells == {cell(u, depth) : u \in Columns, depth \in (-subtile_count) .. short_window}
Steps == {<<dx, dy, dt>> : dx \in -1 .. 1, dy \in -1 .. 1, dt \in 0 .. 1}

\* Each pass of the loop keeps both remainders combinations of the two inputs, so what it
\* ends with is a Bezout pair for their greatest common divisor, and it always ends so.
BezoutKept ==
  /\ pc = "euclid" =>
       /\ old_r = (displacement * old_x) + (period * old_y)
       /\ r = (displacement * x) + (period * y)
  /\ pc \in {"spots", "parsed"} =>
       (displacement * w_time) + (period * w_space) = std_gcd(displacement, period)
  /\ pc # "bezout_failed"

\* The construction never fails, and columns and depths name the physical cells up to the
\* ship's movement, each once: every cell is integral, no two are the same, and none is
\* missing.
LatticeExact ==
  /\ pc # "wrong_determinant"
  /\ pc = "parsed" =>
    LET names == Columns \X ((-subtile_count) .. short_window)
    IN  /\ \A c \in TileCells : c \in Coordinate /\ Integral(c)
        /\ Cardinality({ShipCell(to_physical(c)) : c \in TileCells}) = Cardinality(names)
        /\ \A dx, dy \in -2 .. 2, dt \in 0 .. (period - 1) :
             \E p \in DOMAIN spots : spots[p] = normalized(shift(Origin, <<dx, dy, dt>>))

\* A step on the lattice is the same step on the physical cells, up to the ship's
\* movement: coordinates of earlier and later rows, of either sign, never drift.
ShiftTranslates ==
  pc = "parsed" => \A c \in {a \in TileCells : a \in Coordinate /\ Integral(a)}, d \in Steps :
    LET p == to_physical(c)
    IN  /\ Integral(shift(c, d))
        /\ ShipCell(to_physical(shift(c, d))) = ShipCell([x |-> p.x + d[1], y |-> p.y + d[2], t |-> p.t + d[3]])

\* An edge the geometry accepts has a mirror of its lattice: the image of a cell is a
\* cell, the image of the image is the cell, and the image of a neighbour is a neighbour
\* of the image on the other side.
ReflectionSound ==
  pc = "parsed" => \A mode \in {m \in EdgeMode \ {Background} : edge_compatible(m)}, side \in Side, origin \in Columns :
    \A c \in TileCells :
      LET image(a) == reflect(a, mode, side, origin)
      IN  /\ Integral(image(c))
          /\ image(image(c)) = c
          /\ \A d \in Steps :
               image(shift(c, d)) = shift(image(c), IF diagonal THEN <<d[2], d[1], d[3]>> ELSE <<-d[1], d[2], d[3]>>)

\* A board of the least height has cells of every generation, and so do its mirror images:
\* a rendered board has no empty image and no cell outside of the images.
EveryPhaseDrawn ==
  pc = "parsed" =>
    LET rows == {cell(0, depth) : depth \in 0 .. (short_window - 1)}
        generations(cells) == {ShipCell(to_physical(c)).t : c \in cells}
    IN  /\ generations(rows) = 0 .. (period - 1)
        /\ \A mode \in {m \in EdgeMode \ {Background} : edge_compatible(m)}, side \in Side :
             generations({reflect(c, mode, side, 0) : c \in rows}) = 0 .. (period - 1)
=============================================================================
