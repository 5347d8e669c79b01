------------------------- MODULE GeometryAcceptance -------------------------
(***************************************************************************)
(* GeometryAcceptance::build: the cellular-automaton equations a new row   *)
(* of a slice must satisfy, compiled once for each subtile phase into      *)
(* lookups of earlier rows (interior), and of earlier bits of a mirrored   *)
(* two-column window (boundary).  A table of masks is abstracted to the    *)
(* equations it was filled from and the rows or bits that index it.        *)
(***************************************************************************)
EXTENDS Geometry, SequencesExt

CONSTANT EdgePairs   \* the pairs of a left and a right edge mode an input names (bound)
ASSUME EdgePairsAssumption == EdgePairs \subseteq EdgeMode \X EdgeMode

VARIABLES left_edge, right_edge,
          phase, side,          \* locals of the loops of build_interior and build_boundary
          interior,             \* by phase, the projections of the interior equations
          fast,                 \* the layout of the compact lookups
          boundary              \* by side and phase, the projections of the edge conditions

edges == <<left_edge, right_edge>>
acceptanceVars == <<edges, phase, side, interior, fast, boundary>>
allVars == <<geometryVars, acceptanceVars>>

-----------------------------------------------------------------------------
\* The ten cells of an equation: the neighbourhood and the centre one generation later.
ca_offsets ==
  <<<<-1, -1, 0>>, <<0, -1, 0>>, <<1, -1, 0>>, <<-1, 0, 0>>, <<0, 0, 0>>,
    <<1, 0, 0>>, <<-1, 1, 0>>, <<0, 1, 0>>, <<1, 1, 0>>, <<0, 0, 1>>>>
Bits == DOMAIN ca_offsets
Negated(d) == <<-d[1], -d[2], -d[3]>>

\* A read is a row counted back from the candidate, and a column; row 0 is the candidate.
Window(p, columns) == (0 .. history_window(p)) \X columns
IsCandidate(read) == read[1] = 0
ReadCell(p, read) == cell(read[2], p - read[1])

\* A board tells what is known of a cell: pairs of a cell and a read.
Board(p, columns) == {<<ReadCell(p, read), read>> : read \in Window(p, columns)}
Found(board, c) == {entry[2] : entry \in {e \in board : e[1] = c}}
Cells(board) == {entry[1] : entry \in board}

\* The centres of the equations some of these cells take part in.
CentersOf(cells) == {shift(c, Negated(ca_offsets[i])) : c \in cells, i \in Bits}

Reads(equation) == UNION {equation[i] : i \in DOMAIN equation}
Touches(equation) == \E read \in Reads(equation) : IsCandidate(read)
History(reads) == {read \in reads : ~IsCandidate(read)}

\* What a board tells of the cells of the equation with this centre.
Equation(board, center) == [b \in Bits |-> Found(board, shift(center, ca_offsets[b]))]

\* Greedy grouping: an item goes to the first projection whose key stays within the
\* budget with what the item needs, or to a new one.
Group(projections, needs, item, budget) ==
  LET fits == {i \in DOMAIN projections : Cardinality(projections[i].key \cup needs) <= budget}
  IN  IF fits = {}
      THEN Append(projections, [key |-> needs, items |-> {item}])
      ELSE LET i == Min(fits)
           IN  [projections EXCEPT ![i].key = @ \cup needs, ![i].items = @ \cup {item}]

Grouped(items, needs, budget) ==
  LET grouped[n \in 0 .. Len(items)] ==
        IF n = 0 THEN <<>> ELSE Group(grouped[n - 1], needs[n], items[n], budget)
  IN  grouped[Len(items)]

Ascending(S) == [i \in 1 .. Cardinality(S) |-> CHOOSE n \in S : Cardinality({m \in S : m < n}) = i - 1]

-----------------------------------------------------------------------------
\* Interior: three columns, at most five earlier rows in a key.
maximum_projection_history_rows == 5

Rows(equation) == {read[1] : read \in History(Reads(equation))}

InteriorEquations(p) ==
  LET board == Board(p, 0 .. 2)
      centers == InOrder({c \in CentersOf({ReadCell(p, <<0, column>>) : column \in 0 .. 2}) :
                            Touches(Equation(board, c))})
  IN  [i \in DOMAIN centers |-> Equation(board, centers[i])]

Aliased(p) == Cardinality(Cells(Board(p, 0 .. 2))) # Cardinality(Window(p, 0 .. 2))

InteriorProjections(p) ==
  LET equations == InteriorEquations(p)
  IN  Grouped(equations, [i \in DOMAIN equations |-> Rows(equations[i])], maximum_projection_history_rows)

\* The compact lookups.  A table is known by what each digit of its key stands for: the
\* row it was built to hold there.
Position(s, element) == CHOOSE i \in DOMAIN s : s[i] = element

locality_order == <<2 * period, period + displacement, period, displacement, period - displacement>>

NoFast == [path |-> "generic", offsets |-> <<>>, digits |-> <<>>, gather |-> {}, ordered |-> <<>>, packed |-> <<>>]

OneProjection(projection) ==
  LET rows == Ascending(projection.key)
      local == Discovered(locality_order) = projection.key
      offsets == IF local THEN locality_order ELSE rows
      \* reordered[key] = masks[original_key], digit i of key moved to its original place
      digits == IF local THEN [i \in 1 .. 5 |-> rows[Position(rows, locality_order[i])]] ELSE rows
      p7 == period = 7 /\ displacement \in 1 .. 3 /\ local
      shifts == projection.key \subseteq 1 .. 21
  IN  [path    |-> "one",
       offsets |-> offsets,
       digits  |-> digits,
       gather  |-> IF p7 THEN {0, displacement, 2 * displacement, 7} ELSE {},
       ordered |-> IF shifts THEN rows ELSE <<>>,
       packed  |-> IF shifts THEN [j \in 1 .. 5 |-> digits[Position(offsets, rows[j])]] ELSE <<>>]

\* Mistake: the gathered bytes are taken in the order of the block.
GatheredOffsetsInOrder ==
  LET byte == Ascending(fast.gather)
      at(j) == (7 + displacement) - byte[j]
  IN  <<14, at(1), at(2), at(3), at(4)>>

\* fast_p7_one_projection_mask: eight bytes from row - (7 + K), gathered lowest byte first.
GatheredOffsets ==
  LET byte == Ascending(fast.gather)
      at(j) == (7 + displacement) - byte[j]
  IN  <<14, at(1), at(2), at(4), at(3)>>

\* fast_three_projection_mask: the second key shares three rows with the first.
ThreeOffsets(p) ==
  LET rows(k) == Ascending(interior[p + 1][k].key)
  IN  <<rows(1),
        <<rows(2)[1], rows(1)[1], rows(1)[3], rows(1)[4]>>,
        rows(3)>>

ThreeCompatible(p) ==
  LET size(k) == Cardinality(interior[p + 1][k].key)
      rows(k) == Ascending(interior[p + 1][k].key)
  IN  /\ Len(interior[p + 1]) = 3
      /\ size(1) = 5 /\ size(2) = 4 /\ size(3) = 3
      /\ rows(2)[2] = rows(1)[1] /\ rows(2)[3] = rows(1)[3] /\ rows(2)[4] = rows(1)[4]

FastLayout ==
  IF subtile_count = 1 /\ Len(interior[1]) = 1 /\ Cardinality(interior[1][1].key) = 5
  THEN OneProjection(interior[1][1])
  ELSE IF subtile_count = 2 /\ ThreeCompatible(0) /\ ThreeCompatible(1)
  THEN [NoFast EXCEPT !.path = "three"]
  ELSE NoFast

-----------------------------------------------------------------------------
\* Boundary: two columns and their mirror image, at most ten earlier bits in a key.
maximum_projection_history_bits == 10

Mode(s) == IF s = "left" THEN left_edge ELSE right_edge

\* The order in which the loops insert the reads: the history of a column, then its candidate.
Rank(p, read) ==
  (read[2] * (history_window(p) + 1)) + (IF IsCandidate(read) THEN history_window(p) ELSE read[1] - 1)

\* Two reads of a cell are compared if one of them is new.
Compared(tie) == \E read \in Reads(tie) : IsCandidate(read)

First(p, reads) == CHOOSE read \in reads : \A other \in reads : Rank(p, read) <= Rank(p, other)

\* The window and its mirror image.
EdgeBoard(p, s) ==
  LET plain == Board(p, {0, 1})
  IN  plain \cup {<<reflect(e[1], Mode(s), s, 0), e[2]>> : e \in plain}

\* A condition is the tuple of its reads: two that must agree (a mirrored cell read
\* twice), or the ten of an equation, the first of each cell.
Equalities(p, reads) ==
  LET ties == {<<{First(p, reads)}, {read}>> : read \in reads \ {First(p, reads)}}
  IN  SetToSeq({tie \in ties : Compared(tie)})

EdgeEquation(p, board, center) ==
  [b \in Bits |-> LET reads == Found(board, shift(center, ca_offsets[b]))
                  IN  IF reads = {} THEN {} ELSE {First(p, reads)}]

EdgeConditions(p, s) ==
  LET board == EdgeBoard(p, s)
      shared == InOrder({c \in Cells(board) : Cardinality(Found(board, c)) > 1})
      centers == InOrder({c \in CentersOf({e[1] : e \in {f \in board : IsCandidate(f[2])}}) :
                            Reads(EdgeEquation(p, board, c)) # {}})
  IN  FlattenSeq([i \in DOMAIN shared |-> Equalities(p, Found(board, shared[i]))])
      \o [i \in DOMAIN centers |-> EdgeEquation(p, board, centers[i])]

OverBudget(p, s) ==
  LET conditions == EdgeConditions(p, s)
  IN  \E i \in DOMAIN conditions :
        Cardinality(History(Reads(conditions[i]))) > maximum_projection_history_bits

EdgeProjections(p, s) ==
  LET conditions == EdgeConditions(p, s)
  IN  Grouped(conditions, [i \in DOMAIN conditions |-> History(Reads(conditions[i]))], maximum_projection_history_bits)

-----------------------------------------------------------------------------
AcceptanceInit ==
  /\ GeometryInit
  /\ \E pair \in EdgePairs : left_edge = pair[1] /\ right_edge = pair[2]
  /\ phase = 0 /\ side = "left"
  /\ interior = <<>> /\ fast = NoFast
  /\ boundary = [s \in Side |-> <<>>]

\* Solver construction: Geometry::parse, then validate_edges, then build.
ParseGeometry == GeometryNext /\ UNCHANGED acceptanceVars

RejectEdges ==
  /\ pc = "parsed"
  /\ ~edge_compatible(left_edge) \/ ~edge_compatible(right_edge)
  /\ pc' = "rejected"
  /\ UNCHANGED <<movement, tile, bezout, euclid, queue, spots, acceptanceVars>>

ValidateEdges ==
  /\ pc = "parsed"
  /\ edge_compatible(left_edge) /\ edge_compatible(right_edge)
  /\ pc' = "interior"
  /\ UNCHANGED <<movement, tile, bezout, euclid, queue, spots, acceptanceVars>>

BuildInteriorPhase ==
  /\ pc = "interior" /\ phase < subtile_count
  /\ IF Aliased(phase)
     THEN pc' = "aliased" /\ UNCHANGED <<interior, phase>>
     ELSE /\ interior' = Append(interior, InteriorProjections(phase))
          /\ phase' = phase + 1 /\ pc' = pc
  /\ UNCHANGED <<movement, tile, bezout, euclid, queue, spots, edges, side, fast, boundary>>

SelectFast ==
  /\ pc = "interior" /\ phase = subtile_count
  /\ fast' = FastLayout
  /\ pc' = "boundary" /\ phase' = 0
  /\ UNCHANGED <<movement, tile, bezout, euclid, queue, spots, edges, side, interior, boundary>>

BuildBoundaryPhase ==
  /\ pc = "boundary" /\ Mode(side) # Background /\ phase < subtile_count
  /\ IF OverBudget(phase, side)
     THEN pc' = "over_budget" /\ UNCHANGED <<boundary, phase>>
     ELSE /\ boundary' = [boundary EXCEPT ![side] = Append(@, EdgeProjections(phase, side))]
          /\ phase' = phase + 1 /\ pc' = pc
  /\ UNCHANGED <<movement, tile, bezout, euclid, queue, spots, edges, side, interior, fast>>

\* The edge is done, or has no reflection to check.
NextEdge ==
  /\ pc = "boundary" /\ (Mode(side) = Background \/ phase = subtile_count)
  /\ phase' = 0
  /\ IF side = "left" THEN side' = "right" /\ pc' = pc ELSE side' = side /\ pc' = "built"
  /\ UNCHANGED <<movement, tile, bezout, euclid, queue, spots, edges, interior, fast, boundary>>

AcceptanceNext ==
  \/ ParseGeometry
  \/ RejectEdges \/ ValidateEdges
  \/ BuildInteriorPhase \/ SelectFast
  \/ BuildBoundaryPhase \/ NextEdge

AcceptanceSpec == AcceptanceInit /\ [][AcceptanceNext]_allVars
-----------------------------------------------------------------------------
\* Reference: the same conditions derived on the physical cells, from a candidate row
\* deep enough to have every earlier row the lookback could miss.
Built == pc = "built"
PhysicalPlus(c, d) == [x |-> c.x + d[1], y |-> c.y + d[2], t |-> c.t + d[3]]
StripRow(p) == long_window + p
Strip(p, columns) == (0 .. StripRow(p)) \X columns
Physical(p, read) == to_physical(cell(read[2], StripRow(p) - read[1]))

\* The physical mirror image at an edge, half a period later for a glide.
PhysicalMirror(c, mode, s) ==
  LET axis == local_constant(mode, s) \div gcd
      half == IF mode \in Glides THEN 1 ELSE 0
  IN  IF diagonal
      THEN [x |-> c.y + ((axis - (half * displacement)) \div 2),
            y |-> c.x - ((axis + (half * displacement)) \div 2),
            t |-> c.t + ((half * period) \div 2)]
      ELSE [x |-> axis - c.x,
            y |-> c.y - ((half * displacement) \div 2),
            t |-> c.t + ((half * period) \div 2)]

\* The equations the physical cells `touched` take part in, over what each cell of
\* a board (a function from ship cells to reads) tells.
PhysicalEquations(board, touched) ==
  LET centers == {PhysicalPlus(c, Negated(ca_offsets[i])) : c \in touched, i \in Bits}
  IN  {[b \in Bits |-> Found(board, ShipCell(PhysicalPlus(c, ca_offsets[b])))] : c \in centers}

Imposed(projections) == UNION {projections[i].items : i \in DOMAIN projections}

\* A row is accepted exactly when it satisfies every equation its cells take part in, as
\* far as the three columns tell: with geometry-dependent shifts and truncated
\* histories the tables hold the equations of the physical cells, each with all the cells
\* the columns have of it, and no other.
InteriorExact ==
  /\ pc # "aliased"
  /\ Built => \A p \in 0 .. (subtile_count - 1) :
    LET board == {<<ShipCell(Physical(p, read)), read>> : read \in Strip(p, 0 .. 2)}
    IN  Imposed(interior[p + 1]) =
          PhysicalEquations(board, {Physical(p, <<0, column>>) : column \in 0 .. 2})

\* An edge accepts a row exactly when the window together with its physical mirror image
\* satisfies every equation the new cells and their images take part in, and every cell
\* that is read twice, once with a new bit, is given one state.
BoundaryImposed ==
  Built => \A s \in {e \in Side : Mode(e) # Background}, p \in 0 .. (subtile_count - 1) :
    LET strip == Strip(p, {0, 1})
        mirror(c) == PhysicalMirror(c, Mode(s), s)
        board == {<<ShipCell(Physical(p, read)), read>> : read \in strip}
                 \cup {<<ShipCell(mirror(Physical(p, read))), read>> : read \in strip}
        candidates == {Physical(p, <<0, column>>) : column \in {0, 1}}
        required == PhysicalEquations(board, candidates \cup {mirror(c) : c \in candidates})
        imposed == Imposed(boundary[s][p + 1])
        equations == {e \in imposed : Len(e) = 10}
        agree(e, q) == \A b \in Bits : e[b] \subseteq q[b] /\ (e[b] = {} <=> q[b] = {})
    IN  /\ \A q \in required : \E e \in equations : agree(e, q)
        /\ \A e \in equations : \E q \in required : agree(e, q)
        /\ {Reads(e) : e \in imposed \ equations} =
             {reads \in {Found(board, k) : k \in Cells(board)} :
                Cardinality(reads) > 1 /\ \E read \in reads : IsCandidate(read)}

\* A cell that is read twice through earlier rows only is not compared again: it was
\* compared when the later of the two rows was the candidate.
AliasesSettled ==
  Built => \A s \in {e \in Side : Mode(e) # Background}, p \in 0 .. (subtile_count - 1) :
    LET board == Board(p, {0, 1})
    IN  \A e \in board :
          LET a == e[2]
          IN  \A b \in Found(board, reflect(e[1], Mode(s), s, 0)) :
                (a # b /\ a[1] <= b[1]) =>
                  {<<0, a[2]>>, <<b[1] - a[1], b[2]>>} \in
                    {Reads(c) : c \in Imposed(boundary[s][((p - a[1]) % subtile_count) + 1])}

\* Every row of an edge is held to the equations of its physical mirror image and to one
\* state for each cell, be it now or when a later row was its candidate.
BoundaryExact == pc # "over_budget" /\ BoundaryImposed /\ AliasesSettled

\* No lookup reads a row above the first, from the first row that is checked on, and the
\* keys keep the widths the documentation promises: five earlier rows, ten earlier bits.
LookupsBounded ==
  Built => \A p \in 0 .. (subtile_count - 1) :
    LET firstRow == CHOOSE row \in short_window .. long_window : subtile_position(row) = p
        keys(projections) == {projections[i].key : i \in DOMAIN projections}
    IN  /\ \A key \in keys(interior[p + 1]) : key \subseteq 1 .. firstRow /\ Cardinality(key) <= 5
        /\ \A s \in {e \in Side : Mode(e) # Background} : \A key \in keys(boundary[s][p + 1]) :
             key \subseteq (1 .. firstRow) \X {0, 1} /\ Cardinality(key) <= 10

\* Every compact lookup reads, for each digit of its key, the row that digit of its table
\* was built for: the reordered scalar key, the bytes gathered for period seven, the
\* rows gathered from a shift register, and the three keys that share rows.
FastReads ==
  Built =>
    /\ LookupsBounded
    /\ fast.path = "one" =>
         /\ fast.offsets = fast.digits
         /\ Discovered(fast.digits) = interior[1][1].key
         /\ fast.gather # {} => GatheredOffsets = fast.digits
         /\ fast.packed = fast.ordered
    /\ fast.path = "three" =>
         \A p \in 0 .. 1, k \in 1 .. 3 : ThreeOffsets(p)[k] = Ascending(interior[p + 1][k].key)
=============================================================================
