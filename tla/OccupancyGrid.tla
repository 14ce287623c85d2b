---------------------------- MODULE OccupancyGrid ---------------------------
(***************************************************************************)
(* From the areas of a map to the occupancy grid: mapToOccupancyGrid() and *)
(* fillGridWithPolygon() of src/map_server/map_server_node.cpp with        *)
(* polygon_iterator.hpp and some_gaussian_filter.hpp.                      *)
(*                                                                         *)
(* Lengths are integers in a unit of which a cell has Resolution, so the   *)
(* rounding of floats is left out.  An area is a type and an outline, its  *)
(* corners in order; a cell is a column and a row; a grid maps cells to    *)
(* -1 (unknown), 0 (free) or 100 (occupied).                               *)
(***************************************************************************)
EXTENDS Integers, Sequences, FiniteSets

CONSTANTS
  Resolution,     \* grid.resolution
  Padding,        \* what is added around the areas: one metre
  DefaultReach,   \* of the grid of a map without areas: ten metres
  MinCells,       \* least width and height: 10
  MaxCells,       \* grid.max_size
  Kernel          \* map.gaussian_blur.kernel: weights, row by row

ASSUME GridAssumption ==
  /\ {Resolution, Padding, DefaultReach, MinCells, MaxCells} \subseteq Nat \ {0}
  /\ \E n \in 0..Len(Kernel) : Len(Kernel) = (2 * n + 1) * (2 * n + 1)
  /\ Kernel \in Seq(Nat \ {0})

Exclusion == 0   \* TYPE_EXCLUSION; navigation is 1 and operation is 2

Unknown == -1
Free == 0
Occupied == 100

Least(S) == CHOOSE a \in S : \A b \in S : a <= b
Greatest(S) == CHOOSE a \in S : \A b \in S : a >= b

-----------------------------------------------------------------------------
(* The polygon iterator.                                                    *)

Coordinates(outline, axis) == {outline[i][axis] : i \in DOMAIN outline}

Edge(outline, i) == <<outline[i], outline[(i % Len(outline)) + 1]>>

Edges(outline) == {Edge(outline, i) : i \in DOMAIN outline}

\* How far p is to the left of the line through the edge, times the length of the edge.
Side(edge, p) == (edge[2][1] - edge[1][1]) * (p[2] - edge[1][2])
                   - (edge[2][2] - edge[1][2]) * (p[1] - edge[1][1])

SquaredLength(edge) == (edge[2][1] - edge[1][1]) * (edge[2][1] - edge[1][1])
                         + (edge[2][2] - edge[1][2]) * (edge[2][2] - edge[1][2])

\* Within a tenth of a cell of the edge.
OnEdge(edge, p) ==
  /\ 100 * Side(edge, p) * Side(edge, p) < Resolution * Resolution * SquaredLength(edge)
  /\ \A axis \in 1..2 :
       /\ 10 * p[axis] >= 10 * Least({edge[1][axis], edge[2][axis]}) - Resolution
       /\ 10 * p[axis] <= 10 * Greatest({edge[1][axis], edge[2][axis]}) + Resolution

\* The ray from p to the right crosses the edge.
Crosses(edge, p) ==
  /\ (edge[1][2] > p[2]) # (edge[2][2] > p[2])
  /\ IF edge[2][2] > edge[1][2] THEN Side(edge, p) > 0 ELSE Side(edge, p) < 0

IsPointInsidePolygon(outline, p) ==
  \/ \E edge \in Edges(outline) : OnEdge(edge, p)
  \/ Cardinality({i \in DOMAIN outline : Crosses(Edge(outline, i), p)}) % 2 = 1

\* min, min + Resolution, ... up to max.
Steps(S) == {n \in Least(S)..Greatest(S) : (n - Least(S)) % Resolution = 0}

MinCorner(outline) == <<Least(Coordinates(outline, 1)), Least(Coordinates(outline, 2))>>

\* The points next() stops at.  It takes a step before it looks, so the bottom-left corner
\* of the bounding box is not among them.
Visited(outline) ==
  {p \in Steps(Coordinates(outline, 1)) \X Steps(Coordinates(outline, 2)) :
     p # MinCorner(outline) /\ IsPointInsidePolygon(outline, p)}

-----------------------------------------------------------------------------
(* The grid.                                                                *)

\* The corners of all areas on one axis, or what stands in for them.
Extent(areas, axis) ==
  IF areas = <<>> THEN {-DefaultReach, DefaultReach}
  ELSE LET all == UNION {Coordinates(areas[i].outline, axis) : i \in DOMAIN areas}
       IN  {Least(all) - Padding, Greatest(all) + Padding}

Origin(areas) == <<Least(Extent(areas, 1)), Least(Extent(areas, 2))>>

CellCount(areas, axis) ==
  LET cells == (Greatest(Extent(areas, axis)) - Least(Extent(areas, axis))) \div Resolution
  IN  Greatest({MinCells, Least({MaxCells, cells})})

Cells(areas) == (0..(CellCount(areas, 1) - 1)) \X (0..(CellCount(areas, 2) - 1))

CellOf(origin, p) == <<(p[1] - origin[1]) \div Resolution, (p[2] - origin[2]) \div Resolution>>

\* Mutant: an area overwrites what is on the grid.
FillOver(grid, touched, value) == [cell \in DOMAIN grid |-> IF cell \in touched THEN value ELSE grid[cell]]

\* fillGridWithPolygon(): points off the grid are skipped, and a greater value stays.
Fill(grid, touched, value) ==
  [cell \in DOMAIN grid |-> IF cell \in touched /\ grid[cell] <= value THEN value ELSE grid[cell]]

\* What std::sort may make of up to sixteen areas with this comparator: exclusions first,
\* then navigation, then operation areas; equal types in any order.
Orders(areas) ==
  {order \in [DOMAIN areas -> DOMAIN areas] :
     /\ \A i, j \in DOMAIN areas : order[i] = order[j] => i = j
     /\ \A i, j \in DOMAIN areas : i < j => areas[order[i]].type <= areas[order[j]].type}

FillValue(area) == IF area.type = Exclusion THEN Occupied ELSE Free

\* The grid as mapToOccupancyGrid() fills it, for one of the orders.
Grid(areas, order) ==
  LET After[n \in 0..Len(areas)] ==
        IF n = 0 THEN [cell \in Cells(areas) |-> Unknown]
        ELSE LET area == areas[order[n]]
                 touched == {CellOf(Origin(areas), p) : p \in Visited(area.outline)}
             IN  Fill(After[n - 1], touched, FillValue(area))
  IN  After[Len(areas)]

-----------------------------------------------------------------------------
(* The blur.                                                                *)

Half == CHOOSE n \in 0..Len(Kernel) : (2 * n + 1) * (2 * n + 1) = Len(Kernel)

\* The cells under the kernel when it lies on cell.
Window(grid, cell) ==
  {other \in DOMAIN grid : \A axis \in 1..2 : other[axis] - cell[axis] \in (-Half)..Half}

Weight(cell, other) ==
  Kernel[(other[2] - cell[2] + Half) * (2 * Half + 1) + (other[1] - cell[1] + Half) + 1]

\* An unknown neighbour counts as occupied.
Pixel(value) == IF value = Unknown THEN Occupied ELSE value

\* The sum of the values of a function.
SumOver(f) ==
  LET Sum[T \in SUBSET DOMAIN f] ==
        IF T = {} THEN 0 ELSE LET t == CHOOSE t \in T : TRUE IN f[t] + Sum[T \ {t}]
  IN  Sum[DOMAIN f]

\* Mutant: the weights are not renormalised at the border of the grid.
MeanOfAll(grid, cell) ==
  LET total == SumOver([o \in Window(grid, cell) |-> Pixel(grid[o]) * Weight(cell, o)])
      weight == SumOver(Kernel)
  IN  (2 * total + weight) \div (2 * weight)

\* The weighted mean of the window, rounded.
Mean(grid, cell) ==
  LET total == SumOver([o \in Window(grid, cell) |-> Pixel(grid[o]) * Weight(cell, o)])
      weight == SumOver([o \in Window(grid, cell) |-> Weight(cell, o)])
  IN  (2 * total + weight) \div (2 * weight)

\* apply(): unknown cells stay unknown, and every mean is taken over the grid as it was.
Blur(grid) ==
  [cell \in DOMAIN grid |-> IF grid[cell] = Unknown THEN Unknown ELSE Mean(grid, cell)]

\* The grid that is published, in a server that blurs or in one that does not.
MapToOccupancyGrid(areas, order, blurred) ==
  IF blurred THEN Blur(Grid(areas, order)) ELSE Grid(areas, order)

-----------------------------------------------------------------------------
(* What the grid has to say, told from the outlines and not from what the  *)
(* iterator looks at.  An outline is closed by an edge from its last corner *)
(* to its first; it may have any shape, run either way round and repeat    *)
(* its first corner.  The properties that ask for it are in MapGrid.       *)

IsOutline(outline) == outline \in Seq(Int \X Int) /\ outline # <<>>

\* The edge, which has a length, runs through p.
Through(edge, p) ==
  /\ SquaredLength(edge) > 0 /\ Side(edge, p) = 0
  /\ \A axis \in 1..2 : /\ Least({edge[1][axis], edge[2][axis]}) <= p[axis]
                         /\ Greatest({edge[1][axis], edge[2][axis]}) >= p[axis]

\* The edge passes over p.
Over(edge, p) ==
  /\ (edge[1][1] > p[1]) # (edge[2][1] > p[1])
  /\ IF edge[2][1] > edge[1][1] THEN Side(edge, p) < 0 ELSE Side(edge, p) > 0

\* p is on the outline, or an odd number of its edges passes over p.
Inside(outline, p) ==
  \/ \E edge \in Edges(outline) : Through(edge, p)
  \/ Cardinality({i \in DOMAIN outline : Over(Edge(outline, i), p)}) % 2 = 1

\* How far p is along the edge, times the length of the edge.
Along(edge, p) == (edge[2][1] - edge[1][1]) * (p[1] - edge[1][1])
                    + (edge[2][2] - edge[1][2]) * (p[2] - edge[1][2])

\* p is nearer than a fifth of a cell to the edge.
Beside(edge, p) ==
  \/ \E k \in 1..2 : 25 * SquaredLength(<<edge[k], p>>) < Resolution * Resolution
  \/ /\ Along(edge, p) \in 0..SquaredLength(edge)
     /\ 25 * Side(edge, p) * Side(edge, p) < Resolution * Resolution * SquaredLength(edge)

PointsOf(origin, cell) ==
  {<<origin[1] + Resolution * cell[1] + x, origin[2] + Resolution * cell[2] + y>> :
     x \in 0..(Resolution - 1), y \in 0..(Resolution - 1)}

\* The whole cell lies inside the outline.
Covers(outline, origin, cell) == \A p \in PointsOf(origin, cell) : Inside(outline, p)

\* Some of the cell lies inside the outline, or right beside it.
Reaches(outline, origin, cell) ==
  \E p \in PointsOf(origin, cell) : Inside(outline, p) \/ \E edge \in Edges(outline) : Beside(edge, p)

\* The cell of the corner the iterator passes over.
Skipped(outline, origin) == CellOf(origin, MinCorner(outline))

OutlinesOf(areas, excluding) ==
  {areas[i].outline : i \in {j \in DOMAIN areas : (areas[j].type = Exclusion) = excluding}}

Covered(areas, excluding, cell) ==
  \E outline \in OutlinesOf(areas, excluding) :
    Covers(outline, Origin(areas), cell) /\ cell # Skipped(outline, Origin(areas))

Reached(areas, excluding, cell) ==
  \E outline \in OutlinesOf(areas, excluding) : Reaches(outline, Origin(areas), cell)

CellIsRight(areas, cell, value) ==
  /\ value \in {Unknown, Free, Occupied}
  /\ Covered(areas, TRUE, cell) => value = Occupied
  /\ Covered(areas, FALSE, cell) => value # Unknown
  /\ value = Occupied => Reached(areas, TRUE, cell)
  /\ value = Free => Reached(areas, FALSE, cell)

\* The same after the blur, which mixes a cell with those around it.
BlurredCellIsRight(areas, around, cell, value) ==
  /\ value \in {Unknown} \union Free..Occupied
  /\ Covered(areas, TRUE, cell) \/ Covered(areas, FALSE, cell) => value # Unknown
  /\ value # Unknown => Reached(areas, TRUE, cell) \/ Reached(areas, FALSE, cell)
  /\ (\A other \in around : Covered(areas, TRUE, other)) => value = Occupied
  /\ (\A other \in around : Covered(areas, FALSE, other) /\ ~Reached(areas, TRUE, other)) => value = Free

GridIsRight(areas, blurred) ==
  \A order \in Orders(areas) :
    LET grid == MapToOccupancyGrid(areas, order, blurred)
    IN  \A cell \in DOMAIN grid :
          IF blurred THEN BlurredCellIsRight(areas, Window(grid, cell), cell, grid[cell])
          ELSE CellIsRight(areas, cell, grid[cell])

BlurIsRight(grid) ==
  LET blurred == Blur(grid)
  IN  \A cell \in DOMAIN grid :
        LET seen == {Pixel(grid[other]) : other \in Window(grid, cell)}
        IN  IF grid[cell] = Unknown THEN blurred[cell] = Unknown
            ELSE blurred[cell] \in Least(seen)..Greatest(seen)
=============================================================================
