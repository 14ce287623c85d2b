------------------------------- MODULE MapGrid ------------------------------
(***************************************************************************)
(* The map server with the occupancy grid it computes.  MapServer says     *)
(* when a grid is published and of which map; OccupancyGrid says which     *)
(* grid that is.  What ties them together is the type of an area: a map    *)
(* that reaches the grid has been through the file.                        *)
(***************************************************************************)
EXTENDS MapServer, OccupancyGrid

CONSTANTS
  Outlines,      \* the polygon of every shape
  SampleMaps,    \* bound: maps whose grid is computed
  SampleGrids    \* bound: grids that are blurred

ASSUME MapGridAssumption ==
  /\ DOMAIN Outlines = Shapes
  /\ \A shape \in Shapes : IsOutline(Outlines[shape])
  /\ \A areas \in SampleMaps : /\ areas \in Seq([outline: Seq(Int \X Int), type: Nat])
                               /\ \A i \in DOMAIN areas : IsOutline(areas[i].outline)
  /\ \A grid \in SampleGrids : /\ DOMAIN grid \subseteq Nat \X Nat /\ IsFiniteSet(DOMAIN grid)
                               /\ grid \in [DOMAIN grid -> {Unknown} \union Free..Occupied]

\* The areas of a map as OccupancyGrid has them.
Drawn(m) == [i \in DOMAIN m.areas |-> [outline |-> Outlines[m.areas[i].shape],
                                       type |-> m.areas[i].type]]

Blurring == filter = "valid"

AllGridsRight == \A areas \in SampleMaps, blurred \in BOOLEAN : GridIsRight(areas, blurred)

(* However the areas of a map overlap, whatever their outlines look like, and *)
(* in whatever order the sort leaves them: a cell inside an exclusion is       *)
(* occupied, a cell inside another area is known, and what is occupied or free *)
(* is so because of an area it touches.  After a blur: what no area touches is *)
(* unknown and what lies inside one is not; a cell with nothing but exclusions *)
(* around it is still occupied, and one with no exclusion and no unknown cell  *)
(* around it still free.  This is said of sample maps, and of every grid as it *)
(* is published.  The cell of the bottom-left corner of an area is left out,   *)
(* see ExcludedIsNeverFree.                                                    *)
ExclusionWins ==
  /\ AllGridsRight
  /\ pc = "pub_rest" /\ topic["grid"] # NoMap => GridIsRight(Drawn(topic["grid"]), Blurring)

AllBlursRight == \A grid \in SampleGrids : BlurIsRight(grid)

(* In a server that blurs, blurring moves no cell beyond its neighbourhood: what *)
(* is unknown stays so, and any other cell ends between the least and the     *)
(* greatest of the cells under the kernel, at the border of the grid, too.    *)
BlurStaysBetween == Blurring => AllBlursRight

ExcludedCells(areas) ==
  {cell \in Cells(areas) : \E i \in DOMAIN areas :
     areas[i].type = Exclusion /\ Covers(areas[i].outline, Origin(areas), cell)}

(* "Exclusion area is an area that is not allowed to be occupied by the robot": *)
(* no cell inside one is free on the published grid.  The code breaks this:    *)
(* the iterator passes over the bottom-left corner of an outline.              *)
ExcludedIsNeverFree ==
  topic["grid"] # NoMap =>
    LET areas == Drawn(topic["grid"])
    IN  \A order \in Orders(areas), cell \in ExcludedCells(areas) :
          MapToOccupancyGrid(areas, order, Blurring)[cell] # Free
=============================================================================
