----------------------------- MODULE MCMapServer ----------------------------
(***************************************************************************)
(* Instances of MapServer for TLC: two areas and one docking station; and  *)
(* small maps whose occupancy grids are computed.                          *)
(***************************************************************************)
EXTENDS MapGrid, TLC

CONSTANTS a1, a2, s1, s2, d1, p1

\* A file that was not written by the server: at most one record of each kind, or two
\* areas that share an id.
MCInitialMaps ==
  LET areas == {StoredArea(a) : a \in Areas}
      docks == {StoredDock(d) : d \in Docks}
  IN  [areas: {<< >>} \union {<<a>> : a \in areas}
                      \union {p \in areas \X areas : p[1].id = p[2].id},
       docks: {<< >>} \union {<<d>> : d \in docks}]

\* Area ids are compared for equality only.
Symmetry == Permutations({a1, a2})
\* Half a cell is the unit: a square on the cells, closed as GeoJSON closes it; one half a cell
\* off them; a bar across both; a triangle that runs clockwise; a strip too thin for a sample of
\* its own; and a corner of the lawn, not convex.
Square == << <<0, 0>>, <<6, 0>>, <<6, 6>>, <<0, 6>>, <<0, 0>> >>
Bed == << <<2, 2>>, <<6, 2>>, <<6, 6>>, <<2, 6>>, <<2, 2>> >>
Hook == << <<0, 0>>, <<0, 8>>, <<3, 8>>, <<3, 3>>, <<8, 3>>, <<8, 0>>, <<0, 0>> >>
Shifted == << <<3, 3>>, <<9, 3>>, <<9, 9>>, <<3, 9>> >>
MCOutlines ==
  { Square,
    Shifted,
    << <<1, 2>>, <<9, 2>>, <<9, 5>>, <<1, 5>>, <<1, 2>> >>,
    << <<4, 8>>, <<8, 3>>, <<2, 1>> >>,
    << <<4, 0>>, <<5, 0>>, <<5, 8>>, <<4, 8>> >>,
    Hook }

OneOutline == s1 :> Square
TwoOutlines == (s1 :> Square) @@ (s2 :> Bed)

\* A lawn with a flower bed in it.
Lawn == [areas |-> << [id |-> a1, shape |-> s1, type |-> 1], [id |-> a2, shape |-> s2, type |-> 0] >>,
         docks |-> <<>>]
MCLawn == {Lawn}

MCGridAreas == [outline: MCOutlines, type: 0..2]

\* Every map of up to two areas, and those of three with two of the outlines: exclusions, and
\* navigation areas, which the grid shows like operation areas.
MCSampleMaps ==
  UNION {[1..n -> MCGridAreas] : n \in 0..2}
  \union [1..3 -> {area \in MCGridAreas : area.outline \in {Shifted, Hook} /\ area.type # 2}]

MCKernel == <<1, 2, 1, 2, 4, 2, 1, 2, 1>>

MCSampleGrids == [(0..2) \X (0..1) -> {Unknown, Free, Occupied}]
=============================================================================
