---------------------------- MODULE MCCoverageRun ---------------------------
(***************************************************************************)
(* Small instances of CoverageRun for TLC.                                 *)
(***************************************************************************)
EXTENDS CoverageRun

Points == {0, 1, 3}

Area(id, type, valid, covers, at) == [id |-> id, type |-> type, valid |-> valid, covers |-> covers, at |-> at]

Lawn      == Area("field", "operation", TRUE, "inside", 0)
Pond(at)  == Area("pond", "exclusion", TRUE, "inside", at)
Outside   == Area("street", "exclusion", TRUE, "outside", 1)

\* Maps that can be covered, with and without exclusions, and one for each way they cannot be.
GoodMaps == {<<Lawn>>, <<Outside, Lawn>>} \union {<<Lawn, Pond(at)>> : at \in Points}
BadMaps == {<< >>, <<Area("field", "navigation", TRUE, "inside", 0), Lawn>>, <<[Lawn EXCEPT !.valid = FALSE]>>,
            <<Lawn, [Outside EXCEPT !.valid = FALSE]>>, <<Lawn, [Pond(0) EXCEPT !.covers = "all"]>>}

\* Rings of two loops: one or two contours outside, up to two in the second loop.
Rings == {<<outer, inner>> : outer \in BoundedSeq(Points, 2) \ {<< >>}, inner \in BoundedSeq(Points, 2)}

MCSites ==
  {[areas |-> areas, rings |-> rings, loops |-> 2, cells |-> left[1], mainland |-> left[2]] :
     areas \in GoodMaps, rings \in Rings, left \in {<<0, 0>>, <<1, 0>>, <<1, 1>>}}
  \union {[areas |-> areas, rings |-> <<outer>>, loops |-> 1, cells |-> 1, mainland |-> 1] :
     areas \in GoodMaps, outer \in BoundedSeq(Points, 2) \ {<< >>}}
  \union {[areas |-> areas, rings |-> << >>, loops |-> 0, cells |-> 1, mainland |-> 1] : areas \in GoodMaps}
  \union {[areas |-> areas, rings |-> <<<<0>>>>, loops |-> 1, cells |-> 1, mainland |-> 1] : areas \in BadMaps}

\* Rings around one place: a square, a diamond and a lawn with a corner cut out, each with the
\* corners it has further in.
Box(d)     == <<<<d, d>>, <<60 - d, d>>, <<60 - d, 60 - d>>, <<d, 60 - d>>>>
Diamond(d) == <<<<30, d>>, <<60 - d, 30>>, <<30, 60 - d>>, <<d, 30>>>>
Ell(d)     == <<<<d, d>>, <<60 - d, d>>, <<60 - d, 36 - d>>, <<36 - d, 36 - d>>, <<36 - d, 60 - d>>, <<d, 60 - d>>>>

\* A ring as it may come: from any of its points, either way, closed or not.
Comes(ring) ==
  LET n == Len(ring)
      Forth(s) == [i \in 1 .. n |-> ring[((s + i) % n) + 1]]
      Back(s)  == [i \in 1 .. n |-> ring[((s - i) % n) + 1]]
  IN UNION {{r, Append(r, r[1])} : r \in {Forth(s) : s \in 1 .. n} \union {Back(s) : s \in 1 .. n}}

Moved(ring, x) == [i \in DOMAIN ring |-> <<ring[i][1] + x, ring[i][2]>>]

\* Groups of rings, one after the other.
Toured(groups) ==
  FlattenSeq([g \in DOMAIN groups |->
    [i \in DOMAIN groups[g] |-> [ring |-> groups[g][i], place |-> i, clockwise |-> g > 1]]])

Sample(loops, groups) == [loops |-> loops, tour |-> Toured(groups)]

\* One contour; two of them; and three, of which the second has a loop less than the others.
MCSampleTours ==
  {Sample(1, <<<<ring>>>>) : ring \in Comes(Diamond(6)) \union Comes(Ell(0))}
  \union {Sample(1, <<<<Box(0)>>, <<ring>>>>) : ring \in Comes(Moved(Diamond(6), 75)) \union Comes(Moved(Ell(0), 75))}
  \union {Sample(3, <<<<outer, Box(12), inner>>>>) : outer \in {Box(0), Ell(0)}, inner \in Comes(Box(24))}
  \union {Sample(4, <<<<Ell(0), inner, Ell(12), Diamond(18)>>>>) : inner \in Comes(Ell(6))}
  \union {Sample(2, <<<<Ell(0), Ell(6)>>, <<Moved(Diamond(6), 75)>>, <<Moved(Box(0), 150), inner>>>>) :
             inner \in Comes(Moved(Box(12), 150))}

\* A chunk that leads away, a ring that leads back to where it starts, one that is short, and one
\* that passes its end on its way.
MCShapes == {<<"far", "between", "near">>, <<"near", "far", "near">>, <<"between", "near">>,
             <<"far", "near", "far", "near">>}
=============================================================================
