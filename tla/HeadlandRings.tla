----------------------------- MODULE HeadlandRings --------------------------
(***************************************************************************)
(* How the rings of the headland become walks, and the walks a path        *)
(* (src/coverage_server/coverage_server_node.cpp).  CoveragePlan has rings *)
(* as points of a line; here they are sequences of points of the plane,    *)
(* in units so small that what a division rounds off does not matter.      *)
(***************************************************************************)
EXTENDS Integers, Sequences, SequencesExt

CONSTANTS Width,         \* of a swath: the longest piece of a ring
          ConnectorStep, \* headland_connector_step_
          SampleTours    \* rings in the order in which orderHeadlandSwaths() appends them

ASSUME HeadlandRingsAssumption == Width \in Nat \ {0} /\ ConnectorStep \in Nat \ {0}

-----------------------------------------------------------------------------
(* One ring.                                                                *)

\* pointDistance(), squared.
Gap(p, q) == (p[1] - q[1]) * (p[1] - q[1]) + (p[2] - q[2]) * (p[2] - q[2])

\* The least number of pieces that makes none of them longer than the given length.
Pieces(p, q, length) ==
  LET Short(n) == n * n * length * length >= Gap(p, q)
  IN CHOOSE n \in 1 .. Gap(p, q) + 1 : Short(n) /\ (n = 1 \/ ~Short(n - 1))

Between(p, q, k, n) == <<p[1] + ((q[1] - p[1]) * k) \div n, p[2] + ((q[2] - p[2]) * k) \div n>>

Closed(ring) == ring[1] = ring[Len(ring)]

Close(ring) == IF Closed(ring) THEN ring ELSE Append(ring, ring[1])

\* Every edge is cut into pieces; the last point ends the last of them.
Densify(ring) ==
  LET Edge(i) == LET n == Pieces(ring[i], ring[i + 1], Width)
                 IN [k \in 1 .. n |-> Between(ring[i], ring[i + 1], k - 1, n)]
  IN Append(FlattenSeq([i \in 1 .. Len(ring) - 1 |-> Edge(i)]), ring[Len(ring)])

\* Twice the signed area: negative when the ring is clockwise.
Area2(ring) ==
  LET Upto[i \in 0 .. Len(ring) - 1] ==
        IF i = 0 THEN 0
        ELSE Upto[i - 1] + ring[i][1] * ring[i + 1][2] - ring[i + 1][1] * ring[i][2]
  IN Upto[Len(ring) - 1]

Turned(ring) == [i \in DOMAIN ring |-> ring[Len(ring) + 1 - i]]

\* normalizeHeadlandSwath()
Normalize(ring, clockwise) ==
  LET output == Densify(Close(ring))
  IN IF (Area2(output) < 0) = clockwise THEN output ELSE Densify(Close(Turned(output)))

\* The points of a closed ring, each once; the first of those that are nearest to a point.
Unique(ring) == IF Closed(ring) THEN Len(ring) - 1 ELSE Len(ring)

Nearest(ring, reference) ==
  CHOOSE i \in 1 .. Unique(ring) : \A j \in 1 .. Unique(ring) :
    \/ Gap(ring[i], reference) < Gap(ring[j], reference)
    \/ Gap(ring[i], reference) = Gap(ring[j], reference) /\ i <= j

\* Mutant: the point that closes the ring counts as one of its points.
StartAtRepeating(ring, i) ==
  LET count == Len(ring)
  IN [k \in 1 .. count + 1 |-> ring[((i + k - 2) % count) + 1]]

\* build_candidate(1): around the ring from one of its points, and back to it.
StartAt(ring, i) ==
  LET count == Unique(ring)
  IN [k \in 1 .. count + 1 |-> ring[((i + k - 2) % count) + 1]]

\* rotateClosedSwathToNearestPoint(), for rings of three points and more.
Rotate(ring, reference, advance, clockwise) ==
  LET normal == Normalize(ring, clockwise)
      i      == Nearest(normal, reference)
  IN StartAt(normal, IF advance THEN i + 1 ELSE i)

-----------------------------------------------------------------------------
(* The rings in the order in which they are toured, and their path.         *)

(***************************************************************************)
(* A tour is the rings as append_group() is called with them: each with    *)
(* its place in its group, and the direction of its group.  Which group is *)
(* next is CoveragePlan's Tour; here the groups may come in any order.     *)
(***************************************************************************)
StartsGroup(tour, n) == tour[n].place = 1

\* append_group() of orderHeadlandSwaths(): each ring starts close to where the one before it
\* starts, from the third of a group on one point further.
Ordered(tour) ==
  LET Ring(n) == Normalize(tour[n].ring, tour[n].clockwise)
      Walk[n \in 1 .. Len(tour)] ==
        IF n > 1 THEN Rotate(Ring(n), Walk[n - 1][1], tour[n].place > 2, tour[n].clockwise)
        ELSE Ring(1)
  IN [n \in 1 .. Len(tour) |-> Walk[n]]

\* appendConnectorToPath(): in a straight line from the start of one ring to the start of
\* the next, the first point left out.
RingConnector(from, to) ==
  LET n == Pieces(from, to, ConnectorStep)
      m == IF n < 2 THEN 2 ELSE n
  IN IF from = to THEN <<to>> ELSE [k \in 1 .. m |-> Between(from, to, k, m)]

\* appendSwathToPath(): a ring that does not end where it starts is closed.
RingPoses(ring) == Close(ring)

\* Mutant: headland_count is one ahead when it is looked at.
IsLinkedAhead(n, loops) == n > 1 /\ n % loops # 0

\* Is there a connector to the n-th ring of the tour?  headland_count decides, not the group.
IsLinked(n, loops) == n > 1 /\ (n - 1) % loops # 0

Leg(walks, n, loops) ==
  IF IsLinked(n, loops) THEN RingConnector(walks[n - 1][1], walks[n][1]) \o RingPoses(walks[n])
  ELSE RingPoses(walks[n])

\* createConnectedHeadlandPath(), from one ring of the tour to another.
HeadlandPath(walks, first, last, loops) ==
  FlattenSeq([k \in 1 .. last - first + 1 |-> Leg(walks, first + k - 1, loops)])

-----------------------------------------------------------------------------
(* What the walk of a tour should be.                                       *)

OnEdge(p, a, b) ==
  /\ (p[1] - a[1]) * (b[2] - a[2]) = (p[2] - a[2]) * (b[1] - a[1])
  /\ (p[1] - a[1]) * (p[1] - b[1]) <= 0 /\ (p[2] - a[2]) * (p[2] - b[2]) <= 0

\* A ring of which a walk can be told from any other: its corners are different points, none of
\* them on an edge that does not end there, it encloses something, and its pieces end on whole units.
IsOutline(ring) ==
  LET corner   == Close(ring)
      n        == Unique(ring)
      Parts(i) == Pieces(corner[i], corner[i + 1], Width)
  IN /\ \A i, j \in 1 .. n : i # j => corner[i] # corner[j]
     /\ \A i, j \in 1 .. n : OnEdge(corner[i], corner[j], corner[j + 1]) => corner[i] \in {corner[j], corner[j + 1]}
     /\ Area2(corner) # 0
     /\ \A i \in 1 .. n : \A axis \in 1 .. 2 : (corner[i + 1][axis] - corner[i][axis]) % Parts(i) = 0

\* A walk goes round a ring: it passes every corner once, after each of them the next one around
\* the ring, one way or the other, never leaves its edges, and has the direction that was asked for.
GoesRound(walk, ring, clockwise) ==
  LET n           == Unique(ring)
      length      == Len(walk) - 1
      After(i)    == (i % n) + 1
      Place(i)    == CHOOSE k \in 1 .. length : walk[k] = ring[i]
      Steps(i, j) == (Place(j) - Place(i)) % length
  IN /\ \A i \in 1 .. n : \E k \in 1 .. length : \A l \in 1 .. length : walk[l] = ring[i] <=> l = k
     /\ \/ \A i, j \in 1 .. n : i # j => Steps(i, After(i)) <= Steps(i, j)
        \/ \A i, j \in 1 .. n : i # j => Steps(After(i), i) <= Steps(j, i)
     /\ \A k \in DOMAIN walk : \E i \in 1 .. n : OnEdge(walk[k], ring[i], ring[After(i)])
     /\ (Area2(walk) < 0) = clockwise

\* A walk starts at one of its points that are nearest to a place, or one further.
StartsNear(walk, place, advance) ==
  LET i == IF advance THEN Len(walk) - 1 ELSE 1
  IN \A j \in DOMAIN walk : Gap(walk[i], place) <= Gap(walk[j], place)

\* No pose of a path is further from the one before it than a piece of a ring or a connector
\* may be, and what rounding to units adds.
Gapless(path) ==
  LET longest == IF Width < ConnectorStep THEN ConnectorStep ELSE Width
  IN \A i \in 2 .. Len(path) : Gap(path[i - 1], path[i]) <= (longest + 2) * (longest + 2)

\* Each walk ends where it starts, which is next to where the one before it started.
FollowOn(walks, tour) ==
  /\ \A n \in DOMAIN walks : Closed(walks[n])
  /\ \A n \in 2 .. Len(walks) : StartsNear(walks[n], walks[n - 1][1], tour[n].place > 2)

\* Nothing but a ring without a connector to it starts anew: the path along the others has no gap.
Unbroken(walks, loops) ==
  \A first \in DOMAIN walks : \A last \in first .. Len(walks) :
    (\A n \in first + 1 .. last : IsLinked(n, loops)) => Gapless(HeadlandPath(walks, first, last, loops))

\* A group that starts where a full number of groups fits before it is one walk without a gap:
\* every group, if only the last of the tour is short.
GroupsUnbroken(walks, tour, loops) ==
  \A first \in DOMAIN walks : \A last \in first .. Len(walks) :
    StartsGroup(tour, first) /\ (first - 1) % loops = 0 /\ (\A n \in first + 1 .. last : ~StartsGroup(tour, n))
      => Gapless(HeadlandPath(walks, first, last, loops))

Walked(tour, loops) ==
  LET walks == Ordered(tour)
  IN /\ Len(walks) = Len(tour)
     /\ \A n \in DOMAIN tour : GoesRound(walks[n], tour[n].ring, tour[n].clockwise)
     /\ FollowOn(walks, tour)
     /\ Unbroken(walks, loops)
     /\ GroupsUnbroken(walks, tour, loops)

\* The groups have as many rings as there are loops, but for one, which is not the first unless
\* it is the only one; the first group goes round to the left, every other to the right.
IsHeadlandTour(tour, loops) ==
  LET EndsGroup(n) == n = Len(tour) \/ StartsGroup(tour, n + 1)
      IsShort(n)   == EndsGroup(n) /\ tour[n].place < loops
      InFirst(n)   == tour[n].place = n
  IN /\ Len(tour) > 0 /\ StartsGroup(tour, 1)
     /\ \A n \in 2 .. Len(tour) : StartsGroup(tour, n) \/ tour[n].place = tour[n - 1].place + 1
     /\ \A n \in 1 .. Len(tour) : tour[n].place \in 1 .. loops
     /\ \A n, m \in 1 .. Len(tour) : IsShort(n) /\ IsShort(m) => n = m
     /\ \A n \in 1 .. Len(tour) - 1 : IsShort(n) => ~InFirst(n)
     /\ \A n \in 1 .. Len(tour) : tour[n].clockwise <=> ~InFirst(n)

AnyTour == Seq([ring : Seq(Int \X Int), place : Nat, clockwise : BOOLEAN])

ASSUME SampleToursAssumption ==
  \A sample \in SampleTours :
    /\ sample.loops \in Nat \ {0} /\ sample.tour \in AnyTour /\ IsHeadlandTour(sample.tour, sample.loops)
    /\ \A n \in DOMAIN sample.tour : LET r == sample.tour[n].ring IN Len(r) > 2 /\ IsOutline(r)

AllToursWalked == \A sample \in SampleTours : Walked(sample.tour, sample.loops)
=============================================================================
