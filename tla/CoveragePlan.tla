----------------------------- MODULE CoveragePlan ---------------------------
(***************************************************************************)
(* What the coverage server answers                                        *)
(* (src/coverage_server/coverage_server_node.cpp), and how a coverage run  *)
(* takes the answer apart (scripts/start_coverage_run.py).                 *)
(*                                                                         *)
(* Geometry is one-dimensional: a ring of the headland is a closed walk of *)
(* RingSteps steps of length one that starts and ends at a point of a      *)
(* line.  Which rings there are is the business of Fields2Cover: it is     *)
(* part of a site, as are the areas of the map.                            *)
(***************************************************************************)
EXTENDS Integers, Sequences, SequencesExt

CONSTANTS RingSteps,    \* steps of a ring, each at most segment_gap_threshold long
          GapThreshold, \* segment_gap_threshold
          ChunkLength,  \* follow_path_chunk_length
          MinChunk      \* follow_path_min_chunk_length

ASSUME CoveragePlanAssumption ==
  /\ RingSteps \in Nat \ {0}
  /\ GapThreshold \in Nat \ {0}
  /\ ChunkLength \in Nat
  /\ MinChunk \in Nat /\ MinChunk <= ChunkLength

Distance(x, y) == IF x < y THEN y - x ELSE x - y

(***************************************************************************)
(* A site: the areas of current_map_, the rings of every headland loop     *)
(* from the outside in (each the point of the line it is at), the number   *)
(* of loops asked for, the number of cells that are left as the mainland,  *)
(* and how many swaths there are in them, which may be none.               *)
(***************************************************************************)
Areas == [id : STRING, type : STRING, valid : BOOLEAN, covers : {"inside", "outside", "all"}, at : Int]

AnySite == [areas : Seq(Areas), rings : Seq(Seq(Int)), loops : Nat, cells : Nat, mainland : Nat]

-----------------------------------------------------------------------------
(* The request.                                                             *)

\* The elements of a sequence at some of its places, in order.
Only(s, places) ==
  LET Upto[n \in 0 .. Len(s)] ==
        IF n = 0 THEN << >>
        ELSE IF n \in places THEN Append(Upto[n - 1], s[n]) ELSE Upto[n - 1]
  IN Upto[Len(s)]

\* The first area with the id that is asked for.
Field(areas) == SelectInSeq(areas, LAMBDA a : a.id = "field")

Applied(areas) ==
  Only(areas, {i \in DOMAIN areas : areas[i].type = "exclusion" /\ areas[i].covers # "outside"})

Code(areas) ==
  LET f == Field(areas)
  IN IF f = 0 \/ areas[f].type # "operation" \/ ~areas[f].valid THEN "invalid_area"
     ELSE IF \/ \E i \in DOMAIN areas : areas[i].type = "exclusion" /\ ~areas[i].valid
             \/ \E i \in DOMAIN Applied(areas) : Applied(areas)[i].covers = "all"
          THEN "invalid_exclusion"
          ELSE "success"

-----------------------------------------------------------------------------
(* generateSwaths(): rings of one contour are put into one group.           *)

Swath(kind, loop, i, at) == [kind |-> kind, loop |-> loop, i |-> i, at |-> at]

\* The free ring that is nearest to a point, the first of several.
NearestFree(ring, free, at) ==
  CHOOSE i \in free : \A j \in free : \/ Distance(ring[i].at, at) < Distance(ring[j].at, at)
                                      \/ Distance(ring[i].at, at) = Distance(ring[j].at, at) /\ i <= j

\* Mutant: a ring that was given to a group is not marked as used.
AddLoopUnmarked(groups, ring) ==
  [n \in DOMAIN groups |->
     IF ring = << >> THEN groups[n]
     ELSE Append(groups[n], ring[NearestFree(ring, DOMAIN ring, Last(groups[n]).at)])]
  \o [i \in DOMAIN ring |-> <<ring[i]>>]

\* Each group takes the ring of the next loop that is nearest to its latest; the rings left
\* over start groups of their own.
AddLoop(groups, ring) ==
  LET Near(n, free) == NearestFree(ring, free, Last(groups[n]).at)
      Free[n \in 0 .. Len(groups)] ==
        IF n = 0 THEN DOMAIN ring
        ELSE IF Free[n - 1] = {} THEN {} ELSE Free[n - 1] \ {Near(n, Free[n - 1])}
      left == Only(ring, Free[Len(groups)])
  IN [n \in DOMAIN groups |->
        IF Free[n - 1] = {} THEN groups[n]
        ELSE Append(groups[n], ring[Near(n, Free[n - 1])])]
     \o [i \in DOMAIN left |-> <<left[i]>>]

\* The groups after all loops, from the outside in.
Groups(loops) ==
  LET Upto[l \in 0 .. Len(loops)] == IF l = 0 THEN << >> ELSE AddLoop(Upto[l - 1], loops[l])
  IN Upto[Len(loops)]

FieldRings(site) == [l \in DOMAIN site.rings |->
                       [i \in DOMAIN site.rings[l] |-> Swath("headland", l, i, site.rings[l][i])]]

\* As many rings around every exclusion as loops were asked for.
ObstacleRings(site) ==
  LET around == Applied(site.areas)
  IN FlattenSeq([i \in DOMAIN around |-> [l \in 1 .. site.loops |-> Swath("obstacle", l, i, around[i].at)]])

Mainland(site) == [i \in 1 .. site.mainland |-> Swath("mainland", 0, i, 0)]

\* Without any mainland there are no swaths at all, rings included.
Swaths(site) ==
  IF site.cells = 0 THEN << >>
  ELSE IF site.loops = 0 THEN Mainland(site)
       ELSE FlattenSeq(Groups(FieldRings(site))) \o ObstacleRings(site) \o Mainland(site)

-----------------------------------------------------------------------------
(* createConnectedHeadlandPath().                                           *)

\* orderHeadlandSwaths() cuts the sequence of rings into groups anew, by their number.
Regroup(swaths, loops) ==
  LET rings == Only(swaths, {i \in DOMAIN swaths : swaths[i].kind # "mainland"})
      count == (Len(rings) + loops - 1) \div loops
      End(g) == IF g * loops < Len(rings) THEN g * loops ELSE Len(rings)
  IN [g \in 1 .. count |-> SubSeq(rings, (g - 1) * loops + 1, End(g))]

\* The first group, then always the one whose first ring is nearest: the order of the first n.
Tour(groups) ==
  LET fronts == [g \in DOMAIN groups |-> groups[g][1]]
      Upto[n \in 0 .. Len(groups)] ==
        LET rest == DOMAIN groups \ ToSet(Upto[n - 1])
        IN IF n = 0 THEN << >>
           ELSE IF n = 1 THEN <<1>>
           ELSE Append(Upto[n - 1], NearestFree(fronts, rest, Last(groups[Last(Upto[n - 1])]).at))
  IN Upto[Len(groups)]

OrderRings(swaths, loops) ==
  IF loops = 0 THEN << >>
  ELSE LET groups == Regroup(swaths, loops)
           tour   == Tour(groups)
       IN FlattenSeq([n \in DOMAIN tour |-> groups[tour[n]]])

\* A path is what its poses are apart: each from the one before it.  Rings of one group are
\* joined by a connector of short steps, which ends where the next ring starts; a ring ends
\* where it starts, and a new group is driven to.
Connector(x, y) == IF x = y THEN <<0>> ELSE [k \in 1 .. Distance(x, y) |-> 1]

Path(order, loops) ==
  LET Poses(n) ==
        LET jump   == IF n = 1 THEN 0 ELSE Distance(order[n - 1].at, order[n].at)
            linked == n > 1 /\ (n - 1) % loops # 0
            ring   == [k \in 1 .. RingSteps |-> 1]
        IN IF linked THEN Connector(order[n - 1].at, order[n].at) \o <<0>> \o ring
                     ELSE <<jump>> \o ring
  IN FlattenSeq([n \in DOMAIN order |-> Poses(n)])

\* What the service answers: a code, and a path that may be empty with a success.
Answer(site) == [code |-> Code(site.areas),
                 path |-> Path(OrderRings(Swaths(site), site.loops), site.loops)]

-----------------------------------------------------------------------------
(* split_coverage_segments() and split_follow_path_chunks().                *)

\* A segment ends where the next pose is too far away.
Segments(path) ==
  LET Upto[n \in 0 .. Len(path)] ==
        LET segments == Upto[n - 1]
        IN IF n = 0 THEN << >>
           ELSE IF segments = << >> \/ path[n] > GapThreshold THEN Append(segments, <<path[n]>>)
           ELSE [segments EXCEPT ![Len(segments)] = Append(@, path[n])]
  IN Upto[Len(path)]

\* The chunks that are long enough among the first n + 1 poses, where the next one starts, and
\* how long it is so far (current_length).
Cut(segment) ==
  LET Upto[n \in 0 .. (Len(segment) - 1)] ==
        LET cut    == Upto[n - 1]
            pose   == n + 1
            length == cut.length + segment[pose]
        IN IF n = 0 THEN [chunks |-> << >>, first |-> 1, length |-> 0]
           ELSE IF length >= ChunkLength
                  THEN [chunks |-> Append(cut.chunks, <<cut.first, pose>>), first |-> pose, length |-> 0]
                  ELSE [chunks |-> cut.chunks, first |-> cut.first, length |-> length]
  IN Upto[Len(segment) - 1]

\* Mutant: a part that is too short is left out.
ChunksDropShort(segment) ==
  LET cut == Cut(segment)
  IN IF Len(segment) < 2 \/ ChunkLength = 0 THEN <<<<1, Len(segment)>>>>
     ELSE IF cut.first = Len(segment) \/ cut.length < MinChunk THEN cut.chunks
     ELSE Append(cut.chunks, <<cut.first, Len(segment)>>)

\* A chunk is cut off when it is long enough and shares its last pose with the next; a rest
\* that is too short goes to the chunk before it.
Chunks(segment) ==
  LET cut   == Cut(segment)
      count == Len(cut.chunks)
  IN IF Len(segment) < 2 \/ ChunkLength = 0 THEN <<<<1, Len(segment)>>>>
     ELSE IF cut.first = Len(segment) THEN cut.chunks
     ELSE IF count > 0 /\ cut.length < MinChunk
          THEN [cut.chunks EXCEPT ![count] = <<@[1], Len(segment)>>]
          ELSE Append(cut.chunks, <<cut.first, Len(segment)>>)

-----------------------------------------------------------------------------
(* What a plan should be.                                                   *)

\* The rings a site asks for: the ones Fields2Cover found in the field, and so many around
\* each exclusion that touches it.
Wanted(site) ==
  ToSet(ObstacleRings(site)) \union
  UNION {{Swath("headland", l, i, site.rings[l][i]) : i \in DOMAIN site.rings[l]} : l \in DOMAIN site.rings}

\* The path of a site mows every ring it should, none twice; or there is no path at all.
Whole(site) ==
  LET order == OrderRings(Swaths(site), site.loops)
  IN IF site.cells = 0 \/ site.loops = 0 THEN order = << >>
     ELSE ToSet(order) = Wanted(site) /\ IsInjective(order)

\* The length of a segment's part from one pose to a later one.
LengthOf(segment, first, last) ==
  LET Along[n \in 0 .. Len(segment)] == IF n = 0 THEN 0 ELSE Along[n - 1] + segment[n]
  IN Along[last] - Along[first]

\* The chunks of a segment lead from its first pose to its last, each from where the one
\* before it ended, and none is too short to be followed, unless it is all there is.
Joined(segment) ==
  LET c == Chunks(segment)
  IN /\ c[1][1] = 1 /\ Last(c)[2] = Len(segment)
     /\ \A k \in 2 .. Len(c) : c[k][1] = c[k - 1][2]
     /\ Len(c) > 1 => \A k \in DOMAIN c : LengthOf(segment, c[k][1], c[k][2]) >= MinChunk
=============================================================================
