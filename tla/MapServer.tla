------------------------------ MODULE MapServer -----------------------------
(***************************************************************************)
(* The map server node (src/map_server/map_server_node.cpp) and its        *)
(* GeoJSON back end (geo_json_map.cpp).  One executor thread serves the    *)
(* four services one at a time, so a request is a sequence of steps of the *)
(* variable pc, and only a crash of the process comes between them:        *)
(*                                                                         *)
(*   idle -> open -> write -> load -> pub_map -> pub_grid -> pub_rest      *)
(*                                                                         *)
(* The constructor runs the same tail, from load on, without a request.    *)
(***************************************************************************)
EXTENDS Naturals, Sequences, SequencesExt

CONSTANTS AreaIds, Shapes, AreaTypes,   \* of an area: identity, polygon, type code
          DockIds, Poses,               \* of a docking station: identity, pose
          InitialMaps,                  \* what load() may find in a file the server did not write
          Faults,                       \* what the environment may do to the node
          UseBlur                       \* the parameter grid.use_gaussian_blur

ASSUME MapServerAssumption ==
  /\ AreaTypes \subseteq Nat
  /\ Faults \subseteq {"crash", "crash_in_write", "open_fails", "disk_full"}
  /\ UseBlur \in BOOLEAN

VARIABLES pc,        \* what the executor thread does next; "down" when there is no process
          file,      \* the GeoJSON file: its kind, and the map it encodes
          memory,    \* current_map_
          call,      \* the request being served, NoCall between requests
          reply,     \* the code of the last reply
          declared,  \* has mapToOccupancyGrid declared its two parameters in this process?
          filter,    \* what the pointer gaussian_filter_ holds
          topic      \* the latched value of every topic publishMap writes

volatile == <<memory, call, reply, declared, filter, topic>>
vars == <<pc, file, memory, call, reply, declared, filter, topic>>

-----------------------------------------------------------------------------
(* Data.  An area or docking station is cut down to what the handlers and   *)
(* the round trip through the file can tell apart.                          *)

Areas == [id: AreaIds, shape: Shapes, type: AreaTypes \union {0}]
Docks == [id: DockIds, pose: Poses, approach: {"none", "set"}]
Maps  == [areas: Seq(Areas), docks: Seq(Docks)]

ASSUME InitialMapsAssumption == \A m \in InitialMaps : m \in Maps

EmptyMap == [areas |-> << >>, docks |-> << >>]

\* Nothing latched on a topic.
NoMap == [unset |-> TRUE]

\* A type that is neither navigation nor operation is written, and read back, as exclusion.
StoredArea(a) == [a EXCEPT !.type = IF a.type \in {1, 2} THEN a.type ELSE 0]

\* A station without an approach pose is written with one half a metre from its pose,
\* so that every station read back has one.
StoredDock(d) == [d EXCEPT !.approach = "set"]

\* What load() returns for the file save() wrote from m.
Stored(m) == [areas |-> [i \in DOMAIN m.areas |-> StoredArea(m.areas[i])],
              docks |-> [i \in DOMAIN m.docks |-> StoredDock(m.docks[i])]]

HasId(s, id) == \E i \in DOMAIN s : s[i].id = id
\* Mutant: the comparison of ids is lost and the loop stops at the first record.
FirstWithIdAny(s, id) == 1

FirstWithId(s, id) == CHOOSE i \in DOMAIN s : s[i].id = id /\ \A j \in DOMAIN s : s[j].id = id => i <= j

\* Mutant: the save handler adds a record without looking for its id.
UpsertAppends(s, rec) == Append(s, rec)

\* The loop of the save handlers: overwrite the first record with this id, or add one.
Upsert(s, rec) == IF HasId(s, rec.id) THEN [s EXCEPT ![FirstWithId(s, rec.id)] = rec] ELSE Append(s, rec)

\* The loop of the remove handlers: erase the first record with this id, if any.
Erase(s, id) == IF HasId(s, id) THEN RemoveAt(s, FirstWithId(s, id)) ELSE s

-----------------------------------------------------------------------------
(* Requests.                                                                *)

Saves   == [op: {"save_area"}, rec: Areas] \union [op: {"save_dock"}, rec: Docks]
Removes == [op: {"remove_area"}, id: AreaIds] \union [op: {"remove_dock"}, id: DockIds]
Calls   == Saves \union Removes
NoCall  == [op |-> "none"]

\* current_map_ after the loop of the handler of request c.
Edit(m, c) ==
  [areas |-> IF c.op = "save_area" THEN Upsert(m.areas, c.rec)
             ELSE IF c.op = "remove_area" THEN Erase(m.areas, c.id) ELSE m.areas,
   docks |-> IF c.op = "save_dock" THEN Upsert(m.docks, c.rec)
             ELSE IF c.op = "remove_dock" THEN Erase(m.docks, c.id) ELSE m.docks]

Found(m, c) == /\ c.op = "remove_area" => HasId(m.areas, c.id)
               /\ c.op = "remove_dock" => HasId(m.docks, c.id)

Codes == {"NONE", "SUCCESS", "NOT_FOUND", "SAVE_FAILED", "UNKNOWN_ERROR"}

\* The code of the catch block of the handler of c.
CatchCode(c) == IF c.op \in {"save_area", "save_dock"} THEN "SAVE_FAILED" ELSE "UNKNOWN_ERROR"

-----------------------------------------------------------------------------
(* The file.                                                                *)

FileKinds == {"absent", "empty", "torn", "foreign", "map"}
FileOf(m) == [kind |-> "map", map |-> Stored(m)]
Blank(kind) == [kind |-> kind, map |-> EmptyMap]

\* load() throws when the file cannot be opened or parsed; an empty file and a
\* document that is not a FeatureCollection both read as the empty map.
Readable(f) == f.kind \notin {"absent", "torn"}
Parse(f) == f.map

-----------------------------------------------------------------------------
Topics == {"map", "grid", "rest"}
NoTopic == [t \in Topics |-> NoMap]

InitFiles == {[kind |-> "map", map |-> m] : m \in InitialMaps}
             \union {Blank(k) : k \in {"absent", "empty", "foreign"}}

Off == /\ memory' = EmptyMap
       /\ call' = NoCall
       /\ reply' = "NONE"
       /\ declared' = FALSE
       /\ filter' = "unset"
       /\ topic' = NoTopic
       /\ pc' = "down"

Init == /\ pc = "down"
        /\ file \in InitFiles
        /\ memory = EmptyMap
        /\ call = NoCall
        /\ reply = "NONE"
        /\ declared = FALSE
        /\ filter = "unset"
        /\ topic = NoTopic

-----------------------------------------------------------------------------
(* Start and stop.  Nothing in launch/ restarts the node, so Start is an    *)
(* operator's doing.                                                        *)

\* The constructor up to publishMap().  gaussian_filter_ is assigned only when blurring
\* is on: otherwise the pointer holds what the allocation left there.
Start == /\ pc = "down"
         /\ pc' = "load"
         /\ filter' \in IF UseBlur THEN {"valid"} ELSE {"null", "garbage"}
         /\ UNCHANGED <<file, memory, call, reply, declared, topic>>

\* The process dies between two steps; with the file open it may leave a prefix behind.
Crash == \/ /\ "crash" \in Faults
            /\ pc \notin {"down", "write"}
            /\ Off
            /\ UNCHANGED file
         \/ /\ "crash_in_write" \in Faults
            /\ pc = "write"
            /\ Off
            /\ file' \in {Blank("empty"), Blank("torn")}

-----------------------------------------------------------------------------
(* The handlers, up to their call of saveAndPublishMap().                   *)

\* Mutant: the handler that saves a docking station forgets saveAndPublishMap().
HandleDockUnsaved(c) ==
  /\ pc = "idle"
  /\ Found(memory, c)
  /\ memory' = Edit(memory, c)
  /\ IF c.op = "save_dock" THEN pc' = "idle" /\ call' = NoCall /\ reply' = "SUCCESS"
                           ELSE pc' = "open" /\ call' = c /\ reply' = "NONE"
  /\ UNCHANGED <<file, declared, filter, topic>>

Handle(c) ==
  /\ pc = "idle"
  /\ \/ /\ Found(memory, c)
        /\ memory' = Edit(memory, c)
        /\ call' = c
        /\ reply' = "NONE"
        /\ pc' = "open"
     \/ /\ ~Found(memory, c)
        /\ reply' = "NOT_FOUND"
        /\ UNCHANGED <<pc, memory, call>>
  /\ UNCHANGED <<file, declared, filter, topic>>

SaveArea(a)   == Handle([op |-> "save_area", rec |-> a])
SaveDock(d)   == Handle([op |-> "save_dock", rec |-> d])
RemoveArea(i) == Handle([op |-> "remove_area", id |-> i])
RemoveDock(i) == Handle([op |-> "remove_dock", id |-> i])

-----------------------------------------------------------------------------
(* saveAndPublishMap(): save(), then publishMap().                          *)

\* Mutant: an exception leaves the handler before the reply is filled in.
ThrowUnanswered == /\ pc' = "idle"
                   /\ UNCHANGED volatile

\* An exception reaches the catch block of the handler, or, in the constructor, ends the process.
Throw == \/ /\ call = NoCall
            /\ Off
         \/ /\ call # NoCall
            /\ reply' = CatchCode(call)
            /\ call' = NoCall
            /\ pc' = "idle"
            /\ UNCHANGED <<memory, declared, filter, topic>>

\* std::ofstream truncates the file as it opens it.
OpenFile == /\ pc = "open"
            /\ file' = Blank("empty")
            /\ pc' = "write"
            /\ UNCHANGED volatile

OpenFails == /\ pc = "open"
             /\ "open_fails" \in Faults
             /\ Throw
             /\ UNCHANGED file

\* Mutant: save() writes the docking stations and leaves the areas out.
WriteFileDocksOnly == /\ pc = "write"
                      /\ file' = FileOf([memory EXCEPT !.areas = << >>])
                      /\ pc' = "load"
                      /\ UNCHANGED volatile

\* The stream's state is not looked at after the write: a full disk goes unnoticed.
WriteFile == /\ pc = "write"
             /\ \/ file' = FileOf(memory)
                \/ /\ "disk_full" \in Faults
                   /\ file' \in {Blank("empty"), Blank("torn")}
             /\ pc' = "load"
             /\ UNCHANGED volatile

\* Mutant: after a save, publishMap() publishes current_map_ without reloading it.
LoadOnce == /\ pc = "load"
            /\ Readable(file)
            /\ memory' = IF call = NoCall THEN Parse(file) ELSE memory
            /\ pc' = "pub_map"
            /\ UNCHANGED <<file, call, reply, declared, filter, topic>>

Load == /\ pc = "load"
        /\ Readable(file)
        /\ memory' = Parse(file)
        /\ pc' = "pub_map"
        /\ UNCHANGED <<file, call, reply, declared, filter, topic>>

LoadThrows == /\ pc = "load"
              /\ ~Readable(file)
              /\ Throw
              /\ UNCHANGED file

\* Mutant: no occupancy grid is published for a map without areas.
PublishMapNoGrid == /\ pc = "pub_map"
                    /\ topic' = [topic EXCEPT !["map"] = memory]
                    /\ pc' = IF memory.areas = << >> THEN "pub_rest" ELSE "pub_grid"
                    /\ UNCHANGED <<file, memory, call, reply, declared, filter>>

PublishMap == /\ pc = "pub_map"
              /\ topic' = [topic EXCEPT !["map"] = memory]
              /\ pc' = "pub_grid"
              /\ UNCHANGED <<file, memory, call, reply, declared, filter>>

\* mapToOccupancyGrid() declares grid.resolution and grid.max_size each time it runs,
\* and a parameter can be declared once.
GridThrows == /\ pc = "pub_grid"
              /\ declared
              /\ Throw
              /\ UNCHANGED file

PublishGrid == /\ pc = "pub_grid"
               /\ ~declared
               /\ declared' = TRUE
               /\ topic' = [topic EXCEPT !["grid"] = memory]
               /\ pc' = "pub_rest"
               /\ UNCHANGED <<file, memory, call, reply, filter>>

\* apply() is called through a pointer that was never set.
GridDies == /\ pc = "pub_grid"
            /\ ~declared
            /\ filter = "garbage"
            /\ Off
            /\ UNCHANGED file

\* Markers and docking station poses; then the constructor or the handler is done.
PublishRest == /\ pc = "pub_rest"
               /\ topic' = [topic EXCEPT !["rest"] = memory]
               /\ reply' = IF call = NoCall THEN reply ELSE "SUCCESS"
               /\ call' = NoCall
               /\ pc' = "idle"
               /\ UNCHANGED <<file, memory, declared, filter>>

-----------------------------------------------------------------------------
Executor == \/ OpenFile \/ OpenFails \/ WriteFile \/ Load \/ LoadThrows
            \/ PublishMap \/ GridThrows \/ PublishGrid \/ GridDies \/ PublishRest

Clients == \/ \E a \in Areas : SaveArea(a)
           \/ \E d \in Docks : SaveDock(d)
           \/ \E i \in AreaIds : RemoveArea(i)
           \/ \E i \in DockIds : RemoveDock(i)

Next == Start \/ Crash \/ Clients \/ Executor

Spec == Init /\ [][Next]_vars

\* The executor thread keeps running; clients, the operator and the faults need not act.
FairSpec == Spec /\ WF_vars(Executor)

-----------------------------------------------------------------------------
(* Properties.                                                              *)

TypeOK ==
  /\ pc \in {"down", "idle", "open", "write", "load", "pub_map", "pub_grid", "pub_rest"}
  /\ file \in [kind: FileKinds, map: Maps]
  /\ memory \in Maps
  /\ call \in Calls \union {NoCall}
  /\ reply \in Codes
  /\ declared \in BOOLEAN
  /\ filter \in {"unset", "null", "garbage", "valid"}
  /\ topic \in [Topics -> Maps \union {NoMap}]

\* Between requests, whatever failed before: if a restart can read the file at all, it
\* reads back the very map that subscribers of /map hold (saveAndPublishMap saves first and
\* publishes what it reloads, so the rounding of the file format never shows only later).
PublishedIsDurable ==
  pc = "idle" /\ Readable(file) => topic["map"] = Parse(file)

\* Between requests, current_map_ is the published map: no handler leaves an edit behind
\* that nobody was shown.  It holds while the file can be opened and written.
MemoryIsPublished == pc = "idle" => memory = topic["map"]

DistinctIds(s) == \A i, j \in DOMAIN s : s[i].id = s[j].id => i = j
Distinct(m) == DistinctIds(m.areas) /\ DistinctIds(m.docks)

\* Ids identify areas and docking stations: no request, fault or restart makes a map with
\* distinct ids into one with a repeated id, in memory or in the file.
NoIdIsDuplicated ==
  [][Distinct(memory) /\ Distinct(Parse(file)) => Distinct(memory') /\ Distinct(Parse(file'))]_vars

Ids(m) == {m.areas[i].id : i \in DOMAIN m.areas} \union {m.docks[i].id : i \in DOMAIN m.docks}

\* While the process lives, an id leaves current_map_ only in the handler of a request to
\* remove it: never because of a save of another record, a failed save, or the reload.  (A disk
\* that fills up during a save breaks this.)
NoRecordVanishes ==
  [][pc' # "down" /\ ~(\E i \in AreaIds : RemoveArea(i)) /\ ~(\E i \in DockIds : RemoveDock(i))
       => Ids(memory) \subseteq Ids(memory')]_vars

\* Every request that changes the map is answered, or the process dies with it: no
\* exception path of the handlers leaves a client waiting.
RequestIsAnswered == call # NoCall ~> call = NoCall

\* A node started on a readable file publishes an occupancy grid, be there areas or not,
\* or dies first: it never serves requests without one.
StartPublishesGrid ==
  pc = "load" /\ call = NoCall /\ Readable(file) ~> topic["grid"] # NoMap \/ pc = "down"

\* Between requests, the occupancy grid is that of the latest map the server published
\* ("Always publish occupancy grid, even if there are no areas").  The code breaks this:
\* the second grid of a process is never computed.
GridFollowsMap == pc = "idle" => topic["grid"] = topic["map"]

-----------------------------------------------------------------------------
(* The server implements the map store, while the file can be opened and    *)
(* written and the process does not die inside the write.  A request takes  *)
(* effect when the file is truncated: from there on it will be written.     *)

StoredEdit(m, c) == Stored(Edit(m, c))

Store == INSTANCE MapStore WITH
           Maps <- Maps, Edits <- Calls, Apply <- StoredEdit, NoMap <- NoMap,
           stored <- IF pc = "write" THEN Stored(memory) ELSE Parse(file),
           published <- topic["map"]

\* Every published map is the durable map after some of the requests, each applied whole
\* and in the order served; a restart never takes one back.
ImplementsMapStore == Store!StoreSpec
=============================================================================
