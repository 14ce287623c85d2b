# A TLA+ model of OpenMowerNext

OpenMowerNext is a set of ROS 2 nodes for a robotic lawn mower. This directory
models the nodes that hold the program's own state and control: the map server,
the map recorder, the mainboard bridge with the bytes of its line, the docking helper, the
coverage server's planning and the coverage run. TLC checks each of them on small
instances; TLAPS proves the safety properties that matter most for every value of the
constants: those of the nodes with state, and what the pure algorithms compute for every
input (the blur and the grid, the frames of the serial line, the coverage plan and its chunks).

Paths below are relative to `src/` of the repository.

## 1. Inventory

### 1.1 Components

| component | state it keeps | operations | hard behaviour | what makes it correct |
|---|---|---|---|---|
| **map server** `map_server_node.cpp`, `geo_json_map.cpp` | `current_map_`, the GeoJSON file, the latched topics `/map`, `/map_grid`, markers and poses, two declared parameters, a raw pointer to a filter | save and remove an area or a docking station; load and publish at start | one request touches memory, file and four topics one after the other, and exceptions, kills and storage faults fall in between | what is published is what a restart would read; no record is lost or duplicated; every client gets an answer |
| **occupancy grid** `map_server_node.cpp:257-378, 489-524`, `polygon_*.hpp`, `some_gaussian_filter.hpp` | none | rasterises the map | an order of areas that is not an order; index arithmetic at edges | an exclusion wins wherever areas overlap; what is known is known because of an area; the blur stays between its neighbours |
| **map recorder** `map_recorder_node.cpp` | `docking_goal_handle_`, `is_recording_area_`, `auto_recording_mode_`, `is_charging_detected_`, the boundary points, name and type being recorded, three services that come and go | two action servers, their cancels, three services, the charger topic | one executor thread and one detached thread per goal share all fields without a lock; recordings can overlap | exclusion of driving and recording; one truthful result per goal; nothing blocks the recorder for ever |
| **mainboard bridge** `mainboard_serial_bridge_node.cpp` | three atomic flags, the file descriptor | two emergency services, a heartbeat timer, a read thread | two threads, a line that loses packets, a port that comes and goes, stale status | an emergency request takes hold; a release takes hold; neither is spent on the wrong emergency |
| **mainboard protocol** `protocol.hpp` | none | CRC, COBS encoding and decoding | block lengths, zeros, truncation | decoding inverts encoding; damage costs a packet and never alters one |
| **docking helper** `docking_helper_node.cpp` | `docking_stations_` (under a mutex), `charger_present_` | two action servers, map and charger topics, `/find_nearest_docking_station` | several goals steer at once; the map changes between lookup and use; a Nav2 goal outlives the wait for it | the mower is always stopped; it steers blindly only from a reached approach pose; every goal ends once |
| **charging dock plugin** `charger_presence_charging_dock.cpp` | one flag | answers Nav2's questions | none of its own | - |
| **coverage server** `coverage_server_node.cpp` | none | plans a path over areas | headland rings are grouped twice, by contour and by number; empty results | every ring of the headland is on the path, once, gone round in one direction |
| **coverage run** `scripts/start_coverage_run.py` | its segments and chunks, `completion_armed`, a goal of one of four action servers | undock, plan, drive to a segment, follow its chunks, dock | a step of a sequence fails; a chunk is ended early, in a race with its result; others cancel its goals | success means that no chunk was passed over; one goal at a time moves the mower; the run ends |
| **simulation node** `sim_node.cpp` | battery voltage, charging | timer, odometry | thresholds | - |
| **system monitor**, **web interface**, launch files, hardware scripts | - | I/O and composition | - | - |

`custom_deps`, `worlds`, `description`, `web-ui` assets, `foxglove`, `docker` and
the Fields2Cover and Nav2 packages carry no logic of the mower's own core and
are left aside.

### 1.2 How they interact

```
 recorder --save_area, save_docking_station (service)--> map server --/map (latched)--> docking helper, coverage server, web UI
 recorder --DriveOnHeading (action)--> Nav2 <--NavigateToPose (action)-- docking helper
 bridge --/power/charger_present (topic)--> recorder, docking helper
 docking helper --cmd_vel_joy (topic)--> twist_mux --> motors
 bridge <--COBS frames over USB serial--> mainboard <-- stop buttons
 coverage run --area_coverage (service)--> coverage server
 coverage run --UndockRobot, NavigateToPose, FollowPath (actions)--> Nav2;  --DockRobotNearest (action)--> docking helper
 services /hardware/set_emergency, /hardware/clear_emergency --> bridge
```

Every node runs `rclcpp::spin()`, a single-threaded executor: callbacks of one
node never overlap. Concurrency comes from the detached threads of the two nodes
with action servers, from the bridge's read thread, and from the nodes
being processes of their own.

### 1.3 Hazards

`PROJECT.json` lists the hazards at their lines with the properties that watch
them. The groups: partly done requests and crashes (map server), unlocked fields
shared by overlapping recordings (map recorder), flags that are older than what
they are used for (bridge), two drivers of one mower (docking helper), answers
that arrive after the asker gave up (recorder, docking helper), numeric edges (COBS blocks,
corners and borders of the grid, the grouping, turning and cutting of rings and paths), and
sequences that end half-way (coverage run). Some hazards have no property, and a note says why: two
threads that append to `current_boundary_points_` at the same moment (2.2), a kill inside the write of the
map file, a filter pointer that is never set when blurring is off, an answer that comes after the recorder stopped
waiting for it, a mainboard that stops reading. But
for the first, what happens then is in the models; no document of the repository says that it should not.

## 2. Modules

| module | what it is | source |
|---|---|---|
| `MapStore` | abstract: one durable map, edited atomically, announced on a topic | - |
| `MapServer` | the map server, step by step; implements `MapStore` | `map_server_node.cpp`, `geo_json_map.cpp` |
| `MCMapServer` | instances of `MapGrid` for TLC | |
| `MapServerProofs` | theorems about it | |
| `OccupancyGrid` | operators: from areas to cells, and the blur | `map_server_node.cpp`, `polygon_iterator.hpp`, `some_gaussian_filter.hpp` |
| `MapGrid` | the map server with the grids it computes | `map_server_node.cpp` |
| `MapGridProofs` | theorems about the grid and its blur | |
| `MapRecorder` | the map recorder with its workers | `map_recorder_node.cpp` |
| `MCMapRecorder` | its instances | |
| `MapRecorderProofs` | theorems about it | |
| `MainboardBridge` | the emergency handshake of bridge and mainboard | `mainboard_serial_bridge_node.cpp` |
| `PacketCodec` | operators: checksum, COBS, frames, the packets that are handled | `protocol.hpp`, `mainboard_serial_bridge_node.cpp` |
| `BridgeLine` | the handshake over those bytes | the same |
| `MainboardBridgeProofs` | theorems about the bridge and the bytes of its line | |
| `MCMainboardBridge` | instances of `BridgeLine` | |
| `SerialPort` | the port below the packets: two threads, one descriptor | `mainboard_serial_bridge_node.cpp` |
| `MCSerialPort` | its instance | |
| `SerialPortProofs` | theorems about it | |
| `DockingHelper` | the docking helper with its workers and Nav2 | `docking_helper_node.cpp` |
| `MCDockingHelper` | its instances | |
| `DockingHelperProofs` | theorems about it | |
| `CoveragePlan` | operators: what the coverage server answers, how a run cuts it up | `coverage_server_node.cpp`, `scripts/start_coverage_run.py` |
| `HeadlandRings` | operators: how the rings of one group become one walk | `coverage_server_node.cpp` |
| `CoverageRun` | the coverage run, with its action servers and their other clients | `scripts/start_coverage_run.py` |
| `MCCoverageRun` | its instance | |
| `CoverageRunProofs` | theorems about the plan and the run | |
| `SetInduction` | theorems of its own: induction over sets of numbers, recursive functions | - |

Definitions that start with a comment `Mutant:` are plausible bugs in the
definition next to them. They are not part of any specification; each is put in
the place of that definition once, to see that a property notices.

### 2.1 MapServer

One executor thread serves the four services one at a time, so a request is a
walk of the variable `pc`:

```
idle -> open -> write -> load -> pub_map -> pub_grid -> pub_rest -> idle
        |------ save() ------|   |---------- publishMap() ----------|
```

| variable | code |
|---|---|
| `memory` | `current_map_` |
| `file` | the GeoJSON file: absent, empty, cut off, not a FeatureCollection, or a map |
| `call`, `reply` | the request being served, and the `code` of the latest response |
| `declared` | whether `grid.resolution` and `grid.max_size` are declared in this process |
| `filter` | what the pointer `gaussian_filter_` holds |
| `topic` | the latched value of `/map`, of the grid, and of markers and poses |

`Handle` is the part of each handler up to `saveAndPublishMap()`; it edits
`current_map_` with the handler's loop (`Upsert`, `Erase`), or answers
`NOT_FOUND`. `OpenFile`, `WriteFile`, `Load`, `PublishMap`, `PublishGrid` and
`PublishRest` are the steps of `saveAndPublishMap()`; `OpenFails`, `LoadThrows`
and `GridThrows` are its exceptions, which `Throw` takes to the catch block of
the handler or, in the constructor, to the end of the process. `Start` is the
constructor. Records keep their id, a stand-in for their geometry, and what the
file format changes: the code of a type (any type but navigation and operation
comes back as exclusion) and the approach pose of a docking station (one without
is given one). That conversion is `Stored`; it is not the identity, and
"what is published is what a restart reads" holds only because the server
publishes what it reloads.

The environment's doings are a constant, `Faults`: a kill between steps, a kill
inside the write (which leaves an empty or cut-off file), a file that cannot be
opened, a full disk (the stream is not checked after the write).

### 2.2 MapRecorder

The executor's callbacks are one step each. Asking for a goal and accepting it
are two callbacks of rclcpp that run in one turn of the executor, and are one
step. A worker takes one step per access to a field it shares with the executor
or another worker; the label in `pc` names what it does next.

```
docking: server -> offer -> wait <-> poll ; wait -> stop -> recheck -> await -> done
area:    first -> loop -> poll -> (auto ->) loop ... ; loop -> leave -> count -> valid -> build -> await -> done
         poll (cancelled), first and auto (no transform) -> drop -> cleanup -> done
```

| variable | code |
|---|---|
| `status` | the goal's state in the rclcpp action server; `"twice"` is the exception of a second result |
| `docking` | `docking_goal_handle_` |
| `charging` | `is_charging_detected_` |
| `recording`, `auto`, `points`, `name` | `is_recording_area_`, `auto_recording_mode_`, `current_boundary_points_.size()`, `current_area_name_` |
| `services` | whether the three services of a recording exist |
| `area` | the area each worker put into its save request |
| `response` | that request, from sending to its answer |
| `drive` | Nav2's DriveOnHeading goal of each docking goal (external) |
| `reported` | history: has the charger reported contact since the latest docking goal was accepted? |

The name in an area is the goal that set it, so that the model can tell whose
name a worker sends. Refusals of the three services change nothing and are not
actions. `current_boundary_points_` is a `std::vector` that a worker and the
executor may touch at the same moment: in automatic mode the worker appends, and a client
may call the service that appends, too. An append is one step here. Of what the race may do, a
lost append looks like one that was not due, which the model allows at any turn; a vector
torn by two reallocations is not modelled, and is the one hazard without a property.

### 2.3 MainboardBridge

`SetEmergency` and `ClearEmergency` are the services. `LoadRequest`,
`LoadRelease` and `WritePacket` are `send_heartbeat()`, one step per flag it
loads, so that the read thread's stores fall between them. `HandleStatus` and
`ClearRelease` are the two stores of `handle_status()`. `OpenSerial` and
`CloseSerial` are the read thread's reconnecting. `DropStatus` and `BoardDrops`
stand for frames with a bad code, checksum or type.

The mainboard is not in this repository. What the model says of it is external:
a request in a heartbeat sets its latch, a release clears it, a request outweighs
a release in the same packet, a held button sets it; a status reports latch or
button. The meaning of the bits in the code of the bridge rests on the same
understanding (a status without emergency is what makes it drop its release).

### 2.4 DockingHelper

Both action servers share one worker, `executeDockingAction`, which is
`FindStation` -> `SendNavGoal` -> `Arrives` -> `Steer`* -> `ChargerFound` or
`DriveTimesOut` -> `StopVelocity` -> `Finish`. Angles and distances are
abstracted: a turn of the steering loop publishes either a velocity or zero. The
five zero velocities of `stopDockingVelocity()` are one step, the last. Nav2 is
external and serves one NavigateToPose goal at a time: a new one preempts the
older. A cancel is accepted and never looked at, as in the code; the model has
no cancelled result for that reason.

The document `docs/architecture/docking-helper.md` says that Nav2's `/dock_robot`
does the docking. The code creates that client and never uses it; the model
follows the code.

### 2.5 SerialPort

The module lies below `MainboardBridge`: there a port is open or closed and packets
arrive or are lost; here is how that comes about. Two threads share `serial_fd_`:

```
main:   spin -> write (serial_mutex_ held) -> spin ; spin -> closing -> join -> end
reader: loop -> open -> copy -> poll -> read -> loop ; poll, read -> close -> loop ; loop -> exit
```

| variable | code |
|---|---|
| `main`, `left` | where the main thread is; the chunks `write_packet()` has yet to write |
| `reader`, `copy`, `frame` | where `read_loop()` is, and its local descriptor and frame |
| `outcome` | whether `process_frame()` handed the latest frame on |
| `fd` | `serial_fd_` |
| `table` | what each descriptor number stands for in the kernel: nothing, the port, a port that was unplugged, something else of the process (external) |
| `attached`, `wire`, `room` | the USB line: plugged in, bytes on their way, free space of the output buffer (external) |
| `heard` | history: how much of a frame has come, byte by byte, since the latest delimiter |

`write_packet()` holds the mutex from its first byte to its last, so `main = "write"` is
the mutex; every other use of it is one step with the guard `~Locked`. A full buffer makes
`write_packet()` try again at once: no step is possible then, and the read thread's
`open_serial()` waits for the mutex. The read thread works on a copy of the
descriptor, outside of the mutex; when the main thread closes the port in between, the
kernel may give the number to another part of the process. That is what
`StrangerOpens` and the value `"other"` are for: the read thread may poll and
even read the stranger's descriptor, as the code may, and the properties say what must
not come of it. Frames are two letters and a delimiter: COBS and the checksum are taken
to tell that frame from everything else. `TakeByte` and `TakeDelimiter` are the two
branches of the reading loop, with its 512-byte limit as `MaxFrame`. `OpenSerial` may leave the port closed
although it is plugged in: `open()` and the configuration of the line have failures of their own.

The destructor runs in the main thread once `rclcpp::spin()` has returned, and takes no
part in the executor. Its `close_serial()` may come before a read thread that has already
looked at `running_` opens the port again; the process is then about to end with
one open descriptor, which nothing here forbids.

### 2.6 PacketCodec and BridgeLine

`MainboardBridge` has packets on its line, which get lost but are never altered. These two
modules are why it may. `PacketCodec` is the code between a packet and the line: the
CRC of 16 bits (bit by bit, on words of 16 bits), COBS both ways,
the cutting of the line at zeros, and the three types of packets that are handled, each
with its size. A full block is not followed by a zero, an empty block is one byte, and a
block longer than the rest of the frame refuses it. `FrameLimit` is the limit of the frame buffer, 512 bytes:
`Kept` is what the buffer holds at a delimiter, the bytes since it was last emptied for being full (how the
limit meets closes, reopening and strangers is `SerialPort`'s matter). `BlockLimit` is 255 in the code. The loops are recursive functions of a place in the
bytes (or of a number of places), each value of which is what the loop has made so far or has yet
to make; that is what the proofs take hold of.

`BridgeLine` gives the packets of `MainboardBridge` their bytes, as long as those of the packed
structs, with the emergency bits at their offset. `FramesComeBack` is the round trip: of
every short input, of every heartbeat, and of every sequence of reports that can be on the
line, read as `read_loop()` reads. `DamageIsNoticed` damages one byte of such a line in every
way (lost, repeated, or with any one bit turned over) and asks that what is handled be what was sent
but for two neighbours. A damaged pair of bits, or a burst, is beyond what a checksum of 16 bits can
promise and is not claimed.

### 2.7 OccupancyGrid and MapGrid

`OccupancyGrid` is `mapToOccupancyGrid()` without its ROS: the extent of the areas and
what is added to it, the least and greatest number of cells, the order of areas, the
iterator, filling, blurring. Lengths are integers, in a unit of which a cell has `Resolution`;
the rounding of floats is left out. `OnEdge` and `Crosses` are the iterator's two tests of a
point; `Visited` are the points at which it stops, which leave out the bottom-left
corner of the bounding box (`next()` steps before it looks).

The comparator that should move exclusions last is not a strict weak order. `Orders` is what
`std::sort` makes of up to sixteen areas, where it is an insertion sort: types in ascending
order, equal ones in any. With more, the library may read past the vector; that is outside the
model. Filling keeps a greater value, and so the order does not matter in the end, which
is what `ExclusionWins` finds out. `MapToOccupancyGrid` is the grid that is published: the filled one, blurred when the
server blurs. Kernels have odd sizes, as the default has.

What the grid should say is told by other means than the iterator's. An outline is any sequence of points (`IsOutline`):
of any shape, either way round, with its first corner repeated at its end, as GeoJSON files have it and
`parsePolygonFeature` keeps it, or not. A point is `Inside` when it is on the outline or when an odd
number of edges passes over it: the ray goes up, where the iterator's goes to the right. A cell is
`Covered` when all its points are inside an outline, unless it is the one of the bottom-left corner of the bounding box (`Skipped`); it
is `Reached` when some of its points are inside, or less than a fifth of a cell beside an edge. The code's tolerance is a tenth
of a cell from the line of an edge and a tenth beyond its ends on each axis, which no circle of a tenth contains. `CellIsRight` asks that
cells an exclusion covers be occupied, those another area covers known, and that every cell that
is occupied or free be reached by an area that makes it so. `BlurredCellIsRight` asks the
same of a blurred grid as far as a blur lets it: which cells are known, and the values of cells that have nothing around
them but cells covered by exclusions, or nothing but cells covered by other areas and not reached by an exclusion.

`MapGrid` ties the two together: the grid that `MapServer` publishes is that of the map it had
just reloaded, whose types have been through the file. `Blurring` says whether the server has a filter.

### 2.8 CoveragePlan, HeadlandRings and CoverageRun

`CoveragePlan` has no state. A *site* is what a request finds: the areas of `current_map_`,
the headland rings that Fields2Cover returns for each loop, how many loops were asked for,
and how many cells the mainland has and how many swaths are in them (for a request with exclusions, as the run sends
it). It is the cells that the code tests for being none; cells without a swath keep the rings.
Geometry is one-dimensional: a ring is at a point of a line, walks
`RingSteps` steps of length one and returns. `AddLoop` puts the rings of
the next loop into the groups of their contours, by distance, and `Groups` does so for all loops;
`Regroup` cuts the sequence into groups of as many rings as there are loops, `Tour` is the order in
which those are visited, by distance, and `OrderRings` the rings in that order; `Path` walks the rings and connects those of a group. A path is the sequence of
its poses' distances from the pose before, which is all that
`split_coverage_segments()` (`Segments`) and `split_follow_path_chunks()` look at. The latter is
`Cut`, its loop with the part of the current chunk that is `current_length` long, and `Chunks`, which adds
what the function does with the rest.

A ring is linked to the one before it when its index is no multiple of
the number of loops (`coverage_server_node.cpp:422-427`). When a contour in the middle of the tour has
fewer rings than there are loops, this links rings of different contours and leaves one of
another unlinked; the path has then a gap, or a connector across the lawn. No document says
otherwise, and no ring is lost by it, which is what `PlanIsWhole` asks.

`HeadlandRings` looks at what `CoveragePlan` takes for a point: a ring as a sequence of points of the
plane. `Normalize` closes it, cuts its edges into pieces of a swath's width and turns it to
the direction asked for; `Rotate` starts it at the point nearest to the ring before (the next one from the
third ring of a group on). A *tour* is the rings in the order in which they are appended, each with
its place in its group and the direction of its group; `IsHeadlandTour` says which tours there can be (one group at most is
short, and not the first of several). `Ordered` makes its walks, as `orderHeadlandSwaths()` does, and
`HeadlandPath` the path along them: `IsLinked` is the running count that decides about connectors.

`GroupsAreWalked` is what `CoveragePlan` rests on. Each ring is gone round (`GoesRound`: the walk passes each
corner at one place, the next corner is the first to come after it, one way or the other, no pose is off
the edges, and the direction is that of the group). The walks follow on each other (`FollowOn`: each ends where it
starts, next to where the one before it started). The path is `Unbroken`: there is a gap only
where the count leaves out a connector. And of the groups, those that start at a full count are one walk without a gap
(`GroupsUnbroken`): all of them when the short one is the last, and otherwise those up to and including the short
one. Behind it, a group is torn where the count starts one and joined to the group before it, as above.
Coordinates are integers in a fine unit; a division rounds
them, and `Gapless` allows for two units of it. What is said of gaps and starts is a theorem for any rings, `GoesRound` for any that are
outlines (`IsOutline` of this module, 4.6): their corners are different points and on no edge but their own, they enclose something, and
their pieces end on whole units, so that a pose can be told to lie on its edge. A simple ring with
rational corners is an outline in a unit that is fine enough.

`CoverageRun` is the thread of the script:

```
start -> undock -> plan -> segment -> goto -> chunk -> follow -> chunk ... -> segment ... -> dock -> end
```

| variable | code |
|---|---|
| `step` | where `run_sequence()` is, or which result it waits for |
| `exit` | `exit_code` |
| `segments`, `segment`, `chunk` | how many chunks each segment has; the two loop indices |
| `armed` | `completion_armed` |
| `answer` | the response of the coverage server, fixed beforehand (external) |
| `goal` | the latest goal of each action server (external) |
| `shape`, `progress` | the chunk being followed, as a sequence of distances from its end (`near` is within the tolerance, `far` at least the arming distance), and where on it the mower is (external) |
| `driven`, `disturbed` | history: the chunks, and of which segment, that were left only where a chunk may be left (`AtEnd`: at the end, or near it after having been far from it) while nobody else had cancelled a goal; whether another client cancelled one |

A turn of the loop in `follow_path()` is `Arm`, `Complete` or nothing: the mower may pass any
place without a turn there, since turns are a tenth of a second apart and the transform may be missing.
The loop looks at the future before it looks at the mower, so `Complete` may come after the
server has ended the goal. `NoError` says what the code says: a
navigation or follow goal that another client cancelled carries no error code and counts as done.
`SuccessIsComplete` is therefore stated for runs in which nobody else cancels.

A chunk may lead anywhere as long as it ends near its end. One that passes near its last pose on its way, after having
been far from it, may be cut short there: `Complete` cannot tell the passing from the arrival, although the script then logs
that the end was reached (`start_coverage_run.py:273-284`). That is why `SuccessIsComplete` says of a run that succeeded that each chunk was followed to its end *or*
until it was near its end after having been far: whatever is left out is the rest of such a
chunk, and never a chunk that was not begun, that only starts near its end, or that failed before.

A mainland without cells drops the headland rings as well and is answered with success and
an empty path; `Whole` says so. The run takes an empty path for a failure (exit code 3).

## 3. Runs

| run | instance | properties | what it shows |
|---|---|---|---|
| `mapserver` | 2 area ids, 1 station, 2 type codes, kills between steps; the grids, blurred and not, of all maps of up to 2 areas out of 6 outlines and of 3 areas out of 2, and of every published map | `MemoryIsPublished`, `NoRecordVanishes`, `ImplementsMapStore`, `ExclusionWins` | with a file that can be written, the server refines the abstract store and loses nothing; the grid of a map says what its areas say |
| `mapserver_faults` | the same with one type code, every fault, blurring on; all grids of 3 by 2 cells | `PublishedIsDurable`, `BlurStaysBetween`, `NoIdIsDuplicated`, `RequestIsAnswered`, `StartPublishesGrid` | with faults, what is published is still what a restart reads, and every client gets an answer; the blur stays between its neighbours |
| `mapserver_grid` | no faults | `GridFollowsMap` **violated** | the second grid of a process is never published |
| `mapserver_corner` | a lawn with a flower bed in it, no faults | `ExcludedIsNeverFree` **violated** | the cell of the bed's bottom-left corner is free on the published grid |
| `recorder` | 2 area goals and 1 docking goal, of which any 2 are asked for | `TypeOK`, `NoGhostRecording`, `ResultGivenOnce`, `ResultIsTruthful`, `OneDriver`, `ChargedBeforeSaved`, `CancelEnds`, `DriveIsReleased`, `DockingEnds` | overlapping recordings neither leave the busy flag behind nor give a goal two results or a wrong one; a cancel always ends its goal; exclusion, the charger's word and the drive goal survive |
| `recorder_busy` | 1 docking goal, 1 area goal | `BusyMeansBusy` **violated** | one docking goal makes the recorder refuse area goals for the rest of its life |
| `recorder_overlap` | 2 area goals, 1 docking goal | `SavedAreaIsComplete` **violated** | an area of fewer than three points reaches the map server |
| `bridge` | 2 packets per direction; inputs of up to 7 bytes for the codec | `FramesComeBack`, `DamageIsNoticed`, `EmergencyTakesHold`, `ReleaseTakesHold`, `ReleaseIsForgotten` | the handshake converges over a line that loses packets, and the bytes of the line lose packets and never alter them |
| `bridge_latched` | 1 packet per direction | `HeartbeatKeepsRequest` **violated** | a latched request is followed by heartbeats that ask for the release |
| `docking` | one goal of each action, 2 stations, one without approach pose | `NoRunaway`, `SteersFromApproach`, `ResultGivenOnce`, `DockingEnds` | two goals at once still leave the mower stopped, and every goal ends |
| `serial` | 2 descriptors, one of which a stranger may take; frames of 2 bytes in a buffer of 2 | `OwnsDescriptor`, `NoDescriptorLeaks`, `StrangersAreLeftAlone`, `NextFrameArrives`, `ShutdownEnds`, `Reconnects`, `LineIsRead` | the threads agree on the descriptor, a spoilt frame costs no other, the port comes back and is listened to, the destructor ends |
| `coverage` | two headland loops of up to two contours, one loop, or none; up to one exclusion; four shapes of chunks; tours of one, two and three groups of rings | `PlanIsWhole`, `GroupsAreWalked`, `ChunksJoin`, `SuccessIsComplete`, `OneMover`, `RunEnds` | no ring is lost or repeated in planning, each is gone round; no part of the path is lost in cutting it up, and no chunk is passed over in driving it |

The five violations are disagreements between the code and what a comment,
message or document of the repository says of it; `PROJECT.json` quotes the
lines under `findings`.

Every module with variables but the abstract store has a type invariant, `TypeOK`. Each is a theorem (section 4), which
says more than a run does; the recorder's run checks its own as well. The properties of operators
(`ExclusionWins`, `BlurStaysBetween`, `FramesComeBack`, `DamageIsNoticed`, `PlanIsWhole`,
`GroupsAreWalked`, `ChunksJoin`) are about bounded inputs that are constants of the run; those that
can be are tied to a state in which the input occurs. Six of the seven are theorems, about all
inputs of their type (sections 4.5 to 4.7).

### 3.1 Bounds, and why they are enough

- *Two area ids and one docking id.* The handlers look for one record and touch
  one; two ids give "the other record", and initial files with a repeated id give
  "two records with this id". Area ids are symmetric in `mapserver` (no liveness
  is checked there).
- *Type codes 1 and 7.* One code the file keeps, one it changes.
- *`MaxPoints` = 3.* The code compares the number of points with three only; the
  bound stands for three and more. That is why `Push` saturates.
- *`MaxRequests` = 2.* Overlap needs two workers: one past its loop, one in it, or one that
  drives and one that records. The recorder's run asks for any two of two area goals and
  a docking goal, in any order. A third adds no new kind of pair, and each goal is used once: a
  client that asks again is another goal. The two violations are found with three. Two docking
  goals are covered by proof (`ExclusiveDriver` holds for any number).
- *Two packets in flight.* Enough for a status older than the request, with a
  newer one behind it, in one direction, while a heartbeat of each kind is on its
  way in the other.
- *Two stations and two docking goals.* One station with and one without an
  approach pose; a known one that disappears; two drivers.

- *Two descriptors, `MaxFrame` = 2, `MaxWire` = 3, `Room` = 1.* One number for the port and
  one for a stranger, and either may be the other's later. The buffer holds exactly a
  frame, so that a lost delimiter overflows it; the line holds one frame, and what the
  reader has not taken is where bytes are lost. One free chunk of output makes a heartbeat of
  two chunks stop in its middle.

- *`BlockLimit` = 4, bytes 0, 4 and 200, up to seven of them.* The code has 255. Blocks of the model hold
  three bytes, so that seven bytes make two full blocks and a rest, with zeros before, in
  and behind each. 4 is itself the code of a full block, 200 is longer than any rest.
- *The line of `DamageIsNoticed`*: every sequence of up to two reports, a button event before each;
  all its bytes, all bits of each.
- *`Resolution` = 2, `Padding` = 2, cells between `MinCells` = 2 and `MaxCells` = 5.* With half a
  cell as the unit, outlines lie on cells, between them, across them and below the size of one; some are closed by a repeated corner, one runs
  clockwise, one is not convex. Two of them in every combination of types, and three with two of the types, reach beyond `MaxCells`, so that
  points fall off the grid. Grids of three by two cells have the kernel of three by three at a border everywhere.
- *Rings of `GroupsAreWalked`*: a square, a diamond and an L, each in every rotation, direction and
  closed or open; `Width` = 12 cuts their edges into one to five pieces, `ConnectorStep` = 9 gives
  connectors of one step and of several. Tours of one group, of two, and of three with a short one in
  the middle, behind which the count is off.
- *Shapes of chunks*: one that leads away from its start, a ring (near its end at its start, too), a short one that is
  never far, and one that passes near its end on its way.
- *Points 0, 1 and 3; up to two rings per loop; `RingSteps` = 4, `ChunkLength` = 3, `MinChunk` = 2.*
  Rings can coincide, be a step apart (within `GapThreshold`, so that two groups are one
  segment) or further. A second loop has fewer, as many or more rings than the first. A ring is
  a chunk and a rest that is too short alone and long enough with a connector. Every kind of
  map that is refused occurs once. These give each of the answers the run can tell
  apart, and paths of one segment and of several.

Runs with `CHECK_DEADLOCK FALSE` are those whose goals run out: when each has its
result nothing need happen; so with the run of `coverage`. In `serial` the destructor ends, and the environment may then
be quiet. `MapServer` and `MainboardBridge` never stop, and
are checked for deadlock.

### 3.2 Fairness

- *MapServer*: `WF` of the executor's steps. `rclcpp::spin` keeps running them,
  and no step waits for another process. Clients, kills and starts are not fair.
- *MapRecorder* (`MCFairSpec` is `FairSpec` with the bound on requests): `WF` of each worker: a thread runs, and every wait in it has a
  time limit (5 s, 10 s, 60 s) that the model turns into "may end at any time".
  `SF` of `EndWait`: the wait for the charger is a loop that looks at a clock in
  every turn; it may turn again any number of times, not for ever. Charger, Nav2,
  map server and clients are not fair.
- *MainboardBridge*: `SF` of the heartbeat and of the receiving of packets: a
  timer and a thread that keep running, and a line that does not spoil every
  packet for ever. `SF` rather than `WF` because the port may close in between.
  `WF` of reconnecting and of the mainboard's reports. The liveness properties
  are stated under the condition that the port stays plugged in.
- *DockingHelper*: `WF` of each worker, and of "charger found or drive timed out",
  which the steering loop tests in every turn.
- *SerialPort*: `SF` of the read thread: the main thread gives the mutex back after every
  heartbeat, so that the thread finds it free again and again, though not all the time, and
  heartbeats are 20 ms apart; and of a try to open that succeeds (`OpensAtLast`), since a port that stays plugged in does not fail to
  open for ever. `WF` of the main thread's writes and of its destructor.
  `WF` of `Drain`: a mainboard that stays plugged in reads on. `LineIsRead` does not hold
  without it, since a full buffer then holds the mutex for ever.
- *CoverageRun*: `WF` of the script, of the servers' answers and results, and of the mower on
  its way along a chunk. No wait of the script for a result has a time limit, so `RunEnds`
  needs the servers to end what they accepted (`DockingEnds` is that promise for the docking
  helper). Nothing is assumed of the transform, of Ctrl-C or of other clients.

## 4. Theorems

Assumptions: `MapServerAssumption` (type codes are numbers, `Faults` is a set of known
faults), `InitialMapsAssumption` (what the server may find in a file is a map),
`MapRecorderAssumption` (area and docking goals are different things, at least three
points are counted), `DockingHelperAssumption` (goals of the two actions are different
things, a goal names a station that could exist), `SerialPortAssumption` (-1 is not a
descriptor, the bounds hold a frame), `MainboardBridgeAssumption` (the line holds a natural
number of packets), `BlockLimitAssumption` (a code byte can hold a block's length), `SamplesAssumption`
(samples are bytes), `GridAssumption` (lengths are positive, the kernel is an odd square of positive
weights), `MapGridAssumption` (every shape has an outline, an outline is a sequence of one or more points,
a sampled grid has values of a grid),
`CoverageRunAssumption` (there are shapes of chunks, and each has two places or more, the last of which is near the end), `CoveragePlanAssumption` (lengths are numbers, and the least chunk is no longer than the usual one: the
script has both as parameters of its node and does not compare them, and its defaults are so) and
`SitesAssumption` (a site is a map, rings, a number of loops, of cells and of swaths).
`HeadlandRingsAssumption` says that two lengths are positive (`std::max(..., 0.01)` in the code), and
`SampleToursAssumption` that the tours of the run are tours of outlines.
TLC evaluates them all
in the runs of those modules. No constant is assumed finite. A theorem about the outcome of `Spec` may be
about data alone (a plan, a grid, a frame): it then holds in every state because it holds of all
data of that type, and the lemma that says so is named below.

### 4.1 MapServerProofs

- `TypeCorrect`. Rests on lemmas about the operators: the first record with an id
  is a record of the sequence (by well-foundedness of <), so `Upsert`, `Erase`,
  `Edit` and `Stored` return maps.
- `PublicationDurable`: `PublishedIsDurable` for every set of faults. It is not
  inductive: between requests it depends on what the steps before did. `DurableInv`
  adds what holds at each label: at `pub_map` the memory is what the file reads
  as; at `pub_grid` and `pub_rest` the topic is, too; and wherever the handler can
  fail and return to `idle`, file and topic are as they were, or the file cannot
  be read.
- `ServerImplementsStore`: with no fault but kills between steps, `Spec` implies
  `ImplementsMapStore`. The durable map of the abstract store is the file, except
  between truncation and write, where it is already what will be written
  (`Stored(memory)`). `OpenFile` is the step that commits the request, so the
  proof has to know that the memory is then the durable map edited by the
  request being served: `RequestInv` carries that from the handler to the write.
  It also needs that the file is readable whenever it is not being written.
- `MemoryPublished`: `MemoryIsPublished` with no fault but kills between steps, from the same
  invariant and `PublishedInv`: from the publication of the map on, memory and topic
  are the same. With storage faults it is not true, and no run claims it: an edit whose
  save failed stays in `current_map_` until the next request publishes it.
- `IdsStayDistinct`: the action property `NoIdIsDuplicated`, whatever the faults. `Upsert` replaces the
  first record with an id and appends one only when there is none; `Erase` and `Stored` add no id;
  and what a reload brings is in the file, about which the property says the same.
- `RecordsStay`: the action property `NoRecordVanishes`, for any faults but the full disk. `ReloadInv`: a
  reload finds what this request has just written from `current_map_`, or happens in the constructor,
  with nothing in memory to lose. With a full disk it is false (section 5).

### 4.2 MapRecorderProofs

- `TypeCorrect`.
- `ExclusiveDriver`: `OneDriver` for any number of goals. `DriverInv` adds that
  an active docking goal is the one in `docking_goal_handle_`, which the guards
  of both goal callbacks test, each in a way of its own.
- `NoGhost`: `NoGhostRecording`, inductive given the types: every step that leaves
  the labels of recording workers finds the flag down or clears it.
- `ResultOnce` and `ResultTruthful`. `GoalInv` ties a goal's status to the label
  of its worker and to its save request: a goal is active exactly while its worker
  has yet to give the result (the labels `drop`, `cleanup` and `done` come after
  it), and a request was sent only on the way to `await`. The status of a goal is
  changed by its own worker and its own cancel only, which `WorkerFrame` states.

- `ContactFirst`: `ChargedBeforeSaved`. `ChargedInv` adds that contact is never remembered
  from before the goal; the step of an acceptance needs that a goal that has just been
  accepted has sent no request, which is `ResultInv`.
- `DriveReleased`: the action property `DriveIsReleased`. `DriveGoalInv` ties the drive goal
  to the label of its worker: it is running or past that while the worker waits, and
  being cancelled or over once the worker has left the loop.

### 4.3 DockingHelperProofs

- `TypeCorrect`.
- `ResultOnce`: `ResultGivenOnce`, from the same kind of invariant as in the recorder.
- `AlwaysStopped`: `NoRunaway`, inductive given the types and the invariant of the results
  (which says that a goal just accepted has no worker yet): only a steering worker moves the
  mower, and a worker leaves the steering labels by the step that stops it.
- `ApproachFirst`: `SteersFromApproach`. `ApproachInv` adds what a worker knows before it
  steers: from the lookup on it has a station, from the sending of the navigation goal
  on one with an approach pose. A navigation that succeeded stays so, since Nav2
  preempts only goals that are under way (`SuccessStays`).

### 4.4 SerialPortProofs

- `DescriptorOwned` and `NoLeak`. Each needs the other: `PortInv` is their conjunction with
  the types of `fd` and `table`, and says that `serial_fd_` is the one number that stands
  for the port. Every change of `serial_fd_` is made under the mutex, together with
  the one of the kernel's table.
- `StrangersSafe`: the action property `StrangersAreLeftAlone`. The read thread closes
  `serial_fd_`, never its copy, and by `PortInv` that is no stranger's.

- `TypeCorrect`: the buffer never exceeds its limit (`BufferFits`), nor the line its bound.
- `NextFrame`: the action property `NextFrameArrives`. `FrameInv` ties the history of what was heard
  since the latest delimiter to the buffer: nothing heard, nothing in it; one letter heard,
  that letter in it; the frame heard, the frame in it. Whatever else comes (a stranger's byte, a
  close, a buffer that overflows) spoils the history and not the buffer after the next
  delimiter. This is where the limit must hold a frame.

### 4.5 MainboardBridgeProofs

- `TypeCorrect`, for any number of packets in flight.
- `AnyBytesReturn`: `RoundTrip` of any bytes, for any block limit. COBS encoding walks the blocks, and what is
  decoded from the frame of the rest is the rest: the induction goes down the places
  at which a block starts (`DescentRecursion`, `RankedInduction`). A block has no zero, is shorter
  than the limit, and is followed by a zero of its own unless it was full; the frame is longer
  than the bytes by a byte per block, and its one zero is its last.
- `PacketsReturn`: any sequence of packets that are handled, encoded one behind the other, is received as the same
  sequence. `read_loop()` cuts the line at zeros (`BeforeZero`), so the first frame is found whole, and its
  sum and its size are those of its packet. It fits the buffer (`KeptIs`), since handled packets have at most 41 bytes.
- `FramesAlwaysComeBack`: `FramesComeBack`, from those two and the types of the line.

### 4.6 CoverageRunProofs

- `TypeCorrect`. `IndexInv` adds what the script knows of its two indices: there is a segment while
  it drives to one or follows its chunks, and a chunk while it follows one.
- `MoverAlone`: `OneMover`. `MoverInv` says more than that one goal is out: it is the one that the
  script waits for (`Awaited`). Every wait ends with the end of that goal, or with cancelling it,
  which is why `Complete` has to cancel; and an exit code other than the initial one is set only
  when no goal is out. An interrupted run leaves its goal behind with exit code 1.
- `SuccessComplete`: `SuccessIsComplete`. `DrivenInv`: while nobody has cancelled, what has been driven is exactly
  what lies before the two indices (`Before`, a set of places rather than a count), and on the way home and
  after a success that is everything. The steps of `Complete` and of a failure near the end need that an armed mower has
  been far from the end of this chunk, and not of an earlier one; those of the results that a chunk which was ended by the script
  is not waited for again. No shape is excluded but by its end being near its end.
- `PlanWhole`: `PlanIsWhole`, for any map, any rings, and any number of loops. `Members` are the rings in some
  groups, and groups are `Apart` when no ring is in two of them or twice in one. `AddLoopIs` says that
  `AddLoop` adds the rings of the loop to the members and keeps the groups apart: the free
  rings shrink by the one that a group takes (`IsFree`), so that a ring is taken once or left over. `GroupsAre`,
  `SwathsAre`, `RegroupIs` carry this through the loops, the obstacles and the cutting by number, whose
  parts follow each other without a gap (`CutsAre`); `TourIs` says that the order of the groups is a permutation,
  since the next one is chosen among those not yet visited. `SitesAreWhole` is the result.
- `ChunksAlwaysJoin`: `ChunksJoin`, for any path and any lengths. `IsCut` is the invariant of the cutting
  loop: the chunks so far lead without a gap from the first pose to where the current one starts, each is at
  least `ChunkLength` long, and `length` is how far the current one has come. `ChunksAreJoined` then looks
  at the rest: it is long enough, or goes to the chunk before it, or is all there is. `SegmentsType` says that
  no segment is empty. `PlansAreCounts`, which follows, is what `TypeCorrect` needs to know of a plan.
- `RingsFollowOn`: `FollowOn`, `Unbroken` and `GroupsUnbroken` of any tour of rings of two points or more, which are all that
  `orderHeadlandSwaths()` takes. `Even` says of a sequence that its points are no further apart than
  a length and what rounding adds; it is kept when sequences are joined (`EvenConcat`). `PiecesAre` finds
  the number of pieces that makes them short; `PartsAre` says that rounding adds at most one unit on
  each axis, and `RoundedPiece` that the gap is then at most that of a length two units greater. A
  normalized ring is closed and `Even` (`NormalizeIs`), and stays so when it is started elsewhere: `StartAtIs` goes
  round by remainders (`RoundIs`). `NearestIs` needs that a finite set of gaps has a least one, and `RotateIs`
  that the walk then starts there, or one point after; `OrderedIs` carries that along the tour. `LegIs` is one ring
  with its connector, if it has one, and `HeadlandPathIs` any stretch of the path in which every ring has. In a group that starts at a multiple of the number of
  loops no index before its end is another (`PlacesGrow`, `MultipleAhead`).
- `RingsGoneRound`, `GroupsAlwaysWalked`: `GoesRound` for any rings that are outlines, and with `RingsFollowOn` all of
  `GroupsAreWalked`. An edge of an outline is a number of equal steps (`EdgeSteps`), and has its place in the ring that is
  cut (`DensifyAt`, from `FlattenAt`: where each of several sequences lies in the one made of them). Hence the corners
  ascend in the cut ring, each is there once, and all else is on an edge between two (`Traced`, `OutlineCut`). The
  area is a sum over the poses: cutting leaves it (`AreaCut`), turning changes its sign (`AreaTurned`), another start
  leaves it (`AreaCircled`, two ways round the same circle). A pose is no further than `Width` from the next, so
  that cutting again changes nothing (`ShortStays`): what `Normalize` turns, it turns once, and what `Rotate`
  normalizes again stays as it is (`NormalStays`). A walk is then `Circled` around the normalized ring from some
  place of it, and its corners come in the order of their places, counted modulo the length (`NextCorner`,
  `CircledGoesRound`).

### 4.7 MapGridProofs

- `BlurCorrect`, `BlurBetween`: `BlurStaysBetween` of any grid and any kernel of `GridAssumption`. The sum over a window
  is between least and greatest value times the sum of the weights (`SumBounds`, by induction over the subsets of
  the window), and rounding a mean stays between the bounds when they are whole (`RoundedBetween`).
- `GridMeaning`: a cell is unknown when no area touches it, occupied when an exclusion touches it, and free
  when only others do, for any areas and any order of them: filling keeps the greater value, which an induction over the
  areas filled so far turns into "the greatest of those that touch the cell". `OrderIsIrrelevant` follows:
  the order that an unlawful comparator leaves does not matter.
- `GridCorrect`, `ExclusionAlwaysWins`: the grid of areas of any outlines is right, blurred or not, whatever their number, shape and overlap and
  whatever `Resolution` is; so is every grid the server publishes. `GridMeaning` leaves two claims about one outline:
  - *A cell inside is visited* (`CoveredIsVisited`). In each direction a cell holds one of the iterator's steps
    (`StepInReach`), which is inside the bounding box (`InsideTheBox`). What is inside for the ray that goes up is inside for the one that
    goes to the right (`InsideIsInside`). For a point that no edge runs through, an edge is crossed by just one of the two rays if it
    leads into the quarter above and to the right of the point, or out of it (`IntoTheQuarter`, `EdgeAndQuarter`); round a
    closed outline, one enters a quarter as often as one leaves it, so that the two counts are both odd or both even
    (`OddStep`, `SameParity`, `RaysAgree`). A point that an edge runs through is on that edge for the code, too.
  - *A visited cell is reached* (`VisitedIsReached`). What the ray to the right finds inside, the ray up does (`RaysAgree`
    again); and what the code takes for a point of an edge is less than a fifth of a cell beside it
    (`OnEdgeIsBeside`): a tenth from the line along it, and past its end, a tenth from the line and a tenth too far on each axis
    are less than a fifth from the end (`PastTheEnd`). The one exception is an edge of no length, a repeated corner, which no
    point is within a tenth of in the code.

  `FilledIsRight` puts them together, and `BlurredIsRight` adds the filter: a mean of values all occupied, or all free, is that
  value (`MeanBetween`). Distances are never divided: they stay squares times the length of an edge, and the provers multiply them out.

### 4.8 SetInduction

The library's induction theorems take a predicate as a parameter, which the installed provers cannot
instantiate. These theorems speak of *sets* instead (a set of numbers that has 0 and with each number the next has them all), and a proof
defines the set of the numbers its claim holds for. The same idea gives the recursive functions:
`StepwiseRecursion` says that there is a function with the given start and step, so that a `LET` of the
model, which is a `CHOOSE` of such a function, satisfies its own equations; `DescentRecursion` is for functions that go
to a lower place, `RankedRecursion` for sums over sets. Every recursive function of the modules above is unfolded once,
by a lemma whose name ends in `Unfold`, and its other lemmas rest on that one.

### 4.9 Only model-checked

- Every liveness property: the prover does not reason about fairness.
- `DamageIsNoticed`: that a checksum of 16 bits finds every single damaged bit or byte is arithmetic of polynomials
  over the bits of 65536 values; the solvers have none of it. TLC evaluates it for the line of its run.

## 5. Not modelled

- *Geometry in the nodes with state*: polygons, distances, covariances, transforms. They enter as
  choices ("far enough for a point or not", "transform missing or not").
- *The rounding of floats* in the grid and in the rings, which have integer coordinates; `polygon_utils.hpp`,
  which serves the log only.
- *Maps of more than sixteen areas* on the grid, and blurring kernels of even size: undefined
  behaviour of the library, or of the filter.
- *Inside Fields2Cover.* What it finds is part of a site. `utils.h` of the coverage server builds messages of
  its geometry for display.
- *The bits of the port*: baud rates, `termios`. `SerialPort` has two letters for a frame and one for a
  delimiter; the bytes of frames are in `PacketCodec`.
- *What a status, IMU or button packet publishes*: converted and sent on, with no state. That
  such a packet arrives whole is `DamageIsNoticed`.
- *Simulation node*: it stands in for the hardware when Webots runs. It decides nothing about the
  mower; the models have the hardware it plays as their environment.
- *Feedback, logs, markers' layout, Foxglove publications*: no control depends on them.
- *System monitor, dock plugin, web interface, launch files*: pure I/O or
  composition; what they configure is a constant or an action of the environment.
- *What a full disk leaves*: an empty file reads as nothing and is answered with success
  (`geo_json_map.cpp:238`); this is part of `MapServer` under the fault `disk_full`, where
  `PublishedIsDurable` holds and no record is claimed to survive.

## 6. Plan

In order of importance, with what each would show:

1. `Recording`: `MapRecorder` composed with `MapStore` in the place of its external map
   server: a recording that succeeded is in the durable map.
2. `CoverageRun` with `DockingHelper` in the place of its external dock server.
3. The vector of boundary points with two writers, when an append is more than one step.
