\* Two headland loops of up to two contours and up to one exclusion; four shapes of chunks.
SPECIFICATION FairSpec
CONSTANTS
  RingSteps = 4
  GapThreshold = 1
  ChunkLength = 3
  MinChunk = 2
  Width = 12
  ConnectorStep = 9
  SampleTours <- MCSampleTours
  Sites <- MCSites
  Shapes <- MCShapes
INVARIANTS
  PlanIsWhole
  GroupsAreWalked
  ChunksJoin
  SuccessIsComplete
  OneMover
PROPERTIES
  RunEnds
CHECK_DEADLOCK FALSE
