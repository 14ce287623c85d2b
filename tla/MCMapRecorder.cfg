\* Two area goals and a docking goal, of which any two are asked for.
SPECIFICATION MCFairSpec
CONSTANTS
  AreaGoals = {a1, a2}
  DockGoals = {d1}
  None = None
  MaxPoints = 3
  MaxRequests = 2
INVARIANTS
  TypeOK
  NoGhostRecording
  ResultGivenOnce
  ResultIsTruthful
  OneDriver
  ChargedBeforeSaved
PROPERTIES
  CancelEnds
  DriveIsReleased
  DockingEnds
CHECK_DEADLOCK FALSE
