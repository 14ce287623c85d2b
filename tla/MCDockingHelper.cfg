\* One goal of each action, two stations of which one has no approach pose.
SPECIFICATION FairSpec
CONSTANTS
  s1 = s1
  s2 = s2
  n1 = n1
  t1 = t1
  None = None
  Stations = {s1, s2}
  NoApproach = {s2}
  NearestGoals = {n1}
  ToGoals = {t1}
  Target <- MCTarget
INVARIANTS
  NoRunaway
  SteersFromApproach
  ResultGivenOnce
PROPERTY
  DockingEnds
CHECK_DEADLOCK FALSE
