SPECIFICATION MCSpec
CONSTANTS
  AreaGoals = {a1}
  DockGoals = {d1}
  None = None
  MaxPoints = 3
  MaxRequests = 3
INVARIANT
  BusyMeansBusy
CHECK_DEADLOCK FALSE
