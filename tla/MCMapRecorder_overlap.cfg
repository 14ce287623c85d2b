SPECIFICATION MCSpec
CONSTANTS
  AreaGoals = {a1, a2}
  DockGoals = {d1}
  None = None
  MaxPoints = 3
  MaxRequests = 3
INVARIANT
  SavedAreaIsComplete
CHECK_DEADLOCK FALSE
