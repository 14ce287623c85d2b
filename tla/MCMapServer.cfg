SPECIFICATION Spec
CONSTANTS
  a1 = a1
  a2 = a2
  s1 = s1
  s2 = s2
  d1 = d1
  p1 = p1
  AreaIds = {a1, a2}
  Shapes = {s1}
  AreaTypes = {1, 7}
  DockIds = {d1}
  Poses = {p1}
  InitialMaps <- MCInitialMaps
  Faults = {"crash"}
  UseBlur = FALSE
  Resolution = 2
  Padding = 2
  DefaultReach = 4
  MinCells = 2
  MaxCells = 5
  Kernel <- MCKernel
  Outlines <- OneOutline
  SampleMaps <- MCSampleMaps
  SampleGrids = {}
INVARIANTS
  MemoryIsPublished
  ExclusionWins
PROPERTIES
  NoRecordVanishes
  ImplementsMapStore
SYMMETRY Symmetry
