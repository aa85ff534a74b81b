SPECIFICATION FairSpec
CONSTANTS
  p1 = p1
  p2 = p2
  p3 = p3
  Rows <- TwoRows
  Hideable <- BothRows
  Filters <- TwoFilters
  MaxVersion = 1
  MaxGestures = 3
INVARIANT TypeOK
INVARIANT NoPanelIsStuck
PROPERTY HidesAreKept
PROPERTY PanelsSurviveSwap
PROPERTY NewPatchesShowUp
