SPECIFICATION Spec
CONSTANTS
  p1 = p1
  p2 = p2
  p3 = p3
  Rows <- ThreeRows
  Hideable <- NoProducts
  Filters <- NoFilter
  MaxVersion = 1
  MaxGestures = 3
INVARIANT PanelsAreRefetched
