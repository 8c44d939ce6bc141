SPECIFICATION Spec
CONSTANTS
  Nodes = {a, b, c, d}
  Ids = {a, b, c, d}
  Names = {x, y}
  NoName = noName
  MaxDepth = 2
SYMMETRY Symmetry
INVARIANTS OrderRespectsEdges CycleDetectionExact LevelIsLongestPath ValidatorIsSound
CHECK_DEADLOCK FALSE
