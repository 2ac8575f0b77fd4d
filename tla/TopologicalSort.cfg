SPECIFICATION Spec
CONSTANTS
  Id = {a, b, c}
  MaxNodes = 3
  MaxEdges = 3
CHECK_DEADLOCK FALSE
SYMMETRY Symmetry
INVARIANTS
  SortedIsAnOrder
  CycleMeansUnsortable
