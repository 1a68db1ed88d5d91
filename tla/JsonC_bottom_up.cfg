\* A container is given its children before it is added to another one.
CONSTANTS
  MaxWrappers = 3
  MaxNodes = 7
  Edges = {"bottom_up"}
SPECIFICATION JsonSpec
INVARIANT PointersStayValid
CHECK_DEADLOCK FALSE
