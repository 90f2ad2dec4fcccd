CONSTANTS
  Functions <- AllGraphs
SPECIFICATION Spec
INVARIANTS
  NoCriticalEdge
  GraphConsistent
  SameControlFlow
CHECK_DEADLOCK FALSE
