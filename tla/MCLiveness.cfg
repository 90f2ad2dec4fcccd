CONSTANTS
  v1 = v1
  v2 = v2
  Vreg <- Vregs
  Flows <- SmallFlows
SPECIFICATION Spec
INVARIANTS
  NeverTooLive
  ExactWhenConverged
PROPERTIES
  OnlyGrows
  Terminates
CHECK_DEADLOCK FALSE
