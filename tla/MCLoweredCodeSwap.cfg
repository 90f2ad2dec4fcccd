CONSTANTS
  Modules <- SwapModules
  MaxBlocks = 6
SPECIFICATION Spec
INVARIANTS
  PhisResolved
CHECK_DEADLOCK FALSE
