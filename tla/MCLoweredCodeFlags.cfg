CONSTANTS
  Modules <- FlagsModules
  MaxBlocks = 6
SPECIFICATION Spec
INVARIANTS
  BranchesOnItsComparison
CHECK_DEADLOCK FALSE
