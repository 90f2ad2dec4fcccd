CONSTANTS
  Inputs <- SmallInputs
SPECIFICATION UnitSpec
INVARIANTS
  OperandsMatchOperators
  RightTree
  RightUnit
  RejectsOnlyMalformed
  OnlyDefinitionsMiscast
PROPERTIES
  FloorKept
CHECK_DEADLOCK FALSE
