CONSTANTS
  Programs <- SmallPrograms
  Void <- ReturnNothing
  MaxBranches = 5
SPECIFICATION Spec
INVARIANTS
  TypeOK
  GraphReady
  DefinedBeforeUsed
  SameBehaviour
CHECK_DEADLOCK FALSE
