CONSTANTS
  Modules <- SmallModules
  MaxBlocks = 6
SPECIFICATION Spec
INVARIANTS
  DomainsHideNoAlias
  SameBehaviour
  StackDiscipline
  PhisResolved
CHECK_DEADLOCK FALSE
