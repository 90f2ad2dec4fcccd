CONSTANTS
  Vreg <- Vregs
  Reg <- Regs
  Family <- FamilyOf
  Parent <- ParentOf
  CallerSaved <- CallerSavedRegs
  Reserved <- ReservedRegs
  Functions <- SmallFunctions
  MaxRounds = 4
  MaxBlocks = 6
SPECIFICATION Spec
INVARIANTS
  SameBehaviour
  RestoresCaller
  CallsAligned
PROPERTIES
  Terminates
CHECK_DEADLOCK FALSE
