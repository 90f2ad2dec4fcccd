CONSTANTS
  Vreg <- Vregs
  Reg <- Regs
  Family <- FamilyOf
  Parent <- ParentOf
  CallerSaved <- CallerSavedRegs
  Reserved <- ReservedRegs
  Functions <- ManyParameters
  MaxRounds = 4
  MaxBlocks = 6
SPECIFICATION Spec
INVARIANTS
  ArgumentsArrive
CHECK_DEADLOCK FALSE
