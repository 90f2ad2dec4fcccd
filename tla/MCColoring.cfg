CONSTANTS
  Vreg <- Vregs
  Reg <- Regs
  Family <- FamilyOf
  Parent <- ParentOf
  CallerSaved <- CallerSavedRegs
  Reserved = {}
  Problems <- SmallProblems
SPECIFICATION Spec
INVARIANTS
  NoFamilyClash
  EachTreatedOnce
  SavesWhatItUses
  NoNeedlessSpill
PROPERTIES
  DecidesOneByOne
  Terminates
CHECK_DEADLOCK FALSE
