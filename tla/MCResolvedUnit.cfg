CONSTANTS
  Units <- SmallUnits
SPECIFICATION Spec
INVARIANTS
  TypeOK
  ResolvesToInnermost
  RefusesExactlyIllScoped
  SoundSignatures
CHECK_DEADLOCK FALSE
