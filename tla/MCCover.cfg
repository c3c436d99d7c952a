SPECIFICATION Spec
CONSTANTS
  GuardOK    <- MCGuardOK
  Registries <- MCRegistries
  Spines     <- MCSpines
INVARIANTS
  TypeOK
  LoopsComputeBest
  Segmentation
  ExplainAgreesWithCover
  ReasonsHold
PROPERTIES
  TiesAreIdentical
  Terminates
  TilingSpec
