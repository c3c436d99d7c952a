SPECIFICATION Spec
CONSTANTS
  GuardOK    <- NilGuard
  Registries <- MCRegistries
  Spines     <- MCSpines
INVARIANTS
  GreedyOptimal
