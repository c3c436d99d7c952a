SPECIFICATION Spec
CONSTANTS
  Count = 2
  Times = 2
INVARIANTS
  TypeOK
  WholeCaptureRead
  Guarded
  Owned
PROPERTIES
  CleanedUp
  WaitEnds
