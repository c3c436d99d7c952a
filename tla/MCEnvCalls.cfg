SPECIFICATION Spec
CONSTANTS
  Stems        <- MCStems
  StemLen      <- MCStemLen
  Tens         <- MCTens
  Root         <- MCRoot
  IllegalStems = {}
  MaxIfName    = 6
  NamePrefixes     = {"vxlan", "gretap"}
  MaxCount     = 10
  VNIs         = {2, 9, 10}
  VlanIDs      = {1, 10}
  MaxTags      = 2
  MaxCreated   = 10
INVARIANTS
  TypeOK
  NamesDistinct
  NoGaps
PROPERTIES
  CallsReturn
  NamespaceSpec
  AtomicSpec
CHECK_DEADLOCK FALSE
