SPECIFICATION Spec
CONSTANTS
  Stems        <- MCStems
  StemLen      <- MCStemLen
  Tens         <- MCTens
  Root         <- MCRoot
  GuardOK      <- NilGuard
  Multicast    <- MCMulticast
  BitLen       <- MCBitLen
  Files        <- CaptureFiles
  IllegalStems = {}
  MaxIfName    = 11
  NamePrefixes = {"ipip", "gre", "gretap", "vxlan", "wg"}
  MaxCount     = 1000000000
INVARIANTS
  CheckPassesOnCapture
