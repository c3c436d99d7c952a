SPECIFICATION MirrorSpec
CONSTANTS
  Stems        <- MCStems
  StemLen      <- MCStemLen
  Tens         <- MCTens
  Root         <- MCRoot
  GuardOK      <- NilGuard
  Multicast    <- MCMulticast
  BitLen       <- MCBitLen
  Files        <- MirrorFiles
  PeerInners   <- MCPeerInners
  IllegalStems = {}
  MaxIfName    = 11
  NamePrefixes = {"ipip", "gre", "gretap", "vxlan", "wg"}
  MaxCount     = 1000000000
INVARIANTS
  EndsMeet
  FarEndLowers
  AddressesTurnAround
  PredictionsTurnAround
