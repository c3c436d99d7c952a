\* The front end of pktc on short texts, atoms, rules and strings.
SPECIFICATION Spec
CONSTANTS
  Texts <- AllTexts
  ConfigureForm <- Configure
  PeerKey <- Peer
INVARIANTS
  DiagnosisExact
  TreeIsText
  BuildExact
  SpineIsText
  KeyLookupIsOneArgument
PROPERTY
  Terminates
