\* Any descriptions, two offers, lost packets.
CONSTANTS
  Fingerprints = {"none", "good", "wrong", "unknown"}
  MaxOffers = 2
  MaxLosses = 1
  MaxNet = 1
SPECIFICATION FairSpec
INVARIANTS
  AgreeOnDtls
  NeverInClear
  WritableMeansOpen
PROPERTIES
  HandshakeCompletes
CHECK_DEADLOCK FALSE
