CONSTANTS
  Dpin <- Both
  NoDpin = NoDpin
  AltMode = AltMode
  MaxTries = 2
  MaxTunnels = 2
SPECIFICATION FairSpec
INVARIANTS TypeOK HandshakeSafe CallbackLifetime TunnelOwned NothingForgotten Drained
PROPERTIES Lifecycle Released Resolved
