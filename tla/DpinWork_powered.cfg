CONSTANTS
  Dpin <- One
  NoDpin = NoDpin
  AltMode = AltMode
  MaxTries = 2
  MaxTunnels = 2
SPECIFICATION Spec
PROPERTIES NoHandshakeOnDisabled
