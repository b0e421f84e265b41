SPECIFICATION Spec
CONSTANTS
  Pods = {p1, p2}
  Addresses = {a1, a2, a3, a4}
  IdMax = 1
  Capacity = 1
  MaxClients = 2
  NoClient = NoClient
  NoChannel = NoChannel
  NoRequest = NoRequest
SYMMETRY MCSymmetry
INVARIANTS
  TypeOK
  GenuineOk
  
  EngineChannelsLive
CHECK_DEADLOCK FALSE
