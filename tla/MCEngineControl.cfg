SPECIFICATION FairSpec
CONSTANTS
  p1 = p1
  p2 = p2
  NoMsg = NoMsg
  NoPeer = NoPeer
  Peers <- TwoPeers
  WireIds <- AliasingIds
  MaxQueued = 1
  Faults <- AllFaults
CHECK_DEADLOCK FALSE
INVARIANTS
  TypeOK
  RingsExact
  MapsAgree
  NoReplacement
  OneReady
PROPERTIES
  NoLostMessage
  AnswerAfterRings
  DeafForever
  CallReturns
