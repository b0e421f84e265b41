SPECIFICATION PollingSpec
CONSTANTS
  p1 = p1
  p2 = p2
  NoMsg = NoMsg
  NoPeer = NoPeer
  Peers <- TwoPeers
  WireIds <- TwoIds
  MaxQueued = 1
  Faults = {}
CHECK_DEADLOCK FALSE
PROPERTY NewClientsAdded
