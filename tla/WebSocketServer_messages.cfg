SPECIFICATION Spec
CONSTANTS
  p1 = p1
  p2 = p2
  p3 = p3
  Peers = {p1, p2}
  None = None
  MaxFrames <- OneTalks
  Long = {}
  Endless = {}
  MaxUnread = 1
  MaxParts = 2
INVARIANTS
  MessageIntegrity
  RelayedInOrder
PROPERTIES
  BroadcastComplete
CHECK_DEADLOCK FALSE
