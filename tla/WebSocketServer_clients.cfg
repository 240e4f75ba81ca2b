SPECIFICATION FairSpec
CONSTANTS
  p1 = p1
  p2 = p2
  p3 = p3
  Peers = {p1, p2, p3}
  None = None
  MaxFrames <- OneWord
  Long = {p2}
  Endless = {p1}
  MaxUnread = 1
  MaxParts = 2
INVARIANTS
  TypeOK
  SlotsFit
  OpenIsWatched
PROPERTIES
  DropsOnlyTheGone
  ScanEnds
CHECK_DEADLOCK FALSE
