SPECIFICATION FairSpec
CONSTANTS
  MaxMessages <- MCMessages
  Room = 2
  Receivers = {r1, x1}
  Strays = {x1}
  None = None
  Capacity = 1
  MaxFaults = 1
INVARIANTS TypeOK InStep AnnouncedOnce
PROPERTIES PeerServed SessionCollapses
CHECK_DEADLOCK FALSE
