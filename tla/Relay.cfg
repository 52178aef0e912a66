SPECIFICATION FairSpec
CONSTANTS
  Senders = {s1, s2}
  Receivers = {r1, r2}
  Codes = {c1, c2}
  NoCode = NoCode
  None = None
INVARIANTS TypeOK CodeUsedOnce RightPeer HandoffHasRoom PendingIsLive SessionHasPeer
PROPERTIES SenderSettles
CHECK_DEADLOCK FALSE
