SPECIFICATION Spec
CONSTANTS
  Senders = {s1}
  Receivers = {r1}
  Codes = {c1}
  NoCode = NoCode
  None = None
INVARIANTS ReceiverServed
CHECK_DEADLOCK FALSE
