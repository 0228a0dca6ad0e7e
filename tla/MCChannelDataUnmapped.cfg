SPECIFICATION Spec
CONSTANTS
  Senders = {sl, hb, app}
  SendLoop = sl
  HeartBeat = hb
  PeerRecv = hb
  App = app
  Receiver = r
  Monitor = m
  Stopper = t
  None = none
  MaxCalls = 1
CHECK_DEADLOCK FALSE
INVARIANT MappedWhileUsed
