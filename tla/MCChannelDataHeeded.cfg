SPECIFICATION FairSpec
CONSTANTS
  Senders = {sl, app}
  SendLoop = sl
  HeartBeat = sl
  PeerRecv = sl
  App = app
  Receiver = r
  Monitor = m
  Stopper = t
  None = none
  MaxCalls = 1
CHECK_DEADLOCK FALSE
PROPERTY DisconnectHeeded
