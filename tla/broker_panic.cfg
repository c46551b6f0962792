CONSTANTS
  p1 = p1
  p2 = p2
  Peers = {p1}
  Rooms = {r1}
  Callers = {c1}
  Loop = Loop
  NoPeer = NoPeer
  NoRoom = NoRoom
  ChannelBuf = 1
  SendBuf = 1
  RoomAutoCleanup = TRUE
  CallerOps = {"sendTo"}
  HandlerOps = {"leave"}
  MaxReads = 0
  MaxCalls = 1
  MaxHandlerCalls = 1
SPECIFICATION Spec
CHECK_DEADLOCK FALSE
INVARIANTS
  SendNeverPanics
