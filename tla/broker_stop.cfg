CONSTANTS
  p1 = p1
  p2 = p2
  Peers <- MCPeers
  Rooms = {r1}
  Callers = {c1}
  Loop = Loop
  NoPeer = NoPeer
  NoRoom = NoRoom
  ChannelBuf = 1
  SendBuf = 1
  RoomAutoCleanup = TRUE
  CallerOps = {"broadcast"}
  HandlerOps = {"leave"}
  MaxReads = 0
  MaxCalls = 0
  MaxHandlerCalls = 0
SPECIFICATION FairSpec
CHECK_DEADLOCK FALSE
PROPERTIES
  StopEnds
