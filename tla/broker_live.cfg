CONSTANTS
  p1 = p1
  p2 = p2
  Peers <- MCPeers
  Rooms = {}
  Callers = {}
  Loop = Loop
  NoPeer = NoPeer
  NoRoom = NoRoom
  ChannelBuf = 1
  SendBuf = 1
  RoomAutoCleanup = TRUE
  CallerOps = {}
  HandlerOps = {"broadcast", "close"}
  MaxReads = 0
  MaxCalls = 0
  MaxHandlerCalls = 1
SPECIFICATION FairSpec
CHECK_DEADLOCK FALSE
INVARIANTS
  LivePeerStays
  OneDisconnect
  StopLeavesNothing
PROPERTIES
  DisconnectIsHandled
