CONSTANTS
  p1 = p1
  p2 = p2
  Peers = {p1}
  Rooms = {r1}
  Callers = {c1}
  Loop = Loop
  NoPeer = NoPeer
  NoRoom = NoRoom
  ChannelBuf = 1
  SendBuf = 1
  RoomAutoCleanup = TRUE
  CallerOps = {"send", "sendTo", "sendToRoom", "broadcast", "roomBroadcast", "join", "leave", "close"}
  HandlerOps = {"join", "leave", "sendToRoom"}
  MaxReads = 1
  MaxCalls = 2
  MaxHandlerCalls = 1
SPECIFICATION Spec
CHECK_DEADLOCK FALSE
INVARIANTS
  TypeOK
  BroadcastIsSafe
  RoomIdMeansMember
