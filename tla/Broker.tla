------------------------------- MODULE Broker -------------------------------
(***************************************************************************)
(* The message broker of broker/broker.go, peer.go and room.go: one run    *)
(* loop, a read loop and a write loop per connection, the callers of       *)
(* Accept, Stop and of the sending and room operations, and the three      *)
(* buffered channels and the locks between them.                           *)
(*                                                                         *)
(* A step is one channel operation, one section under a lock, or one call  *)
(* of a transport.  A call that takes several steps is a record in `call`, *)
(* kept by the goroutine that makes it: a caller outside the broker, or    *)
(* the run loop, whose handlers may call the broker back and which calls   *)
(* LeaveRoom itself.                                                       *)
(*                                                                         *)
(* Abstractions.  A message is the fact that it was sent, so a send        *)
(* channel is the number of messages in it and `receive` the sequence of   *)
(* their senders.  A write either passes at once or fails.  The handlers   *)
(* of events other than EventPeerConnected are not called; the broker is   *)
(* started once; peers have distinct ids, as have rooms (both are random). *)
(***************************************************************************)
EXTENDS Integers, Sequences, FiniteSets

CONSTANTS
  Peers,            \* the connections given to Accept
  Rooms,            \* the ids CreateRoom may draw
  Callers,          \* goroutines that use the broker from outside
  Loop,             \* the run loop, as a caller of LeaveRoom and of handlers
  NoPeer, NoRoom,
  ChannelBuf,       \* Options.ChannelBufSize
  SendBuf,          \* Options.SendBufSize
  RoomAutoCleanup,  \* Options.RoomAutoCleanup
  CallerOps,        \* operations the callers use ...
  HandlerOps,       \* ... and the handlers that run in the run loop
  MaxReads,         \* bound: messages each connection receives
  MaxCalls,         \* bound: calls of each caller
  MaxHandlerCalls   \* bound: calls of all handlers

Threads == Callers \cup {Loop}
Ops == {"send", "sendTo", "sendToRoom", "broadcast", "roomBroadcast", "join",
        "leave", "close"}
RoomOps == {"sendToRoom", "roomBroadcast", "join"}  \* those that name a room

ASSUME BrokerAssumption ==
  /\ Loop \notin Callers
  /\ NoPeer \notin Peers
  /\ NoRoom \notin Rooms
  /\ ChannelBuf \in Nat \ {0}
  /\ SendBuf \in Nat \ {0}
  /\ RoomAutoCleanup \in BOOLEAN
  /\ CallerOps \subseteq Ops
  /\ HandlerOps \subseteq Ops
  /\ MaxReads \in Nat
  /\ MaxCalls \in Nat
  /\ MaxHandlerCalls \in Nat

VARIABLES
  started,     \* Broker.started
  ctxDone,     \* the context of Start is cancelled
  stopper,     \* the call of Stop: "idle", "waiting", "returned"
  loop,        \* what the run loop does
  loopPeer,    \* the peer it does it with
  peers,       \* Broker.peers
  peersMu,     \* threads that hold peersMu for reading
  register, unregister, receive,  \* the channels
  accept,      \* the call of Accept for each connection
  conn,        \* each transport: "up", "broken" (reads fail), "closed"
  reader,      \* each read loop
  writer,      \* each write loop
  closed,      \* peer.closed, and the send channel is closed
  sendCh,      \* messages in each send channel
  room,        \* each room id: "unused", "open" (in Broker.rooms), "gone"
  members,     \* Room.peers
  roomOf,      \* peer.roomID
  call,        \* the call each thread is in
  calls,       \* bound: calls each thread made
  reads,       \* bound: messages each connection received
  crash,       \* operation that sent on a closed channel, which panics
  inserted,    \* history: peers the run loop put into the map
  disconnects  \* history: HandleDisconnect calls per peer

stopVars  == <<started, ctxDone, stopper>>
loopVars  == <<loop, loopPeer>>
mapVars   == <<peers, peersMu>>
chanVars  == <<register, unregister, receive>>
connVars  == <<conn, reader, writer, reads>>
sendVars  == <<closed, sendCh>>
roomVars  == <<room, members, roomOf>>
callVars  == <<call, calls>>
histVars  == <<inserted, disconnects>>
\* what most steps of one part leave alone in the others
server    == <<stopVars, mapVars, histVars>>
clients   == <<roomVars, callVars, crash>>
links     == <<accept, connVars>>
vars == <<stopVars, loopVars, mapVars, chanVars, accept, connVars, sendVars,
          roomVars, callVars, crash, histVars>>

NoCall == [op |-> "none", step |-> "none", peer |-> NoPeer, room |-> NoRoom,
           todo |-> {}]

Init ==
  /\ started = FALSE /\ ctxDone = FALSE /\ stopper = "idle"
  /\ loop = "off" /\ loopPeer = NoPeer
  /\ peers = {} /\ peersMu = {}
  /\ register = <<>> /\ unregister = <<>> /\ receive = <<>>
  /\ accept = [p \in Peers |-> "new"]
  /\ conn = [p \in Peers |-> "up"]
  /\ reader = [p \in Peers |-> "off"]
  /\ writer = [p \in Peers |-> "off"]
  /\ closed = [p \in Peers |-> FALSE]
  /\ sendCh = [p \in Peers |-> 0]
  /\ room = [r \in Rooms |-> "unused"]
  /\ members = [r \in Rooms |-> {}]
  /\ roomOf = [p \in Peers |-> NoRoom]
  /\ call = [c \in Threads |-> NoCall]
  /\ calls = [c \in Threads |-> 0]
  /\ reads = [p \in Peers |-> 0]
  /\ crash = "none"
  /\ inserted = {}
  /\ disconnects = [p \in Peers |-> 0]

\* A panic ends the process.
Alive == crash = "none"

HasRoomFor(channel) == Len(channel) < ChannelBuf

-----------------------------------------------------------------------------
(* Start, Stop, and the end of the context given to Start.                 *)

Start ==
  /\ Alive
  /\ loop = "off"
  /\ started' = TRUE
  /\ loop' = "select"
  /\ UNCHANGED <<ctxDone, stopper, loopPeer, mapVars, chanVars, links,
                 sendVars, clients, histVars>>

ParentCancelled ==
  /\ Alive
  /\ loop # "off"
  /\ ~ctxDone
  /\ ctxDone' = TRUE
  /\ UNCHANGED <<started, stopper, loopVars, mapVars, chanVars, links,
                 sendVars, clients, histVars>>

StopCancel ==
  /\ Alive
  /\ started
  /\ stopper = "idle"
  /\ stopper' = "waiting"
  /\ ctxDone' = TRUE
  /\ UNCHANGED <<started, loopVars, mapVars, chanVars, links, sendVars,
                 clients, histVars>>

\* wg.Wait has seen the run loop and every loop Accept has added end.
StopReturn ==
  /\ Alive
  /\ stopper = "waiting"
  /\ loop = "exited"
  /\ \A p \in Peers : {reader[p], writer[p]} \subseteq {"off", "done"}
  /\ stopper' = "returned"
  /\ started' = FALSE
  /\ UNCHANGED <<ctxDone, loopVars, mapVars, chanVars, links, sendVars,
                 clients, histVars>>

-----------------------------------------------------------------------------
(* Accept.                                                                 *)

AcceptCheck(p) ==
  /\ Alive
  /\ accept[p] = "new"
  /\ accept' = [accept EXCEPT ![p] = IF started THEN "registering" ELSE "refused"]
  /\ UNCHANGED <<server, loopVars, chanVars, connVars, sendVars, clients>>

AcceptRegister(p) ==
  /\ Alive
  /\ accept[p] = "registering"
  /\ \/ /\ HasRoomFor(register)
        /\ register' = Append(register, p)
        /\ accept' = [accept EXCEPT ![p] = "launching"]
     \/ /\ ctxDone
        /\ accept' = [accept EXCEPT ![p] = "refused"]
        /\ UNCHANGED register
  /\ UNCHANGED <<server, loopVars, unregister, receive, connVars, sendVars,
                 clients>>

AcceptLaunch(p) ==
  /\ Alive
  /\ accept[p] = "launching"
  /\ accept' = [accept EXCEPT ![p] = "accepted"]
  /\ reader' = [reader EXCEPT ![p] = "top"]
  /\ writer' = [writer EXCEPT ![p] = "waiting"]
  /\ UNCHANGED <<server, loopVars, chanVars, conn, reads, sendVars, clients>>

-----------------------------------------------------------------------------
(* Connections and their two loops.                                        *)

\* The remote end closes, or sends what the transport cannot read.
RemoteBreaks(p) ==
  /\ Alive
  /\ accept[p] \notin {"new", "refused"}
  /\ conn[p] = "up"
  /\ conn' = [conn EXCEPT ![p] = "broken"]
  /\ UNCHANGED <<server, loopVars, chanVars, accept, reader, writer, reads,
                 sendVars, clients>>

ReaderGoes(p, from, to) ==
  /\ Alive
  /\ reader[p] = from
  /\ reader' = [reader EXCEPT ![p] = to]
  /\ UNCHANGED <<server, loopVars, accept, conn, writer, sendVars, clients>>

\* A message that is too large or cannot be decoded is skipped.
ReadMessage(p) ==
  \/ /\ ReaderGoes(p, "top", IF ctxDone THEN "exit" ELSE "read")
     /\ UNCHANGED <<chanVars, reads>>
  \/ /\ conn[p] = "up"
     /\ reads[p] < MaxReads
     /\ \E next \in {"deliver", "top"} : ReaderGoes(p, "read", next)
     /\ reads' = [reads EXCEPT ![p] = @ + 1]
     /\ UNCHANGED chanVars
  \/ /\ conn[p] # "up"
     /\ ReaderGoes(p, "read", "exit")
     /\ UNCHANGED <<chanVars, reads>>

Deliver(p) ==
  \/ /\ ctxDone
     /\ ReaderGoes(p, "deliver", "exit")
     /\ UNCHANGED <<chanVars, reads>>
  \/ /\ HasRoomFor(receive)
     /\ receive' = Append(receive, p)
     /\ ReaderGoes(p, "deliver", "top")
     /\ UNCHANGED <<register, unregister, reads>>

\* The deferred function of readLoop: once past its look at the context it
\* waits for room in `unregister`, whatever happens to the run loop.
BugNotUnregistered(p) ==
  /\ ReaderGoes(p, "exit", "done")
  /\ UNCHANGED <<chanVars, reads>>

ReaderExit(p) ==
  \/ /\ ReaderGoes(p, "exit", IF ctxDone THEN "done" ELSE "unregister")
     /\ UNCHANGED <<chanVars, reads>>
  \/ /\ HasRoomFor(unregister)
     /\ unregister' = Append(unregister, p)
     /\ ReaderGoes(p, "unregister", "done")
     /\ UNCHANGED <<register, receive, reads>>

WriterStops(p) ==
  /\ Alive
  /\ writer[p] = "waiting"
  /\ ctxDone \/ (closed[p] /\ sendCh[p] = 0)
  /\ writer' = [writer EXCEPT ![p] = "done"]
  /\ UNCHANGED <<server, loopVars, chanVars, accept, conn, reader, reads,
                 sendVars, clients>>

BugWriterUnregisters(p) ==
  /\ Alive
  /\ writer[p] = "waiting"
  /\ sendCh[p] > 0
  /\ sendCh' = [sendCh EXCEPT ![p] = @ - 1]
  /\ \/ conn[p] # "closed" /\ UNCHANGED <<writer, unregister>>
     \/ /\ HasRoomFor(unregister)
        /\ unregister' = Append(unregister, p)
        /\ writer' = [writer EXCEPT ![p] = "done"]
  /\ UNCHANGED <<server, loopVars, register, receive, accept, conn, reader,
                 reads, closed, clients>>

\* Any error of a write ends the write loop, and only that: the transport may
\* go on reading, as when the write met its deadline.
Write(p) ==
  /\ Alive
  /\ writer[p] = "waiting"
  /\ sendCh[p] > 0
  /\ sendCh' = [sendCh EXCEPT ![p] = @ - 1]
  /\ \/ conn[p] # "closed" /\ UNCHANGED writer
     \/ writer' = [writer EXCEPT ![p] = "done"]
  /\ UNCHANGED <<server, loopVars, chanVars, accept, conn, reader, reads,
                 closed, clients>>

-----------------------------------------------------------------------------
(* The run loop.                                                           *)

\* Go chooses at random among the channels that are ready and the context.
LoopSelect ==
  /\ Alive
  /\ loop = "select"
  /\ \/ /\ ctxDone
        /\ loop' = "cleanup"
        /\ UNCHANGED <<loopPeer, chanVars, callVars>>
     \/ /\ register # <<>>
        /\ loop' = "insert"
        /\ loopPeer' = Head(register)
        /\ register' = Tail(register)
        /\ UNCHANGED <<unregister, receive, callVars>>
     \/ /\ unregister # <<>>
        /\ loop' = "leave"
        /\ loopPeer' = Head(unregister)
        /\ unregister' = Tail(unregister)
        /\ call' = [call EXCEPT ![Loop] =
                      [NoCall EXCEPT !.op = "leave", !.step = "read",
                                     !.peer = Head(unregister)]]
        /\ UNCHANGED <<register, receive, calls>>
     \/ /\ receive # <<>>
        /\ loop' = "message"
        /\ loopPeer' = Head(receive)
        /\ receive' = Tail(receive)
        /\ UNCHANGED <<register, unregister, callVars>>
  /\ UNCHANGED <<server, links, sendVars, roomVars, crash>>

LoopGoes(from, to) ==
  /\ Alive
  /\ loop = from
  /\ loop' = to
  /\ UNCHANGED <<stopVars, loopPeer, peersMu, chanVars, accept, reader, writer,
                 reads, sendCh, clients>>

LoopInsert ==
  /\ LoopGoes("insert", "connected")
  /\ peersMu = {}
  /\ peers' = peers \cup {loopPeer}
  /\ inserted' = inserted \cup {loopPeer}
  /\ UNCHANGED <<conn, closed, disconnects>>

\* LeaveRoom is done: HandleDisconnect is called.
LoopDisconnect ==
  /\ LoopGoes("leave", "disconnect")
  /\ call[Loop] = NoCall
  /\ disconnects' = [disconnects EXCEPT ![loopPeer] = @ + 1]
  /\ UNCHANGED <<conn, closed, peers, inserted>>

\* The handler in the run loop has made its calls and returns.
HandlerReturns ==
  /\ \/ LoopGoes("connected", "select")
     \/ LoopGoes("message", "select")
     \/ LoopGoes("disconnect", "delete")
  /\ call[Loop] = NoCall
  /\ UNCHANGED <<conn, closed, peers, histVars>>

BugDeletesUnlocked ==
  /\ LoopGoes("delete", "shutdown")
  /\ peers' = peers \ {loopPeer}
  /\ UNCHANGED <<conn, closed, histVars>>

LoopDelete ==
  /\ LoopGoes("delete", "shutdown")
  /\ peersMu = {}
  /\ peers' = peers \ {loopPeer}
  /\ UNCHANGED <<conn, closed, histVars>>

LoopShutdown ==
  /\ LoopGoes("shutdown", "select")
  /\ closed' = [closed EXCEPT ![loopPeer] = TRUE]
  /\ UNCHANGED <<conn, peers, histVars>>

\* What cleanup does to the peers in the map.
BugNotShutDown ==
  /\ conn' = [p \in Peers |-> IF p \in peers THEN "closed" ELSE conn[p]]
  /\ UNCHANGED closed

CloseAll ==
  /\ conn' = [p \in Peers |-> IF p \in peers THEN "closed" ELSE conn[p]]
  /\ closed' = [p \in Peers |-> closed[p] \/ p \in peers]

LoopCleanup ==
  /\ LoopGoes("cleanup", "exited")
  /\ peersMu = {}
  /\ CloseAll
  /\ peers' = {}
  /\ UNCHANGED histVars

-----------------------------------------------------------------------------
(* Calls.                                                                  *)

CreateRoom(r) ==
  /\ Alive
  /\ room[r] = "unused"
  /\ room' = [room EXCEPT ![r] = "open"]
  /\ UNCHANGED <<server, loopVars, chanVars, links, sendVars, members,
                 roomOf, callVars, crash>>

FirstStep(op) ==
  CASE op \in {"send"}               -> "check"
    [] op \in {"sendTo", "join", "sendToRoom"} -> "find"
    [] op \in {"broadcast", "roomBroadcast"} -> "lock"
    [] op = "leave"                  -> "read"
    [] op = "close"                  -> "close"

\* A peer can be named once Accept returned it or a handler was given it.
Begin(c, ops, known) ==
  /\ Alive
  /\ call[c] = NoCall
  /\ calls[c] < IF c = Loop THEN MaxHandlerCalls ELSE MaxCalls
  /\ calls' = [calls EXCEPT ![c] = @ + 1]
  /\ \E op \in ops, p \in known, r \in Rooms \cup {NoRoom} :
       /\ r \in Rooms <=> op \in RoomOps
       /\ op = "roomBroadcast" => room[r] # "unused"
       /\ call' = [call EXCEPT ![c] =
                    [op |-> op, step |-> FirstStep(op), peer |-> p, room |-> r,
                     todo |-> IF op = "send" THEN {p} ELSE {}]]
  /\ UNCHANGED <<server, loopVars, chanVars, links, sendVars, roomVars, crash>>

CallerBegins(c) ==
  Begin(c, CallerOps, {p \in Peers : accept[p] = "accepted"})

HandlerCalls ==
  /\ loop \in {"connected", "message", "disconnect"}
  /\ Begin(Loop, HandlerOps, {loopPeer})

AtStep(c, ops, step) == call[c].op \in ops /\ call[c].step = step

Continue(c, step, peer, at, todo) ==
  call' = [call EXCEPT ![c] = [op |-> call[c].op, step |-> step, peer |-> peer,
                               room |-> at, todo |-> todo]]
GoOn(c, step)    == Continue(c, step, call[c].peer, call[c].room, call[c].todo)
SendAll(c, todo) == Continue(c, "check", call[c].peer, call[c].room, todo)
Return(c)        == call' = [call EXCEPT ![c] = NoCall]

outside == <<stopVars, loopVars, chanVars, accept, connVars, calls, histVars>>

\* SendTo looks the peer up, SendToRoom the room and then its members;
\* Broadcast holds the read lock of the map until it is done, and
\* Room.Broadcast that of the room, which the call itself tells.
RoomIsLocked(r) ==
  \E c \in Threads :
    call[c].op = "roomBroadcast" /\ call[c].step # "lock" /\ call[c].room = r

SendBegins(c) ==
  /\ Alive
  /\ \/ /\ AtStep(c, {"sendTo"}, "find")
        /\ IF call[c].peer \in peers
           THEN SendAll(c, {call[c].peer})
           ELSE Return(c)
        /\ UNCHANGED peersMu
     \/ /\ AtStep(c, {"sendToRoom"}, "find")
        /\ IF room[call[c].room] = "open" THEN GoOn(c, "members") ELSE Return(c)
        /\ UNCHANGED peersMu
     \/ /\ AtStep(c, {"sendToRoom"}, "members")
        /\ \E exclude \in Peers \cup {NoPeer} :
             SendAll(c, members[call[c].room] \ {exclude})
        /\ UNCHANGED peersMu
     \/ /\ AtStep(c, {"broadcast"}, "lock")
        /\ peersMu' = peersMu \cup {c}
        /\ SendAll(c, peers)
     \/ /\ AtStep(c, {"roomBroadcast"}, "lock")
        /\ SendAll(c, members[call[c].room])
        /\ UNCHANGED peersMu
  /\ UNCHANGED <<outside, peers, sendVars, roomVars, crash>>

\* peer.Send, for each peer in turn: look at `closed` under the lock ...
SendCheck(c) ==
  /\ Alive
  /\ call[c].step = "check"
  /\ \E p \in call[c].todo :
       IF closed[p]
       THEN SendAll(c, call[c].todo \ {p})
       ELSE Continue(c, "push", p, call[c].room, call[c].todo)
  /\ UNCHANGED <<outside, mapVars, sendVars, roomVars, crash>>

\* ... and send after it, or give up when the buffer is full.
SendPush(c) ==
  /\ Alive
  /\ call[c].step = "push"
  /\ LET p == call[c].peer IN
       /\ IF closed[p]
          THEN crash' = call[c].op /\ UNCHANGED sendCh
          ELSE /\ sendCh' = [sendCh EXCEPT ![p] =
                               IF @ < SendBuf THEN @ + 1 ELSE @]
               /\ UNCHANGED crash
       /\ SendAll(c, call[c].todo \ {p})
  /\ UNCHANGED <<outside, mapVars, closed, roomVars>>

BugKeepsLock(c) ==
  /\ Alive
  /\ call[c].step = "check"
  /\ call[c].todo = {}
  /\ Return(c)
  /\ UNCHANGED <<outside, mapVars, sendVars, roomVars, crash>>

SendReturns(c) ==
  /\ Alive
  /\ call[c].step = "check"
  /\ call[c].todo = {}
  /\ peersMu' = peersMu \ {c}
  /\ Return(c)
  /\ UNCHANGED <<outside, peers, sendVars, roomVars, crash>>

\* Peer.Close
Close(c) ==
  /\ Alive
  /\ AtStep(c, {"close"}, "close")
  /\ conn' = [conn EXCEPT ![call[c].peer] = "closed"]
  /\ Return(c)
  /\ UNCHANGED <<server, loopVars, chanVars, accept, reader, writer, reads,
                 calls, sendVars, roomVars, crash>>

JoinRoom(c) ==
  LET p == call[c].peer
      r == call[c].room
  IN /\ Alive
     /\ \/ /\ AtStep(c, {"join"}, "find")
           /\ IF room[r] = "open" THEN GoOn(c, "set") ELSE Return(c)
           /\ UNCHANGED <<members, roomOf>>
        \/ /\ AtStep(c, {"join"}, "set")
           /\ roomOf' = [roomOf EXCEPT ![p] = r]
           /\ GoOn(c, "add")
           /\ UNCHANGED members
        \/ /\ AtStep(c, {"join"}, "add")
           /\ ~RoomIsLocked(r)
           /\ members' = [members EXCEPT ![r] = @ \cup {p}]
           /\ Return(c)
           /\ UNCHANGED roomOf
     /\ UNCHANGED <<outside, mapVars, sendVars, room, crash>>

LeaveFind(c) ==
  LET p == call[c].peer
  IN /\ Alive
     /\ \/ /\ AtStep(c, {"leave"}, "read")
           /\ IF roomOf[p] = NoRoom
              THEN Return(c)
              ELSE Continue(c, "find", p, roomOf[p], {})
        \/ /\ AtStep(c, {"leave"}, "find")
           /\ IF room[call[c].room] = "open" THEN GoOn(c, "remove") ELSE Return(c)
     /\ UNCHANGED <<outside, mapVars, sendVars, roomVars, crash>>

BugClearsFirst(c) ==
  LET p == call[c].peer
      r == call[c].room
  IN /\ Alive
     /\ \/ /\ AtStep(c, {"leave"}, "remove")
           /\ roomOf' = [roomOf EXCEPT ![p] = NoRoom]
           /\ GoOn(c, "clear")
           /\ UNCHANGED members
        \/ /\ AtStep(c, {"leave"}, "clear")
           /\ ~RoomIsLocked(r)
           /\ members' = [members EXCEPT ![r] = @ \ {p}]
           /\ GoOn(c, "size")
           /\ UNCHANGED roomOf
     /\ UNCHANGED <<outside, mapVars, sendVars, room, crash>>

LeaveMember(c) ==
  LET p == call[c].peer
      r == call[c].room
  IN /\ Alive
     /\ \/ /\ AtStep(c, {"leave"}, "remove")
           /\ ~RoomIsLocked(r)
           /\ members' = [members EXCEPT ![r] = @ \ {p}]
           /\ GoOn(c, "clear")
           /\ UNCHANGED roomOf
        \/ /\ AtStep(c, {"leave"}, "clear")
           /\ roomOf' = [roomOf EXCEPT ![p] = NoRoom]
           /\ GoOn(c, "size")
           /\ UNCHANGED members
     /\ UNCHANGED <<outside, mapVars, sendVars, room, crash>>

LeaveCleanup(c) ==
  LET r == call[c].room
  IN /\ Alive
     /\ \/ /\ AtStep(c, {"leave"}, "size")
           /\ IF RoomAutoCleanup /\ members[r] = {}
              THEN GoOn(c, "drop")
              ELSE Return(c)
           /\ UNCHANGED room
        \/ /\ AtStep(c, {"leave"}, "drop")
           /\ room' = [room EXCEPT ![r] = "gone"]
           /\ Return(c)
     /\ UNCHANGED <<outside, mapVars, sendVars, members, roomOf, crash>>

LeaveRoom(c) == LeaveFind(c) \/ LeaveMember(c) \/ LeaveCleanup(c)

Call(c) ==
  \/ SendBegins(c) \/ SendCheck(c) \/ SendPush(c) \/ SendReturns(c)
  \/ Close(c) \/ JoinRoom(c) \/ LeaveRoom(c)

-----------------------------------------------------------------------------
RunLoop ==
  \/ LoopSelect \/ LoopInsert \/ LoopDisconnect \/ LoopDelete \/ LoopShutdown
  \/ LoopCleanup \/ HandlerReturns \/ Call(Loop)

Reader(p) == ReadMessage(p) \/ Deliver(p) \/ ReaderExit(p)
Writer(p) == WriterStops(p) \/ Write(p)
Accept(p) == AcceptRegister(p) \/ AcceptLaunch(p)

Next ==
  \/ Start \/ ParentCancelled \/ StopCancel \/ StopReturn
  \/ \E p \in Peers : AcceptCheck(p) \/ Accept(p)
  \/ \E p \in Peers : RemoteBreaks(p) \/ Reader(p) \/ Writer(p)
  \/ RunLoop \/ HandlerCalls
  \/ \E r \in Rooms : CreateRoom(r)
  \/ \E c \in Callers : CallerBegins(c) \/ Call(c)

Spec == Init /\ [][Next]_vars

\* The scheduler runs every goroutine that can go on, and Go's select does
\* not pass over a channel that stays ready: handlers return.
FairSpec ==
  /\ Spec
  /\ WF_vars(RunLoop)
  /\ \A p \in Peers : WF_vars(Reader(p)) /\ WF_vars(Writer(p)) /\ WF_vars(Accept(p))
  /\ \A c \in Callers : WF_vars(Call(c))
  /\ WF_vars(StopReturn)
=============================================================================
