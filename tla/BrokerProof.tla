----------------------------- MODULE BrokerProof ----------------------------
(* Proofs about the broker, for any connections, rooms, callers, buffer    *)
(* sizes and operations.                                                   *)
EXTENDS BrokerProperties, TLAPS, SequenceTheorems

-----------------------------------------------------------------------------
(* Channels: what the run loop takes out of one is a peer, and a send that *)
(* found room keeps the capacity.                                          *)
LEMMA ChannelSteps ==
  ASSUME NEW ch \in Channel
  PROVE  /\ ch # <<>> => Head(ch) \in Peers /\ Tail(ch) \in Channel
         /\ \A p \in Peers : HasRoomFor(ch) => Append(ch, p) \in Channel
<1>1. ch \in Seq(Peers) /\ Len(ch) <= ChannelBuf
  BY DEF Channel
<1>2. ASSUME ch # <<>> PROVE Head(ch) \in Peers /\ Tail(ch) \in Channel
  <2>1. Head(ch) \in Peers /\ Tail(ch) \in Seq(Peers) /\ Len(Tail(ch)) = Len(ch) - 1
    BY <1>1, <1>2, HeadTailProperties
  <2>2. Len(Tail(ch)) <= ChannelBuf
    BY <1>1, <2>1, BrokerAssumption, LenProperties
  <2> QED
    BY <2>1, <2>2 DEF Channel
<1>3. ASSUME NEW p \in Peers, HasRoomFor(ch) PROVE Append(ch, p) \in Channel
  <2>1. Append(ch, p) \in Seq(Peers) /\ Len(Append(ch, p)) = Len(ch) + 1
    BY <1>1, AppendProperties
  <2>2. Len(ch) \in Nat /\ Len(ch) < ChannelBuf
    BY <1>1, <1>3, LenProperties DEF HasRoomFor
  <2> QED
    BY <2>1, <2>2, BrokerAssumption DEF Channel
<1> QED
  BY <1>2, <1>3

(* The broker starts well typed.                                           *)
LEMMA InitType == Init => TypeOK
<1> SUFFICES ASSUME Init PROVE TypeOK
  OBVIOUS
<1>1. ControlType
  BY DEF Init, ControlType
<1>2. ChannelType
  <2>1. <<>> \in Seq(Peers) /\ Len(<<>>) = 0
    BY EmptySeq
  <2>2. <<>> \in Channel
    BY <2>1, BrokerAssumption DEF Channel
  <2> QED
    BY <2>2 DEF Init, ChannelType
<1>3. LinkType
  BY BrokerAssumption DEF Init, LinkType
<1>4. RoomType
  BY DEF Init, RoomType
<1>5. CallsType
  <2>1. NoCall \in CallType
    BY DEF NoCall, CallType
  <2>2. \A c \in Threads : call[c] = NoCall
    BY DEF Init
  <2>3. call \in [Threads -> CallType]
    BY <2>1 DEF Init
  <2>4. NoCall.op = "none"
    BY DEF NoCall
  <2> QED
    BY <2>2, <2>3, <2>4 DEF Init, CallsType
<1>6. HistoryType
  BY DEF Init, HistoryType
<1> QED
  BY <1>1, <1>2, <1>3, <1>4, <1>5, <1>6 DEF TypeOK

-----------------------------------------------------------------------------
(* A part of the state that a step leaves alone keeps its type.            *)
LEMMA Frames ==
  ASSUME TypeOK
  PROVE  /\ UNCHANGED <<stopVars, loopVars, peers>> => ControlType'
         /\ UNCHANGED chanVars => ChannelType'
         /\ UNCHANGED <<links, sendVars>> => LinkType'
         /\ UNCHANGED roomVars => RoomType'
         /\ UNCHANGED <<callVars, crash, peersMu>> => CallsType'
         /\ UNCHANGED histVars => HistoryType'
<1> USE DEF stopVars, loopVars, chanVars, links, connVars, sendVars, roomVars,
            callVars, histVars
<1>1. UNCHANGED <<stopVars, loopVars, peers>> => ControlType'
  BY DEF TypeOK, ControlType
<1>2. UNCHANGED chanVars => ChannelType'
  BY DEF TypeOK, ChannelType
<1>3. UNCHANGED <<links, sendVars>> => LinkType'
  BY DEF TypeOK, LinkType
<1>4. UNCHANGED roomVars => RoomType'
  BY DEF TypeOK, RoomType
<1>5. UNCHANGED <<callVars, crash, peersMu>> => CallsType'
  BY DEF TypeOK, CallsType
<1>6. UNCHANGED histVars => HistoryType'
  BY DEF TypeOK, HistoryType
<1> QED
  BY <1>1, <1>2, <1>3, <1>4, <1>5, <1>6

\* A call record that keeps the rules of CallsType.
GoodCall(x) ==
  /\ x \in CallType
  /\ x # NoCall => x.peer \in Peers
  /\ x.op \in {"sendToRoom", "roomBroadcast"} => x.room \in Rooms

HasLock(x) == x.op = "broadcast" /\ x.step # "lock"

(* A step of one thread's call keeps the types of calls if the new record  *)
(* does and the thread holds the lock of the map just when it should.      *)
LEMMA CallStep ==
  ASSUME TypeOK, NEW c \in Threads, NEW x,
         call' = [call EXCEPT ![c] = x], GoodCall(x),
         calls' \in [Threads -> Nat], crash' \in Ops \cup {"none"},
         peersMu' = IF HasLock(x) THEN peersMu \cup {c} ELSE peersMu \ {c}
  PROVE  CallsType'
<1>1. /\ call \in [Threads -> CallType]
      /\ \A d \in Threads : GoodCall(call[d])
      /\ peersMu = {d \in Threads : HasLock(call[d])}
  BY DEF TypeOK, CallsType, GoodCall, HasLock
<1>2. call' \in [Threads -> CallType]
  BY <1>1 DEF GoodCall
<1>3. \A d \in Threads : call'[d] = IF d = c THEN x ELSE call[d]
  BY <1>1
<1>4. \A d \in Threads : GoodCall(call'[d])
  BY <1>1, <1>3
<1>5. peersMu' = {d \in Threads : HasLock(call'[d])}
  BY <1>1, <1>3
<1> QED
  BY <1>2, <1>4, <1>5 DEF CallsType, GoodCall, HasLock

-----------------------------------------------------------------------------
(* The steps of the goroutines between calls.                              *)
LEMMA ServerType ==
  ASSUME TypeOK,
         \/ Start \/ ParentCancelled \/ StopCancel \/ StopReturn
         \/ LoopInsert \/ LoopDisconnect \/ HandlerReturns \/ LoopDelete
         \/ LoopShutdown \/ LoopCleanup
         \/ \E r \in Rooms : CreateRoom(r)
  PROVE  TypeOK'
<1> USE DEF server, clients, links, stopVars, loopVars, mapVars, chanVars,
            connVars, sendVars, roomVars, callVars, histVars
<1>1. ASSUME Start \/ ParentCancelled \/ StopCancel \/ StopReturn PROVE TypeOK'
  <2>1. ControlType'
    BY <1>1 DEF Start, ParentCancelled, StopCancel, StopReturn, TypeOK, ControlType
  <2> QED
    BY <1>1, <2>1, Frames DEF Start, ParentCancelled, StopCancel, StopReturn, TypeOK
<1>2. ASSUME LoopInsert PROVE TypeOK'
  <2>1. ControlType' /\ HistoryType'
    BY <1>2 DEF LoopInsert, LoopGoes, TypeOK, ControlType, HistoryType
  <2> QED
    BY <1>2, <2>1, Frames DEF LoopInsert, LoopGoes, TypeOK
<1>3. ASSUME LoopDisconnect PROVE TypeOK'
  <2>1. ControlType' /\ HistoryType'
    BY <1>3 DEF LoopDisconnect, LoopGoes, TypeOK, ControlType, HistoryType
  <2> QED
    BY <1>3, <2>1, Frames DEF LoopDisconnect, LoopGoes, TypeOK
<1>4. ASSUME HandlerReturns PROVE TypeOK'
  <2>1. ControlType'
    BY <1>4 DEF HandlerReturns, LoopGoes, TypeOK, ControlType
  <2> QED
    BY <1>4, <2>1, Frames DEF HandlerReturns, LoopGoes, TypeOK
<1>5. ASSUME LoopDelete PROVE TypeOK'
  <2>1. ControlType'
    BY <1>5 DEF LoopDelete, LoopGoes, TypeOK, ControlType
  <2> QED
    BY <1>5, <2>1, Frames DEF LoopDelete, LoopGoes, TypeOK
<1>6. ASSUME LoopShutdown PROVE TypeOK'
  <2>1. ControlType' /\ LinkType'
    BY <1>6 DEF LoopShutdown, LoopGoes, TypeOK, ControlType, LinkType
  <2> QED
    BY <1>6, <2>1, Frames DEF LoopShutdown, LoopGoes, TypeOK
<1>7. ASSUME LoopCleanup PROVE TypeOK'
  <2>1. ControlType'
    BY <1>7 DEF LoopCleanup, LoopGoes, TypeOK, ControlType
  <2>2. LinkType'
    BY <1>7 DEF LoopCleanup, LoopGoes, CloseAll, TypeOK, LinkType
  <2> QED
    BY <1>7, <2>1, <2>2, Frames DEF LoopCleanup, LoopGoes, TypeOK
<1>8. ASSUME NEW r \in Rooms, CreateRoom(r) PROVE TypeOK'
  <2>1. RoomType'
    BY <1>8 DEF CreateRoom, TypeOK, RoomType
  <2> QED
    BY <1>8, <2>1, Frames DEF CreateRoom, TypeOK
<1> QED
  BY <1>1, <1>2, <1>3, <1>4, <1>5, <1>6, <1>7, <1>8

(* The steps of Accept and of the loops of a connection.                   *)
LEMMA PeerType ==
  ASSUME TypeOK, NEW p \in Peers,
         AcceptCheck(p) \/ Accept(p) \/ RemoteBreaks(p) \/ Reader(p) \/ Writer(p)
  PROVE  TypeOK'
<1> USE DEF server, clients, links, stopVars, loopVars, mapVars, chanVars,
            connVars, sendVars, roomVars, callVars, histVars
<1>1. ASSUME AcceptCheck(p) \/ AcceptLaunch(p) \/ RemoteBreaks(p) PROVE TypeOK'
  <2>1. LinkType'
    BY <1>1 DEF AcceptCheck, AcceptLaunch, RemoteBreaks, TypeOK, LinkType
  <2> QED
    BY <1>1, <2>1, Frames DEF AcceptCheck, AcceptLaunch, RemoteBreaks, TypeOK
<1>2. ASSUME AcceptRegister(p) PROVE TypeOK'
  <2>1. LinkType'
    BY <1>2 DEF AcceptRegister, TypeOK, LinkType
  <2>2. ChannelType'
    BY <1>2, ChannelSteps DEF AcceptRegister, TypeOK, ChannelType
  <2> QED
    BY <1>2, <2>1, <2>2, Frames DEF AcceptRegister, TypeOK
<1>3. ASSUME NEW from, NEW to, ReaderGoes(p, from, to),
             to \in {"top", "read", "deliver", "exit", "unregister", "done"},
             ChannelType', reads' \in [Peers -> Nat]
      PROVE  TypeOK'
  <2>1. LinkType'
    BY <1>3 DEF ReaderGoes, TypeOK, LinkType
  <2> QED
    BY <1>3, <2>1, Frames DEF ReaderGoes, TypeOK
<1>4. ASSUME ReadMessage(p) PROVE TypeOK'
  <2>1. ChannelType' /\ reads' \in [Peers -> Nat]
    BY <1>4, Frames DEF ReadMessage, TypeOK, LinkType
  <2> QED
    BY <1>3, <1>4, <2>1 DEF ReadMessage
<1>5. ASSUME Deliver(p) PROVE TypeOK'
  <2>1. ChannelType'
    BY <1>5, ChannelSteps DEF Deliver, TypeOK, ChannelType
  <2>2. reads' \in [Peers -> Nat]
    BY <1>5 DEF Deliver, TypeOK, LinkType
  <2> QED
    BY <1>3, <1>5, <2>1, <2>2 DEF Deliver
<1>6. ASSUME ReaderExit(p) PROVE TypeOK'
  <2>1. ChannelType'
    BY <1>6, ChannelSteps DEF ReaderExit, TypeOK, ChannelType
  <2>2. reads' \in [Peers -> Nat]
    BY <1>6 DEF ReaderExit, TypeOK, LinkType
  <2> QED
    BY <1>3, <1>6, <2>1, <2>2 DEF ReaderExit
<1>7. ASSUME WriterStops(p) PROVE TypeOK'
  <2>1. LinkType'
    BY <1>7 DEF WriterStops, TypeOK, LinkType
  <2> QED
    BY <1>7, <2>1, Frames DEF WriterStops, TypeOK
<1>8. ASSUME Write(p) PROVE TypeOK'
  <2>1. LinkType'
    <3>1. sendCh[p] - 1 \in 0..SendBuf
      BY <1>8, BrokerAssumption DEF Write, TypeOK, LinkType
    <3>2. sendCh' \in [Peers -> 0..SendBuf]
      BY <1>8, <3>1 DEF Write, TypeOK, LinkType
    <3> QED
      BY <1>8, <3>2 DEF Write, TypeOK, LinkType
  <2> QED
    BY <1>8, <2>1, Frames DEF Write, TypeOK
<1> QED
  BY <1>1, <1>2, <1>4, <1>5, <1>6, <1>7, <1>8 DEF Accept, Reader, Writer

-----------------------------------------------------------------------------
(* The run loop is in a call only where it runs a handler or leaves a room.*)
LoopCalls ==
  call[Loop] # NoCall => loop \in {"connected", "message", "leave", "disconnect"}

(* The run loop takes the next item, which may put it into LeaveRoom.      *)
LEMMA SelectType == ASSUME TypeOK, LoopCalls, LoopSelect PROVE TypeOK'
<1> USE DEF server, clients, links, stopVars, loopVars, mapVars, chanVars,
            connVars, sendVars, roomVars, callVars, histVars
<1>1. ASSUME NEW p \in Peers, NEW next \in {"insert", "leave", "message"},
             loop' = next, loopPeer' = p, UNCHANGED <<stopVars, peers>>
      PROVE  ControlType'
  BY <1>1 DEF TypeOK, ControlType
<1>2. CASE ctxDone /\ loop' = "cleanup" /\ UNCHANGED <<loopPeer, chanVars, callVars>>
  <2>1. ControlType'
    BY <1>2 DEF LoopSelect, TypeOK, ControlType
  <2> QED
    BY <1>2, <2>1, Frames DEF LoopSelect, TypeOK
<1>3. CASE /\ register # <<>> /\ loop' = "insert" /\ loopPeer' = Head(register)
           /\ register' = Tail(register)
           /\ UNCHANGED <<unregister, receive, callVars>>
  <2>1. Head(register) \in Peers /\ ChannelType'
    BY <1>3, ChannelSteps DEF TypeOK, ChannelType
  <2> QED
    BY <1>1, <1>3, <2>1, Frames DEF LoopSelect, TypeOK
<1>4. CASE /\ unregister # <<>> /\ loop' = "leave" /\ loopPeer' = Head(unregister)
           /\ unregister' = Tail(unregister)
           /\ call' = [call EXCEPT ![Loop] =
                         [NoCall EXCEPT !.op = "leave", !.step = "read",
                                        !.peer = Head(unregister)]]
           /\ UNCHANGED <<register, receive, calls>>
  <2> DEFINE x == [NoCall EXCEPT !.op = "leave", !.step = "read",
                                 !.peer = Head(unregister)]
  <2>1. Head(unregister) \in Peers /\ ChannelType'
    BY <1>4, ChannelSteps DEF TypeOK, ChannelType
  <2>2. GoodCall(x) /\ ~HasLock(x)
    BY <2>1 DEF GoodCall, HasLock, CallType, NoCall, Ops
  <2>3. Loop \notin peersMu
    <3>1. call[Loop] = NoCall
      BY <1>4 DEF LoopSelect, LoopCalls
    <3> QED
      BY <3>1 DEF TypeOK, CallsType, NoCall
  <2>4. CallsType'
    <3>1. Loop \in Threads
      BY DEF Threads
    <3>2. /\ calls' \in [Threads -> Nat]
          /\ crash' \in Ops \cup {"none"}
          /\ peersMu' = peersMu \ {Loop}
      BY <1>4, <2>3 DEF LoopSelect, TypeOK, CallsType
    <3>3. call' = [call EXCEPT ![Loop] = x]
      BY <1>4
    <3> HIDE DEF x
    <3> QED
      BY <2>2, <3>1, <3>2, <3>3, CallStep
  <2> QED
    BY <1>1, <1>4, <2>1, <2>4, Frames DEF LoopSelect, TypeOK
<1>5. CASE /\ receive # <<>> /\ loop' = "message" /\ loopPeer' = Head(receive)
           /\ receive' = Tail(receive)
           /\ UNCHANGED <<register, unregister, callVars>>
  <2>1. Head(receive) \in Peers /\ ChannelType'
    BY <1>5, ChannelSteps DEF TypeOK, ChannelType
  <2> QED
    BY <1>1, <1>5, <2>1, Frames DEF LoopSelect, TypeOK
<1> QED
  BY <1>2, <1>3, <1>4, <1>5 DEF LoopSelect

(* A call returns, and gives up the lock if it has it.                     *)
LEMMA CallReturns ==
  ASSUME TypeOK, NEW c \in Threads, Return(c), calls' = calls, crash' = crash,
         \/ peersMu' = peersMu \ {c}
         \/ peersMu' = peersMu /\ call[c].op # "broadcast"
  PROVE  CallsType'
<1>1. GoodCall(NoCall) /\ ~HasLock(NoCall)
  BY DEF GoodCall, HasLock, NoCall, CallType, Ops
<1>2. peersMu' = peersMu \ {c}
  BY DEF TypeOK, CallsType
<1>3. calls' \in [Threads -> Nat] /\ crash' \in Ops \cup {"none"}
  BY DEF TypeOK, CallsType
<1> QED
  BY <1>1, <1>2, <1>3, CallStep DEF Return

(* A call goes on: it keeps its operation, and the lock if it has it.      *)
LEMMA CallGoesOn ==
  ASSUME TypeOK, NEW c \in Threads, call[c] # NoCall, call[c].step # "lock",
         NEW step \in {"check", "push", "members", "set", "add", "find", "remove",
                       "clear", "size", "drop"},
         NEW p \in Peers, NEW at \in Rooms \cup {call[c].room},
         NEW todo \in SUBSET Peers,
         Continue(c, step, p, at, todo),
         calls' = calls, crash' \in Ops \cup {"none"}, peersMu' = peersMu
  PROVE  CallsType'
<1> DEFINE x == [op |-> call[c].op, step |-> step, peer |-> p, room |-> at,
                 todo |-> todo]
<1>1. call[c] \in CallType
  BY DEF TypeOK, CallsType
<1>2. x \in CallType
  BY <1>1 DEF CallType
<1>3. x.op = call[c].op /\ x.step = step /\ x.peer = p /\ x.room = at
  OBVIOUS
<1>4. call' = [call EXCEPT ![c] = x]
  BY DEF Continue
<1> HIDE DEF x
<1>5. GoodCall(x)
  BY <1>2, <1>3 DEF TypeOK, CallsType, GoodCall
<1>6. HasLock(x) <=> c \in peersMu
  BY <1>3 DEF TypeOK, CallsType, HasLock
<1>7. peersMu' = IF HasLock(x) THEN peersMu \cup {c} ELSE peersMu \ {c}
  BY <1>6
<1>8. calls' \in [Threads -> Nat]
  BY DEF TypeOK, CallsType
<1> QED
  BY <1>4, <1>5, <1>7, <1>8, CallStep

(* What is known of a call that is at some step.                           *)
LEMMA CallAtStep ==
  ASSUME TypeOK, NEW c \in Threads, call[c].step # "none"
  PROVE  /\ call \in [Threads -> CallType] /\ call[c] \in CallType
         /\ call[c] # NoCall
         /\ call[c].peer \in Peers
         /\ call[c].room \in Rooms \cup {NoRoom}
         /\ call[c].todo \in SUBSET Peers
         /\ call[c].op \in Ops \cup {"none"}
         /\ call[c].op \in {"sendToRoom", "roomBroadcast"} => call[c].room \in Rooms
         /\ (c \in peersMu) <=> HasLock(call[c])
<1>1. call \in [Threads -> CallType] /\ call[c] \in CallType /\ call[c] # NoCall
  BY DEF TypeOK, CallsType, NoCall
<1> QED
  BY <1>1 DEF TypeOK, CallsType, CallType, HasLock

(* The steps of the sending operations.                                    *)
LEMMA SendType ==
  ASSUME TypeOK, NEW c \in Threads,
         SendBegins(c) \/ SendCheck(c) \/ SendPush(c) \/ SendReturns(c)
  PROVE  TypeOK'
<1> USE DEF outside, links, stopVars, loopVars, mapVars, chanVars, connVars,
            sendVars, roomVars, histVars
<1>1. ASSUME SendBegins(c) PROVE TypeOK'
  <2> SUFFICES CallsType'
    BY <1>1, Frames DEF SendBegins, TypeOK
  <2>1. call[c].step # "none"
    BY <1>1 DEF SendBegins, AtStep
  <2>2. calls' = calls /\ crash' = crash /\ crash \in Ops \cup {"none"}
    BY <1>1 DEF SendBegins, TypeOK, CallsType
  <2>3. ASSUME call[c].op # "broadcast", peersMu' = peersMu, Return(c) PROVE CallsType'
    BY <2>2, <2>3, CallReturns
  <2>4. ASSUME NEW todo \in SUBSET Peers, call[c].step # "lock", peersMu' = peersMu,
               SendAll(c, todo)
        PROVE  CallsType'
    BY <2>1, <2>2, <2>4, CallAtStep, CallGoesOn DEF SendAll
  <2>5. CASE AtStep(c, {"sendTo"}, "find") /\ peersMu' = peersMu
             /\ IF call[c].peer \in peers THEN SendAll(c, {call[c].peer}) ELSE Return(c)
    <3>1. {call[c].peer} \in SUBSET Peers
      BY <2>1, CallAtStep
    <3> QED
      BY <2>3, <2>4, <2>5, <3>1 DEF AtStep
  <2>6. CASE AtStep(c, {"sendToRoom"}, "find") /\ peersMu' = peersMu
             /\ IF room[call[c].room] = "open" THEN GoOn(c, "members") ELSE Return(c)
    <3>1. ASSUME GoOn(c, "members") PROVE CallsType'
      BY <2>1, <2>2, <2>6, <3>1, CallAtStep, CallGoesOn DEF AtStep, GoOn
    <3> QED
      BY <2>3, <2>6, <3>1 DEF AtStep
  <2>7. CASE AtStep(c, {"sendToRoom"}, "members") /\ peersMu' = peersMu
             /\ \E exclude \in Peers \cup {NoPeer} :
                  SendAll(c, members[call[c].room] \ {exclude})
    <3>1. members[call[c].room] \in SUBSET Peers
      BY <2>1, <2>7, CallAtStep DEF AtStep, TypeOK, RoomType
    <3> QED
      BY <2>4, <2>7, <3>1 DEF AtStep
  <2>8. CASE AtStep(c, {"broadcast"}, "lock") /\ peersMu' = peersMu \cup {c}
             /\ SendAll(c, peers)
    <3> DEFINE x == [op |-> call[c].op, step |-> "check", peer |-> call[c].peer,
                     room |-> call[c].room, todo |-> peers]
    <3>1. call' = [call EXCEPT ![c] = x]
      BY <2>8 DEF SendAll, Continue
    <3>2. peers \in SUBSET Peers
      BY DEF TypeOK, ControlType
    <3>3. x \in CallType /\ x.op = "broadcast" /\ x.step = "check" /\ x.peer \in Peers
      BY <2>1, <2>8, <3>2, CallAtStep DEF AtStep, CallType
    <3> HIDE DEF x
    <3>4. GoodCall(x) /\ HasLock(x)
      BY <3>3 DEF GoodCall, HasLock
    <3>5. calls' \in [Threads -> Nat]
      BY <2>2 DEF TypeOK, CallsType
    <3> QED
      BY <2>2, <2>8, <3>1, <3>4, <3>5, CallStep
  <2>9. CASE AtStep(c, {"roomBroadcast"}, "lock") /\ peersMu' = peersMu
             /\ SendAll(c, members[call[c].room])
    <3> DEFINE x == [op |-> call[c].op, step |-> "check", peer |-> call[c].peer,
                     room |-> call[c].room, todo |-> members[call[c].room]]
    <3>1. call' = [call EXCEPT ![c] = x]
      BY <2>9 DEF SendAll, Continue
    <3>2. call[c].room \in Rooms
      BY <2>1, <2>9, CallAtStep DEF AtStep
    <3>3. members[call[c].room] \in SUBSET Peers
      BY <3>2 DEF TypeOK, RoomType
    <3>4. /\ x \in CallType /\ x.op = "roomBroadcast" /\ x.peer \in Peers
          /\ x.room \in Rooms
      BY <2>1, <2>9, <3>2, <3>3, CallAtStep DEF AtStep, CallType
    <3> HIDE DEF x
    <3>5. GoodCall(x) /\ ~HasLock(x)
      BY <3>4 DEF GoodCall, HasLock
    <3>6. c \notin peersMu
      BY <2>1, <2>9, CallAtStep DEF AtStep, HasLock
    <3>7. calls' \in [Threads -> Nat]
      BY <2>2 DEF TypeOK, CallsType
    <3> QED
      BY <2>2, <2>9, <3>1, <3>5, <3>6, <3>7, CallStep
  <2> QED
    BY <1>1, <2>5, <2>6, <2>7, <2>8, <2>9 DEF SendBegins
<1>2. ASSUME SendCheck(c) PROVE TypeOK'
  <2> SUFFICES CallsType'
    BY <1>2, Frames DEF SendCheck, TypeOK
  <2>1. call[c].step = "check"
    BY <1>2 DEF SendCheck
  <2>2. /\ calls' = calls /\ crash' = crash /\ crash \in Ops \cup {"none"}
        /\ peersMu' = peersMu
    BY <1>2 DEF SendCheck, TypeOK, CallsType
  <2>3. PICK p \in call[c].todo :
          IF closed[p]
          THEN SendAll(c, call[c].todo \ {p})
          ELSE Continue(c, "push", p, call[c].room, call[c].todo)
    BY <1>2 DEF SendCheck
  <2>4. p \in Peers /\ call[c].todo \ {p} \in SUBSET Peers
    BY <2>1, <2>3, CallAtStep
  <2>5. CASE closed[p]
    BY <2>1, <2>2, <2>3, <2>4, <2>5, CallAtStep, CallGoesOn DEF SendAll
  <2>6. CASE ~closed[p]
    BY <2>1, <2>2, <2>3, <2>4, <2>6, CallAtStep, CallGoesOn
  <2> QED
    BY <2>5, <2>6
<1>3. ASSUME SendPush(c) PROVE TypeOK'
  <2>1. call[c].step = "push"
    BY <1>3 DEF SendPush
  <2>2. SendAll(c, call[c].todo \ {call[c].peer}) /\ calls' = calls /\ peersMu' = peersMu
    BY <1>3 DEF SendPush
  <2>3. crash' \in Ops \cup {"none"}
    BY <1>3, <2>1, CallAtStep DEF SendPush, TypeOK, CallsType
  <2>4. CallsType'
    BY <2>1, <2>2, <2>3, CallAtStep, CallGoesOn DEF SendAll
  <2>5. LinkType'
    <3>1. sendCh' \in [Peers -> 0..SendBuf]
      BY <1>3, BrokerAssumption DEF SendPush, TypeOK, LinkType
    <3> QED
      BY <1>3, <3>1 DEF SendPush, TypeOK, LinkType
  <2> QED
    BY <1>3, <2>4, <2>5, Frames DEF SendPush, TypeOK
<1>4. ASSUME SendReturns(c) PROVE TypeOK'
  <2>1. CallsType'
    BY <1>4, CallReturns DEF SendReturns
  <2> QED
    BY <1>4, <2>1, Frames DEF SendReturns, TypeOK
<1> QED
  BY <1>1, <1>2, <1>3, <1>4

(* The steps of the room operations and of Peer.Close.                     *)
LEMMA RoomStepType ==
  ASSUME TypeOK, NEW c \in Threads, Close(c) \/ JoinRoom(c) \/ LeaveRoom(c)
  PROVE  TypeOK'
<1> USE DEF outside, server, links, stopVars, loopVars, mapVars, chanVars,
            connVars, sendVars, roomVars, histVars
<1>1. ASSUME Close(c) PROVE TypeOK'
  <2>1. call[c].step # "none" /\ call[c].op # "broadcast"
    BY <1>1 DEF Close, AtStep
  <2>2. CallsType'
    BY <1>1, <2>1, CallReturns DEF Close
  <2>3. LinkType'
    BY <1>1 DEF Close, TypeOK, LinkType
  <2> QED
    BY <1>1, <2>2, <2>3, Frames DEF Close, TypeOK
<1>2. ASSUME JoinRoom(c) PROVE TypeOK'
  <2>1. /\ call[c].step # "none" /\ call[c].step # "lock"
        /\ call[c].op # "broadcast" /\ call[c].op = "join"
    BY <1>2 DEF JoinRoom, AtStep
  <2>2. /\ calls' = calls /\ crash' = crash /\ crash \in Ops \cup {"none"}
        /\ peersMu' = peersMu
    BY <1>2 DEF JoinRoom, TypeOK, CallsType
  <2>3. ASSUME Return(c) PROVE CallsType'
    BY <2>1, <2>2, <2>3, CallReturns
  <2>4. ASSUME NEW step \in {"set", "add"}, GoOn(c, step) PROVE CallsType'
    BY <2>1, <2>2, <2>4, CallAtStep, CallGoesOn DEF GoOn
  <2>5. CallsType'
    BY <1>2, <2>3, <2>4 DEF JoinRoom
  <2>6. call[c].peer \in Peers /\ call[c].room \in Rooms \cup {NoRoom}
    BY <2>1, CallAtStep
  <2>7. RoomType'
    BY <1>2, <2>6 DEF JoinRoom, TypeOK, RoomType
  <2> QED
    BY <1>2, <2>5, <2>7, Frames DEF JoinRoom, TypeOK
<1>3. ASSUME LeaveRoom(c) PROVE TypeOK'
  <2>1. /\ call[c].step # "none" /\ call[c].step # "lock"
        /\ call[c].op # "broadcast" /\ call[c].op = "leave"
    BY <1>3 DEF LeaveRoom, LeaveFind, LeaveMember, LeaveCleanup, AtStep
  <2>2. /\ calls' = calls /\ crash' = crash /\ crash \in Ops \cup {"none"}
        /\ peersMu' = peersMu
    BY <1>3 DEF LeaveRoom, LeaveFind, LeaveMember, LeaveCleanup, TypeOK, CallsType
  <2>3. ASSUME Return(c) PROVE CallsType'
    BY <2>1, <2>2, <2>3, CallReturns
  <2>4. ASSUME NEW step \in {"remove", "clear", "size", "drop"}, GoOn(c, step)
        PROVE  CallsType'
    BY <2>1, <2>2, <2>4, CallAtStep, CallGoesOn DEF GoOn
  <2>5. call[c].peer \in Peers /\ call[c].room \in Rooms \cup {NoRoom}
    BY <2>1, CallAtStep
  <2>6. ASSUME roomOf[call[c].peer] # NoRoom,
               Continue(c, "find", call[c].peer, roomOf[call[c].peer], {})
        PROVE  CallsType'
    <3>1. roomOf[call[c].peer] \in Rooms
      BY <2>5, <2>6 DEF TypeOK, RoomType
    <3> QED
      BY <2>1, <2>2, <2>6, <3>1, CallAtStep, CallGoesOn
  <2>7. CallsType'
    BY <1>3, <2>3, <2>4, <2>6 DEF LeaveRoom, LeaveFind, LeaveMember, LeaveCleanup
  <2>8. RoomType'
    BY <1>3, <2>5 DEF LeaveRoom, LeaveFind, LeaveMember, LeaveCleanup, TypeOK, RoomType
  <2> QED
    BY <1>3, <2>7, <2>8, Frames DEF LeaveRoom, LeaveFind, LeaveMember, LeaveCleanup, TypeOK
<1> QED
  BY <1>1, <1>2, <1>3

(* A call begins.                                                          *)
LEMMA BeginType ==
  ASSUME TypeOK, NEW c \in Threads, NEW ops \in SUBSET Ops,
         NEW known \in SUBSET Peers, Begin(c, ops, known)
  PROVE  TypeOK'
<1> USE DEF server, links, stopVars, loopVars, mapVars, chanVars,
            connVars, sendVars, roomVars, histVars
<1>1. PICK op \in ops, p \in known, r \in Rooms \cup {NoRoom} :
        /\ r \in Rooms <=> op \in RoomOps
        /\ call' = [call EXCEPT ![c] =
                   [op |-> op, step |-> FirstStep(op), peer |-> p, room |-> r,
                    todo |-> IF op = "send" THEN {p} ELSE {}]]
  BY DEF Begin
<1> DEFINE x == [op |-> op, step |-> FirstStep(op), peer |-> p, room |-> r,
                 todo |-> IF op = "send" THEN {p} ELSE {}]
<1>2. /\ FirstStep(op) \in {"check", "find", "lock", "read", "close"}
      /\ op = "broadcast" => FirstStep(op) = "lock"
  BY DEF FirstStep, Ops
<1>3. x \in CallType
  BY <1>2 DEF CallType
<1>4. x.op = op /\ x.step = FirstStep(op) /\ x.peer = p /\ x.room = r
  OBVIOUS
<1>5. call' = [call EXCEPT ![c] = x]
  BY <1>1
<1> HIDE DEF x
<1>6. GoodCall(x) /\ ~HasLock(x)
  BY <1>1, <1>2, <1>3, <1>4 DEF GoodCall, HasLock, RoomOps
<1>7. /\ calls' \in [Threads -> Nat] /\ crash' \in Ops \cup {"none"}
      /\ peersMu' = peersMu
  BY DEF Begin, TypeOK, CallsType
<1>8. c \notin peersMu
  BY DEF Begin, NoCall, TypeOK, CallsType
<1>9. CallsType'
  BY <1>5, <1>6, <1>7, <1>8, CallStep
<1> QED
  BY <1>9, Frames DEF Begin, TypeOK

-----------------------------------------------------------------------------
(* The invariant that carries the types: with where the run loop may call. *)
TypeInv == TypeOK /\ LoopCalls

(* Every step keeps the run loop's calls where they belong.                *)
LEMMA LoopCallsStep == TypeInv /\ [Next]_vars => LoopCalls'
<1> SUFFICES ASSUME TypeInv, [Next]_vars PROVE LoopCalls'
  OBVIOUS
<1> USE DEF TypeInv, LoopCalls
<1>1. Loop \in Threads /\ call \in [Threads -> CallType]
  BY DEF Threads, TypeOK, CallsType
<1>2. ASSUME call' = call,
             loop' = loop \/ call[Loop] = NoCall PROVE LoopCalls'
  BY <1>2
<1>3. CASE UNCHANGED vars
  BY <1>2, <1>3 DEF vars, callVars, loopVars
<1>4. CASE \/ Start \/ ParentCancelled \/ StopCancel \/ StopReturn
           \/ \E r \in Rooms : CreateRoom(r)
           \/ \E p \in Peers : AcceptCheck(p) \/ Accept(p)
           \/ \E p \in Peers : RemoteBreaks(p) \/ Reader(p) \/ Writer(p)
  <2>1. call' = call
    BY <1>4 DEF Start, ParentCancelled, StopCancel, StopReturn, CreateRoom,
      AcceptCheck, Accept, AcceptRegister, AcceptLaunch, RemoteBreaks, Reader,
      ReadMessage, Deliver, ReaderExit, ReaderGoes, Writer, WriterStops, Write,
      clients, callVars
  <2>2. loop' = loop \/ call[Loop] = NoCall
    BY <1>4 DEF Start, ParentCancelled, StopCancel, StopReturn, CreateRoom,
      AcceptCheck, Accept, AcceptRegister, AcceptLaunch, RemoteBreaks, Reader,
      ReadMessage, Deliver, ReaderExit, ReaderGoes, Writer, WriterStops, Write,
      loopVars
  <2> QED
    BY <1>2, <2>1, <2>2
<1>5. CASE LoopSelect
  BY <1>5 DEF LoopSelect, callVars
<1>6. CASE \/ LoopInsert \/ LoopDisconnect \/ LoopDelete \/ LoopShutdown
           \/ LoopCleanup \/ HandlerReturns
  <2>1. call' = call /\ call[Loop] = NoCall
    BY <1>6 DEF LoopInsert, LoopDisconnect, LoopDelete, LoopShutdown, LoopCleanup,
      HandlerReturns, LoopGoes, clients, callVars
  <2> QED
    BY <1>2, <2>1
<1>7. ASSUME NEW c \in Threads, Call(c) PROVE LoopCalls'
  <2>1. loop' = loop
    BY <1>7 DEF Call, SendBegins, SendCheck, SendPush, SendReturns, Close, JoinRoom,
      LeaveRoom, LeaveFind, LeaveMember, LeaveCleanup, outside, loopVars
  <2>2. \E x : call' = [call EXCEPT ![c] = x]
    BY <1>7 DEF Call, SendBegins, SendCheck, SendPush, SendReturns, Close, JoinRoom,
      LeaveRoom, LeaveFind, LeaveMember, LeaveCleanup, GoOn, SendAll, Continue, Return
  <2>3. call[c] # NoCall
    <3>1. call[c].step # "none"
      BY <1>7 DEF Call, SendBegins, SendCheck, SendPush, SendReturns, Close, JoinRoom,
        LeaveRoom, LeaveFind, LeaveMember, LeaveCleanup, AtStep
    <3> QED
      BY <3>1 DEF NoCall
  <2> QED
    BY <1>1, <2>1, <2>2, <2>3
<1>8. CASE HandlerCalls
  BY <1>8 DEF HandlerCalls, Begin, loopVars
<1>9. ASSUME NEW c \in Callers, CallerBegins(c) PROVE LoopCalls'
  <2>1. c # Loop /\ loop' = loop
    BY <1>9, BrokerAssumption DEF CallerBegins, Begin, loopVars
  <2>2. \E x : call' = [call EXCEPT ![c] = x]
    BY <1>9 DEF CallerBegins, Begin
  <2> QED
    BY <1>1, <2>1, <2>2
<1> QED
  BY <1>1, <1>3, <1>4, <1>5, <1>6, <1>7, <1>8, <1>9 DEF Next, RunLoop, Threads

(* Every step keeps the types.                                             *)
LEMMA TypeStep == TypeInv /\ [Next]_vars => TypeOK'
<1> SUFFICES ASSUME TypeInv, [Next]_vars PROVE TypeOK'
  OBVIOUS
<1> USE DEF TypeInv
<1>1. CASE UNCHANGED vars
  <2>1. /\ UNCHANGED <<stopVars, loopVars, peers>> /\ UNCHANGED chanVars
        /\ UNCHANGED <<links, sendVars>> /\ UNCHANGED roomVars
        /\ UNCHANGED <<callVars, crash, peersMu>> /\ UNCHANGED histVars
    BY <1>1 DEF vars, links, mapVars
  <2> QED
    BY <2>1, Frames DEF TypeOK
<1>2. CASE \/ Start \/ ParentCancelled \/ StopCancel \/ StopReturn
           \/ LoopInsert \/ LoopDisconnect \/ HandlerReturns \/ LoopDelete
           \/ LoopShutdown \/ LoopCleanup
           \/ \E r \in Rooms : CreateRoom(r)
  BY <1>2, ServerType
<1>3. ASSUME NEW p \in Peers,
             AcceptCheck(p) \/ Accept(p) \/ RemoteBreaks(p) \/ Reader(p) \/ Writer(p)
      PROVE  TypeOK'
  BY <1>3, PeerType
<1>4. CASE LoopSelect
  BY <1>4, SelectType
<1>5. ASSUME NEW c \in Threads, Call(c) PROVE TypeOK'
  BY <1>5, SendType, RoomStepType DEF Call
<1>6. CASE HandlerCalls
  <2>1. Loop \in Threads /\ {loopPeer} \in SUBSET Peers /\ HandlerOps \in SUBSET Ops
    BY <1>6, BrokerAssumption DEF HandlerCalls, Threads, TypeOK, ControlType
  <2> QED
    BY <1>6, <2>1, BeginType DEF HandlerCalls
<1>7. ASSUME NEW c \in Callers, CallerBegins(c) PROVE TypeOK'
  <2>1. c \in Threads /\ CallerOps \in SUBSET Ops
    BY BrokerAssumption DEF Threads
  <2> QED
    BY <1>7, <2>1, BeginType DEF CallerBegins
<1> QED
  BY <1>1, <1>2, <1>3, <1>4, <1>5, <1>6, <1>7 DEF Next, RunLoop, Threads

(* Every state of the broker is well typed: no channel is over its         *)
(* capacity, and the peer map is locked by exactly the broadcasts that are *)
(* under way (broker.go Broadcast, RLock to the deferred RUnlock).         *)
THEOREM TypeCorrect == Spec => []TypeOK
<1>1. Init => TypeInv
  BY InitType DEF Init, TypeInv, LoopCalls, Threads
<1>2. TypeInv /\ [Next]_vars => TypeInv'
  BY TypeStep, LoopCallsStep DEF TypeInv
<1>3. TypeInv => TypeOK
  BY DEF TypeInv
<1> QED
  BY <1>1, <1>2, <1>3, PTL DEF Spec

-----------------------------------------------------------------------------
(* The inductive invariant of the broker's safety properties.              *)

\* A broadcast under way is about to send to open peers of the map only,
\* and the run loop takes a peer out of the map before it shuts it down.
MapInv ==
  /\ \A c \in peersMu :
       /\ call[c].todo \subseteq peers
       /\ call[c].step = "push" => call[c].peer \in peers /\ ~closed[call[c].peer]
  /\ loop = "shutdown" => loopPeer \notin peers

\* The read loop of p has ended, and not because the broker stopped.
Ended(p) == reader[p] = "done" /\ conn[p] # "up"

Leaving == loop \in {"leave", "disconnect", "delete", "shutdown"}

\* A peer is on its way out only once its read loop has ended.
EndInv ==
  /\ \A p \in Peers : accept[p] # "accepted" => reader[p] = "off"
  /\ \A p \in Peers : reader[p] = "exit" => conn[p] # "up" \/ ctxDone
  /\ \A p \in Peers : reader[p] = "unregister" => conn[p] # "up"
  /\ \A i \in 1..Len(unregister) : Ended(unregister[i])
  /\ Leaving => Ended(loopPeer)
  /\ \A p \in Peers : closed[p] /\ loop # "exited" => Ended(p)

\* Until then it is in the map, and after it has left the map it is shut.
InsertInv ==
  /\ \A p \in inserted : reader[p] # "done" /\ loop # "exited" => p \in peers
  /\ \A p \in inserted \ peers :
       (closed[p] /\ conn[p] # "up") \/ (loop = "shutdown" /\ loopPeer = p)
  /\ loop = "exited" => peers = {}
  /\ stopper = "returned" => loop = "exited"

\* It is unregistered once.
OnceInv ==
  /\ \A i, j \in 1..Len(unregister) : unregister[i] = unregister[j] => i = j
  /\ \A i \in 1..Len(unregister) : disconnects[unregister[i]] = 0
  /\ loop = "leave" =>
       /\ disconnects[loopPeer] = 0
       /\ \A i \in 1..Len(unregister) : unregister[i] # loopPeer
  /\ \A p \in Peers : disconnects[p] # 0 => disconnects[p] = 1 /\ reader[p] = "done"

SafetyInv ==
  TypeInv /\ BroadcastIsSafe /\ MapInv /\ EndInv /\ InsertInv /\ OnceInv

-----------------------------------------------------------------------------
(* No step puts a broadcast in front of a closed channel.                  *)
LEMMA MapStep == SafetyInv /\ [Next]_vars => MapInv' /\ BroadcastIsSafe'
<1> SUFFICES ASSUME SafetyInv, [Next]_vars PROVE MapInv' /\ BroadcastIsSafe'
  OBVIOUS
<1> USE DEF SafetyInv, TypeInv, MapInv, BroadcastIsSafe
<1>1. /\ Loop \in Threads /\ call \in [Threads -> CallType] /\ peersMu \subseteq Threads
      /\ \A c \in Threads : (c \in peersMu) <=> HasLock(call[c])
  BY DEF Threads, TypeOK, CallsType, HasLock
<1>2. ASSUME UNCHANGED <<peers, peersMu, closed, call, crash>>,
             loop' = "shutdown" => loop = "shutdown" /\ loopPeer' = loopPeer
      PROVE  MapInv' /\ BroadcastIsSafe'
  BY <1>2
<1>3. CASE UNCHANGED vars
  BY <1>2, <1>3 DEF vars, callVars, loopVars, mapVars, sendVars
<1>4. CASE \/ Start \/ ParentCancelled \/ StopCancel \/ StopReturn
           \/ \E r \in Rooms : CreateRoom(r)
           \/ \E p \in Peers : AcceptCheck(p) \/ Accept(p)
           \/ \E p \in Peers : RemoteBreaks(p) \/ Reader(p) \/ Writer(p)
  <2>1. UNCHANGED <<peers, peersMu, closed, call, crash>>
    BY <1>4 DEF Start, ParentCancelled, StopCancel, StopReturn, CreateRoom,
      AcceptCheck, Accept, AcceptRegister, AcceptLaunch, RemoteBreaks, Reader,
      ReadMessage, Deliver, ReaderExit, ReaderGoes, Writer, WriterStops, Write,
      clients, callVars, server, mapVars, sendVars
  <2>2. loop' = "shutdown" => loop = "shutdown" /\ loopPeer' = loopPeer
    BY <1>4 DEF Start, ParentCancelled, StopCancel, StopReturn, CreateRoom,
      AcceptCheck, Accept, AcceptRegister, AcceptLaunch, RemoteBreaks, Reader,
      ReadMessage, Deliver, ReaderExit, ReaderGoes, Writer, WriterStops, Write,
      loopVars
  <2> QED
    BY <1>2, <2>1, <2>2
<1>5. CASE LoopDisconnect \/ HandlerReturns
  BY <1>2, <1>5 DEF LoopDisconnect, HandlerReturns, LoopGoes, clients, callVars
<1>6. CASE LoopInsert \/ LoopDelete
  <2>1. peersMu' = {} /\ crash' = crash
    BY <1>6 DEF LoopInsert, LoopDelete, LoopGoes, clients
  <2>2. loop' = "shutdown" => loopPeer' \notin peers'
    BY <1>6 DEF LoopInsert, LoopDelete, LoopGoes
  <2> QED
    BY <2>1, <2>2
<1>7. CASE LoopShutdown
  <2>1. /\ closed' = [closed EXCEPT ![loopPeer] = TRUE] /\ loop' = "select"
        /\ UNCHANGED <<peers, peersMu, call, crash>>
        /\ loopPeer \notin peers /\ closed \in [Peers -> BOOLEAN]
    BY <1>7 DEF LoopShutdown, LoopGoes, clients, callVars, TypeOK, LinkType
  <2>2. peers \subseteq Peers
    BY DEF TypeOK, ControlType
  <2> QED
    BY <2>1, <2>2
<1>8. CASE LoopCleanup
  BY <1>8 DEF LoopCleanup, LoopGoes, clients
<1>9. ASSUME NEW c \in Threads, NEW x, call' = [call EXCEPT ![c] = x],
             UNCHANGED <<peers, closed, loopPeer>>,
             loop' = loop \/ loop' # "shutdown",
             crash' = crash,
             peersMu' \subseteq peersMu \cup {c},
             c \in peersMu' =>
               /\ x.todo \subseteq peers
               /\ x.step = "push" => x.peer \in peers /\ ~closed[x.peer]
      PROVE  MapInv' /\ BroadcastIsSafe'
  <2>1. call'[c] = x /\ \A d \in Threads : d # c => call'[d] = call[d]
    BY <1>1, <1>9
  <2> QED
    BY <1>1, <1>9, <2>1
<1>10. CASE LoopSelect
  <2>1. CASE call' = call
    BY <1>2, <1>10, <2>1 DEF LoopSelect, server, mapVars, sendVars
  <2>2. CASE call' # call
    <3>1. /\ \E x : call' = [call EXCEPT ![Loop] = x]
          /\ loop' = "leave"
      BY <1>10, <2>2 DEF LoopSelect, callVars
    <3>2. /\ UNCHANGED <<peers, peersMu, closed, crash>>
          /\ Loop \notin peersMu
      <4>1. call[Loop] = NoCall
        BY <1>10 DEF LoopSelect, LoopCalls
      <4> QED
        BY <1>1, <1>10, <4>1 DEF LoopSelect, HasLock, NoCall, server, mapVars, sendVars
    <3>3. \A d \in peersMu : call'[d] = call[d]
      BY <1>1, <3>1, <3>2
    <3> QED
      BY <3>1, <3>2, <3>3
  <2> QED
    BY <2>1, <2>2
<1>11. ASSUME NEW c \in Threads, Call(c) PROVE MapInv' /\ BroadcastIsSafe'
  <2>1. UNCHANGED <<peers, closed, loop, loopPeer>>
    BY <1>11 DEF Call, SendBegins, SendCheck, SendPush, SendReturns, Close, JoinRoom,
      LeaveRoom, LeaveFind, LeaveMember, LeaveCleanup, outside, loopVars,
        server, mapVars, sendVars
  <2>2. call[c].step # "none"
    BY <1>11 DEF Call, SendBegins, SendCheck, SendPush, SendReturns, Close, JoinRoom,
      LeaveRoom, LeaveFind, LeaveMember, LeaveCleanup, AtStep
  <2>3. ASSUME NEW x, call' = [call EXCEPT ![c] = x], crash' = crash,
               peersMu' \subseteq peersMu, c \notin peersMu'
        PROVE  MapInv' /\ BroadcastIsSafe'
    BY <1>9, <2>1, <2>3
  <2>4. CASE SendBegins(c)
    <3>1. CASE AtStep(c, {"broadcast"}, "lock") /\ SendAll(c, peers)
               /\ peersMu' = peersMu \cup {c}
      <4> DEFINE x == [op |-> call[c].op, step |-> "check", peer |-> call[c].peer,
                       room |-> call[c].room, todo |-> peers]
      <4>1. call' = [call EXCEPT ![c] = x]
        BY <3>1 DEF SendAll, Continue
      <4>2. x.todo = peers /\ x.step = "check"
        OBVIOUS
      <4>3. crash' = crash
        BY <2>4 DEF SendBegins
      <4> HIDE DEF x
      <4> QED
        BY <1>9, <2>1, <3>1, <4>1, <4>2, <4>3
    <3>2. CASE call[c].op # "broadcast"
      <4>1. \E x : call' = [call EXCEPT ![c] = x]
        BY <2>4 DEF SendBegins, SendAll, GoOn, Continue, Return
      <4>2. peersMu' = peersMu /\ c \notin peersMu /\ crash' = crash
        BY <1>1, <2>4, <3>2 DEF SendBegins, AtStep, HasLock
      <4> QED
        BY <2>3, <4>1, <4>2
    <3> QED
      BY <2>4, <3>1, <3>2 DEF SendBegins, AtStep
  <2>5. CASE SendCheck(c)
    <3>1. PICK p \in call[c].todo :
            IF closed[p]
            THEN SendAll(c, call[c].todo \ {p})
            ELSE Continue(c, "push", p, call[c].room, call[c].todo)
      BY <2>5 DEF SendCheck
    <3>2. crash' = crash /\ peersMu' = peersMu
      BY <2>5 DEF SendCheck, mapVars
    <3>3. CASE closed[p]
      <4> DEFINE x == [op |-> call[c].op, step |-> "check", peer |-> call[c].peer,
                       room |-> call[c].room, todo |-> call[c].todo \ {p}]
      <4>1. call' = [call EXCEPT ![c] = x]
        BY <3>1, <3>3 DEF SendAll, Continue
      <4>2. x.todo \subseteq call[c].todo /\ x.step = "check"
        OBVIOUS
      <4>3. c \in peersMu => x.todo \subseteq peers
        BY <4>2
      <4> HIDE DEF x
      <4> QED
        BY <1>9, <2>1, <3>2, <4>1, <4>2, <4>3
    <3>4. CASE ~closed[p]
      <4> DEFINE x == [op |-> call[c].op, step |-> "push", peer |-> p,
                       room |-> call[c].room, todo |-> call[c].todo]
      <4>1. call' = [call EXCEPT ![c] = x]
        BY <3>1, <3>4 DEF Continue
      <4>2. x.todo = call[c].todo /\ x.peer = p
        OBVIOUS
      <4>3. c \in peersMu => x.todo \subseteq peers /\ p \in peers
        BY <3>1, <4>2
      <4> HIDE DEF x
      <4> QED
        BY <1>9, <2>1, <3>2, <3>4, <4>1, <4>2, <4>3
    <3> QED
      BY <3>3, <3>4
  <2>6. CASE SendPush(c)
    <3> DEFINE x == [op |-> call[c].op, step |-> "check", peer |-> call[c].peer,
                     room |-> call[c].room, todo |-> call[c].todo \ {call[c].peer}]
    <3>1. call' = [call EXCEPT ![c] = x]
      BY <2>6 DEF SendPush, SendAll, Continue
    <3>2. x.todo \subseteq call[c].todo /\ x.step = "check"
      OBVIOUS
    <3>3. c \in peersMu => x.todo \subseteq peers
      BY <3>2
    <3>4. peersMu' = peersMu /\ call[c].step = "push"
      BY <2>6 DEF SendPush, mapVars
    <3>5. CASE c \in peersMu
      <4>1. crash' = crash
        BY <2>6, <3>4, <3>5 DEF SendPush
      <4> HIDE DEF x
      <4> QED
        BY <1>9, <2>1, <3>1, <3>2, <3>3, <3>4, <4>1
    <3>6. CASE c \notin peersMu
      <4>1. crash' # "broadcast"
        BY <1>1, <2>6, <3>4, <3>6 DEF SendPush, HasLock
      <4>2. \A d \in peersMu : call'[d] = call[d]
        BY <1>1, <3>1, <3>6
      <4> QED
        BY <2>1, <3>4, <4>1, <4>2
    <3> QED
      BY <3>5, <3>6
  <2>7. CASE SendReturns(c)
    <3>1. Return(c) /\ peersMu' = peersMu \ {c} /\ crash' = crash
      BY <2>7 DEF SendReturns
    <3> QED
      BY <2>3, <3>1 DEF Return
  <2>8. CASE Close(c) \/ JoinRoom(c) \/ LeaveRoom(c)
    <3>1. \E x : call' = [call EXCEPT ![c] = x]
      BY <2>8 DEF Close, JoinRoom, LeaveRoom, LeaveFind, LeaveMember,
        LeaveCleanup, GoOn, Continue, Return
    <3>2. peersMu' = peersMu /\ c \notin peersMu /\ crash' = crash
      BY <1>1, <2>8 DEF Close, JoinRoom, LeaveRoom, LeaveFind, LeaveMember,
        LeaveCleanup, AtStep, HasLock, server, mapVars
    <3> QED
      BY <2>3, <3>1, <3>2
  <2> QED
    BY <1>11, <2>4, <2>5, <2>6, <2>7, <2>8 DEF Call
<1>12. ASSUME NEW c \in Threads, NEW ops, NEW known, Begin(c, ops, known)
       PROVE  MapInv' /\ BroadcastIsSafe'
  <2>1. \E x : call' = [call EXCEPT ![c] = x]
    BY <1>12 DEF Begin
  <2>2. /\ UNCHANGED <<peers, peersMu, closed, loop, loopPeer, crash>>
        /\ c \notin peersMu
    BY <1>1, <1>12 DEF Begin, HasLock, NoCall, server, mapVars, loopVars, sendVars
  <2> QED
    BY <1>9, <2>1, <2>2
<1> QED
  BY <1>1, <1>3, <1>4, <1>5, <1>6, <1>7, <1>8, <1>10, <1>11, <1>12
  DEF Next, RunLoop, HandlerCalls, CallerBegins, Threads

-----------------------------------------------------------------------------
(* What taking a peer out of a channel, and sending one, does to the rest. *)
LEMMA Positions ==
  ASSUME NEW ch \in Channel
  PROVE  /\ ch # <<>> =>
              /\ 1 \in 1..Len(ch) /\ Head(ch) = ch[1]
              /\ \A i \in 1..Len(Tail(ch)) :
                   i + 1 \in 1..Len(ch) /\ Tail(ch)[i] = ch[i + 1]
         /\ \A p \in Peers : \A i \in 1..Len(Append(ch, p)) :
              \/ i \in 1..Len(ch) /\ Append(ch, p)[i] = ch[i]
              \/ i = Len(ch) + 1 /\ Append(ch, p)[i] = p
         /\ \A i \in 1..Len(ch) : ch[i] \in Peers
<1>1. ch \in Seq(Peers) /\ Len(ch) \in Nat
  BY LenProperties DEF Channel
<1>2. ASSUME ch # <<>>
      PROVE  /\ 1 \in 1..Len(ch) /\ Head(ch) = ch[1]
             /\ \A i \in 1..Len(Tail(ch)) :
                  i + 1 \in 1..Len(ch) /\ Tail(ch)[i] = ch[i + 1]
  <2>1. Len(ch) # 0
    BY <1>1, <1>2, EmptySeq
  <2>2. Head(ch) = ch[1] /\ Len(Tail(ch)) = Len(ch) - 1
        /\ \A i \in 1..Len(Tail(ch)) : Tail(ch)[i] = ch[i + 1]
    BY <1>1, <1>2, HeadTailProperties
  <2> QED
    BY <1>1, <2>1, <2>2
<1>3. ASSUME NEW p \in Peers, NEW i \in 1..Len(Append(ch, p))
      PROVE  \/ i \in 1..Len(ch) /\ Append(ch, p)[i] = ch[i]
             \/ i = Len(ch) + 1 /\ Append(ch, p)[i] = p
  BY <1>1, AppendProperties
<1>4. \A i \in 1..Len(ch) : ch[i] \in Peers
  BY <1>1, ElementOfSeq
<1> QED
  BY <1>2, <1>3, <1>4

\* What the invariants about peers that leave are about.
linkState == <<ctxDone, loop, loopPeer, unregister, accept, conn, reader, closed>>
goneState == <<stopper, peers, linkState, histVars>>

(* Most steps do not touch it.                                             *)
LEMMA GoneFrame ==
  ASSUME \/ UNCHANGED vars
         \/ \E p \in Peers : Writer(p)
         \/ \E r \in Rooms : CreateRoom(r)
         \/ HandlerCalls
         \/ \E c \in Callers : CallerBegins(c)
         \/ \E c \in Threads : Call(c) /\ ~Close(c)
  PROVE  UNCHANGED goneState
<1> USE DEF goneState, linkState, vars, outside, server, links, stopVars, loopVars,
            mapVars, chanVars, connVars, sendVars, histVars
<1>1. CASE \/ UNCHANGED vars
           \/ \E p \in Peers : Writer(p)
           \/ \E r \in Rooms : CreateRoom(r)
           \/ HandlerCalls
           \/ \E c \in Callers : CallerBegins(c)
  BY <1>1 DEF Writer, WriterStops, Write, CreateRoom, HandlerCalls, CallerBegins, Begin
<1>2. ASSUME NEW c \in Threads, Call(c), ~Close(c) PROVE UNCHANGED goneState
  BY <1>2 DEF Call, SendBegins, SendCheck, SendPush, SendReturns, JoinRoom,
    LeaveRoom, LeaveFind, LeaveMember, LeaveCleanup
<1> QED
  BY <1>1, <1>2

(* A peer starts to leave only when its read loop has ended.               *)
LEMMA EndStep == SafetyInv /\ [Next]_vars => EndInv'
<1> SUFFICES ASSUME SafetyInv, [Next]_vars PROVE EndInv'
  OBVIOUS
<1> USE DEF SafetyInv, TypeInv
<1>1. /\ unregister \in Channel
      /\ accept \in [Peers -> {"new", "registering", "launching", "accepted", "refused"}]
      /\ conn \in [Peers -> {"up", "broken", "closed"}]
      /\ reader \in [Peers -> {"off", "top", "read", "deliver", "exit",
                               "unregister", "done"}]
      /\ closed \in [Peers -> BOOLEAN]
      /\ Leaving => loopPeer \in Peers
      /\ \A i \in 1..Len(unregister) : unregister[i] \in Peers
  BY Positions DEF TypeOK, ChannelType, LinkType, ControlType, Leaving
<1>2. ASSUME UNCHANGED linkState PROVE EndInv'
  BY <1>2 DEF linkState, EndInv, Ended, Leaving
<1>3. ASSUME UNCHANGED <<unregister, loopPeer, accept, reader, closed>>,
             conn' \in [Peers -> {"up", "broken", "closed"}],
             \A p \in Peers : conn[p] # "up" => conn'[p] # "up",
             ctxDone => ctxDone',
             Leaving' => Leaving,
             loop' # "exited" => loop # "exited"
      PROVE  EndInv'
  BY <1>1, <1>3 DEF EndInv, Ended
<1>4. CASE Start \/ ParentCancelled \/ StopCancel \/ StopReturn
  BY <1>3, <1>4, <1>1 DEF Start, ParentCancelled, StopCancel, StopReturn, Leaving,
    links, connVars, chanVars, loopVars, sendVars
<1>5. CASE LoopInsert \/ LoopDisconnect \/ LoopDelete \/ HandlerReturns
  BY <1>3, <1>5, <1>1 DEF LoopInsert, LoopDisconnect, LoopDelete, HandlerReturns,
    LoopGoes, Leaving, stopVars, chanVars
<1>6. CASE LoopShutdown
  <2>1. /\ loop = "shutdown" /\ loop' = "select"
        /\ closed' = [closed EXCEPT ![loopPeer] = TRUE]
        /\ UNCHANGED <<ctxDone, loopPeer, unregister, accept, conn, reader>>
    BY <1>6 DEF LoopShutdown, LoopGoes, stopVars, chanVars
  <2>2. Ended(loopPeer)
    BY <2>1 DEF EndInv, Leaving
  <2> QED
    BY <1>1, <2>1, <2>2 DEF EndInv, Ended, Leaving
<1>7. CASE LoopCleanup
  <2>1. /\ loop' = "exited" /\ loop = "cleanup"
        /\ conn' = [p \in Peers |-> IF p \in peers THEN "closed" ELSE conn[p]]
        /\ UNCHANGED <<ctxDone, loopPeer, unregister, accept, reader>>
    BY <1>7 DEF LoopCleanup, LoopGoes, CloseAll, stopVars, chanVars
  <2> QED
    BY <1>1, <2>1 DEF EndInv, Ended, Leaving
<1>8. CASE LoopSelect
  <2>1. UNCHANGED <<ctxDone, accept, conn, reader, closed>> /\ loop = "select"
    BY <1>8 DEF LoopSelect, links, connVars, server, stopVars, sendVars
  <2>2. CASE unregister' = unregister
    <3>1. ~Leaving' /\ loop' # "exited"
      BY <1>8, <2>2, <1>1, Positions DEF LoopSelect, Leaving, chanVars
    <3> QED
      BY <2>1, <2>2, <3>1 DEF EndInv, Ended
  <2>3. CASE unregister # <<>> /\ loop' = "leave" /\ loopPeer' = Head(unregister)
             /\ unregister' = Tail(unregister)
    <3>1. Ended(Head(unregister))
      BY <1>1, <2>3, Positions DEF EndInv
    <3>2. \A i \in 1..Len(Tail(unregister)) : Ended(Tail(unregister)[i])
      BY <1>1, <2>3, Positions DEF EndInv
    <3> QED
      BY <2>1, <2>3, <3>1, <3>2 DEF EndInv, Ended, Leaving
  <2> QED
    BY <1>8, <2>2, <2>3 DEF LoopSelect, chanVars
<1>9. ASSUME NEW p \in Peers, AcceptCheck(p) \/ AcceptRegister(p) PROVE EndInv'
  <2>1. /\ UNCHANGED <<ctxDone, loop, loopPeer, unregister, conn, reader, closed>>
        /\ accept[p] # "accepted"
        /\ \E a : accept' = [accept EXCEPT ![p] = a]
    BY <1>9 DEF AcceptCheck, AcceptRegister, server, stopVars, loopVars, chanVars,
      connVars, sendVars
  <2> QED
    BY <1>1, <2>1 DEF EndInv, Ended, Leaving
<1>10. ASSUME NEW p \in Peers, AcceptLaunch(p) PROVE EndInv'
  <2>1. /\ UNCHANGED <<ctxDone, loop, loopPeer, unregister, conn, closed>>
        /\ accept[p] = "launching"
        /\ accept' = [accept EXCEPT ![p] = "accepted"]
        /\ reader' = [reader EXCEPT ![p] = "top"]
    BY <1>10 DEF AcceptLaunch, server, stopVars, loopVars, chanVars, sendVars
  <2>2. reader[p] = "off"
    BY <2>1 DEF EndInv
  <2> QED
    BY <1>1, <2>1, <2>2 DEF EndInv, Ended, Leaving
<1>11. ASSUME NEW p \in Peers, RemoteBreaks(p) PROVE EndInv'
  <2>1. /\ UNCHANGED <<ctxDone, loop, loopPeer, unregister, accept, reader, closed>>
        /\ conn' = [conn EXCEPT ![p] = "broken"]
    BY <1>11 DEF RemoteBreaks, server, stopVars, loopVars, chanVars, sendVars
  <2> QED
    BY <1>1, <1>3, <2>1 DEF Leaving
<1>12. ASSUME NEW p \in Peers, NEW from, NEW to, ReaderGoes(p, from, to),
              from \notin {"off", "done"},
              unregister' = unregister,
              to \in {"top", "read", "deliver", "exit", "unregister", "done"},
              to = "exit" => conn[p] # "up" \/ ctxDone,
              to = "unregister" => conn[p] # "up"
       PROVE  EndInv'
  <2>1. /\ UNCHANGED <<ctxDone, loop, loopPeer, unregister, conn, closed, accept>>
        /\ reader[p] = from /\ reader' = [reader EXCEPT ![p] = to]
    BY <1>12 DEF ReaderGoes, server, stopVars, loopVars, sendVars
  <2>2. \A q \in Peers : Ended(q) => Ended(q)'
    BY <1>1, <1>12, <2>1 DEF Ended
  <2>3. accept[p] = "accepted"
    BY <1>12, <2>1 DEF EndInv
  <2> QED
    BY <1>1, <1>12, <2>1, <2>2, <2>3 DEF EndInv, Leaving
<1>13. ASSUME NEW p \in Peers, ReadMessage(p) \/ Deliver(p) PROVE EndInv'
  BY <1>12, <1>13 DEF ReadMessage, Deliver, chanVars
<1>14. ASSUME NEW p \in Peers, ReaderExit(p) PROVE EndInv'
  <2>1. CASE ReaderGoes(p, "exit", IF ctxDone THEN "done" ELSE "unregister")
             /\ unregister' = unregister
    <3>1. reader[p] = "exit"
      BY <2>1 DEF ReaderGoes
    <3>2. ~ctxDone => conn[p] # "up"
      BY <3>1 DEF EndInv
    <3> QED
      BY <1>12, <2>1, <3>2
  <2>2. CASE ReaderGoes(p, "unregister", "done") /\ unregister' = Append(unregister, p)
    <3>1. /\ UNCHANGED <<ctxDone, loop, loopPeer, conn, closed, accept>>
          /\ reader[p] = "unregister" /\ reader' = [reader EXCEPT ![p] = "done"]
      BY <2>2 DEF ReaderGoes, server, stopVars, loopVars, sendVars
    <3>2. Ended(p)'
      BY <1>1, <3>1 DEF EndInv, Ended
    <3>3. \A q \in Peers : Ended(q) => Ended(q)'
      BY <1>1, <3>1 DEF Ended
    <3>4. ASSUME NEW i \in 1..Len(unregister') PROVE Ended(unregister[i])'
      <4> DEFINE q == Append(unregister, p)[i]
      <4>1. \/ i \in 1..Len(unregister) /\ q = unregister[i]
            \/ q = p
        BY <1>1, <2>2, <3>4, Positions
      <4>2. unregister'[i] = q
        BY <2>2
      <4> HIDE DEF q
      <4>3. q = p \/ (q \in Peers /\ Ended(q))
        <5>1. ASSUME NEW j \in 1..Len(unregister), q = unregister[j]
              PROVE  q \in Peers /\ Ended(q)
          BY <1>1, <5>1 DEF EndInv
        <5> QED
          BY <4>1, <5>1
      <4>4. reader'[q] = "done" /\ conn'[q] # "up"
        <5>1. conn[p] # "up"
          BY <3>1 DEF EndInv
        <5>2. reader[q] = "done" \/ q = p
          BY <4>3 DEF Ended
        <5>3. conn[q] # "up"
          BY <4>3, <5>1 DEF Ended
        <5> QED
          BY <1>1, <3>1, <4>3, <5>2, <5>3
      <4> QED
        BY <4>2, <4>4 DEF Ended
    <3>5. accept[p] = "accepted"
      BY <3>1 DEF EndInv
    <3> QED
      BY <1>1, <2>2, <3>1, <3>3, <3>4, <3>5 DEF EndInv, Leaving
  <2> QED
    BY <1>14, <2>1, <2>2 DEF ReaderExit, chanVars
<1>15. ASSUME NEW c \in Threads, Close(c) PROVE EndInv'
  <2>1. /\ UNCHANGED <<ctxDone, loop, loopPeer, unregister, accept, reader, closed>>
        /\ conn' = [conn EXCEPT ![call[c].peer] = "closed"]
    BY <1>15 DEF Close, server, stopVars, loopVars, chanVars, sendVars
  <2> QED
    BY <1>1, <1>3, <2>1 DEF Leaving
<1> QED
  BY <1>2, <1>4, <1>5, <1>6, <1>7, <1>8, <1>9, <1>10, <1>11, <1>13, <1>14, <1>15,
     GoneFrame DEF Next, RunLoop, Accept, Reader, goneState, Threads

(* A peer leaves the map in no other way, and is shut down when it does.   *)
LEMMA InsertStep == SafetyInv /\ [Next]_vars => InsertInv'
<1> SUFFICES ASSUME SafetyInv, [Next]_vars PROVE InsertInv'
  OBVIOUS
<1> USE DEF SafetyInv, TypeInv
<1>1. /\ conn \in [Peers -> {"up", "broken", "closed"}]
      /\ reader \in [Peers -> {"off", "top", "read", "deliver", "exit",
                               "unregister", "done"}]
      /\ closed \in [Peers -> BOOLEAN]
      /\ peers \subseteq Peers /\ inserted \subseteq Peers
  BY DEF TypeOK, LinkType, ControlType, HistoryType
<1>2. ASSUME UNCHANGED goneState PROVE InsertInv'
  BY <1>2 DEF goneState, linkState, histVars, InsertInv
<1>3. ASSUME UNCHANGED <<peers, inserted, closed>>,
             \A p \in Peers : conn[p] # "up" => conn'[p] # "up",
             \A p \in Peers : reader[p] = "done" => reader'[p] = "done",
             (loop = "exited") <=> (loop' = "exited"),
             loop = "shutdown" => loop' = "shutdown" /\ loopPeer' = loopPeer,
             stopper' = "returned" => stopper = "returned" \/ loop = "exited"
      PROVE  InsertInv'
  BY <1>1, <1>3 DEF InsertInv
<1>4. CASE Start \/ ParentCancelled \/ StopCancel \/ StopReturn
  BY <1>3, <1>4 DEF Start, ParentCancelled, StopCancel, StopReturn, mapVars, histVars,
    sendVars, links, connVars, loopVars
<1>5. CASE LoopDisconnect \/ HandlerReturns
  BY <1>3, <1>5 DEF LoopDisconnect, HandlerReturns, LoopGoes, stopVars, histVars
<1>6. CASE LoopSelect
  <2>1. loop = "select" /\ loop' # "exited"
    BY <1>6 DEF LoopSelect
  <2>2. UNCHANGED <<peers, inserted, closed, conn, reader, stopper>>
    BY <1>6 DEF LoopSelect, server, mapVars, histVars, stopVars, links, connVars, sendVars
  <2> QED
    BY <1>3, <2>1, <2>2
<1>7. CASE LoopInsert
  <2>1. /\ loop = "insert" /\ loop' = "connected"
        /\ peers' = peers \cup {loopPeer} /\ inserted' = inserted \cup {loopPeer}
        /\ UNCHANGED <<closed, conn, reader, stopper>>
    BY <1>7 DEF LoopInsert, LoopGoes, stopVars
  <2> QED
    BY <1>1, <2>1 DEF InsertInv
<1>8. CASE LoopDelete
  <2>1. /\ loop = "delete" /\ loop' = "shutdown" /\ loopPeer' = loopPeer
        /\ peers' = peers \ {loopPeer} /\ inserted' = inserted
        /\ UNCHANGED <<closed, conn, reader, stopper>>
    BY <1>8 DEF LoopDelete, LoopGoes, stopVars, histVars
  <2>2. reader[loopPeer] = "done"
    BY <2>1 DEF EndInv, Leaving, Ended
  <2> QED
    BY <1>1, <2>1, <2>2 DEF InsertInv
<1>9. CASE LoopShutdown
  <2>1. /\ loop = "shutdown" /\ loop' = "select"
        /\ closed' = [closed EXCEPT ![loopPeer] = TRUE]
        /\ UNCHANGED <<peers, inserted, conn, reader, stopper>>
    BY <1>9 DEF LoopShutdown, LoopGoes, stopVars, histVars
  <2>2. conn[loopPeer] # "up"
    BY <2>1 DEF EndInv, Leaving, Ended
  <2> QED
    BY <1>1, <2>1, <2>2 DEF InsertInv
<1>10. CASE LoopCleanup
  <2>1. /\ loop = "cleanup" /\ loop' = "exited"
        /\ conn' = [p \in Peers |-> IF p \in peers THEN "closed" ELSE conn[p]]
        /\ closed' = [p \in Peers |-> closed[p] \/ p \in peers]
        /\ peers' = {} /\ inserted' = inserted /\ stopper' = stopper
    BY <1>10 DEF LoopCleanup, LoopGoes, CloseAll, stopVars, histVars
  <2>2. ASSUME NEW p \in inserted PROVE closed'[p] /\ conn'[p] # "up"
    <3>1. p \in Peers /\ (p \notin peers => closed[p] /\ conn[p] # "up")
      BY <1>1, <2>1, <2>2 DEF InsertInv
    <3>2. CASE p \in peers
      BY <2>1, <3>1, <3>2
    <3>3. CASE p \notin peers
      BY <2>1, <3>1, <3>3
    <3> QED
      BY <3>2, <3>3
  <2> QED
    BY <2>1, <2>2 DEF InsertInv
<1>11. ASSUME NEW p \in Peers, AcceptCheck(p) \/ AcceptRegister(p) PROVE InsertInv'
  BY <1>3, <1>11 DEF AcceptCheck, AcceptRegister, server, stopVars, loopVars, mapVars,
    connVars, sendVars, histVars
<1>12. ASSUME NEW p \in Peers, AcceptLaunch(p) PROVE InsertInv'
  <2>1. /\ UNCHANGED <<peers, inserted, closed, conn, loop, loopPeer, stopper>>
        /\ accept[p] = "launching" /\ reader' = [reader EXCEPT ![p] = "top"]
    BY <1>12 DEF AcceptLaunch, server, stopVars, loopVars, mapVars, sendVars, histVars
  <2>2. reader[p] = "off"
    BY <2>1 DEF EndInv
  <2> QED
    BY <1>1, <1>3, <2>1, <2>2
<1>13. ASSUME NEW p \in Peers, RemoteBreaks(p) PROVE InsertInv'
  <2>1. /\ UNCHANGED <<peers, inserted, closed, reader, loop, loopPeer, stopper>>
        /\ conn' = [conn EXCEPT ![p] = "broken"]
    BY <1>13 DEF RemoteBreaks, server, stopVars, loopVars, mapVars, sendVars, histVars
  <2> QED
    BY <1>1, <1>3, <2>1
<1>14. ASSUME NEW p \in Peers, Reader(p) PROVE InsertInv'
  <2>1. PICK from, to : ReaderGoes(p, from, to) /\ from # "done"
    BY <1>14 DEF Reader, ReadMessage, Deliver, ReaderExit
  <2>2. /\ UNCHANGED <<peers, inserted, closed, conn, loop, loopPeer, stopper>>
        /\ reader[p] # "done" /\ reader' = [reader EXCEPT ![p] = to]
    BY <2>1 DEF ReaderGoes, server, stopVars, loopVars, mapVars, sendVars, histVars
  <2> QED
    BY <1>1, <1>3, <2>2
<1>15. ASSUME NEW c \in Threads, Close(c) PROVE InsertInv'
  <2>1. /\ UNCHANGED <<peers, inserted, closed, reader, loop, loopPeer, stopper>>
        /\ conn' = [conn EXCEPT ![call[c].peer] = "closed"]
    BY <1>15 DEF Close, server, stopVars, loopVars, mapVars, sendVars, histVars
  <2> QED
    BY <1>1, <1>3, <2>1
<1> QED
  BY <1>2, <1>4, <1>5, <1>6, <1>7, <1>8, <1>9, <1>10, <1>11, <1>12, <1>13, <1>14, <1>15,
     GoneFrame DEF Next, RunLoop, Accept, Threads

(* A peer gets into `unregister` once, and is taken out of it once.        *)
LEMMA OnceStep == SafetyInv /\ [Next]_vars => OnceInv'
<1> SUFFICES ASSUME SafetyInv, [Next]_vars PROVE OnceInv'
  OBVIOUS
<1> USE DEF SafetyInv, TypeInv
<1>1. /\ unregister \in Channel
      /\ reader \in [Peers -> {"off", "top", "read", "deliver", "exit",
                               "unregister", "done"}]
      /\ disconnects \in [Peers -> Nat]
      /\ Leaving => loopPeer \in Peers
      /\ \A i \in 1..Len(unregister) : unregister[i] \in Peers
      /\ Len(unregister) \in Nat
  BY Positions, LenProperties
  DEF TypeOK, ChannelType, LinkType, ControlType, HistoryType, Leaving, Channel
<1>2. ASSUME UNCHANGED goneState PROVE OnceInv'
  BY <1>2 DEF goneState, linkState, histVars, OnceInv
<1>3. ASSUME UNCHANGED <<unregister, disconnects>>,
             \A p \in Peers : reader[p] = "done" => reader'[p] = "done",
             loop' = "leave" => loop = "leave" /\ loopPeer' = loopPeer
      PROVE  OnceInv'
  BY <1>1, <1>3 DEF OnceInv
<1>4. CASE \/ Start \/ ParentCancelled \/ StopCancel \/ StopReturn
           \/ \E p \in Peers : AcceptCheck(p) \/ AcceptRegister(p) \/ RemoteBreaks(p)
           \/ \E c \in Threads : Close(c)
  BY <1>3, <1>4 DEF Start, ParentCancelled, StopCancel, StopReturn, AcceptCheck,
    AcceptRegister, RemoteBreaks, Close, server, links, connVars, chanVars, loopVars,
    histVars
<1>5. CASE \/ LoopInsert \/ HandlerReturns \/ LoopDelete \/ LoopShutdown \/ LoopCleanup
  BY <1>3, <1>5 DEF LoopInsert, HandlerReturns, LoopDelete, LoopShutdown, LoopCleanup,
    LoopGoes, chanVars, histVars
<1>6. CASE LoopSelect
  <2>1. UNCHANGED <<disconnects, reader>> /\ loop = "select"
    BY <1>6 DEF LoopSelect, server, histVars, links, connVars
  <2>2. CASE unregister' = unregister /\ loop' # "leave"
    BY <1>3, <2>1, <2>2
  <2>3. CASE unregister # <<>> /\ loop' = "leave" /\ loopPeer' = Head(unregister)
             /\ unregister' = Tail(unregister)
    <3>1. /\ 1 \in 1..Len(unregister) /\ Head(unregister) = unregister[1]
          /\ \A i \in 1..Len(Tail(unregister)) :
               i + 1 \in 1..Len(unregister) /\ Tail(unregister)[i] = unregister[i + 1]
          /\ Len(Tail(unregister)) \in Nat
      BY <1>1, <2>3, Positions, HeadTailProperties, LenProperties DEF Channel
    <3>2. \A i \in 1..Len(Tail(unregister)) :
            /\ Tail(unregister)[i] # Head(unregister)
            /\ disconnects[Tail(unregister)[i]] = 0
      BY <3>1 DEF OnceInv
    <3>3. \A i, j \in 1..Len(Tail(unregister)) :
            Tail(unregister)[i] = Tail(unregister)[j] => i = j
      BY <3>1 DEF OnceInv
    <3>4. disconnects[Head(unregister)] = 0
      BY <3>1 DEF OnceInv
    <3> QED
      BY <2>1, <2>3, <3>2, <3>3, <3>4 DEF OnceInv
  <2> QED
    BY <1>6, <2>2, <2>3 DEF LoopSelect, chanVars
<1>7. CASE LoopDisconnect
  <2>1. /\ loop = "leave" /\ loop' = "disconnect"
        /\ UNCHANGED <<unregister, reader>>
        /\ disconnects' = [disconnects EXCEPT ![loopPeer] = @ + 1]
    BY <1>7 DEF LoopDisconnect, LoopGoes, chanVars
  <2>2. loopPeer \in Peers /\ reader[loopPeer] = "done" /\ disconnects[loopPeer] = 0
    BY <1>1, <2>1 DEF EndInv, Ended, Leaving, OnceInv
  <2>3. \A q \in Peers : disconnects'[q] = IF q = loopPeer THEN 1 ELSE disconnects[q]
    BY <1>1, <2>1, <2>2
  <2> QED
    BY <1>1, <2>1, <2>2, <2>3 DEF OnceInv
<1>8. ASSUME NEW p \in Peers, AcceptLaunch(p) PROVE OnceInv'
  <2>1. /\ UNCHANGED <<unregister, disconnects, loop, loopPeer>>
        /\ accept[p] = "launching" /\ reader' = [reader EXCEPT ![p] = "top"]
    BY <1>8 DEF AcceptLaunch, server, loopVars, chanVars, histVars
  <2>2. reader[p] = "off"
    BY <2>1 DEF EndInv
  <2> QED
    BY <1>1, <1>3, <2>1, <2>2
<1>9. ASSUME NEW p \in Peers, Reader(p) PROVE OnceInv'
  <2>1. PICK from, to : ReaderGoes(p, from, to) /\ from # "done"
    BY <1>9 DEF Reader, ReadMessage, Deliver, ReaderExit
  <2>2. /\ UNCHANGED <<disconnects, loop, loopPeer>>
        /\ reader[p] # "done" /\ reader' = [reader EXCEPT ![p] = to]
    BY <2>1 DEF ReaderGoes, server, loopVars, histVars
  <2>3. CASE unregister' = unregister
    BY <1>1, <1>3, <2>2, <2>3
  <2>4. CASE unregister' = Append(unregister, p) /\ reader'[p] = "done"
    <3>1. \A i \in 1..Len(unregister') :
            \/ i \in 1..Len(unregister) /\ unregister'[i] = unregister[i]
            \/ i = Len(unregister) + 1 /\ unregister'[i] = p
      BY <1>1, <2>4, Positions
    <3>2. \A i \in 1..Len(unregister) : unregister[i] # p
      BY <2>2 DEF EndInv, Ended
    <3>3. disconnects[p] = 0
      BY <2>2 DEF OnceInv
    <3>4. loop = "leave" => loopPeer # p
      BY <2>2 DEF EndInv, Leaving, Ended
    <3>5. \A i, j \in 1..Len(unregister') : unregister'[i] = unregister'[j] => i = j
      BY <3>1, <3>2 DEF OnceInv
    <3>6. \A i \in 1..Len(unregister') :
            /\ disconnects[unregister'[i]] = 0
            /\ loop = "leave" => unregister'[i] # loopPeer
      BY <3>1, <3>3, <3>4 DEF OnceInv
    <3>7. \A q \in Peers : reader[q] = "done" => reader'[q] = "done"
      BY <1>1, <2>2
    <3> QED
      BY <1>1, <2>2, <3>5, <3>6, <3>7 DEF OnceInv
  <2> QED
    <3>1. unregister' = unregister
            \/ (unregister' = Append(unregister, p) /\ ReaderGoes(p, "unregister", "done"))
      BY <1>9 DEF Reader, ReadMessage, Deliver, ReaderExit, chanVars
    <3>2. ReaderGoes(p, "unregister", "done") => reader'[p] = "done"
      BY <1>1 DEF ReaderGoes
    <3> QED
      BY <2>3, <2>4, <3>1, <3>2
<1> QED
  BY <1>2, <1>4, <1>5, <1>6, <1>7, <1>8, <1>9,
     GoneFrame DEF Next, RunLoop, Accept, Threads

(* The invariant holds at the start ...                                    *)
LEMMA InitSafety == Init => SafetyInv
<1> SUFFICES ASSUME Init PROVE SafetyInv
  OBVIOUS
<1>1. TypeInv
  BY InitType DEF Init, TypeInv, LoopCalls, Threads
<1>2. 1..Len(<<>>) = {}
  <2>1. Len(<<>>) = 0
    BY EmptySeq
  <2> QED
    BY <2>1
<1>3. MapInv /\ BroadcastIsSafe
  BY DEF Init, MapInv, BroadcastIsSafe
<1>4. EndInv
  BY <1>2 DEF Init, EndInv, Ended, Leaving
<1>5. InsertInv
  BY DEF Init, InsertInv
<1>6. OnceInv
  BY <1>2 DEF Init, OnceInv
<1> QED
  BY <1>1, <1>3, <1>4, <1>5, <1>6 DEF SafetyInv

(* ... and in every state.                                                 *)
LEMMA SafetyAlways == Spec => []SafetyInv
<1>1. SafetyInv /\ [Next]_vars => SafetyInv'
  BY TypeStep, LoopCallsStep, MapStep, EndStep, InsertStep, OnceStep DEF SafetyInv, TypeInv
<1> QED
  BY InitSafety, <1>1, PTL DEF Spec

(* No broadcast ever sends on a closed channel, with any number of peers,  *)
(* callers and handlers: the order of broker.go's unregister case (delete, *)
(* then shutdown) and the read lock of Broadcast are enough.               *)
THEOREM BroadcastAlwaysSafe == Spec => []BroadcastIsSafe
<1>1. SafetyInv => BroadcastIsSafe
  BY DEF SafetyInv
<1> QED
  BY <1>1, SafetyAlways, PTL

(* A connection whose read loop runs stays in the map and open, whatever   *)
(* the other connections, the callers and the handlers do, until the run   *)
(* loop ends.                                                              *)
THEOREM LivePeerAlwaysStays == Spec => []LivePeerStays
<1>1. SafetyInv => LivePeerStays
  <2> SUFFICES ASSUME SafetyInv, NEW p \in inserted,
                      reader[p] \in {"top", "read", "deliver"}, loop # "exited"
               PROVE  p \in peers /\ ~closed[p]
    BY DEF LivePeerStays
  <2>1. p \in Peers /\ reader[p] # "done" /\ closed[p] \in BOOLEAN
    BY DEF SafetyInv, TypeInv, TypeOK, HistoryType, LinkType
  <2> QED
    BY <2>1 DEF SafetyInv, InsertInv, EndInv, Ended
<1> QED
  BY <1>1, SafetyAlways, PTL

(* HandleDisconnect is called once at most for each connection, and only   *)
(* after its read loop has ended.                                          *)
THEOREM OneDisconnectAlways == Spec => []OneDisconnect
<1>1. SafetyInv => OneDisconnect
  <2> SUFFICES ASSUME SafetyInv, NEW p \in Peers
               PROVE  disconnects[p] <= 1 /\ (disconnects[p] = 1 => reader[p] = "done")
    BY DEF OneDisconnect
  <2> QED
    BY DEF SafetyInv, TypeInv, TypeOK, HistoryType, OnceInv
<1> QED
  BY <1>1, SafetyAlways, PTL

(* When Stop returns the map is empty, and every connection that ever was  *)
(* in it is shut down with its transport closed or broken.                 *)
THEOREM StopAlwaysLeavesNothing == Spec => []StopLeavesNothing
<1>1. SafetyInv => StopLeavesNothing
  BY DEF SafetyInv, InsertInv, StopLeavesNothing
<1> QED
  BY <1>1, SafetyAlways, PTL

-----------------------------------------------------------------------------
(* Rooms.                                                                  *)

RoomInv == TypeInv /\ RoomIdMeansMember

(* A step of one thread that leaves the ids and the members alone, and is  *)
(* not between the two writes.                                             *)
LEMMA RoomIdFrame ==
  ASSUME RoomInv, NEW c \in Threads, NEW x, call' = [call EXCEPT ![c] = x],
         roomOf' = roomOf, members' = members, call[c].step \notin {"add", "clear"}
  PROVE  RoomIdMeansMember'
<1>1. \A d \in Threads : d # c => call'[d] = call[d]
  BY DEF RoomInv, TypeInv, TypeOK, CallsType
<1>2. \A d \in Threads, p \in Peers : Settling(d, p) => d # c
  BY DEF Settling, AtStep
<1>3. \A d \in Threads, p \in Peers : Settling(d, p) => Settling(d, p)'
  BY <1>1, <1>2 DEF Settling, AtStep
<1> QED
  BY <1>3 DEF RoomInv, RoomIdMeansMember

(* JoinRoom: after the id is set the call settles the peer, and after the  *)
(* entry in the list the peer is a member.                                 *)
LEMMA JoinKeepsRoomId ==
  ASSUME RoomInv, NEW c \in Threads, JoinRoom(c) PROVE RoomIdMeansMember'
<1>1. call \in [Threads -> CallType] /\ call[c].op = "join" /\ call[c].step # "none"
  BY DEF JoinRoom, AtStep, RoomInv, TypeInv, TypeOK, CallsType
<1>2. PICK q \in Peers, r \in Rooms \cup {NoRoom} : q = call[c].peer /\ r = call[c].room
  BY <1>1, CallAtStep DEF RoomInv, TypeInv
<1>3. /\ roomOf \in [Peers -> Rooms \cup {NoRoom}] /\ members \in [Rooms -> SUBSET Peers]
  BY <1>1, CallAtStep DEF RoomInv, TypeInv, TypeOK, RoomType
<1>4. CASE AtStep(c, {"join"}, "find")
  <2>1. roomOf' = roomOf /\ members' = members /\ call[c].step = "find"
    BY <1>4 DEF JoinRoom, AtStep
  <2>2. \E x : call' = [call EXCEPT ![c] = x]
    BY <1>4 DEF JoinRoom, AtStep, GoOn, Continue, Return
  <2> QED
    BY <2>1, <2>2, RoomIdFrame
<1>5. CASE AtStep(c, {"join"}, "set")
  <2> DEFINE x == [op |-> call[c].op, step |-> "add", peer |-> q, room |-> r,
                   todo |-> call[c].todo]
  <2>1. /\ call' = [call EXCEPT ![c] = x] /\ members' = members
        /\ roomOf' = [roomOf EXCEPT ![q] = r]
    BY <1>2, <1>5 DEF JoinRoom, AtStep, GoOn, Continue
  <2>2. x.op = "join" /\ x.step = "add" /\ x.peer = q /\ x.room = r
    BY <1>1, <1>2
  <2> HIDE DEF x
  <2>3. call'[c] = x /\ \A d \in Threads : d # c => call'[d] = call[d]
    BY <1>1, <1>2, <2>1
  <2>4. Settling(c, q)'
    BY <1>2, <1>3, <2>1, <2>2, <2>3 DEF Settling, AtStep
  <2>5. \A p \in Peers, d \in Threads : p # q /\ Settling(d, p) => Settling(d, p)'
    BY <1>2, <1>3, <1>5, <2>1, <2>3 DEF Settling, AtStep
  <2>6. ASSUME NEW p \in Peers, p # q, roomOf'[p] # NoRoom
        PROVE  p \in members'[roomOf'[p]] \/ \E d \in Threads : Settling(d, p)'
    <3>1. roomOf'[p] = roomOf[p]
      BY <1>2, <1>3, <2>1, <2>6
    <3> QED
      BY <1>2, <2>1, <2>5, <2>6, <3>1 DEF RoomInv, RoomIdMeansMember
  <2> QED
    BY <1>2, <2>4, <2>6 DEF RoomIdMeansMember, Settling, AtStep
<1>6. CASE AtStep(c, {"join"}, "add")
  <2>1. /\ call' = [call EXCEPT ![c] = NoCall] /\ roomOf' = roomOf
        /\ members' = [members EXCEPT ![r] = @ \cup {q}]
    BY <1>2, <1>6 DEF JoinRoom, AtStep, Return
  <2>2. \A d \in Threads : d # c => call'[d] = call[d]
    BY <1>1, <1>2, <2>1
  <2>3. \A p \in Peers, d \in Threads : d # c /\ Settling(d, p) => Settling(d, p)'
    BY <1>2, <2>1, <2>2 DEF Settling, AtStep
  <2>4. ASSUME NEW p \in Peers, roomOf[p] # NoRoom
        PROVE  p \in members'[roomOf[p]] \/ \E d \in Threads : Settling(d, p)'
    <3>1. roomOf[p] \in Rooms /\ members[roomOf[p]] \subseteq members'[roomOf[p]]
      BY <1>2, <1>3, <2>1, <2>4
    <3>2. ASSUME Settling(c, p) PROVE p \in members'[roomOf[p]]
      BY <1>2, <1>3, <1>6, <2>1, <3>1, <3>2 DEF Settling, AtStep
    <3> QED
      BY <1>2, <2>3, <2>4, <3>1, <3>2 DEF RoomInv, RoomIdMeansMember
  <2> QED
    BY <1>2, <2>1, <2>4 DEF RoomIdMeansMember
<1> QED
  BY <1>4, <1>5, <1>6 DEF JoinRoom

(* LeaveRoom removes the peer first and then clears its id.                *)
LEMMA LeaveKeepsRoomId ==
  ASSUME RoomInv, NEW c \in Threads, LeaveMember(c) PROVE RoomIdMeansMember'
<1>1. call \in [Threads -> CallType] /\ call[c].op = "leave" /\ call[c].step # "none"
  BY DEF LeaveMember, AtStep, RoomInv, TypeInv, TypeOK, CallsType
<1>2. PICK q \in Peers, r \in Rooms \cup {NoRoom} : q = call[c].peer /\ r = call[c].room
  BY <1>1, CallAtStep DEF RoomInv, TypeInv
<1>3. /\ roomOf \in [Peers -> Rooms \cup {NoRoom}] /\ members \in [Rooms -> SUBSET Peers]
  BY <1>1, CallAtStep DEF RoomInv, TypeInv, TypeOK, RoomType
<1>4. CASE AtStep(c, {"leave"}, "remove")
  <2> DEFINE x == [op |-> call[c].op, step |-> "clear", peer |-> q, room |-> r,
                   todo |-> call[c].todo]
  <2>1. /\ call' = [call EXCEPT ![c] = x] /\ roomOf' = roomOf
        /\ members' = [members EXCEPT ![r] = @ \ {q}]
    BY <1>2, <1>4 DEF LeaveMember, AtStep, GoOn, Continue
  <2>2. x.op = "leave" /\ x.step = "clear" /\ x.peer = q
    BY <1>1, <1>2
  <2> HIDE DEF x
  <2>3. call'[c] = x /\ \A d \in Threads : d # c => call'[d] = call[d]
    BY <1>1, <1>2, <2>1
  <2>4. Settling(c, q)'
    BY <1>2, <2>2, <2>3 DEF Settling, AtStep
  <2>5. \A p \in Peers, d \in Threads : Settling(d, p) => Settling(d, p)'
    BY <1>2, <1>4, <2>1, <2>3 DEF Settling, AtStep
  <2>6. \A p \in Peers : p # q /\ roomOf[p] # NoRoom =>
          (p \in members[roomOf[p]] => p \in members'[roomOf[p]])
    BY <1>2, <1>3, <2>1
  <2> QED
    BY <1>2, <2>1, <2>4, <2>5, <2>6 DEF RoomInv, RoomIdMeansMember, Settling, AtStep
<1>5. CASE AtStep(c, {"leave"}, "clear")
  <2>1. /\ \E x : call' = [call EXCEPT ![c] = x]
        /\ members' = members /\ roomOf' = [roomOf EXCEPT ![q] = NoRoom]
    BY <1>2, <1>5 DEF LeaveMember, AtStep, GoOn, Continue
  <2>2. \A d \in Threads : d # c => call'[d] = call[d]
    BY <1>1, <1>2, <2>1
  <2>3. \A p \in Peers, d \in Threads : p # q /\ Settling(d, p) => Settling(d, p)'
    BY <1>2, <1>3, <2>1, <2>2 DEF Settling, AtStep
  <2>4. roomOf'[q] = NoRoom /\ \A p \in Peers : p # q => roomOf'[p] = roomOf[p]
    BY <1>2, <1>3, <2>1
  <2> QED
    BY <1>2, <2>1, <2>3, <2>4 DEF RoomInv, RoomIdMeansMember
<1> QED
  BY <1>4, <1>5 DEF LeaveMember

(* What the steps that are no room operation of a thread do to the rooms.  *)
LEMMA RoomFrames ==
  ASSUME TypeInv, [Next]_vars
  PROVE  \/ UNCHANGED <<roomVars, call>>
         \/ \E r \in Rooms : CreateRoom(r)
         \/ LoopSelect /\ call[Loop] = NoCall /\ UNCHANGED roomVars
         \/ HandlerCalls
         \/ \E c \in Callers : CallerBegins(c)
         \/ \E c \in Threads : Call(c)
<1>1. CASE UNCHANGED vars
  BY <1>1 DEF vars, callVars
<1>2. CASE \/ Start \/ ParentCancelled \/ StopCancel \/ StopReturn
           \/ \E p \in Peers : AcceptCheck(p) \/ Accept(p)
           \/ \E p \in Peers : RemoteBreaks(p) \/ Reader(p) \/ Writer(p)
  BY <1>2 DEF Start, ParentCancelled, StopCancel, StopReturn,
      AcceptCheck, Accept, AcceptRegister, AcceptLaunch, RemoteBreaks, Reader,
      ReadMessage, Deliver, ReaderExit, ReaderGoes, Writer, WriterStops, Write,
      clients, callVars
<1>3. CASE \/ LoopInsert \/ LoopDisconnect \/ LoopDelete \/ LoopShutdown
           \/ LoopCleanup \/ HandlerReturns
  BY <1>3 DEF LoopInsert, LoopDisconnect, LoopDelete, LoopShutdown, LoopCleanup,
      HandlerReturns, LoopGoes, clients, callVars
<1>4. CASE LoopSelect
  BY <1>4 DEF LoopSelect, TypeInv, LoopCalls
<1> QED
  BY <1>1, <1>2, <1>3, <1>4 DEF Next, RunLoop, Threads

(* Every step keeps the ids and the member lists in agreement.             *)
LEMMA RoomIdStep == RoomInv /\ [Next]_vars => RoomIdMeansMember'
<1> SUFFICES ASSUME RoomInv, [Next]_vars PROVE RoomIdMeansMember'
  OBVIOUS
<1>1. TypeInv /\ Loop \in Threads
  BY DEF RoomInv, Threads
<1>2. CASE UNCHANGED <<roomVars, call>>
  BY <1>2 DEF RoomInv, RoomIdMeansMember, Settling, AtStep, roomVars
<1>3. ASSUME NEW r \in Rooms, CreateRoom(r) PROVE RoomIdMeansMember'
  BY <1>3 DEF CreateRoom, callVars, RoomInv, RoomIdMeansMember, Settling, AtStep
<1>4. CASE LoopSelect /\ call[Loop] = NoCall /\ UNCHANGED roomVars
  <2>1. call' = call \/ \E x : call' = [call EXCEPT ![Loop] = x]
    BY <1>4 DEF LoopSelect, callVars
  <2>2. CASE call' = call
    BY <1>4, <2>2 DEF RoomInv, RoomIdMeansMember, Settling, AtStep, roomVars
  <2> QED
    BY <1>1, <1>4, <2>1, <2>2, RoomIdFrame DEF roomVars, NoCall
<1>5. ASSUME NEW c \in Threads, NEW ops, NEW known, Begin(c, ops, known)
      PROVE  RoomIdMeansMember'
  <2>1. call[c] = NoCall /\ roomOf' = roomOf /\ members' = members
    BY <1>5 DEF Begin, roomVars
  <2>2. \E x : call' = [call EXCEPT ![c] = x]
    BY <1>5 DEF Begin
  <2>3. call[c].step \notin {"add", "clear"}
    BY <2>1 DEF NoCall
  <2> QED
    BY <2>1, <2>2, <2>3, RoomIdFrame
<1>6. ASSUME NEW c \in Threads, Call(c) PROVE RoomIdMeansMember'
  <2>1. CASE \/ SendBegins(c) \/ SendCheck(c) \/ SendPush(c) \/ SendReturns(c)
             \/ Close(c) \/ LeaveFind(c) \/ LeaveCleanup(c)
    <3>1. call[c].step \notin {"add", "clear"} /\ roomOf' = roomOf /\ members' = members
      BY <2>1 DEF SendBegins, SendCheck, SendPush, SendReturns, Close, LeaveFind,
        LeaveCleanup, AtStep, roomVars
    <3>2. \E x : call' = [call EXCEPT ![c] = x]
      BY <2>1 DEF SendBegins, SendCheck, SendPush, SendReturns, Close, LeaveFind,
        LeaveCleanup, SendAll, GoOn, Continue, Return
    <3> QED
      BY <3>1, <3>2, RoomIdFrame
  <2> QED
    BY <1>6, <2>1, JoinKeepsRoomId, LeaveKeepsRoomId DEF Call, LeaveRoom
<1>7. CASE HandlerCalls
  BY <1>1, <1>5, <1>7 DEF HandlerCalls
<1>8. ASSUME NEW c \in Callers, CallerBegins(c) PROVE RoomIdMeansMember'
  BY <1>5, <1>8 DEF CallerBegins, Threads
<1> QED
  BY <1>1, <1>2, <1>3, <1>4, <1>6, <1>7, <1>8, RoomFrames

(* JoinRoom and LeaveRoom (broker.go:210-268): a peer whose id names a     *)
(* room is a member of it, whatever calls interleave, unless a call is     *)
(* between its two writes.                                                 *)
THEOREM RoomIdAlwaysMeansMember == Spec => []RoomIdMeansMember
<1>1. Init => RoomInv
  <2>1. Init => TypeInv
    BY InitType DEF Init, TypeInv, LoopCalls, Threads
  <2>2. Init => RoomIdMeansMember
    BY DEF Init, RoomIdMeansMember
  <2> QED
    BY <2>1, <2>2 DEF RoomInv
<1>2. RoomInv /\ [Next]_vars => RoomInv'
  BY TypeStep, LoopCallsStep, RoomIdStep DEF RoomInv, TypeInv
<1>3. RoomInv => RoomIdMeansMember
  BY DEF RoomInv
<1> QED
  BY <1>1, <1>2, <1>3, PTL DEF Spec

-----------------------------------------------------------------------------
(* Rooms that only the handlers join and leave.                            *)

SingleThreadedRooms == CallerOps \cap {"join", "leave"} = {}

\* A room that somebody is in can be found.
HandlersKeepRooms ==
  SingleThreadedRooms => \A r \in Rooms : members[r] # {} => room[r] = "open"

\* The callers are in no room operation; a join has found its room in the
\* map, and a leave that is to drop a room has seen it empty.
HandlerInv ==
  /\ \A c \in Callers : call[c].op \notin {"join", "leave"}
  /\ call[Loop].op = "join" => call[Loop].room \in Rooms
  /\ AtStep(Loop, {"join"}, "set") \/ AtStep(Loop, {"join"}, "add")
       => room[call[Loop].room] = "open"
  /\ AtStep(Loop, {"leave"}, "drop") => members[call[Loop].room] = {}
  /\ \A r \in Rooms : members[r] # {} => room[r] = "open"

(* A join of a handler: nobody drops the room it has found.                *)
LEMMA HandlerJoins ==
  ASSUME TypeInv, HandlerInv, JoinRoom(Loop) PROVE HandlerInv'
<1>1. /\ call \in [Threads -> CallType] /\ Loop \in Threads /\ Callers \subseteq Threads
      /\ Loop \notin Callers
  BY BrokerAssumption DEF TypeInv, TypeOK, CallsType, Threads
<1>2. /\ call[Loop].op = "join" /\ call[Loop].room \in Rooms /\ room' = room
      /\ members \in [Rooms -> SUBSET Peers]
  BY DEF JoinRoom, AtStep, HandlerInv, TypeInv, TypeOK, RoomType
<1>3. \E x : /\ call' = [call EXCEPT ![Loop] = x]
             /\ x.op = "join" => x.room = call[Loop].room
             /\ x.op = "join" /\ x.step \in {"set", "add"}
                  => room[call[Loop].room] = "open"
             /\ x.op # "leave"
  BY <1>2 DEF JoinRoom, HandlerInv, AtStep, GoOn, Continue, Return, NoCall
<1>4. /\ \A c \in Callers : call'[c] = call[c]
      /\ call'[Loop].op = "join" => call'[Loop].room = call[Loop].room
      /\ call'[Loop].op = "join" /\ call'[Loop].step \in {"set", "add"}
           => room[call[Loop].room] = "open"
      /\ call'[Loop].op # "leave"
  BY <1>1, <1>3
<1>5. \A r \in Rooms : members'[r] # {} => room'[r] = "open"
  BY <1>2 DEF JoinRoom, HandlerInv, AtStep
<1> QED
  BY <1>2, <1>4, <1>5 DEF HandlerInv, AtStep

(* A leave of a handler: the room it drops is as empty as it was seen.     *)
LEMMA HandlerLeaves ==
  ASSUME TypeInv, HandlerInv, LeaveRoom(Loop) PROVE HandlerInv'
<1>1. /\ call \in [Threads -> CallType] /\ Loop \in Threads /\ Callers \subseteq Threads
      /\ Loop \notin Callers
  BY BrokerAssumption DEF TypeInv, TypeOK, CallsType, Threads
<1>2. /\ call[Loop].op = "leave" /\ members \in [Rooms -> SUBSET Peers]
      /\ room \in [Rooms -> {"unused", "open", "gone"}]
  BY DEF LeaveRoom, LeaveFind, LeaveMember, LeaveCleanup, AtStep, TypeInv, TypeOK, RoomType
<1>3. \E x : /\ call' = [call EXCEPT ![Loop] = x]
             /\ x.op # "join"
             /\ x.op = "leave" /\ x.step = "drop" => members'[x.room] = {}
  <2> DEFINE Goal(x) == /\ call' = [call EXCEPT ![Loop] = x]
                        /\ x.op # "join"
                        /\ x.op = "leave" /\ x.step = "drop" => members'[x.room] = {}
  <2>1. ASSUME NEW s \in {"find", "remove", "clear", "size", "drop"}, NEW p, NEW at,
               NEW todo, Continue(Loop, s, p, at, todo), s = "drop" => members'[at] = {}
        PROVE  \E x : Goal(x)
    <3>1. Goal([op |-> call[Loop].op, step |-> s, peer |-> p, room |-> at,
                todo |-> todo])
      BY <1>2, <2>1 DEF Continue
    <3> QED
      BY <3>1
  <2>2. ASSUME Return(Loop) PROVE \E x : Goal(x)
    <3>1. Goal(NoCall)
      BY <2>2 DEF Return, NoCall
    <3> QED
      BY <3>1
  <2> HIDE DEF Goal
  <2>3. ASSUME LeaveFind(Loop) PROVE \E x : Goal(x)
    BY <2>1, <2>2, <2>3 DEF LeaveFind, GoOn
  <2>4. ASSUME LeaveMember(Loop) PROVE \E x : Goal(x)
    BY <2>1, <2>4 DEF LeaveMember, GoOn
  <2>5. ASSUME LeaveCleanup(Loop) PROVE \E x : Goal(x)
    BY <2>1, <2>2, <2>5 DEF LeaveCleanup, GoOn
  <2>6. \E x : Goal(x)
    BY <2>3, <2>4, <2>5 DEF LeaveRoom
  <2> QED
    BY <2>6 DEF Goal
<1>4. /\ \A c \in Callers : call'[c] = call[c]
      /\ call'[Loop].op # "join"
      /\ call'[Loop].op = "leave" /\ call'[Loop].step = "drop"
           => members'[call'[Loop].room] = {}
  BY <1>1, <1>3
<1>5. \A r \in Rooms : members'[r] # {} => room'[r] = "open"
  <2>1. CASE LeaveFind(Loop)
    BY <2>1 DEF LeaveFind, roomVars, HandlerInv
  <2>2. CASE LeaveMember(Loop)
    BY <1>2, <2>2 DEF LeaveMember, HandlerInv
  <2>3. CASE LeaveCleanup(Loop)
    BY <1>2, <2>3 DEF LeaveCleanup, HandlerInv
  <2> QED
    BY <2>1, <2>2, <2>3 DEF LeaveRoom
<1> QED
  BY <1>4, <1>5 DEF HandlerInv, AtStep

(* Every step of a broker whose callers do not join or leave keeps it.     *)
LEMMA HandlerStep ==
  SingleThreadedRooms /\ TypeInv /\ HandlerInv /\ [Next]_vars => HandlerInv'
<1> SUFFICES ASSUME SingleThreadedRooms, TypeInv, HandlerInv, [Next]_vars
             PROVE  HandlerInv'
  OBVIOUS
<1>1. /\ call \in [Threads -> CallType] /\ Loop \in Threads /\ Callers \subseteq Threads
      /\ Loop \notin Callers
  BY BrokerAssumption DEF TypeInv, TypeOK, CallsType, Threads
<1>2. CASE UNCHANGED <<roomVars, call>>
  BY <1>2 DEF HandlerInv, AtStep, roomVars
<1>3. ASSUME NEW r \in Rooms, CreateRoom(r) PROVE HandlerInv'
  <2>1. /\ call' = call /\ members' = members /\ room' = [room EXCEPT ![r] = "open"]
        /\ room \in [Rooms -> {"unused", "open", "gone"}]
    BY <1>3 DEF CreateRoom, callVars, TypeInv, TypeOK, RoomType
  <2>2. \A s \in Rooms : room[s] = "open" => room'[s] = "open"
    BY <2>1
  <2>3. AtStep(Loop, {"join"}, "set") \/ AtStep(Loop, {"join"}, "add")
          => call[Loop].room \in Rooms
    BY DEF HandlerInv, AtStep
  <2> QED
    BY <2>1, <2>2, <2>3 DEF HandlerInv, AtStep
<1>4. ASSUME NEW c \in Threads, NEW x, call' = [call EXCEPT ![c] = x],
             UNCHANGED roomVars, c \in Callers => x.op \notin {"join", "leave"},
             c = Loop => /\ x.op = "join" => x.room \in Rooms
                         /\ x.step \notin {"set", "add", "drop"}
      PROVE  HandlerInv'
  <2>1. \A d \in Threads : call'[d] = IF d = c THEN x ELSE call[d]
    BY <1>1, <1>4
  <2>2. \A d \in Callers : call'[d].op \notin {"join", "leave"}
    BY <1>1, <1>4, <2>1 DEF HandlerInv
  <2>3. CASE c = Loop
    BY <1>1, <1>4, <2>1, <2>2, <2>3 DEF HandlerInv, AtStep, roomVars
  <2>4. CASE c # Loop
    <3>1. call'[Loop] = call[Loop]
      BY <1>1, <2>1, <2>4
    <3> QED
      BY <1>4, <2>2, <3>1 DEF HandlerInv, AtStep, roomVars
  <2> QED
    BY <2>3, <2>4
<1>5. CASE LoopSelect /\ call[Loop] = NoCall /\ UNCHANGED roomVars
  <2>1. CASE call' = call
    BY <1>5, <2>1 DEF HandlerInv, AtStep, roomVars
  <2>2. CASE call' = [call EXCEPT ![Loop] =
                        [NoCall EXCEPT !.op = "leave", !.step = "read",
                                       !.peer = Head(unregister)]]
    <3> DEFINE x == [NoCall EXCEPT !.op = "leave", !.step = "read",
                                   !.peer = Head(unregister)]
    <3>1. x.op = "leave" /\ x.step = "read"
      BY DEF NoCall
    <3> HIDE DEF x
    <3> QED
      BY <1>1, <1>4, <1>5, <2>2, <3>1 DEF x
  <2> QED
    BY <1>5, <2>1, <2>2 DEF LoopSelect, callVars
<1>6. ASSUME NEW c \in Threads, NEW ops \in SUBSET Ops, NEW known,
             Begin(c, ops, known), c \in Callers => ops \cap {"join", "leave"} = {}
      PROVE  HandlerInv'
  <2>1. PICK op \in ops, p \in known, r \in Rooms \cup {NoRoom} :
          /\ r \in Rooms <=> op \in RoomOps
          /\ call' = [call EXCEPT ![c] =
                     [op |-> op, step |-> FirstStep(op), peer |-> p, room |-> r,
                      todo |-> IF op = "send" THEN {p} ELSE {}]]
    BY <1>6 DEF Begin
  <2> DEFINE x == [op |-> op, step |-> FirstStep(op), peer |-> p, room |-> r,
                   todo |-> IF op = "send" THEN {p} ELSE {}]
  <2>2. x.op = op /\ x.step = FirstStep(op) /\ x.room = r /\ UNCHANGED roomVars
    BY <1>6 DEF Begin
  <2>3. FirstStep(op) \notin {"set", "add", "drop"}
    BY DEF FirstStep, Ops
  <2>4. call' = [call EXCEPT ![c] = x]
    BY <2>1
  <2>5. /\ c \in Callers => op \notin {"join", "leave"}
        /\ op = "join" => r \in Rooms
    BY <1>6, <2>1 DEF RoomOps
  <2> HIDE DEF x
  <2> QED
    BY <1>4, <2>2, <2>3, <2>4, <2>5
<1>7. ASSUME NEW c \in Threads, SendBegins(c) \/ SendCheck(c) \/ SendPush(c)
                                \/ SendReturns(c) \/ Close(c)
      PROVE  HandlerInv'
  <2>1. /\ call[c].op \notin {"join", "leave"} \/ SendCheck(c) \/ SendPush(c)
                                               \/ SendReturns(c)
        /\ UNCHANGED roomVars
    BY <1>7 DEF SendBegins, SendCheck, SendPush, SendReturns, Close, AtStep
  <2>2. \E x : /\ call' = [call EXCEPT ![c] = x]
               /\ x.op \in {call[c].op, "none"}
               /\ x.op # "none" => x.room = call[c].room
               /\ x.step \in {"none", "members", "check", "push"}
    <3> DEFINE Goal(x) == /\ call' = [call EXCEPT ![c] = x]
                          /\ x.op \in {call[c].op, "none"}
                          /\ x.op # "none" => x.room = call[c].room
                          /\ x.step \in {"none", "members", "check", "push"}
    <3>1. ASSUME NEW s \in {"members", "check", "push"}, NEW p, NEW todo,
                 Continue(c, s, p, call[c].room, todo)
          PROVE  \E x : Goal(x)
      <4>1. Goal([op |-> call[c].op, step |-> s, peer |-> p, room |-> call[c].room,
                  todo |-> todo])
        BY <3>1 DEF Continue
      <4> QED
        BY <4>1
    <3>2. ASSUME Return(c) PROVE \E x : Goal(x)
      <4>1. Goal(NoCall)
        BY <3>2 DEF Return, NoCall
      <4> QED
        BY <4>1
    <3> HIDE DEF Goal
    <3>3. \E x : Goal(x)
      BY <1>7, <3>1, <3>2 DEF SendBegins, SendCheck, SendPush, SendReturns, Close,
        SendAll, GoOn
    <3> QED
      BY <3>3 DEF Goal
  <2>3. /\ c \in Callers => call[c].op \notin {"join", "leave"}
        /\ call[Loop].op = "join" => call[Loop].room \in Rooms
    BY DEF HandlerInv
  <2> QED
    BY <1>4, <2>1, <2>2, <2>3
<1>8. ASSUME NEW c \in Threads, Call(c) PROVE HandlerInv'
  <2>1. CASE c = Loop
    BY <1>7, <1>8, <2>1, HandlerJoins, HandlerLeaves DEF Call
  <2>2. CASE c \in Callers
    <3>1. call[c].op \notin {"join", "leave"}
      BY <2>2 DEF HandlerInv
    <3>2. ~JoinRoom(c) /\ ~LeaveRoom(c)
      BY <3>1 DEF JoinRoom, LeaveRoom, LeaveFind, LeaveMember, LeaveCleanup, AtStep
    <3> QED
      BY <1>7, <1>8, <3>2 DEF Call
  <2> QED
    BY <2>1, <2>2 DEF Threads
<1>9. CASE HandlerCalls
  BY <1>1, <1>6, <1>9, BrokerAssumption DEF HandlerCalls
<1>10. ASSUME NEW c \in Callers, CallerBegins(c) PROVE HandlerInv'
  BY <1>1, <1>6, <1>10, BrokerAssumption DEF CallerBegins, SingleThreadedRooms
<1> QED
  BY <1>2, <1>3, <1>5, <1>8, <1>9, <1>10, RoomFrames

(* LeaveRoom's automatic cleanup (broker.go:263-267) drops no room that a  *)
(* peer is in when only the handlers, which the run loop calls one at a    *)
(* time, join and leave rooms, whatever the callers send and close: the    *)
(* removal, the look at the size and the deletion take three locks, and    *)
(* nothing that adds a member comes between them.                          *)
THEOREM HandlersAlwaysKeepRooms == Spec => []HandlersKeepRooms
<1>1. CASE SingleThreadedRooms
  <2>1. Init => TypeInv /\ HandlerInv
    <3>1. Init => TypeInv
      BY InitType DEF Init, TypeInv, LoopCalls, Threads
    <3>2. Init => \A c \in Threads : call[c].op = "none"
      BY DEF Init, NoCall
    <3>3. Init => \A r \in Rooms : members[r] = {}
      BY DEF Init
    <3> QED
      BY <3>1, <3>2, <3>3 DEF HandlerInv, AtStep, Threads
  <2>2. TypeInv /\ HandlerInv /\ [Next]_vars => (TypeInv /\ HandlerInv)'
    BY <1>1, TypeStep, LoopCallsStep, HandlerStep DEF TypeInv
  <2>3. HandlerInv => HandlersKeepRooms
    BY DEF HandlerInv, HandlersKeepRooms
  <2> QED
    BY <2>1, <2>2, <2>3, PTL DEF Spec
<1>2. CASE ~SingleThreadedRooms
  <2>1. HandlersKeepRooms
    BY <1>2 DEF HandlersKeepRooms
  <2> QED
    BY <2>1, PTL
<1> QED
  BY <1>1, <1>2
=============================================================================
