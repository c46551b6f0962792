-------------------------- MODULE BrokerProperties --------------------------
(* What must be true of the broker, and what its documentation and tests   *)
(* say of it that is not.                                                  *)
EXTENDS Broker

CallType ==
  [op : Ops \cup {"none"},
   step : {"none", "check", "push", "find", "members", "lock", "close", "set",
           "add", "read", "remove", "clear", "size", "drop"},
   peer : Peers \cup {NoPeer}, room : Rooms \cup {NoRoom}, todo : SUBSET Peers]

Channel == {ch \in Seq(Peers) : Len(ch) <= ChannelBuf}

ControlType ==
  /\ started \in BOOLEAN /\ ctxDone \in BOOLEAN
  /\ stopper \in {"idle", "waiting", "returned"}
  /\ loop \in {"off", "select", "insert", "connected", "leave", "disconnect",
               "delete", "shutdown", "message", "cleanup", "exited"}
  /\ loopPeer \in Peers \cup {NoPeer}
  /\ loop \notin {"off", "select", "cleanup", "exited"} => loopPeer \in Peers
  /\ peers \in SUBSET Peers

ChannelType ==
  register \in Channel /\ unregister \in Channel /\ receive \in Channel

LinkType ==
  /\ accept \in [Peers -> {"new", "registering", "launching", "accepted", "refused"}]
  /\ conn \in [Peers -> {"up", "broken", "closed"}]
  /\ reader \in [Peers -> {"off", "top", "read", "deliver", "exit",
                           "unregister", "done"}]
  /\ writer \in [Peers -> {"off", "waiting", "done"}]
  /\ reads \in [Peers -> Nat]
  /\ closed \in [Peers -> BOOLEAN]
  /\ sendCh \in [Peers -> 0..SendBuf]

RoomType ==
  /\ room \in [Rooms -> {"unused", "open", "gone"}]
  /\ members \in [Rooms -> SUBSET Peers]
  /\ roomOf \in [Peers -> Rooms \cup {NoRoom}]

\* The peer map is locked by exactly the broadcasts under way.
CallsType ==
  /\ call \in [Threads -> CallType]
  /\ \A c \in Threads : call[c] # NoCall => call[c].peer \in Peers
  /\ \A c \in Threads : call[c].op \in {"sendToRoom", "roomBroadcast"} => call[c].room \in Rooms
  /\ calls \in [Threads -> Nat]
  /\ crash \in Ops \cup {"none"}
  /\ peersMu = {c \in Threads : call[c].op = "broadcast" /\ call[c].step # "lock"}

HistoryType ==
  /\ inserted \in SUBSET Peers
  /\ disconnects \in [Peers -> Nat]

\* Types, the capacity of the channels, and who holds the lock.
TypeOK ==
  /\ ControlType /\ ChannelType /\ LinkType
  /\ RoomType /\ CallsType /\ HistoryType

(* Broadcast never sends on a closed channel, whoever disconnects meanwhile*)
(* and also while the broker stops: a peer is taken out of the map before  *)
(* its channel is closed, and the map is locked while Broadcast is in it.  *)
BroadcastIsSafe == crash # "broadcast"

(* A peer whose read loop still runs stays in the map, open, from its      *)
(* registration to the end of the run loop: nobody else's disconnection,   *)
(* write error or message removes it.                                      *)
LivePeerStays ==
  \A p \in inserted :
    reader[p] \in {"top", "read", "deliver"} /\ loop # "exited"
      => p \in peers /\ ~closed[p]

(* HandleDisconnect is called once at most for a peer, and only when its   *)
(* read loop has ended.                                                    *)
OneDisconnect ==
  \A p \in Peers :
    /\ disconnects[p] <= 1
    /\ disconnects[p] = 1 => reader[p] = "done"

(* When Stop has returned the map is empty and every peer that was ever in *)
(* it is shut down, with its transport closed or broken.                   *)
StopLeavesNothing ==
  stopper = "returned" =>
    /\ peers = {}
    /\ \A p \in inserted : closed[p] /\ conn[p] # "up"

\* Thread c has written the id of p and is about to write its membership,
\* or the other way round.
Settling(c, p) ==
  /\ call[c].peer = p
  /\ \/ AtStep(c, {"join"}, "add") /\ call[c].room = roomOf[p]
     \/ AtStep(c, {"leave"}, "clear")

(* A peer that is told it is in a room is among the members that receive   *)
(* what is sent to the room, however the JoinRoom and LeaveRoom calls of   *)
(* several goroutines for that peer interleave: the id and the member list *)
(* are written under different locks, and unless a call is between the two *)
(* they agree.                                                             *)
RoomIdMeansMember ==
  \A p \in Peers :
    roomOf[p] # NoRoom =>
      p \in members[roomOf[p]] \/ \E c \in Threads : Settling(c, p)

(* A registered peer whose connection ends gets its HandleDisconnect and   *)
(* is shut down, unless the broker stops or panics first.                  *)
DisconnectIsHandled ==
  \A p \in Peers :
    p \in inserted /\ conn[p] # "up"
      ~> (disconnects[p] = 1 /\ closed[p]) \/ ctxDone \/ crash # "none"

-----------------------------------------------------------------------------
(* broker_test.go:235 says a peer is out of the map after its disconnect.  *)
(* Violated: `unregister` may be read before `register`, and the run loop  *)
(* then puts the dead peer into the map.                                   *)
DisconnectedIsGone ==
  \A p \in Peers : disconnects[p] > 0 /\ loop = "select" => p \notin peers

(* peer.go:96 and errors.go:21 answer a Send to a closed peer with         *)
(* ErrPeerClosed.  Violated: the peer may be closed after the look at      *)
(* `closed`, and the send panics.                                          *)
SendNeverPanics == crash = "none"

(* Stop (broker.go:79) stops the broker and returns, as broker_test.go:97  *)
(* expects.  Violated: nobody closes the transport of a peer that Accept   *)
(* registered while Stop ran, and Stop waits for its read loop; a read     *)
(* loop may also wait for room in `unregister` after the run loop is gone. *)
StopEnds == stopper = "waiting" ~> stopper = "returned"
=============================================================================
