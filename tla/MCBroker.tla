------------------------------ MODULE MCBroker ------------------------------
(* Small instances of Broker for TLC.                                      *)
EXTENDS BrokerProperties

CONSTANTS p1, p2

MCPeers == {p1, p2}
=============================================================================
