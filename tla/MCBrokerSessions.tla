-------------------------- MODULE MCBrokerSessions --------------------------
(* Connections of one client id. *)
EXTENDS BrokerSessions

CONSTANT k1

OneClient == [c \in Conn |-> k1]
BothStoppers == {"dispatcher", "monitor"}
NoStopper == {}
=============================================================================
