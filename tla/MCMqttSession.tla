--------------------------- MODULE MCMqttSession ----------------------------
(* A small instance of MqttSession: one replica and two messages.            *)
EXTENDS MqttSession

CONSTANTS p1, m1, m2

OneReplica == {p1}
TwoMessages == {m1, m2}
=============================================================================
