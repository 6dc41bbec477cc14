--------------------------- MODULE MCMqttSession ---------------------------
(* Instance of MqttSession for model checking.                             *)
EXTENDS MqttSession
=============================================================================
