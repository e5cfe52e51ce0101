---------------------------- MODULE MCMQTTNetwork ----------------------------
(* Model-checking instances of MQTTNetwork.                                 *)
EXTENDS MQTTNetwork
===============================================================================
