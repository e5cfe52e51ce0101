---- MODULE MCMqttSession ----
EXTENDS MqttSession
CONSTANTS u1, u2
====
