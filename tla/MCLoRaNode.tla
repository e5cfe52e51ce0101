---- MODULE MCLoRaNode ----
EXTENDS LoRaNode
====
