---------------------------- MODULE MCLoRaCollector ----------------------------
(* Model-checking instances of LoRaCollector. *)
EXTENDS LoRaCollector

CONSTANTS g1, g2, b1, b2

(* One beacon by default; a command may name one more, or another.  The    *)
(* text of the greater configuration is too long to be read back.          *)
MCDefault == {b1}
MCConfigs == {{b1, b2}, {b2}}
MCLong == {{b1, b2}}
===============================================================================
