------------------------------- MODULE MCTracing -------------------------------
(* Model-checking instance of Tracing with the OLEDText and OLEDScreen in   *)
(* it: a display a twentieth as wide, half as many lines, and a ring that   *)
(* one long text and the short ones go round.                               *)
EXTENDS Tracing

AllTexts == Texts
===============================================================================
