--------------------------- MODULE MCEventSignals ---------------------------
(* EventSignals for TLC: the constants are in the SignalsXxx.cfg files.     *)
EXTENDS EventSignals
=============================================================================
