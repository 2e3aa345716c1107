-------------------------- MODULE MCShadowAttempts --------------------------
(* ShadowAttempts for TLC: the constants are in the AttemptsXxx.cfg files.  *)
EXTENDS ShadowAttempts
=============================================================================
