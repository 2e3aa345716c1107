--------------------------- MODULE MCFastMonitor ---------------------------
(* Instances of FastMonitor for TLC; the bounds are in the .cfg files.     *)
EXTENDS FastMonitor, TLC

CONSTANTS a, b, c

MCSymbols == {a, b, c}

\* One symbol's event may be replaced by another.
MCEventIds == [s \in MCSymbols |-> IF s = a THEN {1, 2} ELSE {1}]

\* The other two are alike, and nothing the run checks is temporal.
Alike == Permutations({b, c})
=============================================================================
