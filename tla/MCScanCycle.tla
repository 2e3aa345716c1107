---------------------------- MODULE MCScanCycle ----------------------------
(* A small instance of ScanCycle for TLC: three symbols, of which the      *)
(* exchange drops one or the turnover filter excludes one.                 *)
EXTENDS ScanCycle

CONSTANTS a, b, c

MCSymbols == {a, b, c}

MCUniverses == {[exchange |-> {a, b, c}, eligible |-> {a, b}],
                [exchange |-> {a, b}, eligible |-> {a, b}],
                [exchange |-> {a, b}, eligible |-> {a}]}
=============================================================================
