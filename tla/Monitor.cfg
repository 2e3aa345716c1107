\* Three symbols, one with two events in turn; polls of two candidates.
SPECIFICATION Spec
CONSTANTS
    a = a
    b = b
    c = c
    Symbols <- MCSymbols
    MaxActive = 2
    TTL = 1
    EventIds <- MCEventIds
SYMMETRY Alike
INVARIANTS
    OneCandidatePerSymbol
    ExpiredStaysOut
    TurnComesRound
CHECK_DEADLOCK FALSE
