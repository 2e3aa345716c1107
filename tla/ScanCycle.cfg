\* Three cycles of two processes; a shortlist of one of two eligible symbols.
SPECIFICATION Spec
CONSTANTS
    a = a
    b = b
    c = c
    Symbols <- MCSymbols
    Universes <- MCUniverses
    ShortlistSize = 1
    MaxActive = 1
    MaxCycles = 3
    MaxRuntimes = 2
INVARIANTS
    TypeOK
    ClosedStatusTellsWhy
    CompletedMeansCovered
    PreparedRotationIsOpen
    LedgerBacksResults
PROPERTIES
    HistoryStands
CHECK_DEADLOCK FALSE
