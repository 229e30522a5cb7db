CONSTANTS
    Order = 1
    LfringMin = 1
    Procs = {p1, p2, p3}
    Bot = Bot
    EMPTY = EMPTY
    Width = 16
    Start = 65534
    Rounds = 1

SPECIFICATION Spec

INVARIANT TypeOK
INVARIANT IndexConservation
INVARIANT NoStrandedEntry
INVARIANT EmptyJustified
SYMMETRY Symmetry
