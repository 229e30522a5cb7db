CONSTANTS
    Order = 2
    LfringMin = 1
    Procs = {p1, p2, c}
    P1 = p1
    P2 = p2
    Consumer = c
    Polls = 2
    Bot = Bot
    EMPTY = EMPTY
    Width = 16
    Start = 65534

SPECIFICATION Spec

INVARIANT PerProducerFifo
