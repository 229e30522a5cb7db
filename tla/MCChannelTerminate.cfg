CONSTANTS
    Senders = {s1, s2}
    SlotIdx <- MCSlotIdx
    Frames = 2
    FailLimit = 2
    MaxRestarts = 0

SPECIFICATION Spec

PROPERTY TerminationCompletes
