CONSTANTS
    Senders = {s1}
    SlotIdx <- MCSlotIdx
    Frames = 2
    FailLimit = 2
    MaxRestarts = 1

SPECIFICATION Spec

INVARIANT IndexConservation
