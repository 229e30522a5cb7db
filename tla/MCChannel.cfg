CONSTANTS
    Senders = {s1, s2}
    SlotIdx <- MCOneSlot
    Frames = 1
    FailLimit = 2
    MaxRestarts = 1

SPECIFICATION Spec

INVARIANT TypeOK
INVARIANT NoLostWakeup
PROPERTY FramesDelivered
