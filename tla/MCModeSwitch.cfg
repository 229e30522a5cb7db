\* Two domains, an evtchn_table of one entry, two administrator commands,
\* and one frame each way.
CONSTANTS
    Doms = {d1, d2}
    TableSize = 1
    MaxCmds = 2
    NoDom = NoDom
    Err = Err
    MaxFrames = 1
    NicDoms = {d1}

SPECIFICATION Spec
\* The system is event driven: once the commands are used up and every
\* thread sleeps, nothing is left to do.
CHECK_DEADLOCK FALSE

INVARIANT TypeOK
INVARIANT ExclusiveOwnership
PROPERTY NoSpuriousSwitch
PROPERTY SwitchServed
