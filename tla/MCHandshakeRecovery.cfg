\* Three frontends boot against a roster of two, and the network domain may
\* restart once.  No symmetry: JoinCompletes is a liveness property.
CONSTANTS
    Apps = {a1, a2, a3}
    NumApps = 2
    MaxRestarts = 1
    NoApp = NoApp

SPECIFICATION Spec
\* The control plane is event driven: once every handshake is done, nothing
\* is left to do.
CHECK_DEADLOCK FALSE

INVARIANT TypeOK
INVARIANT SleepIffIdle
INVARIANT BackendNeverHalts
INVARIANT ReconnectionCounts
INVARIANT ConnectInBounds
INVARIANT ConnectMapsCallerBeforeRestart
PROPERTY JoinCompletes
