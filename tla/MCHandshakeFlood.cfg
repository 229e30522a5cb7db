\* Frontends reconnect to a restarted backend.
CONSTANTS
    Apps = {a1, a2}
    NumApps = 2
    MaxRestarts = 1
    NoApp = NoApp

SPECIFICATION Spec
CHECK_DEADLOCK FALSE

INVARIANT FloodCoversSessions
