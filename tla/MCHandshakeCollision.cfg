\* A frontend joins around a backend restart.
CONSTANTS
    Apps = {a1, a2}
    NumApps = 2
    MaxRestarts = 1
    NoApp = NoApp

SPECIFICATION Spec
CHECK_DEADLOCK FALSE

INVARIANT ConnectMapsCaller
