\* The backend restarts while a frontend is still booting.
CONSTANTS
    Apps = {a1, a2}
    NumApps = 2
    MaxRestarts = 1
    NoApp = NoApp

SPECIFICATION Spec
CHECK_DEADLOCK FALSE

PROPERTY RecoveryCompletes
