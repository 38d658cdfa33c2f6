SPECIFICATION Spec
CONSTANTS
    N = 3
    r1 = r1
    r2 = r2
    r3 = r3
    r4 = r4
    Requests <- MCRequests4
    NoTask = NoTask
    NoTaskLog = NoTaskLog
    MaxCrashes = 1
    RequestCanFail = FALSE
    HookCanFail = FALSE
INVARIANTS
    SuccessMeansComplete
SYMMETRY RequestSymmetry4
