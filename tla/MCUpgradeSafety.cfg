SPECIFICATION Spec
CONSTANTS
    N = 3
    r1 = r1
    r2 = r2
    r3 = r3
    r4 = r4
    Requests <- MCRequests3
    NoTask = NoTask
    NoTaskLog = NoTaskLog
    MaxCrashes = 2
    RequestCanFail = TRUE
    HookCanFail = TRUE
INVARIANTS
    TypeOK
    DependencyOrder
SYMMETRY RequestSymmetry
