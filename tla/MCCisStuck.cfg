SPECIFICATION Spec
CONSTANTS
    c1 = c1
    c2 = c2
    Requests <- MCRequests
    PollLimit = 1
    MaxCrashes = 1
PROPERTY
    CisTaskEnds
