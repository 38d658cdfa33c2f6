SPECIFICATION Spec
CONSTANTS
    h1 = h1
    h2 = h2
    h3 = h3
    j1 = j1
    Hosts <- MCHosts
    Runs <- MCRuns1
    SemSize = 2
    MaxProvisions = 1
SYMMETRY HostSymmetry
PROPERTY
    LeftAlone
