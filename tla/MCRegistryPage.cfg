\* Two registries, written while one page of them is read.
SPECIFICATION Spec
CONSTANTS
    g1 = g1
    g2 = g2
    Registries <- MCRegistries
    Archs <- MCArchs
    ClusterArchs <- MCClusterArchs
INVARIANT
    PageComplete
