--------------------------- MODULE MCRegistryCheck ---------------------------
EXTENDS RegistryCheck

CONSTANTS g1, g2

MCRegistries == {g1, g2}

\* The two registry architectures, and one amd64 cluster.
MCArchs == {"amd64", "arm64"}

MCClusterArchs == {"amd64"}
=============================================================================
