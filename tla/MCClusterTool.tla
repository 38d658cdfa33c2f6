---------------------------- MODULE MCClusterTool ----------------------------
EXTENDS ClusterTool

CONSTANTS t1, t2, s1, c1

MCTools == {t1, t2}
MCSyncs == {s1}
MCVersions == {1, 2}
MCClusterUpgrades == {c1}
\* The manifest of the target version ships every tool at version 2.
MCManifest == [t \in MCTools |-> 2]
=============================================================================
