\* Two tools at any installed or offered version, one Enable, Disable or
\* Upgrade request, one SyncStatus call of the tool page and one cluster
\* upgrade request that updates the tool versions.
SPECIFICATION Spec
CONSTANTS
    t1 = t1
    t2 = t2
    s1 = s1
    c1 = c1
    ClusterUpgrades <- MCClusterUpgrades
    Manifest <- MCManifest
    None = None
    Tools <- MCTools
    Versions <- MCVersions
    Syncs <- MCSyncs
    MaxRequests = 1
PROPERTY
    ToolLeftAlone
