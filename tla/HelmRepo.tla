------------------------------- MODULE HelmRepo -------------------------------
(***************************************************************************)
(* The helm client of the tool goroutines (util/helm/helm.go) and its    *)
(* chart repository.  Every cluster's client shares one repository file, *)
(* helmpath.ConfigPath("repositories.yaml") of the server process, and    *)
(* in it one repository named "nexus".  Install and Upgrade add that      *)
(* entry only when it is missing (updateRepo); SyncRepoCharts, which the *)
(* tool page calls through SyncStatus, always writes it; either way its  *)
(* URL is the registry of the calling cluster's architecture.  A chart   *)
(* is then located in whatever the entry names.                           *)
(*                                                                         *)
(* The entry is abstracted to the registry architecture of its URL.  The *)
(* file lock of addRepo serialises the writes of the entry, which a     *)
(* write replaces whole: the model writes it in one step.                *)
(***************************************************************************)
EXTENDS Naturals

CONSTANTS
    Clusters,       \* clusters with tools
    ClusterArch,    \* [Clusters -> {"amd64", "arm64", "all"}]
    RegistryArchs,  \* architectures with a system registry row
    MaxCalls,       \* helm client calls in a behaviour
    None

VARIABLES
    nexus,          \* registry architecture of the "nexus" entry, or None
    call            \* [1..MaxCalls -> [pc, cluster, op, from]]

vars == <<nexus, call>>

Ops == {"install", "upgrade", "sync"}
PCs == {"idle", "list", "add", "update", "locate", "run", "done", "failed"}

TypeOK ==
    /\ nexus \in {"amd64", "arm64", None}
    /\ call \in [1..MaxCalls -> [pc : PCs, cluster : Clusters \cup {None},
                                 op : Ops \cup {None},
                                 from : {"amd64", "arm64", None}]]

Init ==
    /\ nexus = None
    /\ call = [i \in 1..MaxCalls |-> [pc |-> "idle", cluster |-> None,
                                      op |-> None, from |-> None]]

-----------------------------------------------------------------------------
\* GetRepoIP: the registry row of an amd64 cluster is the amd64 one; an
\* arm64 or mixed ("all") cluster's is the arm64 one.
RepoArch(a) == IF a = "amd64" THEN "amd64" ELSE "arm64"

\* Call i moves to pc p.
Goto(i, p) == call' = [call EXCEPT ![i].pc = p]

\* A client of cluster c calls Install or Upgrade, which run the same
\* steps: updateRepo, LocateChart, Load, Run.
Begin(i, c, op) ==
    /\ call[i].pc = "idle"
    /\ call' = [call EXCEPT ![i] = [pc |-> "list", cluster |-> c, op |-> op,
                                    from |-> None]]
    /\ UNCHANGED nexus

\* SyncRepoCharts of cluster c: addRepo, then updateCharts.
SyncRepoCharts(i, c) ==
    /\ call[i].pc = "idle"
    /\ call' = [call EXCEPT ![i] = [pc |-> "add", cluster |-> c, op |-> "sync",
                                    from |-> None]]
    /\ UNCHANGED nexus

\* updateRepo: ListRepo (an error is only logged and lists nothing); an
\* entry named "nexus" is kept as it is.
UpdateRepo(i) ==
    /\ call[i].pc = "list"
    /\ \/ nexus /= None /\ Goto(i, "locate")
       \/ Goto(i, "add")
    /\ UNCHANGED nexus

\* addRepo: read REGISTRY_PROTOCOL and the registry of the cluster's
\* architecture, take the file lock, download the index of the URL and
\* write the entry.  Any of these failing returns the error.
AddRepo(i) ==
    LET a == RepoArch(ClusterArch[call[i].cluster]) IN
    /\ call[i].pc = "add"
    /\ \/ /\ a \in RegistryArchs
          /\ nexus' = a
          /\ Goto(i, "update")
       \/ /\ Goto(i, "failed")
          /\ UNCHANGED nexus

\* updateCharts: load the file and download every repository's index,
\* each in a goroutine whose error is only logged; a file that does not
\* load returns the error.  SyncRepoCharts ends here.
UpdateCharts(i) ==
    /\ call[i].pc = "update"
    /\ \/ Goto(i, IF call[i].op = "sync" THEN "done" ELSE "locate")
       \/ Goto(i, "failed")
    /\ UNCHANGED nexus

\* LocateChart finds the chart in the repository the entry names now, or
\* fails; the chart is loaded.
LocateChart(i) ==
    /\ call[i].pc = "locate"
    /\ \/ /\ nexus /= None
          /\ call' = [call EXCEPT ![i].pc = "run", ![i].from = nexus]
       \/ Goto(i, "failed")
    /\ UNCHANGED nexus

\* client.Run installs or upgrades the release from the chart, or fails.
Run(i) ==
    /\ call[i].pc = "run"
    /\ \E p \in {"done", "failed"} : Goto(i, p)
    /\ UNCHANGED nexus

Next ==
    \/ \E i \in 1..MaxCalls :
         \/ \E c \in Clusters :
              \/ SyncRepoCharts(i, c)
              \/ \E op \in {"install", "upgrade"} : Begin(i, c, op)
         \/ UpdateRepo(i) \/ AddRepo(i) \/ UpdateCharts(i)
         \/ LocateChart(i) \/ Run(i)
    \/ /\ \A i \in 1..MaxCalls : call[i].pc \in {"done", "failed"}
       /\ UNCHANGED vars

Spec == Init /\ [][Next]_vars

=============================================================================
