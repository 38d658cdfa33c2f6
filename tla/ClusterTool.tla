----------------------------- MODULE ClusterTool -----------------------------
(***************************************************************************)
(* The tools of one cluster (service/cluster_tool.go): the Enable,        *)
(* Disable and Upgrade requests, the install, upgrade and uninstall       *)
(* goroutines they start, and SyncStatus, which the tool page calls to     *)
(* refresh every tool's status from the cluster's deployments.  A        *)
(* cluster upgrade request (service/cluster_upgrade.go) also writes the   *)
(* tool rows, in updateToolVersion, before its workflow starts.          *)
(*                                                                         *)
(* A tool row is abstracted to its status, version and higher version.   *)
(* The cluster's side is, per tool, the version of its release or None.  *)
(* A request carries the tool as the client listed it; the model gives   *)
(* it the current row.  toolRepo.Save writes the whole row;              *)
(* db.DB.Model(..).Updates(&tool) writes the fields that are not zero.   *)
(***************************************************************************)
EXTENDS Naturals, FiniteSets

CONSTANTS
    Tools,         \* tool rows of the cluster
    Versions,      \* tool versions, ordered
    None,          \* no version / no release
    MaxRequests,   \* Enable, Disable and Upgrade requests, in all
    Syncs,         \* SyncStatus calls
    ClusterUpgrades, \* upgrade requests that reach updateToolVersion
    Manifest       \* [Tools -> Versions]: ToolVars of the target version

VARIABLES
    row,           \* ClusterTool row of each tool: [status, version, higher]
    deployed,      \* the tool's release in the cluster: a version or None
    gor,           \* the goroutine of request i: [pc, kind, tool, copy, ok]
    sync,          \* each SyncStatus call: [pc, snap, seen, todo]
    kubeRouter,    \* the cluster's SpecConf.KubeRouter: the master's "ip" or "flexIp"
    tv             \* each updateToolVersion call: [pc, snap, todo]

vars == <<row, deployed, gor, sync, kubeRouter, tv>>

Status == {"Waiting", "Initializing", "Running", "Failed", "Upgrading", "Terminating"}

Row == [status : Status, version : Versions, higher : Versions \cup {None}]

\* What SyncStatus sees of a tool: no deployment, or one that is ready or not.
Seen == {"absent", "ready", "notReady"}

NoGoroutine == [pc |-> "none", kind |-> "none", tool |-> None,
                copy |-> None, ok |-> FALSE]

TypeOK ==
    /\ row \in [Tools -> Row]
    /\ deployed \in [Tools -> Versions \cup {None}]
    /\ gor \in [1..MaxRequests ->
                  {NoGoroutine} \cup
                  [pc : {"run", "save", "done", "refused"},
                   kind : {"install", "upgrade", "uninstall", "none"},
                   tool : Tools \cup {None}, copy : Row \cup {None}, ok : BOOLEAN]]
    /\ sync \in [Syncs -> [pc : {"idle", "observe", "update", "done"},
                           snap : [Tools -> Row], seen : [Tools -> Seen],
                           todo : SUBSET Tools]]
    /\ kubeRouter \in {"ip", "flexIp"}
    /\ tv \in [ClusterUpgrades -> [pc : {"idle", "save", "done"},
                                   snap : [Tools -> Row], todo : SUBSET Tools]]

\* A tool is either not installed, at some version with maybe a higher
\* one offered, or running at the version of its release.
Init ==
    /\ \E r \in [Tools -> Row] :
         /\ \A t \in Tools : r[t].status \in {"Waiting", "Running"}
                             /\ r[t].higher \in {None} \cup {v \in Versions : r[t].version < v}
         /\ row = r
         /\ deployed = [t \in Tools |-> IF r[t].status = "Running"
                                        THEN r[t].version ELSE None]
    /\ gor = [i \in 1..MaxRequests |-> NoGoroutine]
    /\ sync = [s \in Syncs |-> [pc |-> "idle", snap |-> row, seen |-> [t \in Tools |-> "absent"],
                                todo |-> {}]]
    /\ kubeRouter \in {"ip", "flexIp"}
    /\ tv = [u \in ClusterUpgrades |-> [pc |-> "idle", snap |-> row, todo |-> {}]]

\* toolRepo.Save(&mo): the whole row.
Save(t, r) == row' = [row EXCEPT ![t] = r]

\* db.DB.Model(&model.ClusterTool{}).Updates(&tool): every field that is
\* not zero; an empty HigherVersion leaves the stored one.
Updates(t, r) ==
    row' = [row EXCEPT ![t] = [status |-> r.status, version |-> r.version,
                               higher |-> IF r.higher = None THEN @.higher ELSE r.higher]]

-----------------------------------------------------------------------------
(***************************************************************************)
(* Requests.  Each loads the cluster and picks a live master (Enable and *)
(* Upgrade: unless the cluster is external), looks up the tool detail,   *)
(* builds the tool client; any error returns before a write.  None of    *)
(* them looks at the tool's status.                                       *)
(***************************************************************************)

\* Requests not made yet, and the next one.
FreeSlots == {i \in 1..MaxRequests : gor[i] = NoGoroutine}

FreeRequest == FreeSlots # {}

NextRequest == CHOOSE i \in FreeSlots : \A k \in FreeSlots : i <= k

\* Request i returns an error before it writes anything.
Refuse(i) ==
    /\ gor' = [gor EXCEPT ![i] = [NoGoroutine EXCEPT !.pc = "refused"]]
    /\ UNCHANGED <<row, deployed, sync, kubeRouter, tv>>

\* Save the row as the request set it and start goroutine kind on copy,
\* the tool as the goroutine will save it.
Start(i, t, saved, kind, copy) ==
    /\ Save(t, saved)
    /\ gor' = [gor EXCEPT ![i] = [pc |-> "run", kind |-> kind, tool |-> t,
                                  copy |-> copy, ok |-> FALSE]]
    /\ UNCHANGED <<deployed, sync, kubeRouter, tv>>

\* Enable: Initializing is saved; doInstall gets the tool as received.
Enable(t) ==
    /\ FreeRequest
    /\ LET i == NextRequest IN
         \/ Start(i, t, [row[t] EXCEPT !.status = "Initializing"], "install", row[t])
         \/ Refuse(i)

\* Disable: Terminating is saved; doUninstall gets the tool as received.
Disable(t) ==
    /\ FreeRequest
    /\ LET i == NextRequest IN
         \/ Start(i, t, [row[t] EXCEPT !.status = "Terminating"], "uninstall", row[t])
         \/ Refuse(i)

\* Upgrade: status Upgrading, Version := HigherVersion, HigherVersion := ""
\* are set before the goroutine's copy is taken.  The tool detail of an
\* empty HigherVersion is not found, and the request returns its error.
Upgrade(t) ==
    /\ FreeRequest
    /\ LET i == NextRequest
           up == [status |-> "Upgrading", version |-> row[t].higher, higher |-> None]
       IN \/ row[t].higher # None /\ Start(i, t, up, "upgrade", up)
          \/ Refuse(i)

-----------------------------------------------------------------------------
(***************************************************************************)
(* The goroutines doInstall, doUpgrade and doUninstall: the helm call,   *)
(* then the save of the goroutine's copy with its final status.           *)
(***************************************************************************)

\* p.Install, p.Upgrade or p.Uninstall against the cluster.
GoRun(i) ==
    LET g == gor[i] IN
    /\ g.pc = "run"
    /\ \E ok \in BOOLEAN :
         /\ deployed' = [deployed EXCEPT ![g.tool] =
                           IF ~ok THEN @
                           ELSE IF g.kind = "uninstall" THEN None ELSE g.copy.version]
         /\ gor' = [gor EXCEPT ![i].pc = "save", ![i].ok = ok]
    /\ UNCHANGED <<row, sync, kubeRouter, tv>>

\* Running or Failed after an install or upgrade; Waiting after an
\* uninstall, whether it failed or not.
FinalStatus(g) ==
    IF g.kind = "uninstall" THEN "Waiting"
    ELSE IF g.ok THEN "Running" ELSE "Failed"

GoSave(i) ==
    LET g == gor[i] IN
    /\ g.pc = "save"
    /\ Save(g.tool, [g.copy EXCEPT !.status = FinalStatus(g)])
    /\ gor' = [gor EXCEPT ![i].pc = "done"]
    /\ UNCHANGED <<deployed, sync, kubeRouter, tv>>

-----------------------------------------------------------------------------
(***************************************************************************)
(* SyncStatus call s.                                                      *)
(***************************************************************************)

\* Load the cluster, build its client and read the tool rows; an error
\* returns.
SyncRead(s) ==
    /\ sync[s].pc = "idle"
    /\ \/ sync' = [sync EXCEPT ![s].pc = "observe", ![s].snap = row]
       \/ sync' = [sync EXCEPT ![s].pc = "done"]
    /\ UNCHANGED <<row, deployed, gor, kubeRouter, tv>>

\* List the namespaces and, in each, the deployments and stateful sets;
\* an error returns.  A release that exists may or may not be ready.
SyncObserve(s) ==
    /\ sync[s].pc = "observe"
    /\ \/ \E seen \in [Tools -> Seen] :
            /\ \A t \in Tools : (seen[t] = "absent") = (deployed[t] = None)
            /\ sync' = [sync EXCEPT ![s].pc = "update", ![s].seen = seen,
                                    ![s].todo = Tools]
       \/ sync' = [sync EXCEPT ![s].pc = "done"]
    /\ UNCHANGED <<row, deployed, gor, kubeRouter, tv>>

\* One iteration of the loop over the rows read: a tool whose workload
\* exists is Running when all its replicas are ready and Initializing
\* otherwise; a tool with none is Waiting, written only when the row read
\* was not Waiting.  Each write is Updates of the row read.
SyncUpdate(s, t) ==
    LET tool == sync[s].snap[t]
        seen == sync[s].seen[t]
    IN
    /\ sync[s].pc = "update"
    /\ t \in sync[s].todo
    /\ CASE seen = "ready"    -> Updates(t, [tool EXCEPT !.status = "Running"])
         [] seen = "notReady" -> Updates(t, [tool EXCEPT !.status = "Initializing"])
         [] tool.status # "Waiting" -> Updates(t, [tool EXCEPT !.status = "Waiting"])
         [] OTHER             -> UNCHANGED row
    /\ sync' = [sync EXCEPT ![s].todo = @ \ {t}]
    /\ UNCHANGED <<deployed, gor, kubeRouter, tv>>

\* The loop has ended; SyncRepoCharts writes no row.
SyncDone(s) ==
    /\ sync[s].pc = "update"
    /\ sync[s].todo = {}
    /\ sync' = [sync EXCEPT ![s].pc = "done"]
    /\ UNCHANGED <<row, deployed, gor, kubeRouter, tv>>

-----------------------------------------------------------------------------
(***************************************************************************)
(* EnableFlex and DisableFlex: the cluster and its first master are read  *)
(* (an error returns), then SaveConf writes the cluster's SpecConf with   *)
(* KubeRouter set to the master's FlexIp or Ip, or fails.  EnableFlex of  *)
(* a master with no FlexIp is refused with CLUSTER_NO_FLEX.               *)
(***************************************************************************)
EnableFlex ==
    /\ kubeRouter' \in {kubeRouter, "flexIp"}
    /\ UNCHANGED <<row, deployed, gor, sync, tv>>

DisableFlex ==
    /\ kubeRouter' \in {kubeRouter, "ip"}
    /\ UNCHANGED <<row, deployed, gor, sync, tv>>

-----------------------------------------------------------------------------
(***************************************************************************)
(* updateToolVersion of cluster upgrade request u: after the cluster is   *)
(* saved Upgrading, the manifest of the target version and the cluster's *)
(* tool rows are read (an error returns, and is only logged); each tool   *)
(* whose version differs from the manifest's is saved, whole, from the    *)
(* row read: a Waiting tool takes the new version, any other is offered   *)
(* it as HigherVersion.  A failing Save returns.                          *)
(***************************************************************************)
UpdateToolVersionRead(u) ==
    /\ tv[u].pc = "idle"
    /\ \/ tv' = [tv EXCEPT ![u] = [pc |-> "save", snap |-> row,
                                   todo |-> {t \in Tools : row[t].version # Manifest[t]}]]
       \/ tv' = [tv EXCEPT ![u].pc = "done"]
    /\ UNCHANGED <<row, deployed, gor, sync, kubeRouter>>

UpdateToolVersionSave(u, t) ==
    LET tool == tv[u].snap[t] IN
    /\ tv[u].pc = "save"
    /\ t \in tv[u].todo
    /\ \/ /\ Save(t, IF tool.status = "Waiting"
                     THEN [tool EXCEPT !.version = Manifest[t]]
                     ELSE [tool EXCEPT !.higher = Manifest[t]])
          /\ tv' = [tv EXCEPT ![u].todo = @ \ {t}]
       \/ /\ tv' = [tv EXCEPT ![u].pc = "done"]
          /\ UNCHANGED row
    /\ UNCHANGED <<deployed, gor, sync, kubeRouter>>

UpdateToolVersionDone(u) ==
    /\ tv[u].pc = "save"
    /\ tv[u].todo = {}
    /\ tv' = [tv EXCEPT ![u].pc = "done"]
    /\ UNCHANGED <<row, deployed, gor, sync, kubeRouter>>

-----------------------------------------------------------------------------
\* Every request has been answered, every goroutine has saved and every
\* SyncStatus call has returned.
Quiescent ==
    /\ \A i \in 1..MaxRequests : gor[i].pc \in {"none", "done", "refused"}
    /\ \A s \in Syncs : sync[s].pc \in {"idle", "done"}
    /\ \A u \in ClusterUpgrades : tv[u].pc \in {"idle", "done"}
    /\ UNCHANGED vars

Next ==
    \/ \E t \in Tools : Enable(t) \/ Disable(t) \/ Upgrade(t)
    \/ \E i \in 1..MaxRequests : GoRun(i) \/ GoSave(i)
    \/ \E s \in Syncs : SyncRead(s) \/ SyncObserve(s) \/ SyncDone(s)
    \/ \E s \in Syncs, t \in Tools : SyncUpdate(s, t)
    \/ EnableFlex \/ DisableFlex
    \/ \E u \in ClusterUpgrades :
         \/ UpdateToolVersionRead(u) \/ UpdateToolVersionDone(u)
         \/ \E t \in Tools : UpdateToolVersionSave(u, t)
    \/ Quiescent

Spec == Init /\ [][Next]_vars

-----------------------------------------------------------------------------
(***************************************************************************)
(* Properties.                                                             *)
(***************************************************************************)

\* The tool has a request's goroutine that has not saved yet.
InFlight(t) == \E i \in 1..MaxRequests : gor[i].tool = t /\ gor[i].pc \in {"run", "save"}

(* Spec 4.5: the background refreshers of the system (tool status sync   *)
(* among them) leave an item in a transitional status alone, so that    *)
(* they never race an operation in flight.  While the install, upgrade  *)
(* or uninstall goroutine of a tool has not saved, no step changes the  *)
(* status its request saved (SyncStatus against doInstall, doUpgrade and *)
(* doUninstall).                                                         *)
ToolLeftAlone ==
    [][\A t \in Tools : InFlight(t) /\ InFlight(t)' => row'[t].status = row[t].status]_vars

=============================================================================
