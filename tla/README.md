# TLA+ models of the ClusterOperator orchestration engine

This directory holds TLA+ models of the concurrent and persistent core of
ClusterOperator (`src/pkg`), the TLC configurations that check them, and
`PROJECT.json`, which records the components, runs, mutants, the map from
definitions to source lines, the findings and the hazards.

## The system

The core is a workflow engine for long cluster operations. Its parts:

| Part | Source | What it does |
|---|---|---|
| Upgrade service | `service/cluster_upgrade.go` | `Upgrade` validates the cluster, either resumes a failed TaskLog (`RestartTask`) or creates a new one, marks the cluster `upgrading` and starts two goroutines: `doUpgrade` (driver) and `do` (reconciler). |
| Workflow driver | `service/cluster/adm/add_worker.go` (+ `ClusterAdm`, outside `src`) | One tick runs the handler of the current phase (the first detail that is `running` or `failed`, or the first phase when there are none) and records success/failure and the next phase in the in-memory `AnsibleHelper`. |
| Task log service | `service/task_log.go` | `IsTaskOn`, `Save` (upsert of the TaskLog and its details), `End`, `RestartTask`. |
| Recovery hook | `server/hook/mark_dirty.go` | At start-up, before serving, marks non-stable clusters failed, non-terminal TaskLogs failed and running details failed. |
| Host sync cron job | `cron/job/host.go` | Daily refresh of every host with a size-2 semaphore. |
| CIS scan tasks | `service/cis.go`, `model/cis_task.go` | `Create` refuses while a task is `Running`, creates the task as `Creating` and starts `Do`, which saves `Running`, creates a kube-bench Job and polls it every 5 s for 5 min, saving `Success` or `Failed`. `Delete` removes a task. |
| Cluster tools, import, registry check | `service/cluster_tool.go`, `cluster_import.go`, `system_setting.go`, `repository/system_registry.go` | Request handlers that start background goroutines writing the database. |
| Notifications | `service/msg.go`, `service/user_msg.go` | `SendMsg` looks up the subscription of a message, its users, their settings and the enabled accounts, and starts `sendUserMegs`, which creates the `Msg` row and a `UserMsg` per receiver and channel. Import and the upgrade send one on their terminal transitions. |
| Helm client | `util/helm/helm.go` | Tool install and upgrade through one chart repository entry, `nexus`, shared by every cluster's client. |

How they interact in an upgrade: the request handler and the two goroutines
share one Cluster row and one TaskLog row in the database. `doUpgrade` ticks
every 5 s and hands its helper over an **unbuffered** channel to `do`. `do`
switches on the TaskLog phase **it persisted on the previous iteration**:
`success` or `failed` end the TaskLog and the cluster and cancel the
context; otherwise it copies the helper's status and details into the TaskLog
and saves it. `doUpgrade` looks at `ctx.Done()` only after a handler has run.
A crash loses both goroutines; the next start runs `recoverClusterTask`.

## Modules

| Module | Models | State and actions |
|---|---|---|
| `ClusterAdm` | `add_worker.go` | Pure operators. The phase chain is `1..N`; details are a function `Phase -> {none, running, success, failed}` (`setCondition` keys details by task name). `CurrentTasks` = `getAddWorkerCurrentTask` (the set of every failed/running detail, because the database returns details in an unspecified order), `NextConditionName` = `getNextAddWorkerConditionName`, `AddWorker(h, p, ok)` = one handler call with outcome `ok`, where `HandlerOutcomes(p)` limits `ok` to success for the first phase (`EnsureAddWorkerTaskStart` only sleeps and logs) and allows both outcomes for every playbook phase. |
| `TaskLogService` | `task_log.go` | Pure operators over a TaskLog row: `Save` (gorm upsert by id: details that are not in the in-memory list are **kept**, not deleted), `End`, `IsTaskOn`, `ResetFailed` (the detail loop of `RestartTask`). |
| `UpgradeWorkflow` | `cluster_upgrade.go`, `task_log.go`, `mark_dirty.go` | One cluster. Variables: the database (`cluster`, `taskLog` by id, `retryLogs`), the process (`up`, `crashes`), the request handlers (`req`), the drivers (`adm`), the reconcilers (`rec`), and two history variables (`invoked`, `succeeded`: the handlers called and the ones that returned nil, per TaskLog). Each database write is one atomic step; every step between two writes that can interleave with another actor is its own action. |
| `MCUpgradeWorkflow` | – | Model values `r1..r4` for requests and the symmetry sets over three and four of them. |
| `HostSync` | `cron/job/host.go`, `cron/corn.go` | Firings `j \in Runs` of the cron entry and one goroutine per (firing, host). `job[j]` holds the loop state of `Run` (`pc`, the statuses read at the start `snap`, the hosts not yet iterated `todo`, the semaphore fill `sem`, the WaitGroup counter `wg`); `worker[j][h]` is `none`/`acquire`/`sync`/`done`. `RunStart` = `db.DB.Find(&hosts)`, `RunSpawn` = one loop iteration (skip, or `wg.Add(1)` and `go`), `RunWait` = `wg.Wait()`, `WorkerAcquire` = `sem <- struct{}{}`, `WorkerSync` = `Sync` and the deferred release and `wg.Done`. `ProvisionStart`/`ProvisionEnd` are the operations (cluster create, add worker, a manual sync) that hold a host in a transitional status. `hostService.Sync` is outside `src`; it is modelled from the spec as one save of the host as running or failed. |
| `MCHostSync` | – | Model values `h1..h3` for hosts and `j1` for the firing. |
| `CisService` | `service/cis.go`, `model/cis_task.go` | The CIS tasks of one cluster. A task created by request `r` has id `r`. `task` is each row's status or `absent`; `req` is each `Create` request's control state; `do[t]` is the `Do` goroutine (`pc`, `polls`). `CreateCheck` = the query for `Running` tasks; `CreateCommit` = the transaction (create as `Creating`, client creation that may roll back) and `go Do`; `Delete` = the delete by id, whose `BeforeDelete` hook sees an empty struct and never refuses; `DoStart` = save `Running`; `DoCreateJob` = Job creation or save `Failed`; `DoPoll` = one call of the poll condition, whose outcomes are the Job's and pods' observable states: pending (until `PollLimit` polls, then the timeout saves `Failed`), succeeded with a pod (save `Success`), succeeded with no succeeded pod (return with no save), and every error (save `Failed`). `Save` is gorm's upsert, so a save after a delete inserts the row again. `Crash` loses every goroutine and in-flight request. |
| `MCCisService` | – | Model values `c1, c2` for requests. |
| `ClusterImport` | `service/cluster_import.go` | One `Import` as a sequence of statements (`pc`). Rows are abstracted to their kinds. `buffered` holds the rows written in the transaction, and `committed` the rows in the database. `tx` is `open`, `rolledBack` or `committed`. The request's inputs (`ko` cluster, manifest found and parseable, admin user present) are chosen in `Init`. Every statement may fail. A statement on a rolled-back transaction fails (`ErrTxDone`), and `Commit` of one does nothing. `HandlerImportError` rolls back and sends a failure message through `SendMsg` of `Msg`, which reads the cluster's subscription as committed (`ClusterSub`): `NoSub` until a commit, so no failure message is ever created. `CreateProjectResource` writes outside the transaction. `Commit` ignores its error, sends the success message (the System subscription `SystemSub`), starts the sync goroutines and returns nil. The steps of `Msg` (`MsgStep`) interleave with `Import`. |
| `MCClusterImport` | – | Model values `n1, n2` for nodes and `admin, u2` for users; an enabled email account, admin reached by email, one message. |
| `Msg` | `service/msg.go`, `service/user_msg.go` | The notification collaborator, composed into `ClusterImport`. `SendMsg(sub)` takes the subscription the caller's lookup finds (`NoSub` or its users and channels): a missing one returns the error, no users or settings return nil, and otherwise `Receivers` and `SendChannels` decide the receivers and a job is started. The `sendUserMegs` job: `CreateMsg` (its failure is only logged), `CreateLocal` (a Local `UserMsg` per receiver), `SendChannel` (one iteration over the accounts: skipped, or the channel's `UserMsg`s created with `success` or `failed`), `EndSend`. `UpdateLocalMsg` and `MarkAllRead` set rows read. The users' settings and the accounts are constants. |
| `HelmRepo` | `util/helm/helm.go` | The shared repository entry (`nexus`: the registry architecture of its URL, or `None`) and the helm calls of several clusters (`call[i]`). `Begin` (Install or Upgrade), `UpdateRepo` (keep an existing entry, or add one), `SyncRepoCharts`, `AddRepo` (`GetRepoIP` of the cluster's architecture, `RepoArch`, then the write), `UpdateCharts`, `LocateChart` (the chart comes from the registry the entry names now), `Run`. No run checks it. |
| `ClusterTool` | `service/cluster_tool.go` | The tools of one cluster. `row[t]` is the tool row abstracted to status, version and higher version; `deployed[t]` is the tool's release in the cluster (a version or `None`). `gor[i]` is request `i` and the goroutine it starts (`pc`, kind, tool, the copy the goroutine saves, the helm outcome). `Enable`/`Disable`/`Upgrade` = the request handlers: every lookup before the first write may fail (`Refuse`), otherwise `toolRepo.Save` of `Initializing`/`Terminating`/`Upgrading` and `go doInstall`/`doUninstall`/`doUpgrade`; `Upgrade` of a tool with no higher version fails. `GoRun` = the helm call, `GoSave` = the final `toolRepo.Save` of the goroutine's copy (`FinalStatus`: an uninstall saves `Waiting` even when it failed). `SyncRead`/`SyncObserve`/`SyncUpdate`/`SyncDone` = `SyncStatus`: read the rows, list the workloads, then one `Updates` per row read (`Updates` keeps the stored higher version when the copy's is empty). `kubeRouter` is the cluster's kube-router spec (`ip` or `flexIp`); `EnableFlex`/`DisableFlex` = the handlers that switch it, each of which may fail before its write and leaves the tool rows alone. `tv[u]` is `updateToolVersion` of cluster upgrade request `u` (`cluster_upgrade.go`): `UpdateToolVersionRead` reads the manifest and the rows, `UpdateToolVersionSave` saves one row read, whole, with the manifest's version (a `Waiting` tool) or as its higher version, `UpdateToolVersionDone` ends the loop. |
| `MCClusterTool` | – | Model values `t1, t2` for tools, `s1` for the SyncStatus call and `c1` for the cluster upgrade; versions `1..2`, and a manifest with every tool at 2. |
| `RegistryCheck` | `service/system_setting.go` | `PageRegistry`: `Query` (count and find), `Spawn` (one loop iteration: `wg.Add(1)` and `go`), `Wait` (`wg.Wait()` and the return); per registry goroutine `Decrypt`, `Check`, and the unlocked `append` split into `AppendRead` (the slice is read) and `AppendWrite` (the slice with the item is assigned, then `wg.Done()`). The data race is restricted to its lost-update outcome. Beside the page, the registry writes: `CreateRegistry` (`Save`: an insert, refused for an existing hostname), `UpdateRegistry` (a new architecture, with no check of the clusters), `BatchRegistry` (`Batch`: delete by ids, with no check), `DeleteRegistry` (`Delete`: refused with `REGISTRY_ALREADY_USED` when a cluster's architecture, `UsedArchs`, is the registry's). `rows` and `regArch` are the table; `mos` is what the page read. |
| `MCRegistryCheck` | – | Model values `g1, g2` for registries; architectures amd64 and arm64; one amd64 cluster. |
| `Zone` | `service/zone.go` | The zone rows of one name, by id (a `Create` by request `r` writes id `r`; `NoID` is the nameless row saved from an empty `model.Zone`), each abstracted to its status and the version of its settings. `image` is whether the cloud holds the zone's image, and `uploads` counts the successful uploads. Requests: `CreateCheck`/`CreateSave` (every lookup before the save, `NAME_EXISTS`, then the save as `Initializing` with a template or `Ready` without, and `go uploadZoneImage`), `UpdateRead`/`UpdateWrite` (the row read, then saved whole with new settings), `DeleteRead`/`DeleteWrite`, `Batch` (a delete of several rows by id), `UploadRead`/`UploadSave` (a `Ready` zone returns, otherwise save `Initializing` and start the goroutine). The goroutine: `GoGet` (read the zone; on error the empty zone is kept), `GoCheck` (the reads of `uploadImage` and `ImageExist`), `GoUpload` (the FusionCompute file copies and `UploadImage`), `GoSave` (save the row read at the start as `Ready` or `UploadImageError`). Every database call may fail. The repository (`Get`, `Save`) is outside `src` and is modelled as gorm's find by name and upsert by id. |
| `MCZone` | – | Model values `q1..q3` for requests. |

Correspondence of `UpgradeWorkflow` actions to the code:

* `UpgradeLoad(r)`: lines 43–62 of `Upgrade` (status check, load of the current TaskLog, choice of resume or new task).
* `UpgradeCheckTaskOn(r)`: the `IsTaskOn` call, at line 69 or inside `RestartTask` (346). It reads the database afresh.
* `RestartTask(r)` / `NewTask(r)`: the writes of the two branches. `RestartTask` saves the snapshot loaded by `UpgradeLoad`.
* `UpgradeSaveCluster(r)`: log writer creation and `clusterRepo.Save`. Either can fail (`RequestCanFail`), and then the request returns with the TaskLog already written. On success it starts `do` and `doUpgrade`.
* `DoUpgradeTick(r)`, `DoUpgradeSend(r)`, `DoUpgradeExit(r)`: the loop of `doUpgrade`.
* `Do(r)`: one iteration of `do`'s loop after a receive.
* `Crash`, `RecoverClusterTask`, `RecoverClusterTaskFails`: the process dies. The hook runs, or one of its updates fails after the `db.DB` updates have already committed.
* `Quiescent`: every request answered and every goroutine returned. The server idles and waits for requests that the model does not issue. Deadlock checking stays on.

A request issues its upgrade once. A TaskLog created by request `r` has id
`r`, so the model needs no separate id supply.

## Runs

All runs use `N = 3` phases, which is the smallest chain with a first, a
middle and a last phase.

| Run | cfg | Bounds | Result | Shows |
|---|---|---|---|---|
| upgrade_safety | `MCUpgradeSafety.cfg` | 3 requests, 2 crashes or failed restarts, request writes and hook may fail, symmetry over requests | pass | `TypeOK`, `DependencyOrder` (no handler before its predecessors succeeded, across resumes and crashes). |
| success_early | `MCSuccessEarly.cfg` | 4 requests, 1 crash, symmetry over requests | violation | `SuccessMeansComplete` (spec 4.2, P1): an upgrade fails at phase 2, two resumes pass `IsTaskOn` together, and the second `RestartTask` saves its stale snapshot over the first driver's progress, leaving phases 2 and 3 both `running`. A crash and the hook fail both. The next resume reopens both, the driver runs phase 3 first, `getNextAddWorkerConditionName` reports Done, and `do` saves the TaskLog as `success` with phase 2 still `running`. |
| zombie_rerun | `MCUpgradeZombie.cfg` | 1 request | violation | `NoRunWhileFailed`: after a handler failed and `do` persisted `failed`, the driver ticks again and re-runs the failed handler. |
| upgrade_mutex | `MCUpgradeMutex.cfg` | 2 requests, no crash | violation | `MutualExclusion` (spec P4): two upgrades both pass `IsTaskOn` before either saves the cluster, so both succeed and two drivers run. Two resumes race the same way in `RestartTask`. |
| hostsync_safety | `MCHostSyncSafety.cfg` | 3 hosts in every initial status, semaphore 2, 1 firing, 1 provisioning operation | pass | `TypeOK`; `JoinAll` (P6: `Run` returns only after every eligible host's Sync finished); `JobReturns` (every firing returns). |
| hostsync_race | `MCHostSyncRace.cfg` | 1 firing, 1 provisioning operation | violation | `LeftAlone`: a host read as running or failed enters provisioning; its queued Sync then saves it as running over the transitional status. |
| cis_safety | `MCCisSafety.cfg` | 2 requests, 1 poll before the timeout, 1 crash | pass | `TypeOK`; `TerminalIsFinal`: a task that is `Success` or `Failed` is never saved with another status, across deletes, re-inserting saves and crashes. |
| import_atomicity | `MCImportAtomicity.cfg` | 1 import, 2 nodes, every input and every failure point | violation | `ImportAllOrNothing`: `Import` returns nil while the cluster is not stored and its project resource is, either because a failing subscription rolled the transaction back and `Import` went on, or because the ignored `Commit` failed. |
| cis_stuck | `MCCisStuck.cfg` | 2 requests, 1 crash | violation | `CisTaskEnds`: a restart while `Do` runs leaves the task `Running` forever, since the startup hook does not reset CIS tasks; a Job that succeeded with no succeeded pod (cis.go:317) ends the same way. |
| tools_left_alone | `MCToolLeftAlone.cfg` | 2 tools, versions 1..2, 1 request, 1 SyncStatus call, 1 cluster upgrade | violation | `ToolLeftAlone`: `Enable` saves `Initializing` while `doInstall` runs, and the status is overwritten. The shortest trace: a cluster upgrade's `updateToolVersion` read the rows before, and saves the row it read (`Waiting`, with the new version). With no cluster upgrade, the trace is a `SyncStatus` that read the rows, finds no release yet and writes `Waiting`. |
| zone_upload | `MCZoneUpload.cfg` | 3 requests, image absent or present | violation | `ImageUploadedOnce`: `UploadImage` of a zone that is still `Initializing` starts a second upload goroutine. Both find no image at `ImageExist` and both upload it. |
| registry_page | `MCRegistryPage.cfg` | 2 registries, created, updated and deleted beside the page | violation | `PageComplete`: two goroutines read the shared slice before either writes it, so one append is lost and the returned page lacks a registry. |

Why the bounds are enough:

* Two requests are the least that can interleave.
* The stale-snapshot race needs three: a first upgrade to fail, then two resumes. A success over a running phase needs a fourth, the resume after the crash.
* One crash exercises the whole recovery path.
* The hook failure needs a second crash budget for its failed start.
* CIS: two requests are the least for two tasks to overlap; one poll before the timeout gives both a pending poll and the timeout. The Job sets neither `completions` nor `parallelism`, so at most one pod succeeds and one outcome per poll is faithful.
* Tools: one request is enough for the race with `SyncStatus` and with `updateToolVersion`, and it keeps two unguarded requests on one tool (a separate hazard) out of the counterexample; two tools make the sync loop iterate over a row it does not change.
* Zones: three requests are the least for a `Create` and an `UploadImage` to start two goroutines while a third request updates or deletes the zone.
* Registries: two goroutines are the least that can interleave their appends; the registry writes may run before or during the page.
* Import: one message is all an `Import` can send, since its failure messages find no subscription.
* Host sync: three hosts against a semaphore of two (the code's value) is the least where a goroutine must wait for a slot; every initial status of every host is explored, so both the skip and the spawn branch of the filter are taken.

The safety run explores every interleaving of three requests with two crashes or failed restarts,
which is about 2.2M distinct states (under symmetry) in about 70 seconds.

## Fairness

* `WF` on each request's steps and each goroutine's steps. A started handler runs to its end, and the Go scheduler runs every runnable goroutine. `doUpgrade`'s sleep is finite.
* `WF` on `RecoverClusterTask`: a crashed process is restarted, for example by its supervisor.
* No upgrade liveness property is checked. That an upgrade holding the cluster eventually releases it fails as soon as a request write may fail (see "Reached but not run"), so it is not claimed.
* Host sync: `WF` on each firing's loop and wait and on each goroutine; `WF` on `ProvisionEnd` (an operation ends). Cron firings and new provisioning operations are never forced.
* CIS: `WF` on `CreateCommit` and on each `Do` goroutine. `Create`, `Delete` and crashes are never forced.
* `ClusterTool`, `RegistryCheck` and `Zone` have only safety runs and no fairness.
* No fairness on `UpgradeLoad`, `Crash` or a failing restart. Operators issue requests at will, and faults are never forced.

## Mutants

Each property of a passing run is shown to be sensitive to the code. A mutant replaces a mapped definition with a plausible bug, and TLC then finds the property violated under the run's own configuration.

| Property | Mutated definition | Mutation |
|---|---|---|
| `TypeOK` | `End` | Writes the running constant on failure. |
| `DependencyOrder` | `NextConditionName` | Skips a handler. |
| `TypeOK` (host sync) | `WorkerAcquire` | The channel has one slot too many. |
| `JoinAll` | `RunWait` | `wg.Wait()` is missing. |
| `JobReturns` | `WorkerSync` | The deferred `<-sem` is missing. |
| `TypeOK` (CIS) | `DoStart` | Saves the TaskLog status constant `RUNNING` instead of `Running`. |
| `TerminalIsFinal` | `PollSucceeded` | The condition returns false after saving `Success`, so the poll goes on and times out to `Failed`. |

## Reached but not run

The models reach further gaps that no run checks:
* An `Update` or `Delete` during a zone upload: the goroutine saves the row it read before the upload, so the update is lost or the deleted zone comes back. Nothing says what either must leave.
* A resumed upgrade that wrote `waiting` and whose cluster save then failed: no driver exists, and `IsTaskOn` refuses every later upgrade until a restart (the liveness property "an upgrade that holds the cluster releases it" fails when request writes may fail; the twelve runs have no room for it beside `zombie_rerun`, `upgrade_mutex` and `success_early`).
* A recovery hook that fails between its updates leaves a TaskLog `failed` with a `running` detail (`RecoverClusterTaskFails`; `upgrade_safety` explores it).
* Two `Enable`/`Disable`/`Upgrade` requests on one tool: none looks at the tool's status, so two helm goroutines run on one release.
* Two fresh upgrades that pass `IsTaskOn` together, so that two drivers run. `concurrent_resume` shows the same gap through `RestartTask`.
* Two overlapping cron firings with more than two Syncs in flight. A daily firing would have to last a day.
* Two CIS tasks `Creating` or `Running` at once. The check at `cis.go:135` queries only `Running`, while a new task is `Creating` until its goroutine runs, so two requests made one after the other both pass.
* `Delete` of a `Running` CIS task, after which `Do`'s `Save` inserts the row again. This can be seen at the call site.
* A failing `Import` sends its failure message before any subscription of the cluster is committed, so `Msg` never holds one (`ClusterImport`).
* A failed `Create` of the `Msg` row leaves `UserMsg`s that name no message (`Msg`); `PageLocalMsg`, which would fail on them, is not modelled.
* An amd64 cluster's tool installed after an arm64 cluster wrote the shared `nexus` entry is located in the arm64 registry (`HelmRepo`).

They are listed as hazards in `PROJECT.json`.

## Not modelled, and why

* In `UpgradeWorkflow`: message sending (modelled in `Msg`), `updateToolVersion` (modelled in `ClusterTool`), logging and the `Version` copy. Their errors are ignored, and they write no state that the workflow reads.
* The message accounts (`msg_account.go`), `PageLocalMsg` and the rendering of message templates: the accounts and user settings are constants of `Msg`.
* `ChangePassword` and the system settings: they write only data the models abstract away.
* The playbook phases. Each is one external call, modelled as the boolean outcome of a handler.
* Velero (a process wrapper nothing calls), helm's `Uninstall` and `List`, the CRUD services and the REST layer.
* `LoadClusterInfo` and the other imports' reads of the cluster: they read the API server and write nothing.
* Several clusters in the workflow and tool models. They share no rows; what they do share, the helm repository entry, is modelled in `HelmRepo`.

## Plan for the remaining components

Order, each step with its own module, MC configuration and runs:

1. **ClusterTool** (`cluster_tool.go`): *(done)* every handler of the file, `EnableFlex`/`DisableFlex` included, is an action; a crash with the hook, which does not reset tools, is left out (tools are not restarted by it).
2. *(done: `CisService`)*
3. **Start-up order** (`server.go`): the cron phase starts before the recovery hook runs; composing `HostSync` with the crash and hook of `UpgradeWorkflow` would show a firing reading hosts the hook has not yet reset.
4. *(done: `ClusterImport`)*
5. *(done: `RegistryCheck`)*
7. *(done: `Zone`)* only the read-only listings remain.
8. *(done: `Msg`, `HelmRepo`, the registry writes, `updateToolVersion`)*
6. **An abstract TaskLog** with a refinement checked only where the code keeps it: one driver and no concurrent resume. With concurrent resumes the code does not implement it (`success_early`).
