--------------------------- MODULE UpgradeWorkflow ---------------------------
(***************************************************************************)
(* The cluster-upgrade workflow of one cluster (cluster_upgrade.go), with *)
(* the database it shares with the crash-recovery hook (mark_dirty.go).   *)
(*                                                                         *)
(* Actors, each a set of actions over its own control state:              *)
(*   - Upgrade requests r \in Requests (clusterUpgradeService.Upgrade):   *)
(*     load the cluster and its current TaskLog, check IsTaskOn, either   *)
(*     RestartTask a failed upgrade or create a new TaskLog, then save the *)
(*     cluster and start the two goroutines below;                         *)
(*   - the driver goroutine doUpgrade of request r: each tick runs one     *)
(*     ClusterAdm step and hands the helper over an unbuffered channel;    *)
(*   - the reconciler goroutine do of request r: receives the helper and  *)
(*     persists it, ending the TaskLog and the cluster when its previous  *)
(*     phase was terminal;                                                 *)
(*   - the process: it may crash, losing every goroutine, and at start    *)
(*     runs recoverClusterTask before serving requests.                   *)
(* A TaskLog created by request r has id r.  Clusters do not share state, *)
(* so one cluster is modelled.                                            *)
(***************************************************************************)
EXTENDS TaskLogService, FiniteSets

CONSTANTS
    Requests,        \* upgrade requests an operator issues (each at most once)
    NoTask,          \* CurrentTaskID = ""
    NoTaskLog,       \* no TaskLog row with that id
    MaxCrashes,      \* bound on process crashes and failed restarts
    RequestCanFail,  \* whether log-writer creation / cluster save may fail
    HookCanFail      \* whether an update of recoverClusterTask may fail

VARIABLES
    cluster,         \* Cluster row: [status, currentTaskID]
    taskLog,         \* TaskLog rows by id: TaskLogRow or NoTaskLog
    retryLogs,       \* number of TaskRetryLog rows
    up,              \* the process is serving (recovery hook has run)
    crashes,         \* crashes and failed restarts so far
    req,             \* control state of each Upgrade request
    adm,             \* doUpgrade goroutine of each request
    rec,             \* do goroutine of each request
    invoked,         \* history: phases whose handler was invoked, by TaskLog
    succeeded        \* history: phases whose handler returned nil, by TaskLog

dbVars    == <<cluster, taskLog, retryLogs>>
procVars  == <<up, crashes>>
actorVars == <<req, adm, rec>>
histVars  == <<invoked, succeeded>>
vars      == <<dbVars, procVars, actorVars, histVars>>

ClusterStatus == {"running", "failed", "upgrading"}

\* stableStatus of mark_dirty.go restricted to the statuses used here.
StableStatus == {"running", "failed"}

Helper == [status : HelperStatus, details : [Phase -> DetailStatus]]

ReqPC == {"idle", "restart", "new", "restartWrite", "newWrite", "save",
          "done", "error", "dead"}

TaskID == Requests \cup {NoTask}

TypeOK ==
    /\ cluster \in [status : ClusterStatus, currentTaskID : TaskID]
    /\ taskLog \in [Requests -> TaskLogRow \cup {NoTaskLog}]
    /\ retryLogs \in Nat
    /\ up \in BOOLEAN
    /\ crashes \in 0..MaxCrashes
    /\ req \in [Requests -> [pc : ReqPC, tid : TaskID,
                             log : TaskLogRow \cup {NoTaskLog}]]
    /\ adm \in [Requests -> [pc : {"idle", "tick", "send", "exit"},
                             tid : TaskID, h : Helper]]
    /\ rec \in [Requests -> [pc : {"idle", "recv", "proc", "done"},
                             tid : TaskID, log : TaskLogRow, res : Helper,
                             cluster : [status : ClusterStatus,
                                        currentTaskID : TaskID],
                             cancelled : BOOLEAN]]
    /\ invoked \in [Requests -> SUBSET Phase]
    /\ succeeded \in [Requests -> SUBSET Phase]

EmptyLog    == [phase |-> "waiting", details |-> NoDetails]
EmptyHelper == [status |-> "waiting", details |-> NoDetails]

Init ==
    /\ cluster = [status |-> "running", currentTaskID |-> NoTask]
    /\ taskLog = [t \in Requests |-> NoTaskLog]
    /\ retryLogs = 0
    /\ up = TRUE
    /\ crashes = 0
    /\ req = [r \in Requests |-> [pc |-> "idle", tid |-> NoTask, log |-> NoTaskLog]]
    /\ adm = [r \in Requests |-> [pc |-> "idle", tid |-> NoTask, h |-> EmptyHelper]]
    /\ rec = [r \in Requests |-> [pc |-> "idle", tid |-> NoTask, log |-> EmptyLog,
                                  res |-> EmptyHelper, cluster |-> cluster,
                                  cancelled |-> FALSE]]
    /\ invoked = [t \in Requests |-> {}]
    /\ succeeded = [t \in Requests |-> {}]

TaskOn == IsTaskOn(cluster.currentTaskID, taskLog, NoTask, NoTaskLog)

-----------------------------------------------------------------------------
(***************************************************************************)
(* Upgrade request r.                                                      *)
(***************************************************************************)

\* Load the cluster, refuse unless it is running or failed, load the TaskLog
\* named by CurrentTaskID; a failed TaskLog is resumed, otherwise a new one
\* is started.
UpgradeLoad(r) ==
    /\ up
    /\ req[r].pc = "idle"
    /\ LET cur == cluster.currentTaskID
           log == IF cur # NoTask THEN taskLog[cur] ELSE NoTaskLog
       IN  req' = [req EXCEPT ![r] =
                    IF cluster.status \notin {"running", "failed"}
                    THEN [@ EXCEPT !.pc = "error"]
                    ELSE [pc  |-> IF log # NoTaskLog /\ log.phase = "failed"
                                  THEN "restart" ELSE "new",
                          tid |-> cur,
                          log |-> log]]
    /\ UNCHANGED <<dbVars, procVars, adm, rec, histVars>>

\* IsTaskOn, read afresh from the database, in RestartTask or in Upgrade.
UpgradeCheckTaskOn(r) ==
    /\ up
    /\ req[r].pc \in {"restart", "new"}
    /\ req' = [req EXCEPT ![r].pc =
                 IF TaskOn THEN "error"
                 ELSE IF @ = "restart" THEN "restartWrite" ELSE "newWrite"]
    /\ UNCHANGED <<dbVars, procVars, adm, rec, histVars>>

\* RestartTask after its checks: one TaskRetryLog, failed details of the
\* loaded log back to running, phase waiting, Save.
RestartTask(r) ==
    LET t   == req[r].tid
        log == [phase |-> "waiting", details |-> ResetFailed(req[r].log.details)]
    IN  /\ up
        /\ req[r].pc = "restartWrite"
        /\ retryLogs' = retryLogs + 1
        /\ taskLog' = [taskLog EXCEPT ![t] = Save(@, log.phase, log.details)]
        /\ req' = [req EXCEPT ![r].pc = "save", ![r].log = log]
        /\ UNCHANGED <<cluster, procVars, adm, rec, histVars>>

\* A new TaskLog of type upgrade in phase waiting, saved with id r.
NewTask(r) ==
    /\ up
    /\ req[r].pc = "newWrite"
    /\ taskLog' = [taskLog EXCEPT ![r] = EmptyLog]
    /\ req' = [req EXCEPT ![r] = [pc |-> "save", tid |-> r, log |-> EmptyLog]]
    /\ UNCHANGED <<cluster, retryLogs, procVars, adm, rec, histVars>>

\* Create the log writer and save the cluster as upgrading with
\* CurrentTaskID set; on success start do, which starts doUpgrade with a
\* helper built from the in-memory TaskLog.  Either call may fail, and
\* then the request returns an error with the TaskLog already written.
UpgradeSaveCluster(r) ==
    LET c == [status |-> "upgrading", currentTaskID |-> req[r].tid]
    IN  /\ up
        /\ req[r].pc = "save"
        /\ \/ /\ cluster' = c
              /\ req' = [req EXCEPT ![r].pc = "done"]
              /\ adm' = [adm EXCEPT ![r] =
                          [pc |-> "tick", tid |-> req[r].tid,
                           h  |-> [status  |-> req[r].log.phase,
                                   details |-> req[r].log.details]]]
              /\ rec' = [rec EXCEPT ![r] =
                          [pc |-> "recv", tid |-> req[r].tid, log |-> req[r].log,
                           res |-> EmptyHelper, cluster |-> c, cancelled |-> FALSE]]
           \/ /\ RequestCanFail
              /\ req' = [req EXCEPT ![r].pc = "error"]
              /\ UNCHANGED <<cluster, adm, rec>>
        /\ UNCHANGED <<taskLog, retryLogs, procVars, histVars>>

-----------------------------------------------------------------------------
(***************************************************************************)
(* doUpgrade goroutine of request r.                                       *)
(***************************************************************************)

\* One tick: ad.OnUpgrade(&aHelper), i.e. one ClusterAdm step.  Without a
\* current task the step does nothing; otherwise the handler of the
\* current phase runs against the hosts and succeeds or fails.
DoUpgradeTick(r) ==
    LET h == adm[r].h
        t == adm[r].tid
    IN  /\ up
        /\ adm[r].pc = "tick"
        /\ \/ /\ CurrentTasks(h.details) = {}
              /\ adm' = [adm EXCEPT ![r].pc = "send"]
              /\ UNCHANGED histVars
           \/ \E p \in CurrentTasks(h.details) : \E ok \in HandlerOutcomes(p) :
                /\ adm' = [adm EXCEPT ![r].pc = "send", ![r].h = AddWorker(h, p, ok)]
                /\ invoked' = [invoked EXCEPT ![t] = @ \cup {p}]
                /\ succeeded' = IF ok THEN [succeeded EXCEPT ![t] = @ \cup {p}]
                                      ELSE succeeded
        /\ UNCHANGED <<dbVars, procVars, req, rec>>

\* select: hand the helper to do over the unbuffered channel, or return
\* once the context is cancelled.  Then sleep and tick again.
DoUpgradeSend(r) ==
    /\ up
    /\ adm[r].pc = "send"
    /\ ~rec[r].cancelled
    /\ rec[r].pc = "recv"
    /\ rec' = [rec EXCEPT ![r].pc = "proc", ![r].res = adm[r].h]
    /\ adm' = [adm EXCEPT ![r].pc = "tick"]
    /\ UNCHANGED <<dbVars, procVars, req, histVars>>

DoUpgradeExit(r) ==
    /\ up
    /\ adm[r].pc = "send"
    /\ rec[r].cancelled
    /\ adm' = [adm EXCEPT ![r].pc = "exit"]
    /\ UNCHANGED <<dbVars, procVars, req, rec, histVars>>

-----------------------------------------------------------------------------
(***************************************************************************)
(* do goroutine of request r: switch on the phase of its in-memory TaskLog *)
(* (the phase stored by the previous iteration), not on the result.       *)
(***************************************************************************)
Do(r) ==
    LET me  == rec[r]
        t   == me.tid
        res == me.res
    IN  /\ up
        /\ me.pc = "proc"
        /\ CASE me.log.phase = "success" ->
                  LET log == End(me.log, TRUE)
                      c   == [me.cluster EXCEPT !.status = "running",
                                                !.currentTaskID = NoTask]
                  IN  /\ taskLog' = [taskLog EXCEPT ![t] = Save(@, log.phase, log.details)]
                      /\ cluster' = c
                      /\ rec' = [rec EXCEPT ![r] = [me EXCEPT !.pc = "done", !.log = log,
                                                    !.cluster = c, !.cancelled = TRUE]]
             [] me.log.phase = "failed" ->
                  LET log == End(me.log, FALSE)
                      c   == [me.cluster EXCEPT !.status = "failed"]
                  IN  /\ taskLog' = [taskLog EXCEPT ![t] = Save(@, log.phase, log.details)]
                      /\ cluster' = c
                      /\ rec' = [rec EXCEPT ![r] = [me EXCEPT !.pc = "done", !.log = log,
                                                    !.cluster = c, !.cancelled = TRUE]]
             [] OTHER ->
                  LET log == [phase |-> res.status, details |-> res.details]
                  IN  /\ taskLog' = [taskLog EXCEPT ![t] = Save(@, log.phase, log.details)]
                      /\ rec' = [rec EXCEPT ![r].pc = "recv", ![r].log = log]
                      /\ UNCHANGED cluster
        /\ UNCHANGED <<retryLogs, procVars, req, adm, histVars>>

-----------------------------------------------------------------------------
(***************************************************************************)
(* Process crash and the start-up hook recoverClusterTask.                 *)
(***************************************************************************)

\* The process dies: every in-flight request and every goroutine is gone.
Crash ==
    /\ up
    /\ crashes < MaxCrashes
    /\ up' = FALSE
    /\ crashes' = crashes + 1
    /\ req' = [r \in Requests |->
                 IF req[r].pc \in {"idle", "done", "error"} THEN req[r]
                 ELSE [req[r] EXCEPT !.pc = "dead"]]
    /\ adm' = [r \in Requests |->
                 IF adm[r].pc = "idle" THEN adm[r] ELSE [adm[r] EXCEPT !.pc = "exit"]]
    /\ rec' = [r \in Requests |->
                 IF rec[r].pc = "idle" THEN rec[r] ELSE [rec[r] EXCEPT !.pc = "done"]]
    /\ UNCHANGED <<dbVars, histVars>>

\* The three updates of recoverClusterTask that concern this workflow.
FailCluster(c) ==
    IF c.status \in StableStatus THEN c ELSE [c EXCEPT !.status = "failed"]
FailTaskLogs(tl) ==
    [t \in Requests |-> IF tl[t] = NoTaskLog \/ Terminal(tl[t]) THEN tl[t]
                        ELSE [tl[t] EXCEPT !.phase = "failed"]]
FailRunningDetails(tl) ==
    [t \in Requests |-> IF tl[t] = NoTaskLog THEN tl[t]
                        ELSE [tl[t] EXCEPT !.details =
                               [p \in Phase |-> IF @[p] = "running" THEN "failed" ELSE @[p]]]]

\* The hook commits; the server starts.
RecoverClusterTask ==
    /\ ~up
    /\ cluster' = FailCluster(cluster)
    /\ taskLog' = FailRunningDetails(FailTaskLogs(taskLog))
    /\ up' = TRUE
    /\ UNCHANGED <<retryLogs, crashes, actorVars, histVars>>

\* An update of the hook fails: tx.Rollback() undoes only what went through
\* tx (the details); the cluster and TaskLog updates, issued on db.DB, are
\* already committed.  Start() returns the error and the process exits.
RecoverClusterTaskFails ==
    /\ HookCanFail
    /\ ~up
    /\ crashes < MaxCrashes
    /\ crashes' = crashes + 1
    /\ \/ UNCHANGED <<cluster, taskLog>>
       \/ cluster' = FailCluster(cluster) /\ UNCHANGED taskLog
       \/ cluster' = FailCluster(cluster) /\ taskLog' = FailTaskLogs(taskLog)
    /\ UNCHANGED <<retryLogs, up, actorVars, histVars>>

-----------------------------------------------------------------------------
RequestStep(r) ==
    \/ UpgradeCheckTaskOn(r)
    \/ RestartTask(r)
    \/ NewTask(r)
    \/ UpgradeSaveCluster(r)

GoroutineStep(r) ==
    \/ DoUpgradeTick(r)
    \/ DoUpgradeSend(r)
    \/ DoUpgradeExit(r)
    \/ Do(r)

(* Every request has been answered and every goroutine has returned: the *)
(* server idles, waiting for requests the model does not issue.          *)
Quiescent ==
    /\ up
    /\ \A r \in Requests : /\ req[r].pc \in {"idle", "done", "error", "dead"}
                          /\ adm[r].pc \in {"idle", "exit"}
                          /\ rec[r].pc \in {"idle", "done"}
    /\ UNCHANGED vars

Next ==
    \/ \E r \in Requests : UpgradeLoad(r) \/ RequestStep(r) \/ GoroutineStep(r)
    \/ Crash
    \/ RecoverClusterTask
    \/ RecoverClusterTaskFails
    \/ Quiescent

(***************************************************************************)
(* Fairness: a started request runs to its end and a live goroutine keeps *)
(* stepping (the Go scheduler runs every runnable goroutine); a crashed   *)
(* process is restarted.  Operators issue requests at will, and crashes   *)
(* and failing restarts are never forced.                                 *)
(***************************************************************************)
Fairness ==
    /\ \A r \in Requests : WF_vars(RequestStep(r)) /\ WF_vars(GoroutineStep(r))
    /\ WF_vars(RecoverClusterTask)

Spec == Init /\ [][Next]_vars /\ Fairness

-----------------------------------------------------------------------------
(***************************************************************************)
(* Properties.                                                             *)
(***************************************************************************)

(* The phase chain encodes infrastructure dependencies: no handler of a   *)
(* TaskLog is ever invoked before every earlier handler of the chain has *)
(* succeeded for that TaskLog (AddWorker, getNextAddWorkerConditionName,  *)
(* RestartTask and recoverClusterTask together), whatever crashes,        *)
(* resumes and concurrent goroutines happen in between.                   *)
DependencyOrder ==
    \A t \in Requests : \A p \in invoked[t] : \A q \in 1..(p - 1) : q \in succeeded[t]

(* Spec 4.2 and P1: the TaskLog becomes success only when no handler of *)
(* the chain remains, so a TaskLog persisted as success has a success    *)
(* detail for every phase (do's End(true) after AddWorker reported Done, *)
(* across resumes, crashes and the recovery hook).                       *)
SuccessMeansComplete ==
    \A t \in Requests :
        taskLog[t] # NoTaskLog /\ taskLog[t].phase = "success"
            => \A p \in Phase : taskLog[t].details[p] = "success"

(* No handler runs while the TaskLog it belongs to is persisted as failed: *)
(* after a failure there is no retry inside the driver, only through an   *)
(* operator resume (spec 4.2, doUpgrade/do in cluster_upgrade.go).        *)
InvokesHandler(r) ==
    /\ adm[r].pc = "tick"
    /\ invoked' # invoked \/ succeeded' # succeeded \/ adm'[r].h # adm[r].h
NoRunWhileFailed ==
    [][\A r \in Requests :
         InvokesHandler(r) /\ taskLog[adm[r].tid] # NoTaskLog
             => taskLog[adm[r].tid].phase # "failed"]_vars

(* Spec P4 and section 5: of two concurrent start or resume requests for  *)
(* the cluster exactly one succeeds and the other fails with              *)
(* TASK_IN_EXECUTION, the IsTaskOn check of Upgrade and RestartTask.  No  *)
(* two requests are at once past that check and short of the cluster     *)
(* save that makes their TaskLog the current one.                         *)
PastTaskOn(r) == req[r].pc \in {"restartWrite", "newWrite", "save"}
MutualExclusion == \A r, s \in Requests : PastTaskOn(r) /\ PastTaskOn(s) => r = s

=============================================================================
