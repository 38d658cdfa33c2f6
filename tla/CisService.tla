----------------------------- MODULE CisService -----------------------------
(***************************************************************************)
(* CIS benchmark tasks of one cluster (service/cis.go, model/cis_task.go): *)
(* Create requests, the Do goroutine each of them starts, Delete         *)
(* requests, and process crashes.                                        *)
(*                                                                         *)
(* A task created by Create request r has id r.  Do saves a copy of the  *)
(* task (CisTaskWithResult) with gorm's Save, which updates the row by   *)
(* id and, when no row was updated, inserts it again.  The kube-bench    *)
(* Job is outside the database: its observable outcomes at each poll are *)
(* the inputs of DoPoll.                                                  *)
(***************************************************************************)
EXTENDS Naturals, FiniteSets

CONSTANTS
    Requests,     \* Create requests (each creates at most one task)
    PollLimit,    \* polls before wait.Poll times out (5 min / 5 s in Do)
    MaxCrashes    \* bound on process crashes

VARIABLES
    task,         \* CisTask.Status by id, or "absent"
    req,          \* control state of each Create request
    do,           \* the Do goroutine of each task: [pc, polls]
    crashes

vars == <<task, req, do, crashes>>

Absent == "absent"

\* CisTaskStatusCreating, Running, Success, Failed.
Active   == {"Creating", "Running"}
Terminal == {"Success", "Failed"}

\* What one wait.Poll condition call observes of the Job and its pods.
PollOutcome == {"getError", "pending", "succeeded", "listError",
                "noSucceededPod", "logError", "reportError"}

TypeOK ==
    /\ task \in [Requests -> Active \cup Terminal \cup {Absent}]
    /\ req \in [Requests -> {"idle", "create", "done", "error", "dead"}]
    /\ do \in [Requests -> [pc : {"idle", "start", "job", "poll", "done"},
                            polls : 0..PollLimit]]
    /\ crashes \in 0..MaxCrashes

Init ==
    /\ task = [t \in Requests |-> Absent]
    /\ req = [r \in Requests |-> "idle"]
    /\ do = [t \in Requests |-> [pc |-> "idle", polls |-> 0]]
    /\ crashes = 0

\* db.DB.Save(&taskWithResult): update by id, or insert when no row matched.
Save(t, s) == task' = [task EXCEPT ![t] = s]

-----------------------------------------------------------------------------
(***************************************************************************)
(* Create.                                                                 *)
(***************************************************************************)

\* Find the tasks of the cluster whose status is StatusRunning; refuse with
\* CIS_TASK_ALREADY_RUNNING if there is one.
CreateCheck(r) ==
    /\ req[r] = "idle"
    /\ req' = [req EXCEPT ![r] = IF \E t \in Requests : task[t] = "Running"
                                 THEN "error" ELSE "create"]
    /\ UNCHANGED <<task, do, crashes>>

\* In a transaction: create the task as Creating, build the cluster client
\* (rollback and error if that fails), commit and start Do.
CreateCommit(r) ==
    /\ req[r] = "create"
    /\ \/ /\ task' = [task EXCEPT ![r] = "Creating"]
          /\ req' = [req EXCEPT ![r] = "done"]
          /\ do' = [do EXCEPT ![r].pc = "start"]
       \/ /\ req' = [req EXCEPT ![r] = "error"]
          /\ UNCHANGED <<task, do>>
    /\ UNCHANGED crashes

\* CisTask.BeforeDelete: a task whose Status is StatusRunning may not be
\* deleted ("task is running").
BeforeDelete(status) == status # "Running"

\* Delete by id and cluster: gorm calls BeforeDelete on the value passed
\* to Delete, the empty &model.CisTask{}, whose Status is "".
Delete(t) ==
    /\ task[t] # Absent
    /\ BeforeDelete("")
    /\ task' = [task EXCEPT ![t] = Absent]
    /\ UNCHANGED <<req, do, crashes>>

-----------------------------------------------------------------------------
(***************************************************************************)
(* Do goroutine of task t.                                                 *)
(***************************************************************************)

\* Save the final status and return from Do.
Finish(t, s) == Save(t, s) /\ do' = [do EXCEPT ![t].pc = "done"]

\* Mutant: the TaskLog status constant is used for the task.
DoStart_taskLogConst(t) ==
    /\ do[t].pc = "start"
    /\ Save(t, "RUNNING")
    /\ do' = [do EXCEPT ![t].pc = "job"]
    /\ UNCHANGED <<req, crashes>>

\* Status Running, saved.
DoStart(t) ==
    /\ do[t].pc = "start"
    /\ Save(t, "Running")
    /\ do' = [do EXCEPT ![t].pc = "job"]
    /\ UNCHANGED <<req, crashes>>

\* Create the kube-bench Job; on error save Failed and return.
DoCreateJob(t) ==
    /\ do[t].pc = "job"
    /\ \/ /\ do' = [do EXCEPT ![t].pc = "poll"]
          /\ UNCHANGED task
       \/ Finish(t, "Failed")
    /\ UNCHANGED <<req, crashes>>

\* Mutant: the condition returns false after saving Success, so polling
\* goes on until the timeout.
PollSucceeded_keepPolling(t) ==
    /\ Save(t, "Success")
    /\ do' = [do EXCEPT ![t].polls = IF @ < PollLimit THEN @ + 1 ELSE @]

\* A succeeded pod's log is read and its report parsed: the totals and
\* status Success are saved, and the condition returns true.
PollSucceeded(t) == Finish(t, "Success")

\* One poll.  An error of the condition or the timeout saves Failed.  A
\* succeeded Job without a succeeded pod ends the poll with no save.
\* After a poll that ends without error the Job is deleted (no row).
DoPoll(t) ==
    /\ do[t].pc = "poll"
    /\ \E o \in PollOutcome :
         CASE o = "pending" /\ do[t].polls < PollLimit ->
                 do' = [do EXCEPT ![t].polls = @ + 1] /\ UNCHANGED task
           [] o = "succeeded"      -> PollSucceeded(t)
           [] o = "noSucceededPod" -> do' = [do EXCEPT ![t].pc = "done"] /\ UNCHANGED task
           [] OTHER                -> Finish(t, "Failed")
    /\ UNCHANGED <<req, crashes>>

-----------------------------------------------------------------------------
\* The process dies and restarts: goroutines and in-flight requests are
\* gone; recoverClusterTask does not touch CIS tasks.
Crash ==
    /\ crashes < MaxCrashes
    /\ crashes' = crashes + 1
    /\ req' = [r \in Requests |-> IF req[r] = "create" THEN "dead" ELSE req[r]]
    /\ do' = [t \in Requests |-> IF do[t].pc = "idle" THEN do[t]
                                 ELSE [do[t] EXCEPT !.pc = "done"]]
    /\ UNCHANGED task

\* Every request answered and every goroutine returned.
Quiescent ==
    /\ \A r \in Requests : req[r] # "create" /\ do[r].pc \in {"idle", "done"}
    /\ UNCHANGED vars

Next ==
    \/ \E r \in Requests : CreateCheck(r) \/ CreateCommit(r)
    \/ \E t \in Requests : Delete(t) \/ DoStart(t) \/ DoCreateJob(t) \/ DoPoll(t)
    \/ Crash
    \/ Quiescent

(* A started request completes and a live goroutine keeps running;       *)
(* requests, deletions and crashes are never forced.                     *)
Fairness ==
    \A t \in Requests : /\ WF_vars(CreateCommit(t))
                        /\ WF_vars(DoStart(t) \/ DoCreateJob(t) \/ DoPoll(t))

Spec == Init /\ [][Next]_vars /\ Fairness

-----------------------------------------------------------------------------
(***************************************************************************)
(* Properties.                                                             *)
(***************************************************************************)

(* Do writes a final status once: a task that is Success or Failed is    *)
(* never saved with another status (every save of a final status in Do   *)
(* is followed by return, and wait.Poll stops once the condition         *)
(* returns true); only Delete removes it.                               *)
TerminalIsFinal ==
    [][\A t \in Requests : task[t] \in Terminal => task'[t] \in {task[t], Absent}]_vars

(* Spec section 5: the CIS job is a poll-with-timeout step, so every     *)
(* task eventually leaves Creating and Running and a later Create is not *)
(* refused forever.                                                      *)
CisTaskEnds == \A t \in Requests : task[t] \in Active ~> task[t] \notin Active

=============================================================================
