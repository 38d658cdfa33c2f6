--------------------------- MODULE TaskLogService ---------------------------
(***************************************************************************)
(* The persisted task-log operations of taskLogService (task_log.go) as   *)
(* operators over database rows.  A TaskLog row is [phase, details]; the  *)
(* details are its TaskLogDetail rows keyed by phase.                     *)
(***************************************************************************)
EXTENDS ClusterAdm

\* Values of TaskLog.phase written by the code modelled here.
TaskPhase == {"waiting", "success", "failed"}

TaskLogRow == [phase : TaskPhase, details : [Phase -> DetailStatus]]

\* A TaskLog is terminal when its phase is success or failed.
Terminal(row) == row.phase \in {"success", "failed"}

(***************************************************************************)
(* Save / db.DB.Save(log): gorm writes the TaskLog row and saves each     *)
(* detail of the in-memory list by its id; rows of the table that are     *)
(* not in the list are left as they are.                                  *)
(***************************************************************************)
Save(dbRow, phase, details) ==
    [phase   |-> phase,
     details |-> [p \in Phase |-> IF details[p] # "none"
                                  THEN details[p] ELSE dbRow.details[p]]]

\* Mutant: the failure branch writes the running status constant.
End_runningConstant(log, success) ==
    LET status == IF success THEN "success" ELSE "running"
    IN  [phase   |-> status,
         details |-> [p \in Phase |-> IF log.details[p] = "running"
                                      THEN status ELSE log.details[p]]]

(***************************************************************************)
(* End(log, success, message): the phase becomes success or failed, every *)
(* running detail of the in-memory log takes the same status, and the log *)
(* is saved.  Returns the in-memory log after the call.                   *)
(***************************************************************************)
End(log, success) ==
    LET status == IF success THEN "success" ELSE "failed"
    IN  [phase   |-> status,
         details |-> [p \in Phase |-> IF log.details[p] = "running"
                                      THEN status ELSE log.details[p]]]

(***************************************************************************)
(* IsTaskOn(clusterName): a task is on when the cluster's CurrentTaskID  *)
(* names a TaskLog whose phase is neither failed nor success.  taskLog   *)
(* maps ids to rows or to NoTaskLog when no such row exists.             *)
(***************************************************************************)
IsTaskOn(currentTaskID, taskLog, NoTask, NoTaskLog) ==
    /\ currentTaskID # NoTask
    /\ taskLog[currentTaskID] # NoTaskLog
    /\ ~Terminal(taskLog[currentTaskID])

(***************************************************************************)
(* RestartTask, the in-memory part: every failed detail is reset to       *)
(* running (message cleared, fresh start time) and the phase to waiting.  *)
(***************************************************************************)
ResetFailed(details) ==
    [p \in Phase |-> IF details[p] = "failed" THEN "running" ELSE details[p]]

=============================================================================
