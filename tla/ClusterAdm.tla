----------------------------- MODULE ClusterAdm -----------------------------
(***************************************************************************)
(* One step of the workflow driver ClusterAdm (add_worker.go, AddWorker   *)
(* and its helpers), as pure operators over the driver's in-memory       *)
(* AnsibleHelper.  A phase chain of N handlers is the sequence 1..N; a    *)
(* handler is identified by its position, so the name lookups of the      *)
(* source (getAddWorkerHandler, getNextAddWorkerConditionName) become     *)
(* index arithmetic.  The detail list LogDetail is a function from phase  *)
(* to detail status: setCondition keys details by task name, so a phase   *)
(* has at most one detail and re-adding a phase reuses it.               *)
(***************************************************************************)
EXTENDS Naturals

CONSTANT N                    \* length of the phase chain

Phase == 1..N

\* Status of a TaskLogDetail; "none" means the helper has no detail for it.
DetailStatus == {"none", "running", "success", "failed"}

\* Overall status carried by the AnsibleHelper and written to TaskLog.phase.
HelperStatus == {"waiting", "success", "failed"}

NoDetails == [p \in Phase |-> "none"]

\* ConditionTypeDone: returned when the current phase is the last one.
Done == 0

(***************************************************************************)
(* AnsibleHelper.setCondition: insert the detail, or overwrite the one    *)
(* with the same task name.                                               *)
(***************************************************************************)
setCondition(details, p, s) == [details EXCEPT ![p] = s]

(***************************************************************************)
(* getAddWorkerCurrentTask: with no details the first handler of the      *)
(* chain; otherwise the first detail whose status is failed or running,   *)
(* or none.  The list order of the details is the order the rows came     *)
(* back from the database, which the code does not fix, so every failed  *)
(* or running detail is a possible answer.                                *)
(***************************************************************************)
CurrentTasks(details) ==
    IF \A p \in Phase : details[p] = "none"
    THEN {1}
    ELSE {p \in Phase : details[p] \in {"failed", "running"}}

\* Mutant: the index is advanced twice, skipping a handler.
NextConditionName_skip(p) == IF p + 2 > N THEN Done ELSE p + 2

(***************************************************************************)
(* getNextAddWorkerConditionName: the handler after the current one, or   *)
(* Done when the current one is the last of the chain.                    *)
(***************************************************************************)
NextConditionName(p) == IF p = N THEN Done ELSE p + 1

(***************************************************************************)
(* The handlers of the chain (getAddWorkerHandler and the EnsureAddWorker *)
(* functions): the first, TaskStart, only sleeps and writes to the log,   *)
(* so it returns nil;                                                     *)
(* every other one runs its playbook phase and returns its error.         *)
(***************************************************************************)
HandlerOutcomes(p) == IF p = 1 THEN {TRUE} ELSE BOOLEAN

(***************************************************************************)
(* AddWorker: run the handler of phase p with outcome ok and fold the     *)
(* outcome into the helper h = [status, details].  On error the detail   *)
(* is failed and so is the helper; on success the detail is success and  *)
(* either the helper is success (chain done) or the next phase gets a    *)
(* running detail and the helper status is left as it was.               *)
(***************************************************************************)
AddWorker(h, p, ok) ==
    IF ~ok
    THEN [status |-> "failed", details |-> setCondition(h.details, p, "failed")]
    ELSE LET succeeded == setCondition(h.details, p, "success")
             next      == NextConditionName(p)
         IN  IF next = Done
             THEN [status |-> "success", details |-> succeeded]
             ELSE [status |-> h.status,
                   details |-> setCondition(succeeded, next, "running")]

=============================================================================
