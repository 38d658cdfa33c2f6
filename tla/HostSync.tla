------------------------------ MODULE HostSync ------------------------------
(***************************************************************************)
(* The host refresh cron job RefreshHostInfo.Run (cron/job/host.go),     *)
(* scheduled by InitCronPhase (cron/corn.go), against the provisioning   *)
(* operations that own a host while it is creating, initializing or      *)
(* synchronizing.                                                          *)
(*                                                                         *)
(* A firing j \in Runs of the cron entry reads every host once, spawns a  *)
(* goroutine for each host whose status it read as not transitional       *)
(* (wg.Add(1) before go), and waits on the WaitGroup.  A goroutine takes  *)
(* a slot of the firing's semaphore (a channel of capacity SemSize),      *)
(* calls hostService.Sync, gives the slot back and calls wg.Done.  robfig *)
(* cron starts each firing in its own goroutine without waiting for the   *)
(* previous one, so firings may overlap.                                  *)
(***************************************************************************)
EXTENDS Naturals, FiniteSets

CONSTANTS
    Hosts,          \* host rows
    Runs,           \* firings of the cron entry
    SemSize,        \* capacity of sem (2 in Run)
    MaxProvisions   \* bound on provisioning operations started

VARIABLES
    hostStatus,     \* Host.Status in the database
    owner,          \* a provisioning operation is in flight on the host
    provisions,     \* provisioning operations started so far
    job,            \* each firing: [pc, snap, todo, sem, wg]
    worker          \* each firing's goroutine of each host

vars == <<hostStatus, owner, provisions, job, worker>>

\* StatusCreating, StatusInitializing, StatusSynchronizing: skipped by Run.
Transitional == {"creating", "initializing", "synchronizing"}

HostStatus == Transitional \cup {"running", "failed"}

WorkerPC == {"none", "acquire", "sync", "done"}

TypeOK ==
    /\ hostStatus \in [Hosts -> HostStatus]
    /\ owner \in [Hosts -> BOOLEAN]
    /\ provisions \in 0..MaxProvisions
    /\ job \in [Runs -> [pc : {"idle", "spawn", "done"},
                         snap : [Hosts -> HostStatus],
                         todo : SUBSET Hosts,
                         sem : 0..SemSize,
                         wg : 0..Cardinality(Hosts)]]
    /\ worker \in [Runs -> [Hosts -> WorkerPC]]

\* Any host may be in any status, with an operation in flight exactly on
\* the hosts in a transitional status.
Init ==
    /\ hostStatus \in [Hosts -> HostStatus]
    /\ owner = [h \in Hosts |-> hostStatus[h] \in Transitional]
    /\ provisions = 0
    /\ job = [j \in Runs |-> [pc |-> "idle", snap |-> hostStatus, todo |-> {},
                              sem |-> 0, wg |-> 0]]
    /\ worker = [j \in Runs |-> [h \in Hosts |-> "none"]]

-----------------------------------------------------------------------------
(***************************************************************************)
(* Run of firing j.                                                        *)
(***************************************************************************)

\* The cron entry fires: db.DB.Find(&hosts) reads every host.
RunStart(j) ==
    /\ job[j].pc = "idle"
    /\ job' = [job EXCEPT ![j].pc = "spawn", ![j].snap = hostStatus,
                          ![j].todo = Hosts]
    /\ UNCHANGED <<hostStatus, owner, provisions, worker>>

\* One iteration of the range loop: skip a host read as transitional,
\* otherwise wg.Add(1) and start its goroutine.
RunSpawn(j) ==
    /\ job[j].pc = "spawn"
    /\ \E h \in job[j].todo :
         IF job[j].snap[h] \in Transitional
         THEN /\ job' = [job EXCEPT ![j].todo = @ \ {h}]
              /\ UNCHANGED worker
         ELSE /\ job' = [job EXCEPT ![j].todo = @ \ {h}, ![j].wg = @ + 1]
              /\ worker' = [worker EXCEPT ![j][h] = "acquire"]
    /\ UNCHANGED <<hostStatus, owner, provisions>>

\* Mutant: wg.Wait() is missing; Run returns once the loop has ended.
RunWait_noWait(j) ==
    /\ job[j].pc = "spawn"
    /\ job[j].todo = {}
    /\ job' = [job EXCEPT ![j].pc = "done"]
    /\ UNCHANGED <<hostStatus, owner, provisions, worker>>

\* wg.Wait() returns once every started goroutine has called wg.Done.
RunWait(j) ==
    /\ job[j].pc = "spawn"
    /\ job[j].todo = {}
    /\ job[j].wg = 0
    /\ job' = [job EXCEPT ![j].pc = "done"]
    /\ UNCHANGED <<hostStatus, owner, provisions, worker>>

\* Mutant: the channel is made with one slot too many.
WorkerAcquire_overfull(j, h) ==
    /\ worker[j][h] = "acquire"
    /\ job[j].sem <= SemSize
    /\ job' = [job EXCEPT ![j].sem = @ + 1]
    /\ worker' = [worker EXCEPT ![j][h] = "sync"]
    /\ UNCHANGED <<hostStatus, owner, provisions>>

\* sem <- struct{}{}: blocks while the channel is full.
WorkerAcquire(j, h) ==
    /\ worker[j][h] = "acquire"
    /\ job[j].sem < SemSize
    /\ job' = [job EXCEPT ![j].sem = @ + 1]
    /\ worker' = [worker EXCEPT ![j][h] = "sync"]
    /\ UNCHANGED <<hostStatus, owner, provisions>>

\* Mutant: the deferred <-sem is missing; the slot is never given back.
WorkerSync_keepSlot(j, h) ==
    /\ worker[j][h] = "sync"
    /\ \E s \in {"running", "failed"} : hostStatus' = [hostStatus EXCEPT ![h] = s]
    /\ job' = [job EXCEPT ![j].wg = @ - 1]
    /\ worker' = [worker EXCEPT ![j][h] = "done"]
    /\ UNCHANGED <<owner, provisions>>

\* hostService.Sync(name) gathers the host's facts and saves the host as
\* running, or as failed when it cannot be reached; an error is only
\* logged.  Then the deferred <-sem and wg.Done.
WorkerSync(j, h) ==
    /\ worker[j][h] = "sync"
    /\ \E s \in {"running", "failed"} : hostStatus' = [hostStatus EXCEPT ![h] = s]
    /\ job' = [job EXCEPT ![j].sem = @ - 1, ![j].wg = @ - 1]
    /\ worker' = [worker EXCEPT ![j][h] = "done"]
    /\ UNCHANGED <<owner, provisions>>

-----------------------------------------------------------------------------
(***************************************************************************)
(* Provisioning operations (cluster create, add worker, a manual host     *)
(* sync): they set a transitional status, run, and set a final status.   *)
(***************************************************************************)
ProvisionStart(h) ==
    /\ ~owner[h]
    /\ provisions < MaxProvisions
    /\ \E s \in Transitional : hostStatus' = [hostStatus EXCEPT ![h] = s]
    /\ owner' = [owner EXCEPT ![h] = TRUE]
    /\ provisions' = provisions + 1
    /\ UNCHANGED <<job, worker>>

ProvisionEnd(h) ==
    /\ owner[h]
    /\ \E s \in {"running", "failed"} : hostStatus' = [hostStatus EXCEPT ![h] = s]
    /\ owner' = [owner EXCEPT ![h] = FALSE]
    /\ UNCHANGED <<provisions, job, worker>>

\* No firing is in progress and no operation holds a host: the server
\* idles until a firing the model does not schedule.
Quiescent ==
    /\ \A j \in Runs : job[j].pc # "spawn"
    /\ \A h \in Hosts : ~owner[h]
    /\ UNCHANGED vars

Next ==
    \/ \E j \in Runs : RunStart(j) \/ RunSpawn(j) \/ RunWait(j)
    \/ \E j \in Runs, h \in Hosts : WorkerAcquire(j, h) \/ WorkerSync(j, h)
    \/ \E h \in Hosts : ProvisionStart(h) \/ ProvisionEnd(h)
    \/ Quiescent

(* The Go scheduler runs every runnable goroutine; cron firings and      *)
(* provisioning requests are never forced.                              *)
Fairness ==
    /\ \A j \in Runs : WF_vars(RunSpawn(j) \/ RunWait(j))
    /\ \A j \in Runs, h \in Hosts : WF_vars(WorkerAcquire(j, h) \/ WorkerSync(j, h))
    /\ \A h \in Hosts : WF_vars(ProvisionEnd(h))

Spec == Init /\ [][Next]_vars /\ Fairness

-----------------------------------------------------------------------------
(***************************************************************************)
(* Properties.                                                             *)
(***************************************************************************)

(* Spec P6: Run returns only after the Sync of every host it read as not  *)
(* transitional has finished, whatever the outcome of each Sync          *)
(* (wg.Add before go, wg.Done deferred, wg.Wait).                        *)
JoinAll ==
    \A j \in Runs : job[j].pc = "done" =>
        \A h \in Hosts : job[j].snap[h] \notin Transitional => worker[j][h] = "done"

(* Spec P6: the job's own completion is awaited: every firing that has   *)
(* started eventually returns, whatever Sync returns, since each         *)
(* goroutine gives its semaphore slot back and calls wg.Done.            *)
JobReturns == \A j \in Runs : job[j].pc = "spawn" ~> job[j].pc = "done"

(* Spec 4.5: hosts in a transitional status are left alone, so that the  *)
(* job never races an in-flight provisioning phase: while an operation   *)
(* holds a host, no other step changes the host's status (the status     *)
(* filter of Run against Sync's save).                                   *)
LeftAlone ==
    [][\A h \in Hosts : owner[h] /\ owner'[h] => hostStatus'[h] = hostStatus[h]]_vars

=============================================================================
