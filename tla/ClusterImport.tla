---------------------------- MODULE ClusterImport ----------------------------
(***************************************************************************)
(* clusterImportService.Import (service/cluster_import.go): the rows of an *)
(* imported cluster are created in one gorm transaction tx, and one row,   *)
(* the project resource of the cluster, through a repository that writes  *)
(* outside it.                                                             *)
(*                                                                         *)
(* Rows are abstracted to their kinds.  Every statement may fail with a   *)
(* database error; a statement on a transaction that was rolled back      *)
(* fails with sql.ErrTxDone, and Commit of such a transaction does         *)
(* nothing (its error is ignored by Import).                               *)
(*                                                                         *)
(* The messages Import sends go through the notification collaborator,   *)
(* the module Msg: SendMsg reads the subscription with db.DB, so it sees *)
(* the committed rows only.                                               *)
(***************************************************************************)
EXTENDS FiniteSets, Msg

CONSTANTS
    Nodes,       \* nodes of the imported cluster
    Admin,       \* the user named admin
    SystemSub    \* the subscription of ClusterImport messages of scope
                 \* System, created outside Import

VARIABLES
    pc,          \* the statement Import executes next
    input,       \* [ko, manifest, admin]: the request and the rows it reads
    todo,        \* nodes the node loop has not created yet
    tx,          \* "open", "rolledBack" or "committed"
    buffered,    \* row kinds written in tx
    committed,   \* row kinds in the database
    result,      \* what Import returned
    synced       \* the host and component sync goroutines were started

vars == <<pc, input, todo, tx, buffered, committed, result, synced, msgVars>>

\* The kinds of row Import writes.
Kind == {"secret", "cluster", "host", "node", "clusterResource",
         "hostProjectResource", "spec", "tool", "subscribe",
         "subscribeUser", "clusterProjectResource"}

PC == {"start", "secret", "cluster", "nodes", "specs", "manifest", "tools",
       "subscribe", "subscribeUser", "projectResource", "commit", "returned"}

\* ko: IsKoCluster; manifest: a manifest for the version exists, its
\* ToolVars parse; admin: the admin user exists.
Input == [ko : BOOLEAN, manifest : {"none", "ok", "bad"}, admin : BOOLEAN]

TypeOK ==
    /\ pc \in PC
    /\ input \in Input
    /\ todo \subseteq Nodes
    /\ tx \in {"none", "open", "rolledBack", "committed"}
    /\ buffered \subseteq Kind
    /\ committed \subseteq Kind
    /\ result \in {"none", "nil", "error"}
    /\ MsgTypeOK
    /\ synced \in BOOLEAN

Init ==
    /\ pc = "start"
    /\ input \in Input
    /\ todo = Nodes
    /\ tx = "none"
    /\ buffered = {}
    /\ committed = {}
    /\ result = "none"
    /\ MsgInit
    /\ synced = FALSE

-----------------------------------------------------------------------------
(***************************************************************************)
(* gorm transaction semantics.                                              *)
(***************************************************************************)

\* tx.Create of rows of the kinds ks succeeds: only on an open transaction.
TxCreate(ks) == tx = "open" /\ buffered' = buffered \cup ks

\* tx.Rollback(): the buffered rows are dropped; on a finished transaction
\* it returns ErrTxDone, which nobody reads.
Rollback ==
    /\ tx' = IF tx = "open" THEN "rolledBack" ELSE tx
    /\ buffered' = {}

\* The subscription the failure message of the cluster reads: the one
\* Import creates (model.NewMsgSubscribe: Local only) with its admin user,
\* once committed.
ClusterSub ==
    IF "subscribe" \in committed
    THEN [users |-> IF "subscribeUser" \in committed THEN {Admin} ELSE {},
          conf |-> {Local}]
    ELSE NoSub

\* handlerImportError: rollback and a failure message of scope Cluster.
HandlerImportError == Rollback /\ SendMsg(ClusterSub)

\* Return err.
ReturnError == pc' = "returned" /\ result' = "error"

\* A statement of tx fails: rollback, message, return err.
FailAndReturn ==
    /\ HandlerImportError /\ ReturnError
    /\ UNCHANGED <<input, todo, committed, synced>>

\* A statement of tx fails on a path that rolls back without a message.
RollbackAndReturn ==
    /\ Rollback /\ ReturnError
    /\ UNCHANGED <<input, todo, committed, synced>> /\ UNCHANGED msgVars

\* A statement of tx succeeds and Import goes on at statement next.
Step(ks, next) ==
    /\ TxCreate(ks) /\ pc' = next
    /\ UNCHANGED <<input, todo, tx, committed, result, synced>> /\ UNCHANGED msgVars

-----------------------------------------------------------------------------
(***************************************************************************)
(* Import.                                                                  *)
(***************************************************************************)

\* Load the project and convert the request; begin the transaction.
Start ==
    /\ pc = "start"
    /\ \/ /\ pc' = "secret" /\ tx' = "open"
          /\ UNCHANGED <<input, todo, buffered, committed, result, synced>> /\ UNCHANGED msgVars
       \/ /\ ReturnError
          /\ UNCHANGED <<input, todo, tx, buffered, committed, synced>> /\ UNCHANGED msgVars

\* Create the secret, then the cluster; an error rolls back and returns.
CreateSecret ==
    /\ pc = "secret"
    /\ Step({"secret"}, "cluster") \/ RollbackAndReturn

CreateCluster ==
    /\ pc = "cluster"
    /\ Step({"cluster"}, "nodes") \/ RollbackAndReturn

\* One iteration of the node loop.  A ko cluster: host, cluster node,
\* cluster resource and project resource of the host; another cluster:
\* its node gathered from the API server (gatherClusterInfo, which may
\* fail before the loop).  An error goes to handlerImportError and
\* returns.
CreateNode(n) ==
    /\ pc = "nodes"
    /\ n \in todo
    /\ \/ /\ TxCreate(IF input.ko
                      THEN {"host", "node", "clusterResource", "hostProjectResource"}
                      ELSE {"node"})
          /\ todo' = todo \ {n}
          /\ UNCHANGED <<pc, input, tx, committed, result, synced>> /\ UNCHANGED msgVars
       \/ FailAndReturn

NodesDone ==
    /\ pc = "nodes"
    /\ todo = {}
    /\ pc' = "specs"
    /\ UNCHANGED <<input, todo, tx, buffered, committed, result, synced>> /\ UNCHANGED msgVars

\* SpecConf, SpecRuntime, SpecNetwork and tx.Save(&cluster): an error
\* rolls back and returns without a message.
CreateSpecs ==
    /\ pc = "specs"
    /\ Step({"spec"}, "manifest") \/ RollbackAndReturn

\* The manifest of the version is looked up (a miss is only logged); its
\* ToolVars that do not parse go to handlerImportError and return.
ReadManifest ==
    /\ pc = "manifest"
    /\ IF input.manifest = "bad"
       THEN FailAndReturn
       ELSE /\ pc' = "tools"
            /\ UNCHANGED <<input, todo, tx, buffered, committed, result, synced>> /\ UNCHANGED msgVars

CreateTools ==
    /\ pc = "tools"
    /\ Step({"tool"}, "subscribe") \/ FailAndReturn

\* The message subscription: an error goes to handlerImportError, and
\* Import goes on.
CreateSubscribe ==
    /\ pc = "subscribe"
    /\ \/ Step({"subscribe"}, "subscribeUser")
       \/ /\ HandlerImportError /\ pc' = "subscribeUser"
          /\ UNCHANGED <<input, todo, committed, result, synced>>

\* The admin user is read with db.DB; if it exists its subscription is
\* created in tx, and an error goes to handlerImportError, and Import goes
\* on.
CreateSubscribeUser ==
    /\ pc = "subscribeUser"
    /\ \/ /\ ~input.admin /\ pc' = "projectResource"
          /\ UNCHANGED <<input, todo, tx, buffered, committed, result, synced>> /\ UNCHANGED msgVars
       \/ /\ input.admin
          /\ Step({"subscribeUser"}, "projectResource")
       \/ /\ input.admin
          /\ HandlerImportError /\ pc' = "projectResource"
          /\ UNCHANGED <<input, todo, committed, result, synced>>

\* projectResourceRepository.Create writes with its own handle, outside
\* tx; an error goes to handlerImportError and returns.
CreateProjectResource ==
    /\ pc = "projectResource"
    /\ \/ /\ committed' = committed \cup {"clusterProjectResource"}
          /\ pc' = "commit"
          /\ UNCHANGED <<input, todo, tx, buffered, result, synced>> /\ UNCHANGED msgVars
       \/ FailAndReturn

\* tx.Commit(), whose error is ignored; the success message, the two sync
\* goroutines, return nil.
Commit ==
    /\ pc = "commit"
    /\ \/ /\ tx = "open" /\ tx' = "committed"
          /\ committed' = committed \cup buffered
       \/ /\ tx' = IF tx = "open" THEN "rolledBack" ELSE tx
          /\ UNCHANGED committed
    /\ buffered' = {}
    /\ SendMsg(SystemSub)
    /\ synced' = TRUE
    /\ pc' = "returned" /\ result' = "nil"
    /\ UNCHANGED <<input, todo>>

Done ==
    /\ pc = "returned"
    /\ UNCHANGED vars

Next ==
    \/ Start \/ CreateSecret \/ CreateCluster
    \/ \E n \in Nodes : CreateNode(n)
    \/ NodesDone \/ CreateSpecs \/ ReadManifest \/ CreateTools
    \/ CreateSubscribe \/ CreateSubscribeUser \/ CreateProjectResource
    \/ Commit \/ Done
    \/ MsgStep /\ UNCHANGED <<pc, input, todo, tx, buffered, committed, result, synced>>

Spec == Init /\ [][Next]_vars

-----------------------------------------------------------------------------
(***************************************************************************)
(* Properties.                                                             *)
(***************************************************************************)

(* Import writes the cluster in one transaction (db.DB.Begin at line 65) *)
(* and rolls it back on every error, the all-or-nothing multi-write the  *)
(* persistence collaborator of spec.md section 6 provides.  When Import  *)
(* has returned, no row of the cluster is stored without the cluster    *)
(* row, and Import returned nil exactly when the cluster was stored.     *)
ImportAllOrNothing ==
    pc = "returned" =>
        /\ committed # {} => "cluster" \in committed
        /\ (result = "nil") = ("cluster" \in committed)

=============================================================================
