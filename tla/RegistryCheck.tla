---------------------------- MODULE RegistryCheck ----------------------------
(***************************************************************************)
(* systemSettingService.PageRegistry (service/system_setting.go): one     *)
(* page of system registries is read, and a goroutine per registry        *)
(* decrypts its Nexus password, checks the connection and appends the     *)
(* registry with its status to the slice systemRegistryDto, shared by    *)
(* every goroutine and not locked.  PageRegistry waits on a WaitGroup and *)
(* returns the slice as the page's items.                                 *)
(*                                                                         *)
(* append to a shared slice is a read of the slice followed by a write   *)
(* of it: an append of another goroutine between the two is lost.  The   *)
(* data race may do worse; the model keeps this outcome only.            *)
(*                                                                         *)
(* The registry writes of the same service run beside the page:          *)
(* CreateRegistry, UpdateRegistry, BatchRegistry and DeleteRegistry, with *)
(* the repository calls they make (repository/system_registry.go).  A    *)
(* registry is its id; its data is its architecture, the one field that  *)
(* a guard of the code reads.  The clusters' architectures are constant: *)
(* clusters are created and deleted by other services.                   *)
(***************************************************************************)
EXTENDS Naturals, FiniteSets

CONSTANTS
    Registries,     \* ids a registry row may have
    Archs,          \* registry architectures (ArchitectureOfAMD64/ARM64)
    ClusterArchs    \* the Architectures field of the clusters' rows

VARIABLES
    pc,             \* PageRegistry: "query", "spawn", "returned"
    todo,           \* registries the loop has not started a goroutine for
    wg,             \* the WaitGroup's counter
    gor,            \* each registry's goroutine: [pc, seen]
    items,          \* systemRegistryDto: the registries appended so far
    result,         \* what PageRegistry returned: "none", "error" or "page"
    mos,            \* the rows PageRegistry read
    rows,           \* the system_registries rows
    regArch         \* each row's architecture

vars == <<pc, todo, wg, gor, items, result, mos, rows, regArch>>
pageVars == <<pc, todo, wg, gor, items, result, mos>>
regVars == <<rows, regArch>>

TypeOK ==
    /\ pc \in {"query", "spawn", "returned"}
    /\ todo \subseteq Registries
    /\ wg \in 0..Cardinality(Registries)
    /\ gor \in [Registries -> [pc : {"none", "decrypt", "check", "read", "write", "done"},
                               seen : SUBSET Registries]]
    /\ items \subseteq Registries
    /\ result \in {"none", "error", "page"}
    /\ mos \subseteq Registries
    /\ rows \subseteq Registries
    /\ regArch \in [Registries -> Archs]

Init ==
    /\ pc = "query"
    /\ todo = {}
    /\ wg = 0
    /\ gor = [r \in Registries |-> [pc |-> "none", seen |-> {}]]
    /\ items = {}
    /\ result = "none"
    /\ mos = {}
    /\ rows = {}
    /\ regArch = [r \in Registries |-> CHOOSE a \in Archs : TRUE]

-----------------------------------------------------------------------------
\* Count and find the page's registries; an error returns it.
Query ==
    /\ pc = "query"
    /\ \/ pc' = "spawn" /\ todo' = rows /\ mos' = rows /\ UNCHANGED result
       \/ pc' = "returned" /\ result' = "error" /\ UNCHANGED <<todo, mos>>
    /\ UNCHANGED <<wg, gor, items>> /\ UNCHANGED regVars

\* One iteration of the loop: wg.Add(1), go func(mos[i]).
Spawn(r) ==
    /\ pc = "spawn"
    /\ r \in todo
    /\ todo' = todo \ {r}
    /\ wg' = wg + 1
    /\ gor' = [gor EXCEPT ![r].pc = "decrypt"]
    /\ UNCHANGED <<pc, items, result, mos>> /\ UNCHANGED regVars

\* wg.Wait() has returned: p.Items = systemRegistryDto.
Wait ==
    /\ pc = "spawn"
    /\ todo = {}
    /\ wg = 0
    /\ pc' = "returned"
    /\ result' = "page"
    /\ UNCHANGED <<todo, wg, gor, items, mos>> /\ UNCHANGED regVars

-----------------------------------------------------------------------------
(***************************************************************************)
(* The goroutine of registry r.                                            *)
(***************************************************************************)

\* encrypt.StringDecrypt: on error the registry is appended as Failed
\* without a check.
Decrypt(r) ==
    /\ gor[r].pc = "decrypt"
    /\ \E ok \in BOOLEAN : gor' = [gor EXCEPT ![r].pc = IF ok THEN "check" ELSE "read"]
    /\ UNCHANGED <<pc, todo, wg, items, result, mos>> /\ UNCHANGED regVars

\* nexus.CheckConn: Success or Failed, then the append.
Check(r) ==
    /\ gor[r].pc = "check"
    /\ gor' = [gor EXCEPT ![r].pc = "read"]
    /\ UNCHANGED <<pc, todo, wg, items, result, mos>> /\ UNCHANGED regVars

\* append(systemRegistryDto, itemDto) reads the slice ...
AppendRead(r) ==
    /\ gor[r].pc = "read"
    /\ gor' = [gor EXCEPT ![r].pc = "write", ![r].seen = items]
    /\ UNCHANGED <<pc, todo, wg, items, result, mos>> /\ UNCHANGED regVars

\* ... and assigns the slice it read, with the item added; then wg.Done().
AppendWrite(r) ==
    /\ gor[r].pc = "write"
    /\ items' = gor[r].seen \cup {r}
    /\ wg' = wg - 1
    /\ gor' = [gor EXCEPT ![r].pc = "done"]
    /\ UNCHANGED <<pc, todo, result, mos>> /\ UNCHANGED regVars

-----------------------------------------------------------------------------
(***************************************************************************)
(* The registry writes.  Each is one request; encrypt.StringEncrypt of a *)
(* password and a failing statement only return an error.                *)
(***************************************************************************)

\* The architectures whose registry some cluster uses: Delete reads every
\* cluster and counts Architectures amd64 and arm64 as one each, any other
\* value (the mixed "all") as both.
UsedArchs ==
    UNION {IF c \in Archs THEN {c} ELSE Archs : c \in ClusterArchs}

\* systemRegistryRepository.Save: the row has no ID, so NewRecord holds and
\* Create inserts it; BeforeCreate draws the new id.  The unique hostname
\* makes an insert of a registry that exists fail.
Save(r, a) ==
    /\ r \notin rows
    /\ rows' = rows \cup {r}
    /\ regArch' = [regArch EXCEPT ![r] = a]

\* CreateRegistry: encrypt the password, then Save.
CreateRegistry(r, a) ==
    /\ Save(r, a)
    /\ UNCHANGED pageVars

\* UpdateRegistry: Update of the row with the request's id, the
\* architecture taken from the URL; nothing checks that a cluster uses the
\* row's old architecture.  An id with no row updates nothing.
UpdateRegistry(r, a) ==
    /\ r \in rows
    /\ regArch' = [regArch EXCEPT ![r] = a]
    /\ UNCHANGED rows
    /\ UNCHANGED pageVars

\* systemRegistryRepository.Batch with operation "delete": one Delete of
\* the rows whose id is listed, with no check of the clusters.
Batch(ids) ==
    /\ rows' = rows \ ids
    /\ UNCHANGED regArch

\* BatchRegistry: the request's items, then Batch.
BatchRegistry(ids) ==
    /\ ids /= {}
    /\ Batch(ids)
    /\ UNCHANGED pageVars

\* systemRegistryRepository.Delete: Find the clusters, Get the row (a
\* missing one is an error), refuse with REGISTRY_ALREADY_USED when a
\* cluster uses its architecture, else Delete it.
Delete(r) ==
    /\ r \in rows
    /\ regArch[r] \notin UsedArchs
    /\ rows' = rows \ {r}
    /\ UNCHANGED regArch

\* DeleteRegistry: Delete by id.
DeleteRegistry(r) ==
    /\ Delete(r)
    /\ UNCHANGED pageVars

\* PageRegistry has returned.
Done ==
    /\ pc = "returned"
    /\ UNCHANGED vars

Next ==
    \/ Query \/ Wait \/ Done
    \/ \E r \in Registries :
         Spawn(r) \/ Decrypt(r) \/ Check(r) \/ AppendRead(r) \/ AppendWrite(r)
         \/ DeleteRegistry(r)
         \/ \E a \in Archs : CreateRegistry(r, a) \/ UpdateRegistry(r, a)
    \/ \E ids \in SUBSET Registries : BatchRegistry(ids)

Spec == Init /\ [][Next]_vars

-----------------------------------------------------------------------------
(***************************************************************************)
(* Properties.                                                             *)
(***************************************************************************)

(* PageRegistry waits for every goroutine it started (spec 4.5: the     *)
(* registry connectivity check is an instance of the join-all fan-out)  *)
(* and returns the slice they appended to as the page's items, counted  *)
(* in Total: a page that is returned holds every registry it read.      *)
PageComplete == result = "page" => items = mos

=============================================================================
