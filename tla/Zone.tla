-------------------------------- MODULE Zone --------------------------------
(***************************************************************************)
(* The zones of one name (service/zone.go): the Create, Update, Delete    *)
(* and UploadImage requests, and the uploadZoneImage goroutine that       *)
(* Create (with a template) and UploadImage start.  The goroutine reads   *)
(* the zone, asks the cloud whether the zone's image exists, uploads it   *)
(* when it does not, and saves the row it read with Ready or              *)
(* UploadImageError.                                                       *)
(*                                                                         *)
(* A row is abstracted to its status and the version of its settings      *)
(* (Vars, region, IP pool, credential).  The row a Create writes has the   *)
(* id of its request; NoID is a row saved from an empty model.Zone, which  *)
(* has no name.  The cloud is whether the image exists, and how many      *)
(* uploads of it succeeded.  Every database call may fail.                *)
(***************************************************************************)
EXTENDS Naturals, FiniteSets

CONSTANTS
    Requests,     \* API requests; a Create by request r writes the row of id r
    NoID,         \* the id of a row saved from an empty model.Zone
    Absent        \* no row with that id

VARIABLES
    zone,         \* the zone rows by id
    image,        \* the zone's image exists in the cloud
    uploads,      \* cloud uploads of the image that succeeded
    req,          \* each request: [pc, kind, id, copy]
    gor           \* the uploadZoneImage goroutine of each request: [pc, id, copy, ok]

vars == <<zone, image, uploads, req, gor>>

Ids == Requests \cup {NoID}

Status == {"Ready", "Initializing", "UploadImageError"}

Row == [status : Status, vars : {1, 2}]

Kind == {"none", "create", "update", "delete", "upload"}

NoCopy == [status |-> "Ready", vars |-> 1]

TypeOK ==
    /\ zone \in [Ids -> Row \cup {Absent}]
    /\ image \in BOOLEAN
    /\ uploads \in 0..Cardinality(Requests)
    /\ req \in [Requests -> [pc : {"idle", "save", "write", "delete", "done"},
                             kind : Kind, id : Ids, copy : Row]]
    /\ gor \in [Requests -> [pc : {"none", "get", "check", "upload", "save", "done"},
                             id : Ids, copy : Row, ok : BOOLEAN]]

\* No zone yet; the cloud may already hold the image.
Init ==
    /\ zone = [i \in Ids |-> Absent]
    /\ image \in BOOLEAN
    /\ uploads = 0
    /\ req = [r \in Requests |-> [pc |-> "idle", kind |-> "none", id |-> NoID, copy |-> NoCopy]]
    /\ gor = [r \in Requests |-> [pc |-> "none", id |-> NoID, copy |-> NoCopy, ok |-> FALSE]]

\* zoneRepo.Get(name): a row with the zone's name; the empty row has none.
Named == {i \in Requests : zone[i] # Absent}

\* zoneRepo.Save / db.DB.Save: gorm's upsert by id, which inserts the row
\* again when it was deleted.
Save(i, r) == zone' = [zone EXCEPT ![i] = r]

\* go z.uploadZoneImage(...)
Spawn(r) == gor' = [gor EXCEPT ![r].pc = "get"]

-----------------------------------------------------------------------------
(***************************************************************************)
(* Requests.                                                               *)
(***************************************************************************)

\* Create: the registry, name, region, credential, folder and IP pool
\* checks, all before the first write; a zone of that name already there
\* is refused with NAME_EXISTS.  Then the zone is saved, Initializing when
\* it uses a template (default or template_config), else Ready; with a
\* template the upload goroutine starts.
CreateCheck(r) ==
    /\ req[r].pc = "idle"
    /\ \/ Named = {} /\ req' = [req EXCEPT ![r].pc = "save", ![r].kind = "create", ![r].id = r]
       \/ req' = [req EXCEPT ![r].pc = "done", ![r].kind = "create"]
    /\ UNCHANGED <<zone, image, uploads, gor>>

CreateSave(r) ==
    /\ req[r].pc = "save" /\ req[r].kind = "create"
    /\ req' = [req EXCEPT ![r].pc = "done"]
    /\ \/ \E template \in BOOLEAN :
            /\ Save(r, [status |-> IF template THEN "Initializing" ELSE "Ready", vars |-> 1])
            /\ IF template THEN Spawn(r) ELSE UNCHANGED gor
       \/ UNCHANGED <<zone, gor>>
    /\ UNCHANGED <<image, uploads>>

\* Update: the IP pool lookup, then the zone is read ...
UpdateRead(r) ==
    /\ req[r].pc = "idle"
    /\ \/ \E i \in Named : req' = [req EXCEPT ![r] = [pc |-> "write", kind |-> "update",
                                                      id |-> i, copy |-> zone[i]]]
       \/ req' = [req EXCEPT ![r].pc = "done", ![r].kind = "update"]
    /\ UNCHANGED <<zone, image, uploads, gor>>

\* ... its settings replaced, the credential looked up, and the whole row
\* it read saved.
UpdateWrite(r) ==
    /\ req[r].pc = "write"
    /\ req' = [req EXCEPT ![r].pc = "done"]
    /\ \/ Save(req[r].id, [req[r].copy EXCEPT !.vars = 2])
       \/ UNCHANGED zone
    /\ UNCHANGED <<image, uploads, gor>>

\* Delete: the zone is read, then deleted by its id.
DeleteRead(r) ==
    /\ req[r].pc = "idle"
    /\ \/ \E i \in Named : req' = [req EXCEPT ![r] = [pc |-> "delete", kind |-> "delete",
                                                      id |-> i, copy |-> zone[i]]]
       \/ req' = [req EXCEPT ![r].pc = "done", ![r].kind = "delete"]
    /\ UNCHANGED <<zone, image, uploads, gor>>

DeleteWrite(r) ==
    /\ req[r].pc = "delete"
    /\ req' = [req EXCEPT ![r].pc = "done"]
    /\ \/ zone' = [zone EXCEPT ![req[r].id] = Absent]
       \/ UNCHANGED zone
    /\ UNCHANGED <<image, uploads, gor>>

\* Batch with operation "delete": the items' ids go to zoneRepo.Batch,
\* which deletes their rows in one statement or fails; no status is
\* looked at.
Batch(r) ==
    /\ req[r].pc = "idle"
    /\ req' = [req EXCEPT ![r].pc = "done", ![r].kind = "delete"]
    /\ \/ \E ids \in SUBSET Named :
            /\ ids # {}
            /\ zone' = [i \in Ids |-> IF i \in ids THEN Absent ELSE zone[i]]
       \/ UNCHANGED zone
    /\ UNCHANGED <<image, uploads, gor>>

\* UploadImage: the zone is read; a Ready zone returns nil.  Otherwise it
\* is saved Initializing and the upload goroutine starts.
UploadRead(r) ==
    /\ req[r].pc = "idle"
    /\ \/ \E i \in Named :
            req' = [req EXCEPT ![r] = [pc |-> IF zone[i].status = "Ready" THEN "done" ELSE "save",
                                       kind |-> "upload", id |-> i, copy |-> zone[i]]]
       \/ req' = [req EXCEPT ![r].pc = "done", ![r].kind = "upload"]
    /\ UNCHANGED <<zone, image, uploads, gor>>

UploadSave(r) ==
    /\ req[r].pc = "save" /\ req[r].kind = "upload"
    /\ req' = [req EXCEPT ![r].pc = "done"]
    /\ \/ Save(req[r].id, [req[r].copy EXCEPT !.status = "Initializing"]) /\ Spawn(r)
       \/ UNCHANGED <<zone, gor>>
    /\ UNCHANGED <<image, uploads>>

-----------------------------------------------------------------------------
(***************************************************************************)
(* The uploadZoneImage goroutine of request r.                            *)
(***************************************************************************)

\* zoneRepo.Get(name); on error it is only logged, and the empty zone is
\* kept to be saved at the end.
GoGet(r) ==
    /\ gor[r].pc = "get"
    /\ \/ \E i \in Named : gor' = [gor EXCEPT ![r].pc = "check", ![r].id = i, ![r].copy = zone[i]]
       \/ gor' = [gor EXCEPT ![r].pc = "check", ![r].id = NoID, ![r].copy = NoCopy]
    /\ UNCHANGED <<zone, image, uploads, req>>

\* uploadImage: the region, the zone (z.Get, an error when no zone of the
\* name exists), the registry and the template config are read, and the
\* cloud is asked whether the image exists: an error or an existing image
\* ends it; otherwise the image is uploaded.
GoCheck(r) ==
    /\ gor[r].pc = "check"
    /\ \/ Named # {} /\ ~image /\ gor' = [gor EXCEPT ![r].pc = "upload"]
       \/ Named # {} /\ image /\ gor' = [gor EXCEPT ![r].pc = "save", ![r].ok = TRUE]
       \/ gor' = [gor EXCEPT ![r].pc = "save", ![r].ok = FALSE]
    /\ UNCHANGED <<zone, image, uploads, req>>

\* The FusionCompute image files are fetched and copied to the NFS store,
\* then cloudClient.UploadImage; any step may fail.
GoUpload(r) ==
    /\ gor[r].pc = "upload"
    /\ \E ok \in BOOLEAN :
         /\ gor' = [gor EXCEPT ![r].pc = "save", ![r].ok = ok]
         /\ image' = (image \/ ok)
         /\ uploads' = IF ok THEN uploads + 1 ELSE uploads
    /\ UNCHANGED <<zone, req>>

\* The zone read at the start is saved, Ready or UploadImageError.
GoSave(r) ==
    /\ gor[r].pc = "save"
    /\ gor' = [gor EXCEPT ![r].pc = "done"]
    /\ \/ Save(gor[r].id, [gor[r].copy EXCEPT !.status =
                             IF gor[r].ok THEN "Ready" ELSE "UploadImageError"])
       \/ UNCHANGED zone
    /\ UNCHANGED <<image, uploads, req>>

-----------------------------------------------------------------------------
\* Every request has returned and every goroutine has saved.
Quiescent ==
    /\ \A r \in Requests : req[r].pc = "done" /\ gor[r].pc \in {"none", "done"}
    /\ UNCHANGED vars

Next ==
    \/ \E r \in Requests :
         \/ CreateCheck(r) \/ CreateSave(r)
         \/ UpdateRead(r) \/ UpdateWrite(r)
         \/ DeleteRead(r) \/ DeleteWrite(r) \/ Batch(r)
         \/ UploadRead(r) \/ UploadSave(r)
         \/ GoGet(r) \/ GoCheck(r) \/ GoUpload(r) \/ GoSave(r)
    \/ Quiescent

Spec == Init /\ [][Next]_vars

-----------------------------------------------------------------------------
(***************************************************************************)
(* Properties.                                                             *)
(***************************************************************************)

(* uploadImage asks the cloud whether the zone's image exists and returns *)
(* without uploading when it does (ImageExist): the image is uploaded to  *)
(* the cloud at most once, whatever Create and UploadImage requests start *)
(* upload goroutines.                                                     *)
ImageUploadedOnce == uploads <= 1

=============================================================================
