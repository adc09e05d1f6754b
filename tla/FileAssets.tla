------------------------------- MODULE FileAssets -------------------------------
(***************************************************************************)
(* FileService: an upload is signed, registered as a temporary asset, and  *)
(* finalized for a task by renaming the file at Cloudinary and then its    *)
(* row, alone or inside the transaction of a task; what was renamed is     *)
(* named back when a later asset fails.  Expired temporary assets are      *)
(* swept before most operations and every ten minutes.  A publicId is      *)
(* registered once: a client that registers an id again after its row has  *)
(* taken the final one is left out.                                        *)
(***************************************************************************)
EXTENDS WorkStore

(* Cloudinary *)

\* uploader.rename with overwrite: false.
CanRename(d) == files[d].place = "temporary"
Renamed(d, t) == [files EXCEPT ![d].place = "final", ![d].under = t]
NamedBack(d) == [files EXCEPT ![d].place = "temporary", ![d].under = 0]

\* uploader.destroy: `not found' is as good as `ok'.
destroyTemporary(d) ==
  IF files[d].place = "temporary" THEN [files EXCEPT ![d].place = "gone"] ELSE files
destroyFinal(d) ==
  IF files[d].place = "final" /\ files[d].under = files[d].task
  THEN [files EXCEPT ![d].place = "gone"] ELSE files

(* file_assets *)

findExpiredTemporaryAssets ==
  {d \in DOMAIN files : files[d].row = "temporary" /\ files[d].expired}
countFinalizedByTenant == Cardinality({d \in DOMAIN files : files[d].row = "final"})
findTemporary(S) == {d \in S : files[d].row = "temporary"}
Finalized(S, t) ==
  [d \in DOMAIN files |->
     IF d \in findTemporary(S)
     THEN [files[d] EXCEPT !.row = "final", !.task = t, !.expired = FALSE] ELSE files[d]]
deleteTemporary(d) ==
  IF files[d].row = "temporary" THEN [files EXCEPT ![d].row = "swept"] ELSE files
deleteFinal(d) ==
  IF files[d].row = "final" THEN [files EXCEPT ![d].row = "deleted"] ELSE files
Stray(fs, S) == [d \in DOMAIN fs |-> IF d \in S THEN [fs[d] EXCEPT !.stray = TRUE] ELSE fs[d]]

-----------------------------------------------------------------------------
(* cleanupExpiredTemporaryAssets: one asset after the other, skipping those that fail. *)

Cleanup(r) ==
  /\ findExpiredTemporaryAssets # {}
  /\ Begin(r, [IdleRequest EXCEPT !.op = "cleanup", !.pc = "sweep"])
  /\ UNCHANGED <<taskVars, files, roomVars, notices, chatVars>>

Onward(r) == IF req[r].next = "idle" THEN Finish(r) ELSE Goto(r, req[r].next)

Sweep(r) ==
  /\ At(r, "sweep")
  /\ IF findExpiredTemporaryAssets = {} THEN Onward(r)
     ELSE req' = [req EXCEPT ![r].pc = "destroy", ![r].batch = findExpiredTemporaryAssets]
  /\ UNCHANGED <<taskVars, files, roomVars, notices, chatVars>>

SweepDestroy(r) ==
  /\ At(r, "destroy") /\ ~Doing(r, "deleteAsset")
  /\ \/ /\ req[r].batch = {} /\ Onward(r) /\ UNCHANGED files
     \/ \E d \in req[r].batch :
          /\ files' = destroyTemporary(d)
          /\ req' = [req EXCEPT ![r].pc = "unlist", ![r].doc = d, ![r].batch = @ \ {d}]
     \/ /\ MayFail
        /\ \E d \in req[r].batch : req' = [req EXCEPT ![r].batch = @ \ {d}]
        /\ UNCHANGED files
  /\ UNCHANGED <<taskVars, roomVars, notices, chatVars>>

SweepUnlist(r) ==
  /\ At(r, "unlist") /\ ~Doing(r, "deleteAsset") /\ ~LockedFile(req[r].doc)
  /\ \/ files' = deleteTemporary(req[r].doc)
     \/ MayFail /\ UNCHANGED files
  /\ Goto(r, "destroy")
  /\ UNCHANGED <<taskVars, roomVars, notices, chatVars>>

-----------------------------------------------------------------------------
(* Uploads *)

\* A publicId is a fresh UUID.
Fresh(d) == files[d] = NoFile /\ \A p \in Requests : d \notin req[p].docs

\* With the task it is for, if it names one.
CreateUploadSignature(r, d, t) ==
  /\ Fresh(d)
  /\ Begin(r, [IdleRequest EXCEPT !.op = "createUploadSignature", !.pc = "sweep",
                                  !.next = "count", !.docs = {d}, !.task = t])
  /\ UNCHANGED <<taskVars, files, roomVars, notices, chatVars>>

CountFiles(r) ==
  /\ At(r, "count") /\ Doing(r, "createUploadSignature")
  /\ req' = [req EXCEPT ![r].pc = "limit", ![r].seen = countFinalizedByTenant]
  /\ UNCHANGED <<taskVars, files, roomVars, notices, chatVars>>

Sign(r) ==
  /\ At(r, "limit") /\ Doing(r, "createUploadSignature")
  /\ \E d \in req[r].docs :
       files' = [files EXCEPT ![d].row =
         IF WithinLimit(Limits.maxFileAssets, req[r].seen) /\ (req[r].task = 0 \/ Live(req[r].task))
         THEN "signed" ELSE @]
  /\ Finish(r)
  /\ UNCHANGED <<taskVars, roomVars, notices, chatVars>>

\* The client uploads to Cloudinary by itself.
ClientUploads(d) ==
  /\ files[d].row = "signed" /\ files[d].place = "none"
  /\ files' = [files EXCEPT ![d].place = "temporary"]
  /\ UNCHANGED <<taskVars, roomVars, notices, chatVars, req>>

RegisterAsset(r, d, t) ==
  /\ files[d].row = "signed"
  /\ Begin(r, [IdleRequest EXCEPT !.op = "registerAsset", !.pc = "sweep",
                                  !.next = "existing", !.docs = {d}, !.task = t])
  /\ UNCHANGED <<taskVars, files, roomVars, notices, chatVars>>

\* uploadViaApiForTesting: it uploads, registers, and finalizes when given a task.
UploadViaApi(r, d, t) ==
  /\ Fresh(d)
  /\ Begin(r, [IdleRequest EXCEPT !.op = "upload", !.pc = "sweep", !.next = "upload",
                                  !.docs = {d}, !.task = t])
  /\ UNCHANGED <<taskVars, files, roomVars, notices, chatVars>>

UploadBuffer(r) ==
  /\ At(r, "upload")
  /\ \E d \in req[r].docs : files' = [files EXCEPT ![d].place = "temporary", ![d].row = "signed"]
  /\ req' = [req EXCEPT ![r].pc = "sweep", ![r].next = "existing"]
  /\ UNCHANGED <<taskVars, roomVars, notices, chatVars>>

\* The task, if one is named, and then the row.
FindExisting(r) ==
  /\ At(r, "existing")
  /\ IF /\ req[r].task = 0 \/ Live(req[r].task)
        /\ \A d \in req[r].docs : files[d].row = "signed"
     THEN Goto(r, "sum") ELSE Finish(r)
  /\ UNCHANGED <<taskVars, files, roomVars, notices, chatVars>>

\* Every file has a megabyte.
SumFinalizedBytes(r) ==
  /\ At(r, "sum")
  /\ req' = [req EXCEPT ![r].pc = "insert", ![r].seen = countFinalizedByTenant]
  /\ UNCHANGED <<taskVars, files, roomVars, notices, chatVars>>

\* The limit and the insert, which the unique index refuses for an id already there.
CreateAsset(r) ==
  /\ At(r, "insert") /\ req[r].op \in {"registerAsset", "upload"}
  /\ \E d \in req[r].docs :
       IF files[d].row = "signed" /\ WithinStorage(Limits.maxStorageMb, req[r].seen, 1)
       THEN /\ files' = [files EXCEPT ![d].row = "temporary", ![d].expired = FALSE]
            /\ IF Doing(r, "registerAsset") \/ req[r].task = 0 THEN Finish(r)
               ELSE req' = [req EXCEPT ![r].pc = "sweep", ![r].next = "find"]
       ELSE Finish(r) /\ UNCHANGED files
  /\ UNCHANGED <<taskVars, roomVars, notices, chatVars>>

-----------------------------------------------------------------------------
(* finalizeTemporaryAssets *)

FinalizeAsset(r, d, t) ==
  /\ Live(t)
  /\ Begin(r, [IdleRequest EXCEPT !.op = "finalizeAsset", !.pc = "sweep", !.next = "find",
                                  !.docs = {d}, !.task = t])
  /\ UNCHANGED <<taskVars, files, roomVars, notices, chatVars>>

Abort(r) == Finish(r) /\ tasks' = Undrafted(r)

\* All of the assets must be there and unexpired.  In a transaction they, and the task, are
\* those of its snapshot.
FoundBy(r) == IF InTransaction(r) THEN req[r].found ELSE findTemporary(req[r].docs)
FindTemporaryAssets(r) ==
  /\ At(r, "find")
  /\ IF /\ InTransaction(r) \/ Live(req[r].task)
        /\ req[r].docs \subseteq FoundBy(r)
        /\ \A d \in req[r].docs : ~files[d].expired
     THEN /\ Goto(r, IF req[r].docs = {} THEN "commit" ELSE "rename")
          /\ UNCHANGED tasks
     ELSE Abort(r)
  /\ UNCHANGED <<workspaces, files, roomVars, notices, chatVars>>

\* Mutant: a name that is taken counts as renamed.
TakenIsRenamed(r, d) ==
  req' = [req EXCEPT ![r].pc = "finalize", ![r].doc = d] /\ UNCHANGED files

\* Mutant: an asset that fails leaves the renamed ones where they are.
NoRollback(r) == [req EXCEPT ![r].pc = "rollback", ![r].batch = {}]

RollbackRenamed(r) == [req EXCEPT ![r].pc = "rollback", ![r].batch = req[r].done]

RenameRefused(r, d) == req' = RollbackRenamed(r) /\ UNCHANGED files

RenameAsset(r) ==
  /\ At(r, "rename")
  /\ \E d \in req[r].docs \ req[r].done :
       \/ /\ CanRename(d)
          /\ files' = Renamed(d, req[r].task)
          /\ req' = [req EXCEPT ![r].pc = "finalize", ![r].doc = d]
       \/ (~CanRename(d) \/ MayFail) /\ RenameRefused(r, d)
       \/ /\ CanRename(d) /\ MayFail   \* renamed, but the answer is lost
          /\ files' = Stray(Renamed(d, req[r].task), {d})
          /\ req' = RollbackRenamed(r)
  /\ UNCHANGED <<taskVars, roomVars, notices, chatVars>>

\* Mutant: a row that is gone goes unnoticed.
MissingRowIgnored(r) ==
  /\ req' = [req EXCEPT ![r].done = @ \cup {req[r].doc},
       ![r].pc = IF req[r].docs = req[r].done \cup {req[r].doc} THEN "commit" ELSE "rename"]
  /\ UNCHANGED files

\* The row, with the others at the commit.
FinalizeInTransaction(r) ==
  LET d == req[r].doc
  IN  IF files[d].row = "temporary" /\ ~LockedFile(d)
      THEN /\ req' = [req EXCEPT ![r].done = @ \cup {d},
                ![r].pc = IF req[r].docs = req[r].done \cup {d} THEN "commit" ELSE "rename"]
           /\ UNCHANGED files
      ELSE files' = Stray(files, {d}) /\ req' = RollbackRenamed(r)

FinalizeAlone(r) ==
  LET d == req[r].doc
  IN  /\ ~LockedFile(d)
      /\ IF files[d].row = "temporary"
         THEN files' = Finalized({d}, req[r].task) /\ Finish(r)
         ELSE files' = Stray(files, {d}) /\ req' = RollbackRenamed(r)

FinalizeRow(r) ==
  /\ At(r, "finalize")
  /\ \/ InTransaction(r) /\ FinalizeInTransaction(r)
     \/ ~InTransaction(r) /\ FinalizeAlone(r)
     \/ MayFail /\ files' = Stray(files, {req[r].doc}) /\ req' = RollbackRenamed(r)
  /\ UNCHANGED <<taskVars, roomVars, notices, chatVars>>

\* rollbackRenamedAssets swallows what fails; then the error goes on to the caller.
Rollback(r) ==
  /\ At(r, "rollback")
  /\ \/ /\ req[r].batch = {} /\ Abort(r) /\ UNCHANGED files
     \/ \E d \in req[r].batch :
          /\ \/ files' = NamedBack(d)
             \/ MayFail /\ files' = Stray(files, {d})
          /\ req' = [req EXCEPT ![r].batch = @ \ {d}]
          /\ UNCHANGED tasks
  /\ UNCHANGED <<workspaces, roomVars, notices, chatVars>>

-----------------------------------------------------------------------------
\* deleteAsset: the file, and then the row it was found by.  `stale' tells that it was
\* found under its final id.
DeleteAsset(r, d) ==
  /\ files[d].row \in {"temporary", "final"}
  /\ Begin(r, [IdleRequest EXCEPT !.op = "deleteAsset", !.pc = "destroy", !.doc = d,
                                  !.stale = files[d].row = "final"])
  /\ UNCHANGED <<taskVars, files, roomVars, notices, chatVars>>

DestroyAsset(r) ==
  /\ At(r, "destroy") /\ Doing(r, "deleteAsset")
  /\ \/ /\ files' = IF req[r].stale THEN destroyFinal(req[r].doc)
                    ELSE destroyTemporary(req[r].doc)
        /\ Goto(r, "unlist")
     \/ MayFail /\ Finish(r) /\ UNCHANGED files
  /\ UNCHANGED <<taskVars, roomVars, notices, chatVars>>

UnlistAsset(r) ==
  /\ At(r, "unlist") /\ Doing(r, "deleteAsset") /\ ~LockedFile(req[r].doc)
  /\ \/ ~req[r].stale /\ files' = deleteTemporary(req[r].doc)
     \/ req[r].stale /\ files' = deleteFinal(req[r].doc)
     \/ MayFail /\ files' = Stray(files, {req[r].doc})
  /\ Finish(r)
  /\ UNCHANGED <<taskVars, roomVars, notices, chatVars>>

FileStep(r) ==
  \/ Sweep(r) \/ SweepDestroy(r) \/ SweepUnlist(r)
  \/ CountFiles(r) \/ Sign(r) \/ UploadBuffer(r) \/ FindExisting(r) \/ SumFinalizedBytes(r)
  \/ CreateAsset(r) \/ FindTemporaryAssets(r) \/ RenameAsset(r) \/ FinalizeRow(r)
  \/ Rollback(r) \/ DestroyAsset(r) \/ UnlistAsset(r)
===============================================================================
