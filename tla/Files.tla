-------------------------------- MODULE Files --------------------------------
(***************************************************************************)
(* Uploaded files and the resources of sessions (file_handler.go,          *)
(* local.go, resource_handler.go, processResourceParams, and the mounting  *)
(* of files in provision).  A file is a row and a blob in the storage;     *)
(* a resource refers to the row by a foreign key.                          *)
(*                                                                         *)
(* File and resource ids are made once.  Sessions exist throughout:        *)
(* nothing deletes one.  A statement that is reported as failed may have   *)
(* been carried out: its context ends when the client goes away.           *)
(***************************************************************************)
EXTENDS Requests

CONSTANTS
  FileIds, FileOwner,
  Hosts, HostOwner,       \* the sessions and their workspaces
  ResourceIds,
  Paths,                  \* where in a sandbox a file can be mounted
  NoResource, Removed     \* a resource not made yet, and one deleted

Resource == [host : Hosts, file : FileIds, path : Paths]

ASSUME FilesAssumption ==
  /\ FileOwner \in [FileIds -> Workspaces] /\ FileIds # {}
  /\ HostOwner \in [Hosts -> Workspaces] /\ Hosts # {}
  /\ ResourceIds # {} /\ Paths # {}
  /\ NoResource # Removed /\ NoResource \notin Resource /\ Removed \notin Resource

VARIABLES
  files,        \* the rows of the table
  minted,       \* the file ids given out
  blobs,        \* what is in the storage
  downloadable,
  resources,    \* the rows of session_resources
  job,          \* job[q]: what request q works on
  unremoved,    \* history: blobs whose removal failed
  misreported   \* history: files whose INSERT or DELETE was carried out
                \*   although it was reported as failed

fileVars == <<files, minted, blobs, downloadable, resources, job, unremoved, misreported>>

IsRow(r) == resources[r] \notin {NoResource, Removed}

(* A resource, its file and its path; and the tar of files by path that    *)
(* is copied to a sandbox.                                                 *)
Mounts == ResourceIds \X FileIds \X Paths
Tars   == UNION {[paths -> FileIds] : paths \in SUBSET Paths}

(* host: the session worked on; file, res, path: the file, resource and    *)
(* path at hand; byAgent: whether the runtime uploads it; files: those     *)
(* still to attach; listed, todo: the mounts that provision has listed,    *)
(* and those still to be made; tar: what it has put together; erred:       *)
(* whether a read has failed.                                              *)
Job == [host : Hosts, file : FileIds, byAgent : BOOLEAN, res : ResourceIds, path : Paths,
        files : SUBSET FileIds, listed : SUBSET Mounts, todo : SUBSET Mounts,
        tar : Tars, erred : BOOLEAN]
FirstJob == [host |-> CHOOSE h \in Hosts : TRUE, file |-> CHOOSE f \in FileIds : TRUE,
             byAgent |-> FALSE, res |-> CHOOSE r \in ResourceIds : TRUE,
             path |-> CHOOSE p \in Paths : TRUE,
             files |-> {}, listed |-> {}, todo |-> {}, tar |-> << >>, erred |-> FALSE]

FilesTypeOK ==
  /\ files \subseteq FileIds /\ minted \subseteq FileIds /\ blobs \subseteq FileIds
  /\ downloadable \subseteq FileIds
  /\ unremoved \subseteq FileIds /\ misreported \subseteq FileIds
  /\ resources \in [ResourceIds -> Resource \cup {NoResource, Removed}]
  /\ job \in [Calls -> Job]

FilesInit ==
  /\ files \in SUBSET FileIds
  /\ minted = files /\ blobs = files
  /\ downloadable = {} /\ unremoved = {} /\ misreported = {}
  /\ resources = [r \in ResourceIds |-> NoResource]
  /\ job = [q \in Calls |-> FirstJob]

FileVisible(q, f) == f \in files /\ FileOwner[f] = Caller[q]

-----------------------------------------------------------------------------
(* Uploads, by users and by the runtime (whose files belong to the         *)
(* session's workspace): the blob first, then the row.  Of a blob that     *)
(* cannot be written whole the storage removes what there is.              *)
StoreBlob(q, f, byAgent) ==
  /\ minted' = minted \cup {f}
  /\ job' = [job EXCEPT ![q].file = f, ![q].byAgent = byAgent]
  /\ \/ Goto(q, "file.insert") /\ blobs' = blobs \cup {f} /\ UNCHANGED unremoved
     \/ Goto(q, "failed") /\ UNCHANGED <<blobs, unremoved>>
     \/ Goto(q, "failed") /\ blobs' = blobs \cup {f} /\ unremoved' = unremoved \cup {f}

Upload(q) ==
  /\ Fresh(q)
  /\ \E f \in FileIds \ minted : FileOwner[f] = Caller[q] /\ StoreBlob(q, f, FALSE)
  /\ UNCHANGED <<files, downloadable, resources, misreported>>

UploadInternal(q) ==
  /\ Fresh(q)
  /\ \E h \in Hosts, f \in FileIds \ minted : FileOwner[f] = HostOwner[h] /\ StoreBlob(q, f, TRUE)
  /\ UNCHANGED <<files, downloadable, resources, misreported>>

InsertRow(f, byAgent) ==
  /\ files' = files \cup {f}
  /\ downloadable' = IF byAgent THEN downloadable \cup {f} ELSE downloadable

InsertFile(q) ==
  /\ at[q] = "file.insert"
  /\ LET f == job[q].file IN
     \/ Goto(q, "ok") /\ InsertRow(f, job[q].byAgent) /\ UNCHANGED misreported
     \/ Goto(q, "file.undo") /\ UNCHANGED <<files, downloadable, misreported>>
     \/ /\ Goto(q, "file.undo") /\ InsertRow(f, job[q].byAgent)
        /\ misreported' = misreported \cup {f}
  /\ UNCHANGED <<minted, blobs, resources, job, unremoved>>

(* The storage is asked to delete; whether it does is not looked at.       *)
RemoveBlob(f) ==
  \/ blobs' = blobs \ {f} /\ UNCHANGED unremoved
  \/ unremoved' = unremoved \cup {f} /\ UNCHANGED blobs

(* Mutant: an upload that fails would leave its blob.                      *)
UndoUploadNot(q) ==
  /\ at[q] = "file.undo"
  /\ Goto(q, "failed")
  /\ UNCHANGED fileVars

UndoUpload(q) ==
  /\ at[q] = "file.undo"
  /\ RemoveBlob(job[q].file)
  /\ Goto(q, "failed")
  /\ UNCHANGED <<files, minted, downloadable, resources, job, misreported>>

(* GetByID and the comparison of workspaces, with which the others begin.  *)
ReadFile(q, step) ==
  /\ Fresh(q)
  /\ \E f \in FileIds :
       IF FileVisible(q, f) THEN Goto(q, step) /\ job' = [job EXCEPT ![q].file = f]
                            ELSE Goto(q, "refused") /\ UNCHANGED job
  /\ UNCHANGED <<files, minted, blobs, downloadable, resources, unremoved, misreported>>

Download(q) ==
  /\ at[q] = "file.download"
  /\ Goto(q, IF job[q].file \notin downloadable THEN "refused"
             ELSE IF job[q].file \in blobs THEN "ok" ELSE "failed")
  /\ UNCHANGED fileVars

(* Mutant: nothing would keep the file of a resource.                      *)
ReferencedNot(f) == FALSE

(* session_resources.file_id REFERENCES files.                             *)
Referenced(f) == \E r \in ResourceIds : IsRow(r) /\ resources[r].file = f

(* Mutant: the blob would go first, before the row is known to go.         *)
DeleteRowLast(q) ==
  /\ at[q] = "file.delete"
  /\ blobs' = blobs \ {job[q].file}
  /\ IF Referenced(job[q].file)
     THEN Goto(q, "failed") /\ UNCHANGED files
     ELSE Goto(q, "blob.delete") /\ files' = files \ {job[q].file}
  /\ UNCHANGED <<minted, downloadable, resources, job, unremoved, misreported>>

DeleteRow(q) ==
  /\ at[q] = "file.delete"
  /\ LET f == job[q].file IN
     \/ Referenced(f) /\ Goto(q, "failed") /\ UNCHANGED <<files, misreported>>
     \/ /\ ~Referenced(f)
        /\ files' = files \ {f}
        /\ \/ Goto(q, "blob.delete") /\ UNCHANGED misreported
           \/ Goto(q, "failed") /\ misreported' = misreported \cup {f}
  /\ UNCHANGED <<minted, blobs, downloadable, resources, job, unremoved>>

DeleteBlob(q) ==
  /\ at[q] = "blob.delete"
  /\ RemoveBlob(job[q].file)
  /\ Goto(q, "ok")
  /\ UNCHANGED <<files, minted, downloadable, resources, job, misreported>>

-----------------------------------------------------------------------------
(* Resources.  The foreign key is checked again when a row is stored.  The *)
(* client names the path, which another resource of the session may have.  *)
StoreResource(q) ==
  \E r \in ResourceIds, path \in Paths :
    /\ resources[r] = NoResource
    /\ resources' = [resources EXCEPT ![r] =
         [host |-> job[q].host, file |-> job[q].file, path |-> path]]

WriteResource(r, path) ==
  resources' = IF IsRow(r) THEN [resources EXCEPT ![r].path = path] ELSE resources
RemoveResource(r) == resources' = [resources EXCEPT ![r] = Removed]

(* Add has found the session and the file.                                 *)
FindFile(q) ==
  /\ Fresh(q)
  /\ \E h \in Hosts, f \in FileIds :
       IF HostOwner[h] = Caller[q] /\ FileVisible(q, f)
       THEN /\ Goto(q, "resource.insert")
            /\ job' = [job EXCEPT ![q].host = h, ![q].file = f]
       ELSE Goto(q, "refused") /\ UNCHANGED job
  /\ UNCHANGED <<files, minted, blobs, downloadable, resources, unremoved, misreported>>

AddResource(q) ==
  /\ at[q] = "resource.insert"
  /\ IF job[q].file \in files THEN Goto(q, "ok") /\ StoreResource(q)
                              ELSE Goto(q, "failed") /\ UNCHANGED resources
  /\ UNCHANGED <<files, minted, blobs, downloadable, job, unremoved, misreported>>

(* processResourceParams: the files named when a session is created, one   *)
(* after the other; one that is not there (any more) is left out.          *)
BeginAttach(q) ==
  /\ Fresh(q)
  /\ \E h \in Hosts, fs \in SUBSET FileIds :
       /\ HostOwner[h] = Caller[q]
       /\ job' = [job EXCEPT ![q].host = h, ![q].files = fs]
  /\ Goto(q, "attach")
  /\ UNCHANGED <<files, minted, blobs, downloadable, resources, unremoved, misreported>>

AttachNext(q) ==
  /\ at[q] = "attach"
  /\ IF job[q].files = {} THEN Goto(q, "ok") /\ UNCHANGED job
     ELSE \E f \in job[q].files :
            /\ Goto(q, IF FileVisible(q, f) THEN "attach.insert" ELSE "attach")
            /\ job' = [job EXCEPT ![q].file = f, ![q].files = @ \ {f}]
  /\ UNCHANGED <<files, minted, blobs, downloadable, resources, unremoved, misreported>>

AttachResource(q) ==
  /\ at[q] = "attach.insert"
  /\ IF job[q].file \in files THEN StoreResource(q) ELSE UNCHANGED resources
  /\ Goto(q, "attach")
  /\ UNCHANGED <<files, minted, blobs, downloadable, job, unremoved, misreported>>

ReadResource(q, step) ==
  /\ Fresh(q)
  /\ \E r \in ResourceIds :
       IF IsRow(r) /\ HostOwner[resources[r].host] = Caller[q]
       THEN Goto(q, step) /\ job' = [job EXCEPT ![q].res = r]
       ELSE Goto(q, "refused") /\ UNCHANGED job
  /\ UNCHANGED <<files, minted, blobs, downloadable, resources, unremoved, misreported>>

(* An UPDATE or DELETE of a row that has gone changes nothing.             *)
UpdateResource(q) ==
  /\ at[q] = "resource.write"
  /\ \E path \in Paths : WriteResource(job[q].res, path)
  /\ Goto(q, "ok")
  /\ UNCHANGED <<files, minted, blobs, downloadable, job, unremoved, misreported>>

DeleteResource(q) ==
  /\ at[q] = "resource.delete"
  /\ RemoveResource(job[q].res)
  /\ Goto(q, "ok")
  /\ UNCHANGED <<files, minted, blobs, downloadable, job, unremoved, misreported>>

-----------------------------------------------------------------------------
(* provision mounts the files of a session: it lists the resources, reads  *)
(* the row and the blob of each, and leaves out what it does not find or   *)
(* cannot read.  The contents go into a tar by path, in the order they     *)
(* were listed (here any), where a later one takes the place of another.   *)
ListResources(q) ==
  /\ Fresh(q)
  /\ \E h \in Hosts, erred \in BOOLEAN :
       LET rows == {m \in Mounts : /\ IsRow(m[1])
                                   /\ resources[m[1]] = [host |-> h, file |-> m[2], path |-> m[3]]}
       IN job' = [job EXCEPT ![q].host = h, ![q].listed = rows, ![q].tar = << >>,
                             ![q].erred = erred, ![q].todo = IF erred THEN {} ELSE rows]
  /\ Goto(q, "mount")
  /\ UNCHANGED <<files, minted, blobs, downloadable, resources, unremoved, misreported>>

FindMount(q) ==
  /\ at[q] = "mount"
  /\ IF job[q].todo = {} THEN Goto(q, "mounted") /\ UNCHANGED job
     ELSE \E m \in job[q].todo, erred \in BOOLEAN :
            /\ Goto(q, IF m[2] \in files /\ ~erred THEN "mount.read" ELSE "mount")
            /\ job' = [job EXCEPT ![q].res = m[1], ![q].file = m[2], ![q].path = m[3],
                                  ![q].todo = @ \ {m}, ![q].erred = @ \/ erred]
  /\ UNCHANGED <<files, minted, blobs, downloadable, resources, unremoved, misreported>>

Place(tar, path, file) ==
  [p \in DOMAIN tar \cup {path} |-> IF p = path THEN file ELSE tar[p]]

ReadMount(q) ==
  /\ at[q] = "mount.read"
  /\ job' \in {[job EXCEPT ![q].tar = IF job[q].file \in blobs
                                        THEN Place(@, job[q].path, job[q].file) ELSE @],
               [job EXCEPT ![q].erred = TRUE]}
  /\ Goto(q, "mount")
  /\ UNCHANGED <<files, minted, blobs, downloadable, resources, unremoved, misreported>>

FilesNext ==
  \E q \in Calls :
    \/ Upload(q) \/ UploadInternal(q) \/ InsertFile(q) \/ UndoUpload(q)
    \/ ReadFile(q, "file.download") \/ Download(q)
    \/ ReadFile(q, "file.delete") \/ DeleteRow(q) \/ DeleteBlob(q)
    \/ FindFile(q) \/ AddResource(q)
    \/ BeginAttach(q) \/ AttachNext(q) \/ AttachResource(q)
    \/ ReadResource(q, "resource.write") \/ UpdateResource(q)
    \/ ReadResource(q, "resource.delete") \/ DeleteResource(q)
    \/ ListResources(q) \/ FindMount(q) \/ ReadMount(q)

FilesSpec == RequestsInit /\ FilesInit /\ [][FilesNext]_<<at, fileVars>>

-----------------------------------------------------------------------------
(* A file that has a row has its content: nobody is shown a file that      *)
(* cannot be read, whatever uploads and deletions run.  The exception is   *)
(* an upload undone after an INSERT that was carried out all the same.     *)
RowsHaveBlobs == files \ misreported \subseteq blobs

(* Content without a row is that of an upload or a deletion that is in     *)
(* progress or was cut off, or the storage failed to remove it, or the     *)
(* row went though its DELETE was reported as failed: the handlers leave   *)
(* none behind.                                                            *)
BlobsAccountedFor ==
  \A f \in blobs \ files :
    \/ f \in unremoved \cup misreported
    \/ \E q \in Calls : job[q].file = f /\ at[q] \in {"file.insert", "file.undo", "blob.delete"}

(* Nothing keeps two resources of a session from sharing a path, so a      *)
(* sandbox need not get every file: the tar has one of those listed with   *)
(* a path.  But it has nothing else, and no path goes without: when no     *)
(* read failed, at each path that was listed there is a file that was      *)
(* listed with it, unless the resource was detached while provision read   *)
(* (or has lost its content as above).  Files whose path no one else has   *)
(* are all there.                                                          *)
MountsComplete ==
  \A q \in Calls : at[q] = "mounted" =>
    /\ \A p \in DOMAIN job[q].tar : \E m \in job[q].listed : m[3] = p /\ m[2] = job[q].tar[p]
    /\ ~job[q].erred =>
         \A m \in job[q].listed :
           IsRow(m[1]) => m[3] \in DOMAIN job[q].tar \/ m[2] \in misreported
=============================================================================
