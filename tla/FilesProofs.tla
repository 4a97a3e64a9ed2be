----------------------------- MODULE FilesProofs -----------------------------
(***************************************************************************)
(* What holds of files, their contents and the resources of sessions for   *)
(* any number of requests, files and sessions.  An upload works on a file  *)
(* that no one else has; a deletion removes the content of a row that has  *)
(* gone; the foreign key keeps the row of a file in use; and the path of a *)
(* mount that has been listed has a file listed with it, or the mount is   *)
(* not a resource any more.                                                *)
(***************************************************************************)
EXTENDS Files, TLAPS

Uploading(q) == at[q] \in {"file.insert", "file.undo"}
Deleting(q)  == at[q] \in {"file.delete", "blob.delete"}
Mounting(q)  == at[q] \in {"mount", "mount.read", "mounted"}

(* What uploads and deletions know of the file they work on.               *)
HeldFiles ==
  \A q \in Calls :
    /\ Uploading(q) \/ Deleting(q) => job[q].file \in minted
    /\ at[q] = "file.insert" => job[q].file \in blobs /\ job[q].file \notin files
    /\ at[q] = "file.undo" /\ job[q].file \in files => job[q].file \in misreported
    /\ at[q] = "blob.delete" => job[q].file \notin files

(* Who works on different files.                                           *)
Apart ==
  \A p, q \in Calls :
    /\ p # q /\ Uploading(p) /\ Uploading(q) => job[p].file # job[q].file
    /\ at[p] = "file.insert" /\ Deleting(q) => job[p].file # job[q].file

StorageInv == files \subseteq minted /\ HeldFiles /\ Apart /\ RowsHaveBlobs /\ BlobsAccountedFor

ForeignKey == \A r \in ResourceIds : IsRow(r) => resources[r].file \in files

(* What has become of a listed mount of request q.                         *)
Attended(q, m) ==
  \/ m[3] \in DOMAIN job[q].tar
  \/ m[2] \in misreported
  \/ m \in job[q].todo
  \/ at[q] = "mount.read" /\ m = <<job[q].res, job[q].file, job[q].path>>

(* What a tar has was listed where it is.                                  *)
Listed(j) == \A p \in DOMAIN j.tar : \E m \in j.listed : m[3] = p /\ m[2] = j.tar[p]

MountsInv ==
  \A q \in Calls : Mounting(q) =>
    /\ at[q] = "mounted" => job[q].todo = {}
    /\ at[q] = "mount.read" => <<job[q].res, job[q].file, job[q].path>> \in job[q].listed
    /\ job[q].todo \subseteq job[q].listed
    /\ Listed(job[q])
    /\ \A m \in job[q].listed :
         /\ resources[m[1]] # NoResource
         /\ IsRow(m[1]) => resources[m[1]].file = m[2]
         /\ IsRow(m[1]) /\ ~job[q].erred => Attended(q, m)

FilesInv == RequestsTypeOK /\ FilesTypeOK /\ StorageInv /\ ForeignKey /\ MountsInv

-----------------------------------------------------------------------------
LEMMA FilesInitOK == RequestsInit /\ FilesInit => FilesInv
<1> SUFFICES ASSUME RequestsInit, FilesInit  PROVE FilesInv
  OBVIOUS
<1> USE DEF RequestsInit, FilesInit
<1>1. RequestsTypeOK
  BY DEF RequestsTypeOK
<1>2. FirstJob \in Job
  <2>1. << >> \in [{} -> FileIds] /\ {} \in SUBSET Paths
    OBVIOUS
  <2>2. << >> \in Tars
    BY <2>1 DEF Tars
  <2> QED  BY <2>2, FilesAssumption DEF FirstJob, Job
<1>3. FilesTypeOK
  BY <1>2 DEF FilesTypeOK
<1>4. StorageInv
  BY DEF StorageInv, HeldFiles, Apart, RowsHaveBlobs, BlobsAccountedFor, Uploading, Deleting
<1>5. ForeignKey /\ MountsInv
  BY DEF ForeignKey, MountsInv, IsRow, Mounting
<1> QED  BY <1>1, <1>3, <1>4, <1>5 DEF FilesInv

(* The requests beside q stand and work where they did.                    *)
OnlyMoves(q) == \A p \in Calls \ {q} : at'[p] = at[p] /\ job'[p] = job[p]

(* Resources are stored for files that have a row, keep their file, and    *)
(* do not come back.                                                       *)
ResourceStep ==
  /\ \A r \in ResourceIds : resources[r] # NoResource => resources'[r] # NoResource
  /\ \A r \in ResourceIds :
       IsRow(r)' => \/ IsRow(r) /\ resources'[r].file = resources[r].file
                    \/ resources[r] = NoResource /\ resources'[r].file \in files

(* A step of a request that does not upload or delete.                     *)
LEMMA StorageKept ==
  ASSUME StorageInv, NEW q \in Calls, OnlyMoves(q),
         UNCHANGED <<files, minted, blobs, unremoved, misreported>>,
         ~Uploading(q), ~Deleting(q), ~Uploading(q)', ~Deleting(q)'
  PROVE  StorageInv'
<1>1. \A p \in Calls : Uploading(p)' \/ Deleting(p)' => p # q /\ at'[p] = at[p] /\ job'[p] = job[p]
  BY DEF OnlyMoves
<1>2. HeldFiles'
  BY <1>1 DEF StorageInv, HeldFiles, Uploading, Deleting
<1>3. Apart'
  BY <1>1 DEF StorageInv, Apart, Uploading, Deleting
<1>4. RowsHaveBlobs'
  BY DEF StorageInv, RowsHaveBlobs
<1>5. BlobsAccountedFor'
  <2> SUFFICES ASSUME NEW f \in blobs \ files, f \notin unremoved \cup misreported
               PROVE  \E p \in Calls : job'[p].file = f
                                        /\ at'[p] \in {"file.insert", "file.undo", "blob.delete"}
    BY DEF BlobsAccountedFor
  <2>1. PICK p \in Calls : job[p].file = f /\ at[p] \in {"file.insert", "file.undo", "blob.delete"}
    BY DEF StorageInv, BlobsAccountedFor
  <2>2. p # q
    BY <2>1 DEF Uploading, Deleting
  <2> QED  BY <2>1, <2>2 DEF OnlyMoves
<1> QED  BY <1>2, <1>3, <1>4, <1>5 DEF StorageInv

(* A step of a request that mounts nothing.                                *)
LEMMA MountsKept ==
  ASSUME FilesTypeOK, MountsInv, NEW q \in Calls, OnlyMoves(q),
         ResourceStep, misreported \subseteq misreported', ~Mounting(q)'
  PROVE  MountsInv'
<1> SUFFICES ASSUME NEW p \in Calls, Mounting(p)'
             PROVE  /\ at'[p] = "mounted" => job'[p].todo = {}
                    /\ at'[p] = "mount.read" =>
                         <<job'[p].res, job'[p].file, job'[p].path>> \in job'[p].listed
                    /\ job'[p].todo \subseteq job'[p].listed
                    /\ Listed(job'[p])
                    /\ \A m \in job'[p].listed :
                         /\ resources'[m[1]] # NoResource
                         /\ IsRow(m[1])' => resources'[m[1]].file = m[2]
                         /\ IsRow(m[1])' /\ ~job'[p].erred => Attended(p, m)'
  BY DEF MountsInv
<1>1. at'[p] = at[p] /\ job'[p] = job[p] /\ Mounting(p)
  BY DEF OnlyMoves, Mounting
<1>2. job[p].listed \subseteq Mounts
  BY DEF FilesTypeOK, Job
<1>3. \A m \in job[p].listed :
        /\ m[1] \in ResourceIds
        /\ resources[m[1]] # NoResource
        /\ IsRow(m[1]) => resources[m[1]].file = m[2]
        /\ IsRow(m[1]) /\ ~job[p].erred => Attended(p, m)
  BY <1>1, <1>2 DEF MountsInv, Mounts
<1>4. \A m \in job[p].listed : Attended(p, m) => Attended(p, m)'
  BY <1>1 DEF Attended
<1>5. ASSUME NEW m \in job[p].listed
      PROVE  /\ resources'[m[1]] # NoResource
             /\ IsRow(m[1])' => IsRow(m[1]) /\ resources'[m[1]].file = m[2]
  BY <1>3 DEF ResourceStep
<1> QED  BY <1>1, <1>3, <1>4, <1>5 DEF MountsInv

(* A step that does neither.                                               *)
LEMMA ElsewhereKept ==
  ASSUME FilesInv, NEW q \in Calls, OnlyMoves(q), ResourceStep,
         UNCHANGED <<files, minted, blobs, unremoved, misreported>>,
         ~Uploading(q), ~Deleting(q), ~Uploading(q)', ~Deleting(q)', ~Mounting(q)',
         RequestsTypeOK', FilesTypeOK'
  PROVE  FilesInv'
<1>1. StorageInv'
  BY StorageKept DEF FilesInv
<1>2. ForeignKey'
  BY DEF FilesInv, ForeignKey, ResourceStep
<1>3. MountsInv'
  BY MountsKept DEF FilesInv
<1> QED  BY <1>1, <1>2, <1>3 DEF FilesInv

-----------------------------------------------------------------------------
(* A step of q leaves the others where they are, and q somewhere.          *)
LEMMA FileStepMoves ==
  ASSUME RequestsTypeOK, FilesTypeOK, NEW q \in Calls, NEW step, Goto(q, step),
         NEW j \in Job, job' = [job EXCEPT ![q] = j]
  PROVE  /\ OnlyMoves(q) /\ RequestsTypeOK' /\ at'[q] = step
         /\ job' \in [Calls -> Job] /\ job'[q] = j
<1>1. at' = [at EXCEPT ![q] = step] /\ DOMAIN at = Calls
  BY DEF Goto, RequestsTypeOK
<1>2. job \in [Calls -> Job]
  BY DEF FilesTypeOK
<1>3. OnlyMoves(q) /\ at'[q] = step
  BY <1>1, <1>2 DEF OnlyMoves, RequestsTypeOK
<1>4. RequestsTypeOK'
  BY <1>1 DEF RequestsTypeOK
<1> QED  BY <1>2, <1>3, <1>4

LEMMA StepMovesOnly ==
  ASSUME RequestsTypeOK, FilesTypeOK, NEW q \in Calls, NEW step, Goto(q, step), UNCHANGED job
  PROVE  /\ OnlyMoves(q) /\ RequestsTypeOK' /\ at'[q] = step
         /\ job' \in [Calls -> Job] /\ job'[q] = job[q]
<1>1. job[q] \in Job /\ job' = [job EXCEPT ![q] = job[q]]
  BY DEF FilesTypeOK
<1> QED  BY <1>1, FileStepMoves

(* The statements on resources.                                            *)
LEMMA ResourcesStay == ASSUME UNCHANGED <<files, resources>>  PROVE ResourceStep
  BY DEF ResourceStep, IsRow

LEMMA ResourceStored ==
  ASSUME FilesTypeOK, NEW q \in Calls, job[q].file \in files, StoreResource(q)
  PROVE  ResourceStep /\ resources' \in [ResourceIds -> Resource \cup {NoResource, Removed}]
<1>1. PICK r \in ResourceIds, path \in Paths :
        /\ resources[r] = NoResource
        /\ resources' = [resources EXCEPT ![r] =
             [host |-> job[q].host, file |-> job[q].file, path |-> path]]
  BY DEF StoreResource
<1> DEFINE new == [host |-> job[q].host, file |-> job[q].file, path |-> path]
<1>2. new \in Resource /\ new.file = job[q].file
  BY DEF FilesTypeOK, Job, Resource
<1>3. resources' = [resources EXCEPT ![r] = new]
  BY <1>1
<1> HIDE DEF new
<1>4. resources'[r] = new /\ \A s \in ResourceIds \ {r} : resources'[s] = resources[s]
  BY <1>3 DEF FilesTypeOK
<1>5. new # NoResource
  BY <1>2, FilesAssumption
<1> QED  BY <1>1, <1>2, <1>3, <1>4, <1>5 DEF FilesTypeOK, ResourceStep, IsRow

LEMMA ResourceWritten ==
  ASSUME FilesTypeOK, NEW r \in ResourceIds, NEW path \in Paths, WriteResource(r, path)
  PROVE  ResourceStep /\ resources' \in [ResourceIds -> Resource \cup {NoResource, Removed}]
<1>1. CASE ~IsRow(r)
  BY <1>1 DEF WriteResource, ResourceStep, IsRow, FilesTypeOK
<1>2. CASE IsRow(r)
  <2> DEFINE new == [resources[r] EXCEPT !.path = path]
  <2>1. resources[r] \in Resource /\ resources' = [resources EXCEPT ![r] = new]
    BY <1>2 DEF IsRow, FilesTypeOK, WriteResource
  <2>2. new \in Resource /\ new.file = resources[r].file
    BY <2>1 DEF Resource
  <2> HIDE DEF new
  <2>3. resources'[r] = new /\ \A s \in ResourceIds \ {r} : resources'[s] = resources[s]
    BY <2>1 DEF FilesTypeOK
  <2>4. new # NoResource
    BY <2>2, FilesAssumption
  <2> QED  BY <1>2, <2>1, <2>2, <2>3, <2>4 DEF FilesTypeOK, ResourceStep, IsRow
<1> QED  BY <1>1, <1>2

LEMMA ResourceRemoved ==
  ASSUME FilesTypeOK, NEW r \in ResourceIds, RemoveResource(r)
  PROVE  ResourceStep /\ resources' \in [ResourceIds -> Resource \cup {NoResource, Removed}]
<1>1. resources' = [resources EXCEPT ![r] = Removed]
  BY DEF RemoveResource
<1>2. resources'[r] = Removed /\ \A s \in ResourceIds \ {r} : resources'[s] = resources[s]
  BY <1>1 DEF FilesTypeOK
<1> QED  BY <1>1, <1>2, FilesAssumption DEF FilesTypeOK, ResourceStep, IsRow

-----------------------------------------------------------------------------
(* The steps of uploads and deletions change neither resources nor, but    *)
(* for the row of a file that nothing refers to, what they refer to.       *)
LEMMA StorageStep ==
  ASSUME FilesInv, NEW q \in Calls, OnlyMoves(q), UNCHANGED resources,
         misreported \subseteq misreported', ~Mounting(q)',
         RequestsTypeOK', FilesTypeOK', StorageInv',
         \A f \in files \ files' : ~Referenced(f)
  PROVE  FilesInv'
<1>1. ForeignKey'
  BY DEF FilesInv, ForeignKey, IsRow, Referenced
<1>2. MountsInv'
  BY MountsKept DEF FilesInv, ResourceStep, IsRow
<1> QED  BY <1>1, <1>2 DEF FilesInv

(* An upload begins with a file that nobody has.                           *)
LEMMA StoreBlobStep ==
  ASSUME FilesInv, NEW q \in Calls, Fresh(q), NEW f \in FileIds \ minted, NEW byAgent \in BOOLEAN,
         StoreBlob(q, f, byAgent), UNCHANGED <<files, downloadable, resources, misreported>>
  PROVE  FilesInv'
<1> DEFINE j == [job[q] EXCEPT !.file = f, !.byAgent = byAgent]
<1>1. RequestsTypeOK /\ FilesTypeOK /\ StorageInv
  BY DEF FilesInv
<1>2. j \in Job /\ j.file = f /\ job' = [job EXCEPT ![q] = j]
  BY <1>1 DEF FilesTypeOK, Job, StoreBlob
<1> HIDE DEF j
<1>3. PICK step \in {"file.insert", "failed"} :
        /\ Goto(q, step)
        /\ step = "file.insert" => blobs' = blobs \cup {f} /\ UNCHANGED unremoved
        /\ step = "failed" => \/ UNCHANGED <<blobs, unremoved>>
                              \/ blobs' = blobs \cup {f} /\ unremoved' = unremoved \cup {f}
  BY DEF StoreBlob
<1>4. OnlyMoves(q) /\ RequestsTypeOK' /\ at'[q] = step /\ job' \in [Calls -> Job] /\ job'[q].file = f
  BY <1>1, <1>2, <1>3, FileStepMoves
<1>5. /\ blobs \subseteq blobs' /\ blobs' \subseteq blobs \cup {f}
      /\ unremoved \subseteq unremoved' /\ unremoved' \subseteq FileIds
      /\ f \in blobs' => step = "file.insert" \/ f \in unremoved' \/ f \in blobs
      /\ step = "file.insert" => f \in blobs'
      /\ minted' = minted \cup {f}
  BY <1>3 DEF StoreBlob, FilesInv, FilesTypeOK
<1>6. FilesTypeOK'
  BY <1>1, <1>4, <1>5 DEF FilesTypeOK
<1>7. \A p \in Calls : Uploading(p) \/ Deleting(p) => job[p].file \in minted /\ job[p].file # f
  BY <1>1 DEF StorageInv, HeldFiles
<1>8. f \notin files /\ files \subseteq minted
  BY <1>1 DEF StorageInv
<1>9. at[q] = "new"
  BY DEF Fresh
<1>10. HeldFiles'
  BY <1>1, <1>4, <1>5, <1>8 DEF StorageInv, HeldFiles, Uploading, Deleting, OnlyMoves
<1>11. Apart'
  BY <1>1, <1>4, <1>7 DEF StorageInv, Apart, Uploading, Deleting, OnlyMoves
<1>12. RowsHaveBlobs'
  BY <1>1, <1>5 DEF StorageInv, RowsHaveBlobs
<1>13. BlobsAccountedFor'
  <2> SUFFICES ASSUME NEW g \in blobs' \ files, g \notin unremoved' \cup misreported
               PROVE  \E p \in Calls : job'[p].file = g
                                        /\ at'[p] \in {"file.insert", "file.undo", "blob.delete"}
    BY DEF BlobsAccountedFor
  <2>1. CASE g \in blobs
    <3>1. PICK p \in Calls : job[p].file = g /\ at[p] \in {"file.insert", "file.undo", "blob.delete"}
      BY <1>1, <1>5, <2>1 DEF StorageInv, BlobsAccountedFor
    <3>2. p # q
      BY <1>9, <3>1
    <3> QED  BY <1>4, <3>1, <3>2 DEF OnlyMoves
  <2>2. CASE g \notin blobs
    <3>1. g = f /\ step = "file.insert"
      BY <1>5, <2>2
    <3> QED  BY <1>4, <3>1
  <2> QED  BY <2>1, <2>2
<1>14. StorageInv'
  BY <1>5, <1>8, <1>10, <1>11, <1>12, <1>13 DEF StorageInv
<1> QED  BY <1>4, <1>6, <1>14, StorageStep DEF Mounting

(* The storage is asked to remove the content of a file without a row.     *)
LEMMA RemoveBlobStep ==
  ASSUME FilesInv, NEW q \in Calls, NEW step \in {"ok", "failed"}, Goto(q, step),
         at[q] \in {"file.undo", "blob.delete"}, RemoveBlob(job[q].file),
         UNCHANGED <<files, minted, downloadable, resources, job, misreported>>
  PROVE  FilesInv'
<1> DEFINE f == job[q].file
<1>1. RequestsTypeOK /\ FilesTypeOK /\ StorageInv
  BY DEF FilesInv
<1>2. OnlyMoves(q) /\ RequestsTypeOK' /\ at'[q] = step
  BY <1>1, StepMovesOnly
<1>3. f \in FileIds /\ f \in minted
  BY <1>1 DEF FilesTypeOK, Job, StorageInv, HeldFiles, Uploading, Deleting
<1>4. f \in files => f \in misreported
  BY <1>1 DEF StorageInv, HeldFiles
<1>5. \/ blobs' = blobs \ {f} /\ unremoved' = unremoved
      \/ unremoved' = unremoved \cup {f} /\ blobs' = blobs
  BY DEF RemoveBlob
<1> HIDE DEF f
<1>6. FilesTypeOK'
  BY <1>1, <1>3, <1>5 DEF FilesTypeOK
<1>7. \A p \in Calls : at[p] = "file.insert" => job[p].file # f
  BY <1>1 DEF StorageInv, Apart, Uploading, Deleting, f
<1>8. HeldFiles'
  BY <1>1, <1>2, <1>5, <1>7 DEF StorageInv, HeldFiles, Uploading, Deleting, OnlyMoves
<1>9. Apart'
  BY <1>1, <1>2 DEF StorageInv, Apart, Uploading, Deleting, OnlyMoves
<1>10. RowsHaveBlobs'
  BY <1>1, <1>4, <1>5 DEF StorageInv, RowsHaveBlobs
<1>11. BlobsAccountedFor'
  <2> SUFFICES ASSUME NEW g \in blobs' \ files, g \notin unremoved' \cup misreported
               PROVE  \E p \in Calls : job[p].file = g
                                        /\ at'[p] \in {"file.insert", "file.undo", "blob.delete"}
    BY DEF BlobsAccountedFor
  <2>1. g # f /\ g \in blobs /\ g \notin unremoved
    BY <1>5
  <2>2. PICK p \in Calls : job[p].file = g /\ at[p] \in {"file.insert", "file.undo", "blob.delete"}
    BY <1>1, <2>1 DEF StorageInv, BlobsAccountedFor
  <2>3. p # q
    BY <2>1, <2>2 DEF f
  <2> QED  BY <1>2, <2>2, <2>3 DEF OnlyMoves
<1>12. StorageInv'
  BY <1>1, <1>8, <1>9, <1>10, <1>11 DEF StorageInv
<1> QED  BY <1>2, <1>6, <1>12, StorageStep DEF Mounting

LEMMA InsertFileStep == ASSUME FilesInv, NEW q \in Calls, InsertFile(q)  PROVE FilesInv'
<1> DEFINE f == job[q].file
<1>1. RequestsTypeOK /\ FilesTypeOK /\ StorageInv
  BY DEF FilesInv
<1>2. PICK step \in {"ok", "file.undo"} : Goto(q, step)
  BY DEF InsertFile
<1>3. OnlyMoves(q) /\ RequestsTypeOK' /\ at'[q] = step
  BY <1>1, <1>2, StepMovesOnly DEF InsertFile
<1>4. f \in FileIds /\ f \in minted /\ f \in blobs /\ f \notin files
  BY <1>1 DEF FilesTypeOK, Job, StorageInv, HeldFiles, Uploading, Deleting, InsertFile
<1>5. \A p \in Calls \ {q} : Uploading(p) \/ Deleting(p) => job[p].file # f
  BY <1>1 DEF StorageInv, Apart, InsertFile, Uploading
<1>6. /\ files \subseteq files' /\ files' \subseteq files \cup {f}
      /\ misreported \subseteq misreported' /\ misreported' \subseteq misreported \cup {f}
      /\ downloadable' \subseteq downloadable \cup {f}
      /\ at'[q] = "ok" => f \in files'
      /\ at'[q] = "file.undo" => (f \in files' => f \in misreported')
      /\ UNCHANGED <<minted, blobs, resources, job, unremoved>>
  <2>1. UNCHANGED <<minted, blobs, resources, job, unremoved>>
    BY DEF InsertFile
  <2>2. CASE Goto(q, "ok") /\ InsertRow(f, job[q].byAgent) /\ UNCHANGED misreported
    <3>1. at'[q] = "ok"
      BY <1>1, <2>2 DEF Goto, RequestsTypeOK
    <3> QED  BY <2>1, <2>2, <3>1 DEF InsertRow
  <2>3. CASE Goto(q, "file.undo") /\ UNCHANGED <<files, downloadable, misreported>>
    <3>1. at'[q] = "file.undo"
      BY <1>1, <2>3 DEF Goto, RequestsTypeOK
    <3> QED  BY <1>4, <2>1, <2>3, <3>1
  <2>4. CASE Goto(q, "file.undo") /\ InsertRow(f, job[q].byAgent) /\ misreported' = misreported \cup {f}
    <3>1. at'[q] = "file.undo"
      BY <1>1, <2>4 DEF Goto, RequestsTypeOK
    <3> QED  BY <2>1, <2>4, <3>1 DEF InsertRow
  <2> QED  BY <2>2, <2>3, <2>4 DEF InsertFile
<1> HIDE DEF f
<1>7. FilesTypeOK'
  BY <1>1, <1>4, <1>6 DEF FilesTypeOK
<1>8. HeldFiles'
  <2>1. \A p \in Calls \ {q} : Uploading(p)' \/ Deleting(p)' => (job[p].file \in files' => job[p].file \in files)
    BY <1>3, <1>5, <1>6 DEF OnlyMoves, Uploading, Deleting
  <2> QED  BY <1>1, <1>3, <1>4, <1>6, <2>1 DEF StorageInv, HeldFiles, Uploading, Deleting, OnlyMoves, f
<1>9. Apart'
  BY <1>1, <1>3, <1>5, <1>6 DEF StorageInv, Apart, Uploading, Deleting, OnlyMoves, f, InsertFile
<1>10. RowsHaveBlobs'
  BY <1>1, <1>4, <1>6 DEF StorageInv, RowsHaveBlobs
<1>11. BlobsAccountedFor'
  <2> SUFFICES ASSUME NEW g \in blobs \ files', g \notin unremoved \cup misreported'
               PROVE  \E p \in Calls : job[p].file = g
                                        /\ at'[p] \in {"file.insert", "file.undo", "blob.delete"}
    BY <1>6 DEF BlobsAccountedFor
  <2>1. PICK p \in Calls : job[p].file = g /\ at[p] \in {"file.insert", "file.undo", "blob.delete"}
    BY <1>1, <1>6 DEF StorageInv, BlobsAccountedFor
  <2>2. CASE p # q
    BY <1>3, <2>1, <2>2 DEF OnlyMoves
  <2>3. CASE p = q
    <3>1. at'[q] # "ok"
      BY <1>6, <2>1, <2>3 DEF f
    <3> QED  BY <1>3, <2>1, <2>3, <3>1
  <2> QED  BY <2>2, <2>3
<1>12. StorageInv'
  BY <1>1, <1>4, <1>6, <1>8, <1>9, <1>10, <1>11 DEF StorageInv
<1> QED  BY <1>3, <1>6, <1>7, <1>12, StorageStep DEF Mounting

(* The row of a file that nothing refers to goes; its content stays.       *)
LEMMA DeleteRowStep == ASSUME FilesInv, NEW q \in Calls, DeleteRow(q)  PROVE FilesInv'
<1> DEFINE f == job[q].file
<1>1. RequestsTypeOK /\ FilesTypeOK /\ StorageInv
  BY DEF FilesInv
<1>2. PICK step \in {"blob.delete", "failed"} : Goto(q, step)
  BY DEF DeleteRow
<1>3. OnlyMoves(q) /\ RequestsTypeOK' /\ at'[q] = step
  BY <1>1, <1>2, StepMovesOnly DEF DeleteRow
<1>4. f \in FileIds /\ f \in minted
  BY <1>1 DEF FilesTypeOK, Job, StorageInv, HeldFiles, Deleting, DeleteRow
<1>5. /\ files \ {f} \subseteq files' /\ files' \subseteq files
      /\ files' # files => ~Referenced(f)
      /\ misreported \subseteq misreported' /\ misreported' \subseteq misreported \cup {f}
      /\ at'[q] = "failed" => files' = files \/ f \in misreported'
      /\ at'[q] = "blob.delete" => files' = files \ {f}
      /\ UNCHANGED <<minted, blobs, downloadable, resources, job, unremoved>>
  <2>1. \A s : Goto(q, s) => at'[q] = s
    BY <1>1 DEF Goto, RequestsTypeOK
  <2> QED  BY <2>1 DEF DeleteRow
<1> HIDE DEF f
<1>6. FilesTypeOK'
  BY <1>1, <1>4, <1>5 DEF FilesTypeOK
<1>7. HeldFiles'
  BY <1>1, <1>3, <1>4, <1>5 DEF StorageInv, HeldFiles, Uploading, Deleting, OnlyMoves, f
<1>8. Apart'
  BY <1>1, <1>3, <1>5 DEF StorageInv, Apart, Uploading, Deleting, OnlyMoves, DeleteRow
<1>9. RowsHaveBlobs'
  BY <1>1, <1>5 DEF StorageInv, RowsHaveBlobs
<1>10. BlobsAccountedFor'
  <2> SUFFICES ASSUME NEW g \in blobs \ files', g \notin unremoved \cup misreported'
               PROVE  \E p \in Calls : job[p].file = g
                                        /\ at'[p] \in {"file.insert", "file.undo", "blob.delete"}
    BY <1>5 DEF BlobsAccountedFor
  <2>1. CASE g \in files
    <3>1. g = f /\ at'[q] = "blob.delete"
      BY <1>3, <1>5, <2>1
    <3> QED  BY <3>1 DEF f
  <2>2. CASE g \notin files
    <3>1. PICK p \in Calls : job[p].file = g /\ at[p] \in {"file.insert", "file.undo", "blob.delete"}
      BY <1>1, <1>5, <2>2 DEF StorageInv, BlobsAccountedFor
    <3>2. p # q
      BY <3>1 DEF DeleteRow
    <3> QED  BY <1>3, <3>1, <3>2 DEF OnlyMoves
  <2> QED  BY <2>1, <2>2
<1>11. StorageInv'
  BY <1>1, <1>5, <1>7, <1>8, <1>9, <1>10 DEF StorageInv
<1>12. \A g \in files \ files' : ~Referenced(g)
  BY <1>5
<1> QED  BY <1>3, <1>5, <1>6, <1>11, <1>12, StorageStep DEF Mounting

(* A deletion begins with a file that has a row: no upload works on it,    *)
(* but one that has failed.                                                *)
LEMMA FindDeletedStep == ASSUME FilesInv, NEW q \in Calls, ReadFile(q, "file.delete")  PROVE FilesInv'
<1>1. RequestsTypeOK /\ FilesTypeOK /\ StorageInv
  BY DEF FilesInv
<1>2. at[q] = "new" /\ UNCHANGED <<files, minted, blobs, downloadable, resources, unremoved, misreported>>
  BY DEF ReadFile, Fresh
<1>3. CASE Goto(q, "refused") /\ UNCHANGED job
  <2>1. OnlyMoves(q) /\ RequestsTypeOK' /\ at'[q] = "refused"
    BY <1>1, <1>3, StepMovesOnly
  <2>2. FilesTypeOK'
    BY <1>1, <1>2, <1>3 DEF FilesTypeOK
  <2> QED  BY <1>2, <2>1, <2>2, ElsewhereKept, ResourcesStay DEF Uploading, Deleting, Mounting
<1>4. ASSUME NEW f \in files, Goto(q, "file.delete"), job' = [job EXCEPT ![q].file = f]
      PROVE  FilesInv'
  <2> DEFINE j == [job[q] EXCEPT !.file = f]
  <2>1. j \in Job /\ j.file = f /\ job' = [job EXCEPT ![q] = j] /\ Goto(q, "file.delete")
    BY <1>1, <1>4 DEF FilesTypeOK, Job
  <2> HIDE DEF j
  <2>2. OnlyMoves(q) /\ RequestsTypeOK' /\ at'[q] = "file.delete"
        /\ job' \in [Calls -> Job] /\ job'[q].file = f
    BY <1>1, <2>1, FileStepMoves
  <2>3. FilesTypeOK'
    BY <1>1, <1>2, <2>2 DEF FilesTypeOK
  <2>4. HeldFiles'
    BY <1>1, <1>2, <2>2 DEF StorageInv, HeldFiles, Uploading, Deleting, OnlyMoves
  <2>5. Apart'
    BY <1>1, <1>2, <2>2 DEF StorageInv, HeldFiles, Apart, Uploading, Deleting, OnlyMoves
  <2>6. BlobsAccountedFor'
    <3> SUFFICES ASSUME NEW g \in blobs \ files, g \notin unremoved \cup misreported
                 PROVE  \E p \in Calls : job'[p].file = g
                                          /\ at'[p] \in {"file.insert", "file.undo", "blob.delete"}
      BY <1>2 DEF BlobsAccountedFor
    <3>1. PICK p \in Calls : job[p].file = g /\ at[p] \in {"file.insert", "file.undo", "blob.delete"}
      BY <1>1 DEF StorageInv, BlobsAccountedFor
    <3>2. p # q
      BY <1>2, <3>1
    <3> QED  BY <2>2, <3>1, <3>2 DEF OnlyMoves
  <2>7. StorageInv'
    BY <1>1, <1>2, <2>4, <2>5, <2>6 DEF StorageInv, RowsHaveBlobs
  <2> QED  BY <1>2, <2>2, <2>3, <2>7, StorageStep DEF Mounting
<1> QED  BY <1>3, <1>4 DEF ReadFile, FileVisible

-----------------------------------------------------------------------------
(* Provision: a step of q from one list of mounts to the next.             *)
LEMMA MountStep ==
  ASSUME FilesInv, NEW q \in Calls, NEW step \in {"mount", "mount.read", "mounted"}, Goto(q, step),
         NEW j \in Job, job' = [job EXCEPT ![q] = j],
         UNCHANGED <<files, minted, blobs, downloadable, resources, unremoved, misreported>>,
         at[q] \in {"new", "mount", "mount.read"},
         step = "mounted" => j.todo = {},
         step = "mount.read" => <<j.res, j.file, j.path>> \in j.listed,
         j.todo \subseteq j.listed,
         Listed(j),
         \A m \in j.listed :
           /\ resources[m[1]] # NoResource
           /\ IsRow(m[1]) => resources[m[1]].file = m[2]
           /\ IsRow(m[1]) /\ ~j.erred =>
                \/ m[3] \in DOMAIN j.tar
                \/ m[2] \in misreported
                \/ m \in j.todo
                \/ step = "mount.read" /\ m = <<j.res, j.file, j.path>>
  PROVE  FilesInv'
<1>1. RequestsTypeOK /\ FilesTypeOK /\ StorageInv /\ ForeignKey /\ MountsInv
  BY DEF FilesInv
<1>2. OnlyMoves(q) /\ RequestsTypeOK' /\ at'[q] = step /\ job' \in [Calls -> Job] /\ job'[q] = j
  BY <1>1, FileStepMoves
<1>3. FilesTypeOK'
  BY <1>1, <1>2 DEF FilesTypeOK
<1>4. StorageInv'
  <2>1. ~Uploading(q) /\ ~Deleting(q)
    BY DEF Uploading, Deleting
  <2>2. ~Uploading(q)' /\ ~Deleting(q)'
    BY <1>2 DEF Uploading, Deleting
  <2> QED  BY <1>1, <1>2, <2>1, <2>2, StorageKept
<1>5. ForeignKey'
  BY <1>1 DEF ForeignKey, IsRow
<1>6. \A r \in ResourceIds : IsRow(r)' <=> IsRow(r)
  BY DEF IsRow
<1>7. MountsInv'
  <2> SUFFICES ASSUME NEW p \in Calls, Mounting(p)'
               PROVE  /\ at'[p] = "mounted" => job'[p].todo = {}
                      /\ at'[p] = "mount.read" =>
                           <<job'[p].res, job'[p].file, job'[p].path>> \in job'[p].listed
                      /\ job'[p].todo \subseteq job'[p].listed
                      /\ Listed(job'[p])
                      /\ \A m \in job'[p].listed :
                           /\ resources[m[1]] # NoResource
                           /\ IsRow(m[1])' => resources[m[1]].file = m[2]
                           /\ IsRow(m[1])' /\ ~job'[p].erred => Attended(p, m)'
    BY DEF MountsInv
  <2>1. \A m : IsRow(m[1])' <=> IsRow(m[1])
    BY DEF IsRow
  <2>2. CASE p = q
    BY <1>2, <2>1, <2>2 DEF Attended
  <2>3. CASE p # q
    <3>1. at'[p] = at[p] /\ job'[p] = job[p] /\ Mounting(p)
      BY <1>2, <2>3 DEF OnlyMoves, Mounting
    <3>2. \A m : Attended(p, m)' <=> Attended(p, m)
      BY <3>1 DEF Attended
    <3> QED  BY <1>1, <2>1, <3>1, <3>2 DEF MountsInv
  <2> QED  BY <2>2, <2>3
<1> QED  BY <1>2, <1>3, <1>4, <1>5, <1>7 DEF FilesInv

LEMMA ListResourcesStep == ASSUME FilesInv, NEW q \in Calls, ListResources(q)  PROVE FilesInv'
<1>1. FilesTypeOK /\ job \in [Calls -> Job]
  BY DEF FilesInv, FilesTypeOK
<1>2. PICK h \in Hosts, erred \in BOOLEAN :
        LET rows == {m \in Mounts : /\ IsRow(m[1])
                                    /\ resources[m[1]] = [host |-> h, file |-> m[2], path |-> m[3]]}
        IN job' = [job EXCEPT ![q].host = h, ![q].listed = rows, ![q].tar = << >>,
                              ![q].erred = erred, ![q].todo = IF erred THEN {} ELSE rows]
  BY DEF ListResources
<1> DEFINE rows == {m \in Mounts : /\ IsRow(m[1])
                                   /\ resources[m[1]] = [host |-> h, file |-> m[2], path |-> m[3]]}
           todo == IF erred THEN {} ELSE rows
           tar  == << >>
           j == [job[q] EXCEPT !.host = h, !.listed = rows, !.tar = tar, !.erred = erred, !.todo = todo]
<1>3. rows \subseteq Mounts
      /\ \A m \in rows : resources[m[1]] # NoResource /\ resources[m[1]].file = m[2]
  BY DEF IsRow, Mounts
<1>4. todo \subseteq rows /\ (~erred => todo = rows)
  OBVIOUS
<1>5. job' = [job EXCEPT ![q].host = h, ![q].listed = rows, ![q].tar = tar, ![q].erred = erred,
                         ![q].todo = todo]
  BY <1>2
<1>a. DOMAIN tar = {} /\ tar \in Tars
  <2>1. tar \in [{} -> FileIds] /\ {} \in SUBSET Paths
    OBVIOUS
  <2> QED  BY <2>1 DEF Tars
<1> HIDE DEF rows, todo, tar
<1>6. j \in Job /\ j.listed = rows /\ j.todo = todo /\ j.erred = erred /\ j.tar = tar
  BY <1>1, <1>3, <1>4, <1>a DEF Job
<1>b. Listed(j)
  BY <1>a, <1>6 DEF Listed
<1>7. job' = [job EXCEPT ![q] = j]
  BY <1>1, <1>5 DEF Job
<1> HIDE DEF j
<1>8. at[q] = "new" /\ Goto(q, "mount")
      /\ UNCHANGED <<files, minted, blobs, downloadable, resources, unremoved, misreported>>
  BY DEF ListResources, Fresh
<1> QED  BY <1>3, <1>4, <1>6, <1>7, <1>8, <1>b, MountStep

(* The foreign key: the file of a mount that is still one has a row, so    *)
(* FindMount finds it.                                                     *)
LEMMA FindMountStep == ASSUME FilesInv, NEW q \in Calls, FindMount(q)  PROVE FilesInv'
<1>1. FilesTypeOK /\ RequestsTypeOK /\ job[q] \in Job /\ job \in [Calls -> Job]
  BY DEF FilesInv, FilesTypeOK
<1>2. at[q] = "mount" /\ Mounting(q)
      /\ UNCHANGED <<files, minted, blobs, downloadable, resources, unremoved, misreported>>
  BY DEF FindMount, Mounting
<1>3. /\ job[q].todo \subseteq job[q].listed /\ Listed(job[q])
      /\ \A m \in job[q].listed :
           /\ m[1] \in ResourceIds
           /\ resources[m[1]] # NoResource
           /\ IsRow(m[1]) => resources[m[1]].file = m[2] /\ m[2] \in files
           /\ IsRow(m[1]) /\ ~job[q].erred =>
                m[3] \in DOMAIN job[q].tar \/ m[2] \in misreported \/ m \in job[q].todo
  BY <1>1, <1>2 DEF FilesInv, MountsInv, ForeignKey, Attended, Job, Mounts
<1>4. CASE job[q].todo = {} /\ Goto(q, "mounted") /\ UNCHANGED job
  <2>1. job' = [job EXCEPT ![q] = job[q]]
    BY <1>1, <1>4
  <2> QED  BY <1>1, <1>2, <1>3, <1>4, <2>1, MountStep
<1>5. ASSUME NEW m \in job[q].todo, NEW erred \in BOOLEAN,
             Goto(q, IF m[2] \in files /\ ~erred THEN "mount.read" ELSE "mount"),
             job' = [job EXCEPT ![q].res = m[1], ![q].file = m[2], ![q].path = m[3],
                                ![q].todo = @ \ {m}, ![q].erred = @ \/ erred]
      PROVE  FilesInv'
  <2> DEFINE step == IF m[2] \in files /\ ~erred THEN "mount.read" ELSE "mount"
             todo == job[q].todo \ {m}
             err  == job[q].erred \/ erred
             j == [job[q] EXCEPT !.res = m[1], !.file = m[2], !.path = m[3], !.todo = todo,
                                 !.erred = err]
  <2>1. /\ m \in Mounts /\ job[q].todo \subseteq Mounts
        /\ m[1] \in ResourceIds /\ m[2] \in FileIds /\ m[3] \in Paths /\ m = <<m[1], m[2], m[3]>>
    BY <1>1 DEF Job, Mounts
  <2>2. err \in BOOLEAN /\ todo \subseteq Mounts
    BY <1>1, <2>1 DEF Job
  <2>3. job' = [job EXCEPT ![q].res = m[1], ![q].file = m[2], ![q].path = m[3],
                           ![q].todo = todo, ![q].erred = err]
    BY <1>1, <1>5 DEF Job
  <2>4. step \in {"mount", "mount.read", "mounted"} /\ Goto(q, step) /\ step # "mounted"
        /\ (step = "mount.read" <=> m[2] \in files /\ ~erred)
    BY <1>5
  <2>5. ~err => ~job[q].erred /\ ~erred
    BY <1>1 DEF Job
  <2>6. \A x \in job[q].todo : x = m \/ x \in todo
    OBVIOUS
  <2>7. todo \subseteq job[q].listed
    BY <1>3
  <2> HIDE DEF step, todo, err
  <2>8. /\ j \in Job /\ j.listed = job[q].listed /\ j.tar = job[q].tar
        /\ j.todo = todo /\ j.erred = err /\ <<j.res, j.file, j.path>> = m
    BY <1>1, <2>1, <2>2 DEF Job
  <2>9. job' = [job EXCEPT ![q] = j]
    BY <1>1, <2>3 DEF Job
  <2> HIDE DEF j
  <2>10. m \in job[q].listed
    BY <1>3
  <2>11. ASSUME NEW x \in j.listed, IsRow(x[1]), ~j.erred
         PROVE  \/ x[3] \in DOMAIN j.tar
                \/ x[2] \in misreported
                \/ x \in j.todo
                \/ step = "mount.read" /\ x = <<j.res, j.file, j.path>>
    <3>1. x[3] \in DOMAIN job[q].tar \/ x[2] \in misreported \/ x \in todo \/ x = m
      BY <1>3, <2>5, <2>6, <2>8, <2>11
    <3>2. CASE x = m
      BY <1>3, <2>4, <2>5, <2>8, <2>11, <3>2
    <3> QED  BY <2>8, <3>1, <3>2
  <2>12. Listed(j)
    BY <1>3, <2>8 DEF Listed
  <2> QED  BY <1>2, <1>3, <2>4, <2>7, <2>8, <2>9, <2>10, <2>11, <2>12, MountStep
<1> QED  BY <1>4, <1>5 DEF FindMount

(* What Place puts into a tar is there, and what there was at the other    *)
(* paths.                                                                  *)
LEMMA Placed ==
  ASSUME NEW tar \in Tars, NEW path \in Paths, NEW file \in FileIds
  PROVE  /\ Place(tar, path, file) \in Tars
         /\ DOMAIN Place(tar, path, file) = DOMAIN tar \cup {path}
         /\ \A p \in DOMAIN tar \cup {path} :
              Place(tar, path, file)[p] = IF p = path THEN file ELSE tar[p]
<1>1. PICK paths \in SUBSET Paths : tar \in [paths -> FileIds]
  BY DEF Tars
<1>2. Place(tar, path, file) \in [paths \cup {path} -> FileIds] /\ paths \cup {path} \in SUBSET Paths
  BY <1>1 DEF Place
<1>3. Place(tar, path, file) \in Tars
  BY <1>2 DEF Tars
<1> QED  BY <1>3 DEF Place

(* The file of a mount that is still one has a row and with it a content:  *)
(* a read that does not fail puts it at its path, in place of what was     *)
(* there.                                                                  *)
LEMMA ReadMountStep == ASSUME FilesInv, NEW q \in Calls, ReadMount(q)  PROVE FilesInv'
<1>1. FilesTypeOK /\ RequestsTypeOK /\ job[q] \in Job /\ job \in [Calls -> Job]
  BY DEF FilesInv, FilesTypeOK
<1>2. at[q] = "mount.read" /\ Mounting(q) /\ Goto(q, "mount")
      /\ UNCHANGED <<files, minted, blobs, downloadable, resources, unremoved, misreported>>
  BY DEF ReadMount, Mounting
<1>3. /\ job[q].todo \subseteq job[q].listed /\ Listed(job[q])
      /\ <<job[q].res, job[q].file, job[q].path>> \in job[q].listed
      /\ \A m \in job[q].listed :
           /\ m[1] \in ResourceIds
           /\ resources[m[1]] # NoResource
           /\ IsRow(m[1]) => resources[m[1]].file = m[2] /\ m[2] \in files
           /\ IsRow(m[1]) /\ ~job[q].erred => Attended(q, m)
  BY <1>1, <1>2 DEF FilesInv, MountsInv, ForeignKey, Job, Mounts
<1>4. files \ misreported \subseteq blobs
  BY DEF FilesInv, StorageInv, RowsHaveBlobs
<1>5. CASE job' = [job EXCEPT ![q].tar = IF job[q].file \in blobs
                                         THEN Place(@, job[q].path, job[q].file) ELSE @]
  <2> DEFINE file == job[q].file
             path == job[q].path
             old  == job[q].tar
             tar  == IF file \in blobs THEN Place(old, path, file) ELSE old
             j    == [job[q] EXCEPT !.tar = tar]
  <2>1. old \in Tars /\ path \in Paths /\ file \in FileIds
    BY <1>1 DEF Job
  <2>2. /\ tar \in Tars /\ DOMAIN old \subseteq DOMAIN tar /\ (file \in blobs => path \in DOMAIN tar)
        /\ \A p \in DOMAIN tar : \/ p = path /\ tar[p] = file
                                 \/ p \in DOMAIN old /\ tar[p] = old[p]
    <3>1. CASE file \in blobs
      <4>1. tar = Place(old, path, file)
        BY <3>1
      <4> HIDE DEF tar, old, path, file
      <4>2. /\ tar \in Tars /\ DOMAIN tar = DOMAIN old \cup {path}
            /\ \A p \in DOMAIN old \cup {path} : tar[p] = IF p = path THEN file ELSE old[p]
        BY <2>1, <4>1, Placed
      <4> QED  BY <4>2
    <3>2. CASE file \notin blobs
      <4>1. tar = old
        BY <3>2
      <4> HIDE DEF tar, old, path, file
      <4> QED  BY <2>1, <3>2, <4>1
    <3> QED  BY <3>1, <3>2
  <2>3. job' = [job EXCEPT ![q].tar = tar]
    BY <1>1, <1>5
  <2>4. <<job[q].res, file, path>> \in job[q].listed
    BY <1>3
  <2>5. /\ \A p \in DOMAIN old : \E m \in job[q].listed : m[3] = p /\ m[2] = old[p]
        /\ \A x : Attended(q, x) => \/ x[3] \in DOMAIN old
                                    \/ x[2] \in misreported
                                    \/ x \in job[q].todo
                                    \/ x[2] = file /\ x[3] = path
    BY <1>3 DEF Listed, Attended
  <2> HIDE DEF file, path, old, tar
  <2>6. /\ j \in Job /\ j.listed = job[q].listed /\ j.todo = job[q].todo
        /\ j.erred = job[q].erred /\ j.tar = tar
    BY <1>1, <2>2 DEF Job
  <2>7. job' = [job EXCEPT ![q] = j]
    BY <1>1, <2>3 DEF Job
  <2> HIDE DEF j
  <2>8. Listed(j)
    BY <2>2, <2>4, <2>5, <2>6 DEF Listed
  <2>9. ASSUME NEW x \in j.listed, IsRow(x[1]), ~j.erred
        PROVE  x[3] \in DOMAIN j.tar \/ x[2] \in misreported \/ x \in j.todo
    <3>1. Attended(q, x) /\ x[2] \in files
      BY <1>3, <2>6, <2>9
    <3> QED  BY <1>4, <2>2, <2>5, <2>6, <3>1
  <2> QED  BY <1>2, <1>3, <2>6, <2>7, <2>8, <2>9, MountStep
<1>6. CASE job' = [job EXCEPT ![q].erred = TRUE]
  <2> DEFINE j == [job[q] EXCEPT !.erred = TRUE]
  <2>1. /\ j \in Job /\ j.listed = job[q].listed /\ j.todo = job[q].todo /\ j.erred = TRUE
        /\ j.tar = job[q].tar /\ job' = [job EXCEPT ![q] = j]
    BY <1>1, <1>6 DEF Job
  <2> HIDE DEF j
  <2>2. Listed(j)
    BY <1>3, <2>1 DEF Listed
  <2> QED  BY <1>2, <1>3, <2>1, <2>2, MountStep
<1> QED  BY <1>5, <1>6 DEF ReadMount

-----------------------------------------------------------------------------
(* The steps of the other handlers change at most a resource, and where    *)
(* their request stands.                                                   *)
Elsewhere == {"refused", "ok", "failed", "file.download", "attach", "attach.insert",
              "resource.insert", "resource.write", "resource.delete"}

LEMMA OtherStep ==
  ASSUME FilesInv, NEW q \in Calls, NEW step, Goto(q, step), NEW j \in Job, job' = [job EXCEPT ![q] = j],
         UNCHANGED <<files, minted, blobs, downloadable, unremoved, misreported>>,
         ResourceStep, resources' \in [ResourceIds -> Resource \cup {NoResource, Removed}],
         at[q] \notin {"file.insert", "file.undo", "file.delete", "blob.delete"},
         step \in Elsewhere
  PROVE  FilesInv'
<1>1. RequestsTypeOK /\ FilesTypeOK
  BY DEF FilesInv
<1>2. OnlyMoves(q) /\ RequestsTypeOK' /\ at'[q] = step /\ job' \in [Calls -> Job]
  BY <1>1, FileStepMoves
<1>3. FilesTypeOK'
  BY <1>1, <1>2 DEF FilesTypeOK
<1>4. ~Uploading(q) /\ ~Deleting(q)
  BY DEF Uploading, Deleting
<1>5. ~Uploading(q)' /\ ~Deleting(q)' /\ ~Mounting(q)'
  BY <1>2 DEF Elsewhere, Uploading, Deleting, Mounting
<1> QED  BY <1>2, <1>3, <1>4, <1>5, ElsewhereKept

LEMMA OtherStepOnly ==
  ASSUME FilesInv, NEW q \in Calls, NEW step, Goto(q, step), UNCHANGED job,
         UNCHANGED <<files, minted, blobs, downloadable, unremoved, misreported>>,
         ResourceStep, resources' \in [ResourceIds -> Resource \cup {NoResource, Removed}],
         at[q] \notin {"file.insert", "file.undo", "file.delete", "blob.delete"},
         step \in Elsewhere
  PROVE  FilesInv'
<1>1. job[q] \in Job /\ job' = [job EXCEPT ![q] = job[q]]
  BY DEF FilesInv, FilesTypeOK
<1> QED  BY <1>1, OtherStep

(* One step per disjunct of FilesNext.                                     *)
LEMMA FilesStep == FilesInv /\ [FilesNext]_<<at, fileVars>> => FilesInv'
<1> SUFFICES ASSUME FilesInv, [FilesNext]_<<at, fileVars>>  PROVE FilesInv'
  OBVIOUS
<1> DEFINE resourcesOK == ResourceStep /\ resources' \in [ResourceIds -> Resource \cup {NoResource, Removed}]
<1>a. FilesTypeOK /\ job \in [Calls -> Job]
  BY DEF FilesInv, FilesTypeOK
<1>b. UNCHANGED <<files, resources>> => resourcesOK
  BY <1>a, ResourcesStay DEF FilesTypeOK
<1>1. ASSUME NEW q \in Calls, Upload(q)  PROVE FilesInv'
  BY <1>1, StoreBlobStep DEF Upload
<1>2. ASSUME NEW q \in Calls, UploadInternal(q)  PROVE FilesInv'
  BY <1>2, StoreBlobStep DEF UploadInternal
<1>3. ASSUME NEW q \in Calls, InsertFile(q)  PROVE FilesInv'
  BY <1>3, InsertFileStep
<1>4. ASSUME NEW q \in Calls, UndoUpload(q)  PROVE FilesInv'
  BY <1>4, RemoveBlobStep DEF UndoUpload
<1>5. ASSUME NEW q \in Calls, ReadFile(q, "file.download")  PROVE FilesInv'
  <2>1. at[q] = "new" /\ UNCHANGED <<files, minted, blobs, downloadable, resources, unremoved, misreported>>
    BY <1>5 DEF ReadFile, Fresh
  <2>2. CASE Goto(q, "refused") /\ UNCHANGED job
    BY <1>b, <2>1, <2>2, OtherStepOnly DEF Elsewhere
  <2>3. ASSUME NEW f \in FileIds, Goto(q, "file.download"), job' = [job EXCEPT ![q].file = f]
        PROVE  FilesInv'
    <3> DEFINE j == [job[q] EXCEPT !.file = f]
    <3>1. j \in Job /\ job' = [job EXCEPT ![q] = j]
      BY <1>a, <2>3 DEF Job
    <3> HIDE DEF j
    <3> QED  BY <1>b, <2>1, <2>3, <3>1, OtherStep DEF Elsewhere
  <2> QED  BY <1>5, <2>2, <2>3 DEF ReadFile
<1>6. ASSUME NEW q \in Calls, Download(q)  PROVE FilesInv'
  <2>1. PICK step \in {"refused", "ok", "failed"} : Goto(q, step)
    BY <1>6 DEF Download
  <2> QED  BY <1>b, <1>6, <2>1, OtherStepOnly DEF Elsewhere, Download, fileVars
<1>7. ASSUME NEW q \in Calls, ReadFile(q, "file.delete")  PROVE FilesInv'
  BY <1>7, FindDeletedStep
<1>8. ASSUME NEW q \in Calls, DeleteRow(q)  PROVE FilesInv'
  BY <1>8, DeleteRowStep
<1>9. ASSUME NEW q \in Calls, DeleteBlob(q)  PROVE FilesInv'
  BY <1>9, RemoveBlobStep DEF DeleteBlob
<1>10. ASSUME NEW q \in Calls, FindFile(q)  PROVE FilesInv'
  <2>1. at[q] = "new" /\ UNCHANGED <<files, minted, blobs, downloadable, resources, unremoved, misreported>>
    BY <1>10 DEF FindFile, Fresh
  <2>2. CASE Goto(q, "refused") /\ UNCHANGED job
    BY <1>b, <2>1, <2>2, OtherStepOnly DEF Elsewhere
  <2>3. ASSUME NEW h \in Hosts, NEW f \in FileIds, Goto(q, "resource.insert"),
               job' = [job EXCEPT ![q].host = h, ![q].file = f]
        PROVE  FilesInv'
    <3> DEFINE j == [job[q] EXCEPT !.host = h, !.file = f]
    <3>1. j \in Job /\ job' = [job EXCEPT ![q] = j] /\ Goto(q, "resource.insert")
      BY <1>a, <2>3 DEF Job
    <3> HIDE DEF j
    <3> QED  BY <1>b, <2>1, <3>1, OtherStep DEF Elsewhere
  <2> QED  BY <1>10, <2>2, <2>3 DEF FindFile
<1>11. ASSUME NEW q \in Calls, AddResource(q)  PROVE FilesInv'
  <2>1. PICK step \in {"ok", "failed"} : Goto(q, step)
    BY <1>11 DEF AddResource
  <2>2. resourcesOK
    BY <1>a, <1>b, <1>11, ResourceStored DEF AddResource
  <2> QED  BY <1>11, <2>1, <2>2, OtherStepOnly DEF Elsewhere, AddResource
<1>12. ASSUME NEW q \in Calls, BeginAttach(q)  PROVE FilesInv'
  <2>1. at[q] = "new" /\ Goto(q, "attach")
        /\ UNCHANGED <<files, minted, blobs, downloadable, resources, unremoved, misreported>>
    BY <1>12 DEF BeginAttach, Fresh
  <2>2. PICK h \in Hosts, fs \in SUBSET FileIds : job' = [job EXCEPT ![q].host = h, ![q].files = fs]
    BY <1>12 DEF BeginAttach
  <2> DEFINE j == [job[q] EXCEPT !.host = h, !.files = fs]
  <2>3. j \in Job /\ job' = [job EXCEPT ![q] = j]
    BY <1>a, <2>2 DEF Job
  <2> HIDE DEF j
  <2>4. resourcesOK
    BY <1>b, <2>1
  <2> QED  BY <2>1, <2>3, <2>4, OtherStep DEF Elsewhere
<1>13. ASSUME NEW q \in Calls, AttachNext(q)  PROVE FilesInv'
  <2>1. at[q] = "attach" /\ UNCHANGED <<files, minted, blobs, downloadable, resources, unremoved, misreported>>
    BY <1>13 DEF AttachNext
  <2>2. CASE Goto(q, "ok") /\ UNCHANGED job
    BY <1>b, <2>1, <2>2, OtherStepOnly DEF Elsewhere
  <2>3. ASSUME NEW f \in job[q].files, NEW step \in {"attach.insert", "attach"}, Goto(q, step),
               job' = [job EXCEPT ![q].file = f, ![q].files = @ \ {f}]
        PROVE  FilesInv'
    <3> DEFINE left == job[q].files \ {f}
               j == [job[q] EXCEPT !.file = f, !.files = left]
    <3>1. f \in FileIds /\ left \in SUBSET FileIds
      BY <1>a DEF Job
    <3>2. job' = [job EXCEPT ![q].file = f, ![q].files = left]
      BY <1>a, <2>3 DEF Job
    <3> HIDE DEF left
    <3>3. j \in Job /\ job' = [job EXCEPT ![q] = j] /\ Goto(q, step)
      BY <1>a, <2>3, <3>1, <3>2 DEF Job
    <3> HIDE DEF j
    <3> QED  BY <1>b, <2>1, <3>3, OtherStep DEF Elsewhere
  <2> QED  BY <1>13, <2>2, <2>3 DEF AttachNext
<1>14. ASSUME NEW q \in Calls, AttachResource(q)  PROVE FilesInv'
  <2>1. resourcesOK
    BY <1>a, <1>b, <1>14, ResourceStored DEF AttachResource
  <2> QED  BY <1>14, <2>1, OtherStepOnly DEF Elsewhere, AttachResource
<1>15. ASSUME NEW q \in Calls, NEW step \in {"resource.write", "resource.delete"}, ReadResource(q, step)
       PROVE  FilesInv'
  <2>1. at[q] = "new" /\ UNCHANGED <<files, minted, blobs, downloadable, resources, unremoved, misreported>>
    BY <1>15 DEF ReadResource, Fresh
  <2>2. CASE Goto(q, "refused") /\ UNCHANGED job
    BY <1>b, <2>1, <2>2, OtherStepOnly DEF Elsewhere
  <2>3. ASSUME NEW r \in ResourceIds, Goto(q, step), job' = [job EXCEPT ![q].res = r]
        PROVE  FilesInv'
    <3> DEFINE j == [job[q] EXCEPT !.res = r]
    <3>1. j \in Job /\ job' = [job EXCEPT ![q] = j]
      BY <1>a, <2>3 DEF Job
    <3> HIDE DEF j
    <3> QED  BY <1>b, <2>1, <2>3, <3>1, OtherStep DEF Elsewhere
  <2> QED  BY <1>15, <2>2, <2>3 DEF ReadResource
<1>16. ASSUME NEW q \in Calls, UpdateResource(q)  PROVE FilesInv'
  <2>1. job[q].res \in ResourceIds
    BY <1>a DEF Job
  <2>2. resourcesOK
    BY <1>a, <1>16, <2>1, ResourceWritten DEF UpdateResource
  <2> QED  BY <1>16, <2>2, OtherStepOnly DEF Elsewhere, UpdateResource
<1>17. ASSUME NEW q \in Calls, DeleteResource(q)  PROVE FilesInv'
  <2>1. resourcesOK
    BY <1>a, <1>17, ResourceRemoved DEF DeleteResource, Job
  <2> QED  BY <1>17, <2>1, OtherStepOnly DEF Elsewhere, DeleteResource
<1>18. ASSUME NEW q \in Calls, ListResources(q)  PROVE FilesInv'
  BY <1>18, ListResourcesStep
<1>19. ASSUME NEW q \in Calls, FindMount(q)  PROVE FilesInv'
  BY <1>19, FindMountStep
<1>20. ASSUME NEW q \in Calls, ReadMount(q)  PROVE FilesInv'
  BY <1>20, ReadMountStep
<1>21. ASSUME UNCHANGED <<at, fileVars>>  PROVE FilesInv'
  <2>1. UNCHANGED <<at, files, minted, blobs, downloadable, resources, job, unremoved, misreported>>
    BY <1>21 DEF fileVars
  <2>2. RequestsTypeOK' /\ FilesTypeOK'
    BY <2>1 DEF FilesInv, RequestsTypeOK, FilesTypeOK
  <2>3. StorageInv'
    BY <2>1 DEF FilesInv, StorageInv, HeldFiles, Apart, RowsHaveBlobs, BlobsAccountedFor, Uploading, Deleting
  <2>4. ForeignKey' /\ MountsInv'
    BY <2>1 DEF FilesInv, ForeignKey, MountsInv, IsRow, Mounting, Attended
  <2> QED  BY <2>2, <2>3, <2>4 DEF FilesInv
<1> QED
  BY <1>1, <1>2, <1>3, <1>4, <1>5, <1>6, <1>7, <1>8, <1>9, <1>10, <1>11, <1>12, <1>13, <1>14, <1>15,
     <1>16, <1>17, <1>18, <1>19, <1>20, <1>21 DEF FilesNext

(* Files, their contents, resources and mounts agree in every reachable    *)
(* state.                                                                  *)
THEOREM FilesInvariance == FilesSpec => []FilesInv
<1>1. RequestsInit /\ FilesInit => FilesInv
  BY FilesInitOK
<1>2. FilesInv /\ [FilesNext]_<<at, fileVars>> => FilesInv'
  BY FilesStep
<1> QED  BY <1>1, <1>2, PTL DEF FilesSpec

(* A file that has a row can be read, whatever uploads and deletions       *)
(* overlap (Upload, Delete of file_handler.go).                            *)
THEOREM RowsAlwaysHaveBlobs == FilesSpec => []RowsHaveBlobs
<1>1. FilesInv => RowsHaveBlobs
  BY DEF FilesInv, StorageInv
<1> QED  BY <1>1, FilesInvariance, PTL

(* The handlers leave no content without a row behind, but where a         *)
(* statement or the storage failed.                                        *)
THEOREM BlobsAreAccountedFor == FilesSpec => []BlobsAccountedFor
<1>1. FilesInv => BlobsAccountedFor
  BY DEF FilesInv, StorageInv
<1> QED  BY <1>1, FilesInvariance, PTL

(* What provision copies to a sandbox was listed where it is, and when no  *)
(* read failed no path that was listed, with a resource that still is      *)
(* one, goes without a file (buildFileMountTar).                           *)
THEOREM MountsAreComplete == FilesSpec => []MountsComplete
<1>1. ASSUME FilesInv  PROVE MountsComplete
  <2>1. ASSUME NEW q \in Calls, at[q] = "mounted"
        PROVE  \A p \in DOMAIN job[q].tar : \E m \in job[q].listed : m[3] = p /\ m[2] = job[q].tar[p]
    BY <1>1, <2>1 DEF FilesInv, MountsInv, Mounting, Listed
  <2>2. ASSUME NEW q \in Calls, at[q] = "mounted", ~job[q].erred,
               NEW m \in job[q].listed, IsRow(m[1])
        PROVE  m[3] \in DOMAIN job[q].tar \/ m[2] \in misreported
    <3>1. Attended(q, m) /\ job[q].todo = {}
      BY <1>1, <2>2 DEF FilesInv, MountsInv, Mounting
    <3> QED  BY <2>2, <3>1 DEF Attended
  <2> QED  BY <2>1, <2>2 DEF MountsComplete
<1> QED  BY <1>1, FilesInvariance, PTL
=============================================================================
