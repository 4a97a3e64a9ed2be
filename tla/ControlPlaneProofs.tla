------------------------- MODULE ControlPlaneProofs -------------------------
(***************************************************************************)
(* What holds of the API as a whole (module MCControlPlane), for any       *)
(* number of requests and rows: each component keeps its invariant, and    *)
(* the others, whose tables it does not touch, stay well formed.           *)
(*                                                                         *)
(* The proofs about vaults and skills are here.  A request on a vault      *)
(* holds a valid copy of a row, so that what it writes back unchecked is   *)
(* valid too.  The unique index keeps the names of skills apart whatever   *)
(* the handlers have looked up, and an Update that has read the row that   *)
(* is stored keeps its files.                                              *)
(***************************************************************************)
EXTENDS MCControlPlane, AgentsProofs, FilesProofs, AccountsProofs, DeliveryProofs,
        FiniteSetTheorems, TLAPS

-----------------------------------------------------------------------------
(* Vaults.                                                                 *)
VaultsInv ==
  RequestsTypeOK /\ VaultsTypeOK /\ MetadataBounded /\ SecretsHaveVault /\ PatchesAddUp

(* No metadata at all is valid.                                            *)
LEMMA NothingIsValid == ValidMetadata({})
BY VaultsAssumption, FS_EmptySet DEF ValidMetadata

(* The copy that an Update makes of valid metadata is valid, if it has     *)
(* been validated or the request names no key.                             *)
LEMMA PatchIsValid ==
  ASSUME NEW p, ValidMetadata(p.read),
         p.put \cup p.drop = {} \/ ValidMetadata(Patch(p, p.read))
  PROVE  ValidMetadata(Patch(p, p.read))
<1>1. ASSUME p.put \cup p.drop = {}  PROVE Patch(p, p.read) = p.read
  BY <1>1 DEF Patch
<1> QED  BY <1>1

LEMMA VaultsInitOK == RequestsInit /\ VaultsInit => VaultsInv
<1> SUFFICES ASSUME RequestsInit, VaultsInit  PROVE VaultsInv
  OBVIOUS
<1> USE DEF RequestsInit, VaultsInit
<1>1. RequestsTypeOK
  BY DEF RequestsTypeOK
<1>2. VaultsTypeOK
  BY DEF VaultsTypeOK
<1>3. MetadataBounded
  BY NothingIsValid DEF MetadataBounded, NoPatch
<1>4. SecretsHaveVault /\ PatchesAddUp
  BY DEF SecretsHaveVault, PatchesAddUp
<1> QED  BY <1>1, <1>2, <1>3, <1>4 DEF VaultsInv

LEMMA VaultsStep == VaultsInv /\ [VaultsNext]_<<at, vaultVars>> => VaultsInv'
<1> SUFFICES ASSUME VaultsInv, [VaultsNext]_<<at, vaultVars>>  PROVE VaultsInv'
  OBVIOUS
<1> USE DEF VaultsInv, RequestsTypeOK, Goto, Fresh
<1>1. ASSUME NEW q \in Calls, CreateVault(q)  PROVE VaultsInv'
  <2> USE <1>1 DEF CreateVault, InsertVault
  <2>1. RequestsTypeOK'
    OBVIOUS
  <2>2. VaultsTypeOK'
    BY DEF VaultsTypeOK
  <2>3. MetadataBounded'
    BY DEF VaultsTypeOK, MetadataBounded, ValidMetadata
  <2>4. SecretsHaveVault'
    BY DEF VaultsTypeOK, SecretsHaveVault
  <2>5. PatchesAddUp'
    BY DEF VaultsTypeOK, PatchesAddUp
  <2> QED  BY <2>1, <2>2, <2>3, <2>4, <2>5
<1>2. ASSUME NEW q \in Calls, ReadVault(q)  PROVE VaultsInv'
  <2> USE <1>2 DEF ReadVault, vaultTables, vaultGhosts
  <2>1. RequestsTypeOK'
    OBVIOUS
  <2>2. VaultsTypeOK'
    BY DEF VaultsTypeOK, Patches, OwnVault
  <2>3. MetadataBounded'
    BY DEF VaultsTypeOK, MetadataBounded, ValidMetadata, OwnVault
  <2>4. SecretsHaveVault' /\ PatchesAddUp'
    BY DEF SecretsHaveVault, PatchesAddUp
  <2> QED  BY <2>1, <2>2, <2>3, <2>4
<1>3. ASSUME NEW q \in Calls, WriteVault(q)  PROVE VaultsInv'
  <2> DEFINE p == patch[q]
  <2> USE <1>3 DEF WriteVault, Overwrite
  <2>1. RequestsTypeOK'
    OBVIOUS
  <2>2. p \in Patches
    BY DEF VaultsTypeOK
  <2>3. Patch(p, p.read) \in SUBSET MetaKeys
    BY <2>2 DEF Patch, Patches
  <2>4. VaultsTypeOK'
    BY <2>2, <2>3 DEF VaultsTypeOK, Patches
  <2>5. CASE UNCHANGED <<metadata, agreed, overtaken>>
    <3>1. MetadataBounded' /\ SecretsHaveVault' /\ PatchesAddUp'
      BY <2>5 DEF MetadataBounded, ValidMetadata, SecretsHaveVault, PatchesAddUp
    <3> QED  BY <2>1, <2>4, <3>1
  <2>6. CASE Overwrite(p) /\ ValidMetadata(Patch(p, p.read))
    <3>1. MetadataBounded'
      BY <2>2, <2>6 DEF VaultsTypeOK, MetadataBounded, ValidMetadata, Patches
    <3>2. SecretsHaveVault'
      BY DEF SecretsHaveVault
    <3>3. PatchesAddUp'
      BY <2>2, <2>6 DEF VaultsTypeOK, PatchesAddUp, Patch, Patches
    <3> QED  BY <2>1, <2>4, <3>1, <3>2, <3>3
  <2>7. ValidMetadata(p.read)
    BY DEF MetadataBounded
  <2> QED  BY <2>5, <2>6, <2>7, PatchIsValid
<1>4. ASSUME NEW q \in Calls, ArchiveVault(q)  PROVE VaultsInv'
  <2>1. RequestsTypeOK' /\ VaultsTypeOK'
    BY <1>4 DEF ArchiveVault, StampArchived, vaultGhosts, VaultsTypeOK
  <2>2. MetadataBounded' /\ SecretsHaveVault' /\ PatchesAddUp'
    BY <1>4 DEF ArchiveVault, vaultGhosts, MetadataBounded, ValidMetadata, SecretsHaveVault, PatchesAddUp
  <2> QED  BY <2>1, <2>2
<1>5. ASSUME NEW q \in Calls, DeleteVault(q)  PROVE VaultsInv'
  <2> USE <1>5 DEF DeleteVault, DeleteVaultRow, vaultGhosts
  <2>1. RequestsTypeOK' /\ VaultsTypeOK'
    BY DEF VaultsTypeOK
  <2>2. MetadataBounded' /\ PatchesAddUp'
    BY DEF VaultsTypeOK, MetadataBounded, ValidMetadata, PatchesAddUp
  <2>3. SecretsHaveVault'
    BY DEF VaultsTypeOK, SecretsHaveVault
  <2> QED  BY <2>1, <2>2, <2>3
<1>6. ASSUME NEW q \in Calls, SetSecret(q)  PROVE VaultsInv'
  <2> USE <1>6 DEF SetSecret, UpsertSecret, vaultGhosts
  <2>1. RequestsTypeOK'
    OBVIOUS
  <2>2. VaultsTypeOK'
    BY DEF VaultsTypeOK
  <2>3. MetadataBounded' /\ PatchesAddUp'
    BY DEF MetadataBounded, ValidMetadata, PatchesAddUp
  <2>4. SecretsHaveVault'
    BY DEF SecretsHaveVault, OwnVault
  <2> QED  BY <2>1, <2>2, <2>3, <2>4
<1>7. ASSUME NEW q \in Calls, DeleteSecret(q)  PROVE VaultsInv'
  <2> USE <1>7 DEF DeleteSecret, RemoveSecret, vaultGhosts
  <2>1. RequestsTypeOK'
    OBVIOUS
  <2>2. VaultsTypeOK'
    BY DEF VaultsTypeOK
  <2>3. MetadataBounded' /\ PatchesAddUp'
    BY DEF MetadataBounded, ValidMetadata, PatchesAddUp
  <2>4. SecretsHaveVault'
    BY DEF SecretsHaveVault, OwnVault
  <2> QED  BY <2>1, <2>2, <2>3, <2>4
<1>8. CASE UNCHANGED <<at, vaultVars>>
  BY <1>8 DEF vaultVars, vaultTables, vaultGhosts, VaultsTypeOK, MetadataBounded, ValidMetadata,
              SecretsHaveVault, PatchesAddUp
<1> QED  BY <1>1, <1>2, <1>3, <1>4, <1>5, <1>6, <1>7, <1>8 DEF VaultsNext

(* Vaults, metadata, secrets and the requests that work on them agree in   *)
(* every reachable state (vault_handler.go).                               *)
THEOREM VaultsInvariance == VaultsSpec => []VaultsInv
<1> QED  BY VaultsInitOK, VaultsStep, PTL DEF VaultsSpec

(* No vault ever holds more metadata than is allowed, and every secret has *)
(* its vault, whatever requests overtake each other.                       *)
THEOREM VaultsStayConsistent == VaultsSpec => []VaultsConsistent
<1>1. VaultsInv => VaultsConsistent
  BY DEF VaultsInv, VaultsConsistent
<1> QED  BY <1>1, VaultsInvariance, PTL

(* Metadata is what the acknowledged requests add up to, unless a row      *)
(* changed between an Update's read and write: the lost update of          *)
(* OmittedKeysPreserved is the only way to lose a key.                     *)
THEOREM PatchesAlwaysAddUp == VaultsSpec => []PatchesAddUp
<1>1. VaultsInv => PatchesAddUp
  BY DEF VaultsInv
<1> QED  BY <1>1, VaultsInvariance, PTL

-----------------------------------------------------------------------------
(* Skills.                                                                 *)
(* An Update has read a row.                                               *)
ReadOK == \A q \in Calls : at[q] \in {"skill.check", "skill.write"} => upload[q].row \in SkillRow

SkillsInv == RequestsTypeOK /\ SkillsTypeOK /\ ReadOK /\ SkillsConsistent

-----------------------------------------------------------------------------
LEMMA SkillsInitOK == RequestsInit /\ SkillsInit => SkillsInv
<1> SUFFICES ASSUME RequestsInit, SkillsInit  PROVE SkillsInv
  OBVIOUS
<1> USE DEF RequestsInit, SkillsInit
<1>1. RequestsTypeOK
  BY DEF RequestsTypeOK
<1>2. SkillsTypeOK
  <2>1. \A q \in Calls : upload[q] \in Uploads
    BY SkillsAssumption DEF Uploads, ParsedSkill, FileSets
  <2> QED  BY <2>1 DEF SkillsTypeOK, FileSets
<1>3. ReadOK /\ SkillsConsistent
  BY DEF ReadOK, SkillsConsistent, NamesMeanOneSkill, FilesKept, StoredSkill
<1> QED  BY <1>1, <1>2, <1>3 DEF SkillsInv

(* A step of q leaves the others where they are.                           *)
LEMMA SkillStepMoves ==
  ASSUME RequestsTypeOK, NEW q \in Calls, NEW step, Goto(q, step)
  PROVE  RequestsTypeOK' /\ at'[q] = step /\ \A p \in Calls \ {q} : at'[p] = at[p]
  BY DEF RequestsTypeOK, Goto

(* A step that writes no row.                                              *)
LEMMA SkillsKept ==
  ASSUME SkillsInv, NEW q \in Calls, NEW step \in {"refused", "failed", "skill.insert",
                                                   "skill.check", "skill.write", "skill.delete"},
         Goto(q, step), UNCHANGED <<skills, filesAgreed, skillRaced>>,
         NEW u \in Uploads, upload' = [upload EXCEPT ![q] = u],
         step \in {"skill.check", "skill.write"} => u.row \in SkillRow
  PROVE  SkillsInv'
<1>1. RequestsTypeOK /\ SkillsTypeOK /\ ReadOK /\ SkillsConsistent
  BY DEF SkillsInv
<1>2. RequestsTypeOK' /\ at'[q] = step /\ \A p \in Calls \ {q} : at'[p] = at[p]
  BY <1>1, SkillStepMoves
<1>3. /\ upload' \in [Calls -> Uploads]
      /\ upload'[q] = u /\ \A p \in Calls \ {q} : upload'[p] = upload[p]
  BY <1>1 DEF SkillsTypeOK
<1>4. SkillsTypeOK'
  BY <1>1, <1>3 DEF SkillsTypeOK
<1>5. ReadOK'
  BY <1>1, <1>2, <1>3 DEF ReadOK
<1>6. SkillsConsistent'
  BY <1>1 DEF SkillsConsistent, NamesMeanOneSkill, FilesKept, StoredSkill
<1> QED  BY <1>2, <1>4, <1>5, <1>6 DEF SkillsInv

(* A step that writes the row of skill s, under a name that is free, with  *)
(* the files agreed, unless s has been raced.                              *)
LEMMA SkillWritten ==
  ASSUME SkillsInv, NEW q \in Calls, Goto(q, "ok"), UNCHANGED upload,
         NEW s \in SkillIds, NEW row \in SkillRow, NEW left \in FileSets,
         skills' = [skills EXCEPT ![s] = row], filesAgreed' = [filesAgreed EXCEPT ![s] = left],
         skillRaced \subseteq skillRaced', skillRaced' \subseteq SkillIds,
         NameFree(SkillOwner[s], row.name, s),
         row.files = left \/ s \in skillRaced'
  PROVE  SkillsInv'
<1>1. RequestsTypeOK /\ SkillsTypeOK /\ ReadOK /\ SkillsConsistent
  BY DEF SkillsInv
<1>2. RequestsTypeOK' /\ at'[q] = "ok" /\ \A p \in Calls \ {q} : at'[p] = at[p]
  BY <1>1, SkillStepMoves
<1>3. /\ skills'[s] = row /\ filesAgreed'[s] = left
      /\ \A t \in SkillIds \ {s} : skills'[t] = skills[t] /\ filesAgreed'[t] = filesAgreed[t]
  BY <1>1 DEF SkillsTypeOK
<1>4. SkillsTypeOK'
  BY <1>1 DEF SkillsTypeOK
<1>5. ReadOK'
  BY <1>1, <1>2 DEF ReadOK
<1>6. NamesMeanOneSkill'
  <2>1. ASSUME NEW t \in SkillIds \ {s}, StoredSkill(t),
               SkillOwner[t] = SkillOwner[s], skills[t].name = row.name
        PROVE  FALSE
    BY <2>1 DEF NameFree, NameTakenBy, Named
  <2>2. \A t \in SkillIds \ {s} : StoredSkill(t)' <=> StoredSkill(t)
    BY <1>3 DEF StoredSkill
  <2> SUFFICES ASSUME NEW t \in SkillIds, NEW v \in SkillIds, StoredSkill(t)', StoredSkill(v)',
                      SkillOwner[t] = SkillOwner[v], skills'[t].name = skills'[v].name
               PROVE  t = v
    BY DEF NamesMeanOneSkill
  <2>3. CASE t # s /\ v # s
    BY <1>1, <1>3, <2>2, <2>3 DEF SkillsConsistent, NamesMeanOneSkill
  <2>4. CASE t = s \/ v = s
    BY <1>3, <2>1, <2>2, <2>4
  <2> QED  BY <2>3, <2>4
<1>7. FilesKept'
  BY <1>1, <1>3 DEF SkillsConsistent, FilesKept, StoredSkill
<1> QED  BY <1>2, <1>4, <1>5, <1>6, <1>7 DEF SkillsInv, SkillsConsistent

(* A step that makes a skill go, or that finds it gone.                    *)
LEMMA SkillGoes ==
  ASSUME SkillsInv, NEW q \in Calls, Goto(q, "ok"), UNCHANGED upload, NEW s \in SkillIds,
         skills' \in {skills, [skills EXCEPT ![s] = GoneSkill]}, skills'[s] \in {NoSkill, GoneSkill},
         filesAgreed' \in [SkillIds -> FileSets],
         \A t \in SkillIds \ {s} : filesAgreed'[t] = filesAgreed[t],
         skillRaced \subseteq skillRaced', skillRaced' \subseteq SkillIds
  PROVE  SkillsInv'
<1>1. RequestsTypeOK /\ SkillsTypeOK /\ ReadOK /\ SkillsConsistent
  BY DEF SkillsInv
<1>2. RequestsTypeOK' /\ at'[q] = "ok" /\ \A p \in Calls \ {q} : at'[p] = at[p]
  BY <1>1, SkillStepMoves
<1>3. \A t \in SkillIds \ {s} : skills'[t] = skills[t]
  BY <1>1 DEF SkillsTypeOK
<1>4. SkillsTypeOK'
  BY <1>1 DEF SkillsTypeOK
<1>5. ReadOK'
  BY <1>1, <1>2 DEF ReadOK
<1>6. \A t \in SkillIds : StoredSkill(t)' => t # s /\ StoredSkill(t)
  BY <1>3 DEF StoredSkill
<1>7. NamesMeanOneSkill'
  BY <1>1, <1>3, <1>6 DEF SkillsConsistent, NamesMeanOneSkill
<1>8. FilesKept'
  BY <1>1, <1>3, <1>6 DEF SkillsConsistent, FilesKept
<1> QED  BY <1>2, <1>4, <1>5, <1>7, <1>8 DEF SkillsInv, SkillsConsistent

-----------------------------------------------------------------------------
(* One step per disjunct of SkillsNext.                                    *)
LEMMA SkillsStep == SkillsInv /\ [SkillsNext]_<<at, skillVars>> => SkillsInv'
<1> SUFFICES ASSUME SkillsInv, [SkillsNext]_<<at, skillVars>>  PROVE SkillsInv'
  OBVIOUS
<1>a. RequestsTypeOK /\ SkillsTypeOK /\ ReadOK /\ SkillsConsistent
  BY DEF SkillsInv
<1>b. \A q \in Calls : upload[q] \in Uploads /\ upload = [upload EXCEPT ![q] = upload[q]]
  BY <1>a DEF SkillsTypeOK
<1>c. skills \in [SkillIds -> SkillRow \cup {NoSkill, GoneSkill}]
      /\ filesAgreed \in [SkillIds -> FileSets] /\ skillRaced \subseteq SkillIds
  BY <1>a DEF SkillsTypeOK
<1>1. ASSUME NEW q \in Calls, BeginCreateSkill(q)  PROVE SkillsInv'
  <2>1. UNCHANGED <<skills, filesAgreed, skillRaced>>
    BY <1>1 DEF BeginCreateSkill
  <2>2. CASE Goto(q, "refused") /\ UNCHANGED upload
    BY <1>b, <2>1, <2>2, SkillsKept
  <2>3. ASSUME NEW p \in ParseSkillMD \cup ParseSkillZip(q), Goto(q, "skill.insert"),
               upload' = [upload EXCEPT ![q].parsed = p]
        PROVE  SkillsInv'
    <3> DEFINE u == [upload[q] EXCEPT !.parsed = p]
    <3>1. p \in ParsedSkill
      BY DEF ParseSkillMD, ParseSkillZip, ParsedSkill, FileSets
    <3>2. u \in Uploads /\ upload' = [upload EXCEPT ![q] = u] /\ Goto(q, "skill.insert")
      BY <1>b, <2>3, <3>1 DEF Uploads
    <3> HIDE DEF u
    <3> QED  BY <2>1, <3>2, SkillsKept
  <2> QED  BY <1>1, <2>2, <2>3 DEF BeginCreateSkill
<1>2. ASSUME NEW q \in Calls, CreateSkill(q)  PROVE SkillsInv'
  <2> DEFINE p == upload[q].parsed
             row == [name |-> p.name, content |-> q, files |-> p.files]
  <2>1. p \in ParsedSkill /\ p.files \in FileSets
    BY <1>b DEF Uploads, ParsedSkill
  <2>2. row \in SkillRow /\ row.name = p.name /\ row.files = p.files
    BY <2>1 DEF SkillRow, ParsedSkill
  <2>3. PICK s \in SkillIds :
          /\ skills[s] = NoSkill /\ SkillOwner[s] = Caller[q]
          /\ IF NameFree(Caller[q], p.name, s)
             THEN /\ Goto(q, "ok")
                  /\ skills' = [skills EXCEPT ![s] = row]
                  /\ filesAgreed' = [filesAgreed EXCEPT ![s] = p.files]
             ELSE Goto(q, "failed") /\ UNCHANGED <<skills, filesAgreed>>
    BY <1>2 DEF CreateSkill, InsertSkill
  <2>4. UNCHANGED <<upload, skillRaced>>
    BY <1>2 DEF CreateSkill
  <2> HIDE DEF p, row
  <2>5. CASE NameFree(Caller[q], p.name, s)
    BY <1>c, <2>1, <2>2, <2>3, <2>4, <2>5, SkillWritten
  <2>6. CASE ~NameFree(Caller[q], p.name, s)
    BY <1>b, <2>3, <2>4, <2>6, SkillsKept
  <2> QED  BY <2>5, <2>6
<1>3. ASSUME NEW q \in Calls, NEW step \in {"skill.check", "skill.delete"}, ReadSkill(q, step)
      PROVE  SkillsInv'
  <2>1. UNCHANGED <<skills, filesAgreed, skillRaced>>
    BY <1>3 DEF ReadSkill
  <2>2. CASE Goto(q, "refused") /\ UNCHANGED upload
    BY <1>b, <2>1, <2>2, SkillsKept
  <2>3. ASSUME NEW s \in SkillIds, StoredSkill(s), Goto(q, step),
               upload' = [upload EXCEPT ![q].id = s, ![q].row = skills[s]]
        PROVE  SkillsInv'
    <3> DEFINE u == [upload[q] EXCEPT !.id = s, !.row = skills[s]]
    <3>1. skills[s] \in SkillRow
      BY <1>c, <2>3 DEF StoredSkill
    <3>2. u \in Uploads /\ u.row = skills[s] /\ upload' = [upload EXCEPT ![q] = u]
      BY <1>b, <2>3, <3>1 DEF Uploads
    <3> HIDE DEF u
    <3>3. Goto(q, step)
      BY <2>3
    <3> QED  BY <2>1, <3>1, <3>2, <3>3, SkillsKept
  <2> QED  BY <1>3, <2>2, <2>3 DEF ReadSkill
<1>4. ASSUME NEW q \in Calls, CheckName(q)  PROVE SkillsInv'
  <2>1. at[q] = "skill.check" /\ UNCHANGED <<skills, filesAgreed, skillRaced>>
    BY <1>4 DEF CheckName
  <2>2. CASE Goto(q, "refused") /\ UNCHANGED upload
    BY <1>b, <2>1, <2>2, SkillsKept
  <2>3. ASSUME NEW p \in ParseSkillMD \cup ParseSkillZip(q), Goto(q, "skill.write"),
               upload' = [upload EXCEPT ![q].parsed = p]
        PROVE  SkillsInv'
    <3> DEFINE u == [upload[q] EXCEPT !.parsed = p]
    <3>1. p \in ParsedSkill
      BY DEF ParseSkillMD, ParseSkillZip, ParsedSkill, FileSets
    <3>2. u \in Uploads /\ upload' = [upload EXCEPT ![q] = u] /\ u.row = upload[q].row
      BY <1>b, <2>3, <3>1 DEF Uploads
    <3>3. upload[q].row \in SkillRow
      BY <1>a, <2>1 DEF ReadOK
    <3> HIDE DEF u
    <3> QED  BY <2>1, <2>3, <3>2, <3>3, SkillsKept
  <2> QED  BY <1>4, <2>2, <2>3 DEF CheckName
<1>5. ASSUME NEW q \in Calls, UpdateSkill(q)  PROVE SkillsInv'
  <2> DEFINE s == upload[q].id
             old == upload[q].row
             p == upload[q].parsed
             row == [name |-> p.name, content |-> q, files |-> FilesOf(old.files, p)]
             left == IF p.zip THEN p.files ELSE filesAgreed[s]
  <2>1. s \in SkillIds /\ p \in ParsedSkill /\ old \in SkillRow
    BY <1>a, <1>b, <1>5 DEF Uploads, ReadOK, UpdateSkill
  <2>2. p.files \in FileSets /\ old.files \in FileSets /\ filesAgreed[s] \in FileSets
    BY <1>c, <2>1 DEF ParsedSkill, SkillRow
  <2>3. FilesOf(old.files, p) \in FileSets /\ left \in FileSets
    BY <2>2 DEF FilesOf
  <2>4. row \in SkillRow /\ row.name = p.name /\ row.files = FilesOf(old.files, p)
    BY <2>1, <2>3 DEF SkillRow, ParsedSkill
  <2>5. CASE StoredSkill(s) /\ ~NameFree(SkillOwner[s], p.name, s)
    <3>1. Goto(q, "failed") /\ UNCHANGED <<skills, filesAgreed, skillRaced, upload>>
      BY <1>5, <2>5 DEF UpdateSkill
    <3> HIDE DEF s, old, p, row, left
    <3> QED  BY <1>b, <3>1, SkillsKept
  <2>6. CASE ~(StoredSkill(s) /\ ~NameFree(SkillOwner[s], p.name, s))
    <3>1. /\ Goto(q, "ok") /\ UNCHANGED upload
          /\ skills' = IF StoredSkill(s) THEN [skills EXCEPT ![s] = row] ELSE skills
          /\ filesAgreed' = [filesAgreed EXCEPT ![s] = left]
          /\ skillRaced' = IF skills[s] = old THEN skillRaced ELSE skillRaced \cup {s}
      BY <1>5, <2>6 DEF UpdateSkill, WriteSkill
    <3>2. skillRaced \subseteq skillRaced' /\ skillRaced' \subseteq SkillIds
      BY <1>c, <2>1, <3>1
    <3>3. CASE ~StoredSkill(s)
      <4> HIDE DEF s, old, p, row, left
      <4>1. skills'[s] \in {NoSkill, GoneSkill}
        BY <3>1, <3>3 DEF StoredSkill
      <4>2. filesAgreed' \in [SkillIds -> FileSets] /\ \A t \in SkillIds \ {s} : filesAgreed'[t] = filesAgreed[t]
        BY <1>c, <2>1, <2>3, <3>1
      <4> QED  BY <2>1, <3>1, <3>2, <3>3, <4>1, <4>2, SkillGoes
    <3>4. CASE StoredSkill(s)
      <4>1. row.files = left \/ s \in skillRaced'
        <5>1. skills[s] = old => old.files = filesAgreed[s] \/ s \in skillRaced
          BY <1>a, <2>1, <3>4 DEF SkillsConsistent, FilesKept
        <5> QED  BY <2>4, <3>1, <5>1 DEF FilesOf
      <4>2. NameFree(SkillOwner[s], row.name, s)
        BY <2>4, <2>6, <3>4
      <4> HIDE DEF s, old, p, row, left
      <4> QED  BY <2>1, <2>3, <2>4, <3>1, <3>2, <3>4, <4>1, <4>2, SkillWritten
    <3> QED  BY <3>3, <3>4
  <2> QED  BY <2>5, <2>6
<1>6. ASSUME NEW q \in Calls, DeleteSkill(q)  PROVE SkillsInv'
  <2> DEFINE s == upload[q].id
  <2>1. s \in SkillIds
    BY <1>b DEF Uploads
  <2>2. Goto(q, "ok") /\ skills' = [skills EXCEPT ![s] = GoneSkill] /\ UNCHANGED <<upload, filesAgreed, skillRaced>>
    BY <1>6 DEF DeleteSkill, RemoveSkill
  <2> HIDE DEF s
  <2>3. skills'[s] = GoneSkill /\ skills' \in {skills, [skills EXCEPT ![s] = GoneSkill]}
    BY <1>c, <2>1, <2>2
  <2>4. Goto(q, "ok") /\ UNCHANGED <<upload, filesAgreed, skillRaced>>
    BY <2>2
  <2> QED  BY <1>c, <2>1, <2>3, <2>4, SkillGoes
<1>7. ASSUME UNCHANGED <<at, skillVars>>  PROVE SkillsInv'
  BY <1>7 DEF skillVars, SkillsInv, RequestsTypeOK, SkillsTypeOK, ReadOK, SkillsConsistent,
              NamesMeanOneSkill, FilesKept, StoredSkill
<1> QED  BY <1>1, <1>2, <1>3, <1>4, <1>5, <1>6, <1>7 DEF SkillsNext

(* Skills stay well formed, and are found by name with their files.        *)
THEOREM SkillsInvariance == SkillsSpec => []SkillsInv
<1>1. RequestsInit /\ SkillsInit => SkillsInv
  BY SkillsInitOK
<1>2. SkillsInv /\ [SkillsNext]_<<at, skillVars>> => SkillsInv'
  BY SkillsStep
<1> QED  BY <1>1, <1>2, PTL DEF SkillsSpec

(* A name means one skill, and a skill has the files of the last archive   *)
(* uploaded for it (Create and Update of skill_handler.go).                *)
THEOREM SkillsStayConsistent == SkillsSpec => []SkillsConsistent
<1>1. SkillsInv => SkillsConsistent
  BY DEF SkillsInv
<1> QED  BY <1>1, SkillsInvariance, PTL

-----------------------------------------------------------------------------
(* The components together.  A request to another component never comes to *)
(* the step at which a vault is written, the one thing of a request that   *)
(* VaultsTypeOK is about.                                                  *)
NoVaultWriter == \A q \in Calls : at[q] # "vault.write"

TablesTypeOK ==
  /\ AgentsTypeOK /\ FilesTypeOK /\ SkillsTypeOK /\ AccountsTypeOK /\ DeliveryTypeOK
  /\ VaultsTypeOK /\ (component # "vaults" => NoVaultWriter)

ControlInv ==
  /\ component \in Components
  /\ RequestsTypeOK /\ TablesTypeOK
  /\ component = "vaults"   => VaultsInv
  /\ component = "agents"   => AgentsInv
  /\ component = "files"    => FilesInv
  /\ component = "skills"   => SkillsInv
  /\ component = "accounts" => AccountsInv
  /\ component = "delivery" => DeliveryInv

LEMMA AsideStep ==
  ASSUME RequestsTypeOK, NoVaultWriter, NEW q \in Calls, NEW step, step # "vault.write",
         Goto(q, step)
  PROVE  NoVaultWriter'
BY DEF RequestsTypeOK, NoVaultWriter, Goto

LEMMA AgentsAside ==
  ASSUME RequestsTypeOK, NoVaultWriter, AgentsNext
  PROVE  NoVaultWriter'
<1> USE DEF Fresh
<1>1. PICK q \in Calls :
        \/ CreateAgent(q)
        \/ ReadAgent(q, "agent.write") \/ UpdateAgent(q)
        \/ ReadAgent(q, "agent.archive") \/ ArchiveAgent(q)
        \/ CreateEnvironment(q)
        \/ ReadEnvironment(q, "new", "env.write") \/ UpdateEnvironment(q)
        \/ ReadEnvironment(q, "new", "env.archive") \/ ArchiveEnvironment(q)
        \/ ReadEnvironment(q, "new", "env.delete") \/ DeleteEnvironment(q)
        \/ ReadAgent(q, "session.env") \/ ReadEnvironment(q, "session.env", "session.insert")
        \/ CreateSession(q)
        \/ ReadSession(q) \/ ArchiveSession(q)
  BY DEF AgentsNext
<1>2. ASSUME NEW step \in {"agent.write", "agent.archive", "session.env"}, ReadAgent(q, step)
      PROVE  NoVaultWriter'
  BY <1>2, AsideStep DEF ReadAgent
<1>3. ASSUME NEW from, NEW step \in {"env.write", "env.archive", "env.delete", "session.insert"},
             ReadEnvironment(q, from, step)
      PROVE  NoVaultWriter'
  BY <1>3, AsideStep DEF ReadEnvironment
<1>4. CASE CreateAgent(q) \/ UpdateAgent(q) \/ ArchiveAgent(q)
  BY <1>4, AsideStep DEF CreateAgent, UpdateAgent, ArchiveAgent
<1>5. CASE \/ CreateEnvironment(q) \/ UpdateEnvironment(q)
           \/ ArchiveEnvironment(q) \/ DeleteEnvironment(q)
  BY <1>5, AsideStep DEF CreateEnvironment, UpdateEnvironment, ArchiveEnvironment, DeleteEnvironment
<1>6. CASE CreateSession(q) \/ ReadSession(q) \/ ArchiveSession(q)
  BY <1>6, AsideStep DEF CreateSession, ReadSession, ArchiveSession
<1> QED  BY <1>1, <1>2, <1>3, <1>4, <1>5, <1>6

LEMMA FilesAside ==
  ASSUME RequestsTypeOK, NoVaultWriter, FilesNext
  PROVE  NoVaultWriter'
<1>1. PICK q \in Calls :
        \/ Upload(q) \/ UploadInternal(q) \/ InsertFile(q) \/ UndoUpload(q)
        \/ ReadFile(q, "file.download") \/ Download(q)
        \/ ReadFile(q, "file.delete") \/ DeleteRow(q) \/ DeleteBlob(q)
        \/ FindFile(q) \/ AddResource(q)
        \/ BeginAttach(q) \/ AttachNext(q) \/ AttachResource(q)
        \/ ReadResource(q, "resource.write") \/ UpdateResource(q)
        \/ ReadResource(q, "resource.delete") \/ DeleteResource(q)
        \/ ListResources(q) \/ FindMount(q) \/ ReadMount(q)
  BY DEF FilesNext
<1>2. CASE Upload(q) \/ UploadInternal(q)
  BY <1>2, AsideStep DEF Upload, UploadInternal, StoreBlob
<1>3. CASE InsertFile(q) \/ UndoUpload(q) \/ Download(q)
  BY <1>3, AsideStep DEF InsertFile, UndoUpload, Download
<1>4. ASSUME NEW step \in {"file.download", "file.delete"}, ReadFile(q, step)
      PROVE  NoVaultWriter'
  BY <1>4, AsideStep DEF ReadFile
<1>5. CASE DeleteRow(q) \/ DeleteBlob(q)
  BY <1>5, AsideStep DEF DeleteRow, DeleteBlob
<1>6. CASE FindFile(q) \/ AddResource(q)
  BY <1>6, AsideStep DEF FindFile, AddResource
<1>7. CASE BeginAttach(q) \/ AttachNext(q) \/ AttachResource(q)
  BY <1>7, AsideStep DEF BeginAttach, AttachNext, AttachResource
<1>8. ASSUME NEW step \in {"resource.write", "resource.delete"}, ReadResource(q, step)
      PROVE  NoVaultWriter'
  BY <1>8, AsideStep DEF ReadResource
<1>9. CASE UpdateResource(q) \/ DeleteResource(q)
  BY <1>9, AsideStep DEF UpdateResource, DeleteResource
<1>10. CASE ListResources(q) \/ FindMount(q) \/ ReadMount(q)
  BY <1>10, AsideStep DEF ListResources, FindMount, ReadMount
<1> QED  BY <1>1, <1>2, <1>3, <1>4, <1>5, <1>6, <1>7, <1>8, <1>9, <1>10

LEMMA SkillsAside ==
  ASSUME RequestsTypeOK, NoVaultWriter, SkillsNext
  PROVE  NoVaultWriter'
<1>1. PICK q \in Calls :
        \/ BeginCreateSkill(q) \/ CreateSkill(q)
        \/ ReadSkill(q, "skill.check") \/ CheckName(q) \/ UpdateSkill(q)
        \/ ReadSkill(q, "skill.delete") \/ DeleteSkill(q)
  BY DEF SkillsNext
<1>2. ASSUME NEW step \in {"skill.check", "skill.delete"}, ReadSkill(q, step)
      PROVE  NoVaultWriter'
  BY <1>2, AsideStep DEF ReadSkill
<1>3. CASE BeginCreateSkill(q) \/ CreateSkill(q)
  BY <1>3, AsideStep DEF BeginCreateSkill, CreateSkill
<1>4. CASE CheckName(q) \/ UpdateSkill(q) \/ DeleteSkill(q)
  BY <1>4, AsideStep DEF CheckName, UpdateSkill, DeleteSkill
<1> QED  BY <1>1, <1>2, <1>3, <1>4

LEMMA AccountsAside ==
  ASSUME RequestsTypeOK, NoVaultWriter, AccountsNext
  PROVE  NoVaultWriter'
<1>1. ASSUME NEW q \in Calls, BeginRegister(q) \/ InsertUser(q) \/ InsertWorkspace(q) \/ InsertMember(q)
      PROVE  NoVaultWriter'
  BY <1>1, AsideStep DEF BeginRegister, InsertUser, InsertWorkspace, InsertMember
<1>2. ASSUME NEW q \in Calls, Login(q) \/ BootstrapWorkspace(q) \/ BootstrapKey(q)
      PROVE  NoVaultWriter'
  BY <1>2, AsideStep DEF Login, BootstrapWorkspace, BootstrapKey
<1>3. ASSUME NEW q \in Calls, AuthToken(q) \/ AuthKey(q)
      PROVE  NoVaultWriter'
  BY <1>3, AsideStep DEF AuthToken, AuthKey, Enter
<1>4. ASSUME NEW q \in Calls, CreateKey(q) \/ RevokeKey(q) \/ DeleteKey(q)
      PROVE  NoVaultWriter'
  BY <1>4, AsideStep DEF CreateKey, RevokeKey, DeleteKey
<1>5. ASSUME NEW k \in Calls, TouchLastUsed(k) \/ Expire(k)
      PROVE  NoVaultWriter'
  BY <1>5 DEF TouchLastUsed, Expire, NoVaultWriter
<1> QED  BY <1>1, <1>2, <1>3, <1>4, <1>5 DEF AccountsNext

(* Tables that a step leaves alone stay well formed.                       *)
LEMMA TablesLeft ==
  /\ AgentsTypeOK /\ UNCHANGED agentVars => AgentsTypeOK'
  /\ FilesTypeOK /\ UNCHANGED fileVars => FilesTypeOK'
  /\ SkillsTypeOK /\ UNCHANGED skillVars => SkillsTypeOK'
  /\ AccountsTypeOK /\ UNCHANGED accountVars => AccountsTypeOK'
  /\ DeliveryTypeOK /\ UNCHANGED deliveryVars => DeliveryTypeOK'
  /\ VaultsTypeOK /\ UNCHANGED vaultVars /\ NoVaultWriter' => VaultsTypeOK'
<1>1. AgentsTypeOK /\ UNCHANGED agentVars => AgentsTypeOK'
  BY DEF AgentsTypeOK, agentVars, agentTables
<1>2. FilesTypeOK /\ UNCHANGED fileVars => FilesTypeOK'
  BY DEF FilesTypeOK, fileVars
<1>3. SkillsTypeOK /\ UNCHANGED skillVars => SkillsTypeOK'
  BY DEF SkillsTypeOK, skillVars
<1>4. AccountsTypeOK /\ UNCHANGED accountVars => AccountsTypeOK'
  BY DEF AccountsTypeOK, accountVars
<1>5. DeliveryTypeOK /\ UNCHANGED deliveryVars => DeliveryTypeOK'
  BY DEF DeliveryTypeOK, deliveryVars, reporterVars, counterVars, viewerVars
<1>6. VaultsTypeOK /\ UNCHANGED vaultVars /\ NoVaultWriter' => VaultsTypeOK'
  BY DEF VaultsTypeOK, vaultVars, vaultTables, vaultGhosts, NoVaultWriter
<1> QED  BY <1>1, <1>2, <1>3, <1>4, <1>5, <1>6

LEMMA ControlInit == Init => ControlInv
<1> SUFFICES ASSUME Init  PROVE ControlInv
  OBVIOUS
<1>1. VaultsInv
  BY VaultsInitOK DEF Init
<1>2. AgentsInv
  BY AgentsInitOK DEF Init
<1>3. FilesInv
  BY FilesInitOK DEF Init
<1>4. SkillsInv
  BY SkillsInitOK DEF Init
<1>5. AccountsInv
  BY AccountsInitOK DEF Init
<1>6. DeliveryInv
  BY DeliveryInitOK DEF Init
<1>7. component \in Components /\ NoVaultWriter
  BY DEF Init, RequestsInit, NoVaultWriter
<1> QED  BY <1>1, <1>2, <1>3, <1>4, <1>5, <1>6, <1>7
         DEF ControlInv, TablesTypeOK, VaultsInv, AgentsInv, FilesInv, SkillsInv, AccountsInv, DeliveryInv

LEMMA ControlStep == ControlInv /\ [Next]_vars => ControlInv'
<1> SUFFICES ASSUME ControlInv, [Next]_vars  PROVE ControlInv'
  OBVIOUS
<1>a. component \in Components /\ RequestsTypeOK /\ TablesTypeOK
  BY DEF ControlInv
<1>b. component' = component
  BY DEF Next, vars
<1>1. CASE /\ component = "vaults" /\ VaultsNext
           /\ UNCHANGED <<agentVars, fileVars, skillVars, accountVars, deliveryVars>>
  <2>1. VaultsInv'
    BY <1>1, VaultsStep DEF ControlInv
  <2> QED  BY <1>a, <1>b, <1>1, <2>1, TablesLeft DEF ControlInv, TablesTypeOK, VaultsInv
<1>2. CASE /\ component = "agents" /\ AgentsNext
           /\ UNCHANGED <<vaultVars, fileVars, skillVars, accountVars, deliveryVars>>
  <2>1. AgentsInv'
    BY <1>2, AgentsStep DEF ControlInv
  <2>2. NoVaultWriter'
    BY <1>a, <1>2, AgentsAside DEF TablesTypeOK
  <2> QED  BY <1>a, <1>b, <1>2, <2>1, <2>2, TablesLeft DEF ControlInv, TablesTypeOK, AgentsInv
<1>3. CASE /\ component = "files" /\ FilesNext
           /\ UNCHANGED <<vaultVars, agentVars, skillVars, accountVars, deliveryVars>>
  <2>1. FilesInv'
    BY <1>3, FilesStep DEF ControlInv
  <2>2. NoVaultWriter'
    BY <1>a, <1>3, FilesAside DEF TablesTypeOK
  <2> QED  BY <1>a, <1>b, <1>3, <2>1, <2>2, TablesLeft DEF ControlInv, TablesTypeOK, FilesInv
<1>4. CASE /\ component = "skills" /\ SkillsNext
           /\ UNCHANGED <<vaultVars, agentVars, fileVars, accountVars, deliveryVars>>
  <2>1. SkillsInv'
    BY <1>4, SkillsStep DEF ControlInv
  <2>2. NoVaultWriter'
    BY <1>a, <1>4, SkillsAside DEF TablesTypeOK
  <2> QED  BY <1>a, <1>b, <1>4, <2>1, <2>2, TablesLeft DEF ControlInv, TablesTypeOK, SkillsInv
<1>5. CASE /\ component = "accounts" /\ AccountsNext
           /\ UNCHANGED <<vaultVars, agentVars, fileVars, skillVars, deliveryVars>>
  <2>1. AccountsInv'
    BY <1>5, AccountsStep DEF ControlInv
  <2>2. NoVaultWriter'
    BY <1>a, <1>5, AccountsAside DEF TablesTypeOK
  <2> QED  BY <1>a, <1>b, <1>5, <2>1, <2>2, TablesLeft DEF ControlInv, TablesTypeOK, AccountsInv
<1>6. CASE /\ component = "delivery" /\ DeliveryNext
           /\ UNCHANGED <<at, vaultVars, agentVars, fileVars, skillVars, accountVars>>
  <2>1. DeliveryInv'
    BY <1>6, DeliveryStep DEF ControlInv
  <2>2. NoVaultWriter' /\ RequestsTypeOK'
    BY <1>a, <1>6 DEF TablesTypeOK, NoVaultWriter, RequestsTypeOK
  <2> QED  BY <1>a, <1>b, <1>6, <2>1, <2>2, TablesLeft DEF ControlInv, TablesTypeOK, DeliveryInv
<1>7. CASE UNCHANGED vars
  <2>1. RequestsTypeOK' /\ (component # "vaults" => NoVaultWriter')
    BY <1>a, <1>7 DEF vars, RequestsTypeOK, TablesTypeOK, NoVaultWriter
  <2>2. /\ VaultsInv => VaultsInv'
        /\ AgentsInv => AgentsInv'
        /\ FilesInv => FilesInv'
    BY <1>7, VaultsStep, AgentsStep, FilesStep DEF vars
  <2>3. /\ SkillsInv => SkillsInv'
        /\ AccountsInv => AccountsInv'
        /\ DeliveryInv => DeliveryInv'
    BY <1>7, SkillsStep, AccountsStep, DeliveryStep DEF vars
  <2>4. VaultsTypeOK'
    BY <1>a, <1>7 DEF vars, vaultVars, vaultTables, vaultGhosts, TablesTypeOK, VaultsTypeOK
  <2> QED  BY <1>a, <1>b, <1>7, <2>1, <2>2, <2>3, <2>4, TablesLeft DEF ControlInv, TablesTypeOK, vars
<1> QED  BY <1>1, <1>2, <1>3, <1>4, <1>5, <1>6, <1>7 DEF Next

(* Whichever component the requests are sent to, it keeps its invariant,   *)
(* and every table stays well formed (the handlers of internal/api).       *)
THEOREM ControlInvariance == Spec => []ControlInv
<1>1. Init => ControlInv
  BY ControlInit
<1>2. ControlInv /\ [Next]_vars => ControlInv'
  BY ControlStep
<1> QED  BY <1>1, <1>2, PTL DEF Spec

(* The tables and the requests are well formed in every reachable state.   *)
THEOREM ControlTypeCorrect == Spec => []ControlTypeOK
<1>1. ControlInv => ControlTypeOK
  BY DEF ControlInv, TablesTypeOK, ControlTypeOK
<1> QED  BY <1>1, ControlInvariance, PTL
=============================================================================
