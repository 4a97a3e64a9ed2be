------------------------------- MODULE Skills -------------------------------
(***************************************************************************)
(* Skills (skill_handler.go, skill_service.go, skill_repo.go): a skill is  *)
(* uploaded as the text of a SKILL.md or as an archive that holds one and  *)
(* further files.  Names are looked up before a row is written; the        *)
(* database's unique index decides when two requests overtake each other.  *)
(*                                                                         *)
(* The text and the files of a skill are named by the request that         *)
(* uploaded them.                                                          *)
(***************************************************************************)
EXTENDS Requests

CONSTANTS
  SkillIds, SkillOwner,
  SkillNames,
  NoFiles,      \* the files of a skill made from text alone: {}
  NoSkill, GoneSkill  \* a skill not made yet, and one deleted

ASSUME SkillsAssumption ==
  /\ SkillOwner \in [SkillIds -> Workspaces] /\ SkillIds # {}
  /\ SkillNames # {}
  /\ NoSkill # GoneSkill

VARIABLES
  skills,       \* the table
  upload,       \* upload[q]: the skill request q updates and has read, and
                \*   what q uploads
  filesAgreed,  \* history: the files that the acknowledged uploads leave
  skillRaced    \* history: skills written by an Update that had read an
                \*   older row

skillVars == <<skills, upload, filesAgreed, skillRaced>>

FileSets == Calls \cup {NoFiles}
SkillRow == [name : SkillNames, content : Calls, files : FileSets]
StoredSkill(s) == skills[s] \notin {NoSkill, GoneSkill}

(* What parsing leaves: a valid name, the text, and the files of an        *)
(* archive (files = NoFiles: it had none).                                 *)
ParsedSkill == [name : SkillNames, zip : BOOLEAN, files : FileSets]
Uploads == [id : SkillIds, row : SkillRow \cup {NoSkill}, parsed : ParsedSkill]

SkillsTypeOK ==
  /\ skills \in [SkillIds -> SkillRow \cup {NoSkill, GoneSkill}]
  /\ upload \in [Calls -> Uploads]
  /\ filesAgreed \in [SkillIds -> FileSets]
  /\ skillRaced \subseteq SkillIds

SkillsInit ==
  /\ skills = [s \in SkillIds |-> NoSkill]
  /\ upload = [q \in Calls |->
       [id |-> CHOOSE s \in SkillIds : TRUE, row |-> NoSkill,
        parsed |-> [name |-> CHOOSE n \in SkillNames : TRUE, zip |-> FALSE, files |-> NoFiles]]]
  /\ filesAgreed = [s \in SkillIds |-> NoFiles]
  /\ skillRaced = {}

-----------------------------------------------------------------------------
(* SkillRepo.GetByName.                                                    *)
Named(w, n, s) == StoredSkill(s) /\ SkillOwner[s] = w /\ skills[s].name = n
NameTakenBy(w, n) == {s \in SkillIds : Named(w, n, s)}

(* Mutant: no index.                                                       *)
NameAlwaysFree(w, n, id) == TRUE

(* The unique index on (workspace_id, name).                               *)
NameFree(w, n, id) == NameTakenBy(w, n) \subseteq {id}

(* The statements of the repository; an UPDATE of a row deleted meanwhile  *)
(* changes nothing.                                                        *)
InsertSkill(s, row) == skills' = [skills EXCEPT ![s] = row]
WriteSkill(s, row) == skills' = IF StoredSkill(s) THEN [skills EXCEPT ![s] = row] ELSE skills
RemoveSkill(s) == skills' = [skills EXCEPT ![s] = GoneSkill]

(* ParseSkillMD and ValidateFrontmatter, for a text that passes: one       *)
(* without files.                                                          *)
ParseSkillMD == [name : SkillNames, zip : {FALSE}, files : {NoFiles}]

(* ParseSkillZip, for an archive that passes: the files beside SKILL.md.   *)
ParseSkillZip(q) == [name : SkillNames, zip : {TRUE}, files : {q, NoFiles}]

(* Is the name taken?  An error of the lookup counts as no.                *)
Taken(q, n) == {NameTakenBy(Caller[q], n) # {}, FALSE}

(* Create parses the upload (what does not pass is refused) and looks for  *)
(* the name.                                                               *)
BeginCreateSkill(q) ==
  /\ Fresh(q)
  /\ \/ \E p \in ParseSkillMD \cup ParseSkillZip(q) : \E taken \in Taken(q, p.name) :
          IF taken
          THEN Goto(q, "refused") /\ UNCHANGED upload
          ELSE Goto(q, "skill.insert") /\ upload' = [upload EXCEPT ![q].parsed = p]
     \/ Goto(q, "refused") /\ UNCHANGED upload
  /\ UNCHANGED <<skills, filesAgreed, skillRaced>>

CreateSkill(q) ==
  /\ at[q] = "skill.insert"
  /\ LET p == upload[q].parsed IN
     \E s \in SkillIds :
       /\ skills[s] = NoSkill /\ SkillOwner[s] = Caller[q]
       /\ IF NameFree(Caller[q], p.name, s)
          THEN /\ Goto(q, "ok")
               /\ InsertSkill(s, [name |-> p.name, content |-> q, files |-> p.files])
               /\ filesAgreed' = [filesAgreed EXCEPT ![s] = p.files]
          ELSE Goto(q, "failed") /\ UNCHANGED <<skills, filesAgreed>>
  /\ UNCHANGED <<upload, skillRaced>>

ReadSkill(q, step) ==
  /\ Fresh(q)
  /\ \E s \in SkillIds :
       IF StoredSkill(s) /\ SkillOwner[s] = Caller[q]
       THEN Goto(q, step) /\ upload' = [upload EXCEPT ![q].id = s, ![q].row = skills[s]]
       ELSE Goto(q, "refused") /\ UNCHANGED upload
  /\ UNCHANGED <<skills, filesAgreed, skillRaced>>

(* Update looks for the name only when it changes.                         *)
CheckName(q) ==
  /\ at[q] = "skill.check"
  /\ \/ \E p \in ParseSkillMD \cup ParseSkillZip(q) : \E taken \in Taken(q, p.name) :
          IF p.name # upload[q].row.name /\ taken
          THEN Goto(q, "refused") /\ UNCHANGED upload
          ELSE Goto(q, "skill.write") /\ upload' = [upload EXCEPT ![q].parsed = p]
     \/ Goto(q, "refused") /\ UNCHANGED upload
  /\ UNCHANGED <<skills, filesAgreed, skillRaced>>

(* Mutant: a text would leave no files.                                    *)
FilesCleared(old, p) == p.files

(* An archive brings its files, a text keeps those there are.              *)
FilesOf(old, p) == IF p.zip THEN p.files ELSE old

(* Update writes the row, the kept files from the copy it has read.        *)
UpdateSkill(q) ==
  /\ at[q] = "skill.write"
  /\ LET s   == upload[q].id
         old == upload[q].row
         p   == upload[q].parsed
     IN IF StoredSkill(s) /\ ~NameFree(SkillOwner[s], p.name, s)
        THEN Goto(q, "failed") /\ UNCHANGED <<skills, filesAgreed, skillRaced>>
        ELSE /\ Goto(q, "ok")
             /\ WriteSkill(s, [name |-> p.name, content |-> q, files |-> FilesOf(old.files, p)])
             /\ filesAgreed' = [filesAgreed EXCEPT ![s] = IF p.zip THEN p.files ELSE @]
             /\ skillRaced' = IF skills[s] = old THEN skillRaced ELSE skillRaced \cup {s}
  /\ UNCHANGED upload

DeleteSkill(q) ==
  /\ at[q] = "skill.delete"
  /\ RemoveSkill(upload[q].id)
  /\ Goto(q, "ok")
  /\ UNCHANGED <<upload, filesAgreed, skillRaced>>

SkillsNext ==
  \E q \in Calls :
    \/ BeginCreateSkill(q) \/ CreateSkill(q)
    \/ ReadSkill(q, "skill.check") \/ CheckName(q) \/ UpdateSkill(q)
    \/ ReadSkill(q, "skill.delete") \/ DeleteSkill(q)

SkillsSpec == RequestsInit /\ SkillsInit /\ [][SkillsNext]_<<at, skillVars>>

-----------------------------------------------------------------------------
(* Provision loads the skills of an agent by their names: a name means one *)
(* skill of the workspace, also after creations and renames that have all  *)
(* found the name free before they wrote.                                  *)
NamesMeanOneSkill ==
  \A s, t \in SkillIds :
    /\ StoredSkill(s) /\ StoredSkill(t)
    /\ SkillOwner[s] = SkillOwner[t] /\ skills[s].name = skills[t].name
    => s = t

(* "Keep existing files if JSON update": a skill has the files of the last *)
(* archive uploaded for it, unless the row changed between the read and    *)
(* the write of an Update.                                                 *)
FilesKept ==
  \A s \in SkillIds : StoredSkill(s) => skills[s].files = filesAgreed[s] \/ s \in skillRaced

(* Concurrent creations, renames and uploads leave skills that can be      *)
(* found by name and that have their files.                                *)
SkillsConsistent == NamesMeanOneSkill /\ FilesKept
=============================================================================
