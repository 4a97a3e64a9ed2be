------------------------------- MODULE Vaults -------------------------------
(***************************************************************************)
(* Vaults and their secrets (vault_handler.go, vault_repo.go).  Update     *)
(* reads the row, patches its metadata in memory and writes all of it      *)
(* back; every other operation is one statement.                           *)
(*                                                                         *)
(* The workspace of a row never changes, and ids are not used again: the   *)
(* owner of an id is a constant.  Of metadata the model keeps which keys   *)
(* are set, of a secret that it exists.                                    *)
(***************************************************************************)
EXTENDS Requests

CONSTANTS
  VaultIds,
  VaultOwner,   \* the workspace of a vault
  MetaKeys,     \* the keys of metadata
  MaxPairs,     \* how many of them may be set (16)
  SecretKeys

ASSUME VaultsAssumption ==
  /\ VaultOwner \in [VaultIds -> Workspaces]
  /\ MaxPairs \in Nat
  /\ IsFiniteSet(MetaKeys)

VARIABLES
  vault,        \* vault[v]: whether the row exists
  metadata,     \* metadata[v]: the keys that are set
  vaultArchived,
  secrets,      \* the rows of vault_secrets
  patch,        \* patch[q]: the vault that Update q works on, the keys it
                \*   sets and removes, and the metadata it has read
  agreed,       \* history: the metadata that the acknowledged requests add up to
  overtaken     \* history: the vaults that changed between an Update's read
                \*   and its write

vaultTables == <<vault, metadata, vaultArchived, secrets>>
vaultGhosts == <<agreed, overtaken>>
vaultVars   == <<vaultTables, patch, vaultGhosts>>

Patches == [id : VaultIds, put : SUBSET MetaKeys, drop : SUBSET MetaKeys, read : SUBSET MetaKeys]
NoPatch == [put |-> {}, drop |-> {}, read |-> {}]

VaultsTypeOK ==
  /\ vault         \in [VaultIds -> {"none", "row", "deleted"}]
  /\ metadata      \in [VaultIds -> SUBSET MetaKeys]
  /\ vaultArchived \subseteq VaultIds
  /\ secrets       \subseteq VaultIds \X SecretKeys
  /\ agreed        \in [VaultIds -> SUBSET MetaKeys]
  /\ overtaken     \subseteq VaultIds
  /\ patch         \in [Calls -> Patches \cup {NoPatch}]
  /\ \A q \in Calls : at[q] = "vault.write" => patch[q] \in Patches

VaultsInit ==
  /\ vault \in [VaultIds -> {"none", "row"}]
  /\ metadata = [v \in VaultIds |-> {}]
  /\ vaultArchived = {}
  /\ secrets = {}
  /\ patch = [q \in Calls |-> NoPatch]
  /\ agreed = metadata
  /\ overtaken = {}

-----------------------------------------------------------------------------
(* validateMetadata, as far as the number of pairs goes.                   *)
ValidMetadata(m) == Cardinality(m) <= MaxPairs

(* WHERE id = ... AND workspace_id = ...                                   *)
OwnVault(q, v) == vault[v] = "row" /\ VaultOwner[v] = Caller[q]

(* The statements of the repository, for rows that the caller owns.        *)
InsertVault(v, m) ==
  /\ vault' = [vault EXCEPT ![v] = "row"]
  /\ metadata' = [metadata EXCEPT ![v] = m]

StampArchived(v) == vaultArchived' = vaultArchived \cup {v}

(* Mutant: secrets would stay when their vault is deleted.                 *)
DeleteRowOnly(v) == vault' = [vault EXCEPT ![v] = "deleted"] /\ UNCHANGED secrets

(* A vault's secrets are deleted with it (ON DELETE CASCADE).              *)
DeleteVaultRow(v) ==
  /\ vault' = [vault EXCEPT ![v] = "deleted"]
  /\ secrets' = {s \in secrets : s[1] # v}

UpsertSecret(v, k) == secrets' = secrets \cup {<<v, k>>}
RemoveSecret(v, k) == secrets' = secrets \ {<<v, k>>}

CreateVault(q) ==
  /\ Fresh(q)
  /\ \E v \in VaultIds, m \in SUBSET MetaKeys :
       /\ vault[v] = "none" /\ VaultOwner[v] = Caller[q]
       /\ IF ValidMetadata(m)
          THEN /\ Goto(q, "ok")
               /\ InsertVault(v, m)
               /\ agreed' = [agreed EXCEPT ![v] = m]
          ELSE Goto(q, "refused") /\ UNCHANGED <<vault, metadata, agreed>>
  /\ UNCHANGED <<vaultArchived, secrets, patch, overtaken>>

(* Update reads the vault.  Keys with a value are set, keys with null are  *)
(* removed; a request that only renames the vault names no key.            *)
ReadVault(q) ==
  /\ Fresh(q)
  /\ \E v \in VaultIds :
       IF OwnVault(q, v)
       THEN /\ Goto(q, "vault.write")
            /\ \E put, drop \in SUBSET MetaKeys :
                 /\ put \cap drop = {}
                 /\ patch' = [patch EXCEPT ![q] =
                      [id |-> v, put |-> put, drop |-> drop, read |-> metadata[v]]]
       ELSE Goto(q, "refused") /\ UNCHANGED patch
  /\ UNCHANGED <<vaultTables, vaultGhosts>>

(* Mutant: a key with null would be skipped.                               *)
PatchKeeping(p, m) == m \cup p.put

Patch(p, m) == (m \ p.drop) \cup p.put

(* The request of patch p is written over the row of its vault.            *)
Overwrite(p) ==
  /\ metadata' = [metadata EXCEPT ![p.id] = Patch(p, p.read)]
  /\ agreed' = [agreed EXCEPT ![p.id] = (@ \ p.drop) \cup p.put]
  /\ overtaken' = IF metadata[p.id] = p.read THEN overtaken ELSE overtaken \cup {p.id}

(* Mutant: only the keys of the request would be validated.                *)
WriteVaultUnchecked(q) ==
  /\ at[q] = "vault.write"
  /\ LET p == patch[q] IN
     IF OwnVault(q, p.id) /\ ValidMetadata(p.put)
     THEN Goto(q, "ok") /\ Overwrite(p)
     ELSE Goto(q, "refused") /\ UNCHANGED <<metadata, agreed, overtaken>>
  /\ UNCHANGED <<vault, vaultArchived, secrets, patch>>

(* Update validates the metadata it has made, if the request has any, and  *)
(* writes the row back.                                                    *)
WriteVault(q) ==
  /\ at[q] = "vault.write"
  /\ LET p == patch[q]
         valid == p.put \cup p.drop = {} \/ ValidMetadata(Patch(p, p.read))
     IN IF valid /\ OwnVault(q, p.id)
        THEN Goto(q, "ok") /\ Overwrite(p)
        ELSE Goto(q, "refused") /\ UNCHANGED <<metadata, agreed, overtaken>>
  /\ UNCHANGED <<vault, vaultArchived, secrets, patch>>

ArchiveVault(q) ==
  /\ Fresh(q)
  /\ \E v \in VaultIds :
       IF OwnVault(q, v)
       THEN Goto(q, "ok") /\ StampArchived(v)
       ELSE Goto(q, "refused") /\ UNCHANGED vaultArchived
  /\ UNCHANGED <<vault, metadata, secrets, patch, vaultGhosts>>

DeleteVault(q) ==
  /\ Fresh(q)
  /\ \E v \in VaultIds :
       IF OwnVault(q, v)
       THEN Goto(q, "ok") /\ DeleteVaultRow(v)
       ELSE Goto(q, "refused") /\ UNCHANGED <<vault, secrets>>
  /\ UNCHANGED <<metadata, vaultArchived, patch, vaultGhosts>>

SetSecret(q) ==
  /\ Fresh(q)
  /\ \E v \in VaultIds, k \in SecretKeys :
       IF OwnVault(q, v)
       THEN Goto(q, "ok") /\ UpsertSecret(v, k)
       ELSE Goto(q, "refused") /\ UNCHANGED secrets
  /\ UNCHANGED <<vault, metadata, vaultArchived, patch, vaultGhosts>>

DeleteSecret(q) ==
  /\ Fresh(q)
  /\ \E v \in VaultIds, k \in SecretKeys :
       IF OwnVault(q, v) /\ <<v, k>> \in secrets
       THEN Goto(q, "ok") /\ RemoveSecret(v, k)
       ELSE Goto(q, "refused") /\ UNCHANGED secrets
  /\ UNCHANGED <<vault, metadata, vaultArchived, patch, vaultGhosts>>

VaultsNext ==
  \E q \in Calls :
    \/ CreateVault(q)
    \/ ReadVault(q) \/ WriteVault(q)
    \/ ArchiveVault(q)
    \/ DeleteVault(q)
    \/ SetSecret(q) \/ DeleteSecret(q)

VaultsSpec == RequestsInit /\ VaultsInit /\ [][VaultsNext]_<<at, vaultVars>>

-----------------------------------------------------------------------------
(* No vault holds more metadata than validateMetadata allows, although     *)
(* each Update sees its own copy only and others write in between.  The    *)
(* copies are valid as well: a request that only renames a vault writes    *)
(* its copy without a look at it.                                          *)
MetadataBounded ==
  /\ \A v \in VaultIds : vault[v] = "row" => ValidMetadata(metadata[v])
  /\ \A q \in Calls : ValidMetadata(patch[q].read)

(* Every secret belongs to a vault that exists: SetSecret and Delete of a  *)
(* vault may overtake each other.                                          *)
SecretsHaveVault == \A s \in secrets : vault[s[1]] = "row"

(* Whatever requests overtake each other, metadata stays within its limit  *)
(* and secrets with their vaults.                                          *)
VaultsConsistent == MetadataBounded /\ SecretsHaveVault

(* "Set key to string to upsert, set to null to delete, omitted keys       *)
(* preserved" (vault_handler.go): the metadata of a vault is what the      *)
(* acknowledged requests add up to.  Two Updates that have read the same   *)
(* row violate it: the second removes the keys that the first has set.     *)
OmittedKeysPreserved ==
  \A v \in VaultIds : vault[v] = "row" => metadata[v] = agreed[v]

(* What remains true of it: metadata is what the requests add up to,       *)
(* unless the row changed between the read and the write of an Update.     *)
PatchesAddUp ==
  \A v \in VaultIds : vault[v] = "row" => metadata[v] = agreed[v] \/ v \in overtaken
=============================================================================
