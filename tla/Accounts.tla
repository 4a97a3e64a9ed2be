------------------------------ MODULE Accounts ------------------------------
(***************************************************************************)
(* Accounts, workspaces and API keys (service/auth.go, auth_handler.go,    *)
(* apikey_handler.go, workspace_handler.go, middleware/auth.go).           *)
(*                                                                         *)
(* Users, workspaces and keys are named by the request that makes them.    *)
(* Hashes, passwords and tokens are taken to work: a token proves its      *)
(* user, a key is known to whoever was answered with it.                   *)
(***************************************************************************)
EXTENDS Requests

CONSTANTS
  Emails,
  NoUser

ASSUME AccountsAssumption == NoUser \notin Calls /\ Emails # {}

VARIABLES
  users,        \* users[e]: the user with email e
  workspaces,   \* the rows of workspaces
  members,      \* the rows of workspace_members: <<workspace, user>>
  keys,         \* keys[k]: the state of a key
  keyOf,        \* keyOf[k]: the workspace of key k
  form,         \* form[q]: the email q registers, the workspace q works in,
                \*   and the key q has shown
  touching,     \* keys whose last_used_at is being updated
  shut          \* history: keys whose revocation or deletion was answered

accountVars == <<users, workspaces, members, keys, keyOf, form, touching, shut>>

KeyStates == {"none", "live", "expired", "revoked", "deleted"}
Forms == [email : Emails, workspace : Calls, key : Calls, byKey : BOOLEAN]

AccountsTypeOK ==
  /\ users \in [Emails -> Calls \cup {NoUser}]
  /\ workspaces \subseteq Calls
  /\ members \subseteq Calls \X Calls
  /\ keys \in [Calls -> KeyStates]
  /\ keyOf \in [Calls -> Calls]
  /\ form \in [Calls -> Forms]
  /\ touching \subseteq Calls /\ shut \subseteq Calls

AccountsInit ==
  /\ users = [e \in Emails |-> NoUser]
  /\ workspaces = {} /\ members = {}
  /\ keys = [k \in Calls |-> "none"]
  /\ keyOf = [k \in Calls |-> k]
  /\ form = [q \in Calls |-> [email |-> CHOOSE e \in Emails : TRUE,
                              workspace |-> q, key |-> q, byKey |-> FALSE]]
  /\ touching = {} /\ shut = {}

-----------------------------------------------------------------------------
(* Rows, and the statements of the repositories.                           *)
Known(e) == users[e] # NoUser
IsMember(u, w) == <<w, u>> \in members

CreateUser(e, u) == users' = [users EXCEPT ![e] = u]
CreateWorkspace(w) == workspaces' = workspaces \cup {w}
AddMember(w, u) == members' = members \cup {<<w, u>>}

CreateKeyRow(k, w) ==
  keys' = [keys EXCEPT ![k] = "live"] /\ keyOf' = [keyOf EXCEPT ![k] = w]
RevokeRow(k) == keys' = [keys EXCEPT ![k] = "revoked"]
RemoveKey(k) == keys' = [keys EXCEPT ![k] = "deleted"]

(* Register: is the email known (an error of the lookup counts as no);     *)
(* then the user, the workspace and the membership, one INSERT each.  Any  *)
(* of them may fail (and may have been carried out all the same); what has *)
(* been stored by then stays.                                              *)
BeginRegister(q) ==
  /\ Fresh(q)
  /\ \E e \in Emails : \E known \in {Known(e), FALSE} :
       IF known
       THEN Goto(q, "refused") /\ UNCHANGED form
       ELSE Goto(q, "user.insert") /\ form' = [form EXCEPT ![q].email = e]
  /\ UNCHANGED <<users, workspaces, members, keys, keyOf, touching, shut>>

(* Mutant: two users may have one email.                                   *)
EmailFree(e) == TRUE

(* The unique index on email.                                              *)
EmailUnused(e) == users[e] = NoUser

InsertUser(q) ==
  /\ at[q] = "user.insert"
  /\ \/ /\ EmailUnused(form[q].email) /\ CreateUser(form[q].email, q)
        /\ Goto(q, "workspace.insert") \/ Goto(q, "failed")
     \/ Goto(q, "failed") /\ UNCHANGED users
  /\ UNCHANGED <<workspaces, members, keys, keyOf, form, touching, shut>>

InsertWorkspace(q) ==
  /\ at[q] = "workspace.insert"
  /\ \/ CreateWorkspace(q) /\ (Goto(q, "member.insert") \/ Goto(q, "failed"))
     \/ Goto(q, "failed") /\ UNCHANGED workspaces
  /\ UNCHANGED <<users, members, keys, keyOf, form, touching, shut>>

(* Mutant: a membership that is not stored would be passed over.           *)
InsertMemberAnyway(q) ==
  /\ at[q] = "member.insert"
  /\ Goto(q, "registered")
  /\ members' \in {members, members \cup {<<q, q>>}}
  /\ UNCHANGED <<users, workspaces, keys, keyOf, form, touching, shut>>

InsertMember(q) ==
  /\ at[q] = "member.insert"
  /\ \/ AddMember(q, q) /\ (Goto(q, "registered") \/ Goto(q, "failed"))
     \/ Goto(q, "failed") /\ UNCHANGED members
  /\ UNCHANGED <<users, workspaces, keys, keyOf, form, touching, shut>>

(* Login answers with a token and the user's workspaces.                   *)
Login(q) ==
  /\ Fresh(q)
  /\ \E e \in Emails : Goto(q, IF Known(e) THEN "ok" ELSE "refused")
  /\ UNCHANGED accountVars

-----------------------------------------------------------------------------
(* Bootstrap: a workspace, then its first key.                             *)
BootstrapWorkspace(q) ==
  /\ Fresh(q)
  /\ \/ CreateWorkspace(q) /\ (Goto(q, "bootstrap.key") \/ Goto(q, "failed"))
     \/ Goto(q, "failed") /\ UNCHANGED workspaces
  /\ UNCHANGED <<users, members, keys, keyOf, form, touching, shut>>

BootstrapKey(q) ==
  /\ at[q] = "bootstrap.key"
  /\ \/ CreateKeyRow(q, q) /\ (Goto(q, "bootstrapped") \/ Goto(q, "failed"))
     \/ Goto(q, "failed") /\ UNCHANGED <<keys, keyOf>>
  /\ UNCHANGED <<users, workspaces, members, form, touching, shut>>

-----------------------------------------------------------------------------
(* The middleware.  A request with a token names a workspace of its user;  *)
(* the key of a request tells the workspace.  The use of a key is recorded *)
(* by a goroutine of its own.                                              *)
Enter(q, w) == Goto(q, "entered") /\ form' = [form EXCEPT ![q].workspace = w]

AuthToken(q) ==
  /\ Fresh(q)
  /\ \E e \in Emails, w \in Calls :
       /\ Known(e)
       /\ IF IsMember(users[e], w) THEN Enter(q, w) ELSE Goto(q, "refused") /\ UNCHANGED form
  /\ UNCHANGED <<users, workspaces, members, keys, keyOf, touching, shut>>

AuthKey(q) ==
  /\ Fresh(q)
  /\ \E k \in Calls :
       /\ keys[k] # "none"
       /\ IF keys[k] = "live"
          THEN /\ Goto(q, "entered")
               /\ form' = [form EXCEPT ![q].workspace = keyOf[k], ![q].key = k, ![q].byKey = TRUE]
               /\ touching' = touching \cup {k}
          ELSE Goto(q, "refused") /\ UNCHANGED <<form, touching>>
  /\ UNCHANGED <<users, workspaces, members, keys, keyOf, shut>>

(* Mutant: the whole row of the key would be written back.                 *)
TouchWholeRow(k) ==
  /\ k \in touching
  /\ touching' = touching \ {k}
  /\ keys' = [keys EXCEPT ![k] = IF @ = "deleted" THEN @ ELSE "live"]
  /\ UNCHANGED <<at, users, workspaces, members, keyOf, form, shut>>

(* UPDATE api_keys SET last_used_at: the state of the key stays.           *)
TouchLastUsed(k) ==
  /\ k \in touching
  /\ touching' = touching \ {k}
  /\ UNCHANGED <<at, users, workspaces, members, keys, keyOf, form, shut>>

Expire(k) ==
  /\ keys[k] = "live"
  /\ keys' = [keys EXCEPT ![k] = "expired"]
  /\ UNCHANGED <<at, users, workspaces, members, keyOf, form, touching, shut>>

-----------------------------------------------------------------------------
(* What a request that has entered may do to the keys of its workspace.    *)
CreateKey(q) ==
  /\ at[q] = "entered"
  /\ Goto(q, "ok")
  /\ CreateKeyRow(q, form[q].workspace)
  /\ UNCHANGED <<users, workspaces, members, form, touching, shut>>

OwnKey(q, k) == keys[k] \notin {"none", "deleted"} /\ keyOf[k] = form[q].workspace

RevokeKey(q) ==
  /\ at[q] = "entered"
  /\ \E k \in Calls :
       IF OwnKey(q, k)
       THEN /\ Goto(q, "ok")
            /\ RevokeRow(k)
            /\ shut' = shut \cup {k}
       ELSE Goto(q, "refused") /\ UNCHANGED <<keys, shut>>
  /\ UNCHANGED <<users, workspaces, members, keyOf, form, touching>>

(* A DELETE that finds no row is answered in the same way.                 *)
DeleteKey(q) ==
  /\ at[q] = "entered"
  /\ Goto(q, "ok")
  /\ \E k \in Calls :
       IF OwnKey(q, k) THEN RemoveKey(k) /\ shut' = shut \cup {k}
                       ELSE UNCHANGED <<keys, shut>>
  /\ UNCHANGED <<users, workspaces, members, keyOf, form, touching>>

AccountsNext ==
  \/ \E q \in Calls :
       \/ BeginRegister(q) \/ InsertUser(q) \/ InsertWorkspace(q) \/ InsertMember(q)
       \/ Login(q)
       \/ BootstrapWorkspace(q) \/ BootstrapKey(q)
       \/ AuthToken(q) \/ AuthKey(q)
       \/ CreateKey(q) \/ RevokeKey(q) \/ DeleteKey(q)
  \/ \E k \in Calls : TouchLastUsed(k) \/ Expire(k)

AccountsSpec == RequestsInit /\ AccountsInit /\ [][AccountsNext]_<<at, accountVars>>

-----------------------------------------------------------------------------
(* A registration that was answered is whole: the email is its user's, and *)
(* the user has the workspace; this holds of no more than one registration *)
(* of an email.  An account without a workspace is that of a registration  *)
(* under way, cut off, or answered with an error.  A bootstrap that was    *)
(* answered has its workspace.                                             *)
RegistrationsComplete ==
  /\ \A q \in Calls : at[q] = "registered" =>
       users[form[q].email] = q /\ q \in workspaces /\ <<q, q>> \in members
  /\ \A e \in Emails : users[e] # NoUser =>
       \/ <<users[e], users[e]>> \in members
       \/ at[users[e]] \in {"workspace.insert", "member.insert", "failed"}
  /\ \A m \in members : m[1] \in workspaces
  /\ \A k \in Calls : keys[k] # "none" => keyOf[k] \in workspaces

(* Once its revocation or deletion is answered, a key lets nobody in,      *)
(* though earlier requests with it are still being recorded.               *)
ShutKeysStayShut ==
  [][\A q \in Calls : at[q] = "new" /\ at'[q] = "entered" /\ form'[q].byKey
       => form'[q].key \notin shut]_<<at, accountVars>>
=============================================================================
