--------------------------- MODULE AccountsProofs ---------------------------
(***************************************************************************)
(* What holds of accounts and API keys for any number of requests and      *)
(* emails.  A registration that was answered is whole because each of its  *)
(* three statements is made only after the one before; a key that was shut *)
(* stays shut because only its creation makes a key live, and no request   *)
(* creates a key after another has seen it.                                *)
(***************************************************************************)
EXTENDS Accounts, TLAPS

(* What a registration, a bootstrap and a request that has entered rely    *)
(* on.                                                                     *)
FormsOK ==
  \A q \in Calls :
    /\ at[q] = "new" => ~form[q].byKey
    /\ at[q] \in {"workspace.insert", "member.insert"} => users[form[q].email] = q
    /\ at[q] \in {"member.insert", "bootstrap.key"} => q \in workspaces
    /\ at[q] = "entered" => form[q].workspace \in workspaces

(* A key is made by the last step of the request it is named by.           *)
KeysOK ==
  \A k \in Calls : /\ keys[k] # "none" => at[k] \in {"bootstrapped", "ok", "failed"}
                   /\ k \in shut => keys[k] \in {"revoked", "deleted"}

AccountsInv == RequestsTypeOK /\ AccountsTypeOK /\ FormsOK /\ KeysOK /\ RegistrationsComplete

-----------------------------------------------------------------------------
LEMMA AccountsInitOK == RequestsInit /\ AccountsInit => AccountsInv
<1> SUFFICES ASSUME RequestsInit, AccountsInit  PROVE AccountsInv
  OBVIOUS
<1> USE DEF RequestsInit, AccountsInit
<1>1. RequestsTypeOK
  BY DEF RequestsTypeOK
<1>2. AccountsTypeOK
  BY AccountsAssumption DEF AccountsTypeOK, KeyStates, Forms
<1>3. FormsOK /\ KeysOK
  BY DEF FormsOK, KeysOK
<1>4. RegistrationsComplete
  BY DEF RegistrationsComplete
<1> QED  BY <1>1, <1>2, <1>3, <1>4 DEF AccountsInv

(* A step of q leaves the others where they are.                           *)
LEMMA AccountStepMoves ==
  ASSUME RequestsTypeOK, NEW q \in Calls, NEW step, Goto(q, step)
  PROVE  RequestsTypeOK' /\ at'[q] = step /\ \A p \in Calls \ {q} : at'[p] = at[p]
  BY DEF RequestsTypeOK, Goto

(* A step that makes q one of those who wait for nothing, and leaves the   *)
(* tables.                                                                 *)
LEMMA TablesKept ==
  ASSUME AccountsInv, NEW q \in Calls,
         NEW step \in {"ok", "refused", "failed", "user.insert", "entered"}, Goto(q, step),
         at[q] \in {"new", "user.insert", "entered"},
         UNCHANGED <<users, workspaces, members, keyOf, keys, shut>>,
         touching' \subseteq Calls,
         NEW f \in Forms, form' = [form EXCEPT ![q] = f],
         step = "entered" => f.workspace \in workspaces
  PROVE  AccountsInv'
<1>1. RequestsTypeOK /\ AccountsTypeOK /\ FormsOK /\ KeysOK /\ RegistrationsComplete
  BY DEF AccountsInv
<1>2. RequestsTypeOK' /\ at'[q] = step /\ \A p \in Calls \ {q} : at'[p] = at[p]
  BY <1>1, AccountStepMoves
<1>3. form' \in [Calls -> Forms] /\ form'[q] = f /\ \A p \in Calls \ {q} : form'[p] = form[p]
  BY <1>1 DEF AccountsTypeOK
<1>4. AccountsTypeOK'
  BY <1>1, <1>3 DEF AccountsTypeOK
<1>5. FormsOK'
  BY <1>1, <1>2, <1>3 DEF FormsOK
<1>6. KeysOK'
  BY <1>1, <1>2 DEF KeysOK
<1>7. RegistrationsComplete'
  <2>1. \A p \in Calls : at'[p] = "registered" => p # q
    BY <1>2
  <2>2. \A e \in Emails : users[e] = q /\ users[e] # NoUser => <<q, q>> \in members
    BY <1>1 DEF RegistrationsComplete
  <2>3. \A e \in Emails : users[e] # NoUser => users[e] \in Calls
    BY <1>1 DEF AccountsTypeOK
  <2>4. \A p \in Calls : at'[p] = "registered" =>
          users[form'[p].email] = p /\ p \in workspaces /\ <<p, p>> \in members
    BY <1>1, <1>2, <1>3, <2>1 DEF RegistrationsComplete
  <2>5. \A e \in Emails : users[e] # NoUser =>
          \/ <<users[e], users[e]>> \in members
          \/ at'[users[e]] \in {"workspace.insert", "member.insert", "failed"}
    BY <1>1, <1>2, <2>2, <2>3 DEF RegistrationsComplete
  <2> QED  BY <1>1, <2>4, <2>5 DEF RegistrationsComplete
<1> QED  BY <1>2, <1>4, <1>5, <1>6, <1>7 DEF AccountsInv

(* A step by which rows of users, workspaces and members are only added.   *)
LEMMA RowsAdded ==
  ASSUME AccountsInv, NEW q \in Calls,
         NEW step \in {"workspace.insert", "member.insert", "registered", "bootstrap.key", "failed"},
         Goto(q, step), at[q] \in {"new", "user.insert", "workspace.insert", "member.insert"},
         UNCHANGED <<keys, keyOf, form, touching, shut>>,
         users' \in [Emails -> Calls \cup {NoUser}],
         \A e \in Emails : users'[e] = users[e] \/ (users[e] = NoUser /\ users'[e] = q /\ at[q] = "user.insert"),
         workspaces \subseteq workspaces', workspaces' \subseteq workspaces \cup {q},
         members \subseteq members', members' \subseteq members \cup {<<q, q>>},
         <<q, q>> \in members' => <<q, q>> \in members \/ q \in workspaces,
         at[q] \in {"new", "user.insert"} =>
           /\ step # "member.insert" /\ step # "registered"
           /\ step = "workspace.insert" => users'[form[q].email] = q /\ at[q] = "user.insert",
         at[q] = "user.insert" => step # "bootstrap.key",
         at[q] \in {"workspace.insert", "member.insert"} => step \in {"member.insert", "registered", "failed"},
         step \in {"member.insert", "bootstrap.key"} => q \in workspaces',
         step = "registered" => at[q] = "member.insert" /\ <<q, q>> \in members'
  PROVE  AccountsInv'
<1>1. RequestsTypeOK /\ AccountsTypeOK /\ FormsOK /\ KeysOK /\ RegistrationsComplete
  BY DEF AccountsInv
<1>2. RequestsTypeOK' /\ at'[q] = step /\ \A p \in Calls \ {q} : at'[p] = at[p]
  BY <1>1, AccountStepMoves
<1>3. AccountsTypeOK'
  BY <1>1 DEF AccountsTypeOK
<1>4. NoUser \notin Calls
  BY AccountsAssumption
<1>5. \A p \in Calls : form[p].email \in Emails
  BY <1>1 DEF AccountsTypeOK, Forms
<1>6. \A p \in Calls, e \in Emails : users[e] = p => users'[e] = p
  BY <1>4
<1>7. FormsOK'
  <2>1. ASSUME NEW p \in Calls, at'[p] \in {"workspace.insert", "member.insert"}
        PROVE  users'[form[p].email] = p
    <3>1. CASE at[p] \in {"workspace.insert", "member.insert"}
      BY <1>1, <1>5, <1>6, <3>1 DEF FormsOK
    <3>2. CASE at[p] \notin {"workspace.insert", "member.insert"}
      BY <1>2, <2>1, <3>2
    <3> QED  BY <3>1, <3>2
  <2>2. ASSUME NEW p \in Calls, at'[p] \in {"member.insert", "bootstrap.key"}
        PROVE  p \in workspaces'
    BY <1>1, <1>2, <2>2 DEF FormsOK
  <2>3. ASSUME NEW p \in Calls, at'[p] = "entered"
        PROVE  form[p].workspace \in workspaces'
    BY <1>1, <1>2, <2>3 DEF FormsOK
  <2>4. \A p \in Calls : at'[p] = "new" => ~form[p].byKey
    BY <1>1, <1>2 DEF FormsOK
  <2> QED  BY <2>1, <2>2, <2>3, <2>4 DEF FormsOK
<1>8. KeysOK'
  BY <1>1, <1>2 DEF KeysOK
<1>9. RegistrationsComplete'
  <2>1. ASSUME NEW p \in Calls, at'[p] = "registered"
        PROVE  users'[form[p].email] = p /\ p \in workspaces' /\ <<p, p>> \in members'
    <3>1. CASE p = q
      BY <1>1, <1>2, <1>5, <1>6, <2>1, <3>1 DEF FormsOK
    <3>2. CASE p # q
      BY <1>1, <1>2, <1>5, <1>6, <2>1, <3>2 DEF RegistrationsComplete
    <3> QED  BY <3>1, <3>2
  <2>2. ASSUME NEW e \in Emails, users'[e] # NoUser
        PROVE  \/ <<users'[e], users'[e]>> \in members'
               \/ at'[users'[e]] \in {"workspace.insert", "member.insert", "failed"}
    <3>1. CASE users'[e] # q
      <4>1. users'[e] = users[e] /\ users[e] \in Calls
        BY <1>1, <2>2, <3>1 DEF AccountsTypeOK
      <4> QED  BY <1>1, <1>2, <2>2, <3>1, <4>1 DEF RegistrationsComplete
    <3>2. CASE users'[e] = q
      <4>1. CASE at[q] \in {"workspace.insert", "member.insert", "user.insert"}
        BY <1>2, <3>2, <4>1
      <4>2. CASE at[q] = "new"
        BY <1>1, <1>4, <3>2, <4>2 DEF RegistrationsComplete
      <4> QED  BY <4>1, <4>2
    <3> QED  BY <3>1, <3>2
  <2>3. \A m \in members' : m[1] \in workspaces'
    <3>1. \A m \in members : m[1] \in workspaces
      BY <1>1 DEF RegistrationsComplete
    <3>2. ASSUME NEW m \in members', m \notin members  PROVE m[1] \in workspaces'
      <4>1. m = <<q, q>> /\ q \in workspaces
        BY <3>2
      <4> QED  BY <4>1
    <3> QED  BY <3>1, <3>2
  <2>4. \A k \in Calls : keys[k] # "none" => keyOf[k] \in workspaces'
    BY <1>1 DEF RegistrationsComplete
  <2> QED  BY <2>1, <2>2, <2>3, <2>4 DEF RegistrationsComplete
<1> QED  BY <1>2, <1>3, <1>7, <1>8, <1>9 DEF AccountsInv

(* A step by which a request that has entered, or is making the first key  *)
(* of a workspace, writes the row of one key.                              *)
LEMMA KeyWritten ==
  ASSUME AccountsInv, NEW q \in Calls, NEW step \in {"ok", "refused", "bootstrapped", "failed"}, Goto(q, step),
         at[q] \in {"entered", "bootstrap.key"},
         UNCHANGED <<users, workspaces, members, form, touching>>,
         keys' \in [Calls -> KeyStates], keyOf' \in [Calls -> Calls], shut' \subseteq Calls,
         \A k \in Calls : \/ keys'[k] = keys[k] /\ keyOf'[k] = keyOf[k]
                          \/ k = q /\ step # "refused" /\ keys'[k] = "live" /\ keyOf'[k] \in workspaces
                          \/ /\ keyOf'[k] = keyOf[k] /\ keys[k] # "none" 
                             /\ keys'[k] \in {"revoked", "deleted"},
         \A k \in shut' : k \in shut \/ keys'[k] \in {"revoked", "deleted"}
  PROVE  AccountsInv'
<1>1. RequestsTypeOK /\ AccountsTypeOK /\ FormsOK /\ KeysOK /\ RegistrationsComplete
  BY DEF AccountsInv
<1>2. RequestsTypeOK' /\ at'[q] = step /\ \A p \in Calls \ {q} : at'[p] = at[p]
  BY <1>1, AccountStepMoves
<1>3. AccountsTypeOK'
  BY <1>1 DEF AccountsTypeOK
<1>4. FormsOK'
  BY <1>1, <1>2 DEF FormsOK
<1>5. keys[q] = "none" /\ q \notin shut
  BY <1>1 DEF KeysOK
<1>6. KeysOK'
  <2>1. ASSUME NEW k \in Calls, keys'[k] # "none"  PROVE at'[k] \in {"bootstrapped", "ok", "failed"}
    BY <1>1, <1>2, <1>5, <2>1 DEF KeysOK
  <2>2. ASSUME NEW k \in shut'  PROVE keys'[k] \in {"revoked", "deleted"}
    BY <1>1, <1>5, <2>2 DEF KeysOK
  <2> QED  BY <2>1, <2>2 DEF KeysOK
<1>7. RegistrationsComplete'
  <2>1. \A e \in Emails : users[e] # NoUser => users[e] \in Calls
    BY <1>1 DEF AccountsTypeOK
  <2>2. \A e \in Emails : users[e] # NoUser =>
          \/ <<users[e], users[e]>> \in members
          \/ at'[users[e]] \in {"workspace.insert", "member.insert", "failed"}
    BY <1>1, <1>2, <2>1 DEF RegistrationsComplete
  <2>3. \A k \in Calls : keys'[k] # "none" => keyOf'[k] \in workspaces
    BY <1>1 DEF RegistrationsComplete
  <2> QED  BY <1>1, <1>2, <2>2, <2>3 DEF RegistrationsComplete
<1> QED  BY <1>2, <1>3, <1>4, <1>6, <1>7 DEF AccountsInv

-----------------------------------------------------------------------------
(* One step per disjunct of AccountsNext.                                  *)
LEMMA AccountsStep == AccountsInv /\ [AccountsNext]_<<at, accountVars>> => AccountsInv'
<1> SUFFICES ASSUME AccountsInv, [AccountsNext]_<<at, accountVars>>  PROVE AccountsInv'
  OBVIOUS
<1>a. RequestsTypeOK /\ AccountsTypeOK /\ FormsOK /\ KeysOK /\ RegistrationsComplete
  BY DEF AccountsInv
<1>b. /\ \A q \in Calls : form[q] \in Forms /\ form = [form EXCEPT ![q] = form[q]]
      /\ touching \subseteq Calls
  BY <1>a DEF AccountsTypeOK
<1>c. /\ users \in [Emails -> Calls \cup {NoUser}]
      /\ keys \in [Calls -> KeyStates] /\ keyOf \in [Calls -> Calls]
      /\ workspaces \subseteq Calls /\ shut \subseteq Calls
      /\ {"live", "expired", "revoked", "deleted"} \subseteq KeyStates
  BY <1>a DEF AccountsTypeOK, KeyStates
<1>1. ASSUME NEW q \in Calls, BeginRegister(q)  PROVE AccountsInv'
  <2>1. at[q] = "new" /\ UNCHANGED <<users, workspaces, members, keys, keyOf, touching, shut>>
    BY <1>1 DEF BeginRegister, Fresh
  <2>2. CASE Goto(q, "refused") /\ UNCHANGED form
    BY <1>b, <2>1, <2>2, TablesKept
  <2>3. ASSUME NEW e \in Emails, Goto(q, "user.insert"), form' = [form EXCEPT ![q].email = e]
        PROVE  AccountsInv'
    <3> DEFINE f == [form[q] EXCEPT !.email = e]
    <3>1. f \in Forms /\ form' = [form EXCEPT ![q] = f]
      BY <1>b, <2>3 DEF Forms
    <3> HIDE DEF f
    <3> QED  BY <1>b, <2>1, <2>3, <3>1, TablesKept
  <2> QED  BY <1>1, <2>2, <2>3 DEF BeginRegister
<1>2. ASSUME NEW q \in Calls, InsertUser(q)  PROVE AccountsInv'
  <2> DEFINE e == form[q].email
  <2>1. e \in Emails /\ at[q] = "user.insert" /\ UNCHANGED <<workspaces, members, keys, keyOf, form, touching, shut>>
    BY <1>b, <1>2 DEF InsertUser, Forms
  <2>2. PICK step \in {"workspace.insert", "failed"} :
          /\ Goto(q, step)
          /\ \/ users[e] = NoUser /\ users' = [users EXCEPT ![e] = q]
             \/ step = "failed" /\ UNCHANGED users
    BY <1>2 DEF InsertUser, EmailUnused, CreateUser
  <2> HIDE DEF e
  <2>3. /\ users' \in [Emails -> Calls \cup {NoUser}]
        /\ step = "workspace.insert" => users'[e] = q
        /\ \A d \in Emails : users'[d] = users[d] \/ (users[d] = NoUser /\ users'[d] = q)
    <3>1. CASE UNCHANGED users /\ step = "failed"
      BY <1>c, <3>1
    <3>2. CASE users[e] = NoUser /\ users' = [users EXCEPT ![e] = q]
      BY <1>c, <2>1, <3>2
    <3> QED  BY <2>2, <3>1, <3>2
  <2>4. step = "workspace.insert" => users'[form[q].email] = q
    BY <2>3 DEF e
  <2>5. Goto(q, step)
    BY <2>2
  <2> QED  BY <2>1, <2>3, <2>4, <2>5, <1>a, RowsAdded
<1>3. ASSUME NEW q \in Calls, InsertWorkspace(q)  PROVE AccountsInv'
  <2>1. PICK step \in {"member.insert", "failed"} :
          /\ Goto(q, step) /\ workspaces' \in {workspaces, workspaces \cup {q}}
          /\ step = "member.insert" => q \in workspaces'
    BY <1>3 DEF InsertWorkspace, CreateWorkspace
  <2>2. at[q] = "workspace.insert" /\ UNCHANGED <<users, members, keys, keyOf, form, touching, shut>>
    BY <1>3 DEF InsertWorkspace
  <2>3. Goto(q, step) /\ workspaces \subseteq workspaces' /\ workspaces' \subseteq workspaces \cup {q}
        /\ step # "registered" /\ (step \in {"member.insert", "bootstrap.key"} => q \in workspaces')
    BY <2>1
  <2> QED  BY <1>c, <2>2, <2>3, RowsAdded
<1>4. ASSUME NEW q \in Calls, InsertMember(q)  PROVE AccountsInv'
  <2>1. PICK step \in {"registered", "failed"} :
          /\ Goto(q, step) /\ members' \in {members, members \cup {<<q, q>>}}
          /\ step = "registered" => <<q, q>> \in members'
    BY <1>4 DEF InsertMember, AddMember
  <2>2. q \in workspaces
    BY <1>a, <1>4 DEF FormsOK, InsertMember
  <2>3. at[q] = "member.insert" /\ UNCHANGED <<users, workspaces, keys, keyOf, form, touching, shut>>
    BY <1>4 DEF InsertMember
  <2>4. Goto(q, step) /\ members \subseteq members' /\ members' \subseteq members \cup {<<q, q>>}
        /\ step \notin {"member.insert", "bootstrap.key"}
        /\ (step = "registered" => <<q, q>> \in members')
    BY <2>1
  <2> QED  BY <1>c, <2>2, <2>3, <2>4, RowsAdded
<1>5. ASSUME NEW q \in Calls, Login(q)  PROVE AccountsInv'
  <2>1. PICK step \in {"ok", "refused"} : Goto(q, step)
    BY <1>5 DEF Login
  <2> QED  BY <1>b, <1>5, <2>1, TablesKept DEF Login, Fresh, accountVars
<1>6. ASSUME NEW q \in Calls, BootstrapWorkspace(q)  PROVE AccountsInv'
  <2>1. PICK step \in {"bootstrap.key", "failed"} :
          /\ Goto(q, step) /\ workspaces' \in {workspaces, workspaces \cup {q}}
          /\ step = "bootstrap.key" => q \in workspaces'
    BY <1>6 DEF BootstrapWorkspace, CreateWorkspace
  <2>2. at[q] = "new" /\ UNCHANGED <<users, members, keys, keyOf, form, touching, shut>>
    BY <1>6 DEF BootstrapWorkspace, Fresh
  <2>3. Goto(q, step) /\ workspaces \subseteq workspaces' /\ workspaces' \subseteq workspaces \cup {q}
        /\ step \notin {"registered", "member.insert", "workspace.insert"}
        /\ (step = "bootstrap.key" => q \in workspaces')
    BY <2>1
  <2> QED  BY <1>c, <2>2, <2>3, RowsAdded
<1>7. ASSUME NEW q \in Calls, BootstrapKey(q)  PROVE AccountsInv'
  <2>1. PICK step \in {"bootstrapped", "failed"} :
          /\ Goto(q, step)
          /\ \/ CreateKeyRow(q, q)
             \/ UNCHANGED <<keys, keyOf>>
    BY <1>7 DEF BootstrapKey
  <2>2. q \in workspaces /\ at[q] = "bootstrap.key"
    BY <1>a, <1>7 DEF FormsOK, BootstrapKey
  <2>3. /\ keys' \in [Calls -> KeyStates] /\ keyOf' \in [Calls -> Calls]
        /\ \A k \in Calls : \/ keys'[k] = keys[k] /\ keyOf'[k] = keyOf[k]
                            \/ k = q /\ keys'[k] = "live" /\ keyOf'[k] \in workspaces
    BY <1>a, <2>1, <2>2 DEF AccountsTypeOK, CreateKeyRow, KeyStates
  <2> QED  BY <1>a, <1>7, <2>1, <2>2, <2>3, KeyWritten DEF BootstrapKey, AccountsTypeOK
<1>8. ASSUME NEW q \in Calls, AuthToken(q)  PROVE AccountsInv'
  <2>1. at[q] = "new" /\ UNCHANGED <<users, workspaces, members, keys, keyOf, touching, shut>>
    BY <1>8 DEF AuthToken, Fresh
  <2>2. CASE Goto(q, "refused") /\ UNCHANGED form
    BY <1>b, <2>1, <2>2, TablesKept
  <2>3. ASSUME NEW e \in Emails, NEW w \in Calls, IsMember(users[e], w), Enter(q, w)  PROVE AccountsInv'
    <3> DEFINE f == [form[q] EXCEPT !.workspace = w]
    <3>1. f \in Forms /\ form' = [form EXCEPT ![q] = f] /\ f.workspace = w /\ Goto(q, "entered")
      BY <1>b, <2>3 DEF Forms, Enter
    <3>2. w \in workspaces
      BY <1>a, <2>3 DEF RegistrationsComplete, IsMember
    <3> HIDE DEF f
    <3> QED  BY <1>b, <2>1, <3>1, <3>2, TablesKept
  <2> QED  BY <1>8, <2>2, <2>3 DEF AuthToken
<1>9. ASSUME NEW q \in Calls, AuthKey(q)  PROVE AccountsInv'
  <2>1. at[q] = "new" /\ UNCHANGED <<users, workspaces, members, keys, keyOf, shut>>
    BY <1>9 DEF AuthKey, Fresh
  <2>2. CASE Goto(q, "refused") /\ UNCHANGED <<form, touching>>
    BY <1>b, <2>1, <2>2, TablesKept
  <2>3. ASSUME NEW k \in Calls, keys[k] = "live", Goto(q, "entered"), touching' = touching \cup {k},
               form' = [form EXCEPT ![q].workspace = keyOf[k], ![q].key = k, ![q].byKey = TRUE]
        PROVE  AccountsInv'
    <3> DEFINE f == [form[q] EXCEPT !.workspace = keyOf[k], !.key = k, !.byKey = TRUE]
    <3>1. keyOf[k] \in workspaces /\ keyOf[k] \in Calls
      BY <1>a, <2>3 DEF RegistrationsComplete, AccountsTypeOK
    <3>2. form[q] \in Forms /\ form \in [Calls -> Forms]
      BY <1>a DEF AccountsTypeOK
    <3>3. f \in Forms /\ f.workspace = keyOf[k]
      BY <3>1, <3>2 DEF Forms
    <3>4. form' = [form EXCEPT ![q] = f]
      BY <2>3, <3>2 DEF Forms
    <3>5. touching' \subseteq Calls /\ Goto(q, "entered")
      BY <1>b, <2>3
    <3> HIDE DEF f
    <3> QED  BY <2>1, <3>1, <3>3, <3>4, <3>5, TablesKept
  <2> QED  BY <1>9, <2>2, <2>3 DEF AuthKey
<1>10. ASSUME NEW q \in Calls, CreateKey(q)  PROVE AccountsInv'
  <2>1. form[q].workspace \in workspaces /\ form[q].workspace \in Calls
    BY <1>a, <1>b, <1>10 DEF FormsOK, CreateKey, Forms
  <2>2. /\ keys' \in [Calls -> KeyStates] /\ keyOf' \in [Calls -> Calls]
        /\ \A k \in Calls : \/ keys'[k] = keys[k] /\ keyOf'[k] = keyOf[k]
                            \/ k = q /\ keys'[k] = "live" /\ keyOf'[k] \in workspaces
    BY <1>a, <1>10, <2>1 DEF AccountsTypeOK, CreateKey, CreateKeyRow, KeyStates
  <2> QED  BY <1>a, <1>10, <2>2, KeyWritten DEF CreateKey, AccountsTypeOK
<1>11. ASSUME NEW q \in Calls, RevokeKey(q)  PROVE AccountsInv'
  <2>1. PICK step \in {"ok", "refused"} : Goto(q, step)
    BY <1>11 DEF RevokeKey
  <2>2. /\ keys' \in [Calls -> KeyStates] /\ shut' \subseteq Calls
        /\ \A k \in Calls : keys'[k] = keys[k] \/ (keys[k] # "none" /\ keys'[k] = "revoked")
        /\ \A k \in shut' : k \in shut \/ keys'[k] = "revoked"
    <3>1. CASE UNCHANGED <<keys, shut>>
      BY <1>c, <3>1
    <3>2. ASSUME NEW k \in Calls, keys[k] # "none", keys' = [keys EXCEPT ![k] = "revoked"],
                 shut' = shut \cup {k}
          PROVE  /\ keys' \in [Calls -> KeyStates] /\ shut' \subseteq Calls
                 /\ \A j \in Calls : keys'[j] = keys[j] \/ (keys[j] # "none" /\ keys'[j] = "revoked")
                 /\ \A j \in shut' : j \in shut \/ keys'[j] = "revoked"
      BY <1>c, <3>2
    <3> QED  BY <1>11, <3>1, <3>2 DEF RevokeKey, RevokeRow, OwnKey
  <2> QED  BY <1>a, <1>11, <2>1, <2>2, KeyWritten DEF RevokeKey, AccountsTypeOK
<1>12. ASSUME NEW q \in Calls, DeleteKey(q)  PROVE AccountsInv'
  <2>1. /\ keys' \in [Calls -> KeyStates] /\ shut' \subseteq Calls
        /\ \A k \in Calls : keys'[k] = keys[k] \/ (keys[k] # "none" /\ keys'[k] = "deleted")
        /\ \A k \in shut' : k \in shut \/ keys'[k] = "deleted"
    <3>1. CASE UNCHANGED <<keys, shut>>
      BY <1>c, <3>1
    <3>2. ASSUME NEW k \in Calls, keys[k] # "none", keys' = [keys EXCEPT ![k] = "deleted"],
                 shut' = shut \cup {k}
          PROVE  /\ keys' \in [Calls -> KeyStates] /\ shut' \subseteq Calls
                 /\ \A j \in Calls : keys'[j] = keys[j] \/ (keys[j] # "none" /\ keys'[j] = "deleted")
                 /\ \A j \in shut' : j \in shut \/ keys'[j] = "deleted"
      BY <1>c, <3>2
    <3> QED  BY <1>12, <3>1, <3>2 DEF DeleteKey, RemoveKey, OwnKey
  <2> QED  BY <1>a, <1>12, <2>1, KeyWritten DEF DeleteKey, AccountsTypeOK
<1>13. ASSUME NEW k \in Calls, TouchLastUsed(k)  PROVE AccountsInv'
  <2>1. AccountsTypeOK' /\ RequestsTypeOK'
    BY <1>a, <1>13 DEF TouchLastUsed, AccountsTypeOK, RequestsTypeOK
  <2>2. FormsOK' /\ KeysOK' /\ RegistrationsComplete'
    BY <1>a, <1>13 DEF TouchLastUsed, FormsOK, KeysOK, RegistrationsComplete
  <2> QED  BY <2>1, <2>2 DEF AccountsInv
<1>14. ASSUME NEW k \in Calls, Expire(k)  PROVE AccountsInv'
  <2>2. \A j \in Calls : keys'[j] = keys[j] \/ (keys[j] = "live" /\ keys'[j] = "expired")
    BY <1>c, <1>14 DEF Expire
  <2>1. AccountsTypeOK' /\ RequestsTypeOK'
    <3>1. keys' \in [Calls -> KeyStates]
      BY <1>c, <1>14 DEF Expire
    <3> QED  BY <1>a, <1>14, <3>1 DEF Expire, AccountsTypeOK, RequestsTypeOK
  <2>3. FormsOK' /\ KeysOK' /\ RegistrationsComplete'
    BY <1>a, <1>14, <2>2 DEF Expire, FormsOK, KeysOK, RegistrationsComplete
  <2> QED  BY <2>1, <2>3 DEF AccountsInv
<1>15. ASSUME UNCHANGED <<at, accountVars>>  PROVE AccountsInv'
  BY <1>15 DEF accountVars, AccountsInv, RequestsTypeOK, AccountsTypeOK, FormsOK, KeysOK, RegistrationsComplete
<1> QED
  BY <1>1, <1>2, <1>3, <1>4, <1>5, <1>6, <1>7, <1>8, <1>9, <1>10, <1>11, <1>12, <1>13, <1>14, <1>15
     DEF AccountsNext

(* Only AuthKey lets a request in by a key, and by one that is live.       *)
LEMMA OnlyKeysLetIn ==
  ASSUME RequestsTypeOK, AccountsTypeOK, AccountsNext, NEW q \in Calls,
         at[q] = "new", at'[q] = "entered", form'[q].byKey, ~form[q].byKey
  PROVE  \E k \in Calls : keys[k] = "live" /\ form'[q].key = k
<1>1. form \in [Calls -> Forms] /\ \A p \in Calls : \A step : Goto(p, step) =>
        (p = q /\ step = "entered") \/ (p # q /\ at'[q] = at[q])
  BY DEF AccountsTypeOK, RequestsTypeOK, Goto
<1>2. ASSUME NEW p \in Calls, \/ BeginRegister(p) \/ InsertUser(p) \/ InsertWorkspace(p) \/ InsertMember(p)
                              \/ Login(p) \/ BootstrapWorkspace(p) \/ BootstrapKey(p)
                              \/ CreateKey(p) \/ RevokeKey(p) \/ DeleteKey(p)
      PROVE  FALSE
  BY <1>1, <1>2 DEF BeginRegister, InsertUser, InsertWorkspace, InsertMember, Login, BootstrapWorkspace,
                    BootstrapKey, CreateKey, RevokeKey, DeleteKey
<1>3. ASSUME NEW k \in Calls, TouchLastUsed(k) \/ Expire(k)  PROVE FALSE
  BY <1>3 DEF TouchLastUsed, Expire
<1>4. ASSUME NEW p \in Calls, AuthToken(p)  PROVE FALSE
  BY <1>1, <1>4 DEF AuthToken, Enter, Forms
<1>5. ASSUME NEW p \in Calls, AuthKey(p)  PROVE \E k \in Calls : keys[k] = "live" /\ form'[q].key = k
  <2>1. p = q
    BY <1>1, <1>5 DEF AuthKey
  <2>2. ~Goto(p, "refused")
    BY <1>1, <2>1
  <2>3. PICK k \in Calls : keys[k] = "live"
          /\ form' = [form EXCEPT ![q].workspace = keyOf[k], ![q].key = k, ![q].byKey = TRUE]
    BY <1>5, <2>1, <2>2 DEF AuthKey
  <2>4. form'[q].key = k
    BY <1>1, <2>3 DEF Forms
  <2> QED  BY <2>3, <2>4
<1> QED  BY <1>2, <1>3, <1>4, <1>5 DEF AccountsNext

(* Accounts, workspaces and keys agree in every reachable state.           *)
THEOREM AccountsInvariance == AccountsSpec => []AccountsInv
<1>1. RequestsInit /\ AccountsInit => AccountsInv
  BY AccountsInitOK
<1>2. AccountsInv /\ [AccountsNext]_<<at, accountVars>> => AccountsInv'
  BY AccountsStep
<1> QED  BY <1>1, <1>2, PTL DEF AccountsSpec

(* A registration that was answered is whole, and an account without a     *)
(* workspace is that of one that failed or is under way (Register of       *)
(* auth.go).                                                               *)
THEOREM RegistrationsAreComplete == AccountsSpec => []RegistrationsComplete
<1>1. AccountsInv => RegistrationsComplete
  BY DEF AccountsInv
<1> QED  BY <1>1, AccountsInvariance, PTL

(* A key that was revoked or deleted lets no request in (middleware/auth.go *)
(* and the goroutines that record its use).                                *)
THEOREM ShutKeysAreShut == AccountsSpec => ShutKeysStayShut
<1> DEFINE LetsIn == \A q \in Calls :
             at[q] = "new" /\ at'[q] = "entered" /\ form'[q].byKey => form'[q].key \notin shut
<1>1. AccountsInv /\ [AccountsNext]_<<at, accountVars>> => [LetsIn]_<<at, accountVars>>
  <2> SUFFICES ASSUME AccountsInv, AccountsNext, NEW q \in Calls,
                      at[q] = "new", at'[q] = "entered", form'[q].byKey
               PROVE  form'[q].key \notin shut
    OBVIOUS
  <2>1. ~form[q].byKey
    BY DEF AccountsInv, FormsOK
  <2>2. PICK k \in Calls : keys[k] = "live" /\ form'[q].key = k
    BY <2>1, OnlyKeysLetIn DEF AccountsInv
  <2> QED  BY <2>2 DEF AccountsInv, KeysOK
<1>2. AccountsSpec => [][LetsIn]_<<at, accountVars>>
  BY <1>1, AccountsInvariance, PTL DEF AccountsSpec
<1> QED  BY <1>2 DEF ShutKeysStayShut
=============================================================================
