--------------------------- MODULE MCControlPlane ---------------------------
(***************************************************************************)
(* The operations of the API on small instances.  The components share no  *)
(* tables, so that a behaviour of the control plane is one of each of      *)
(* them: an instance works on one component, chosen at the start, and its  *)
(* requests are all sent to that one.                                      *)
(***************************************************************************)
EXTENDS Vaults, Agents, Files, Skills, Accounts, Delivery

CONSTANTS w1, w2, v1, v2, e1, e2, f1, f2

Components == {"vaults", "agents", "files", "skills", "accounts", "delivery"}

VARIABLE component

vars == <<component, at, vaultVars, agentVars, fileVars, skillVars, accountVars, deliveryVars>>

(* All requests come from workspace w1; a row of w2 is there to be refused.*)
OneCaller    == [q \in Calls |-> w1]
VaultOwners  == [v \in VaultIds |-> IF v = v2 THEN w2 ELSE w1]
AgentOwners  == [a \in AgentIds |-> w1]
EnvOwners    == [e \in EnvIds |-> IF e = e2 THEN w2 ELSE w1]
FileOwners   == [f \in FileIds |-> w1]
HostOwners   == [h \in Hosts |-> w1]
SkillOwners  == [s \in SkillIds |-> w1]
OneSpan      == <<"span">>

Init ==
  /\ component \in Components
  /\ RequestsInit
  /\ VaultsInit /\ AgentsInit /\ FilesInit /\ SkillsInit /\ AccountsInit /\ DeliveryInit
  /\ component # "vaults" => \A v \in VaultIds : vault[v] = "row"
  /\ component # "agents" => /\ \A a \in AgentIds : agents[a].stored
                             /\ \A e \in EnvIds : environments[e].stored
  \* f1 and f2 are alike
  /\ files \in IF component = "files" THEN {{}, {f1}, FileIds} ELSE {FileIds}

Next ==
  /\ UNCHANGED component
  /\ \/ /\ component = "vaults" /\ VaultsNext
        /\ UNCHANGED <<agentVars, fileVars, skillVars, accountVars, deliveryVars>>
     \/ /\ component = "agents" /\ AgentsNext
        /\ UNCHANGED <<vaultVars, fileVars, skillVars, accountVars, deliveryVars>>
     \/ /\ component = "files" /\ FilesNext
        /\ UNCHANGED <<vaultVars, agentVars, skillVars, accountVars, deliveryVars>>
     \/ /\ component = "skills" /\ SkillsNext
        /\ UNCHANGED <<vaultVars, agentVars, fileVars, accountVars, deliveryVars>>
     \/ /\ component = "accounts" /\ AccountsNext
        /\ UNCHANGED <<vaultVars, agentVars, fileVars, skillVars, deliveryVars>>
     \/ /\ component = "delivery" /\ DeliveryNext
        /\ UNCHANGED <<at, vaultVars, agentVars, fileVars, skillVars, accountVars>>

Spec == Init /\ [][Next]_vars

(* The tables and the requests are well formed, in every component.        *)
ControlTypeOK ==
  /\ RequestsTypeOK
  /\ VaultsTypeOK /\ AgentsTypeOK /\ FilesTypeOK
  /\ SkillsTypeOK /\ AccountsTypeOK /\ DeliveryTypeOK
=============================================================================
