------------------------------- MODULE Agents -------------------------------
(***************************************************************************)
(* Agents, environments and the sessions made of them (agent_handler.go,   *)
(* environment_handler.go, session_handler.go and their repositories).     *)
(* Every handler reads a row, compares its workspace with the caller's,    *)
(* and makes a statement of its own afterwards; nothing holds the row in   *)
(* between.                                                                *)
(*                                                                         *)
(* A field holds the request that set it.  The workspace of a row never    *)
(* changes: for agents and environments it is a constant of the id.        *)
(***************************************************************************)
EXTENDS Requests

CONSTANTS
  AgentIds, AgentOwner,
  EnvIds, EnvOwner,
  SessionIds,
  AgentFields,  \* the fields of an agent that Update can set and that a
                \*   session's snapshot holds
  First         \* who set the fields before the first request

ASSUME AgentsAssumption ==
  /\ AgentOwner \in [AgentIds -> Workspaces]
  /\ EnvOwner \in [EnvIds -> Workspaces]
  /\ AgentIds # {} /\ EnvIds # {} /\ SessionIds # {}

VARIABLES
  agents, environments, sessions,   \* the tables
  held,         \* held[q]: the agent and the environment request q has read
  versionRaced  \* history: agents that got two updates of one version

agentTables == <<agents, environments, sessions>>
agentVars   == <<agentTables, held, versionRaced>>

Setters == Calls \cup {First}

Agent == [stored : BOOLEAN, archived : BOOLEAN, version : Nat,
          fields : [AgentFields -> Setters]]
Environment == [stored : BOOLEAN, gone : BOOLEAN, archived : BOOLEAN, config : Setters]
Snapshot == [id : AgentIds, version : Nat, fields : [AgentFields -> Setters]]
Session == [workspace : Workspaces, agent : Snapshot, env : EnvIds, archived : BOOLEAN]
NoSession == [stored |-> FALSE]

FirstAgent == [stored |-> TRUE, archived |-> FALSE, version |-> 1,
               fields |-> [f \in AgentFields |-> First]]
FirstEnvironment == [stored |-> TRUE, gone |-> FALSE, archived |-> FALSE, config |-> First]

Held == [agent : AgentIds, row : Agent, env : EnvIds, session : SessionIds]

AgentsTypeOK ==
  /\ agents \in [AgentIds -> Agent]
  /\ environments \in [EnvIds -> Environment]
  /\ sessions \in [SessionIds -> Session \cup {NoSession}]
  /\ held \in [Calls -> Held]
  /\ versionRaced \subseteq AgentIds

AgentsInit ==
  /\ agents \in [AgentIds -> {FirstAgent, [FirstAgent EXCEPT !.stored = FALSE]}]
  /\ environments \in [EnvIds -> {FirstEnvironment, [FirstEnvironment EXCEPT !.stored = FALSE]}]
  /\ sessions = [s \in SessionIds |-> NoSession]
  /\ held = [q \in Calls |-> CHOOSE h \in [agent : AgentIds, row : {FirstAgent},
                                           env : EnvIds, session : SessionIds] : TRUE]
  /\ versionRaced = {}

-----------------------------------------------------------------------------
(* Rows.                                                                   *)
Exists(s) == sessions[s] # NoSession

AgentVisible(q, a) == agents[a].stored /\ AgentOwner[a] = Caller[q]
EnvVisible(q, e) == environments[e].stored /\ EnvOwner[e] = Caller[q]
SessionVisible(q, s) == Exists(s) /\ sessions[s].workspace = Caller[q]

UsedBySession(e) == \E s \in SessionIds : Exists(s) /\ sessions[s].env = e

(* The statements of the repositories.                                     *)
InsertAgent(a, row) == agents' = [agents EXCEPT ![a] = row]
StampAgent(a) == agents' = [agents EXCEPT ![a].archived = TRUE]

InsertEnvironment(e, setter) ==
  environments' = [environments EXCEPT ![e] = [FirstEnvironment EXCEPT !.config = setter]]
(* An UPDATE of a row deleted meanwhile changes nothing and is no error.   *)
WriteEnvironment(e, setter) ==
  environments' = [environments EXCEPT ![e] = IF @.stored THEN [@ EXCEPT !.config = setter] ELSE @]
StampEnvironment(e) == environments' = [environments EXCEPT ![e].archived = TRUE]
RemoveEnvironment(e) ==
  environments' = [environments EXCEPT ![e].stored = FALSE, ![e].gone = TRUE]

InsertSession(s, row) == sessions' = [sessions EXCEPT ![s] = row]
StampSession(s) == sessions' = [sessions EXCEPT ![s].archived = TRUE]

(* GetByID and the comparison of workspaces, with which handlers begin:    *)
(* the request goes on with step and holds what it has read, or gets 404.  *)
ReadAgent(q, step) ==
  /\ Fresh(q)
  /\ \E a \in AgentIds :
       IF AgentVisible(q, a)
       THEN Goto(q, step) /\ held' = [held EXCEPT ![q].agent = a, ![q].row = agents[a]]
       ELSE Goto(q, "refused") /\ UNCHANGED held
  /\ UNCHANGED <<agentTables, versionRaced>>

ReadEnvironment(q, from, step) ==
  /\ at[q] = from
  /\ \E e \in EnvIds :
       IF EnvVisible(q, e)
       THEN Goto(q, step) /\ held' = [held EXCEPT ![q].env = e]
       ELSE Goto(q, "refused") /\ UNCHANGED held
  /\ UNCHANGED <<agentTables, versionRaced>>

-----------------------------------------------------------------------------
(* Agents.                                                                 *)
CreateAgent(q) ==
  /\ Fresh(q)
  /\ \E a \in AgentIds :
       /\ ~agents[a].stored /\ AgentOwner[a] = Caller[q]
       /\ InsertAgent(a, [FirstAgent EXCEPT !.fields = [f \in AgentFields |-> q]])
  /\ Goto(q, "ok")
  /\ UNCHANGED <<environments, sessions, held, versionRaced>>

(* Mutant: archived_at would be written with the rest.                     *)
WriteAll(row, old) == row

(* AgentRepo.Update: every field and the version, but not archived_at.     *)
Write(row, old) == [row EXCEPT !.archived = old.archived]

(* Mutant: the version would stay.                                         *)
UpdateAgentUnversioned(q) ==
  /\ at[q] = "agent.write"
  /\ \E given \in SUBSET AgentFields :
       LET a == held[q].agent
           r == held[q].row
           new == [r EXCEPT !.fields = [f \in AgentFields |-> IF f \in given THEN q ELSE @[f]]]
       IN /\ agents' = [agents EXCEPT ![a] = Write(new, @)]
          /\ versionRaced' = IF agents[a].version = r.version
                             THEN versionRaced ELSE versionRaced \cup {a}
  /\ Goto(q, "ok")
  /\ UNCHANGED <<environments, sessions, held>>

(* Update changes the fields that the request names, in the copy it has    *)
(* read, counts the version up and writes the copy back.                   *)
UpdateAgent(q) ==
  /\ at[q] = "agent.write"
  /\ \E given \in SUBSET AgentFields :
       LET a == held[q].agent
           r == held[q].row
           new == [r EXCEPT !.version = @ + 1,
                            !.fields = [f \in AgentFields |-> IF f \in given THEN q ELSE @[f]]]
       IN /\ agents' = [agents EXCEPT ![a] = Write(new, @)]
          /\ versionRaced' = IF agents[a].version = r.version
                             THEN versionRaced ELSE versionRaced \cup {a}
  /\ Goto(q, "ok")
  /\ UNCHANGED <<environments, sessions, held>>

ArchiveAgent(q) ==
  /\ at[q] = "agent.archive"
  /\ StampAgent(held[q].agent)
  /\ Goto(q, "ok")
  /\ UNCHANGED <<environments, sessions, held, versionRaced>>

-----------------------------------------------------------------------------
(* Environments.                                                           *)
CreateEnvironment(q) ==
  /\ Fresh(q)
  /\ \E e \in EnvIds :
       /\ ~environments[e].stored /\ ~environments[e].gone /\ EnvOwner[e] = Caller[q]
       /\ InsertEnvironment(e, q)
  /\ Goto(q, "ok")
  /\ UNCHANGED <<agents, sessions, held, versionRaced>>

UpdateEnvironment(q) ==
  /\ at[q] = "env.write"
  /\ WriteEnvironment(held[q].env, q)
  /\ Goto(q, "ok")
  /\ UNCHANGED <<agents, sessions, held, versionRaced>>

ArchiveEnvironment(q) ==
  /\ at[q] = "env.archive"
  /\ IF environments[held[q].env].stored
     THEN Goto(q, "ok") /\ StampEnvironment(held[q].env)
     ELSE Goto(q, "refused") /\ UNCHANGED environments
  /\ UNCHANGED <<agents, sessions, held, versionRaced>>

(* Mutant: the sessions of an environment would not keep it.               *)
DeleteEnvironmentAnyway(q) ==
  /\ at[q] = "env.delete"
  /\ RemoveEnvironment(held[q].env)
  /\ Goto(q, "ok")
  /\ UNCHANGED <<agents, sessions, held, versionRaced>>

(* sessions.environment_id REFERENCES environments: an environment in use  *)
(* is not deleted.                                                         *)
DeleteEnvironment(q) ==
  /\ at[q] = "env.delete"
  /\ IF UsedBySession(held[q].env)
     THEN Goto(q, "failed") /\ UNCHANGED environments
     ELSE Goto(q, "ok") /\ RemoveEnvironment(held[q].env)
  /\ UNCHANGED <<agents, sessions, held, versionRaced>>

-----------------------------------------------------------------------------
(* Sessions.  Create has read the agent and the environment before; both   *)
(* may have changed.  The snapshot is what the agent was.                  *)
SnapshotOf(q) ==
  [id |-> held[q].agent, version |-> held[q].row.version, fields |-> held[q].row.fields]

CreateSession(q) ==
  /\ at[q] = "session.insert"
  /\ IF environments[held[q].env].stored
     THEN /\ Goto(q, "ok")
          /\ \E s \in SessionIds :
               /\ ~Exists(s)
               /\ InsertSession(s,
                    [workspace |-> Caller[q], agent |-> SnapshotOf(q), env |-> held[q].env,
                     archived |-> FALSE])
     ELSE Goto(q, "failed") /\ UNCHANGED sessions
  /\ UNCHANGED <<agents, environments, held, versionRaced>>

ReadSession(q) ==
  /\ Fresh(q)
  /\ \E s \in SessionIds :
       IF SessionVisible(q, s)
       THEN Goto(q, "session.archive") /\ held' = [held EXCEPT ![q].session = s]
       ELSE Goto(q, "refused") /\ UNCHANGED held
  /\ UNCHANGED <<agentTables, versionRaced>>

ArchiveSession(q) ==
  /\ at[q] = "session.archive"
  /\ StampSession(held[q].session)
  /\ Goto(q, "ok")
  /\ UNCHANGED <<agents, environments, held, versionRaced>>

AgentsNext ==
  \E q \in Calls :
    \/ CreateAgent(q)
    \/ ReadAgent(q, "agent.write") \/ UpdateAgent(q)
    \/ ReadAgent(q, "agent.archive") \/ ArchiveAgent(q)
    \/ CreateEnvironment(q)
    \/ ReadEnvironment(q, "new", "env.write") \/ UpdateEnvironment(q)
    \/ ReadEnvironment(q, "new", "env.archive") \/ ArchiveEnvironment(q)
    \/ ReadEnvironment(q, "new", "env.delete") \/ DeleteEnvironment(q)
    \/ ReadAgent(q, "session.env") \/ ReadEnvironment(q, "session.env", "session.insert")
    \/ CreateSession(q)
    \/ ReadSession(q) \/ ArchiveSession(q)

AgentsSpec == RequestsInit /\ AgentsInit /\ [][AgentsNext]_<<at, agentVars>>

-----------------------------------------------------------------------------
(* A session's environment exists for as long as the session does, and     *)
(* belongs to the session's workspace, as the session's agent does, though *)
(* the checks were made some calls before the session was stored.          *)
SessionHasEnvironment ==
  \A s \in SessionIds : Exists(s) =>
    LET t == sessions[s] IN
    /\ environments[t.env].stored
    /\ EnvOwner[t.env] = t.workspace /\ AgentOwner[t.agent.id] = t.workspace

(* Two copies of an agent that claim the same version.                     *)
SameVersion(x, y) == x.version = y.version => x.fields = y.fields

(* A version says what an agent was: no session has been told of a version *)
(* later than the agent's, and sessions of the same version (and of the    *)
(* current one) run the same agent, unless two updates of one version      *)
(* overtook each other (which may even set the version back).              *)
VersionsIdentify ==
  \A s \in SessionIds :
    Exists(s) /\ sessions[s].agent.id \notin versionRaced =>
      LET t == sessions[s].agent IN
      /\ t.version <= agents[t.id].version
      /\ SameVersion(t, agents[t.id])
      /\ \A u \in SessionIds :
           Exists(u) /\ sessions[u].agent.id = t.id => SameVersion(t, sessions[u].agent)

(* What has been archived stays archived, also when an update that read    *)
(* the row before is written after, and a deleted environment stays        *)
(* deleted.                                                                *)
NothingReturns ==
  /\ \A a \in AgentIds : agents[a].archived => agents'[a].archived
  /\ \A e \in EnvIds : /\ environments[e].archived /\ environments'[e].stored
                             => environments'[e].archived
                       /\ environments[e].gone => ~environments'[e].stored
  /\ \A s \in SessionIds : Exists(s) /\ sessions[s].archived => sessions'[s].archived

ArchiveKept == [][NothingReturns]_agentVars
=============================================================================
