---------------------------- MODULE AgentsProofs ----------------------------
(***************************************************************************)
(* What holds of agents, environments and sessions for any number of       *)
(* requests and rows.  The argument follows the copies of a row that       *)
(* requests and sessions hold while the row changes.                       *)
(***************************************************************************)
EXTENDS Agents, TLAPS

(* Where a request holds the copy of an agent, and an environment.         *)
HoldsAgent(q) == at[q] \in {"agent.write", "agent.archive", "session.env", "session.insert"}
HoldsEnv(q)   == at[q] \in {"env.write", "env.archive", "env.delete", "session.insert"}

(* What is held is the caller's; agents and sessions that have been seen   *)
(* stay (environments may be deleted).                                     *)
HeldOK ==
  \A q \in Calls :
    /\ HoldsAgent(q) => /\ agents[held[q].agent].stored /\ held[q].row.stored
                        /\ AgentOwner[held[q].agent] = Caller[q]
    /\ HoldsEnv(q) => EnvOwner[held[q].env] = Caller[q]
    /\ at[q] = "session.archive" => Exists(held[q].session)

RowsOK ==
  /\ \A a \in AgentIds : agents[a].archived => agents[a].stored
  /\ \A e \in EnvIds : environments[e].gone => ~environments[e].stored
  /\ \A e \in EnvIds : environments[e].archived => environments[e].stored \/ environments[e].gone
  /\ \A s \in SessionIds : Exists(s) => agents[sessions[s].agent.id].stored

(* The copies of agent a: the row, what requests hold, and snapshots.      *)
Brief(r) == [version |-> r.version, fields |-> r.fields]
Copies(a) ==
  {Brief(agents[a])}
  \cup {Brief(held[q].row) : q \in {p \in Calls : HoldsAgent(p) /\ held[p].agent = a}}
  \cup {Brief(sessions[s].agent) : s \in {t \in SessionIds : Exists(t) /\ sessions[t].agent.id = a}}

CopiesAgree(a) ==
  \A x, y \in Copies(a) : SameVersion(x, y) /\ x.version <= agents[a].version

VersionsInv == \A a \in AgentIds : a \notin versionRaced => CopiesAgree(a)

AgentsInv ==
  /\ RequestsTypeOK /\ AgentsTypeOK
  /\ HeldOK /\ RowsOK
  /\ SessionHasEnvironment
  /\ VersionsInv

-----------------------------------------------------------------------------
(* A session that is stored exists.                                        *)
LEMMA SessionIsRow == \A r \in Session : r # NoSession
<1> SUFFICES ASSUME NEW r \in Session, r = NoSession  PROVE FALSE
  OBVIOUS
<1>1. "workspace" \in DOMAIN r
  BY DEF Session
<1>2. "workspace" \notin DOMAIN NoSession
  BY DEF NoSession
<1> QED  BY <1>1, <1>2

LEMMA AgentsInitOK == RequestsInit /\ AgentsInit => AgentsInv
<1> SUFFICES ASSUME RequestsInit, AgentsInit  PROVE AgentsInv
  OBVIOUS
<1> USE DEF RequestsInit, AgentsInit
<1>1. RequestsTypeOK
  BY DEF RequestsTypeOK
<1>2. FirstAgent \in Agent /\ [FirstAgent EXCEPT !.stored = FALSE] \in Agent
      /\ ~[FirstAgent EXCEPT !.stored = FALSE].archived /\ ~FirstAgent.archived
  BY DEF FirstAgent, Agent, Setters
<1>3. FirstEnvironment \in Environment /\ [FirstEnvironment EXCEPT !.stored = FALSE] \in Environment
      /\ ~[FirstEnvironment EXCEPT !.stored = FALSE].archived /\ ~FirstEnvironment.archived
      /\ ~[FirstEnvironment EXCEPT !.stored = FALSE].gone /\ ~FirstEnvironment.gone
  BY DEF FirstEnvironment, Environment, Setters
<1>4. held \in [Calls -> Held]
  <2> DEFINE H == [agent : AgentIds, row : {FirstAgent}, env : EnvIds, session : SessionIds]
  <2>1. PICK a \in AgentIds, e \in EnvIds, s \in SessionIds : TRUE
    BY AgentsAssumption
  <2>2. [agent |-> a, row |-> FirstAgent, env |-> e, session |-> s] \in H
    OBVIOUS
  <2>3. (CHOOSE h \in H : TRUE) \in H
    BY <2>2
  <2>4. H \subseteq Held
    BY <1>2 DEF Held
  <2> HIDE DEF H
  <2>5. (CHOOSE h \in H : TRUE) \in Held
    BY <2>3, <2>4
  <2> QED  BY <2>5 DEF H
<1>5. AgentsTypeOK
  BY <1>2, <1>3, <1>4 DEF AgentsTypeOK
<1>6. HeldOK
  BY DEF HeldOK, HoldsAgent, HoldsEnv
<1>7. RowsOK
  BY <1>2, <1>3 DEF RowsOK, Exists
<1>8. SessionHasEnvironment
  BY DEF SessionHasEnvironment, Exists
<1>9. VersionsInv
  <2>1. \A a \in AgentIds : Copies(a) = {Brief(agents[a])}
    BY DEF Copies, HoldsAgent, Exists
  <2>2. \A a \in AgentIds : agents[a].version \in Nat
    BY <1>5 DEF AgentsTypeOK, Agent
  <2> QED  BY <2>1, <2>2 DEF VersionsInv, CopiesAgree, SameVersion, Brief
<1> QED  BY <1>1, <1>5, <1>6, <1>7, <1>8, <1>9 DEF AgentsInv

-----------------------------------------------------------------------------
(* A step that makes no new copy of any agent, and sets no version, keeps  *)
(* the copies in agreement.                                                *)
LEMMA NoNewCopiesOf ==
  ASSUME NEW a \in AgentIds, CopiesAgree(a),
         Copies(a)' \subseteq Copies(a), agents'[a].version = agents[a].version
  PROVE  CopiesAgree(a)'
BY DEF CopiesAgree, SameVersion

LEMMA NoNewCopies ==
  ASSUME VersionsInv, versionRaced \subseteq versionRaced',
         \A a \in AgentIds : /\ Copies(a)' \subseteq Copies(a)
                             /\ agents'[a].version = agents[a].version
  PROVE  VersionsInv'
BY NoNewCopiesOf DEF VersionsInv

(* What a request holds has been held before, and what a session has as    *)
(* its snapshot has been so before or was held: nothing is a new copy.     *)
LEMMA CopiesComeFromCopies ==
  ASSUME NEW b \in AgentIds,
         agents'[b].version = agents[b].version, agents'[b].fields = agents[b].fields,
         \A p \in Calls : HoldsAgent(p)' =>
           HoldsAgent(p) /\ held'[p].agent = held[p].agent /\ held'[p].row = held[p].row,
         \A s \in SessionIds : Exists(s)' =>
           \/ Exists(s) /\ sessions'[s].agent = sessions[s].agent
           \/ \E p \in Calls :
                /\ HoldsAgent(p)
                /\ sessions'[s].agent.id = held[p].agent
                /\ sessions'[s].agent.version = held[p].row.version
                /\ sessions'[s].agent.fields = held[p].row.fields
  PROVE  Copies(b)' \subseteq Copies(b)
<1> SUFFICES ASSUME NEW x \in Copies(b)'  PROVE x \in Copies(b)
  OBVIOUS
<1>1. CASE x = Brief(agents[b])'
  BY <1>1 DEF Copies, Brief
<1>2. ASSUME NEW q \in Calls, HoldsAgent(q)', held'[q].agent = b, x = Brief(held'[q].row)
      PROVE  x \in Copies(b)
  BY <1>2 DEF Copies
<1>3. ASSUME NEW s \in SessionIds, Exists(s)', sessions'[s].agent.id = b, x = Brief(sessions'[s].agent)
      PROVE  x \in Copies(b)
  <2>1. CASE Exists(s) /\ sessions'[s].agent = sessions[s].agent
    BY <1>3, <2>1 DEF Copies
  <2>2. ASSUME NEW p \in Calls, HoldsAgent(p),
               sessions'[s].agent.id = held[p].agent,
               sessions'[s].agent.version = held[p].row.version,
               sessions'[s].agent.fields = held[p].row.fields
        PROVE  x \in Copies(b)
    <3>1. x = Brief(held[p].row)
      BY <1>3, <2>2 DEF Brief
    <3> QED  BY <1>3, <2>2, <3>1 DEF Copies
  <2> QED  BY <1>3, <2>1, <2>2
<1> QED  BY <1>1, <1>2, <1>3 DEF Copies, Brief

LEMMA AgentsStep == AgentsInv /\ [AgentsNext]_<<at, agentVars>> => AgentsInv'
<1> SUFFICES ASSUME AgentsInv, [AgentsNext]_<<at, agentVars>>  PROVE AgentsInv'
  OBVIOUS
<1> USE DEF AgentsInv, RequestsTypeOK, Goto, Fresh
<1>1. ASSUME NEW q \in Calls, CreateAgent(q)  PROVE AgentsInv'
  <2> USE <1>1 DEF CreateAgent, InsertAgent
  <2>1. PICK a \in AgentIds :
          /\ ~agents[a].stored
          /\ agents' = [agents EXCEPT ![a] = [FirstAgent EXCEPT !.fields = [f \in AgentFields |-> q]]]
    OBVIOUS
  <2>2. [FirstAgent EXCEPT !.fields = [f \in AgentFields |-> q]] \in Agent
    BY DEF FirstAgent, Agent, Setters
  <2>3. RequestsTypeOK' /\ AgentsTypeOK'
    BY <2>1, <2>2 DEF AgentsTypeOK
  <2>4. agents'[a].stored /\ \A b \in AgentIds : b # a => agents'[b] = agents[b]
    BY <2>1 DEF AgentsTypeOK, FirstAgent
  <2>5. HeldOK' /\ RowsOK' /\ SessionHasEnvironment'
    BY <2>1, <2>3, <2>4 DEF AgentsTypeOK, HeldOK, HoldsAgent, HoldsEnv, RowsOK, Exists, SessionHasEnvironment
  <2>6. VersionsInv'
    <3>1. Copies(a)' = {Brief(agents'[a])}
      BY <2>1 DEF HeldOK, RowsOK, Copies, HoldsAgent, Exists, Brief
    <3>2. CopiesAgree(a)'
      BY <2>3, <3>1 DEF AgentsTypeOK, Agent, CopiesAgree, SameVersion, Brief
    <3>3. ASSUME NEW b \in AgentIds, b # a  PROVE Copies(b)' \subseteq Copies(b)
      BY <2>4, <3>3 DEF Copies, HoldsAgent, Exists, Brief
    <3>4. ASSUME NEW b \in AgentIds, b # a, b \notin versionRaced  PROVE CopiesAgree(b)'
      BY <2>4, <3>3, <3>4, NoNewCopiesOf DEF VersionsInv
    <3> QED  BY <3>2, <3>4 DEF VersionsInv
  <2> QED  BY <2>3, <2>5, <2>6
<1>2. ASSUME NEW q \in Calls, NEW step \in {"agent.write", "agent.archive", "session.env"},
             ReadAgent(q, step)
      PROVE  AgentsInv'
  <2> USE <1>2 DEF ReadAgent, agentTables
  <2>1. RequestsTypeOK' /\ AgentsTypeOK'
    <3>1. CASE UNCHANGED held
      BY <3>1 DEF AgentsTypeOK
    <3>2. ASSUME NEW a \in AgentIds, held' = [held EXCEPT ![q].agent = a, ![q].row = agents[a]]
          PROVE  AgentsTypeOK'
      <4>1. [held[q] EXCEPT !.agent = a, !.row = agents[a]] \in Held
        BY <3>2 DEF AgentsTypeOK, Held
      <4>2. held'[q] = [held[q] EXCEPT !.agent = a, !.row = agents[a]]
        BY <3>2 DEF AgentsTypeOK, Held
      <4>3. \A p \in Calls : p # q => held'[p] = held[p]
        BY <3>2 DEF AgentsTypeOK
      <4>4. held' = [p \in Calls |-> held'[p]]
        BY <3>2 DEF AgentsTypeOK
      <4> QED  BY <4>1, <4>2, <4>3, <4>4 DEF AgentsTypeOK
    <3>3. RequestsTypeOK'
      OBVIOUS
    <3> QED  BY <3>1, <3>2, <3>3
  <2>2. HeldOK'
    BY DEF AgentsTypeOK, Held, HeldOK, HoldsAgent, HoldsEnv, AgentVisible, Exists
  <2>3. RowsOK' /\ SessionHasEnvironment'
    BY DEF RowsOK, Exists, SessionHasEnvironment
  <2>4. ASSUME NEW b \in AgentIds  PROVE Copies(b)' \subseteq Copies(b)
    BY DEF AgentsTypeOK, Held, Copies, HoldsAgent, Exists, Brief
  <2> QED  BY <2>1, <2>2, <2>3, <2>4, NoNewCopies
<1>3. ASSUME NEW q \in Calls, UpdateAgent(q)  PROVE AgentsInv'
  <2> DEFINE a == held[q].agent
             r == held[q].row
  <2> USE <1>3 DEF UpdateAgent, Write
  <2>1. a \in AgentIds /\ r \in Agent /\ agents[a] \in Agent /\ agents[a].stored
    BY DEF AgentsTypeOK, Held, HeldOK, HoldsAgent
  <2>2. PICK new \in Agent :
          /\ new.version = r.version + 1
          /\ new.archived = agents[a].archived /\ new.stored = r.stored
          /\ agents' = [agents EXCEPT ![a] = new]
    <3>1. PICK given \in SUBSET AgentFields :
            agents' = [agents EXCEPT ![a] =
              [[r EXCEPT !.version = @ + 1,
                        !.fields = [f \in AgentFields |-> IF f \in given THEN q ELSE @[f]]]
               EXCEPT !.archived = agents[a].archived]]
      BY <2>1 DEF AgentsTypeOK
    <3> DEFINE fields == [f \in AgentFields |-> IF f \in given THEN q ELSE r.fields[f]]
               new == [r EXCEPT !.version = r.version + 1, !.fields = fields,
                                !.archived = agents[a].archived]
    <3>2. fields \in [AgentFields -> Setters] /\ r.version + 1 \in Nat /\ agents[a].archived \in BOOLEAN
      BY <2>1 DEF Agent, Setters
    <3>3. agents' = [agents EXCEPT ![a] = new]
      BY <2>1, <3>1 DEF Agent
    <3> HIDE DEF fields
    <3>4. new \in Agent /\ new.version = r.version + 1 /\ new.archived = agents[a].archived
          /\ new.stored = r.stored
      BY <2>1, <3>2 DEF Agent
    <3> HIDE DEF new
    <3> QED  BY <3>3, <3>4
  <2>3. held' = held /\ sessions' = sessions /\ environments' = environments
        /\ \A b \in AgentIds : b # a => agents'[b] = agents[b]
    BY <2>2 DEF AgentsTypeOK
  <2>4. RequestsTypeOK'
    OBVIOUS
  <2>5. AgentsTypeOK'
    BY <2>1, <2>2 DEF AgentsTypeOK
  <2>6. HeldOK' /\ RowsOK' /\ SessionHasEnvironment'
    BY <2>1, <2>2, <2>3 DEF AgentsTypeOK, HeldOK, HoldsAgent, HoldsEnv, RowsOK, Exists, SessionHasEnvironment
  <2>7. VersionsInv'
    <3>1. ASSUME NEW b \in AgentIds, b # a  PROVE Copies(b)' \subseteq Copies(b)
      BY <2>3, <3>1 DEF Copies, HoldsAgent, Exists, Brief
    <3>2. ASSUME agents[a].version = r.version, a \notin versionRaced  PROVE CopiesAgree(a)'
      <4>1. Copies(a)' \subseteq Copies(a) \cup {Brief(agents'[a])}
        BY <2>3 DEF Copies, HoldsAgent, Exists, Brief
      <4>2. CopiesAgree(a)
        BY <2>1, <3>2 DEF VersionsInv
      <4>3. \A x \in Copies(a) : x.version \in Nat
        <5>1. \A p \in Calls : held[p].row.version \in Nat
          BY DEF AgentsTypeOK, Held, Agent
        <5>2. \A s \in SessionIds : Exists(s) => sessions[s].agent.version \in Nat
          BY DEF AgentsTypeOK, Session, Snapshot, Exists
        <5> QED  BY <2>1, <5>1, <5>2 DEF Copies, Brief, Agent
      <4>4. agents'[a].version = agents[a].version + 1 /\ agents[a].version \in Nat
        BY <2>1, <2>2, <3>2 DEF AgentsTypeOK, Agent
      <4>5. Brief(agents'[a]).version = agents'[a].version
        BY DEF Brief
      <4> DEFINE n == Brief(agents'[a])
      <4>6. \A x \in Copies(a) : x.version <= n.version /\ x.version # n.version
        BY <4>2, <4>3, <4>4, <4>5 DEF CopiesAgree
      <4>7. n.version <= agents'[a].version
        BY <4>4, <4>5
      <4>8. \A x, y \in Copies(a) : SameVersion(x, y)
        BY <4>2 DEF CopiesAgree
      <4>9. \A x \in Copies(a) : SameVersion(x, n) /\ SameVersion(n, x)
        BY <4>6 DEF SameVersion
      <4> HIDE DEF n
      <4>10. \A x, y \in Copies(a) \cup {n} : SameVersion(x, y)
        BY <4>8, <4>9 DEF SameVersion
      <4>11. \A x \in Copies(a) \cup {n} : x.version <= agents'[a].version
        BY <4>4, <4>5, <4>6, <4>7 DEF n
      <4> QED  BY <4>1, <4>10, <4>11 DEF CopiesAgree, n, SameVersion
    <3>3. versionRaced \subseteq versionRaced' /\ (a \notin versionRaced' => agents[a].version = r.version)
      OBVIOUS
    <3>4. ASSUME NEW b \in AgentIds, b # a, b \notin versionRaced  PROVE CopiesAgree(b)'
      BY <2>3, <3>1, <3>4, NoNewCopiesOf DEF VersionsInv
    <3> QED  BY <3>2, <3>3, <3>4 DEF VersionsInv
  <2> QED  BY <2>4, <2>5, <2>6, <2>7
<1>4. ASSUME NEW q \in Calls, ArchiveAgent(q)  PROVE AgentsInv'
  <2> DEFINE a == held[q].agent
  <2> USE <1>4 DEF ArchiveAgent, StampAgent
  <2>1. a \in AgentIds /\ agents[a] \in Agent /\ agents[a].stored
    BY DEF AgentsTypeOK, Held, HeldOK, HoldsAgent
  <2>2. \A b \in AgentIds : /\ agents'[b].stored = agents[b].stored
                            /\ agents'[b].version = agents[b].version
                            /\ agents'[b].fields = agents[b].fields
                            /\ b # a => agents'[b] = agents[b]
    BY <2>1 DEF AgentsTypeOK, Agent
  <2>3. RequestsTypeOK' /\ AgentsTypeOK'
    BY <2>1 DEF AgentsTypeOK, Agent
  <2>4. HeldOK' /\ RowsOK' /\ SessionHasEnvironment'
    BY <2>1, <2>2 DEF AgentsTypeOK, Session, Snapshot, Held, HeldOK, HoldsAgent, HoldsEnv, RowsOK, Exists,
                      SessionHasEnvironment
  <2>5. ASSUME NEW b \in AgentIds  PROVE Copies(b)' \subseteq Copies(b)
    BY <2>2 DEF Copies, HoldsAgent, Exists, Brief
  <2> QED  BY <2>2, <2>3, <2>4, <2>5, NoNewCopies
<1>5. ASSUME NEW q \in Calls, CreateEnvironment(q)  PROVE AgentsInv'
  <2> USE <1>5 DEF CreateEnvironment, InsertEnvironment
  <2>1. PICK e \in EnvIds :
          /\ ~environments[e].stored /\ ~environments[e].gone
          /\ environments' = [environments EXCEPT ![e] = [FirstEnvironment EXCEPT !.config = q]]
    OBVIOUS
  <2>2. /\ [FirstEnvironment EXCEPT !.config = q] \in Environment
        /\ environments'[e].stored /\ ~environments'[e].gone
    BY <2>1 DEF FirstEnvironment, Environment, Setters, AgentsTypeOK
  <2>3. RequestsTypeOK' /\ AgentsTypeOK'
    BY <2>1, <2>2 DEF AgentsTypeOK
  <2>4. \A d \in EnvIds : d # e => environments'[d] = environments[d]
    BY <2>1 DEF AgentsTypeOK
  <2>5. HeldOK'
    BY DEF HeldOK, HoldsAgent, HoldsEnv, Exists
  <2>6. RowsOK'
    BY <2>2, <2>4 DEF RowsOK, Exists
  <2>8. SessionHasEnvironment'
    <3>1. \A d \in EnvIds : environments[d].stored => environments'[d].stored
      BY <2>2, <2>4
    <3>2. \A s \in SessionIds : Exists(s) => sessions[s].env \in EnvIds
      BY DEF AgentsTypeOK, Session, Exists
    <3> QED  BY <3>1, <3>2 DEF SessionHasEnvironment, Exists
  <2>7. ASSUME NEW b \in AgentIds  PROVE Copies(b)' \subseteq Copies(b)
    BY DEF Copies, HoldsAgent, Exists, Brief
  <2> QED  BY <2>3, <2>5, <2>6, <2>7, <2>8, NoNewCopies
<1>6. ASSUME NEW q \in Calls,
             NEW from \in {"new", "session.env"},
             NEW step \in {"env.write", "env.archive", "env.delete", "session.insert"},
             step = "session.insert" <=> from = "session.env",
             ReadEnvironment(q, from, step)
      PROVE  AgentsInv'
  <2> USE <1>6 DEF ReadEnvironment, agentTables
  <2>1. \A p \in Calls : /\ held'[p].agent = held[p].agent /\ held'[p].row = held[p].row
                         /\ held'[p].session = held[p].session
                         /\ p # q => held'[p] = held[p] /\ at'[p] = at[p]
    BY DEF AgentsTypeOK, Held
  <2>6. at'[q] \in {"refused", step}
    OBVIOUS
  <2>7. at'[q] = step => EnvOwner[held'[q].env] = Caller[q]
    BY DEF AgentsTypeOK, Held, EnvVisible
  <2>8. \A p \in Calls : HoldsAgent(p)' => HoldsAgent(p)
    BY <2>1, <2>6 DEF HoldsAgent
  <2>2. RequestsTypeOK' /\ AgentsTypeOK'
    BY DEF AgentsTypeOK, Held
  <2>9. agents' = agents /\ sessions' = sessions
    OBVIOUS
  <2>3. HeldOK'
    <3> HIDE <1>6 DEF ReadEnvironment, Goto, Fresh, RequestsTypeOK
    <3>1. ASSUME NEW p \in Calls, HoldsEnv(p)'  PROVE EnvOwner[held'[p].env] = Caller[p]
      <4>1. CASE p = q
        BY <1>6, <2>6, <2>7, <3>1, <4>1 DEF HoldsEnv
      <4>2. CASE p # q
        <5>1. held'[p] = held[p] /\ at'[p] = at[p]
          BY <2>1, <4>2
        <5>2. HoldsEnv(p)
          BY <3>1, <5>1 DEF HoldsEnv
        <5> QED  BY <5>1, <5>2 DEF HeldOK
      <4> QED  BY <4>1, <4>2
    <3>2. ASSUME NEW p \in Calls, at'[p] = "session.archive"  PROVE Exists(held[p].session)'
      BY <1>6, <2>1, <2>6, <2>9, <3>2 DEF HeldOK, Exists
    <3> QED  BY <2>1, <2>8, <2>9, <3>1, <3>2 DEF HeldOK
  <2>4. RowsOK' /\ SessionHasEnvironment'
    BY DEF RowsOK, Exists, SessionHasEnvironment
  <2>5. ASSUME NEW b \in AgentIds  PROVE Copies(b)' \subseteq Copies(b)
    <3> HIDE <1>6 DEF ReadEnvironment, Goto, Fresh, RequestsTypeOK
    <3>1. \A s \in SessionIds : Exists(s)' => Exists(s) /\ sessions'[s].agent = sessions[s].agent
      BY <2>9 DEF Exists
    <3> QED  BY <2>1, <2>8, <2>9, <3>1, CopiesComeFromCopies
  <2> QED  BY <2>2, <2>3, <2>4, <2>5, NoNewCopies
<1>7. ASSUME NEW q \in Calls, UpdateEnvironment(q) \/ ArchiveEnvironment(q) \/ DeleteEnvironment(q)
      PROVE  AgentsInv'
  <2> DEFINE e == held[q].env
  <2> USE <1>7 DEF UpdateEnvironment, ArchiveEnvironment, DeleteEnvironment,
                   WriteEnvironment, StampEnvironment, RemoveEnvironment
  <2>1. e \in EnvIds /\ environments[e] \in Environment
        /\ held' = held /\ agents' = agents /\ sessions' = sessions /\ versionRaced' = versionRaced
    BY DEF AgentsTypeOK, Held
  <2>2. RequestsTypeOK'
    OBVIOUS
  <2>3. AgentsTypeOK'
    <3>1. environments' \in [EnvIds -> Environment]
      <4>1. CASE UpdateEnvironment(q)
        BY <2>1, <4>1 DEF AgentsTypeOK, Environment, Setters
      <4>2. CASE ArchiveEnvironment(q)
        <5>1. [environments[e] EXCEPT !.archived = TRUE] \in Environment
          BY <2>1 DEF Environment
        <5>2. environments' \in {environments,
                [environments EXCEPT ![e] = [environments[e] EXCEPT !.archived = TRUE]]}
          BY <4>2
        <5> QED  BY <5>1, <5>2 DEF AgentsTypeOK
      <4>3. CASE DeleteEnvironment(q)
        <5>1. [environments[e] EXCEPT !.stored = FALSE, !.gone = TRUE] \in Environment
          BY <2>1 DEF Environment
        <5>2. environments' = environments \/ RemoveEnvironment(e)
          BY <4>3
        <5>3. RemoveEnvironment(e) =>
                environments' = [environments EXCEPT ![e] =
                                   [environments[e] EXCEPT !.stored = FALSE, !.gone = TRUE]]
          BY <2>1 DEF AgentsTypeOK, Environment
        <5> QED  BY <5>1, <5>2, <5>3 DEF AgentsTypeOK
      <4> QED  BY <4>1, <4>2, <4>3
    <3> QED  BY <2>1, <3>1 DEF AgentsTypeOK
  <2>4. HeldOK'
    BY <2>1 DEF HeldOK, HoldsAgent, HoldsEnv, Exists
  <2>5. RowsOK'
    BY <2>1 DEF AgentsTypeOK, Environment, RowsOK, Exists
  <2>6. SessionHasEnvironment'
    BY <2>1 DEF AgentsTypeOK, Environment, Session, SessionHasEnvironment, UsedBySession, Exists
  <2>7. ASSUME NEW b \in AgentIds  PROVE Copies(b)' \subseteq Copies(b)
    BY <2>1 DEF Copies, HoldsAgent, Exists, Brief
  <2> QED  BY <2>1, <2>2, <2>3, <2>4, <2>5, <2>6, <2>7, NoNewCopies
<1>8. ASSUME NEW q \in Calls, CreateSession(q)  PROVE AgentsInv'
  <2> USE <1>8 DEF CreateSession, InsertSession
  <2>1. CASE UNCHANGED sessions
    <3>1. RequestsTypeOK' /\ AgentsTypeOK' /\ HeldOK' /\ RowsOK' /\ SessionHasEnvironment'
      BY <2>1 DEF AgentsTypeOK, HeldOK, HoldsAgent, HoldsEnv, RowsOK, Exists, SessionHasEnvironment
    <3>2. ASSUME NEW b \in AgentIds  PROVE Copies(b)' \subseteq Copies(b)
      BY <2>1 DEF Copies, HoldsAgent, Exists, Brief
    <3> QED  BY <3>1, <3>2, NoNewCopies
  <2>2. ASSUME NEW s \in SessionIds, ~Exists(s), environments[held[q].env].stored,
               InsertSession(s, [workspace |-> Caller[q], agent |-> SnapshotOf(q), env |-> held[q].env,
                                 archived |-> FALSE])
        PROVE  AgentsInv'
    <3> DEFINE row == [workspace |-> Caller[q], agent |-> SnapshotOf(q), env |-> held[q].env,
                       archived |-> FALSE]
    <3>1. SnapshotOf(q) \in Snapshot /\ held[q].env \in EnvIds /\ Caller[q] \in Workspaces
      BY RequestsAssumption DEF AgentsTypeOK, Held, Agent, Snapshot, SnapshotOf
    <3>2. row \in Session
      BY <3>1 DEF Session
    <3>3. sessions'[s] = row /\ \A t \in SessionIds : t # s => sessions'[t] = sessions[t]
      BY <2>2 DEF AgentsTypeOK
    <3>4. RequestsTypeOK' /\ AgentsTypeOK'
      BY <2>2, <3>2 DEF AgentsTypeOK
    <3>5. HeldOK'
      BY <2>2, <3>3 DEF HeldOK, HoldsAgent, HoldsEnv, Exists
    <3>6. row.agent.id = held[q].agent /\ row.env = held[q].env /\ row.workspace = Caller[q]
          /\ row.agent.version = held[q].row.version /\ row.agent.fields = held[q].row.fields
          /\ held[q].agent \in AgentIds
      BY DEF SnapshotOf, AgentsTypeOK, Held
    <3> HIDE DEF row
    <3>7. RowsOK'
      BY <2>2, <3>3, <3>6 DEF HeldOK, HoldsAgent, RowsOK, Exists
    <3>9. SessionHasEnvironment'
      <4>1. EnvOwner[row.env] = row.workspace /\ AgentOwner[row.agent.id] = row.workspace
            /\ environments[row.env].stored
        BY <2>2, <3>6 DEF HeldOK, HoldsAgent, HoldsEnv
      <4> QED  BY <3>3, <4>1 DEF SessionHasEnvironment, Exists
    <3>8. ASSUME NEW b \in AgentIds  PROVE Copies(b)' \subseteq Copies(b)
      <4>1. HoldsAgent(q) /\ \A p \in Calls : HoldsAgent(p)' => HoldsAgent(p)
        BY DEF HoldsAgent
      <4>2. \A t \in SessionIds : t # s => (Exists(t)' <=> Exists(t)) /\ sessions'[t] = sessions[t]
        BY <3>3 DEF Exists
      <4> QED  BY <3>3, <3>6, <4>1, <4>2, CopiesComeFromCopies
    <3> QED  BY <3>4, <3>5, <3>7, <3>8, <3>9, NoNewCopies
  <2> QED  BY <2>1, <2>2
<1>9. ASSUME NEW q \in Calls, ReadSession(q)  PROVE AgentsInv'
  <2> USE <1>9 DEF ReadSession, agentTables
  <2>1. \A p \in Calls : /\ held'[p].agent = held[p].agent /\ held'[p].row = held[p].row
                         /\ held'[p].env = held[p].env
                         /\ p # q => held'[p] = held[p] /\ at'[p] = at[p]
    BY DEF AgentsTypeOK, Held
  <2>2. RequestsTypeOK' /\ AgentsTypeOK'
    <3>1. RequestsTypeOK'
      OBVIOUS
    <3>2. held' \in [Calls -> Held]
      BY DEF AgentsTypeOK, Held
    <3> QED  BY <3>1, <3>2 DEF AgentsTypeOK
  <2>6. ~HoldsAgent(q)' /\ ~HoldsEnv(q)'
    BY DEF HoldsAgent, HoldsEnv
  <2>9. agents' = agents /\ sessions' = sessions
    OBVIOUS
  <2>3. HeldOK'
    <3>1. at'[q] = "session.archive" => Exists(held'[q].session)
      BY DEF AgentsTypeOK, Held, SessionVisible
    <3> HIDE <1>9 DEF ReadSession, Goto, Fresh, RequestsTypeOK
    <3>2. \A p \in Calls \ {q} : /\ HoldsAgent(p)' <=> HoldsAgent(p)
                                 /\ HoldsEnv(p)' <=> HoldsEnv(p)
      BY <2>1 DEF HoldsAgent, HoldsEnv
    <3> QED  BY <2>1, <2>6, <2>9, <3>1, <3>2 DEF HeldOK, Exists
  <2>4. RowsOK' /\ SessionHasEnvironment'
    BY DEF RowsOK, Exists, SessionHasEnvironment
  <2>5. ASSUME NEW b \in AgentIds  PROVE Copies(b)' \subseteq Copies(b)
    <3>1. \A p \in Calls : HoldsAgent(p)' => HoldsAgent(p)
      BY <2>1, <2>6 DEF HoldsAgent
    <3> HIDE <1>9 DEF ReadSession, Goto, Fresh, RequestsTypeOK
    <3>2. \A s \in SessionIds : Exists(s)' => Exists(s) /\ sessions'[s].agent = sessions[s].agent
      BY <2>9 DEF Exists
    <3> QED  BY <2>1, <2>9, <3>1, <3>2, CopiesComeFromCopies
  <2> QED  BY <2>2, <2>3, <2>4, <2>5, NoNewCopies
<1>10. ASSUME NEW q \in Calls, ArchiveSession(q)  PROVE AgentsInv'
  <2> DEFINE s == held[q].session
  <2> USE <1>10 DEF ArchiveSession, StampSession
  <2>1. s \in SessionIds /\ sessions[s] \in Session
    BY DEF AgentsTypeOK, Held, HeldOK, Exists
  <2>2. /\ sessions'[s] \in Session
        /\ sessions'[s].agent = sessions[s].agent /\ sessions'[s].env = sessions[s].env
        /\ sessions'[s].workspace = sessions[s].workspace
        /\ \A t \in SessionIds : t # s => sessions'[t] = sessions[t]
    BY <2>1 DEF AgentsTypeOK, Session
  <2>3. RequestsTypeOK' /\ AgentsTypeOK'
    BY <2>1, <2>2 DEF AgentsTypeOK
  <2>4. \A t \in SessionIds : Exists(t)' <=> Exists(t)
    BY <2>1, <2>2, SessionIsRow DEF Exists
  <2>5. HeldOK'
    BY <2>4 DEF AgentsTypeOK, Held, HeldOK, HoldsAgent, HoldsEnv
  <2>6. RowsOK'
    BY <2>2, <2>4 DEF RowsOK
  <2>8. SessionHasEnvironment'
    BY <2>2, <2>4 DEF SessionHasEnvironment
  <2>7. ASSUME NEW b \in AgentIds  PROVE Copies(b)' \subseteq Copies(b)
    BY <2>2, <2>4 DEF Copies, HoldsAgent, Brief
  <2> QED  BY <2>3, <2>5, <2>6, <2>7, <2>8, NoNewCopies
<1>11. CASE UNCHANGED <<at, agentVars>>
  BY <1>11 DEF agentVars, agentTables, AgentsTypeOK, HeldOK, HoldsAgent, HoldsEnv, RowsOK, Exists,
               SessionHasEnvironment, VersionsInv, CopiesAgree, Copies, SameVersion, Brief
<1> QED  BY <1>1, <1>2, <1>3, <1>4, <1>5, <1>6, <1>7, <1>8, <1>9, <1>10, <1>11 DEF AgentsNext

(* Agents, environments, sessions and the copies that requests hold agree  *)
(* in every reachable state (agent_handler.go, session_handler.go).        *)
THEOREM AgentsInvariance == AgentsSpec => []AgentsInv
<1> QED  BY AgentsInitOK, AgentsStep, PTL DEF AgentsSpec

(* A session's environment and agent exist and belong to its workspace,    *)
(* whatever is deleted and created meanwhile.                              *)
THEOREM SessionsHaveEnvironments == AgentsSpec => []SessionHasEnvironment
<1>1. AgentsInv => SessionHasEnvironment
  BY DEF AgentsInv
<1> QED  BY <1>1, AgentsInvariance, PTL

(* A version says what an agent was, unless updates overtook each other.   *)
THEOREM VersionsAlwaysIdentify == AgentsSpec => []VersionsIdentify
<1>1. AgentsInv => VersionsIdentify
  <2> SUFFICES ASSUME AgentsInv, NEW s \in SessionIds, Exists(s),
                      sessions[s].agent.id \notin versionRaced
               PROVE  LET t == sessions[s].agent IN
                      /\ t.version <= agents[t.id].version
                      /\ SameVersion(t, agents[t.id])
                      /\ \A u \in SessionIds :
                           Exists(u) /\ sessions[u].agent.id = t.id
                             => SameVersion(t, sessions[u].agent)
    BY DEF VersionsIdentify
  <2> DEFINE a == sessions[s].agent.id
  <2>1. a \in AgentIds
    BY DEF AgentsInv, AgentsTypeOK, Session, Snapshot, Exists
  <2>2. CopiesAgree(a)
    BY <2>1 DEF AgentsInv, VersionsInv
  <2>3. Brief(agents[a]) \in Copies(a)
        /\ \A u \in SessionIds : Exists(u) /\ sessions[u].agent.id = a
                                     => Brief(sessions[u].agent) \in Copies(a)
    BY DEF Copies
  <2> QED  BY <2>2, <2>3 DEF CopiesAgree, SameVersion, Brief
<1> QED  BY <1>1, AgentsInvariance, PTL

(* What has been archived or deleted stays so, whatever updates are        *)
(* written after.                                                          *)
THEOREM ArchivedStays == AgentsSpec => ArchiveKept
<1>1. AgentsInv /\ [AgentsNext]_<<at, agentVars>> => [NothingReturns]_agentVars
  <2> SUFFICES ASSUME AgentsInv, AgentsNext  PROVE NothingReturns
    BY DEF agentVars
  <2> USE DEF AgentsInv
  <2>1. ASSUME NEW q \in Calls, CreateAgent(q)  PROVE NothingReturns
    BY <2>1 DEF CreateAgent, InsertAgent, AgentsTypeOK, RowsOK, NothingReturns
  <2>2. ASSUME NEW q \in Calls, UpdateAgent(q)  PROVE NothingReturns
    <3>1. /\ held[q].agent \in AgentIds /\ held[q].row \in Agent
          /\ environments' = environments /\ sessions' = sessions
      BY <2>2 DEF UpdateAgent, AgentsTypeOK, Held
    <3>2. \A a \in AgentIds : agents'[a].archived = agents[a].archived
      BY <2>2, <3>1 DEF UpdateAgent, Write, AgentsTypeOK, Agent
    <3> QED  BY <3>1, <3>2 DEF NothingReturns, RowsOK
  <2>3. ASSUME NEW q \in Calls, ArchiveAgent(q)  PROVE NothingReturns
    BY <2>3 DEF ArchiveAgent, StampAgent, AgentsTypeOK, Agent, RowsOK, NothingReturns
  <2>4. ASSUME NEW q \in Calls, CreateEnvironment(q)  PROVE NothingReturns
    BY <2>4 DEF CreateEnvironment, InsertEnvironment, AgentsTypeOK, RowsOK, NothingReturns
  <2>5. ASSUME NEW q \in Calls, UpdateEnvironment(q)  PROVE NothingReturns
    BY <2>5 DEF UpdateEnvironment, WriteEnvironment, AgentsTypeOK, Environment, RowsOK, NothingReturns
  <2>6. ASSUME NEW q \in Calls, ArchiveEnvironment(q)  PROVE NothingReturns
    BY <2>6 DEF ArchiveEnvironment, StampEnvironment, AgentsTypeOK, Environment, RowsOK, NothingReturns
  <2>7. ASSUME NEW q \in Calls, DeleteEnvironment(q)  PROVE NothingReturns
    BY <2>7 DEF DeleteEnvironment, RemoveEnvironment, AgentsTypeOK, Environment, Held, RowsOK, NothingReturns
  <2>8. ASSUME NEW q \in Calls, CreateSession(q)  PROVE NothingReturns
    BY <2>8 DEF CreateSession, InsertSession, AgentsTypeOK, RowsOK, NothingReturns
  <2>9. ASSUME NEW q \in Calls, ArchiveSession(q)  PROVE NothingReturns
    BY <2>9 DEF ArchiveSession, StampSession, AgentsTypeOK, Held, Session, HeldOK, Exists, RowsOK, NothingReturns
  <2>10. CASE UNCHANGED agentTables
    BY <2>10 DEF agentTables, AgentsTypeOK, RowsOK, NothingReturns
  <2> QED  BY <2>1, <2>2, <2>3, <2>4, <2>5, <2>6, <2>7, <2>8, <2>9, <2>10
           DEF AgentsNext, ReadAgent, ReadEnvironment, ReadSession
<1> QED  BY <1>1, AgentsInvariance, PTL DEF AgentsSpec, ArchiveKept
=============================================================================
