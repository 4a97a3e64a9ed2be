---------------------------- MODULE Orchestrator ----------------------------
(***************************************************************************)
(* The control plane's side of a session: the goroutines that Send starts  *)
(* to Run a user message (internal/sandbox/orchestrator.go), the heartbeat *)
(* watcher with its clean-up goroutines, the reconciliation at boot, and   *)
(* the status events ingested from the runtimes                            *)
(* (internal/api/handler/internal_handler.go), composed with the engine    *)
(* and with the runtime servers in the containers.                         *)
(*                                                                         *)
(* A call of Run is a sequence of steps: every call to the engine, to the  *)
(* database and to the runtime, and every critical section of o.mu, is one *)
(* step, because the goroutines interleave between any two of them.        *)
(***************************************************************************)
EXTENDS RuntimeServer

CONSTANTS
  Faults,      \* what may go wrong in a behaviour, a subset of FaultKinds
  Polite       \* TRUE: clients wait for a session to settle before they send

FaultKinds == {
  "container_exit",    \* a running container exits on its own
  "engine_error",      \* a call to the engine or a read of the database fails
  "engine_timeout",    \* a container is created but the reply is lost
  "forward_timeout",   \* a forwarded payload's reply does not arrive in 10 s
  "report_lost",       \* a status report is given up after its retries
  "heartbeat_lost",    \* a live runtime's heartbeats do not arrive
  "server_crash" }     \* the control plane stops and is started again

ASSUME OrchestratorAssumption == Faults \subseteq FaultKinds /\ Polite \in BOOLEAN

VARIABLES
  server,      \* the control plane process
  pc,          \* pc[r]: where message r's call of Run stands
  sbx,         \* sbx[r]: the sandbox that call holds (ensureSandbox's result)
  sandboxes,   \* o.sandboxes: the container registered for a session
  lapsed,      \* sessions whose entry has had no heartbeat for over 90 s
  stale,       \* checkStaleHeartbeats' list of sessions still to handle
  watcher,     \* where handleStaleSandbox stands
  victim,      \* its local containerID
  reaper,      \* reaper[c]: where the clean-up goroutine for c stands
  leftovers,   \* ReconcileOnBoot's list of containers still to remove
  status,      \* sessions.status in the database
  events       \* the events stored, as <<type, message or container>>

controlVars == <<pc, sbx, sandboxes, lapsed>>
watchVars   == <<stale, watcher, victim, reaper, leftovers>>
storeVars   == <<status, events>>
vars == <<box, runtimeVars, server, controlVars, watchVars, storeVars>>

-----------------------------------------------------------------------------
Waiting      == {"new", "ensure"}
Provisioning == {"create", "deploy", "start", "health", "register", "discard"}
Forwarding   == {"build", "forward"}
Failing      == {"report_error", "forward_failed", "set_idle", "drop"}
InFlight     == {"ensure"} \cup Provisioning \cup Forwarding \cup Failing
Over         == {"done", "lost"}     \* lost: the process died under the call

Steps == {"new"} \cup InFlight \cup Over

EventTypes == {"user.message", "runtime.error", "runtime.stopped",
               "session.status_running", "session.status_idle"}

TypeOK ==
  /\ EngineTypeOK
  /\ RuntimeTypeOK
  /\ server    \in {"up", "boot", "reconcile"}
  /\ pc        \in [Runs -> Steps]
  /\ sbx       \in [Runs -> Runs \cup {NoRun}]
  /\ sandboxes \in [Sessions -> Runs \cup {NoRun}]
  /\ lapsed    \subseteq Sessions
  /\ stale     \subseteq Sessions
  /\ watcher   \in {"scan", "emit", "set_idle"}
  /\ victim    \in Runs \cup {NoRun}
  /\ reaper    \in [Runs -> {"off", "stop", "remove"}]
  /\ leftovers \subseteq Runs
  /\ status    \in [Sessions -> {"idle", "running"}]
  /\ events    \subseteq EventTypes \X Runs

Init ==
  /\ EngineInit
  /\ RuntimeInit
  /\ server    = "up"
  /\ pc        = [r \in Runs |-> "new"]
  /\ sbx       = [r \in Runs |-> NoRun]
  /\ sandboxes = [s \in Sessions |-> NoRun]
  /\ lapsed    = {}
  /\ stale     = {}
  /\ watcher   = "scan"
  /\ victim    = NoRun
  /\ reaper    = [c \in Runs |-> "off"]
  /\ leftovers = {}
  /\ status    = [s \in Sessions |-> "idle"]
  /\ events    = {}

-----------------------------------------------------------------------------
May(fault) == fault \in Faults

Goto(r, from, to) ==
  /\ pc[r] = from
  /\ pc' = [pc EXCEPT ![r] = to]

(* eventRepo.Create; the publication on the event bus is not modelled.     *)
Emit(type, about) == events' = events \cup {<<type, about>>}

(* sessionRepo.UpdateStatus overwrites whatever is there.                  *)
UpdateStatus(s, st) == status' = [status EXCEPT ![s] = st]

(* What a client can see of message r's end: the end of its turn, an error *)
(* or the news that the sandbox that took it has stopped.                  *)
Answered(r) ==
  \/ <<"session.status_idle", r>> \in events
  \/ <<"runtime.error", r>> \in events
  \/ sbx[r] # NoRun /\ <<"runtime.stopped", sbx[r]>> \in events

(* A polite client sends to an idle session whose messages have all been   *)
(* answered; so late, that their calls of Run have ended.                  *)
Settled(s) ==
  /\ status[s] = "idle"
  /\ \A r \in Runs : (SessionOf[r] = s /\ pc[r] # "new") => Answered(r) /\ pc[r] \in Over

(* POST /v1/sessions/<s>/events with a user.message: store it, then go Run *)
Send(r) ==
  /\ server = "up"
  /\ Polite => Settled(SessionOf[r])
  /\ Goto(r, "new", "ensure")
  /\ Emit("user.message", r)
  /\ UNCHANGED <<box, runtimeVars, server, sbx, sandboxes, lapsed, watchVars, status>>

(* ensureSandbox: take the registered sandbox or provision one.  The lock  *)
(* is released before provision starts.                                    *)
EnsureSandbox(r) ==
  LET c == sandboxes[SessionOf[r]] IN
  /\ IF c # NoRun
     THEN Goto(r, "ensure", "build") /\ sbx' = [sbx EXCEPT ![r] = c]
     ELSE Goto(r, "ensure", "create") /\ sbx' = sbx
  /\ UNCHANGED <<box, runtimeVars, server, sandboxes, lapsed, watchVars, storeVars>>

-----------------------------------------------------------------------------
(* provision: the session, its environment and files are read, and the     *)
(* container is created under the session's name.                          *)
Create(r) ==
  /\ \/ Goto(r, "create", "deploy") /\ CreateContainer(r)
     \/ /\ May("engine_timeout")
        /\ Goto(r, "create", "report_error") /\ CreateContainer(r)
     \/ /\ NameTaken(SessionOf[r]) \/ May("engine_error")
        /\ Goto(r, "create", "report_error")
        /\ box' = box
  /\ UNCHANGED <<runtimeVars, server, sbx, sandboxes, lapsed, watchVars, storeVars>>

(* CopyToContainer, once for the configuration and once for file mounts.   *)
Deploy(r) ==
  /\ \/ Goto(r, "deploy", "start")
     \/ May("engine_error") /\ Goto(r, "deploy", "discard")
  /\ UNCHANGED <<box, runtimeVars, server, sbx, sandboxes, lapsed, watchVars, storeVars>>

(* The engine may have started the container although Start, which also    *)
(* inspects it, returns an error.                                          *)
Start(r) ==
  /\ \/ Goto(r, "start", "health") /\ StartContainer(r)
     \/ /\ May("engine_error")
        /\ Goto(r, "start", "discard")
        /\ StartContainer(r) \/ box' = box
  /\ UNCHANGED <<runtimeVars, server, sbx, sandboxes, lapsed, watchVars, storeVars>>

(* waitForHealth polls until the runtime answers or the deadline passes.   *)
WaitForHealth(r) ==
  /\ \/ box[r] = "up" /\ Goto(r, "health", "register")
     \/ /\ box[r] # "up" \/ May("engine_error")
        /\ Goto(r, "health", "discard")
  /\ UNCHANGED <<box, runtimeVars, server, sbx, sandboxes, lapsed, watchVars, storeVars>>

(* The sandbox is entered in the map, over whatever is there.              *)
Register(r) ==
  /\ Goto(r, "register", "build")
  /\ sandboxes' = [sandboxes EXCEPT ![SessionOf[r]] = r]
  /\ lapsed' = lapsed \ {SessionOf[r]}
  /\ sbx' = [sbx EXCEPT ![r] = r]
  /\ UNCHANGED <<box, runtimeVars, server, watchVars, storeVars>>

(* A provision that fails after Create removes its container, best effort. *)
Discard(r) ==
  /\ Goto(r, "discard", "report_error")
  /\ \/ RemoveContainer(r)
     \/ May("engine_error") /\ UNCHANGED <<box, runtimeVars>>
  /\ UNCHANGED <<server, sbx, sandboxes, lapsed, watchVars, storeVars>>

(* Mutant: a failed provision would only be logged.                        *)
ReportErrorQuietly(r) ==
  /\ Goto(r, "report_error", "done")
  /\ UNCHANGED <<box, runtimeVars, server, sbx, sandboxes, lapsed, watchVars, storeVars>>

(* Run reports that no sandbox could be provisioned.                       *)
ReportError(r) ==
  /\ Goto(r, "report_error", "done")
  /\ Emit("runtime.error", r)
  /\ UNCHANGED <<box, runtimeVars, server, sbx, sandboxes, lapsed, watchVars, status>>

-----------------------------------------------------------------------------
(* buildForwardPayload: a failure ends Run without an event.               *)
BuildPayload(r) ==
  /\ \/ Goto(r, "build", "forward")
     \/ May("engine_error") /\ Goto(r, "build", "done")
  /\ UNCHANGED <<box, runtimeVars, server, sbx, sandboxes, lapsed, watchVars, storeVars>>

(* forwardPayload to the sandbox this call holds, registered or not.       *)
Forward(r) ==
  LET c == sbx[r] IN
  /\ pc[r] = "forward"
  /\ \/ Goto(r, "forward", "done") /\ HandleEvents(c, r)
     \/ /\ May("forward_timeout")
        /\ Goto(r, "forward", "forward_failed") /\ HandleEvents(c, r)
     \/ /\ box[c] # "up" \/ Busy(c) \/ May("forward_timeout")
        /\ Goto(r, "forward", "forward_failed")
        /\ UNCHANGED runtimeVars
  /\ UNCHANGED <<box, server, sbx, sandboxes, lapsed, watchVars, storeVars>>

(* Mutant: a failed forward would set the status and emit nothing.         *)
ForwardFailedQuietly(r) ==
  /\ Goto(r, "forward_failed", "set_idle")
  /\ UNCHANGED <<box, runtimeVars, server, sbx, sandboxes, lapsed, watchVars, storeVars>>

(* The three steps of Run's error path after forwardPayload: the event,    *)
(* the status, and the entry of the session, whatever container it is for. *)
ForwardFailed(r) ==
  /\ Goto(r, "forward_failed", "set_idle")
  /\ Emit("runtime.error", r)
  /\ UNCHANGED <<box, runtimeVars, server, sbx, sandboxes, lapsed, watchVars, status>>

SetIdle(r) ==
  /\ Goto(r, "set_idle", "drop")
  /\ UpdateStatus(SessionOf[r], "idle")
  /\ UNCHANGED <<box, runtimeVars, server, sbx, sandboxes, lapsed, watchVars, events>>

DropSandbox(r) ==
  /\ Goto(r, "drop", "done")
  /\ sandboxes' = [sandboxes EXCEPT ![SessionOf[r]] = NoRun]
  /\ lapsed' = lapsed \ {SessionOf[r]}
  /\ UNCHANGED <<box, runtimeVars, server, sbx, watchVars, storeVars>>

RunStep(r) ==
  \/ EnsureSandbox(r)
  \/ Create(r) \/ Deploy(r) \/ Start(r) \/ WaitForHealth(r) \/ Register(r)
  \/ Discard(r) \/ ReportError(r)
  \/ BuildPayload(r) \/ Forward(r)
  \/ ForwardFailed(r) \/ SetIdle(r) \/ DropSandbox(r)

-----------------------------------------------------------------------------
(* RecordHeartbeat: the runtime's token names the session, not a container *)
Heartbeat(c) ==
  /\ server = "up"
  /\ box[c] = "up"
  /\ SessionOf[c] \in lapsed
  /\ lapsed' = lapsed \ {SessionOf[c]}
  /\ UNCHANGED <<box, runtimeVars, server, pc, sbx, sandboxes, watchVars, storeVars>>

(* Time passes: an entry without heartbeats exceeds the threshold.  While  *)
(* heartbeats arrive every 30 s it does not, unless they are lost.         *)
Lapse(s) ==
  /\ server = "up"
  /\ sandboxes[s] # NoRun
  /\ s \notin lapsed
  /\ box[sandboxes[s]] # "up" \/ May("heartbeat_lost")
  /\ lapsed' = lapsed \cup {s}
  /\ UNCHANGED <<box, runtimeVars, server, pc, sbx, sandboxes, watchVars, storeVars>>

(* checkStaleHeartbeats: a snapshot of the stale sessions, under the lock. *)
CheckStale ==
  /\ server = "up"
  /\ watcher = "scan"
  /\ stale = {}
  /\ lapsed # {}
  /\ stale' = lapsed
  /\ UNCHANGED <<box, runtimeVars, server, controlVars, watcher, victim, reaper, leftovers, storeVars>>

(* Mutant: the entry would be left for the clean-up to delete.             *)
TakeStaleKeeping(s) ==
  /\ watcher = "scan"
  /\ s \in stale
  /\ stale' = stale \ {s}
  /\ IF sandboxes[s] # NoRun /\ s \in lapsed
     THEN victim' = sandboxes[s] /\ watcher' = "emit"
     ELSE UNCHANGED <<victim, watcher>>
  /\ UNCHANGED <<box, runtimeVars, server, controlVars, reaper, leftovers, storeVars>>

(* handleStaleSandbox, first part: check again under the lock, then drop   *)
(* the entry and keep its container id.                                    *)
TakeStale(s) ==
  /\ watcher = "scan"
  /\ s \in stale
  /\ stale' = stale \ {s}
  /\ IF sandboxes[s] # NoRun /\ s \in lapsed
     THEN /\ victim' = sandboxes[s]
          /\ sandboxes' = [sandboxes EXCEPT ![s] = NoRun]
          /\ lapsed' = lapsed \ {s}
          /\ watcher' = "emit"
     ELSE UNCHANGED <<victim, sandboxes, lapsed, watcher>>
  /\ UNCHANGED <<box, runtimeVars, server, pc, sbx, reaper, leftovers, storeVars>>

(* ... then, without the lock, the event, the status, and the clean-up.    *)
EmitStopped ==
  /\ watcher = "emit"
  /\ watcher' = "set_idle"
  /\ Emit("runtime.stopped", victim)
  /\ UNCHANGED <<box, runtimeVars, server, controlVars, stale, victim, reaper, leftovers, status>>

(* Mutant: the status would be left to the next turn.                      *)
SetIdleStaleQuietly ==
  /\ watcher = "set_idle"
  /\ watcher' = "scan"
  /\ reaper' = [reaper EXCEPT ![victim] = "stop"]
  /\ victim' = NoRun
  /\ UNCHANGED <<box, runtimeVars, server, controlVars, stale, leftovers, storeVars>>

SetIdleStale ==
  /\ watcher = "set_idle"
  /\ watcher' = "scan"
  /\ UpdateStatus(SessionOf[victim], "idle")
  /\ reaper' = [reaper EXCEPT ![victim] = "stop"]
  /\ victim' = NoRun
  /\ UNCHANGED <<box, runtimeVars, server, controlVars, stale, leftovers, events>>

WatchStep == CheckStale \/ (\E s \in Sessions : TakeStale(s)) \/ EmitStopped \/ SetIdleStale

(* The clean-up goroutine: Stop and Remove, errors ignored.                *)
ReapStop(c) ==
  /\ reaper[c] = "stop"
  /\ reaper' = [reaper EXCEPT ![c] = "remove"]
  /\ \/ StopContainer(c)
     \/ May("engine_error") /\ UNCHANGED <<box, runtimeVars>>
  /\ UNCHANGED <<server, controlVars, stale, watcher, victim, leftovers, storeVars>>

ReapRemove(c) ==
  /\ reaper[c] = "remove"
  /\ reaper' = [reaper EXCEPT ![c] = "off"]
  /\ \/ RemoveContainer(c)
     \/ May("engine_error") /\ UNCHANGED <<box, runtimeVars>>
  /\ UNCHANGED <<server, controlVars, stale, watcher, victim, leftovers, storeVars>>

Reap(c) == ReapStop(c) \/ ReapRemove(c)

-----------------------------------------------------------------------------
(* Mutant: only session.status_running would change the status.            *)
IngestRunningOnly(c, type, st) ==
  \/ /\ server = "up"
     /\ Emit(type, turn[c])
     /\ status' = IF st = "running" THEN [status EXCEPT ![SessionOf[c]] = st] ELSE status
  \/ /\ server # "up" \/ May("report_lost")
     /\ UNCHANGED storeVars

(* IngestEvents, for a status report of the runtime in container c: stored *)
(* and the status overwritten, or given up by the reporter.                *)
Ingest(c, type, st) ==
  \/ /\ server = "up"
     /\ Emit(type, turn[c])
     /\ UpdateStatus(SessionOf[c], st)
  \/ /\ server # "up" \/ May("report_lost")
     /\ UNCHANGED storeVars

ReportRunning(c) ==
  /\ phase[c] = "accepted"
  /\ phase' = [phase EXCEPT ![c] = "running"]
  /\ Ingest(c, "session.status_running", "running")
  /\ UNCHANGED <<box, turn, server, controlVars, watchVars>>

ReportIdle(c) ==
  /\ phase[c] = "running"
  /\ phase' = [phase EXCEPT ![c] = "idled"]
  /\ Ingest(c, "session.status_idle", "idle")
  /\ UNCHANGED <<box, turn, server, controlVars, watchVars>>

FinishTurn(c) ==
  /\ ClearRunning(c)
  /\ UNCHANGED <<box, server, controlVars, watchVars, storeVars>>

TurnStep(c) == ReportRunning(c) \/ ReportIdle(c) \/ FinishTurn(c)

(* The runtime process ends, and its container with it.                    *)
ContainerExit(c) ==
  /\ May("container_exit")
  /\ box[c] = "up"
  /\ StopContainer(c)
  /\ UNCHANGED <<server, controlVars, watchVars, storeVars>>

-----------------------------------------------------------------------------
(* The control plane stops: the map and every goroutine are gone, while    *)
(* the containers and the database stay as they are.                       *)
Crash ==
  /\ May("server_crash")
  /\ server = "up"
  /\ server'    = "boot"
  /\ pc'        = [r \in Runs |-> IF pc[r] \in InFlight THEN "lost" ELSE pc[r]]
  /\ sandboxes' = [s \in Sessions |-> NoRun]
  /\ lapsed'    = {}
  /\ stale'     = {}
  /\ watcher'   = "scan"
  /\ victim'    = NoRun
  /\ reaper'    = [c \in Runs |-> "off"]
  /\ UNCHANGED <<box, runtimeVars, sbx, leftovers, storeVars>>

(* ReconcileOnBoot lists the sandbox containers, running or not; when that *)
(* fails the server starts without having removed any.                     *)
ListLeftovers ==
  /\ server = "boot"
  /\ \/ server' = "reconcile" /\ leftovers' = {c \in Runs : Present(c)}
     \/ May("engine_error") /\ server' = "up" /\ leftovers' = {}
  /\ UNCHANGED <<box, runtimeVars, controlVars, stale, watcher, victim, reaper, storeVars>>

RemoveLeftover(c) ==
  /\ server = "reconcile"
  /\ c \in leftovers
  /\ leftovers' = leftovers \ {c}
  /\ \/ RemoveContainer(c)
     \/ May("engine_error") /\ StopContainer(c)
     \/ May("engine_error") /\ UNCHANGED <<box, runtimeVars>>
  /\ UNCHANGED <<server, controlVars, stale, watcher, victim, reaper, storeVars>>

Serve ==
  /\ server = "reconcile"
  /\ leftovers = {}
  /\ server' = "up"
  /\ UNCHANGED <<box, runtimeVars, controlVars, watchVars, storeVars>>

Boot == ListLeftovers \/ (\E c \in Runs : RemoveLeftover(c)) \/ Serve

-----------------------------------------------------------------------------
Next ==
  \/ \E r \in Runs : Send(r) \/ RunStep(r)
  \/ \E s \in Sessions : Lapse(s)
  \/ \E c \in Runs : Heartbeat(c) \/ TurnStep(c) \/ ContainerExit(c) \/ Reap(c)
  \/ WatchStep
  \/ Crash \/ Boot

Spec == Init /\ [][Next]_vars

(* Goroutines are scheduled and calls return; the watcher's ticker ticks;  *)
(* the silence of a dead runtime lasts; turns end, being bounded.          *)
Fairness ==
  /\ \A r \in Runs : WF_vars(RunStep(r)) /\ WF_vars(TurnStep(r)) /\ WF_vars(Reap(r))
  /\ \A s \in Sessions : WF_vars(Lapse(s))
  /\ WF_vars(WatchStep)
  /\ WF_vars(Boot)

FairSpec == Spec /\ Fairness

-----------------------------------------------------------------------------
(* Safety.                                                                 *)

(* What the map says exists: the container of a registered sandbox belongs *)
(* to the session and has been started, and none of those who remove       *)
(* containers has taken it away: not a provision that failed, not a        *)
(* clean-up goroutine that outlived its entry, not the reconciliation.     *)
RegisteredSandboxExists ==
  \A s \in Sessions :
    LET c == sandboxes[s] IN
    c # NoRun => SessionOf[c] = s /\ box[c] \in {"up", "exited"}

(* Although ensureSandbox lets two messages provision at once, at most one *)
(* turn of a session is in progress, in whatever container, and it works   *)
(* on a message of that session.                                           *)
ExclusiveTurns ==
  \A c, d \in Runs :
    /\ turn[c] # NoRun => SessionOf[turn[c]] = SessionOf[c]
    /\ (turn[c] # NoRun /\ turn[d] # NoRun /\ SessionOf[c] = SessionOf[d]) => c = d

(* provision enters its sandbox in the map without a look at what is there *)
(* (the check was made before the lock was released): it never replaces    *)
(* the entry of another container.                                         *)
RegisterReplacesNothing ==
  [][\A s \in Sessions :
       sandboxes[s] # NoRun => sandboxes'[s] \in {sandboxes[s], NoRun}]_vars

(* When nothing fails, a session shown as running has a turn in progress   *)
(* that has announced itself and has not yet announced its end, whatever   *)
(* the refused messages wrote in between.                                  *)
RunningIsTrue ==
  \A s \in Sessions : status[s] = "running" =>
    \E c \in Runs : SessionOf[c] = s /\ phase[c] = "running"

(* The control plane implements the promise of SessionTurns.               *)
BeforeForward == Waiting \cup Provisioning \cup Forwarding

fate == [r \in Runs |->
           IF \E c \in Runs : turn[c] = r THEN "executing"
           ELSE IF pc[r] \in BeforeForward THEN "waiting" ELSE "over"]

Turns == INSTANCE SessionTurns WITH fate <- fate

TurnsSpec == Turns!Spec

-----------------------------------------------------------------------------
(* The inductive invariant behind the safety properties.                   *)

(* The engine's names keep a session to one container at a time.           *)
OneContainer ==
  \A c, d \in Runs :
    Present(c) /\ Present(d) /\ SessionOf[c] = SessionOf[d] => c = d

(* A container is what the run that creates it has made of it so far.      *)
BoxFollowsRun ==
  \A r \in Runs :
    /\ pc[r] \in Waiting \cup {"create"} => box[r] = "none"
    /\ pc[r] \in {"deploy", "start"} => box[r] = "created"
    /\ pc[r] \in {"health", "register"} => box[r] \in {"up", "exited"}

(* Until then nobody else has a claim on it: not the map, not the watcher, *)
(* not a clean-up goroutine.                                               *)
ProvisionedUnclaimed ==
  \A c \in Runs :
    pc[c] \in Waiting \cup Provisioning =>
      /\ \A s \in Sessions : sandboxes[s] # c
      /\ victim # c
      /\ reaper[c] = "off"

RegisteredUnclaimed ==
  \A s \in Sessions :
    sandboxes[s] # NoRun => victim # sandboxes[s] /\ reaper[sandboxes[s]] = "off"

WatcherHasVictim == watcher # "scan" => victim # NoRun

(* A call of Run holds a sandbox of its own session.                       *)
HoldsOwnSandbox ==
  \A r \in Runs :
    /\ pc[r] \in Forwarding => sbx[r] # NoRun
    /\ sbx[r] # NoRun => SessionOf[sbx[r]] = SessionOf[r]

(* A turn runs in a running container, for a message that is past its      *)
(* forward and so cannot start another one.                                *)
TurnsAreForwarded ==
  \A c \in Runs :
    /\ turn[c] # NoRun =>
         /\ box[c] = "up"
         /\ SessionOf[turn[c]] = SessionOf[c]
         /\ pc[turn[c]] \notin BeforeForward
    /\ phase[c] # "off" => turn[c] # NoRun

(* While the server is down, or reconciling, it has no memory.             *)
DownIsEmpty ==
  server # "up" =>
    /\ \A s \in Sessions : sandboxes[s] = NoRun
    /\ \A r \in Runs : pc[r] \notin InFlight /\ reaper[r] = "off"
    /\ watcher = "scan" /\ victim = NoRun /\ stale = {}

IInv ==
  /\ TypeOK
  /\ RegisteredSandboxExists
  /\ OneContainer
  /\ BoxFollowsRun
  /\ ProvisionedUnclaimed
  /\ RegisteredUnclaimed
  /\ WatcherHasVictim
  /\ HoldsOwnSandbox
  /\ TurnsAreForwarded
  /\ DownIsEmpty

-----------------------------------------------------------------------------
(* Liveness.                                                               *)

(* Nobody is left without an answer: every message stored by Send is       *)
(* Answered, also when its sandbox dies under it.  (Events stay stored, so *)
(* this is user.message ~> Answered, in a form that is quicker to check.)  *)
EveryMessageAnswered ==
  \A r \in Runs : []<>(<<"user.message", r>> \in events => Answered(r))

(* A session shown as running does not stay so for ever.                   *)
RunningSettles ==
  \A s \in Sessions : []<>(status[s] = "idle")

-----------------------------------------------------------------------------
(* What the comments of orchestrator.go say and the code does not do.      *)

ForwardHasFailed(r) == pc[r] = "done" /\ sbx[r] # NoRun /\ <<"runtime.error", r>> \in events

CreateRefused(r) == pc[r] = "create" /\ pc'[r] = "report_error"

(* "Remove stale sandbox so next attempt provisions fresh": when a later   *)
(* message is refused a container, it is not because the sandbox that      *)
(* could not be forwarded to still holds the session's container name.     *)
NextAttemptProvisionsFresh ==
  [][\A q, r \in Runs :
       (ForwardHasFailed(q) /\ CreateRefused(r) /\ SessionOf[q] = SessionOf[r])
         => ~Present(sbx[q])]_vars

(* "Remove stale sandbox": what is dropped after a failed forward is the   *)
(* sandbox the forward failed on.                                          *)
DropsTheFailedSandbox ==
  [][\A r \in Runs : (pc[r] = "drop" /\ pc'[r] = "done")
       => sandboxes[SessionOf[r]] \in {NoRun, sbx[r]}]_vars
=============================================================================
