---------------------------- MODULE RuntimeServer ----------------------------
(***************************************************************************)
(* The runtime server inside a sandbox container                           *)
(* (internal/runtime/server.go) and the outline of the turn it starts      *)
(* (internal/runtime/loop/loop.go): status_running is reported first,      *)
(* status_idle last, and only then is the running flag cleared.            *)
(* What happens inside a turn is the subject of module AgentLoop.          *)
(***************************************************************************)
EXTENDS Engine

VARIABLES
  turn,        \* turn[c]: the message c's agent loop works on: NoRun iff
               \* the server's running flag is false
  phase        \* phase[c]: how far that turn is

runtimeVars == <<turn, phase>>

Phases == {"off", "accepted", "running", "idled"}

RuntimeTypeOK ==
  /\ turn  \in [Runs -> Runs \cup {NoRun}]
  /\ phase \in [Runs -> Phases]

RuntimeInit ==
  /\ turn  = [c \in Runs |-> NoRun]
  /\ phase = [c \in Runs |-> "off"]

(* HandleEvents answers 409 while the running flag is set ...              *)
Busy(c) == turn[c] # NoRun

(* Mutant: the flag would be set without a look at it.                     *)
HandleEventsAnyway(c, r) ==
  /\ box[c] = "up"
  /\ turn'  = [turn EXCEPT ![c] = r]
  /\ phase' = [phase EXCEPT ![c] = "accepted"]

(* ... and otherwise sets it and starts the agent loop on the payload (the *)
(* answer "no_messages" is left out: Send stores the message before it     *)
(* starts the run, so that no payload is without one).                     *)
HandleEvents(c, r) ==
  /\ box[c] = "up"
  /\ ~Busy(c)
  /\ turn'  = [turn EXCEPT ![c] = r]
  /\ phase' = [phase EXCEPT ![c] = "accepted"]

(* Mutant: the flag would be cleared before the turn's end is reported.    *)
ClearRunningEarly(c) ==
  /\ phase[c] = "running"
  /\ turn'  = [turn EXCEPT ![c] = NoRun]
  /\ phase' = phase

(* The deferred function of HandleEvents' goroutine clears the flag, after *)
(* RunWithInput has reported session.status_idle and returned.             *)
ClearRunning(c) ==
  /\ phase[c] = "idled"
  /\ turn'  = [turn EXCEPT ![c] = NoRun]
  /\ phase' = [phase EXCEPT ![c] = "off"]

(* The container stops or is removed: its processes, a turn included, die. *)
KillRuntime(c) ==
  /\ turn'  = [turn EXCEPT ![c] = NoRun]
  /\ phase' = [phase EXCEPT ![c] = "off"]

(* POST /containers/<id>/stop ends a running container.                    *)
StopContainer(c) ==
  /\ box' = [box EXCEPT ![c] = IF @ = "up" THEN "exited" ELSE @]
  /\ KillRuntime(c)

(* DELETE /containers/<id>?force=true, whatever state the container is in. *)
RemoveContainer(c) ==
  /\ Present(c)
  /\ box' = [box EXCEPT ![c] = "gone"]
  /\ KillRuntime(c)
=============================================================================
