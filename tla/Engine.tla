------------------------------- MODULE Engine -------------------------------
(***************************************************************************)
(* The Docker engine as internal/sandbox/docker.go drives it.              *)
(*                                                                         *)
(* The orchestrator creates at most one container per call of Run, so a    *)
(* container needs no identity of its own: container c is the one that the *)
(* run of message c created.  Engine ids are never reused, and neither are *)
(* these.  Every container of session s is called "sandbox-<s>", and the   *)
(* engine refuses a second container of that name for as long as the first *)
(* one exists, whether it runs or not.                                     *)
(***************************************************************************)
CONSTANTS
  Sessions,    \* the sessions of the control plane
  Runs,        \* the user messages, each with the call of Run it triggers
  SessionOf,   \* the session a message is sent to
  NoRun        \* "no message" and "no container"

ASSUME RunsAssumption ==
  /\ SessionOf \in [Runs -> Sessions]
  /\ NoRun \notin Runs

VARIABLE
  box          \* box[c]: what the engine knows of container c

BoxStates == {"none", "created", "up", "exited", "gone"}

EngineTypeOK == box \in [Runs -> BoxStates]

EngineInit == box = [c \in Runs |-> "none"]

(* The container exists and holds its name. *)
Present(c) == box[c] \in {"created", "up", "exited"}

(* Mutant: an exited container would free its name.                        *)
NameTakenWhileUp(s) == \E c \in Runs : SessionOf[c] = s /\ box[c] \in {"created", "up"}

NameTaken(s) == \E c \in Runs : SessionOf[c] = s /\ Present(c)

(* Mutant: containers would be created without a name.                     *)
CreateUnnamed(c) ==
  /\ box[c] = "none"
  /\ box' = [box EXCEPT ![c] = "created"]

(* POST /containers/create?name=sandbox-<s>: a taken name is answered 409. *)
CreateContainer(c) ==
  /\ box[c] = "none"
  /\ ~NameTaken(SessionOf[c])
  /\ box' = [box EXCEPT ![c] = "created"]

(* POST /containers/<id>/start. *)
StartContainer(c) ==
  /\ box[c] = "created"
  /\ box' = [box EXCEPT ![c] = "up"]
=============================================================================
