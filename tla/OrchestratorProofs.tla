------------------------- MODULE OrchestratorProofs -------------------------
(***************************************************************************)
(* What holds of the control plane for any sets of sessions and messages   *)
(* and any combination of faults.                                          *)
(*                                                                         *)
(* The argument.  The engine's names leave a session at most one container *)
(* (OneContainer), a container is claimed by its run, then by the map,     *)
(* then by the watcher, then by a clean-up goroutine, never by two of them *)
(* (ProvisionedUnclaimed, RegisteredUnclaimed), and a turn lives in a      *)
(* running container and works on a message that is past its forward       *)
(* (TurnsAreForwarded).  IInv is the conjunction of these facts.  There is *)
(* one lemma per action and in it one step per conjunct that the action    *)
(* can disturb; the last step has the conjuncts it leaves alone.           *)
(***************************************************************************)
EXTENDS Orchestrator, TLAPS

USE RunsAssumption
USE DEF Waiting, Provisioning, Forwarding, Failing, InFlight, Over, Steps,
        BeforeForward, Present, Goto

-----------------------------------------------------------------------------
(* A message is stored and its Run starts. *)
LEMMA SendStep == ASSUME IInv, NEW r \in Runs, Send(r) PROVE IInv'
<1> USE DEF IInv, Send, Emit, runtimeVars, watchVars
<1>1. TypeOK' BY DEF TypeOK, EngineTypeOK, RuntimeTypeOK, BoxStates, Phases,
      EventTypes
<1>2. BoxFollowsRun' BY DEF BoxFollowsRun, TypeOK, EngineTypeOK, RuntimeTypeOK
<1>3. ProvisionedUnclaimed' BY DEF ProvisionedUnclaimed, TypeOK, EngineTypeOK,
      RuntimeTypeOK
<1>4. HoldsOwnSandbox' BY DEF HoldsOwnSandbox, TypeOK, EngineTypeOK,
      RuntimeTypeOK
<1>5. TurnsAreForwarded' BY DEF TurnsAreForwarded, TypeOK, EngineTypeOK,
      RuntimeTypeOK
<1>6. DownIsEmpty' BY DEF DownIsEmpty, TypeOK, EngineTypeOK, RuntimeTypeOK
<1>7. QED BY <1>1, <1>2, <1>3, <1>4, <1>5, <1>6
    DEF RegisteredSandboxExists, OneContainer, RegisteredUnclaimed,
      WatcherHasVictim

(* The registered sandbox is of the run's own session. *)
LEMMA EnsureSandboxStep == ASSUME IInv, NEW r \in Runs, EnsureSandbox(r) PROVE IInv'
<1> USE DEF IInv, EnsureSandbox, runtimeVars, storeVars, watchVars
<1>1. TypeOK' BY DEF TypeOK, EngineTypeOK, RuntimeTypeOK, BoxStates, Phases,
      EventTypes
<1>2. BoxFollowsRun' BY DEF BoxFollowsRun, TypeOK, EngineTypeOK, RuntimeTypeOK
<1>3. ProvisionedUnclaimed' BY DEF ProvisionedUnclaimed, TypeOK, EngineTypeOK,
      RuntimeTypeOK
<1>4. HoldsOwnSandbox' BY DEF HoldsOwnSandbox, RegisteredSandboxExists, TypeOK,
      EngineTypeOK, RuntimeTypeOK
<1>5. TurnsAreForwarded' BY DEF TurnsAreForwarded, TypeOK, EngineTypeOK,
      RuntimeTypeOK
<1>6. DownIsEmpty' BY DEF DownIsEmpty, TypeOK, EngineTypeOK, RuntimeTypeOK
<1>7. QED BY <1>1, <1>2, <1>3, <1>4, <1>5, <1>6
    DEF RegisteredSandboxExists, OneContainer, RegisteredUnclaimed,
      WatcherHasVictim

(* The new container is the session's only one: its name was free. *)
LEMMA CreateStep == ASSUME IInv, NEW r \in Runs, Create(r) PROVE IInv'
<1> USE DEF IInv, Create, CreateContainer, May, NameTaken, runtimeVars,
      storeVars, watchVars
<1>1. TypeOK' BY DEF TypeOK, EngineTypeOK, RuntimeTypeOK, BoxStates, Phases,
      EventTypes
<1>2. RegisteredSandboxExists' BY DEF RegisteredSandboxExists, TypeOK,
      EngineTypeOK, RuntimeTypeOK
<1>3. OneContainer' BY DEF OneContainer, TypeOK, EngineTypeOK, RuntimeTypeOK
<1>4. BoxFollowsRun' BY DEF BoxFollowsRun, TypeOK, EngineTypeOK, RuntimeTypeOK
<1>5. ProvisionedUnclaimed' BY DEF ProvisionedUnclaimed, TypeOK, EngineTypeOK,
      RuntimeTypeOK
<1>6. HoldsOwnSandbox' BY DEF HoldsOwnSandbox, TypeOK, EngineTypeOK,
      RuntimeTypeOK
<1>7. TurnsAreForwarded' BY DEF TurnsAreForwarded, TypeOK, EngineTypeOK,
      RuntimeTypeOK
<1>8. DownIsEmpty' BY DEF DownIsEmpty, TypeOK, EngineTypeOK, RuntimeTypeOK
<1>9. QED BY <1>1, <1>2, <1>3, <1>4, <1>5, <1>6, <1>7, <1>8
    DEF RegisteredUnclaimed, WatcherHasVictim

(* Only the run moves on. *)
LEMMA DeployStep == ASSUME IInv, NEW r \in Runs, Deploy(r) PROVE IInv'
<1> USE DEF IInv, Deploy, May, runtimeVars, storeVars, watchVars
<1>1. TypeOK' BY DEF TypeOK, EngineTypeOK, RuntimeTypeOK, BoxStates, Phases,
      EventTypes
<1>2. BoxFollowsRun' BY DEF BoxFollowsRun, TypeOK, EngineTypeOK, RuntimeTypeOK
<1>3. ProvisionedUnclaimed' BY DEF ProvisionedUnclaimed, TypeOK, EngineTypeOK,
      RuntimeTypeOK
<1>4. HoldsOwnSandbox' BY DEF HoldsOwnSandbox, TypeOK, EngineTypeOK,
      RuntimeTypeOK
<1>5. TurnsAreForwarded' BY DEF TurnsAreForwarded, TypeOK, EngineTypeOK,
      RuntimeTypeOK
<1>6. DownIsEmpty' BY DEF DownIsEmpty, TypeOK, EngineTypeOK, RuntimeTypeOK
<1>7. QED BY <1>1, <1>2, <1>3, <1>4, <1>5, <1>6
    DEF RegisteredSandboxExists, OneContainer, RegisteredUnclaimed,
      WatcherHasVictim

(* The container the run created is started. *)
LEMMA StartStep == ASSUME IInv, NEW r \in Runs, Start(r) PROVE IInv'
<1> USE DEF IInv, Start, May, StartContainer, runtimeVars, storeVars, watchVars
<1>1. TypeOK' BY DEF TypeOK, EngineTypeOK, RuntimeTypeOK, BoxStates, Phases,
      EventTypes
<1>2. RegisteredSandboxExists' BY DEF RegisteredSandboxExists, TypeOK,
      EngineTypeOK, RuntimeTypeOK
<1>3. OneContainer' BY DEF OneContainer, TypeOK, EngineTypeOK, RuntimeTypeOK
<1>4. BoxFollowsRun' BY DEF BoxFollowsRun, TypeOK, EngineTypeOK, RuntimeTypeOK
<1>5. ProvisionedUnclaimed' BY DEF ProvisionedUnclaimed, TypeOK, EngineTypeOK,
      RuntimeTypeOK
<1>6. HoldsOwnSandbox' BY DEF HoldsOwnSandbox, TypeOK, EngineTypeOK,
      RuntimeTypeOK
<1>7. TurnsAreForwarded' BY DEF TurnsAreForwarded, TypeOK, EngineTypeOK,
      RuntimeTypeOK
<1>8. DownIsEmpty' BY DEF DownIsEmpty, TypeOK, EngineTypeOK, RuntimeTypeOK
<1>9. QED BY <1>1, <1>2, <1>3, <1>4, <1>5, <1>6, <1>7, <1>8
    DEF RegisteredUnclaimed, WatcherHasVictim

(* Only the run moves on. *)
LEMMA WaitForHealthStep == ASSUME IInv, NEW r \in Runs, WaitForHealth(r) PROVE IInv'
<1> USE DEF IInv, WaitForHealth, May, runtimeVars, storeVars, watchVars
<1>1. TypeOK' BY DEF TypeOK, EngineTypeOK, RuntimeTypeOK, BoxStates, Phases,
      EventTypes
<1>2. BoxFollowsRun' BY DEF BoxFollowsRun, TypeOK, EngineTypeOK, RuntimeTypeOK
<1>3. ProvisionedUnclaimed' BY DEF ProvisionedUnclaimed, TypeOK, EngineTypeOK,
      RuntimeTypeOK
<1>4. HoldsOwnSandbox' BY DEF HoldsOwnSandbox, TypeOK, EngineTypeOK,
      RuntimeTypeOK
<1>5. TurnsAreForwarded' BY DEF TurnsAreForwarded, TypeOK, EngineTypeOK,
      RuntimeTypeOK
<1>6. DownIsEmpty' BY DEF DownIsEmpty, TypeOK, EngineTypeOK, RuntimeTypeOK
<1>7. QED BY <1>1, <1>2, <1>3, <1>4, <1>5, <1>6
    DEF RegisteredSandboxExists, OneContainer, RegisteredUnclaimed,
      WatcherHasVictim

(* The container entered in the map is up and has no other claim on it. *)
LEMMA RegisterStep == ASSUME IInv, NEW r \in Runs, Register(r) PROVE IInv'
<1> USE DEF IInv, Register, runtimeVars, storeVars, watchVars
<1>1. TypeOK' BY DEF TypeOK, EngineTypeOK, RuntimeTypeOK, BoxStates, Phases,
      EventTypes
<1>2. RegisteredSandboxExists' BY DEF RegisteredSandboxExists, BoxFollowsRun,
      TypeOK, EngineTypeOK, RuntimeTypeOK
<1>3. BoxFollowsRun' BY DEF BoxFollowsRun, TypeOK, EngineTypeOK, RuntimeTypeOK
<1>4. ProvisionedUnclaimed' BY DEF ProvisionedUnclaimed, TypeOK, EngineTypeOK,
      RuntimeTypeOK
<1>5. RegisteredUnclaimed' BY DEF RegisteredUnclaimed, ProvisionedUnclaimed,
      TypeOK, EngineTypeOK, RuntimeTypeOK
<1>6. HoldsOwnSandbox' BY DEF HoldsOwnSandbox, TypeOK, EngineTypeOK,
      RuntimeTypeOK
<1>7. TurnsAreForwarded' BY DEF TurnsAreForwarded, TypeOK, EngineTypeOK,
      RuntimeTypeOK
<1>8. DownIsEmpty' BY DEF DownIsEmpty, TypeOK, EngineTypeOK, RuntimeTypeOK
<1>9. QED BY <1>1, <1>2, <1>3, <1>4, <1>5, <1>6, <1>7, <1>8
    DEF OneContainer, WatcherHasVictim

(* The container removed is one that nobody but its run knows of. *)
LEMMA DiscardStep == ASSUME IInv, NEW r \in Runs, Discard(r) PROVE IInv'
<1> USE DEF IInv, Discard, KillRuntime, May, RemoveContainer, runtimeVars,
      storeVars, watchVars
<1>1. TypeOK' BY DEF TypeOK, EngineTypeOK, RuntimeTypeOK, BoxStates, Phases,
      EventTypes
<1>2. RegisteredSandboxExists' BY DEF RegisteredSandboxExists,
      ProvisionedUnclaimed, TypeOK, EngineTypeOK, RuntimeTypeOK
<1>3. OneContainer' BY DEF OneContainer, TypeOK, EngineTypeOK, RuntimeTypeOK
<1>4. BoxFollowsRun' BY DEF BoxFollowsRun, TypeOK, EngineTypeOK, RuntimeTypeOK
<1>5. ProvisionedUnclaimed' BY DEF ProvisionedUnclaimed, TypeOK, EngineTypeOK,
      RuntimeTypeOK
<1>6. HoldsOwnSandbox' BY DEF HoldsOwnSandbox, TypeOK, EngineTypeOK,
      RuntimeTypeOK
<1>7. TurnsAreForwarded' BY DEF TurnsAreForwarded, TypeOK, EngineTypeOK,
      RuntimeTypeOK
<1>8. DownIsEmpty' BY DEF DownIsEmpty, TypeOK, EngineTypeOK, RuntimeTypeOK
<1>9. QED BY <1>1, <1>2, <1>3, <1>4, <1>5, <1>6, <1>7, <1>8
    DEF RegisteredUnclaimed, WatcherHasVictim

(* Only an event is stored. *)
LEMMA ReportErrorStep == ASSUME IInv, NEW r \in Runs, ReportError(r) PROVE IInv'
<1> USE DEF IInv, ReportError, Emit, runtimeVars, watchVars
<1>1. TypeOK' BY DEF TypeOK, EngineTypeOK, RuntimeTypeOK, BoxStates, Phases,
      EventTypes
<1>2. BoxFollowsRun' BY DEF BoxFollowsRun, TypeOK, EngineTypeOK, RuntimeTypeOK
<1>3. ProvisionedUnclaimed' BY DEF ProvisionedUnclaimed, TypeOK, EngineTypeOK,
      RuntimeTypeOK
<1>4. HoldsOwnSandbox' BY DEF HoldsOwnSandbox, TypeOK, EngineTypeOK,
      RuntimeTypeOK
<1>5. TurnsAreForwarded' BY DEF TurnsAreForwarded, TypeOK, EngineTypeOK,
      RuntimeTypeOK
<1>6. DownIsEmpty' BY DEF DownIsEmpty, TypeOK, EngineTypeOK, RuntimeTypeOK
<1>7. QED BY <1>1, <1>2, <1>3, <1>4, <1>5, <1>6
    DEF RegisteredSandboxExists, OneContainer, RegisteredUnclaimed,
      WatcherHasVictim

(* Only the run moves on. *)
LEMMA BuildPayloadStep == ASSUME IInv, NEW r \in Runs, BuildPayload(r) PROVE IInv'
<1> USE DEF IInv, BuildPayload, May, runtimeVars, storeVars, watchVars
<1>1. TypeOK' BY DEF TypeOK, EngineTypeOK, RuntimeTypeOK, BoxStates, Phases,
      EventTypes
<1>2. BoxFollowsRun' BY DEF BoxFollowsRun, TypeOK, EngineTypeOK, RuntimeTypeOK
<1>3. ProvisionedUnclaimed' BY DEF ProvisionedUnclaimed, TypeOK, EngineTypeOK,
      RuntimeTypeOK
<1>4. HoldsOwnSandbox' BY DEF HoldsOwnSandbox, TypeOK, EngineTypeOK,
      RuntimeTypeOK
<1>5. TurnsAreForwarded' BY DEF TurnsAreForwarded, TypeOK, EngineTypeOK,
      RuntimeTypeOK
<1>6. DownIsEmpty' BY DEF DownIsEmpty, TypeOK, EngineTypeOK, RuntimeTypeOK
<1>7. QED BY <1>1, <1>2, <1>3, <1>4, <1>5, <1>6
    DEF RegisteredSandboxExists, OneContainer, RegisteredUnclaimed,
      WatcherHasVictim

(* The turn is for this run's message, which is past its forward from here on. *)
LEMMA ForwardStep == ASSUME IInv, NEW r \in Runs, Forward(r) PROVE IInv'
<1> USE DEF IInv, Forward, Busy, HandleEvents, May, runtimeVars, storeVars,
      watchVars
<1>1. TypeOK' BY DEF TypeOK, EngineTypeOK, RuntimeTypeOK, BoxStates, Phases,
      EventTypes, HoldsOwnSandbox
<1>2. BoxFollowsRun' BY DEF BoxFollowsRun, TypeOK, EngineTypeOK, RuntimeTypeOK
<1>3. ProvisionedUnclaimed' BY DEF ProvisionedUnclaimed, TypeOK, EngineTypeOK,
      RuntimeTypeOK
<1>4. HoldsOwnSandbox' BY DEF HoldsOwnSandbox, TypeOK, EngineTypeOK,
      RuntimeTypeOK
<1>5. TurnsAreForwarded' BY DEF TurnsAreForwarded, HoldsOwnSandbox, TypeOK,
      EngineTypeOK, RuntimeTypeOK
<1>6. DownIsEmpty' BY DEF DownIsEmpty, TypeOK, EngineTypeOK, RuntimeTypeOK
<1>7. QED BY <1>1, <1>2, <1>3, <1>4, <1>5, <1>6
    DEF RegisteredSandboxExists, OneContainer, RegisteredUnclaimed,
      WatcherHasVictim

(* Only an event is stored. *)
LEMMA ForwardFailedStep == ASSUME IInv, NEW r \in Runs, ForwardFailed(r) PROVE IInv'
<1> USE DEF IInv, ForwardFailed, Emit, runtimeVars, watchVars
<1>1. TypeOK' BY DEF TypeOK, EngineTypeOK, RuntimeTypeOK, BoxStates, Phases,
      EventTypes
<1>2. BoxFollowsRun' BY DEF BoxFollowsRun, TypeOK, EngineTypeOK, RuntimeTypeOK
<1>3. ProvisionedUnclaimed' BY DEF ProvisionedUnclaimed, TypeOK, EngineTypeOK,
      RuntimeTypeOK
<1>4. HoldsOwnSandbox' BY DEF HoldsOwnSandbox, TypeOK, EngineTypeOK,
      RuntimeTypeOK
<1>5. TurnsAreForwarded' BY DEF TurnsAreForwarded, TypeOK, EngineTypeOK,
      RuntimeTypeOK
<1>6. DownIsEmpty' BY DEF DownIsEmpty, TypeOK, EngineTypeOK, RuntimeTypeOK
<1>7. QED BY <1>1, <1>2, <1>3, <1>4, <1>5, <1>6
    DEF RegisteredSandboxExists, OneContainer, RegisteredUnclaimed,
      WatcherHasVictim

(* Only the status is written. *)
LEMMA SetIdleStep == ASSUME IInv, NEW r \in Runs, SetIdle(r) PROVE IInv'
<1> USE DEF IInv, SetIdle, UpdateStatus, runtimeVars, watchVars
<1>1. TypeOK' BY DEF TypeOK, EngineTypeOK, RuntimeTypeOK, BoxStates, Phases,
      EventTypes
<1>2. BoxFollowsRun' BY DEF BoxFollowsRun, TypeOK, EngineTypeOK, RuntimeTypeOK
<1>3. ProvisionedUnclaimed' BY DEF ProvisionedUnclaimed, TypeOK, EngineTypeOK,
      RuntimeTypeOK
<1>4. HoldsOwnSandbox' BY DEF HoldsOwnSandbox, TypeOK, EngineTypeOK,
      RuntimeTypeOK
<1>5. TurnsAreForwarded' BY DEF TurnsAreForwarded, TypeOK, EngineTypeOK,
      RuntimeTypeOK
<1>6. DownIsEmpty' BY DEF DownIsEmpty, TypeOK, EngineTypeOK, RuntimeTypeOK
<1>7. QED BY <1>1, <1>2, <1>3, <1>4, <1>5, <1>6
    DEF RegisteredSandboxExists, OneContainer, RegisteredUnclaimed,
      WatcherHasVictim

(* Dropping an entry takes a claim away. *)
LEMMA DropSandboxStep == ASSUME IInv, NEW r \in Runs, DropSandbox(r) PROVE IInv'
<1> USE DEF IInv, DropSandbox, runtimeVars, storeVars, watchVars
<1>1. TypeOK' BY DEF TypeOK, EngineTypeOK, RuntimeTypeOK, BoxStates, Phases,
      EventTypes
<1>2. RegisteredSandboxExists' BY DEF RegisteredSandboxExists, TypeOK,
      EngineTypeOK, RuntimeTypeOK
<1>3. BoxFollowsRun' BY DEF BoxFollowsRun, TypeOK, EngineTypeOK, RuntimeTypeOK
<1>4. ProvisionedUnclaimed' BY DEF ProvisionedUnclaimed, TypeOK, EngineTypeOK,
      RuntimeTypeOK
<1>5. RegisteredUnclaimed' BY DEF RegisteredUnclaimed, TypeOK, EngineTypeOK,
      RuntimeTypeOK
<1>6. HoldsOwnSandbox' BY DEF HoldsOwnSandbox, TypeOK, EngineTypeOK,
      RuntimeTypeOK
<1>7. TurnsAreForwarded' BY DEF TurnsAreForwarded, TypeOK, EngineTypeOK,
      RuntimeTypeOK
<1>8. DownIsEmpty' BY DEF DownIsEmpty, TypeOK, EngineTypeOK, RuntimeTypeOK
<1>9. QED BY <1>1, <1>2, <1>3, <1>4, <1>5, <1>6, <1>7, <1>8
    DEF OneContainer, WatcherHasVictim

(* An entry is fresh again. *)
LEMMA HeartbeatStep == ASSUME IInv, NEW c \in Runs, Heartbeat(c) PROVE IInv'
<1> USE DEF IInv, Heartbeat, runtimeVars, storeVars, watchVars
<1>1. TypeOK' BY DEF TypeOK, EngineTypeOK, RuntimeTypeOK, BoxStates, Phases,
      EventTypes
<1>2. QED BY <1>1
    DEF RegisteredSandboxExists, OneContainer, BoxFollowsRun,
      ProvisionedUnclaimed, RegisteredUnclaimed, WatcherHasVictim,
      HoldsOwnSandbox, TurnsAreForwarded, DownIsEmpty

(* An entry is stale. *)
LEMMA LapseStep == ASSUME IInv, NEW s \in Sessions, Lapse(s) PROVE IInv'
<1> USE DEF IInv, Lapse, May, runtimeVars, storeVars, watchVars
<1>1. TypeOK' BY DEF TypeOK, EngineTypeOK, RuntimeTypeOK, BoxStates, Phases,
      EventTypes
<1>2. QED BY <1>1
    DEF RegisteredSandboxExists, OneContainer, BoxFollowsRun,
      ProvisionedUnclaimed, RegisteredUnclaimed, WatcherHasVictim,
      HoldsOwnSandbox, TurnsAreForwarded, DownIsEmpty

(* The watcher takes its snapshot. *)
LEMMA CheckStaleStep == ASSUME IInv, CheckStale PROVE IInv'
<1> USE DEF IInv, CheckStale, controlVars, runtimeVars, storeVars
<1>1. TypeOK' BY DEF TypeOK, EngineTypeOK, RuntimeTypeOK, BoxStates, Phases,
      EventTypes
<1>2. DownIsEmpty' BY DEF DownIsEmpty, TypeOK, EngineTypeOK, RuntimeTypeOK
<1>3. QED BY <1>1, <1>2
    DEF RegisteredSandboxExists, OneContainer, BoxFollowsRun,
      ProvisionedUnclaimed, RegisteredUnclaimed, WatcherHasVictim,
      HoldsOwnSandbox, TurnsAreForwarded

(* The container leaves the map as it becomes the victim. *)
LEMMA TakeStaleStep == ASSUME IInv, NEW s \in Sessions, TakeStale(s) PROVE IInv'
<1> USE DEF IInv, TakeStale, runtimeVars, storeVars
<1>1. TypeOK' BY DEF TypeOK, EngineTypeOK, RuntimeTypeOK, BoxStates, Phases,
      EventTypes
<1>2. RegisteredSandboxExists' BY DEF RegisteredSandboxExists, TypeOK,
      EngineTypeOK, RuntimeTypeOK
<1>3. ProvisionedUnclaimed' BY DEF ProvisionedUnclaimed, TypeOK, EngineTypeOK,
      RuntimeTypeOK
<1>4. RegisteredUnclaimed' BY DEF RegisteredUnclaimed, RegisteredSandboxExists,
      TypeOK, EngineTypeOK, RuntimeTypeOK
<1>5. WatcherHasVictim' BY DEF WatcherHasVictim, TypeOK, EngineTypeOK,
      RuntimeTypeOK
<1>6. DownIsEmpty' BY DEF DownIsEmpty, TypeOK, EngineTypeOK, RuntimeTypeOK
<1>7. QED BY <1>1, <1>2, <1>3, <1>4, <1>5, <1>6
    DEF OneContainer, BoxFollowsRun, HoldsOwnSandbox, TurnsAreForwarded

(* Only an event is stored. *)
LEMMA EmitStoppedStep == ASSUME IInv, EmitStopped PROVE IInv'
<1> USE DEF IInv, EmitStopped, Emit, controlVars, runtimeVars
<1>1. TypeOK' BY DEF TypeOK, EngineTypeOK, RuntimeTypeOK, BoxStates, Phases,
      EventTypes, WatcherHasVictim
<1>2. WatcherHasVictim' BY DEF WatcherHasVictim, TypeOK, EngineTypeOK,
      RuntimeTypeOK
<1>3. DownIsEmpty' BY DEF DownIsEmpty, TypeOK, EngineTypeOK, RuntimeTypeOK
<1>4. QED BY <1>1, <1>2, <1>3
    DEF RegisteredSandboxExists, OneContainer, BoxFollowsRun,
      ProvisionedUnclaimed, RegisteredUnclaimed, HoldsOwnSandbox,
      TurnsAreForwarded

(* The victim passes to its clean-up goroutine. *)
LEMMA SetIdleStaleStep == ASSUME IInv, SetIdleStale PROVE IInv'
<1> USE DEF IInv, SetIdleStale, UpdateStatus, controlVars, runtimeVars
<1>1. TypeOK' BY DEF TypeOK, EngineTypeOK, RuntimeTypeOK, BoxStates, Phases,
      EventTypes
<1>2. ProvisionedUnclaimed' BY DEF ProvisionedUnclaimed, TypeOK, EngineTypeOK,
      RuntimeTypeOK
<1>3. RegisteredUnclaimed' BY DEF RegisteredUnclaimed, TypeOK, EngineTypeOK,
      RuntimeTypeOK
<1>4. WatcherHasVictim' BY DEF WatcherHasVictim, TypeOK, EngineTypeOK,
      RuntimeTypeOK
<1>5. DownIsEmpty' BY DEF DownIsEmpty, TypeOK, EngineTypeOK, RuntimeTypeOK
<1>6. QED BY <1>1, <1>2, <1>3, <1>4, <1>5
    DEF RegisteredSandboxExists, OneContainer, BoxFollowsRun, HoldsOwnSandbox,
      TurnsAreForwarded

(* A container on its way out is stopped. *)
LEMMA ReapStopStep == ASSUME IInv, NEW c \in Runs, ReapStop(c) PROVE IInv'
<1> USE DEF IInv, ReapStop, KillRuntime, May, StopContainer, controlVars,
      runtimeVars, storeVars
<1>1. TypeOK' BY DEF TypeOK, EngineTypeOK, RuntimeTypeOK, BoxStates, Phases,
      EventTypes
<1>2. RegisteredSandboxExists' BY DEF RegisteredSandboxExists, TypeOK,
      EngineTypeOK, RuntimeTypeOK
<1>3. OneContainer' BY DEF OneContainer, TypeOK, EngineTypeOK, RuntimeTypeOK
<1>4. BoxFollowsRun' BY DEF BoxFollowsRun, TypeOK, EngineTypeOK, RuntimeTypeOK
<1>5. ProvisionedUnclaimed' BY DEF ProvisionedUnclaimed, TypeOK, EngineTypeOK,
      RuntimeTypeOK
<1>6. RegisteredUnclaimed' BY DEF RegisteredUnclaimed, TypeOK, EngineTypeOK,
      RuntimeTypeOK
<1>7. TurnsAreForwarded' BY DEF TurnsAreForwarded, TypeOK, EngineTypeOK,
      RuntimeTypeOK
<1>8. DownIsEmpty' BY DEF DownIsEmpty, TypeOK, EngineTypeOK, RuntimeTypeOK
<1>9. QED BY <1>1, <1>2, <1>3, <1>4, <1>5, <1>6, <1>7, <1>8
    DEF WatcherHasVictim, HoldsOwnSandbox

(* The container removed is in nobody's hands but the goroutine's. *)
LEMMA ReapRemoveStep == ASSUME IInv, NEW c \in Runs, ReapRemove(c) PROVE IInv'
<1> USE DEF IInv, ReapRemove, KillRuntime, May, RemoveContainer, controlVars,
      runtimeVars, storeVars
<1>1. TypeOK' BY DEF TypeOK, EngineTypeOK, RuntimeTypeOK, BoxStates, Phases,
      EventTypes
<1>2. RegisteredSandboxExists' BY DEF RegisteredSandboxExists,
      RegisteredUnclaimed, TypeOK, EngineTypeOK, RuntimeTypeOK
<1>3. OneContainer' BY DEF OneContainer, TypeOK, EngineTypeOK, RuntimeTypeOK
<1>4. BoxFollowsRun' BY DEF BoxFollowsRun, ProvisionedUnclaimed, TypeOK,
      EngineTypeOK, RuntimeTypeOK
<1>5. ProvisionedUnclaimed' BY DEF ProvisionedUnclaimed, TypeOK, EngineTypeOK,
      RuntimeTypeOK
<1>6. RegisteredUnclaimed' BY DEF RegisteredUnclaimed, TypeOK, EngineTypeOK,
      RuntimeTypeOK
<1>7. TurnsAreForwarded' BY DEF TurnsAreForwarded, TypeOK, EngineTypeOK,
      RuntimeTypeOK
<1>8. DownIsEmpty' BY DEF DownIsEmpty, TypeOK, EngineTypeOK, RuntimeTypeOK
<1>9. QED BY <1>1, <1>2, <1>3, <1>4, <1>5, <1>6, <1>7, <1>8
    DEF WatcherHasVictim, HoldsOwnSandbox

(* The turn announces itself. *)
LEMMA ReportRunningStep == ASSUME IInv, NEW c \in Runs, ReportRunning(c) PROVE IInv'
<1> USE DEF IInv, ReportRunning, Emit, Ingest, May, UpdateStatus, controlVars,
      storeVars, watchVars
<1>1. TypeOK' BY DEF TypeOK, EngineTypeOK, RuntimeTypeOK, BoxStates, Phases,
      EventTypes, TurnsAreForwarded
<1>2. TurnsAreForwarded' BY DEF TurnsAreForwarded, TypeOK, EngineTypeOK,
      RuntimeTypeOK
<1>3. QED BY <1>1, <1>2
    DEF RegisteredSandboxExists, OneContainer, BoxFollowsRun,
      ProvisionedUnclaimed, RegisteredUnclaimed, WatcherHasVictim,
      HoldsOwnSandbox, DownIsEmpty

(* The turn announces its end. *)
LEMMA ReportIdleStep == ASSUME IInv, NEW c \in Runs, ReportIdle(c) PROVE IInv'
<1> USE DEF IInv, ReportIdle, Emit, Ingest, May, UpdateStatus, controlVars,
      storeVars, watchVars
<1>1. TypeOK' BY DEF TypeOK, EngineTypeOK, RuntimeTypeOK, BoxStates, Phases,
      EventTypes, TurnsAreForwarded
<1>2. TurnsAreForwarded' BY DEF TurnsAreForwarded, TypeOK, EngineTypeOK,
      RuntimeTypeOK
<1>3. QED BY <1>1, <1>2
    DEF RegisteredSandboxExists, OneContainer, BoxFollowsRun,
      ProvisionedUnclaimed, RegisteredUnclaimed, WatcherHasVictim,
      HoldsOwnSandbox, DownIsEmpty

(* The running flag is cleared. *)
LEMMA FinishTurnStep == ASSUME IInv, NEW c \in Runs, FinishTurn(c) PROVE IInv'
<1> USE DEF IInv, FinishTurn, ClearRunning, controlVars, storeVars, watchVars
<1>1. TypeOK' BY DEF TypeOK, EngineTypeOK, RuntimeTypeOK, BoxStates, Phases,
      EventTypes
<1>2. TurnsAreForwarded' BY DEF TurnsAreForwarded, TypeOK, EngineTypeOK,
      RuntimeTypeOK
<1>3. QED BY <1>1, <1>2
    DEF RegisteredSandboxExists, OneContainer, BoxFollowsRun,
      ProvisionedUnclaimed, RegisteredUnclaimed, WatcherHasVictim,
      HoldsOwnSandbox, DownIsEmpty

(* A container exits and its turn dies. *)
LEMMA ContainerExitStep == ASSUME IInv, NEW c \in Runs, ContainerExit(c) PROVE IInv'
<1> USE DEF IInv, ContainerExit, KillRuntime, May, StopContainer, controlVars,
      storeVars, watchVars
<1>1. TypeOK' BY DEF TypeOK, EngineTypeOK, RuntimeTypeOK, BoxStates, Phases,
      EventTypes
<1>2. RegisteredSandboxExists' BY DEF RegisteredSandboxExists, TypeOK,
      EngineTypeOK, RuntimeTypeOK
<1>3. OneContainer' BY DEF OneContainer, TypeOK, EngineTypeOK, RuntimeTypeOK
<1>4. BoxFollowsRun' BY DEF BoxFollowsRun, TypeOK, EngineTypeOK, RuntimeTypeOK
<1>5. TurnsAreForwarded' BY DEF TurnsAreForwarded, TypeOK, EngineTypeOK,
      RuntimeTypeOK
<1>6. QED BY <1>1, <1>2, <1>3, <1>4, <1>5
    DEF ProvisionedUnclaimed, RegisteredUnclaimed, WatcherHasVictim,
      HoldsOwnSandbox, DownIsEmpty

(* The control plane forgets everything and the containers live on. *)
LEMMA CrashStep == ASSUME IInv, Crash PROVE IInv'
<1> USE DEF IInv, Crash, May, runtimeVars, storeVars
<1>1. TypeOK' BY DEF TypeOK, EngineTypeOK, RuntimeTypeOK, BoxStates, Phases,
      EventTypes
<1>2. RegisteredSandboxExists' BY DEF RegisteredSandboxExists, TypeOK,
      EngineTypeOK, RuntimeTypeOK
<1>3. BoxFollowsRun' BY DEF BoxFollowsRun, TypeOK, EngineTypeOK, RuntimeTypeOK
<1>4. ProvisionedUnclaimed' BY DEF ProvisionedUnclaimed, TypeOK, EngineTypeOK,
      RuntimeTypeOK
<1>5. RegisteredUnclaimed' BY DEF RegisteredUnclaimed, TypeOK, EngineTypeOK,
      RuntimeTypeOK
<1>6. WatcherHasVictim' BY DEF WatcherHasVictim, TypeOK, EngineTypeOK,
      RuntimeTypeOK
<1>7. HoldsOwnSandbox' BY DEF HoldsOwnSandbox, TypeOK, EngineTypeOK,
      RuntimeTypeOK
<1>8. TurnsAreForwarded' BY DEF TurnsAreForwarded, TypeOK, EngineTypeOK,
      RuntimeTypeOK
<1>9. DownIsEmpty' BY DEF DownIsEmpty, TypeOK, EngineTypeOK, RuntimeTypeOK
<1>10. QED BY <1>1, <1>2, <1>3, <1>4, <1>5, <1>6, <1>7, <1>8, <1>9
    DEF OneContainer

(* The reconciliation lists what is there. *)
LEMMA ListLeftoversStep == ASSUME IInv, ListLeftovers PROVE IInv'
<1> USE DEF IInv, ListLeftovers, May, controlVars, runtimeVars, storeVars
<1>1. TypeOK' BY DEF TypeOK, EngineTypeOK, RuntimeTypeOK, BoxStates, Phases,
      EventTypes
<1>2. DownIsEmpty' BY DEF DownIsEmpty, TypeOK, EngineTypeOK, RuntimeTypeOK
<1>3. QED BY <1>1, <1>2
    DEF RegisteredSandboxExists, OneContainer, BoxFollowsRun,
      ProvisionedUnclaimed, RegisteredUnclaimed, WatcherHasVictim,
      HoldsOwnSandbox, TurnsAreForwarded

(* While the reconciliation removes containers, nobody else holds one. *)
LEMMA RemoveLeftoverStep == ASSUME IInv, NEW c \in Runs, RemoveLeftover(c) PROVE IInv'
<1> USE DEF IInv, RemoveLeftover, KillRuntime, May, RemoveContainer,
      StopContainer, controlVars, runtimeVars, storeVars
<1>1. TypeOK' BY DEF TypeOK, EngineTypeOK, RuntimeTypeOK, BoxStates, Phases,
      EventTypes
<1>2. RegisteredSandboxExists' BY DEF RegisteredSandboxExists, DownIsEmpty,
      TypeOK, EngineTypeOK, RuntimeTypeOK
<1>3. OneContainer' BY DEF OneContainer, TypeOK, EngineTypeOK, RuntimeTypeOK
<1>4. BoxFollowsRun' BY DEF BoxFollowsRun, DownIsEmpty, TypeOK, EngineTypeOK,
      RuntimeTypeOK
<1>5. TurnsAreForwarded' BY DEF TurnsAreForwarded, TypeOK, EngineTypeOK,
      RuntimeTypeOK
<1>6. QED BY <1>1, <1>2, <1>3, <1>4, <1>5
    DEF ProvisionedUnclaimed, RegisteredUnclaimed, WatcherHasVictim,
      HoldsOwnSandbox, DownIsEmpty

(* The control plane starts with nothing in memory. *)
LEMMA ServeStep == ASSUME IInv, Serve PROVE IInv'
<1> USE DEF IInv, Serve, controlVars, runtimeVars, storeVars, watchVars
<1>1. TypeOK' BY DEF TypeOK, EngineTypeOK, RuntimeTypeOK, BoxStates, Phases,
      EventTypes
<1>2. DownIsEmpty' BY DEF DownIsEmpty, TypeOK, EngineTypeOK, RuntimeTypeOK
<1>3. QED BY <1>1, <1>2
    DEF RegisteredSandboxExists, OneContainer, BoxFollowsRun,
      ProvisionedUnclaimed, RegisteredUnclaimed, WatcherHasVictim,
      HoldsOwnSandbox, TurnsAreForwarded
-----------------------------------------------------------------------------
(* Every step of the system preserves the inductive invariant. *)
LEMMA NextStep == ASSUME IInv, [Next]_vars PROVE IInv'
<1>1. ASSUME NEW r \in Runs, Send(r) \/ RunStep(r) PROVE IInv'
  BY <1>1, SendStep, EnsureSandboxStep, CreateStep, DeployStep, StartStep,
     WaitForHealthStep, RegisterStep, DiscardStep, ReportErrorStep,
     BuildPayloadStep, ForwardStep, ForwardFailedStep, SetIdleStep,
     DropSandboxStep
  DEF RunStep
<1>2. ASSUME NEW s \in Sessions, Lapse(s) PROVE IInv'
  BY <1>2, LapseStep
<1>3. ASSUME NEW c \in Runs,
             Heartbeat(c) \/ TurnStep(c) \/ ContainerExit(c) \/ Reap(c)
      PROVE IInv'
  BY <1>3, HeartbeatStep, ReportRunningStep, ReportIdleStep, FinishTurnStep,
     ContainerExitStep, ReapStopStep, ReapRemoveStep
  DEF TurnStep, Reap
<1>4. CASE WatchStep
  BY <1>4, CheckStaleStep, TakeStaleStep, EmitStoppedStep, SetIdleStaleStep
  DEF WatchStep
<1>5. CASE Crash
  BY <1>5, CrashStep
<1>6. CASE Boot
  BY <1>6, ListLeftoversStep, RemoveLeftoverStep, ServeStep DEF Boot
<1>7. CASE UNCHANGED vars
  BY <1>7
  DEF vars, runtimeVars, controlVars, watchVars, storeVars, IInv, TypeOK,
      EngineTypeOK, RuntimeTypeOK, RegisteredSandboxExists, OneContainer,
      BoxFollowsRun, ProvisionedUnclaimed, RegisteredUnclaimed,
      WatcherHasVictim, HoldsOwnSandbox, TurnsAreForwarded, DownIsEmpty
<1>8. QED BY <1>1, <1>2, <1>3, <1>4, <1>5, <1>6, <1>7 DEF Next

(* The inductive invariant holds at the start. *)
LEMMA InitHolds == Init => IInv
BY DEF Init, EngineInit, RuntimeInit, IInv, TypeOK, EngineTypeOK,
       RuntimeTypeOK, BoxStates, Phases, EventTypes, RegisteredSandboxExists,
       OneContainer, BoxFollowsRun, ProvisionedUnclaimed, RegisteredUnclaimed,
       WatcherHasVictim, HoldsOwnSandbox, TurnsAreForwarded, DownIsEmpty

-----------------------------------------------------------------------------
(* The inductive invariant holds in every reachable state, for any set of  *)
(* sessions and messages and any combination of faults.                    *)
THEOREM Invariance == Spec => []IInv
<1>1. Init => IInv
  BY InitHolds
<1>2. IInv /\ [Next]_vars => IInv'
  BY NextStep
<1>3. QED BY <1>1, <1>2, PTL DEF Spec

(* Every variable keeps its type. *)
THEOREM TypeCorrect == Spec => []TypeOK
<1>1. IInv => TypeOK
  BY DEF IInv
<1>2. QED BY <1>1, Invariance, PTL

(* A registered sandbox has a container of its session that was started    *)
(* and that nobody has removed.                                            *)
THEOREM RegisteredExists == Spec => []RegisteredSandboxExists
<1>1. IInv => RegisteredSandboxExists
  BY DEF IInv
<1>2. QED BY <1>1, Invariance, PTL

(* No two turns of a session are ever in progress together: their          *)
(* containers would both be running, hence be the same one.                *)
THEOREM TurnsExclude == Spec => []ExclusiveTurns
<1>1. IInv => ExclusiveTurns
  BY DEF IInv, TypeOK, RuntimeTypeOK, TurnsAreForwarded, OneContainer,
         ExclusiveTurns
<1>2. QED BY <1>1, Invariance, PTL

-----------------------------------------------------------------------------
(* The step under RegisterReplacesNothing: when provision enters its       *)
(* container, an entry already there would be for another container of the *)
(* session, and the engine has only one.                                   *)
LEMMA ReplacesNothing ==
  ASSUME IInv, [Next]_vars, NEW s \in Sessions, sandboxes[s] # NoRun
  PROVE  sandboxes'[s] \in {sandboxes[s], NoRun}
<1> USE DEF IInv, TypeOK
<1>1. ASSUME NEW r \in Runs, Register(r) PROVE sandboxes'[s] = sandboxes[s]
  <2>1. box[r] \in {"up", "exited"} /\ sandboxes[s] # r
    BY <1>1 DEF Register, BoxFollowsRun, ProvisionedUnclaimed
  <2>2. SessionOf[r] # s
    BY <2>1 DEF RegisteredSandboxExists, OneContainer
  <2>3. QED BY <1>1, <2>2 DEF Register
<1>2. ASSUME NEW r \in Runs, DropSandbox(r)
      PROVE sandboxes'[s] \in {sandboxes[s], NoRun}
  BY <1>2 DEF DropSandbox
<1>3. ASSUME NEW t \in Sessions, TakeStale(t)
      PROVE sandboxes'[s] \in {sandboxes[s], NoRun}
  BY <1>3 DEF TakeStale
<1>4. CASE Crash
  BY <1>4 DEF Crash
<1>5. CASE sandboxes' = sandboxes
  BY <1>5
<1>6. QED
  BY <1>1, <1>2, <1>3, <1>4, <1>5
  DEF Next, RunStep, TurnStep, Reap, WatchStep, Boot, vars, controlVars, Send,
      EnsureSandbox, Create, Deploy, Start, WaitForHealth, Discard,
      ReportError, BuildPayload, Forward, ForwardFailed, SetIdle, Heartbeat,
      Lapse, CheckStale, EmitStopped, SetIdleStale, ReapStop, ReapRemove,
      ReportRunning, ReportIdle, FinishTurn, ContainerExit, ListLeftovers,
      RemoveLeftover, Serve

(* provision never replaces the entry of another container, although it    *)
(* does not look: the lookup of ensureSandbox may be long out of date.     *)
THEOREM RegisterIsSafe == Spec => RegisterReplacesNothing
<1>1. IInv /\ [Next]_vars =>
        [\A s \in Sessions :
           sandboxes[s] # NoRun => sandboxes'[s] \in {sandboxes[s], NoRun}]_vars
  BY ReplacesNothing
<1>2. QED BY <1>1, Invariance, PTL DEF Spec, RegisterReplacesNothing

-----------------------------------------------------------------------------
(* When nothing fails, no container ends and none is removed, and the      *)
(* watcher finds nothing.                                                  *)
Calm ==
  /\ server = "up"
  /\ lapsed = {} /\ stale = {} /\ watcher = "scan"
  /\ \A c \in Runs : box[c] \in {"none", "created", "up"} /\ reaper[c] = "off"
  /\ \A r \in Runs : pc[r] # "discard"

(* The steps of Run keep it so: a started container is healthy.            *)
LEMMA CalmRunStep ==
  ASSUME Faults = {}, IInv, Calm, RunningIsTrue, NEW r \in Runs, Send(r) \/ RunStep(r)
  PROVE  (Calm /\ RunningIsTrue)'
<1> USE DEF IInv, TypeOK, EngineTypeOK, RuntimeTypeOK, May
<1>1. CASE Create(r) \/ Start(r)
  <2>1. \A c \in Runs : box'[c] \in {"none", "created", "up"}
    BY <1>1 DEF Calm, Create, Start, CreateContainer, StartContainer
  <2>2. \A q \in Runs : pc'[q] # "discard"
    BY <1>1 DEF Calm, Create, Start
  <2>3. Calm'
    BY <1>1, <2>1, <2>2 DEF Calm, Create, Start, watchVars
  <2>4. RunningIsTrue'
    BY <1>1 DEF RunningIsTrue, Create, Start, runtimeVars, storeVars
  <2> QED  BY <2>3, <2>4
<1>2. CASE WaitForHealth(r)
  <2>1. pc[r] = "health" => box[r] = "up"
    BY DEF BoxFollowsRun, Calm
  <2>2. \A q \in Runs : pc'[q] # "discard"
    BY <1>2, <2>1 DEF Calm, WaitForHealth
  <2> QED  BY <1>2, <2>2 DEF Calm, RunningIsTrue, WaitForHealth, runtimeVars, storeVars, watchVars
<1>3. CASE Forward(r)
  <2>1. Calm'
    BY <1>3 DEF Calm, Forward, watchVars
  <2>2. \A c \in Runs : phase[c] = "running" => phase'[c] = "running"
    BY <1>3 DEF Forward, HandleEvents, Busy, TurnsAreForwarded, runtimeVars
  <2> QED  BY <1>3, <2>1, <2>2 DEF RunningIsTrue, Forward, storeVars
<1>4. CASE SetIdle(r)
  <2>1. \A s \in Sessions : status'[s] = "running" => status[s] = "running"
    BY <1>4 DEF SetIdle, UpdateStatus
  <2> QED  BY <1>4, <2>1 DEF Calm, RunningIsTrue, SetIdle, runtimeVars, watchVars
<1>5. CASE \/ Send(r) \/ EnsureSandbox(r) \/ Deploy(r) \/ Register(r) \/ ReportError(r)
           \/ BuildPayload(r) \/ ForwardFailed(r) \/ DropSandbox(r)
  BY <1>5 DEF Calm, RunningIsTrue, Send, EnsureSandbox, Deploy, Register, ReportError,
              BuildPayload, ForwardFailed, DropSandbox, runtimeVars, storeVars, watchVars
<1>6. ~Discard(r)
  BY DEF Discard, Calm
<1> QED  BY <1>1, <1>2, <1>3, <1>4, <1>5, <1>6 DEF RunStep

(* A turn sets the status as it goes; nothing else ends one.               *)
LEMMA CalmStep ==
  ASSUME Faults = {}, IInv, Calm, RunningIsTrue, [Next]_vars
  PROVE  (Calm /\ RunningIsTrue)'
<1> USE DEF IInv, TypeOK, EngineTypeOK, RuntimeTypeOK, May
<1>1. ASSUME NEW r \in Runs, Send(r) \/ RunStep(r)  PROVE (Calm /\ RunningIsTrue)'
  BY <1>1, CalmRunStep
<1>2. ASSUME NEW c \in Runs, ReportRunning(c) \/ ReportIdle(c)  PROVE (Calm /\ RunningIsTrue)'
  <2>1. Calm'
    BY <1>2 DEF Calm, ReportRunning, ReportIdle, controlVars, watchVars
  <2>2. CASE ReportRunning(c)
    <3>1. /\ \A s \in Sessions : s # SessionOf[c] => status'[s] = status[s]
          /\ phase'[c] = "running"
          /\ \A d \in Runs : phase[d] = "running" => phase'[d] = "running"
      BY <2>2 DEF ReportRunning, Ingest, UpdateStatus, Calm
    <3> QED  BY <2>1, <3>1 DEF RunningIsTrue
  <2>3. CASE ReportIdle(c)
    <3>1. /\ \A s \in Sessions : s # SessionOf[c] => status'[s] = status[s]
          /\ status'[SessionOf[c]] = "idle"
          /\ \A d \in Runs : d # c /\ phase[d] = "running" => phase'[d] = "running"
      BY <2>3 DEF ReportIdle, Ingest, UpdateStatus, Calm
    <3> QED  BY <2>1, <3>1 DEF RunningIsTrue
  <2> QED  BY <1>2, <2>2, <2>3
<1>3. ASSUME NEW c \in Runs, FinishTurn(c)  PROVE (Calm /\ RunningIsTrue)'
  <2>1. \A d \in Runs : phase[d] = "running" => phase'[d] = "running"
    BY <1>3 DEF FinishTurn, ClearRunning
  <2> QED  BY <1>3, <2>1 DEF Calm, RunningIsTrue, FinishTurn, controlVars, watchVars, storeVars
<1>4. ASSUME NEW s \in Sessions  PROVE ~Lapse(s) /\ ~TakeStale(s)
  BY DEF Lapse, TakeStale, Calm, RegisteredSandboxExists
<1>5. ASSUME NEW c \in Runs
      PROVE  ~Heartbeat(c) /\ ~ContainerExit(c) /\ ~Reap(c) /\ ~RemoveLeftover(c)
  BY DEF Heartbeat, ContainerExit, Reap, ReapStop, ReapRemove, RemoveLeftover, Calm
<1>6. ~CheckStale /\ ~EmitStopped /\ ~SetIdleStale /\ ~Crash /\ ~ListLeftovers /\ ~Serve
  BY DEF CheckStale, EmitStopped, SetIdleStale, Crash, ListLeftovers, Serve, Calm
<1>7. CASE UNCHANGED vars
  BY <1>7 DEF Calm, RunningIsTrue, vars, runtimeVars, controlVars, watchVars, storeVars
<1> QED  BY <1>1, <1>2, <1>3, <1>4, <1>5, <1>6, <1>7 DEF Next, TurnStep, WatchStep, Boot

(* When nothing fails, a session shown as running has a turn in progress,  *)
(* though refused messages set it idle meanwhile (Run, IngestEvents), and  *)
(* whether or not clients wait.                                            *)
THEOREM RunningTells == ASSUME Faults = {} PROVE Spec => []RunningIsTrue
<1>1. Init => Calm /\ RunningIsTrue
  BY DEF Init, EngineInit, RuntimeInit, Calm, RunningIsTrue
<1>2. IInv /\ Calm /\ RunningIsTrue /\ [Next]_vars => (Calm /\ RunningIsTrue)'
  BY CalmStep
<1> QED  BY <1>1, <1>2, Invariance, PTL DEF Spec

-----------------------------------------------------------------------------
(* A message whose run has not reached its forward is not executing.       *)
LEMMA WaitingIsNotExecuting ==
  ASSUME IInv, NEW r \in Runs, pc[r] \in BeforeForward
  PROVE  \A c \in Runs : turn[c] # r
BY DEF IInv, TypeOK, RuntimeTypeOK, TurnsAreForwarded

(* A step that leaves the turns alone and takes no message back refines a  *)
(* Conclude of the messages that are past their forward after it.          *)
LEMMA GiveUp ==
  ASSUME IInv, turn' = turn,
         \A q \in Runs : pc'[q] \in BeforeForward => pc[q] \in BeforeForward
  PROVE  Turns!Next
<1> DEFINE S == {q \in Runs : pc[q] \in BeforeForward /\ pc'[q] \notin BeforeForward}
<1>1. \A q \in S : fate[q] # "over"
  BY WaitingIsNotExecuting DEF fate
<1>2. \A q \in Runs : fate'[q] = IF q \in S THEN "over" ELSE fate[q]
  BY WaitingIsNotExecuting DEF fate
<1>3. fate' = [q \in Runs |-> IF q \in S THEN "over" ELSE fate[q]]
  BY <1>2 DEF fate
<1>4. QED BY <1>1, <1>3 DEF Turns!Next, Turns!Conclude

(* The end of container c's turn refines a Conclude of its message, which  *)
(* no other container is executing, and of those given up with it.         *)
LEMMA TurnEnds ==
  ASSUME IInv, NEW c \in Runs, turn' = [turn EXCEPT ![c] = NoRun],
         \A q \in Runs : pc'[q] \in BeforeForward => pc[q] \in BeforeForward
  PROVE  Turns!Next
<1> USE DEF IInv, TypeOK, RuntimeTypeOK
<1> DEFINE E == {turn[c]} \cap Runs
           G == {q \in Runs : pc[q] \in BeforeForward /\ pc'[q] \notin BeforeForward}
           S == E \cup G
<1>1. \A d \in Runs : turn[c] # NoRun /\ turn[d] = turn[c] => d = c
  BY DEF TurnsAreForwarded, OneContainer
<1>2. \A q \in E : fate[q] = "executing" /\ pc[q] \notin BeforeForward
  BY DEF fate, TurnsAreForwarded
<1>3. \A q \in G : fate[q] = "waiting"
  BY WaitingIsNotExecuting DEF fate
<1>4. \A q \in Runs : (\E d \in Runs : turn'[d] = q)
                        <=> (\E d \in Runs : turn[d] = q) /\ q \notin E
  BY <1>1
<1>5. \A q \in Runs : fate'[q] = IF q \in S THEN "over" ELSE fate[q]
  BY <1>2, <1>3, <1>4, WaitingIsNotExecuting DEF fate
<1>6. fate' = [q \in Runs |-> IF q \in S THEN "over" ELSE fate[q]]
  BY <1>5 DEF fate
<1>7. QED BY <1>2, <1>3, <1>6 DEF Turns!Next, Turns!Conclude

(* A payload that the runtime accepts refines a Begin: the runtime is not  *)
(* busy and no other container of the session is there to be.              *)
LEMMA TurnBegins ==
  ASSUME IInv, NEW r \in Runs, pc[r] = "forward", HandleEvents(sbx[r], r),
         pc' = [pc EXCEPT ![r] = "done"] \/ pc' = [pc EXCEPT ![r] = "forward_failed"]
  PROVE  Turns!Next
<1> USE DEF IInv, TypeOK, RuntimeTypeOK
<1> DEFINE c == sbx[r]
<1>1. c \in Runs /\ SessionOf[c] = SessionOf[r] /\ box[c] = "up" /\ turn[c] = NoRun
  BY DEF HoldsOwnSandbox, HandleEvents, Busy
<1>2. fate[r] = "waiting"
  BY WaitingIsNotExecuting DEF fate
<1>3. ASSUME NEW q \in Runs, SessionOf[q] = SessionOf[r], fate[q] = "executing"
      PROVE FALSE
  <2>1. PICK d \in Runs : turn[d] = q
    BY <1>3 DEF fate
  <2>2. box[d] = "up" /\ SessionOf[d] = SessionOf[c]
    BY <1>1, <1>3, <2>1 DEF TurnsAreForwarded
  <2>3. QED BY <1>1, <2>1, <2>2 DEF OneContainer
<1>4. turn' = [turn EXCEPT ![c] = r]
  BY DEF HandleEvents
<1>5. \A q \in Runs : (\E d \in Runs : turn'[d] = q)
                        <=> (\E d \in Runs : turn[d] = q) \/ q = r
  BY <1>1, <1>4
<1>6. \A q \in Runs : fate'[q] = IF q = r THEN "executing" ELSE fate[q]
  BY <1>5 DEF fate
<1>7. fate' = [fate EXCEPT ![r] = "executing"]
  <2>1. fate' = [q \in Runs |-> fate'[q]] /\ fate = [q \in Runs |-> fate[q]]
    BY DEF fate
  <2> HIDE DEF fate
  <2>2. QED BY <1>6, <2>1
<1>8. QED BY <1>2, <1>3, <1>7 DEF Turns!Next, Turns!Begin

(* A step of a call of Run never takes its message back, and the only one  *)
(* that touches a turn is the forward.                                     *)
LEMMA RunStepRefines ==
  ASSUME IInv, NEW r \in Runs, Send(r) \/ RunStep(r) PROVE Turns!Next
<1> USE DEF IInv, TypeOK
<1>1. CASE Forward(r) /\ HandleEvents(sbx[r], r)
  BY <1>1, TurnBegins DEF Forward
<1>2. CASE Discard(r)
  <2>1. turn' = turn \/ turn' = [turn EXCEPT ![r] = NoRun]
    BY <1>2 DEF Discard, RemoveContainer, KillRuntime, runtimeVars
  <2>2. \A q \in Runs : pc'[q] \in BeforeForward => pc[q] \in BeforeForward
    BY <1>2 DEF Discard
  <2>3. QED BY <2>1, <2>2, GiveUp, TurnEnds
<1>3. CASE /\ turn' = turn
           /\ \A q \in Runs : pc'[q] \in BeforeForward => pc[q] \in BeforeForward
  BY <1>3, GiveUp
<1>4. QED
  BY <1>1, <1>2, <1>3
  DEF RunStep, Send, EnsureSandbox, Create, Deploy, Start, WaitForHealth,
      Register, ReportError, BuildPayload, Forward, ForwardFailed, SetIdle,
      DropSandbox, runtimeVars

(* Every step of the system is a step of SessionTurns or a stutter.        *)
LEMMA StepRefines == ASSUME IInv, [Next]_vars PROVE [Turns!Next]_fate
<1> USE DEF IInv, TypeOK
<1>1. ASSUME NEW r \in Runs, Send(r) \/ RunStep(r) PROVE Turns!Next
  BY <1>1, RunStepRefines
<1>2. ASSUME NEW c \in Runs,
             FinishTurn(c) \/ ContainerExit(c) \/ Reap(c) \/ RemoveLeftover(c)
      PROVE Turns!Next
  <2>1. pc' = pc
    BY <1>2 DEF FinishTurn, ContainerExit, Reap, ReapStop, ReapRemove,
               RemoveLeftover, controlVars
  <2>2. turn' = turn \/ turn' = [turn EXCEPT ![c] = NoRun]
    BY <1>2 DEF FinishTurn, ClearRunning, ContainerExit, Reap, ReapStop,
               ReapRemove, RemoveLeftover, StopContainer, RemoveContainer,
               KillRuntime, runtimeVars
  <2>3. QED BY <2>1, <2>2, GiveUp, TurnEnds
<1>3. CASE Crash
  <2>1. turn' = turn
    BY <1>3 DEF Crash, runtimeVars
  <2>2. \A q \in Runs : pc'[q] \in BeforeForward => pc[q] \in BeforeForward
    BY <1>3 DEF Crash
  <2>3. QED BY <2>1, <2>2, GiveUp
<1>4. CASE turn' = turn /\ pc' = pc
  BY <1>4, GiveUp
<1>5. QED
  BY <1>1, <1>2, <1>3, <1>4
  DEF Next, TurnStep, WatchStep, Boot, vars, runtimeVars, controlVars,
      Heartbeat, Lapse, CheckStale, TakeStale, EmitStopped, SetIdleStale,
      ReportRunning, ReportIdle, ListLeftovers, Serve

(* The control plane implements SessionTurns: a message is executed at     *)
(* most once, a session executes one message at a time, and a message that *)
(* is over stays over.                                                     *)
THEOREM Refinement == Spec => TurnsSpec
<1>1. Init => Turns!Init
  BY DEF Init, RuntimeInit, fate, Turns!Init
<1>2. IInv /\ [Next]_vars => [Turns!Next]_fate
  BY StepRefines
<1>3. QED BY <1>1, <1>2, Invariance, PTL DEF Spec, TurnsSpec, Turns!Spec
=============================================================================
