# A TLA+ verification of Macada

Macada is a self-hosted control plane for managed agents.  A client creates a
session and sends it messages; the control plane gives every session a sandbox
container of its own, forwards messages to the runtime in it, and the runtime
runs an agent loop (model requests and tools) that reports its events back.
This directory holds TLA+ models of that machinery, TLC configurations that
check them on small instances, and TLAPS proofs.  Paths below are relative to
`src/backend/`.

## 1. Inventory

| component | state | operations | what is hard |
|---|---|---|---|
| sandbox orchestrator (`internal/sandbox/orchestrator.go`) | `o.sandboxes` under `o.mu`; one goroutine per call of `Run`; a watcher; clean-up goroutines | `Run` (ensure, provision, build payload, forward), `RecordHeartbeat`, `checkStaleHeartbeats`, `handleStaleSandbox`, `ReconcileOnBoot` | the lock is released between look-up and provision; entries are deleted by session, not by container; clean-up outlives its entry; the map does not survive a restart |
| engine client (`internal/sandbox/docker.go`) | none; the engine's containers and their names | create, copy, start, inspect, stop, remove, list | calls fail, or succeed without a reply; names are exclusive |
| runtime server (`internal/runtime/server.go`) | `running` flag | `Health`, `HandleEvents` | a second payload is refused; the flag is cleared after the end is reported |
| agent loop (`internal/runtime/loop`) | the conversation of one turn, its round | model requests, tools, reports, mid-turn compression | failures and limits in the middle of tool use |
| context compression (`internal/runtime/context`) | none; the session's memory in the database | thinning, memory extraction, compaction, events to messages | cuts that separate what belongs together; what is forgotten |
| reporter (`internal/runtime/reporter`) | none | `Report` with retries, heartbeats | lost and repeated reports; beats against a threshold |
| event API and ingestion (`internal/api/handler/event_handler.go`, `internal_handler.go`) | events, session status and usage in Postgres | `Send`, `List`, `Stream`, `IngestEvents`, usage | several writes per request; read-modify-write of usage; cursors |
| event bus (`internal/infra/redis`) | subscriptions | publish, subscribe | what a subscriber misses |
| agents, environments, sessions (`agent_handler.go`, `environment_handler.go`, `session_handler.go` and their repositories) | rows; a session holds a snapshot of its agent | create, update, archive, delete | checks some calls before the write they are for; versions counted in a copy |
| vaults (`vault_handler.go`, `vault_repo.go`) | rows with metadata, secrets | create, update, archive, delete, secrets | metadata is read, patched and written back |
| files and resources (`file_handler.go`, `resource_handler.go`, `internal/storage/local.go`) | rows, blobs, resources of sessions | upload, download, delete, attach, detach, mount | row and blob are two steps; deletion against attachment and mounting |
| skills (`skill_handler.go`, `skill_service.go`, `skill_repo.go`) | rows, unique by name | create, update, delete | look-up before write; files kept from a copy |
| accounts, workspaces, API keys (`service/auth.go`, `apikey_handler.go`, `middleware/auth.go`) | users, workspaces, members, keys | register, login, bootstrap, authorise, create, revoke, delete | three rows without a transaction; uses recorded in the background |
| analytics (`internal_handler.go`, `analytics_repo.go`) | request log, daily and session usage | counting | counters under retries and lost replies |
| LLM proxy, rate limiter | token buckets | proxy, `Allow` | - |
| tools, prompt builder, configuration, deployment archive | none of their own | I/O, formatting | - |
| web frontend | - | a client of the API | - |

What makes them correct: a session has one sandbox and one turn at a time; a
registered sandbox exists and is the session's; a session shown as running has
a turn or will be settled; every message gets an answer; the log tells whole
turns; what the model is sent is well formed and complete; what a client is
shown is all there is; and the tables and the storage of the API agree with each
other, and with what was answered, however requests overlap.  The hazards
behind these, with their lines, are in `PROJECT.json`.

## 2. The modules

    Engine <- RuntimeServer <- Orchestrator <- MCOrchestrator   (TLC instances)
                                    |      <- OrchestratorProofs
                                    +-- INSTANCE SessionTurns    (refinement)
    Context <- AgentLoop <- Conversation <- ConversationProofs
    EventPages <- EventPagesProofs
    Requests <- Vaults, Agents, Files, Skills, Accounts  <- MCControlPlane
                Delivery                                 <- MCControlPlane
    X <- XProofs   for X each of Agents, Files, Accounts, Delivery
    MCControlPlane, the four XProofs <- ControlPlaneProofs   (also Vaults, Skills)

(`A <- B`: B EXTENDS A.)

### Sandboxes and sessions

**Engine** is Docker as `docker.go` uses it: `box[c]` is the state of container
c.  A call of `Run` creates at most one container, so container c is named after
the message whose run creates it.  All containers of a session share one name;
`CreateContainer` is refused while it is taken.  The engine is outside the
repository; its behaviour is modelled from the calls and from what the client
does with the replies.

**RuntimeServer** adds `turn` (the running flag and the message being worked on)
and `phase` (whether the turn has reported that it runs, or that it is idle),
and what becomes of them when a container stops or is removed.

**Orchestrator** has one action per step of `Run`, of the watcher, of a clean-up
goroutine, of a status report and of the boot.  A step is one call to the
engine, the database or the runtime, or one critical section of `o.mu`;
goroutines interleave between any two.  `pc[r]` is where message r's call
stands, `sbx[r]` the sandbox it holds, which may no longer be the registered
one.  `lapsed` abstracts time: the sessions whose last heartbeat is more than
90 s old.  `Faults` chooses what may go wrong: a container exits, a call to the
engine or a read of the database fails, a create's or a forward's reply is lost
(with the effect taking place), reports or heartbeats are lost, the control
plane is restarted.  `Polite` says whether clients wait for a session to settle
before they send again.

**SessionTurns** is the abstract promise: a message waits, may be executed once,
and is over; the messages of a session are executed one at a time.  The
refinement mapping `fate` is computed from `turn` and `pc`.

### Conversations

**Context** models `internal/runtime/context` as operators on sequences of
events: a type, a reference (message, turn or tool call) and whether the content
has been cleared.  Token counts are left open: a history may exceed no
threshold, the first, or the second, whatever it contains.  `ExtractMemory`
stands for the summary by the set of events that are mentioned in it; that
excerpts are cut at 200 bytes is not modelled.  `ListBySession` is the first
page of the log.  `EventsToMessages` says which events make which message
without a loop over the history: events that are metadata are nobody's, a
message starts where no event of its role comes before it but for metadata
(`Starts`), and its blocks are what is said from there to the next start.

**AgentLoop** is `RunWithInput`: the loop decides a batch of reports (`outbox`),
makes them one at a time, and anything else may be stored in between.  Reports
are not stored exactly once.  `Report` is one that was stored; `ReportLost` one
that was given up, refused, or answered with 200 and not stored, which the loop
does not notice or ignores; `StoreLate` stores an event of the runtime once
more, or after it was given up, perhaps some events later.  `astray` counts the
events that `log` lacks or has once too often, and the history variable `made`
is the log there would be without them.  The model
may answer with a text, with tool calls, with both or with nothing, and a
request may fail.  It is assumed that a response that stops with `end_turn` has
no tool calls, which the API guarantees.

**Conversation** composes both with `Send`, `buildForwardPayload` in its three
database steps, and `HandleEvents`.  The prompt a turn starts from is the history
followed by the new message; as the new message is already stored, the prompt
contains it twice, in the model as in the code.  That two kinds of events
alternate is said by counting: up to no event of the log are there more ends
than beginnings, nor two beginnings more than ends; with reports gone astray, by
as many more as there are of these (`Lead`, `Alternates`).  A client that waits
goes by the log, so that a repeated `status_idle` can make it send early
(`Misled`).

### The log

**EventPages** is a client that reads a session's log page by page
(`EventHandler.List`, `ListBySession`, `pkg/pagination`) while events are being
stored.  An event is made (`processed_at`), its INSERT begins (`created_at`, the
column's default), and it is committed; requests overtake each other between
any two of these.  Rows are sorted by `created_at` and id, but the cursor holds
`processed_at` and id.  Ids are numbers, as only their order matters; they are
not related to time, since ids of one millisecond are random.

**Delivery** is the way of a report from the runtime to the log, the counters
and a client.  The runtime makes one report at a time and repeats one that gets
no answer; an attempt that timed out may still be working at the server, next
to its own retry.  An event is named by the attempt that brought it, so a
duplicate is a second event, as in the code.  At the server `Then` is the order
of `IngestEvents` and `recordAnalytics`: store, publish, read the session's
usage, write the request log, add to the day, write the session's usage.  An
event whose INSERT is reported as failed is passed over (the answer is 200 all
the same) although it may be stored; counters whose statement fails are passed
over too (`LossyCounters`).  `viewer` is a client of `Stream` that subscribes
and then lists the log; what is published may be lost on the bus or in its
buffer (`undelivered`).  Every request spends one token.

### The control plane's API

Each request is a goroutine that makes one call to the database or the storage
at a time; between two calls anything else may happen.  **Requests** has what
the handlers share: `at[q]` is where request q stands or how it ended ("ok",
"refused" for 400, 404 and 409, "failed" for 500), and `Caller[q]` the workspace
it is authorised for.  A request whose client or server goes away makes no
further call: in the models it stands where it is.  A body that does not pass
validation changes nothing, and is left out where refusing it is all there is.

**Vaults**: `ReadVault` and `WriteVault` are the two calls of `Update`; the row
that `WriteVault` writes is the copy, patched.  Metadata is the set of keys that
are set.  The history variable `agreed` is what the acknowledged requests add
up to, and `overtaken` the vaults that changed between an Update's read and
write.

**Agents** has agents, environments and sessions, as a session refers to an
environment by a foreign key and holds a snapshot of an agent.  `held[q]` is
what request q has read.  A field of an agent holds the request that set it, so
that two updates can be told apart; `UpdateAgent` changes any subset of the
fields in the copy, counts its version up, and writes it back, except
`archived_at`.  `versionRaced` are the agents that got two updates of one
version; the version can then even go back.

**Files** has uploads by users and by the runtime, download, deletion, the
resources of sessions in their three ways of coming about (`Add`, the list
of a new session, and `Update`/`Delete`), and the mounting of files by
`provision`, whose contents go into one tar by mount path (`Place`,
`buildFileMountTar`).  The client names the paths and nothing keeps two
resources of a session from having the same: the later one replaces the earlier
without a word.  Paths are as the tar has them (without a leading `/`), and
none is a directory of another.  A statement reported as failed may have been carried out
(`misreported`), the storage may fail to remove a blob (`unremoved`), a read may
fail during a mount (`erred`).

**Skills** takes the text or the archive of a skill as an upload that passes or
does not; what passes has a name, a text and the files beside it.  The look-up
of a name may fail, which counts as not taken; the unique index decides.
`filesAgreed` are the files of the last archive, `skillRaced` the skills that
were updated from an older row.

**Accounts** names users, workspaces and keys by the request that makes them.
Registration is a look-up and three INSERTs, any of which may fail, with or
without effect.  A request enters with a token or with a key; the use of a key
is recorded by a step of its own (`TouchLastUsed`) that may come at any later
time.  `shut` are the keys whose revocation or deletion was answered.

**MCControlPlane** instantiates the six for TLC.  They share no tables, so a
behaviour of the control plane is one of each of them; an instance works on
one component, chosen at the start (`component`).

## 3. The runs

Orchestrator runs (`MCOrchestrator`).  A session's messages contend for one
sandbox, so two messages are enough for every pair of steps of two calls, and a
third brings a message that arrives while the first two are at odds.

| run | instance | checks |
|---|---|---|
| `orchestrator_faults` | 1 session, 2 messages, every fault, impatient clients; symmetric messages (no liveness is checked) | `TypeOK`, `ExclusiveTurns`, `IInv`, `RegisterReplacesNothing`, `TurnsSpec` |
| `orchestrator_fault_free` | 1 session, 3 messages, no fault, impatient clients, fair | `RunningIsTrue`, `EveryMessageAnswered` |
| `orchestrator_liveness` | 2 sessions, 3 messages, containers exit, polite clients, fair | `RegisteredSandboxExists`, `RunningSettles`, `EveryMessageAnswered` |
| `conversation` | 2 messages, 2 rounds, 1 tool call per response, 1 report astray, page of 12 events, 1 result kept by thinning and by mid-turn clearing, 3 events kept by compaction, fair | `TypeOK`, `WellPaired`, `LogTellsTurns`, `NothingForgotten`, `TurnsEnd` |
| `pages` | 4 events, pages of 2, 3 instants, both orders | `TypeOK`, `NothingSkipped`, `NothingRepeated`, `WalkInv` |
| `control_plane` | 3 requests to one component, or 1 report with 1 retry, all failures; 2 ids of each kind (1 agent, 1 session with files, 1 secret key) and 2 mount paths, 2 workspaces | `ControlTypeOK`, `VaultsConsistent`, `PatchesAddUp`, `SessionHasEnvironment`, `VersionsIdentify`, `ArchiveKept`, `RowsHaveBlobs`, `BlobsAccountedFor`, `MountsComplete`, `SkillsConsistent`, `RegistrationsComplete`, `ShutKeysStayShut`, `ReportsKept`, `UsageAddsUp`, `StreamComplete` |

With four events and pages of two there are a first page, a next one that can
begin with old or with new events, and events that arrive in every order; three
instants let an event be older, equal and newer than another in either time.

In `orchestrator_liveness` the sessions share the watcher and its list: what it
does about one must not touch the other.

In `control_plane` two requests race for a row and a third shows what they have
made of it, or is a second session made from the raced agent; a deletion can
meet an upload and a mount, a revocation an earlier use.  All requests come
from one workspace, and one vault and one environment of another are there to
be refused.  Vaults, agents and environments may be there at the start; the
limit of metadata is 1 of 2 keys, so that two updates together exceed it.  One
report with one retry is a duplicate that runs next to its original; all four
counters may fail.  The theorems of section 4 show that more requests, ids,
reports and retries change nothing.

The bounds of `conversation` are the code's constants (100 events, 50 rounds, 5
and 3 results, 10 events) scaled down so that a conversation of two messages
passes each of them: the log outgrows its page, turns use up their rounds,
results are old enough to be cleared in both ways, and compaction cuts inside a
turn.  One report of either turn, any one, is lost, or stored a second time at
once or up to `MaxLate` = 2 events after it was made; the second turn may then
have a history with the gap or the duplicate in it.  Messages, rounds and calls
only repeat what happened before, and the theorems of section 4 are about any
number of each, and any number of reports that go astray.  The two runs that
refute a claim (`conversation_long`, `conversation_poisoned`) have three
messages, a page of 20 events, and `MaxAstray` = 0: what they show does not come
from lost reports.

Runs that stop by themselves have `CHECK_DEADLOCK FALSE`: messages are finite.

Six runs show that the code does not do what a comment says.

- `orchestrator_fresh`, `NextAttemptProvisionsFresh`.  `Run` says "Remove stale
  sandbox so next attempt provisions fresh" (`orchestrator.go:123`).  It removes
  the entry and not the container, whose name makes the engine refuse the next
  one.  Without the entry the watcher does not find the container either.
- `orchestrator_drop`, `DropsTheFailedSandbox`.  The same lines delete whatever
  entry the session has by then: between the failed forward and the delete the
  watcher can take the failed sandbox away and another message can register a
  new one.
- `conversation_long`, `AllEventsFetched`.  `buildForwardPayload` says "Fetch
  all session events from DB" (`orchestrator.go:149`) and fetches the first 100.
- `conversation_poisoned`, `AlwaysPaired`.  Compaction may keep a tool result
  whose call it has summarised, and the messages made of it are not in the
  format of the Messages API (`messages.go:9`, `forward.go:14`).
- `pages_twice`, `EachEventOnce`.  `cursor.go:9` has the cursor made of
  `created_at` and id; `event_repo.go:86` makes it of `processed_at`, which is
  earlier.  Oldest first, the last row of a page is returned again (with a limit
  of 1 the walk never advances); newest first, rows between the two times are
  skipped.  What remains true is what `pages` checks: nothing is skipped oldest
  first, nothing comes twice newest first.
- `vault_patches`, `OmittedKeysPreserved`.  `Update` of a vault says "set key to
  null to delete, omitted keys preserved" (`vault_handler.go:155`).  Of two
  updates that have read the same row the second writes its own copy over what
  the first has set.  What remains true is what `control_plane` checks: a vault
  that no write overtook has what the requests add up to (`PatchesAddUp`).

### Fairness

`Orchestrator`: weak fairness of every step of `Run`, of a turn, of a clean-up
goroutine, of the watcher and of the boot (goroutines are scheduled, every call
has a timeout, the ticker ticks, turns have at most 50 rounds), and of `Lapse`
(a container that is down sends no heartbeat, so its silence lasts until the
threshold).  No fairness of `Send`, of any fault or of `Heartbeat`.
`Conversation`: weak fairness of the loop only; requests have timeouts and tools
end.

### What holds only under assumptions

- `RunningIsTrue` is one direction: a session shown as running has a turn in
  progress.  The other does not hold: a refused message sets the session idle
  while the turn that refused it runs on (`orchestrator.go:121`).  It is checked
  without faults.  With them the status can be wrong in both ways: a forward
  that times out after it was accepted sets a running session idle; a status
  report that is given up leaves the old status; after a restart of the control
  plane, sessions stay running until their next turn.
- `RunningSettles` needs polite clients: a delayed `DropSandbox` of a refused
  message can remove the entry of the sandbox whose turn is in progress, and if
  that container then exits the watcher has nothing to find.
- `EveryMessageAnswered` needs `buildForwardPayload` not to fail: that failure
  ends `Run` without an event (`orchestrator.go:109`).
- `WellPaired` holds of what a turn has added to its conversation without any
  condition.  Of the history it was given it holds if that is whole (`whole`),
  for clients that wait for `session.status_idle`.  A history is not whole if it
  was compacted, or cut by the page (between a call and its result this has the
  same effect), or made of a log in which a report went astray: a call or a
  result that was given up, or answered with 200 and not stored, leaves the
  other alone, and a repeated one can stand where it does not belong
  (`reporter.go:71-108`, `internal_handler.go:98`).  Nothing repairs such a log,
  and every later history of the session has the same flaw until it is
  compacted.  A message stored during a turn stands between a call and its
  result in the same way.
- `LogTellsTurns` says that turns and requests alternate in the log and are
  closed only if no report went astray.  Each one that did, by loss or by
  repetition, puts the log out by one event: two `status_running` in a row, a
  call without a result.  What the property excludes is that one fault has a
  wider effect, or that the log is wrong without any.
- `NothingSkipped` and `NothingRepeated` need the clocks of the server and of
  the database to agree: they rest on `processed_at` not being later than
  `created_at`.
- `PatchesAddUp`, `VersionsIdentify`, `FilesKept` and the lower bound of a
  session's usage except the rows that were written from a copy older than the
  row (`overtaken`, `versionRaced`, `skillRaced`, `usageRaced`).  The exceptions
  are the read-modify-write races of these handlers, which nothing in the
  repository promises to avoid but in the case of `vault_patches`.  So these
  properties do not show the races: they say that nothing else goes wrong.
  `vault_patches` is the run that exposes one.
- `RowsHaveBlobs` and `BlobsAccountedFor` except files whose INSERT or DELETE was
  carried out and reported as failed: the handler then removes the blob of a
  file that has a row, or keeps the blob of one that has none.
- `MountsComplete` is about mounts during which no read failed: `provision` logs
  a failed read and goes on, so that a sandbox can start without a file.  It is
  about paths: of resources that share one the sandbox gets a single file, of a
  resource alone on its path it gets that.
- `StreamComplete` needs the client to subscribe before it lists, which is the
  client's business, and excepts what the bus has lost.  An event whose INSERT
  was reported as failed is never published, even when it is in the log.
- `UsageAddsUp` counts a repeated report twice, as the code does: nothing
  recognises a retry.
- A provision that comes while the clean-up goroutine of the previous sandbox
  is still removing it is refused by the name, although `StartWatcher`'s comment
  has the next message provision a fresh one; that is the same hazard as
  `orchestrator_fresh`, and short-lived.

## 4. The proofs

Eight modules of proofs, all checked to the last step.  Every theorem is about
all values of the constants that the named assumptions allow.  Every invariant
and every action property that a run checks is the conclusion of a theorem;
`EachEventOnce` and the other five that runs refute are of course not.

### Orchestrator

`OrchestratorProofs` proves, for every set of sessions, messages and faults and
with or without polite clients, from `RunsAssumption` (each message has a
session, and "no message" is not one) and `OrchestratorAssumption`:

| theorem | statement |
|---|---|
| `Invariance` | `Spec => []IInv` |
| `TypeCorrect` | `Spec => []TypeOK` |
| `RegisteredExists` | `Spec => []RegisteredSandboxExists` |
| `TurnsExclude` | `Spec => []ExclusiveTurns` |
| `RegisterIsSafe` | `Spec => RegisterReplacesNothing` |
| `RunningTells` | `Spec => []RunningIsTrue`, if `Faults = {}` |
| `Refinement` | `Spec => TurnsSpec` |

The argument.  Nothing in the orchestrator itself keeps two calls of `Run` from
provisioning for one session; the engine's names do.  `OneContainer` says that
at most one container of a session exists, `BoxFollowsRun` what a call has made
of its container so far, and `ProvisionedUnclaimed` and `RegisteredUnclaimed`
that the map, the watcher and the clean-up goroutines never lay hands on a
container that is not theirs: without them a removal could take the container
of a provision in progress, and the name would be free for a second one.
`TurnsAreForwarded` ties a turn to a running container and to a message that
cannot be forwarded again.  With `HoldsOwnSandbox`, `WatcherHasVictim` and
`DownIsEmpty` (nothing is in memory while the server is down) the conjunction is
inductive: there is one lemma per action, and `NextStep` joins them.  Turns
exclude each other because two turns need two running containers of a session.
`Refinement` maps a successful `Forward` to `Begin`, and every step after which a
message can no longer be executed (a refusal, a failure, the end of a turn, the
end of a container with its turn, a crash with all calls) to `Conclude`.

`RunningTells` is about the fault-free system, whether clients wait or not.
Besides `IInv` it needs `Calm`: the server is up, containers only come up, no
clean-up runs and the watcher finds nothing.  Then the status follows the
reports of the turn, and the one write that comes from elsewhere, the "idle" of
a refused message, only takes "running" away.

### Conversations

`ConversationProofs` proves, for any number of messages, rounds and tools per
response, any page size, any numbers of events and results kept, and any number
of reports that go astray and any delay of a repeated one, from
`ContextAssumption`, `LoopAssumption` and `ConversationAssumption` (these
numbers are natural):

| theorem | statement |
|---|---|
| `Invariant` | `Spec => []Inv` |
| `TypeCorrect` | `Spec => []TypeOK` |
| `LogIsNear` | `Spec => []Near` |
| `TurnsAreTold` | `Spec => []LogTellsTurns` |
| `TurnsArePaired` | `Spec => [](step = "request" => Paired(ThisTurn))` |
| `RequestsArePaired` | `Spec => []WellPaired`, if `Polite` |
| `NothingIsForgotten` | `Spec => NothingForgotten` |

Neither `LogTellsTurns` nor the bound of `calls` in `TypeOK` is inductive, and the
log alone is no place to start from, as reports are missing in it or twice in
it.  `Inv` is about `made`, what was reported whether or not it was stored,
followed by the outbox, the reports already decided: `MarksOf` says that in both
together one turn is open while the loop is in a round or a request, one request
while it is in a request, and that tool calls and results are equal in number.
A step of the loop appends to the outbox and moves on; the end of a report moves
its first event over, stored or not, and changes nothing; a late attempt touches
neither; and what others store in between (messages, refusals) can stand
anywhere without changing a count (`MarkedAmong`, `EvenAmong`).  What was made is
a prefix of both, and prefixes of alternating sequences alternate
(`AlternatingPrefix`).  `Shape` bounds the calls by the messages whose `Run` is
over, one turn each, and the present round.

`Near` compares the log with `made`: up to any event, and at the end, the lead of
one type over another in the log is within `astray` of one in `made`.  An event
stored makes both grow alike (`NearBoth`), a report that is lost adds to `made`
only (`NearLost`), a late attempt to the log only (`NearLate`); one event changes
a lead by one at most (`LeadGrows`).  `TurnsAreTold` follows from both.

`NothingIsForgotten` rests on `CompressForgetsNothing`, about one compression: at
each tier every event is kept, perhaps emptied, which messages never are
(`ThinKeeps`), or is in the memory, and every event that says something is in
some message (`MessagesSay`).

`TurnsArePaired` is about the conversation in the loop, which no report comes
back into: the message that began the turn and two more for each round (`Talk`).
A round adds a message of calls and one of their results (`ToolsTalk`,
`RoundPaired`), and clearing old results leaves types and references alone
(`MidTurnPaired`).

`RequestsArePaired` is about the history before that, and needs more about a
client that waits: as long as no report has gone astray, while one of its
messages is on its way, it is the only one, no turn is in progress and nothing
is left to report (`Quiet`).  So a payload built before any report goes astray
is built from a log of whole rounds, in which each call is answered before
anybody else speaks (`PairedEvents`), and one built later is not `whole`.
`HistoryPaired` carries that over to the messages: between a call and its
result the speaker changes once, so that the result is in the next message.
Thinning leaves types and references alone (`SamePaired`).  A payload or a turn
that has been built keeps its messages whatever becomes of reports afterwards
(`Pairs`).  Without politeness the theorem is false, and so it is without the
condition on reports.

### Pages

`EventPagesProofs` proves, for every finite set of events, page size and last
instant (`PagesAssumption`):

| theorem | statement |
|---|---|
| `WalkInvariance` | `Spec => []WalkInv` |
| `PagesTypeCorrect` | `Spec => []TypeOK` |
| `AscendingIsComplete` | `Spec => []NothingSkipped` |
| `DescendingRepeatsNothing` | `Spec => []NothingRepeated` |

The cursor is never later than the row it was made for (`MadeBeforeInserted`).
Oldest first it therefore lies before everything that follows the page
(`StillAhead`); newest first what has been returned is not before it
(`LeftBehind`).  Lemmas about the order show that a page is a prefix of the
candidates (`PageIsPrefix`), that it is not empty and has a last row
(`PageNotEmpty`, `HasLast`, from the well-foundedness of strict inclusion on
finite sets), and that it has at most `PageSize` rows (`PageIsBounded`).

### The API and the delivery of reports

| module | assumptions | theorems |
|---|---|---|
| `ControlPlaneProofs` | `VaultsAssumption` | `VaultsInvariance`, `VaultsStayConsistent`, `PatchesAlwaysAddUp` |
| `AgentsProofs` | `AgentsAssumption` | `AgentsInvariance`, `SessionsHaveEnvironments`, `VersionsAlwaysIdentify`, `ArchivedStays` |
| `FilesProofs` | `FilesAssumption` | `FilesInvariance`, `RowsAlwaysHaveBlobs`, `BlobsAreAccountedFor`, `MountsAreComplete` |
| `ControlPlaneProofs` | `SkillsAssumption` | `SkillsInvariance`, `SkillsStayConsistent` |
| `AccountsProofs` | `AccountsAssumption` | `AccountsInvariance`, `RegistrationsAreComplete`, `ShutKeysAreShut` |
| `DeliveryProofs` | `DeliveryAssumption` | `DeliveryInvariance`, `ReportsAreKept`, `StreamsAreComplete`, `UsageAlwaysAddsUp` |
| `ControlPlaneProofs` | all of these | `ControlInvariance`, `ControlTypeCorrect` |

But for the last row they are about each module's own specification
(`VaultsSpec` and so on), with any number of requests, which may all come from
different workspaces.  The last row is about `MCControlPlane`: `ControlInv` says
that the component which gets the requests keeps its invariant and the others
their types.  All of them share `at`, so that for each component one has to know
that none of its steps brings a request to the writing step of a vault
(`AgentsAside` and the like), the only place where a type depends on `at`.

The first theorem of each component is its inductive invariant, which says what
a request may rely on between its calls:

- *Vaults* (`VaultsInv`): the copy that an Update holds is within the limit of
  metadata (part of `MetadataBounded`).  A request that names no key writes its
  copy unvalidated, so the bound on the table alone would not be kept.
- *Agents* (`AgentsInv`): all copies of an agent, in the table, in requests and
  in sessions, agree on what a version is, and none is ahead of the table
  (`CopiesAgree`), unless updates raced.  What a request holds belongs to its
  caller and, but for environments, still exists (`HeldOK`): that a session's
  environment exists is the foreign key's doing, that it is the right
  workspace's the handler's.
- *Files* (`FilesInv`): no two requests upload one file, and nobody deletes a
  file that is not stored yet (`Apart`): the undo of an upload removes the blob
  of its own file only.  A resource's file has a row (`ForeignKey`), therefore
  content; and of each listed mount the path is taken in the tar, or the mount is
  still to do or being read, or its resource is gone (`MountsInv`).  A later
  content at a path takes the place of another but leaves the path taken
  (`Placed`), and what is placed was listed there (`Listed`).
- *Skills* (`SkillsInv`): an Update holds a row that was there; names are kept
  apart by the index alone.
- *Accounts* (`AccountsInv`): a registration between its INSERTs owns its email,
  an authorised request's workspace exists (`FormsOK`); a key that was shut is
  revoked or deleted, and no key is made a second time (`KeysOK`).
- *Delivery* (`DeliveryInv`): the runtime waits for the only attempt that has
  neither ended nor timed out (`ReporterInv`), so an answer is taken for the
  report it answers; a phase tells what was done with an attempt
  (`PhasesInv`); no copy of a session's usage is ahead of the attempts that
  have counted (`UsageInv`).

Only model-checked: liveness (`RunningSettles`, `EveryMessageAnswered`,
`TurnsEnd`), which depends on fairness and on steps being enabled and is out of
the prover's reach; the six properties that are refuted, by their nature; and,
in the instances where a component is idle, the properties of its own other
than its type (they are about its initial state there).

## 5. Not modelled

- Reuse of a container's IP address: a forward to a container that is gone fails.
- The orchestrator's own writes (events and statuses) succeed; reads and engine
  calls may fail.  In Orchestrator, storing an event and updating the status
  are one step of `Ingest`; Delivery has the steps of ingestion one by one, and
  repeated reports, for events that carry no status.
- `Teardown` (no caller), `session.status_terminated` (the runtime never reports
  it), archival of a session while its sandbox runs, `SessionRepo.Update` (no
  caller).
- Time: heartbeats lapse whenever they may be lost, whatever the 30 and 90
  seconds are; keys expire whenever they like.
- `Send` with several events, of which a part may be stored.
- The listings of agents, environments, sessions, vaults, skills, files and
  keys: they read one table and change nothing, and their cursors are made of
  the column they are sorted by, unlike those of events.
- Renaming and archiving a workspace: single statements, read by nothing that
  is modelled.
- Writes in Vaults, Agents and Skills that are reported as failed: without effect
  they are like a request that stops; with effect they are not distinguished
  from those that were answered, so that `PatchesAddUp` and `FilesKept` count
  them as acknowledged.
- The rate limiter (token buckets of a library: a matter of time), encryption,
  password hashes and tokens, the parsing of skills, the LLM proxy (stateless),
  tools, prompt text, deployment archive, configuration, the frontend, and the
  in-process demo runner that nothing starts.

## 6. Plan

Done, in this order: Engine, RuntimeServer, Orchestrator and SessionTurns with
their proofs; Context, AgentLoop, Conversation; EventPages with its proofs;
Requests with Vaults, Agents, Files, Skills and Accounts, and Delivery, each
with its proofs; the proofs about Conversation, about the fault-free
Orchestrator, and about the components of the API together.  What would come next:

1. **Heartbeat**: beats, retries and the threshold with time; a live sandbox is
   never taken for dead as long as outages are shorter than a bound to be proved
   from the constants.
2. `Send` in batches, cut off by an error, in Conversation.
3. Orchestrator with the repeated status reports of Delivery: which settled
   status a duplicate can undo.
4. An abstract specification of a conversation (turns, each with a history and
   an outcome) that Conversation implements.
