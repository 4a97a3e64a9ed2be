---------------------------- MODULE Conversation ----------------------------
(***************************************************************************)
(* A conversation: the messages a client sends to one session, the event   *)
(* log they are stored in, the payloads the control plane builds from that *)
(* log (Orchestrator.buildForwardPayload), and the agent loop that turns   *)
(* each payload into requests to the model and more events.                *)
(*                                                                         *)
(* The sandbox is up throughout: the hazards here are those of the history *)
(* itself and of the reports it is made of, not those of Orchestrator.     *)
(***************************************************************************)
EXTENDS AgentLoop, Integers

CONSTANTS
  MaxMessages,   \* bound of the model: messages the client sends
  Polite         \* TRUE: the client waits for the end of each turn

ASSUME ConversationAssumption == MaxMessages \in Nat /\ Polite \in BOOLEAN

VARIABLES
  run,         \* run[m]: where message m's call of Run stands
  payload,     \* payload[m]: what that call has built; whole tells whether
               \* its messages are made of all events, and of each once
  memory,      \* sessions.memory
  whole        \* what payload.whole was for the turn that began last

clientVars == <<run, payload, memory, whole>>
vars == <<logVars, loopVars, clientVars>>

Msgs == 1 .. MaxMessages

Types == {"user.message", "agent.message", "agent.tool_use", "agent.tool_result",
          "span.model_request_start", "span.model_request_end",
          "session.status_running", "session.status_idle", "session.error",
          "runtime.error"}

EventSet   == [type : Types, ref : Nat, cleared : BOOLEAN]
MessageSet == [role : {"user", "assistant"}, content : Seq(EventSet)]
MemorySet  == [known : BOOLEAN, covers : SUBSET EventSet]
PayloadSet == [messages : Seq(MessageSet), memory : MemorySet, whole : BOOLEAN]

NoPayload == [messages |-> <<>>, memory |-> NoMemory, whole |-> FALSE]

TypeOK ==
  /\ log  \in Seq(EventSet) /\ \A i \in DOMAIN log : ~log[i].cleared
  /\ made \in Seq(EventSet)
  /\ astray \in 0 .. MaxAstray
  /\ step  \in {"off", "round", "request", "end"}
  /\ round \in 0 .. MaxRounds
  /\ messages \in Seq(MessageSet)
  /\ outbox   \in Seq(EventSet)
  /\ calls \in 0 .. MaxMessages * (MaxRounds * MaxTools)
  /\ run   \in [Msgs -> {"new", "load", "fetch", "persist", "forward", "over"}]
  /\ payload \in [Msgs -> PayloadSet]
  /\ memory  \in MemorySet
  /\ whole   \in BOOLEAN

Init ==
  /\ log = <<>> /\ made = <<>> /\ astray = 0
  /\ LoopInit
  /\ run     = [m \in Msgs |-> "new"]
  /\ payload = [m \in Msgs |-> NoPayload]
  /\ memory  = NoMemory
  /\ whole   = FALSE

-----------------------------------------------------------------------------
(* A polite client sends when everything it sent is over and the turn has  *)
(* reported its end (the server's running flag may still be set).  It sees *)
(* that from the log, where a report gone astray may look like that end.   *)
Misled ==
  /\ astray > 0
  /\ \E i \in DOMAIN log :
       /\ log[i].type = "session.status_idle"
       /\ \A j \in i .. Len(log) : log[j].type # "user.message"

Settled ==
  /\ \A m \in Msgs : run[m] \in {"new", "over"}
  /\ step \in {"off", "end"} /\ outbox = <<>>

(* EventHandler.Send: the message is stored, then its Run starts.          *)
Send(m) ==
  /\ run[m] = "new"
  /\ \A k \in 1 .. m - 1 : run[k] # "new"
  /\ Polite => Settled \/ Misled
  /\ Store(Event("user.message", m))
  /\ run' = [run EXCEPT ![m] = "load"]
  /\ UNCHANGED <<loopVars, payload, memory, whole>>

(* buildForwardPayload, three calls to the store.  The session's memory is *)
(* read first ...                                                          *)
LoadMemory(m) ==
  /\ run[m] = "load"
  /\ payload' = [payload EXCEPT ![m].memory = memory]
  /\ run' = [run EXCEPT ![m] = "fetch"]
  /\ UNCHANGED <<logVars, loopVars, memory, whole>>

(* ... then the log's first page, which is compressed ...                  *)
FetchEvents(m) ==
  /\ run[m] = "fetch"
  /\ \E weight \in Weights :
       LET res == Compress(ListBySession(log), payload[m].memory, weight) IN
       /\ payload' = [payload EXCEPT ![m] =
                        [messages |-> EventsToMessages(res.events),
                         memory   |-> res.memory,
                         whole    |-> res.tier < 3 /\ Len(log) <= Limit /\ astray = 0]]
       /\ run' = [run EXCEPT ![m] = IF res.tier >= 2 THEN "persist" ELSE "forward"]
  /\ UNCHANGED <<logVars, loopVars, memory, whole>>

(* ... and what tier 2 or 3 has extracted becomes the session's memory.    *)
PersistMemory(m) ==
  /\ run[m] = "persist"
  /\ memory' = payload[m].memory
  /\ run' = [run EXCEPT ![m] = "forward"]
  /\ UNCHANGED <<logVars, loopVars, payload, whole>>

(* forwardPayload and HandleEvents: the history and, after it, the message *)
(* itself make the turn's conversation; a busy runtime refuses.            *)
Forward(m) ==
  /\ run[m] = "forward"
  /\ \/ /\ StartTurn(Append(payload[m].messages,
                            Message("user", <<Event("user.message", m)>>)))
        /\ whole' = payload[m].whole
        /\ UNCHANGED logVars
     \/ /\ step # "off"
        /\ Store(Event("runtime.error", m))
        /\ UNCHANGED <<loopVars, whole>>
  /\ run' = [run EXCEPT ![m] = "over"]
  /\ payload' = [payload EXCEPT ![m] = NoPayload]
  /\ UNCHANGED memory

RunStep(m) == LoadMemory(m) \/ FetchEvents(m) \/ PersistMemory(m) \/ Forward(m)

Next ==
  \/ \E m \in Msgs : Send(m) \/ RunStep(m)
  \/ (LoopStep \/ StoreLate) /\ UNCHANGED clientVars

Spec == Init /\ [][Next]_vars

(* The loop's calls return: it goes on until its turn is over.             *)
FairSpec == Spec /\ WF_vars(LoopStep /\ UNCHANGED clientVars)

-----------------------------------------------------------------------------
(* Every conversation put to the model is one the Messages API accepts,    *)
(* after turns that ended in an answer, in an API error after some rounds  *)
(* of tools, or in the maximum of rounds, and although old results are     *)
(* cleared on the way: as long as the turn was given the whole history,    *)
(* that is one that was not compacted, fits into a page and tells every    *)
(* report once.  What the turn itself has added is paired whatever the     *)
(* history was and whatever becomes of its reports.                        *)
ThisTurn == SubSeq(messages, Len(messages) - 2 * round, Len(messages))

WellPaired ==
  step = "request" => Paired(ThisTurn) /\ (whole => Paired(messages))

(* Nothing said is forgotten: whatever was compressed into the memory and  *)
(* when, what the client and the agent have said when a payload is built   *)
(* is in its memory or among its messages, if the log fits into a page.    *)
Said(evts) == {e \in ToSet(evts) : e.type \in {"user.message", "agent.message"}}

Told(p) == p.memory.covers \cup UNION {ToSet(p.messages[i].content) : i \in DOMAIN p.messages}

NothingForgotten ==
  [][\A m \in Msgs :
       (run[m] = "fetch" /\ run'[m] # "fetch" /\ Len(log) <= Limit)
         => Said(log) \subseteq Told(payload'[m])]_vars

(* The log tells each turn as a whole: status_running and status_idle      *)
(* alternate and the first is a status_running (up to no event are there   *)
(* more of the second than of the first, or two more of the first than of  *)
(* the second), requests begin and end one at a time, and when no turn is  *)
(* in progress nothing is left open, a tool call least of all.  A report   *)
(* gone astray puts the log out by one event and no more, now or later.    *)
Count(evts, type, n) == Cardinality({i \in 1 .. n : evts[i].type = type})

Lead(evts, open, close, n) == Count(evts, open, n) - Count(evts, close, n)

Alternates(evts, open, close, out) ==
  \A n \in 0 .. Len(evts) : Lead(evts, open, close, n) \in - out .. out + 1

Balanced(evts, open, close, out) ==
  Lead(evts, open, close, Len(evts)) \in - out .. out

LogTellsTurns ==
  /\ Alternates(log, "session.status_running", "session.status_idle", astray)
  /\ Alternates(log, "span.model_request_start", "span.model_request_end", astray)
  /\ step = "off" =>
       /\ Balanced(log, "session.status_running", "session.status_idle", astray)
       /\ Balanced(log, "span.model_request_start", "span.model_request_end", astray)
       /\ Balanced(log, "agent.tool_use", "agent.tool_result", astray)

(* A turn ends, however many tools the model asks for.                     *)
TurnsEnd == step = "round" ~> step = "off"

-----------------------------------------------------------------------------
(* What the comments say and the code does not do.                         *)

(* "Fetch all session events from DB": what has been said is known, in     *)
(* sessions of any length.                                                 *)
AllEventsFetched ==
  [][\A m \in Msgs : (run[m] = "fetch" /\ run'[m] # "fetch")
       => Said(log) \subseteq Told(payload'[m])]_vars

(* "Messages are recent conversation turns in Anthropic Messages API       *)
(* format": also of a history that has been compacted.                     *)
AlwaysPaired == step = "request" => Paired(messages)
=============================================================================
