----------------------------- MODULE AgentLoop -----------------------------
(***************************************************************************)
(* One turn of the agent loop (internal/runtime/loop/loop.go): rounds of a *)
(* request to the model and the tools it asks for, each reported to the    *)
(* control plane as it happens.                                            *)
(*                                                                         *)
(* The loop decides a batch of reports at a time (outbox) and makes them   *)
(* one by one; a tool runs before its result is reported, with no effect   *)
(* on what is modelled.  Between two reports anything else may be stored.  *)
(* A report may go astray: the loop goes on with the next one whether it   *)
(* was stored, not stored or stored several times.  (Module Delivery has   *)
(* the attempts of a report one by one.)                                   *)
(***************************************************************************)
EXTENDS Context

CONSTANTS
  MaxRounds,   \* maxToolRounds: 50
  MaxTools,    \* bound of the model: tool calls in one response
  KeepRounds,  \* keepRecent of midTurnCompress: 3
  MaxAstray,   \* bound of the model: reports that go astray
  MaxLate      \* bound of the model: how many events later an attempt that
               \* was taken for failed may be stored

ASSUME LoopAssumption ==
  {MaxRounds, MaxTools, KeepRounds, MaxAstray, MaxLate} \subseteq Nat

VARIABLES
  log,         \* the session's events, in the order they were stored
  made,        \* history: the events as a log would have them in which
               \* every report is stored once
  astray,      \* history: how many events log lacks or has once too often
  step,        \* what the loop does once the outbox is empty
  round,       \* the number of the next round
  messages,    \* the conversation, as the next request will have it
  outbox,      \* the reports to make
  calls        \* how many tool calls there have been: the source of their ids

logVars  == <<log, made, astray>>
loopVars == <<step, round, messages, outbox, calls>>

Store(e) ==
  /\ log'  = Append(log, e)
  /\ made' = Append(made, e)
  /\ UNCHANGED astray

LoopInit ==
  /\ step     = "off"
  /\ round    = 0
  /\ messages = <<>>
  /\ outbox   = <<>>
  /\ calls    = 0

(* RunWithInput, up to the first round.                                    *)
StartTurn(msgs) ==
  /\ step = "off"
  /\ step'     = "round"
  /\ round'    = 0
  /\ messages' = msgs
  /\ outbox'   = <<Event("session.status_running", 0)>>
  /\ calls'    = calls

(* reporter.Report returns: an attempt was stored ...                      *)
Report ==
  /\ outbox # <<>>
  /\ Store(Head(outbox))
  /\ outbox' = Tail(outbox)
  /\ UNCHANGED <<step, round, messages, calls>>

(* ... or none was, which the loop ignores: every attempt failed, one was  *)
(* refused, or the server answered 200 and had not stored the event.       *)
ReportLost ==
  /\ outbox # <<>>
  /\ astray < MaxAstray
  /\ astray' = astray + 1
  /\ made'   = Append(made, Head(outbox))
  /\ outbox' = Tail(outbox)
  /\ UNCHANGED <<log, step, round, messages, calls>>

(* An attempt that the reporter has taken for failed is stored after all:  *)
(* of a report that was made, by another attempt or by none, or of the     *)
(* report that is being made and will be made again.                       *)
Attempted ==
  {e \in {made[i] : i \in {j \in DOMAIN made : j + MaxLate > Len(made)}} :
     e.type \notin {"user.message", "runtime.error"}}
    \cup (IF outbox = <<>> THEN {} ELSE {Head(outbox)})

StoreLate ==
  /\ astray < MaxAstray
  /\ astray' = astray + 1
  /\ \E e \in Attempted : log' = Append(log, e)
  /\ UNCHANGED <<made, loopVars>>

-----------------------------------------------------------------------------
(* Mutant: old results would be cut out of the conversation.               *)
MidTurnCut(msgs) ==
  LET results == {i \in DOMAIN msgs : Refs(msgs[i], "agent.tool_result") # {}}
      old     == results \ Latest(results, KeepRounds)
  IN  [i \in DOMAIN msgs |-> IF i \in old THEN Message("user", <<>>) ELSE msgs[i]]

(* midTurnCompress: the tool results before the last KeepRounds messages   *)
(* with results are cleared.                                               *)
MidTurnCompress(msgs) ==
  LET results == {i \in DOMAIN msgs : Refs(msgs[i], "agent.tool_result") # {}}
      old     == results \ Latest(results, KeepRounds)
      Clear(e) == IF e.type = "agent.tool_result" THEN [e EXCEPT !.cleared = TRUE] ELSE e
  IN  [i \in DOMAIN msgs |->
         IF i \in old
         THEN [msgs[i] EXCEPT !.content = [k \in DOMAIN @ |-> Clear(@[k])]]
         ELSE msgs[i]]

(* Mutant: the loop would count its rounds from 0 to maxToolRounds.        *)
BeginRoundOnceMore ==
  /\ step = "round"
  /\ outbox = <<>>
  /\ \/ /\ round <= MaxRounds
        /\ messages' \in {messages, MidTurnCompress(messages)}
        /\ outbox' = <<Event("span.model_request_start", 0)>>
        /\ step' = "request"
     \/ /\ round > MaxRounds
        /\ outbox' = <<Event("session.status_idle", 0)>>
        /\ step' = "end"
        /\ UNCHANGED messages
  /\ UNCHANGED <<logVars, round, calls>>

(* The next round begins, or the rounds are used up.                       *)
BeginRound ==
  /\ step = "round"
  /\ outbox = <<>>
  /\ \/ /\ round < MaxRounds
        /\ messages' \in {messages, MidTurnCompress(messages)}
        /\ outbox' = <<Event("span.model_request_start", 0)>>
        /\ step' = "request"
     \/ /\ round = MaxRounds
        /\ outbox' = <<Event("session.status_idle", 0)>>
        /\ step' = "end"
        /\ UNCHANGED messages
  /\ UNCHANGED <<logVars, round, calls>>

(* CreateMessage fails, after its retries: reportAPIError ends the turn.   *)
RequestFails ==
  /\ step = "request"
  /\ outbox = <<>>
  /\ outbox' = <<Event("span.model_request_end", 0), Event("session.error", 0),
                 Event("session.status_idle", 0)>>
  /\ step' = "end"
  /\ UNCHANGED <<logVars, round, messages, calls>>

(* The model answers with a text, tool calls, or both (or with neither); a *)
(* response without tool calls is the last one.                            *)
Responses ==
  {[text  |-> t,
    calls |-> [i \in 1 .. n |-> Event("agent.tool_use", calls + i)]] :
     t \in {<<>>, <<Event("agent.message", calls)>>}, n \in 0 .. MaxTools}

ResultsOf(uses) == [i \in DOMAIN uses |-> Event("agent.tool_result", uses[i].ref)]

(* Mutant: an answer without tool calls would end the turn in silence.     *)
FinalAnswerSilent(resp) ==
  /\ resp.calls = <<>>
  /\ messages' = Append(messages, Message("assistant", resp.text))
  /\ outbox'   = <<Event("span.model_request_end", 0)>> \o resp.text
  /\ step'     = "end"
  /\ UNCHANGED <<round, calls>>

FinalAnswer(resp) ==
  /\ resp.calls = <<>>
  /\ messages' = Append(messages, Message("assistant", resp.text))
  /\ outbox'   = <<Event("span.model_request_end", 0)>> \o resp.text
                   \o <<Event("session.status_idle", 0)>>
  /\ step'     = "end"
  /\ UNCHANGED <<round, calls>>

(* The tools run in order and their results are the next user message.     *)
UseTools(resp) ==
  /\ resp.calls # <<>>
  /\ messages' = messages \o <<Message("assistant", resp.text \o resp.calls),
                               Message("user", ResultsOf(resp.calls))>>
  /\ outbox'   = <<Event("span.model_request_end", 0)>> \o resp.text \o resp.calls
                   \o ResultsOf(resp.calls)
  /\ step'     = "round"
  /\ round'    = round + 1
  /\ calls'    = calls + Len(resp.calls)

Respond ==
  /\ step = "request"
  /\ outbox = <<>>
  /\ \E resp \in Responses : FinalAnswer(resp) \/ UseTools(resp)
  /\ UNCHANGED logVars

(* Mutant: the flag would be cleared only when RunWithInput returns nil.   *)
FinishAfterSuccess ==
  /\ step = "end"
  /\ outbox = <<>>
  /\ \A i \in DOMAIN log : log[i].type # "session.error"
  /\ step' = "off"
  /\ UNCHANGED <<logVars, round, messages, outbox, calls>>

(* RunWithInput returns and the server clears its running flag.            *)
Finish ==
  /\ step = "end"
  /\ outbox = <<>>
  /\ step'     = "off"
  /\ messages' = <<>>
  /\ round'    = 0
  /\ UNCHANGED <<logVars, outbox, calls>>

LoopStep == Report \/ ReportLost \/ BeginRound \/ RequestFails \/ Respond \/ Finish
=============================================================================
