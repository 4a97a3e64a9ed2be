------------------------------ MODULE Context ------------------------------
(***************************************************************************)
(* The history of a session as the model is shown it: the events the log   *)
(* returns, compressed (internal/runtime/context) and turned into messages *)
(* of the Messages API.                                                    *)
(*                                                                         *)
(* An event has a type, a reference (the client message, the turn or the   *)
(* tool call it is about) and a flag that its content has been cleared.    *)
(* Token counts are left open: what a history weighs is an argument.       *)
(***************************************************************************)
EXTENDS Naturals, FiniteSets, SequencesExt

CONSTANTS
  Limit,         \* ListBySession returns at most this many events: 100
  KeepResults,   \* CompressionConfig.MaxRecentToolResults: 5
  KeepEvents     \* CompressionConfig.CompactKeepRecent: 10

ASSUME ContextAssumption == {Limit, KeepResults, KeepEvents} \subseteq Nat

Event(type, ref) == [type |-> type, ref |-> ref, cleared |-> FALSE]

(* GET the first page, oldest first, as Run does: no page, no order.       *)
ListBySession(log) == SubSeq(log, 1, IF Len(log) < Limit THEN Len(log) ELSE Limit)

-----------------------------------------------------------------------------
(* The n members of a set of positions that come last.                     *)
Latest(S, n) == {i \in S : Cardinality({j \in S : j > i}) < n}

(* Mutant: old results would be dropped and not just emptied.              *)
DropOldResults(evts, keep) ==
  LET results == {i \in DOMAIN evts : evts[i].type = "agent.tool_result"}
      old(e)  == \E i \in results \ Latest(results, keep) : evts[i] = e
  IN  SelectSeq(evts, LAMBDA e : ~old(e))

(* Tier 1: the results before the last keep lose their content.            *)
ThinEvents(evts, keep) ==
  LET results == {i \in DOMAIN evts : evts[i].type = "agent.tool_result"}
      old     == results \ Latest(results, keep)
  IN  [i \in DOMAIN evts |->
         IF i \in old THEN [evts[i] EXCEPT !.cleared = TRUE] ELSE evts[i]]

(* A session's memory: none yet, or a summary of some events.              *)
NoMemory == [known |-> FALSE, covers |-> {}]

ExtractMemory(evts) ==
  [known  |-> TRUE,
   covers |-> {e \in ToSet(evts) :
                 e.type \in {"user.message", "agent.message", "agent.tool_use"}}]

(* Mutant: the summary would be made of the events that are kept.          *)
CompactKept(evts, keep) ==
  LET split == IF Len(evts) < keep THEN 0 ELSE Len(evts) - keep
      kept  == SubSeq(evts, split + 1, Len(evts))
  IN  [memory |-> ExtractMemory(kept), events |-> kept]

(* Tier 3: all but the last keep events are summarised.                    *)
Compact(evts, keep) ==
  LET split == IF Len(evts) < keep THEN 0 ELSE Len(evts) - keep
  IN  [memory |-> ExtractMemory(SubSeq(evts, 1, split)),
       events |-> SubSeq(evts, split + 1, Len(evts))]

Weights == {"light", "memory", "compact"}   \* which threshold is exceeded

(* Compress: thin always; summarise when the history weighs too much and   *)
(* there is no memory yet; compact when it weighs far too much.            *)
Compress(evts, memory, weight) ==
  LET thinned == ThinEvents(evts, KeepResults)
      compact == Compact(thinned, KeepEvents)
  IN  CASE weight = "compact" ->
             [events |-> compact.events, memory |-> compact.memory, tier |-> 3]
        [] weight = "memory" /\ ~memory.known ->
             [events |-> thinned, memory |-> ExtractMemory(thinned), tier |-> 2]
        [] OTHER ->
             [events |-> thinned, memory |-> memory, tier |-> 1]

-----------------------------------------------------------------------------
(* eventToBlock: who says it; metadata is nobody's.                        *)
RoleOf(e) ==
  CASE e.type \in {"user.message", "agent.tool_result"} -> "user"
    [] e.type \in {"agent.message", "agent.tool_use"}   -> "assistant"
    [] OTHER -> "nobody"

Message(role, blocks) == [role |-> role, content |-> blocks]

(* The positions that say something, and those of them that begin a        *)
(* message: consecutive events of one role make one, metadata between them *)
(* or not.                                                                 *)
Spoken(evts) == {i \in DOMAIN evts : RoleOf(evts[i]) # "nobody"}

Starts(evts) ==
  {i \in Spoken(evts) :
     ~\E j \in Spoken(evts) :
        j < i /\ \A k \in j .. i - 1 : RoleOf(evts[k]) \in {RoleOf(evts[i]), "nobody"}}

(* Which member of a set of positions i is, or is the last one before.     *)
Rank(S, i) == Cardinality({j \in S : j <= i})

Kth(S, k) == CHOOSE i \in S : Rank(S, i) = k

(* The events at a set of positions, in order.                             *)
Pick(evts, S) == [k \in 1 .. Cardinality(S) |-> evts[Kth(S, k)]]

(* The positions of the k-th message.                                      *)
Blocks(evts, k) == {i \in Spoken(evts) : Rank(Starts(evts), i) = k}

EventsToMessages(evts) ==
  [k \in 1 .. Cardinality(Starts(evts)) |->
     Message(RoleOf(evts[Kth(Starts(evts), k)]), Pick(evts, Blocks(evts, k)))]

-----------------------------------------------------------------------------
(* What the Messages API asks of a conversation: the tool calls of each    *)
(* message are answered, all of them and nothing else, by the next one.    *)
Refs(m, type) == {m.content[i].ref : i \in {j \in DOMAIN m.content : m.content[j].type = type}}

Paired(msgs) ==
  \A i \in 0 .. Len(msgs) :
    LET calls   == IF i = 0 THEN {} ELSE Refs(msgs[i], "agent.tool_use")
        results == IF i = Len(msgs) THEN {} ELSE Refs(msgs[i + 1], "agent.tool_result")
    IN  calls = results
=============================================================================
