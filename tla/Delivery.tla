------------------------------ MODULE Delivery ------------------------------
(***************************************************************************)
(* How the reports of a sandbox reach the log, the usage counters and a    *)
(* client that watches (reporter.go, IngestEvents and recordAnalytics in   *)
(* internal_handler.go, pubsub.go, EventHandler.Stream).                   *)
(*                                                                         *)
(* The runtime makes its reports one after the other and repeats one that  *)
(* gets no answer; an attempt that timed out may go on at the server.  An  *)
(* event is named by the attempt <<i, n>> that brought it: report i, after *)
(* n retries.  Every request spends one token.  The runtime's token is     *)
(* valid: no report is refused with 4xx, which would end its retries.      *)
(***************************************************************************)
EXTENDS Naturals, FiniteSets

CONSTANTS
  Reports,      \* how many reports the runtime makes
  Kind,         \* Kind[i]: what report i is
  MaxRetries,   \* 3
  LossyCounters \* the counters whose statement may fail

Kinds == {"span", "other"}
Counters == {"read", "log", "daily", "usage"}

ASSUME DeliveryAssumption ==
  /\ Reports \in Nat /\ MaxRetries \in Nat
  /\ Kind \in [1..Reports -> Kinds]
  /\ LossyCounters \subseteq Counters

VARIABLES
  cur, tries,   \* the report being made, and its retries so far
  waiting,      \* whether the runtime waits for an answer
  abandoned,    \* attempts that have timed out
  givenUp,      \* reports made in vain
  phase,        \* phase[a]: where the server is with attempt a
  stored,       \* the events in the log
  unsaved,      \* attempts whose INSERT was reported as failed (the event
                \*   may be stored all the same)
  usageHeld,    \* usageHeld[a]: the session's usage as attempt a has read it
  sessionUsage, dailyUsage,
  requestLog,   \* the rows of llm_request_logs
  lostWrites,   \* the counts reported as failed: <<attempt, counter>>
  usageRaced,   \* history: two attempts have counted on one reading
  viewer,       \* a client of the stream: "away", "subscribed" or "listed"
  seen,         \* the events it has been shown
  undelivered   \* events published to the client that did not reach it

reporterVars == <<cur, tries, waiting, abandoned, givenUp>>
counterVars  == <<usageHeld, sessionUsage, dailyUsage, requestLog, lostWrites, usageRaced>>
viewerVars   == <<viewer, seen, undelivered>>
deliveryVars == <<reporterVars, phase, stored, unsaved, counterVars, viewerVars>>

Attempts == (1..Reports) \X (0..MaxRetries)
KindOf(a) == Kind[a[1]]
Phases == {"none", "create", "publish", "answer", "done"} \cup Counters

DeliveryTypeOK ==
  /\ cur \in 1..(Reports + 1) /\ tries \in 0..MaxRetries /\ waiting \in BOOLEAN
  /\ abandoned \subseteq Attempts /\ givenUp \subseteq 1..Reports
  /\ phase \in [Attempts -> Phases]
  /\ stored \subseteq Attempts /\ unsaved \subseteq Attempts
  /\ usageHeld \in [Attempts -> Nat] /\ sessionUsage \in Nat /\ dailyUsage \in Nat
  /\ requestLog \subseteq Attempts /\ lostWrites \subseteq Attempts \X Counters
  /\ usageRaced \in BOOLEAN
  /\ viewer \in {"away", "subscribed", "listed"}
  /\ seen \subseteq Attempts /\ undelivered \subseteq Attempts

DeliveryInit ==
  /\ cur = 1 /\ tries = 0 /\ waiting = FALSE
  /\ abandoned = {} /\ givenUp = {}
  /\ phase = [a \in Attempts |-> "none"]
  /\ stored = {} /\ unsaved = {}
  /\ usageHeld = [a \in Attempts |-> 0] /\ sessionUsage = 0 /\ dailyUsage = 0
  /\ requestLog = {} /\ lostWrites = {} /\ usageRaced = FALSE
  /\ viewer = "away" /\ seen = {} /\ undelivered = {}

-----------------------------------------------------------------------------
(* The runtime: Reporter.Report.                                           *)
Current == <<cur, tries>>

(* Mutant: the server would publish an event before it stores it.          *)
ThenSwapped(a, p) ==
  CASE p = "none"    -> "publish"
    [] p = "publish" -> "create"
    [] p = "create"  -> IF KindOf(a) = "span" THEN "read" ELSE "answer"
    [] p = "read"    -> "log"
    [] p = "log"     -> "daily"
    [] p = "daily"   -> "usage"
    [] OTHER         -> "answer"

(* What IngestEvents does next with attempt a: it stores the event,        *)
(* publishes it, and counts the tokens of a span.  (The status that other  *)
(* reports set is in module Orchestrator.)                                 *)
Then(a, p) ==
  CASE p = "none"    -> "create"
    [] p = "create"  -> "publish"
    [] p = "publish" -> IF KindOf(a) = "span" THEN "read" ELSE "answer"
    [] p = "read"    -> "log"
    [] p = "log"     -> "daily"
    [] p = "daily"   -> "usage"
    [] OTHER         -> "answer"

Advance(a) == phase' = [phase EXCEPT ![a] = Then(a, @)]

(* Mutant: the loop would make one attempt more.                           *)
RetryOnceMore ==
  /\ waiting' = FALSE
  /\ IF tries <= MaxRetries
     THEN tries' = tries + 1 /\ UNCHANGED <<cur, givenUp>>
     ELSE cur' = cur + 1 /\ tries' = 0 /\ givenUp' = givenUp \cup {cur}

(* After an attempt without an answer: the next one, or the next report.   *)
Retry ==
  /\ waiting' = FALSE
  /\ IF tries < MaxRetries
     THEN tries' = tries + 1 /\ UNCHANGED <<cur, givenUp>>
     ELSE cur' = cur + 1 /\ tries' = 0 /\ givenUp' = givenUp \cup {cur}

Post ==
  /\ cur <= Reports /\ ~waiting
  /\ waiting' = TRUE
  /\ Advance(Current)
  /\ UNCHANGED <<cur, tries, abandoned, givenUp, stored, unsaved, counterVars, viewerVars>>

(* The request does not get through.                                       *)
PostFails ==
  /\ cur <= Reports /\ ~waiting
  /\ Retry
  /\ UNCHANGED <<abandoned, phase, stored, unsaved, counterVars, viewerVars>>

(* Mutant: no answer would be taken for an answer.                         *)
TimeoutAsAnswer ==
  /\ waiting
  /\ abandoned' = abandoned \cup {Current}
  /\ waiting' = FALSE /\ cur' = cur + 1 /\ tries' = 0
  /\ UNCHANGED <<givenUp, phase, stored, unsaved, counterVars, viewerVars>>

Timeout ==
  /\ waiting
  /\ abandoned' = abandoned \cup {Current}
  /\ Retry
  /\ UNCHANGED <<phase, stored, unsaved, counterVars, viewerVars>>

(* The answer is ok whether the event was stored or not.                   *)
Answered200(a) ==
  /\ phase[a] = "answer"
  /\ phase' = [phase EXCEPT ![a] = "done"]
  /\ IF a \in abandoned THEN UNCHANGED reporterVars
     ELSE /\ waiting' = FALSE /\ cur' = cur + 1 /\ tries' = 0
          /\ UNCHANGED <<abandoned, givenUp>>
  /\ UNCHANGED <<stored, unsaved, counterVars, viewerVars>>

-----------------------------------------------------------------------------
(* The server: IngestEvents.                                               *)
CreateEvent(a) ==
  /\ phase[a] = "create"
  /\ \/ stored' = stored \cup {a} /\ Advance(a) /\ UNCHANGED unsaved
     \/ /\ unsaved' = unsaved \cup {a}
        /\ phase' = [phase EXCEPT ![a] = "answer"]
        /\ stored' \in {stored, stored \cup {a}}
  /\ UNCHANGED <<reporterVars, counterVars, viewerVars>>

(* Publishing may fail, and the bus or the client's buffer may lose it;    *)
(* who has not subscribed gets nothing.                                    *)
Publish(a) ==
  /\ phase[a] = "publish"
  /\ Advance(a)
  /\ \/ viewer = "away" /\ UNCHANGED <<seen, undelivered>>
     \/ viewer # "away" /\ seen' = seen \cup {a} /\ UNCHANGED undelivered
     \/ viewer # "away" /\ undelivered' = undelivered \cup {a} /\ UNCHANGED seen
  /\ UNCHANGED <<reporterVars, stored, unsaved, counterVars, viewer>>

-----------------------------------------------------------------------------
(* recordAnalytics.                                                        *)
ReadUsage(a) ==
  /\ phase[a] = "read"
  /\ usageHeld' = [usageHeld EXCEPT ![a] = sessionUsage]
  /\ Advance(a)
  /\ UNCHANGED <<reporterVars, stored, unsaved, sessionUsage, dailyUsage, requestLog, lostWrites,
                 usageRaced, viewerVars>>

InsertRequestLog(a) ==
  /\ phase[a] = "log"
  /\ requestLog' = requestLog \cup {a}
  /\ Advance(a)
  /\ UNCHANGED <<reporterVars, stored, unsaved, usageHeld, sessionUsage, dailyUsage, lostWrites,
                 usageRaced, viewerVars>>

(* Mutant: the day's usage would be read before and written as a whole.    *)
IncrementHeld(a) ==
  /\ phase[a] = "daily"
  /\ dailyUsage' = usageHeld[a] + 1
  /\ Advance(a)
  /\ UNCHANGED <<reporterVars, stored, unsaved, usageHeld, sessionUsage, requestLog, lostWrites,
                 usageRaced, viewerVars>>

(* The database adds.                                                      *)
IncrementDailyUsage(a) ==
  /\ phase[a] = "daily"
  /\ dailyUsage' = dailyUsage + 1
  /\ Advance(a)
  /\ UNCHANGED <<reporterVars, stored, unsaved, usageHeld, sessionUsage, requestLog, lostWrites,
                 usageRaced, viewerVars>>

(* SessionRepo.UpdateUsage: the row gets what the handler has made of what *)
(* it has read.                                                            *)
WriteUsage(a) ==
  /\ sessionUsage' = usageHeld[a] + 1
  /\ usageRaced' = (usageRaced \/ usageHeld[a] # sessionUsage)

UpdateUsage(a) ==
  /\ phase[a] = "usage"
  /\ WriteUsage(a)
  /\ Advance(a)
  /\ UNCHANGED <<reporterVars, stored, unsaved, usageHeld, dailyUsage, requestLog, lostWrites,
                 viewerVars>>

(* A statement that is reported as failed is passed over, and may have     *)
(* been carried out; without the session nothing is counted.               *)
CountFails(a) ==
  /\ phase[a] \in LossyCounters
  /\ lostWrites' = lostWrites \cup {<<a, phase[a]>>}
  /\ IF phase[a] = "read" THEN phase' = [phase EXCEPT ![a] = "answer"] ELSE Advance(a)
  /\ \E done \in BOOLEAN :
       /\ requestLog' = IF done /\ phase[a] = "log" THEN requestLog \cup {a} ELSE requestLog
       /\ dailyUsage' = IF done /\ phase[a] = "daily" THEN dailyUsage + 1 ELSE dailyUsage
       /\ IF done /\ phase[a] = "usage" THEN WriteUsage(a)
                                       ELSE UNCHANGED <<sessionUsage, usageRaced>>
  /\ UNCHANGED <<reporterVars, stored, unsaved, usageHeld, viewerVars>>

-----------------------------------------------------------------------------
(* A client of the stream subscribes, lists the log, and is shown what is  *)
(* published from then on.                                                 *)
Subscribe ==
  /\ viewer = "away"
  /\ viewer' = "subscribed"
  /\ UNCHANGED <<reporterVars, phase, stored, unsaved, counterVars, seen, undelivered>>

ListLog ==
  /\ viewer = "subscribed"
  /\ viewer' = "listed" /\ seen' = seen \cup stored
  /\ UNCHANGED <<reporterVars, phase, stored, unsaved, counterVars, undelivered>>

DeliveryNext ==
  \/ Post \/ PostFails \/ Timeout
  \/ \E a \in Attempts :
       \/ CreateEvent(a) \/ Publish(a)
       \/ ReadUsage(a) \/ InsertRequestLog(a) \/ IncrementDailyUsage(a) \/ UpdateUsage(a)
       \/ CountFails(a)
       \/ Answered200(a)
  \/ Subscribe \/ ListLog

DeliverySpec == DeliveryInit /\ [][DeliveryNext]_deliveryVars

-----------------------------------------------------------------------------
(* The runtime goes on to its next report only when an attempt was stored, *)
(* or the database refused it (which nobody is told), or all the attempts  *)
(* were in vain.                                                           *)
ReportsKept ==
  \A i \in 1..Reports : i < cur =>
    i \in givenUp \/ \E n \in 0..MaxRetries : <<i, n>> \in stored \cup unsaved

(* The attempts past counter c that have got as far as counting there, and *)
(* those of them whose statement succeeded.                                *)
Past(c) == CASE c = "daily" -> {"usage", "answer", "done"}
             [] c = "usage" -> {"answer", "done"}
Tried(c) ==
  {a \in stored \ unsaved :
     KindOf(a) = "span" /\ phase[a] \in Past(c) /\ <<a, "read">> \notin lostWrites}
Counted(c) == {a \in Tried(c) : <<a, c>> \notin lostWrites}

(* The day's usage is what the stored spans add up to, but for statements  *)
(* that failed; a session's usage never exceeds that, and is short of it   *)
(* only when two attempts counted on one reading.  (An attempt and its     *)
(* retry count as two.)                                                    *)
UsageAddsUp ==
  /\ dailyUsage \in Cardinality(Counted("daily")) .. Cardinality(Tried("daily"))
  /\ sessionUsage <= Cardinality(Tried("usage"))
  /\ ~usageRaced => sessionUsage >= Cardinality(Counted("usage"))

(* A client that subscribes and then lists the log misses no event but     *)
(* those the bus has lost: what the list does not have is published after. *)
(* (An event whose INSERT is taken for failed is never published.)         *)
StreamComplete ==
  viewer = "listed" =>
    \A a \in stored : a \in seen \cup undelivered \cup unsaved \/ phase[a] = "publish"
=============================================================================
