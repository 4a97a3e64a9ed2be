----------------------------- MODULE EventPages -----------------------------
(***************************************************************************)
(* A client that reads a session's log page by page (EventHandler.List,    *)
(* EventRepo.ListBySession, pkg/pagination) while events are being stored. *)
(*                                                                         *)
(* Rows are ordered by created_at, the time of the INSERT, and id; the     *)
(* cursor between two pages is made of processed_at, the time at which the *)
(* handler made the event, and id.  An event is named by its id: ids of    *)
(* one millisecond are random, so that their order tells nothing.          *)
(***************************************************************************)
EXTENDS Naturals, FiniteSets

CONSTANTS
  Events,      \* the ids, as numbers
  MaxTime,     \* bound of the model: the last instant
  PageSize     \* the limit of the client's requests

ASSUME PagesAssumption ==
  /\ Events \subseteq Nat
  /\ IsFiniteSet(Events)
  /\ MaxTime \in Nat
  /\ PageSize \in Nat \ {0}

VARIABLES
  now,         \* the clock that the server and the database share
  stage,       \* stage[e]: how far event e is on its way into the log
  processed,   \* its processed_at
  created,     \* its created_at
  walk,        \* the client's walk through the pages
  order,       \* "asc" or "desc", for the whole walk
  cursor,      \* next_page of the last response
  page,        \* the events of the last response
  base,        \* the events that were in the log when the walk began
  seen,        \* the events the walk has returned ...
  repeated     \* ... and those it has returned more than once

logVars  == <<stage, processed, created>>
walkVars == <<walk, order, cursor, page, base, seen, repeated>>
vars == <<now, logVars, walkVars>>

Times == 0 .. MaxTime

TypeOK ==
  /\ now       \in Times
  /\ stage     \in [Events -> {"none", "prepared", "inserted", "stored"}]
  /\ processed \in [Events -> Times]
  /\ created   \in [Events -> Times]
  /\ walk      \in {"new", "paging", "over"}
  /\ order     \in {"asc", "desc"}
  /\ cursor    \in [time : Times, id : Nat]
  /\ page      \subseteq Events /\ Cardinality(page) <= PageSize
  /\ base      \subseteq Events
  /\ seen      \subseteq Events
  /\ repeated  \subseteq Events

Init ==
  /\ now       = 0
  /\ stage     = [e \in Events |-> "none"]
  /\ processed = [e \in Events |-> 0]
  /\ created   = [e \in Events |-> 0]
  /\ walk      = "new"
  /\ order     \in {"asc", "desc"}
  /\ cursor    = [time |-> 0, id |-> 0]
  /\ page      = {}
  /\ base      = {}
  /\ seen      = {}
  /\ repeated  = {}

-----------------------------------------------------------------------------
Tick ==
  /\ now < MaxTime
  /\ now' = now + 1
  /\ UNCHANGED <<logVars, walkVars>>

(* Send and IngestEvents make the event and its processed_at; any number   *)
(* of requests may do so at the same time.                                 *)
Prepare(e) ==
  /\ stage[e] = "none"
  /\ stage' = [stage EXCEPT ![e] = "prepared"]
  /\ processed' = [processed EXCEPT ![e] = now]
  /\ UNCHANGED <<now, created, walkVars>>

(* EventRepo.Create: created_at is the time at which the INSERT begins.  A *)
(* failed INSERT is an event that gets no further.                         *)
Insert(e) ==
  /\ stage[e] = "prepared"
  /\ stage' = [stage EXCEPT ![e] = "inserted"]
  /\ created' = [created EXCEPT ![e] = now]
  /\ UNCHANGED <<now, processed, walkVars>>

(* The row is committed, and queries that begin now find it.               *)
Commit(e) ==
  /\ stage[e] = "inserted"
  /\ stage' = [stage EXCEPT ![e] = "stored"]
  /\ UNCHANGED <<now, processed, created, walkVars>>

-----------------------------------------------------------------------------
Stored == {e \in Events : stage[e] = "stored"}

(* Postgres compares the pairs (t, i) and (u, j) as rows.                  *)
Less(t, i, u, j) == t < u \/ (t = u /\ i < j)

(* Event e comes before event f in the order of the walk.                  *)
Precedes(e, f) ==
  IF order = "asc" THEN Less(created[e], e, created[f], f)
                   ELSE Less(created[f], f, created[e], e)

(* Mutant: the condition would compare the times only.                     *)
BeyondByTime(e) ==
  \/ walk = "new"
  \/ order = "asc"  /\ cursor.time < created[e]
  \/ order = "desc" /\ created[e] < cursor.time

(* Mutant: the cursor's own row would not be excluded.                     *)
BeyondOrAt(e) ==
  \/ walk = "new"
  \/ order = "asc"  /\ ~Less(created[e], e, cursor.time, cursor.id)
  \/ order = "desc" /\ ~Less(cursor.time, cursor.id, created[e], e)

(* The condition that a request with a cursor adds to the query.           *)
Beyond(e) ==
  \/ walk = "new"
  \/ order = "asc"  /\ Less(cursor.time, cursor.id, created[e], e)
  \/ order = "desc" /\ Less(created[e], e, cursor.time, cursor.id)

Candidates == {e \in Stored : Beyond(e)}

(* Mutant: the row that tells whether there are more would be returned.    *)
FirstRowsAndOne(S) == {e \in S : Cardinality({f \in S : Precedes(f, e)}) <= PageSize}

(* ORDER BY ... LIMIT, without the extra row.                              *)
FirstRows(S) == {e \in S : Cardinality({f \in S : Precedes(f, e)}) < PageSize}

(* Mutant: the cursor would lead to the first row of the page.             *)
FirstOf(S) == CHOOSE e \in S : \A f \in S : f = e \/ Precedes(e, f)

(* The row that the cursor to the next page is made of.                    *)
LastOf(S) == CHOOSE e \in S : \A f \in S : f = e \/ Precedes(f, e)

(* One request.  When there are more rows than the page holds, a cursor to *)
(* the last row that is returned leads to the next page.                   *)
GetPage ==
  /\ walk # "over"
  /\ page' = FirstRows(Candidates)
  /\ IF page' # Candidates
     THEN LET last == LastOf(page') IN
          walk' = "paging" /\ cursor' = [time |-> processed[last], id |-> last]
     ELSE walk' = "over" /\ cursor' = cursor
  /\ base' = IF walk = "new" THEN Stored ELSE base
  /\ seen' = seen \cup page'
  /\ repeated' = repeated \cup (seen \cap page')
  /\ UNCHANGED <<now, logVars, order>>

Next == Tick \/ (\E e \in Events : Prepare(e) \/ Insert(e) \/ Commit(e)) \/ GetPage

Spec == Init /\ [][Next]_vars

-----------------------------------------------------------------------------
(* Oldest first, a walk misses no event that was in the log when it began, *)
(* whatever is stored meanwhile and however the requests that store it     *)
(* overtake each other: the cursor is never later than the row it is for.  *)
NothingSkipped == (order = "asc" /\ walk = "over") => base \subseteq seen

(* Newest first, for the same reason, a walk never returns an event twice. *)
NothingRepeated == order = "desc" => repeated = {}

-----------------------------------------------------------------------------
(* The inductive invariant behind both.                                    *)

(* An event is made before it is inserted.                                 *)
MadeBeforeInserted ==
  \A e \in Events :
    /\ processed[e] <= now
    /\ stage[e] \in {"inserted", "stored"} => processed[e] <= created[e]

(* Oldest first, what the walk has not returned yet still lies ahead.      *)
StillAhead ==
  (order = "asc" /\ walk = "paging") =>
    \A e \in base \ seen : Less(cursor.time, cursor.id, created[e], e)

(* Newest first, what the walk has returned lies behind.                   *)
LeftBehind ==
  (order = "desc" /\ walk = "paging") =>
    \A e \in seen : ~Less(created[e], e, cursor.time, cursor.id)

WalkInv ==
  /\ TypeOK
  /\ MadeBeforeInserted
  /\ base \cup seen \subseteq Stored
  /\ walk = "new" => seen = {} /\ repeated = {}
  /\ StillAhead
  /\ LeftBehind
  /\ NothingSkipped
  /\ NothingRepeated

-----------------------------------------------------------------------------
(* "EncodeCursor encodes a (created_at, id) pair": with such a cursor each *)
(* event of the log is returned exactly once, in either order.             *)
EachEventOnce == repeated = {} /\ (walk = "over" => base \subseteq seen)
=============================================================================
