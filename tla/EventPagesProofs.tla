-------------------------- MODULE EventPagesProofs --------------------------
(***************************************************************************)
(* What a walk through the pages of the event log guarantees, for any      *)
(* number of events, any page size and any length of the walk.             *)
(***************************************************************************)
EXTENDS EventPages, FiniteSetTheorems, TLAPS

-----------------------------------------------------------------------------
(* The order of a walk is a strict total order on the events.              *)
LEMMA Order ==
  ASSUME TypeOK, NEW e \in Events, NEW f \in Events
  PROVE  /\ e # f => Precedes(e, f) \/ Precedes(f, e)
         /\ ~Precedes(e, e)
         /\ \A g \in Events : Precedes(e, f) /\ Precedes(f, g) => Precedes(e, g)
<1>1. \A g \in Events : created[g] \in Nat /\ g \in Nat
  BY PagesAssumption DEF TypeOK, Times
<1> QED  BY <1>1 DEF Precedes, Less

(* The events of S that the walk returns before e.                         *)
Before(S, e) == {f \in S : Precedes(f, e)}

(* A finite set of finite sets has one that includes no other.             *)
LEMMA Smallest ==
  ASSUME NEW U, IsFiniteSet(U), NEW T \in SUBSET SUBSET U, T # {}
  PROVE  \E x \in T : \A y \in T : ~(y \subseteq x /\ y # x)
<1>1. FiniteSubsetsOf(U) = SUBSET U
  BY FS_FiniteSubsetsOfFinite
<1>2. IsWellFoundedOn(StrictSubsetOrdering(U), FiniteSubsetsOf(U))
  BY FS_StrictSubsetOrderingWellFounded
<1>3. PICK x \in T : \A y \in T : <<y, x>> \notin StrictSubsetOrdering(U)
  BY <1>1, <1>2, WFMin
<1>4. ASSUME NEW y \in T, y \subseteq x, y # x  PROVE FALSE
  <2>1. <<y, x>> \in StrictSubsetOrdering(U)
    BY <1>4 DEF StrictSubsetOrdering
  <2> QED  BY <1>3, <2>1
<1>5. \A y \in T : ~(y \subseteq x /\ y # x)
  BY <1>4
<1> QED  BY <1>5

(* Any set of events is finite, since the ids are.                         *)
LEMMA Finite ==
  ASSUME NEW S \in SUBSET Events
  PROVE  IsFiniteSet(S)
BY PagesAssumption, FS_Subset

(* A page that is not empty has a first row ...                            *)
LEMMA HasFirst ==
  ASSUME TypeOK, NEW S \in SUBSET Events, S # {}
  PROVE  \E e \in S : Before(S, e) = {}
<1> DEFINE T == {Before(S, e) : e \in S}
<1>1. T \in SUBSET SUBSET S /\ T # {} /\ IsFiniteSet(S)
  BY Finite DEF Before
<1> HIDE DEF T
<1>2. PICK x \in T : \A y \in T : ~(y \subseteq x /\ y # x)
  BY <1>1, Smallest
<1> USE DEF T
<1>3. PICK e \in S : x = Before(S, e)
  BY <1>2
<1>4. ASSUME NEW f \in Before(S, e)  PROVE FALSE
  <2>1. f \in S /\ Precedes(f, e) /\ e \in Events /\ f \in Events
    BY <1>4 DEF Before
  <2>2. Before(S, f) \subseteq Before(S, e)
    BY <2>1, Order DEF Before
  <2>3. f \notin Before(S, f)
    BY <2>1, Order DEF Before
  <2> QED  BY <1>2, <1>3, <1>4, <2>1, <2>2, <2>3
<1> QED  BY <1>4

(* ... and a last one, the one that the cursor is made of.                 *)
LEMMA HasLast ==
  ASSUME TypeOK, NEW S \in SUBSET Events, S # {}
  PROVE  /\ LastOf(S) \in S
         /\ \A f \in S : f = LastOf(S) \/ Precedes(f, LastOf(S))
<1> DEFINE After(e) == {f \in S : Precedes(e, f)}
           T == {After(e) : e \in S}
<1>1. T \in SUBSET SUBSET S /\ T # {} /\ IsFiniteSet(S)
  BY Finite
<1> HIDE DEF T
<1>2. PICK x \in T : \A y \in T : ~(y \subseteq x /\ y # x)
  BY <1>1, Smallest
<1> USE DEF T
<1>3. PICK e \in S : x = After(e)
  BY <1>2
<1>4. ASSUME NEW f \in S, Precedes(e, f)  PROVE FALSE
  <2>1. e \in Events /\ f \in Events
    OBVIOUS
  <2>2. After(f) \subseteq After(e)
    BY <2>1, <1>4, Order
  <2>3. f \in After(e) /\ f \notin After(f)
    BY <2>1, <1>4, Order
  <2> QED  BY <1>2, <1>3, <2>2, <2>3
<1>5. \A f \in S : f = e \/ Precedes(f, e)
  BY <1>4, Order
<1> QED  BY <1>5 DEF LastOf

(* A page holds every candidate that comes before one of its rows.         *)
LEMMA PageIsPrefix ==
  ASSUME TypeOK, NEW S \in SUBSET Events,
         NEW f \in FirstRows(S), NEW e \in S, Precedes(e, f)
  PROVE  e \in FirstRows(S)
<1>1. e \in Events /\ f \in Events
  BY DEF FirstRows
<1>2. Before(S, e) \in SUBSET Before(S, f) /\ Before(S, f) \in SUBSET Events
  BY <1>1, Order DEF Before
<1>3. Cardinality(Before(S, e)) <= Cardinality(Before(S, f))
  BY <1>2, Finite, FS_Subset
<1>4. Cardinality(Before(S, f)) < PageSize
  BY DEF FirstRows, Before
<1>5. /\ Cardinality(Before(S, e)) \in Nat
      /\ Cardinality(Before(S, f)) \in Nat
  BY <1>2, Finite, FS_CardinalityType
<1>6. Cardinality(Before(S, e)) < PageSize
  BY <1>3, <1>4, <1>5, PagesAssumption
<1> QED  BY <1>6 DEF FirstRows, Before

(* A page is empty only when there are no candidates.                      *)
LEMMA PageNotEmpty ==
  ASSUME TypeOK, NEW S \in SUBSET Events, S # {}
  PROVE  FirstRows(S) # {}
<1>1. PICK e \in S : Before(S, e) = {}
  BY HasFirst
<1>2. Cardinality(Before(S, e)) < PageSize
  BY <1>1, FS_EmptySet, PagesAssumption
<1> QED  BY <1>2 DEF FirstRows, Before

(* A page has at most PageSize rows: the number of the candidates before   *)
(* a row is less than PageSize, and another one for every row.             *)
LEMMA PageIsBounded ==
  ASSUME TypeOK, NEW S \in SUBSET Events
  PROVE  Cardinality(FirstRows(S)) <= PageSize
<1> DEFINE P == FirstRows(S)
           rank == [e \in P |-> Cardinality(Before(S, e))]
           R == 0 .. PageSize - 1
<1>1. \A e \in P : e \in S /\ e \in Events
  BY DEF FirstRows
<1>2. \A e \in S : Before(S, e) \in SUBSET Events /\ IsFiniteSet(Before(S, e))
                    /\ Cardinality(Before(S, e)) \in Nat
  BY Finite, FS_CardinalityType DEF Before
<1>3. \A e \in P : Cardinality(Before(S, e)) < PageSize
  BY DEF FirstRows, Before
<1>4. rank \in [P -> R]
  <2>1. ASSUME NEW e \in P  PROVE Cardinality(Before(S, e)) \in R
    <3>1. Cardinality(Before(S, e)) \in Nat
      BY <1>1, <1>2
    <3>2. Cardinality(Before(S, e)) < PageSize
      BY <1>3
    <3> QED  BY <3>1, <3>2, PagesAssumption
  <2> QED  BY <2>1
<1>5. ASSUME NEW e \in P, NEW f \in P, Precedes(e, f)
      PROVE  rank[e] # rank[f]
  <2>1. Before(S, e) \in SUBSET Before(S, f)
    BY <1>1, <1>5, Order DEF Before
  <2>2. e \in Before(S, f) /\ e \notin Before(S, e)
    BY <1>1, <1>5, Order DEF Before
  <2>3. IsFiniteSet(Before(S, f))
    BY <1>1, <1>2
  <2>4. Cardinality(Before(S, e)) # Cardinality(Before(S, f))
    BY <2>1, <2>2, <2>3, FS_Subset
  <2> QED  BY <2>4
<1>6. rank \in Injection(P, R)
  <2>1. \A e, f \in P : e # f => rank[e] # rank[f]
    BY <1>1, <1>5, Order
  <2> QED  BY <1>4, <2>1 DEF Injection, IsInjective
<1>7. IsFiniteSet(R) /\ Cardinality(R) = PageSize
  BY FS_Interval, PagesAssumption
<1>8. Cardinality(P) <= Cardinality(R)
  BY <1>6, <1>7, FS_Injection
<1> QED  BY <1>7, <1>8

-----------------------------------------------------------------------------
(* A new session's log is empty, and no walk has begun.                    *)
LEMMA InitInv == Init => WalkInv
<1> SUFFICES ASSUME Init PROVE WalkInv
  OBVIOUS
<1>1. Cardinality({}) = 0
  BY FS_EmptySet
<1>2. TypeOK
  BY <1>1, PagesAssumption DEF Init, TypeOK, Times
<1> QED
  BY <1>2, PagesAssumption
  DEF Init, WalkInv, MadeBeforeInserted, Stored, StillAhead, LeftBehind,
      NothingSkipped, NothingRepeated, Times

(* The steps that write the log: what a walk knows of the stored events    *)
(* does not change, and an event is inserted after it was made.            *)
LEMMA LogSteps ==
  ASSUME WalkInv,
         Tick \/ \E e \in Events : Prepare(e) \/ Insert(e) \/ Commit(e)
  PROVE  WalkInv'
<1> USE DEF WalkInv
<1>1. UNCHANGED walkVars
  BY DEF Tick, Prepare, Insert, Commit
<1>2. /\ TypeOK'
      /\ MadeBeforeInserted'
      /\ Stored \subseteq Stored'
      /\ \A e \in Stored : created'[e] = created[e]
  <2>1. CASE Tick
    BY <2>1, PagesAssumption
    DEF Tick, TypeOK, Times, MadeBeforeInserted, Stored, logVars, walkVars
  <2>2. ASSUME NEW e \in Events, Prepare(e) \/ Insert(e) \/ Commit(e)
        PROVE  /\ TypeOK'
               /\ MadeBeforeInserted'
               /\ Stored \subseteq Stored'
               /\ \A f \in Stored : created'[f] = created[f]
    <3>1. CASE Prepare(e)
      BY <3>1, PagesAssumption
      DEF Prepare, TypeOK, Times, MadeBeforeInserted, Stored, walkVars
    <3>2. CASE Insert(e)
      BY <3>2, PagesAssumption
      DEF Insert, TypeOK, Times, MadeBeforeInserted, Stored, walkVars
    <3>3. CASE Commit(e)
      BY <3>3, PagesAssumption
      DEF Commit, TypeOK, Times, MadeBeforeInserted, Stored, walkVars
    <3> QED  BY <2>2, <3>1, <3>2, <3>3
  <2> QED  BY <2>1, <2>2
<1>3. StillAhead' /\ LeftBehind'
  BY <1>1, <1>2 DEF StillAhead, LeftBehind, walkVars
<1>4. NothingSkipped' /\ NothingRepeated'
  BY <1>1 DEF NothingSkipped, NothingRepeated, walkVars
<1>5. (base \cup seen \subseteq Stored)'
  BY <1>1, <1>2 DEF walkVars
<1>6. (walk = "new" => seen = {} /\ repeated = {})'
  BY <1>1 DEF walkVars
<1> QED  BY <1>2, <1>3, <1>4, <1>5, <1>6

(* A page.                                                                 *)
LEMMA PageStep ==
  ASSUME WalkInv, GetPage
  PROVE  WalkInv'
<1> USE DEF WalkInv
<1> DEFINE C == Candidates
           last == LastOf(page')
           more == page' # C
<1>1. /\ UNCHANGED <<now, stage, processed, created, order>>
      /\ page' = FirstRows(C)
      /\ base' = IF walk = "new" THEN Stored ELSE base
      /\ seen' = seen \cup page'
      /\ repeated' = repeated \cup (seen \cap page')
  BY DEF GetPage, logVars
<1>2. /\ more => walk' = "paging" /\ cursor' = [time |-> processed[last], id |-> last]
      /\ ~more => walk' = "over" /\ cursor' = cursor
  BY DEF GetPage
<1>3. page' \subseteq C /\ C \subseteq Stored /\ Stored \subseteq Events
  BY <1>1 DEF FirstRows, Candidates, Stored
<1>4. \A e \in Events : e \in Nat /\ created[e] \in Nat /\ processed[e] \in Nat
  BY PagesAssumption DEF TypeOK, Times
<1>5. ASSUME more
      PROVE  /\ last \in page' /\ last \in C /\ last \in Events
             /\ processed[last] <= created[last]
             /\ \A e \in page' : e = last \/ Precedes(e, last)
             /\ \A e \in C \ page' : Precedes(last, e)
  <2>1. page' # {}
    BY <1>1, <1>3, <1>5, PageNotEmpty
  <2>2. last \in page' /\ \A e \in page' : e = last \/ Precedes(e, last)
    BY <1>3, <2>1, HasLast
  <2>3. last \in C /\ last \in Stored /\ last \in Events
    BY <1>3, <2>2
  <2>4. processed[last] <= created[last]
    BY <2>3 DEF MadeBeforeInserted, Stored
  <2>5. ASSUME NEW e \in C \ page'  PROVE Precedes(last, e)
    <3>1. ~Precedes(e, last)
      BY <1>1, <1>3, <2>2, <2>5, PageIsPrefix
    <3> QED  BY <1>3, <2>2, <2>3, <2>5, <3>1, Order
  <2> QED  BY <2>2, <2>3, <2>4, <2>5
<1>6. TypeOK'
  <2>1. Cardinality(page') <= PageSize
    BY <1>1, <1>3, PageIsBounded
  <2>2. cursor' \in [time : Times, id : Nat]
    BY <1>2, <1>4, <1>5 DEF TypeOK
  <2>3. walk' \in {"new", "paging", "over"}
    BY <1>2
  <2>4. base' \subseteq Events /\ seen' \subseteq Events /\ repeated' \subseteq Events
    BY <1>1, <1>3 DEF TypeOK
  <2> QED  BY <1>1, <1>3, <2>1, <2>2, <2>3, <2>4 DEF TypeOK
<1>7. MadeBeforeInserted'
  BY <1>1 DEF MadeBeforeInserted
<1>8. (base \cup seen \subseteq Stored)'
  <2>1. Stored' = Stored
    BY <1>1 DEF Stored
  <2> QED  BY <1>1, <1>3, <2>1
<1>9. (walk = "new" => seen = {} /\ repeated = {})'
  BY <1>2
<1>10. order = "asc" => \A e \in base' \ seen : e \in C
  <2>1. CASE walk = "new"
    BY <1>1, <2>1 DEF Candidates, Beyond
  <2>2. CASE walk # "new"
    <3>1. walk = "paging"
      BY <2>2 DEF TypeOK, GetPage
    <3> QED  BY <1>1, <2>2, <3>1 DEF StillAhead, Candidates, Beyond
  <2> QED  BY <2>1, <2>2
<1>11. order = "desc" => seen \cap C = {}
  <2>1. CASE walk = "new"
    BY <2>1
  <2>2. CASE walk # "new"
    <3>1. walk = "paging"
      BY <2>2 DEF TypeOK, GetPage
    <3> QED  BY <2>2, <3>1 DEF LeftBehind, Candidates, Beyond
  <2> QED  BY <2>1, <2>2
<1>12. StillAhead'
  <2> SUFFICES ASSUME order = "asc", more, NEW e \in base' \ seen'
               PROVE  Less(processed[last], last, created[e], e)
    BY <1>1, <1>2 DEF StillAhead
  <2>1. e \in C \ page' /\ e \in Events
    BY <1>1, <1>3, <1>10
  <2>2. Less(created[last], last, created[e], e)
    BY <1>5, <2>1 DEF Precedes
  <2> QED  BY <1>4, <1>5, <2>1, <2>2 DEF Less
<1>13. LeftBehind'
  <2> SUFFICES ASSUME order = "desc", more, NEW e \in seen'
               PROVE  ~Less(created[e], e, processed[last], last)
    BY <1>1, <1>2 DEF LeftBehind
  <2>1. CASE e \in page'
    <3>1. e \in Events /\ (e = last \/ Less(created[last], last, created[e], e))
      BY <1>3, <1>5, <2>1 DEF Precedes
    <3> QED  BY <1>4, <1>5, <3>1 DEF Less
  <2>2. CASE e \in seen
    <3>1. walk = "paging" /\ e \in Events
      BY <2>2 DEF TypeOK, GetPage
    <3>2. ~Less(created[e], e, cursor.time, cursor.id)
      BY <2>2, <3>1 DEF LeftBehind
    <3>3. Less(created[last], last, cursor.time, cursor.id)
      BY <1>5, <3>1 DEF Candidates, Beyond
    <3>4. cursor.time \in Nat /\ cursor.id \in Nat
      BY PagesAssumption DEF TypeOK, Times
    <3> QED  BY <1>4, <1>5, <3>1, <3>2, <3>3, <3>4 DEF Less
  <2> QED  BY <1>1, <2>1, <2>2
<1>14. NothingSkipped'
  BY <1>1, <1>2, <1>10 DEF NothingSkipped
<1>15. NothingRepeated'
  BY <1>1, <1>3, <1>11 DEF NothingRepeated
<1> QED
  BY <1>6, <1>7, <1>8, <1>9, <1>12, <1>13, <1>14, <1>15

(* WalkInv holds in every reachable state, with any number of events.      *)
THEOREM WalkInvariance == Spec => []WalkInv
<1>1. WalkInv /\ [Next]_vars => WalkInv'
  <2> SUFFICES ASSUME WalkInv, [Next]_vars PROVE WalkInv'
    OBVIOUS
  <2>1. CASE Tick \/ \E e \in Events : Prepare(e) \/ Insert(e) \/ Commit(e)
    BY <2>1, LogSteps
  <2>2. CASE GetPage
    BY <2>2, PageStep
  <2>3. CASE UNCHANGED vars
    BY <2>3
    DEF vars, logVars, walkVars, WalkInv, TypeOK, MadeBeforeInserted, Stored,
        StillAhead, LeftBehind, NothingSkipped, NothingRepeated
  <2> QED  BY <2>1, <2>2, <2>3 DEF Next
<1> QED  BY <1>1, InitInv, PTL DEF Spec

(* The log, the pages and the cursor are well formed: no page is longer    *)
(* than its limit (ListBySession).                                         *)
THEOREM PagesTypeCorrect == Spec => []TypeOK
<1>1. WalkInv => TypeOK
  BY DEF WalkInv
<1> QED  BY <1>1, WalkInvariance, PTL

(* A walk from the oldest event on returns every event that was in the log *)
(* when it began, although the cursor holds processed_at.                  *)
THEOREM AscendingIsComplete == Spec => []NothingSkipped
<1>1. WalkInv => NothingSkipped
  BY DEF WalkInv
<1> QED  BY <1>1, WalkInvariance, PTL

(* A walk from the newest event back returns no event twice.               *)
THEOREM DescendingRepeatsNothing == Spec => []NothingRepeated
<1>1. WalkInv => NothingRepeated
  BY DEF WalkInv
<1> QED  BY <1>1, WalkInvariance, PTL
=============================================================================
