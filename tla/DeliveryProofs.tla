--------------------------- MODULE DeliveryProofs ---------------------------
(***************************************************************************)
(* What holds of the delivery of reports for any number of reports and     *)
(* retries, and any counters whose statements may fail.  An attempt that   *)
(* has not timed out is the one the runtime waits for; an attempt is       *)
(* stored before it is published, and counted once at each counter.        *)
(***************************************************************************)
EXTENDS Delivery, FiniteSetTheorems, TLAPS

Begun(a) == \/ a[1] < cur
            \/ a[1] = cur /\ a[2] < tries
            \/ a[1] = cur /\ a[2] = tries /\ waiting

(* The server works on attempts that have been made, and the runtime waits *)
(* for the only one of them that has neither ended nor timed out.          *)
ReporterInv ==
  /\ waiting => cur <= Reports
  /\ \A a \in Attempts : phase[a] # "none" => Begun(a)
  /\ \A a \in Attempts :
       phase[a] \notin {"none", "done"} /\ a \notin abandoned => a = Current /\ waiting

(* What has been done with an attempt by the time it has got to a phase.   *)
PhasesInv ==
  \A a \in Attempts :
    /\ phase[a] \in {"none", "create"} => a \notin stored \cup unsaved
    /\ phase[a] = "publish" \/ phase[a] \in Counters => a \in stored \ unsaved
    /\ phase[a] \in {"answer", "done"} => a \in stored \cup unsaved
    /\ phase[a] \in Counters => KindOf(a) = "span"
    /\ <<a, "read">> \in lostWrites => phase[a] \in {"answer", "done"}

UsageInv ==
  /\ UsageAddsUp
  /\ \A a \in Attempts : usageHeld[a] <= Cardinality(Tried("usage"))

DeliveryInv == DeliveryTypeOK /\ ReporterInv /\ PhasesInv /\ ReportsKept /\ StreamComplete /\ UsageInv

-----------------------------------------------------------------------------
LEMMA AttemptsFinite == IsFiniteSet(Attempts)
<1>1. IsFiniteSet(1..Reports) /\ IsFiniteSet(0..MaxRetries)
  BY FS_Interval, DeliveryAssumption
<1> QED  BY <1>1, FS_Product DEF Attempts

LEMMA TriedFinite ==
  ASSUME DeliveryTypeOK, NEW c
  PROVE  /\ IsFiniteSet(Tried(c)) /\ Cardinality(Tried(c)) \in Nat
         /\ IsFiniteSet(Counted(c)) /\ Cardinality(Counted(c)) \in Nat
<1>1. Tried(c) \subseteq Attempts /\ Counted(c) \subseteq Attempts
  BY DEF Tried, Counted, DeliveryTypeOK
<1> QED  BY <1>1, AttemptsFinite, FS_Subset, FS_CardinalityType

LEMMA CurrentIsAttempt == ASSUME DeliveryTypeOK, cur <= Reports  PROVE Current \in Attempts
  BY DeliveryAssumption DEF DeliveryTypeOK, Current, Attempts

(* The order of the phases.                                                *)
LEMMA ThenIs ==
  ASSUME NEW a
  PROVE  /\ Then(a, "none") = "create" /\ Then(a, "create") = "publish"
         /\ Then(a, "publish") = IF KindOf(a) = "span" THEN "read" ELSE "answer"
         /\ Then(a, "read") = "log" /\ Then(a, "log") = "daily"
         /\ Then(a, "daily") = "usage" /\ Then(a, "usage") = "answer"
<1>1. Then(a, "none") = "create"
  BY DEF Then
<1>2. Then(a, "create") = "publish"
  BY DEF Then
<1>3. Then(a, "publish") = IF KindOf(a) = "span" THEN "read" ELSE "answer"
  BY DEF Then
<1>4. Then(a, "read") = "log"
  BY DEF Then
<1>5. Then(a, "log") = "daily"
  BY DEF Then
<1>6. Then(a, "daily") = "usage"
  BY DEF Then
<1>7. Then(a, "usage") = "answer"
  BY DEF Then
<1> QED  BY <1>1, <1>2, <1>3, <1>4, <1>5, <1>6, <1>7

LEMMA DeliveryInitOK == DeliveryInit => DeliveryInv
<1> SUFFICES ASSUME DeliveryInit  PROVE DeliveryInv
  OBVIOUS
<1> USE DEF DeliveryInit
<1>1. DeliveryTypeOK
  <2>1. cur \in 1..(Reports + 1) /\ tries \in 0..MaxRetries
    BY DeliveryAssumption
  <2>2. phase \in [Attempts -> Phases] /\ usageHeld \in [Attempts -> Nat]
    BY DEF Phases
  <2> QED  BY <2>1, <2>2 DEF DeliveryTypeOK
<1>2. ReporterInv
  BY DEF ReporterInv
<1>3. PhasesInv
  BY DEF PhasesInv, Counters
<1>4. ReportsKept /\ StreamComplete
  BY DeliveryAssumption DEF ReportsKept, StreamComplete
<1>5. UsageInv
  <2>1. Tried("daily") = {} /\ Counted("daily") = {} /\ Tried("usage") = {} /\ Counted("usage") = {}
    BY DEF Tried, Counted
  <2>2. Cardinality({}) = 0
    BY FS_EmptySet
  <2>3. 0 \in 0..0 /\ 0 <= 0 /\ 0 >= 0
    OBVIOUS
  <2>4. UsageAddsUp
    BY <2>1, <2>2, <2>3 DEF UsageAddsUp
  <2> QED  BY <2>1, <2>2, <2>3, <2>4 DEF UsageInv
<1> QED  BY <1>1, <1>2, <1>3, <1>4, <1>5 DEF DeliveryInv

-----------------------------------------------------------------------------
(* Steps that count nothing.                                               *)
LEMMA UsageKept ==
  ASSUME DeliveryInv, Tried("daily")' = Tried("daily"), Tried("usage")' = Tried("usage"),
         Counted("daily")' = Counted("daily"), Counted("usage")' = Counted("usage"),
         UNCHANGED <<sessionUsage, dailyUsage, usageRaced>>,
         \A a \in Attempts : usageHeld'[a] \in {usageHeld[a], sessionUsage}
  PROVE  UsageInv'
<1>1. UsageAddsUp /\ sessionUsage <= Cardinality(Tried("usage"))
      /\ \A a \in Attempts : usageHeld[a] <= Cardinality(Tried("usage"))
  BY DEF DeliveryInv, UsageInv, UsageAddsUp
<1>2. UsageAddsUp'
  BY <1>1 DEF UsageAddsUp
<1> QED  BY <1>1, <1>2 DEF UsageInv

LEMMA NothingCounted ==
  ASSUME DeliveryTypeOK, NEW a, NEW p, phase' = [phase EXCEPT ![a] = p],
         phase[a] \notin {"usage", "answer", "done"},
         \/ p \notin {"usage", "answer", "done"}
         \/ a \notin stored' \ unsaved'
         \/ KindOf(a) # "span"
         \/ <<a, "read">> \in lostWrites',
         stored \ {a} = stored' \ {a}, unsaved \ {a} = unsaved' \ {a},
         \A b, c : b # a => (<<b, c>> \in lostWrites' <=> <<b, c>> \in lostWrites)
  PROVE  /\ Tried("daily")' = Tried("daily") /\ Tried("usage")' = Tried("usage")
         /\ Counted("daily")' = Counted("daily") /\ Counted("usage")' = Counted("usage")
<1>1. phase \in [Attempts -> Phases] /\ stored \subseteq Attempts
  BY DEF DeliveryTypeOK
<1>2. a \notin Tried("daily") /\ a \notin Tried("usage") /\ a \notin Tried("daily")' /\ a \notin Tried("usage")'
  BY <1>1 DEF Tried, Past
<1>3. ASSUME NEW b, b # a  PROVE /\ b \in Tried("daily")' <=> b \in Tried("daily")
                                 /\ b \in Tried("usage")' <=> b \in Tried("usage")
  <2>1. b \in stored' \ unsaved' <=> b \in stored \ unsaved
    BY <1>3
  <2>2. b \in stored => phase'[b] = phase[b]
    BY <1>1, <1>3
  <2> QED  BY <1>3, <2>1, <2>2 DEF Tried, Past
<1>4. Tried("daily")' = Tried("daily") /\ Tried("usage")' = Tried("usage")
  BY <1>2, <1>3
<1> QED  BY <1>2, <1>4 DEF Counted

(* Steps of the server on attempt a, that go on to phase p.                *)
LEMMA ServerStep ==
  ASSUME DeliveryInv, NEW a \in Attempts, NEW p \in Phases \ {"none", "create", "done"},
         phase' = [phase EXCEPT ![a] = p], phase[a] \notin {"none", "answer", "done"},
         UNCHANGED reporterVars
  PROVE  /\ ReporterInv'
         /\ phase' \in [Attempts -> Phases]
         /\ phase'[a] = p /\ \A b \in Attempts \ {a} : phase'[b] = phase[b]
<1>1. phase \in [Attempts -> Phases]
  BY DEF DeliveryInv, DeliveryTypeOK
<1>2. phase' \in [Attempts -> Phases] /\ phase'[a] = p /\ \A b \in Attempts \ {a} : phase'[b] = phase[b]
  BY <1>1
<1>3. ReporterInv'
  BY <1>2 DEF DeliveryInv, ReporterInv, Begun, Current, reporterVars
<1> QED  BY <1>2, <1>3

LEMMA KeptByServer ==
  ASSUME DeliveryInv, UNCHANGED reporterVars, stored \subseteq stored', unsaved \subseteq unsaved'
  PROVE  ReportsKept'
  BY DEF DeliveryInv, ReportsKept, reporterVars

(* An event is stored, or its INSERT is reported as failed.                *)
LEMMA CreateEventStep == ASSUME DeliveryInv, NEW a \in Attempts, CreateEvent(a)  PROVE DeliveryInv'
<1>1. DeliveryTypeOK /\ PhasesInv /\ StreamComplete
  BY DEF DeliveryInv
<1>2. PICK p \in {"publish", "answer"} :
        /\ phase' = [phase EXCEPT ![a] = p]
        /\ stored' \in {stored, stored \cup {a}} /\ unsaved' \in {unsaved, unsaved \cup {a}}
        /\ p = "publish" => a \in stored' /\ unsaved' = unsaved
        /\ p = "answer" => a \in unsaved'
  BY ThenIs DEF CreateEvent, Advance
<1>3. /\ phase[a] = "create" /\ UNCHANGED <<reporterVars, counterVars, viewerVars>>
      /\ a \notin stored \cup unsaved
  BY <1>1 DEF CreateEvent, PhasesInv
<1>4. /\ ReporterInv' /\ phase' \in [Attempts -> Phases]
      /\ phase'[a] = p /\ \A b \in Attempts \ {a} : phase'[b] = phase[b]
  BY <1>2, <1>3, ServerStep DEF Phases
<1>5. DeliveryTypeOK'
  BY <1>1, <1>2, <1>3, <1>4 DEF DeliveryTypeOK, reporterVars, counterVars, viewerVars
<1>6. PhasesInv'
  BY <1>1, <1>2, <1>3, <1>4 DEF PhasesInv, Counters, counterVars
<1>7. ReportsKept'
  BY <1>2, <1>3, KeptByServer
<1>8. StreamComplete'
  BY <1>1, <1>2, <1>3, <1>4 DEF StreamComplete, viewerVars, DeliveryTypeOK
<1>9. UsageInv'
  <2>1. p \notin {"usage", "answer", "done"} \/ a \notin stored' \ unsaved'
    BY <1>2
  <2>2. stored \ {a} = stored' \ {a} /\ unsaved \ {a} = unsaved' \ {a}
    BY <1>2
  <2>3. UNCHANGED <<lostWrites, sessionUsage, dailyUsage, usageRaced, usageHeld>>
        /\ \A b, c : b # a => (<<b, c>> \in lostWrites' <=> <<b, c>> \in lostWrites)
    BY <1>3 DEF counterVars
  <2>4. phase' = [phase EXCEPT ![a] = p] /\ phase[a] \notin {"usage", "answer", "done"}
    BY <1>2, <1>3
  <2>5. /\ Tried("daily")' = Tried("daily") /\ Tried("usage")' = Tried("usage")
        /\ Counted("daily")' = Counted("daily") /\ Counted("usage")' = Counted("usage")
    BY <1>1, <2>1, <2>2, <2>3, <2>4, NothingCounted
  <2> QED  BY <2>3, <2>5, UsageKept
<1> QED  BY <1>4, <1>5, <1>6, <1>7, <1>8, <1>9 DEF DeliveryInv

LEMMA PublishStep == ASSUME DeliveryInv, NEW a \in Attempts, Publish(a)  PROVE DeliveryInv'
<1>1. DeliveryTypeOK /\ PhasesInv /\ StreamComplete
  BY DEF DeliveryInv
<1>2. PICK p \in {"read", "answer"} :
        phase' = [phase EXCEPT ![a] = p] /\ (p = "read" <=> KindOf(a) = "span")
  BY <1>1, ThenIs DEF Publish, Advance
<1>3. /\ phase[a] = "publish" /\ UNCHANGED <<reporterVars, stored, unsaved, counterVars, viewer>>
      /\ a \in stored \ unsaved
  BY <1>1 DEF Publish, PhasesInv
<1>4. /\ ReporterInv' /\ phase' \in [Attempts -> Phases]
      /\ phase'[a] = p /\ \A b \in Attempts \ {a} : phase'[b] = phase[b]
  BY <1>2, <1>3, ServerStep DEF Phases, Counters
<1>5. /\ seen \subseteq seen' /\ seen' \subseteq seen \cup {a}
      /\ undelivered \subseteq undelivered' /\ undelivered' \subseteq undelivered \cup {a}
      /\ viewer # "away" => a \in seen' \cup undelivered'
  BY DEF Publish
<1>6. DeliveryTypeOK'
  BY <1>1, <1>3, <1>4, <1>5 DEF DeliveryTypeOK, reporterVars, counterVars
<1>7. PhasesInv'
  BY <1>1, <1>2, <1>3, <1>4 DEF PhasesInv, Counters, counterVars
<1>8. ReportsKept'
  BY <1>3, KeptByServer
<1>9. StreamComplete'
  BY <1>1, <1>3, <1>4, <1>5 DEF StreamComplete, DeliveryTypeOK
<1>10. UsageInv'
  <2>1. UNCHANGED <<stored, unsaved, lostWrites, sessionUsage, dailyUsage, usageRaced, usageHeld>>
    BY <1>3 DEF counterVars
  <2>2. p \notin {"usage", "answer", "done"} \/ KindOf(a) # "span"
    BY <1>2
  <2>3. stored \ {a} = stored' \ {a} /\ unsaved \ {a} = unsaved' \ {a}
        /\ \A b, c : b # a => (<<b, c>> \in lostWrites' <=> <<b, c>> \in lostWrites)
    BY <2>1
  <2>4. phase' = [phase EXCEPT ![a] = p] /\ phase[a] \notin {"usage", "answer", "done"}
    BY <1>2, <1>3
  <2>5. /\ Tried("daily")' = Tried("daily") /\ Tried("usage")' = Tried("usage")
        /\ Counted("daily")' = Counted("daily") /\ Counted("usage")' = Counted("usage")
    BY <1>1, <2>2, <2>3, <2>4, NothingCounted
  <2> QED  BY <2>1, <2>5, UsageKept
<1> QED  BY <1>4, <1>6, <1>7, <1>8, <1>9, <1>10 DEF DeliveryInv

-----------------------------------------------------------------------------
(* recordAnalytics: a step from one counter to the next, or to the answer. *)
LEMMA CounterStep ==
  ASSUME DeliveryInv, NEW a \in Attempts, phase[a] \in Counters,
         NEW p \in {"log", "daily", "usage", "answer"}, phase' = [phase EXCEPT ![a] = p],
         UNCHANGED <<reporterVars, stored, unsaved, viewerVars>>,
         lostWrites \subseteq lostWrites', lostWrites' \subseteq lostWrites \cup {<<a, phase[a]>>},
         <<a, "read">> \in lostWrites' => p = "answer",
         usageHeld' \in [Attempts -> Nat], sessionUsage' \in Nat, dailyUsage' \in Nat,
         usageRaced' \in BOOLEAN, requestLog' \in {requestLog, requestLog \cup {a}},
         UsageInv'
  PROVE  DeliveryInv'
<1>1. DeliveryTypeOK /\ PhasesInv /\ StreamComplete
  BY DEF DeliveryInv
<1>2. /\ ReporterInv' /\ phase' \in [Attempts -> Phases]
      /\ phase'[a] = p /\ \A b \in Attempts \ {a} : phase'[b] = phase[b]
  BY ServerStep DEF Phases, Counters
<1>3. DeliveryTypeOK'
  BY <1>1, <1>2 DEF DeliveryTypeOK, reporterVars, viewerVars
<1>4. a \in stored \ unsaved /\ KindOf(a) = "span"
  BY <1>1 DEF PhasesInv
<1>5. PhasesInv'
  <2>1. ASSUME NEW b \in Attempts, <<b, "read">> \in lostWrites'  PROVE phase'[b] \in {"answer", "done"}
    <3>1. CASE b = a
      BY <1>2, <2>1, <3>1
    <3>2. CASE b # a
      <4>1. <<b, "read">> \in lostWrites
        BY <2>1, <3>2
      <4> QED  BY <1>1, <1>2, <3>2, <4>1 DEF PhasesInv
    <3> QED  BY <3>1, <3>2
  <2>2. p \in Counters \cup {"answer"}
    BY DEF Counters
  <2>3. ASSUME NEW b \in Attempts
        PROVE  /\ phase'[b] \in {"none", "create"} => b \notin stored \cup unsaved
               /\ phase'[b] = "publish" \/ phase'[b] \in Counters => b \in stored \ unsaved
               /\ phase'[b] \in {"answer", "done"} => b \in stored \cup unsaved
               /\ phase'[b] \in Counters => KindOf(b) = "span"
    BY <1>1, <1>2, <1>4 DEF PhasesInv
  <2> QED  BY <2>1, <2>3 DEF PhasesInv
<1>6. ReportsKept'
  BY KeptByServer
<1>7. StreamComplete'
  <2>1. UNCHANGED <<viewer, seen, undelivered, stored, unsaved>>
    BY DEF viewerVars
  <2>2. phase[a] # "publish"
    BY DEF Counters
  <2>3. stored \subseteq Attempts
    BY <1>1 DEF DeliveryTypeOK
  <2> QED  BY <1>1, <1>2, <2>1, <2>2, <2>3 DEF StreamComplete
<1> QED  BY <1>2, <1>3, <1>5, <1>6, <1>7 DEF DeliveryInv

(* An attempt that passes the day's counter is tried there, and counted    *)
(* unless its statement failed.                                            *)
LEMMA DailyTried ==
  ASSUME DeliveryInv, NEW a \in Attempts, phase[a] = "daily", phase' = [phase EXCEPT ![a] = "usage"],
         lostWrites \subseteq lostWrites', lostWrites' \subseteq lostWrites \cup {<<a, "daily">>},
         UNCHANGED <<stored, unsaved>>
  PROVE  /\ a \notin Tried("daily") /\ Tried("daily")' = Tried("daily") \cup {a}
         /\ Counted("daily")' \subseteq Counted("daily") \cup {a}
         /\ <<a, "daily">> \in lostWrites' => Counted("daily")' \subseteq Counted("daily")
         /\ Tried("usage")' = Tried("usage") /\ Counted("usage")' = Counted("usage")
<1>1. phase \in [Attempts -> Phases] /\ stored \subseteq Attempts
      /\ a \in stored \ unsaved /\ KindOf(a) = "span" /\ <<a, "read">> \notin lostWrites
  BY DEF DeliveryInv, DeliveryTypeOK, PhasesInv, Counters
<1>2. phase'[a] = "usage" /\ \A b \in Attempts \ {a} : phase'[b] = phase[b]
  BY <1>1
<1>3. \A b : <<b, "read">> \in lostWrites' <=> <<b, "read">> \in lostWrites
  OBVIOUS
<1>4. \A b : <<b, "usage">> \in lostWrites' <=> <<b, "usage">> \in lostWrites
  OBVIOUS
<1>5. a \notin Tried("daily") /\ Tried("daily")' = Tried("daily") \cup {a}
  BY <1>1, <1>2, <1>3 DEF Tried, Past
<1>6. Tried("usage")' = Tried("usage")
  BY <1>1, <1>2, <1>3 DEF Tried, Past
<1>7. Counted("usage")' = Counted("usage")
  BY <1>4, <1>6 DEF Counted
<1>8. Counted("daily")' \subseteq Counted("daily") \cup {a}
  BY <1>5 DEF Counted
<1>9. <<a, "daily">> \in lostWrites' => Counted("daily")' \subseteq Counted("daily")
  BY <1>5 DEF Counted
<1> QED  BY <1>5, <1>6, <1>7, <1>8, <1>9

LEMMA UsageTried ==
  ASSUME DeliveryInv, NEW a \in Attempts, phase[a] = "usage", phase' = [phase EXCEPT ![a] = "answer"],
         lostWrites \subseteq lostWrites', lostWrites' \subseteq lostWrites \cup {<<a, "usage">>},
         UNCHANGED <<stored, unsaved>>
  PROVE  /\ a \notin Tried("usage") /\ Tried("usage")' = Tried("usage") \cup {a}
         /\ Counted("usage")' \subseteq Counted("usage") \cup {a}
         /\ <<a, "usage">> \in lostWrites' => Counted("usage")' \subseteq Counted("usage")
         /\ Tried("daily")' = Tried("daily") /\ Counted("daily")' = Counted("daily")
<1>1. phase \in [Attempts -> Phases] /\ stored \subseteq Attempts
      /\ a \in stored \ unsaved /\ KindOf(a) = "span" /\ <<a, "read">> \notin lostWrites
  BY DEF DeliveryInv, DeliveryTypeOK, PhasesInv, Counters
<1>2. phase'[a] = "answer" /\ \A b \in Attempts \ {a} : phase'[b] = phase[b]
  BY <1>1
<1>3. \A b : <<b, "read">> \in lostWrites' <=> <<b, "read">> \in lostWrites
  OBVIOUS
<1>4. \A b : <<b, "daily">> \in lostWrites' <=> <<b, "daily">> \in lostWrites
  OBVIOUS
<1>5. a \notin Tried("usage") /\ Tried("usage")' = Tried("usage") \cup {a}
  BY <1>1, <1>2, <1>3 DEF Tried, Past
<1>6. Tried("daily")' = Tried("daily")
  BY <1>1, <1>2, <1>3 DEF Tried, Past
<1>7. Counted("daily")' = Counted("daily")
  BY <1>4, <1>6 DEF Counted
<1>8. Counted("usage")' \subseteq Counted("usage") \cup {a}
  BY <1>5 DEF Counted
<1>9. <<a, "usage">> \in lostWrites' => Counted("usage")' \subseteq Counted("usage")
  BY <1>5 DEF Counted
<1> QED  BY <1>5, <1>6, <1>7, <1>8, <1>9

(* What the sizes of the sets are then.                                    *)
LEMMA Grown ==
  ASSUME NEW S, NEW T, NEW x, IsFiniteSet(S), T \subseteq S \cup {x}
  PROVE  Cardinality(T) \in Nat /\ Cardinality(S) \in Nat /\ Cardinality(T) <= Cardinality(S) + 1
<1>1. IsFiniteSet(S \cup {x}) /\ Cardinality(S \cup {x}) \in Nat /\ Cardinality(S) \in Nat
      /\ Cardinality(S \cup {x}) <= Cardinality(S) + 1
  BY FS_AddElement, FS_CardinalityType
<1>2. IsFiniteSet(T) /\ Cardinality(T) <= Cardinality(S \cup {x})
  BY <1>1, FS_Subset
<1> QED  BY <1>1, <1>2, FS_CardinalityType

LEMMA DailyUsageStep ==
  ASSUME DeliveryInv, NEW a \in Attempts, phase[a] = "daily", phase' = [phase EXCEPT ![a] = "usage"],
         UNCHANGED <<reporterVars, stored, unsaved, viewerVars, usageHeld, sessionUsage, usageRaced, requestLog>>,
         \/ dailyUsage' = dailyUsage + 1 /\ UNCHANGED lostWrites
         \/ dailyUsage' \in {dailyUsage, dailyUsage + 1} /\ lostWrites' = lostWrites \cup {<<a, "daily">>}
  PROVE  DeliveryInv'
<1>1. DeliveryTypeOK /\ UsageAddsUp /\ \A b \in Attempts : usageHeld[b] <= Cardinality(Tried("usage"))
  BY DEF DeliveryInv, UsageInv
<1>2. lostWrites \subseteq lostWrites' /\ lostWrites' \subseteq lostWrites \cup {<<a, "daily">>}
      /\ dailyUsage' \in {dailyUsage, dailyUsage + 1}
      /\ dailyUsage' = dailyUsage => <<a, "daily">> \in lostWrites'
  BY <1>1 DEF DeliveryTypeOK
<1>3. /\ a \notin Tried("daily") /\ Tried("daily")' = Tried("daily") \cup {a}
      /\ Counted("daily")' \subseteq Counted("daily") \cup {a}
      /\ <<a, "daily">> \in lostWrites' => Counted("daily")' \subseteq Counted("daily")
      /\ Tried("usage")' = Tried("usage") /\ Counted("usage")' = Counted("usage")
  BY <1>2, DailyTried
<1>4. /\ IsFiniteSet(Tried("daily")) /\ Cardinality(Tried("daily")) \in Nat
      /\ IsFiniteSet(Counted("daily")) /\ Cardinality(Counted("daily")) \in Nat
  BY <1>1, TriedFinite
<1>5. Cardinality(Tried("daily")') = Cardinality(Tried("daily")) + 1
  BY <1>3, <1>4, FS_AddElement
<1>6. Cardinality(Counted("daily")') \in Nat
      /\ Cardinality(Counted("daily")') <= Cardinality(Counted("daily")) + 1
  BY <1>3, <1>4, Grown
<1>7. <<a, "daily">> \in lostWrites' => Cardinality(Counted("daily")') <= Cardinality(Counted("daily"))
  BY <1>3, <1>4, FS_Subset
<1>8. dailyUsage' \in Cardinality(Counted("daily")') .. Cardinality(Tried("daily")')
  <2>1. dailyUsage \in Cardinality(Counted("daily")) .. Cardinality(Tried("daily"))
    BY <1>1 DEF UsageAddsUp
  <2> QED  BY <1>2, <1>4, <1>5, <1>6, <1>7, <2>1
<1>9. UsageInv'
  BY <1>1, <1>3, <1>8 DEF UsageInv, UsageAddsUp
<1>10. /\ phase[a] \in Counters /\ <<a, "read">> \notin lostWrites'
       /\ dailyUsage' \in Nat /\ usageHeld' \in [Attempts -> Nat] /\ sessionUsage' \in Nat
       /\ usageRaced' \in BOOLEAN /\ requestLog' \in {requestLog, requestLog \cup {a}}
  BY <1>1, <1>2 DEF Counters, DeliveryInv, PhasesInv, DeliveryTypeOK
<1> QED  BY <1>2, <1>9, <1>10, CounterStep

LEMMA SessionUsageStep ==
  ASSUME DeliveryInv, NEW a \in Attempts, phase[a] = "usage", phase' = [phase EXCEPT ![a] = "answer"],
         UNCHANGED <<reporterVars, stored, unsaved, viewerVars, usageHeld, dailyUsage, requestLog>>,
         \/ WriteUsage(a) /\ UNCHANGED lostWrites
         \/ WriteUsage(a) /\ lostWrites' = lostWrites \cup {<<a, "usage">>}
         \/ UNCHANGED <<sessionUsage, usageRaced>> /\ lostWrites' = lostWrites \cup {<<a, "usage">>}
  PROVE  DeliveryInv'
<1>1. DeliveryTypeOK /\ UsageAddsUp /\ \A b \in Attempts : usageHeld[b] <= Cardinality(Tried("usage"))
  BY DEF DeliveryInv, UsageInv
<1>2. lostWrites \subseteq lostWrites' /\ lostWrites' \subseteq lostWrites \cup {<<a, "usage">>}
  OBVIOUS
<1>3. \/ WriteUsage(a)
      \/ UNCHANGED <<sessionUsage, usageRaced>> /\ <<a, "usage">> \in lostWrites'
  OBVIOUS
<1>4. /\ a \notin Tried("usage") /\ Tried("usage")' = Tried("usage") \cup {a}
      /\ Counted("usage")' \subseteq Counted("usage") \cup {a}
      /\ <<a, "usage">> \in lostWrites' => Counted("usage")' \subseteq Counted("usage")
      /\ Tried("daily")' = Tried("daily") /\ Counted("daily")' = Counted("daily")
  BY <1>2, UsageTried
<1>5. /\ IsFiniteSet(Tried("usage")) /\ Cardinality(Tried("usage")) \in Nat
      /\ IsFiniteSet(Counted("usage")) /\ Cardinality(Counted("usage")) \in Nat
      /\ usageHeld[a] \in Nat /\ sessionUsage \in Nat /\ usageRaced \in BOOLEAN
      /\ \A b \in Attempts : usageHeld[b] \in Nat
  BY <1>1, TriedFinite DEF DeliveryTypeOK
<1>6. Cardinality(Tried("usage")') = Cardinality(Tried("usage")) + 1
  BY <1>4, <1>5, FS_AddElement
<1>7. Cardinality(Counted("usage")') \in Nat
      /\ Cardinality(Counted("usage")') <= Cardinality(Counted("usage")) + 1
  BY <1>4, <1>5, Grown
<1>8. <<a, "usage">> \in lostWrites' => Cardinality(Counted("usage")') <= Cardinality(Counted("usage"))
  BY <1>4, <1>5, FS_Subset
<1>9. /\ sessionUsage <= Cardinality(Tried("usage"))
      /\ ~usageRaced => sessionUsage >= Cardinality(Counted("usage"))
      /\ usageHeld[a] <= Cardinality(Tried("usage"))
  BY <1>1 DEF UsageAddsUp
<1>10. sessionUsage' \in Nat /\ usageRaced' \in BOOLEAN
  <2>1. sessionUsage' \in Nat
    BY <1>3, <1>5 DEF WriteUsage
  <2>2. (usageRaced \/ usageHeld[a] # sessionUsage) \in BOOLEAN
    OBVIOUS
  <2>3. usageRaced' \in BOOLEAN
    BY <1>3, <1>5, <2>2 DEF WriteUsage
  <2> QED  BY <1>3, <2>1, <2>2, <2>3 DEF WriteUsage
<1>11. sessionUsage' <= Cardinality(Tried("usage")')
  BY <1>3, <1>5, <1>6, <1>9 DEF WriteUsage
<1>12. ~usageRaced' => sessionUsage' >= Cardinality(Counted("usage")')
  <2>1. CASE WriteUsage(a)
    <3>1. ~usageRaced' => ~usageRaced /\ sessionUsage' = sessionUsage + 1
      BY <2>1 DEF WriteUsage
    <3> QED  BY <1>5, <1>7, <1>9, <1>10, <3>1
  <2>2. CASE UNCHANGED <<sessionUsage, usageRaced>> /\ <<a, "usage">> \in lostWrites'
    BY <1>5, <1>7, <1>8, <1>9, <2>2
  <2> QED  BY <1>3, <2>1, <2>2
<1>13. \A b \in Attempts : usageHeld'[b] <= Cardinality(Tried("usage")')
  <2> DEFINE n == Cardinality(Tried("usage"))
  <2>1. n \in Nat /\ \A b \in Attempts : usageHeld[b] \in Nat /\ usageHeld[b] <= n
    BY <1>1, <1>5
  <2> HIDE DEF n
  <2>2. \A b \in Attempts : usageHeld[b] <= n + 1
    BY <2>1
  <2> QED  BY <1>6, <2>2 DEF n
<1>14. UsageInv'
  BY <1>1, <1>4, <1>11, <1>12, <1>13 DEF UsageInv, UsageAddsUp
<1>15. /\ phase[a] \in Counters /\ dailyUsage' \in Nat /\ usageHeld' \in [Attempts -> Nat]
       /\ requestLog' \in {requestLog, requestLog \cup {a}}
  BY <1>1 DEF Counters, DeliveryTypeOK
<1> QED  BY <1>2, <1>10, <1>14, <1>15, CounterStep

(* Steps at the counters that count nothing that usage adds up.            *)
LEMMA NotCountedStep ==
  ASSUME DeliveryInv, NEW a \in Attempts, phase[a] \in {"read", "log"},
         NEW p \in {"log", "daily", "answer"}, phase' = [phase EXCEPT ![a] = p],
         UNCHANGED <<reporterVars, stored, unsaved, viewerVars, sessionUsage, dailyUsage, usageRaced>>,
         lostWrites' \in {lostWrites, lostWrites \cup {<<a, phase[a]>>}},
         p = "answer" <=> <<a, "read">> \in lostWrites',
         usageHeld' \in {usageHeld, [usageHeld EXCEPT ![a] = sessionUsage]},
         requestLog' \in {requestLog, requestLog \cup {a}}
  PROVE  DeliveryInv'
<1>1. DeliveryTypeOK
  BY DEF DeliveryInv
<1>2. usageHeld' \in [Attempts -> Nat] /\ \A b \in Attempts : usageHeld'[b] \in {usageHeld[b], sessionUsage}
  BY <1>1 DEF DeliveryTypeOK
<1>3. /\ Tried("daily")' = Tried("daily") /\ Tried("usage")' = Tried("usage")
      /\ Counted("daily")' = Counted("daily") /\ Counted("usage")' = Counted("usage")
  <2>1. /\ phase[a] \notin {"usage", "answer", "done"}
        /\ p \notin {"usage", "answer", "done"} \/ <<a, "read">> \in lostWrites'
        /\ stored \ {a} = stored' \ {a} /\ unsaved \ {a} = unsaved' \ {a}
        /\ \A b, c : b # a => (<<b, c>> \in lostWrites' <=> <<b, c>> \in lostWrites)
    OBVIOUS
  <2> QED  BY <1>1, <2>1, NothingCounted
<1>4. UsageInv'
  BY <1>2, <1>3, UsageKept
<1>5. /\ phase[a] \in Counters /\ lostWrites \subseteq lostWrites'
      /\ lostWrites' \subseteq lostWrites \cup {<<a, phase[a]>>}
      /\ sessionUsage' \in Nat /\ dailyUsage' \in Nat /\ usageRaced' \in BOOLEAN
  BY <1>1 DEF Counters, DeliveryTypeOK
<1>6. p \in {"log", "daily", "usage", "answer"} /\ (<<a, "read">> \in lostWrites' => p = "answer")
  OBVIOUS
<1> QED  BY <1>2, <1>4, <1>5, <1>6, CounterStep

LEMMA CountFailsStep == ASSUME DeliveryInv, NEW a \in Attempts, CountFails(a)  PROVE DeliveryInv'
<1>1. DeliveryTypeOK /\ LossyCounters \subseteq Counters
  BY DeliveryAssumption DEF DeliveryInv
<1>2. /\ phase[a] \in Counters /\ lostWrites' = lostWrites \cup {<<a, phase[a]>>}
      /\ phase' = [phase EXCEPT ![a] = IF phase[a] = "read" THEN "answer" ELSE Then(a, phase[a])]
      /\ UNCHANGED <<reporterVars, stored, unsaved, usageHeld, viewerVars>>
  BY <1>1 DEF CountFails, Advance, DeliveryTypeOK
<1>3. PICK done \in BOOLEAN :
        /\ requestLog' = IF done /\ phase[a] = "log" THEN requestLog \cup {a} ELSE requestLog
        /\ dailyUsage' = IF done /\ phase[a] = "daily" THEN dailyUsage + 1 ELSE dailyUsage
        /\ IF done /\ phase[a] = "usage" THEN WriteUsage(a)
                                        ELSE UNCHANGED <<sessionUsage, usageRaced>>
  BY DEF CountFails
<1>4. <<a, "read">> \notin lostWrites
  BY <1>2 DEF DeliveryInv, PhasesInv, Counters
<1>5. CASE phase[a] = "read"
  BY <1>2, <1>3, <1>4, <1>5, NotCountedStep
<1>6. CASE phase[a] = "log"
  <2>1. phase' = [phase EXCEPT ![a] = "daily"]
    BY <1>2, <1>6, ThenIs
  <2> QED  BY <1>2, <1>3, <1>4, <1>6, <2>1, NotCountedStep
<1>7. CASE phase[a] = "daily"
  <2>1. phase' = [phase EXCEPT ![a] = "usage"]
    BY <1>2, <1>7, ThenIs
  <2> QED  BY <1>2, <1>3, <1>7, <2>1, DailyUsageStep
<1>8. CASE phase[a] = "usage"
  <2>1. phase' = [phase EXCEPT ![a] = "answer"]
    BY <1>2, <1>8, ThenIs
  <2> QED  BY <1>2, <1>3, <1>8, <2>1, SessionUsageStep
<1> QED  BY <1>2, <1>5, <1>6, <1>7, <1>8 DEF Counters

-----------------------------------------------------------------------------
(* Steps of the runtime and of the client.                                 *)
LEMMA RuntimeStep ==
  ASSUME DeliveryInv, UNCHANGED <<stored, unsaved, counterVars, viewerVars>>,
         DeliveryTypeOK', ReporterInv', ReportsKept',
         \/ UNCHANGED phase
         \/ \E a \in Attempts, p \in {"create", "done"} :
              /\ phase' = [phase EXCEPT ![a] = p]
              /\ <<phase[a], p>> \in {<<"none", "create">>, <<"answer", "done">>}
  PROVE  DeliveryInv'
<1>1. DeliveryTypeOK /\ PhasesInv /\ StreamComplete
  BY DEF DeliveryInv
<1>2. \A a \in Attempts : \/ phase'[a] = phase[a]
                          \/ phase[a] = "none" /\ phase'[a] = "create"
                          \/ phase[a] = "answer" /\ phase'[a] = "done"
  <2>1. ASSUME NEW a \in Attempts, NEW p, phase' = [phase EXCEPT ![a] = p]
        PROVE  phase'[a] = p /\ \A b \in Attempts \ {a} : phase'[b] = phase[b]
    BY <1>1, <2>1 DEF DeliveryTypeOK
  <2> QED  BY <2>1
<1>3. UNCHANGED <<stored, unsaved, lostWrites, usageHeld, sessionUsage, dailyUsage, usageRaced,
                  viewer, seen, undelivered>>
  BY DEF counterVars, viewerVars
<1>4. PhasesInv'
  BY <1>1, <1>2, <1>3 DEF PhasesInv, Counters
<1>5. StreamComplete'
  BY <1>1, <1>2, <1>3 DEF StreamComplete, DeliveryTypeOK
<1>6. UsageInv'
  <2>1. \A b \in stored : /\ phase'[b] \in Past("daily") <=> phase[b] \in Past("daily")
                          /\ phase'[b] \in Past("usage") <=> phase[b] \in Past("usage")
    BY <1>1, <1>2 DEF DeliveryTypeOK, Past
  <2>2. Tried("daily")' = Tried("daily") /\ Tried("usage")' = Tried("usage")
    BY <1>3, <2>1 DEF Tried
  <2>3. Counted("daily")' = Counted("daily") /\ Counted("usage")' = Counted("usage")
    BY <1>3, <2>2 DEF Counted
  <2> QED  BY <1>3, <2>2, <2>3, UsageKept
<1> QED  BY <1>4, <1>5, <1>6 DEF DeliveryInv

(* The runtime goes on after an attempt that was answered, or without one. *)
LEMMA GoneOn ==
  ASSUME DeliveryInv, cur <= Reports,
         \/ /\ cur' = cur + 1 /\ tries' = 0 /\ waiting' = FALSE
            /\ cur \in givenUp' \/ Current \in stored \cup unsaved
         \/ tries < MaxRetries /\ tries' = tries + 1 /\ waiting' = FALSE /\ cur' = cur,
         givenUp \subseteq givenUp', givenUp' \subseteq givenUp \cup {cur},
         UNCHANGED <<stored, unsaved>>
  PROVE  /\ cur' \in 1..(Reports + 1) /\ tries' \in 0..MaxRetries /\ givenUp' \subseteq 1..Reports
         /\ ReportsKept'
         /\ \A a \in Attempts : Begun(a) \/ a = Current => Begun(a)'
<1>1. /\ cur \in 1..(Reports + 1) /\ tries \in 0..MaxRetries /\ givenUp \subseteq 1..Reports
      /\ Reports \in Nat /\ MaxRetries \in Nat
  BY DeliveryAssumption DEF DeliveryInv, DeliveryTypeOK
<1>2. cur' \in 1..(Reports + 1) /\ tries' \in 0..MaxRetries /\ givenUp' \subseteq 1..Reports
  BY <1>1
<1>3. ReportsKept'
  <2> SUFFICES ASSUME NEW i \in 1..Reports, i < cur'
               PROVE  i \in givenUp' \/ \E n \in 0..MaxRetries : <<i, n>> \in stored \cup unsaved
    BY DEF ReportsKept
  <2>1. CASE i < cur
    BY <2>1 DEF DeliveryInv, ReportsKept
  <2>2. CASE ~(i < cur)
    <3>1. i = cur /\ cur' = cur + 1 /\ (cur \in givenUp' \/ Current \in stored \cup unsaved)
      BY <1>1, <2>2
    <3> QED  BY <1>1, <3>1 DEF Current
  <2> QED  BY <2>1, <2>2
<1>4. ASSUME NEW a \in Attempts, Begun(a) \/ a = Current  PROVE Begun(a)'
  <2>1. a[1] \in Nat /\ a[2] \in Nat
    BY DEF Attempts
  <2>2. a[1] < cur \/ (a[1] = cur /\ a[2] <= tries)
    BY <1>1, <1>4, <2>1 DEF Begun, Current
  <2> QED  BY <1>1, <2>1, <2>2 DEF Begun
<1> QED  BY <1>2, <1>3, <1>4

LEMMA PostStep == ASSUME DeliveryInv, Post  PROVE DeliveryInv'
<1>1. /\ DeliveryTypeOK /\ ReporterInv /\ ReportsKept /\ Current \in Attempts
      /\ cur \in 1..(Reports + 1) /\ tries \in 0..MaxRetries /\ Reports \in Nat /\ MaxRetries \in Nat
  BY CurrentIsAttempt, DeliveryAssumption DEF DeliveryInv, DeliveryTypeOK, Post
<1>2. phase[Current] = "none"
  BY <1>1 DEF ReporterInv, Begun, Current, Post
<1>3. phase' = [phase EXCEPT ![Current] = "create"]
  BY <1>1, <1>2, ThenIs DEF Post, Advance, DeliveryTypeOK
<1>4. /\ waiting' = TRUE /\ cur <= Reports
      /\ UNCHANGED <<cur, tries, abandoned, givenUp, stored, unsaved, counterVars, viewerVars>>
  BY DEF Post
<1>5. DeliveryTypeOK'
  <2>1. phase' \in [Attempts -> Phases]
    BY <1>1, <1>3 DEF DeliveryTypeOK, Phases
  <2> QED  BY <1>1, <1>4, <2>1 DEF DeliveryTypeOK, counterVars, viewerVars
<1>6. ReporterInv'
  <2>1. phase'[Current] = "create" /\ \A a \in Attempts \ {Current} : phase'[a] = phase[a]
    BY <1>1, <1>3 DEF DeliveryTypeOK
  <2>2. Current' = Current
    BY <1>4 DEF Current
  <2>3. \A a \in Attempts : phase'[a] # "none" => Begun(a)'
    <3>1. \A a \in Attempts : Begun(a) => Begun(a)'
      BY <1>4 DEF Begun
    <3>2. \A a \in Attempts : a = Current => Begun(a)'
      BY <1>4 DEF Begun, Current
    <3> QED  BY <1>1, <2>1, <3>1, <3>2 DEF ReporterInv
  <2>4. \A a \in Attempts : phase'[a] \notin {"none", "done"} /\ a \notin abandoned => a = Current
    BY <1>1, <2>1 DEF ReporterInv
  <2> QED  BY <1>4, <2>2, <2>3, <2>4 DEF ReporterInv
<1>7. ReportsKept'
  BY <1>1, <1>4 DEF ReportsKept
<1> QED  BY <1>1, <1>2, <1>3, <1>4, <1>5, <1>6, <1>7, RuntimeStep

(* PostFails and Timeout.                                                  *)
LEMMA RetryStep ==
  ASSUME DeliveryInv, cur <= Reports, Retry, phase' = phase,
         UNCHANGED <<stored, unsaved, counterVars, viewerVars>>,
         abandoned' \in {abandoned, abandoned \cup {Current}},
         waiting => Current \in abandoned'
  PROVE  DeliveryInv'
<1>1. /\ DeliveryTypeOK /\ ReporterInv /\ Current \in Attempts
      /\ cur \in 1..(Reports + 1) /\ tries \in 0..MaxRetries
  BY CurrentIsAttempt DEF DeliveryInv, DeliveryTypeOK
<1>2. /\ cur' \in 1..(Reports + 1) /\ tries' \in 0..MaxRetries /\ givenUp' \subseteq 1..Reports
      /\ ReportsKept'
      /\ \A a \in Attempts : Begun(a) \/ a = Current => Begun(a)'
  BY GoneOn DEF Retry
<1>3. waiting' = FALSE /\ abandoned \subseteq abandoned' /\ abandoned' \subseteq Attempts
  BY <1>1 DEF Retry, DeliveryTypeOK
<1>4. DeliveryTypeOK'
  BY <1>1, <1>2, <1>3 DEF DeliveryTypeOK, counterVars, viewerVars
<1>5. ReporterInv'
  <2>1. \A a \in Attempts : phase[a] \notin {"none", "done"} => a \in abandoned'
    BY <1>1, <1>3 DEF ReporterInv
  <2> QED  BY <1>1, <1>2, <1>3, <2>1 DEF ReporterInv
<1> QED  BY <1>2, <1>4, <1>5, RuntimeStep

LEMMA TimeoutStep == ASSUME DeliveryInv, Timeout  PROVE DeliveryInv'
  BY RetryStep DEF Timeout, DeliveryInv, ReporterInv

LEMMA AnsweredStep == ASSUME DeliveryInv, NEW a \in Attempts, Answered200(a)  PROVE DeliveryInv'
<1>1. /\ DeliveryTypeOK /\ ReporterInv /\ PhasesInv /\ ReportsKept
      /\ cur \in 1..(Reports + 1) /\ tries \in 0..MaxRetries
  BY DEF DeliveryInv, DeliveryTypeOK
<1>2. /\ phase[a] = "answer" /\ phase' = [phase EXCEPT ![a] = "done"]
      /\ UNCHANGED <<abandoned, givenUp, stored, unsaved, counterVars, viewerVars>>
  BY DEF Answered200, reporterVars
<1>3. phase' \in [Attempts -> Phases] /\ phase'[a] = "done" /\ \A b \in Attempts \ {a} : phase'[b] = phase[b]
  BY <1>1, <1>2 DEF DeliveryTypeOK, Phases
<1>4. CASE a \in abandoned
  <2>1. UNCHANGED <<cur, tries, waiting>>
    BY <1>4 DEF Answered200, reporterVars
  <2>2. DeliveryTypeOK'
    BY <1>1, <1>2, <1>3, <2>1 DEF DeliveryTypeOK, counterVars, viewerVars
  <2>3. ReporterInv'
    BY <1>1, <1>2, <1>3, <2>1 DEF ReporterInv, Begun, Current
  <2>4. ReportsKept'
    BY <1>1, <1>2, <2>1 DEF ReportsKept
  <2> QED  BY <1>2, <2>2, <2>3, <2>4, RuntimeStep
<1>5. CASE a \notin abandoned
  <2>1. waiting' = FALSE /\ cur' = cur + 1 /\ tries' = 0
    BY <1>5 DEF Answered200
  <2>a. a = Current /\ waiting /\ a \in stored \cup unsaved
    BY <1>1, <1>2, <1>5 DEF ReporterInv, PhasesInv
  <2>2. a = Current /\ cur <= Reports /\ Current \in stored \cup unsaved
    BY <1>1, <2>a DEF ReporterInv
  <2>3. /\ cur' \in 1..(Reports + 1) /\ tries' \in 0..MaxRetries /\ givenUp' \subseteq 1..Reports
        /\ ReportsKept'
        /\ \A b \in Attempts : Begun(b) \/ b = Current => Begun(b)'
    BY <1>2, <2>1, <2>2, GoneOn
  <2>4. DeliveryTypeOK'
    BY <1>1, <1>2, <1>3, <2>1, <2>3 DEF DeliveryTypeOK, counterVars, viewerVars
  <2>5. \A b \in Attempts : phase'[b] \notin {"none", "done"} => b \in abandoned
    BY <1>1, <1>3, <2>2 DEF ReporterInv
  <2>6. \A b \in Attempts : phase'[b] # "none" => Begun(b)'
    BY <1>1, <1>3, <2>2, <2>3 DEF ReporterInv
  <2>7. ReporterInv'
    BY <1>2, <2>1, <2>5, <2>6 DEF ReporterInv
  <2> QED  BY <1>2, <2>3, <2>4, <2>7, RuntimeStep
<1> QED  BY <1>4, <1>5

(* The client: it has what the log has, and is shown the rest.             *)
LEMMA ViewerStep ==
  ASSUME DeliveryInv, UNCHANGED <<reporterVars, phase, stored, unsaved, counterVars, undelivered>>,
         viewer' \in {"subscribed", "listed"}, seen \subseteq seen', seen' \subseteq Attempts,
         viewer' = "listed" => stored \subseteq seen'
  PROVE  DeliveryInv'
<1>1. /\ DeliveryTypeOK /\ ReporterInv /\ PhasesInv /\ ReportsKept /\ UsageInv
      /\ UNCHANGED <<cur, tries, waiting, abandoned, givenUp, phase, stored, unsaved, usageHeld, sessionUsage,
                     dailyUsage, requestLog, lostWrites, usageRaced, undelivered>>
  BY DEF DeliveryInv, reporterVars, counterVars
<1>2. DeliveryTypeOK'
  BY <1>1 DEF DeliveryTypeOK
<1>3. ReporterInv'
  BY <1>1 DEF ReporterInv, Begun, Current
<1>4. PhasesInv' /\ ReportsKept'
  BY <1>1 DEF PhasesInv, ReportsKept
<1>5. StreamComplete'
  BY <1>1 DEF StreamComplete
<1>6. UsageInv'
  BY <1>1 DEF UsageInv, UsageAddsUp, Tried, Counted
<1> QED  BY <1>2, <1>3, <1>4, <1>5, <1>6 DEF DeliveryInv

-----------------------------------------------------------------------------
(* One step per disjunct of DeliveryNext.                                  *)
LEMMA DeliveryStep == DeliveryInv /\ [DeliveryNext]_deliveryVars => DeliveryInv'
<1> SUFFICES ASSUME DeliveryInv, [DeliveryNext]_deliveryVars  PROVE DeliveryInv'
  OBVIOUS
<1>a. DeliveryTypeOK /\ PhasesInv /\ phase \in [Attempts -> Phases] /\ dailyUsage \in Nat
  BY DEF DeliveryInv, DeliveryTypeOK
<1>b. \A a \in Attempts : phase[a] \in Counters => <<a, "read">> \notin lostWrites
  BY <1>a DEF PhasesInv, Counters
<1>1. CASE Post
  BY <1>1, PostStep
<1>2. CASE PostFails
  BY <1>2, RetryStep DEF PostFails
<1>3. CASE Timeout
  BY <1>3, TimeoutStep
<1>4. ASSUME NEW a \in Attempts, CreateEvent(a)  PROVE DeliveryInv'
  BY <1>4, CreateEventStep
<1>5. ASSUME NEW a \in Attempts, Publish(a)  PROVE DeliveryInv'
  BY <1>5, PublishStep
<1>6. ASSUME NEW a \in Attempts, ReadUsage(a)  PROVE DeliveryInv'
  <2>1. phase[a] = "read" /\ phase' = [phase EXCEPT ![a] = "log"]
    BY <1>6, ThenIs DEF ReadUsage, Advance
  <2>2. <<a, "read">> \notin lostWrites
    BY <1>b, <2>1 DEF Counters
  <2> QED  BY <1>6, <2>1, <2>2, NotCountedStep DEF ReadUsage
<1>7. ASSUME NEW a \in Attempts, InsertRequestLog(a)  PROVE DeliveryInv'
  <2>1. phase[a] = "log" /\ phase' = [phase EXCEPT ![a] = "daily"]
    BY <1>7, ThenIs DEF InsertRequestLog, Advance
  <2>2. <<a, "read">> \notin lostWrites
    BY <1>b, <2>1 DEF Counters
  <2> QED  BY <1>7, <2>1, <2>2, NotCountedStep DEF InsertRequestLog
<1>8. ASSUME NEW a \in Attempts, IncrementDailyUsage(a)  PROVE DeliveryInv'
  <2>1. phase[a] = "daily" /\ phase' = [phase EXCEPT ![a] = "usage"]
    BY <1>8, ThenIs DEF IncrementDailyUsage, Advance
  <2> QED  BY <1>8, <2>1, DailyUsageStep DEF IncrementDailyUsage
<1>9. ASSUME NEW a \in Attempts, UpdateUsage(a)  PROVE DeliveryInv'
  <2>1. phase[a] = "usage" /\ phase' = [phase EXCEPT ![a] = "answer"]
    BY <1>9, ThenIs DEF UpdateUsage, Advance
  <2> QED  BY <1>9, <2>1, SessionUsageStep DEF UpdateUsage
<1>10. ASSUME NEW a \in Attempts, CountFails(a)  PROVE DeliveryInv'
  BY <1>10, CountFailsStep
<1>11. ASSUME NEW a \in Attempts, Answered200(a)  PROVE DeliveryInv'
  BY <1>11, AnsweredStep
<1>12. CASE Subscribe
  BY <1>a, <1>12, ViewerStep DEF Subscribe, DeliveryTypeOK
<1>13. CASE ListLog
  BY <1>a, <1>13, ViewerStep DEF ListLog, DeliveryTypeOK
<1>14. CASE UNCHANGED deliveryVars
  <2>1. /\ DeliveryTypeOK /\ ReporterInv /\ PhasesInv /\ ReportsKept /\ StreamComplete /\ UsageInv
        /\ UNCHANGED <<cur, tries, waiting, abandoned, givenUp, phase, stored, unsaved, usageHeld, sessionUsage,
                       dailyUsage, requestLog, lostWrites, usageRaced, viewer, seen, undelivered>>
    BY <1>14 DEF DeliveryInv, deliveryVars, reporterVars, counterVars, viewerVars
  <2>2. DeliveryTypeOK' /\ ReporterInv'
    BY <2>1 DEF DeliveryTypeOK, ReporterInv, Begun, Current
  <2>3. PhasesInv' /\ ReportsKept' /\ StreamComplete'
    BY <2>1 DEF PhasesInv, ReportsKept, StreamComplete
  <2>4. UsageInv'
    BY <2>1 DEF UsageInv, UsageAddsUp, Tried, Counted
  <2> QED  BY <2>2, <2>3, <2>4 DEF DeliveryInv
<1> QED
  BY <1>1, <1>2, <1>3, <1>4, <1>5, <1>6, <1>7, <1>8, <1>9, <1>10, <1>11, <1>12, <1>13, <1>14
     DEF DeliveryNext

(* Reports, log, counters and stream agree in every reachable state.       *)
THEOREM DeliveryInvariance == DeliverySpec => []DeliveryInv
<1>1. DeliveryInit => DeliveryInv
  BY DeliveryInitOK
<1>2. DeliveryInv /\ [DeliveryNext]_deliveryVars => DeliveryInv'
  BY DeliveryStep
<1> QED  BY <1>1, <1>2, PTL DEF DeliverySpec

(* No report is dropped in silence by the runtime (Report of reporter.go): *)
(* it was stored, refused by the database, or given up.                    *)
THEOREM ReportsAreKept == DeliverySpec => []ReportsKept
<1>1. DeliveryInv => ReportsKept
  BY DEF DeliveryInv
<1> QED  BY <1>1, DeliveryInvariance, PTL

(* A client that subscribes before it lists the log misses only what the   *)
(* bus has lost (Stream of event_handler.go).                              *)
THEOREM StreamsAreComplete == DeliverySpec => []StreamComplete
<1>1. DeliveryInv => StreamComplete
  BY DEF DeliveryInv
<1> QED  BY <1>1, DeliveryInvariance, PTL

(* The usage counters are the number of the spans stored, but for the      *)
(* statements that failed and, in the session's, for concurrent readings   *)
(* (recordAnalytics of internal_handler.go).                               *)
THEOREM UsageAlwaysAddsUp == DeliverySpec => []UsageAddsUp
<1>1. DeliveryInv => UsageAddsUp
  BY DEF DeliveryInv, UsageInv
<1> QED  BY <1>1, DeliveryInvariance, PTL
=============================================================================
