------------------------- MODULE ConversationProofs -------------------------
(***************************************************************************)
(* What holds of every conversation, for any number of messages, rounds    *)
(* and tools, any page size and any compression: the log tells its turns,  *)
(* the requests of a polite client's turns are well paired, and nothing    *)
(* that fits into a page is forgotten.                                     *)
(***************************************************************************)
EXTENDS Conversation, FiniteSetTheorems, SequenceTheorems, TLAPS

-----------------------------------------------------------------------------
(* Positions and their ranks.                                              *)

(* A set of positions is finite.                                           *)
LEMMA FinitePositions ==
  ASSUME NEW n \in Nat, NEW S, S \subseteq 1 .. n
  PROVE  IsFiniteSet(S) /\ S \subseteq Nat /\ Cardinality(S) \in Nat
<1>1. IsFiniteSet(1 .. n)
  BY FS_Interval
<1>2. IsFiniteSet(S)
  BY <1>1, FS_Subset
<1> QED  BY <1>2, FS_CardinalityType

(* Part of a finite set is finite, and no greater.                         *)
LEMMA FinitePart ==
  ASSUME NEW S, IsFiniteSet(S), NEW P, P \subseteq S
  PROVE  /\ IsFiniteSet(P)
         /\ Cardinality(P) \in Nat /\ Cardinality(S) \in Nat
         /\ Cardinality(P) <= Cardinality(S)
         /\ P # S => Cardinality(P) < Cardinality(S)
<1>1. /\ IsFiniteSet(P)
      /\ Cardinality(P) <= Cardinality(S)
      /\ Cardinality(S) = Cardinality(P) => S = P
  BY FS_Subset
<1>2. Cardinality(P) \in Nat /\ Cardinality(S) \in Nat
  BY <1>1, FS_CardinalityType
<1> QED  BY <1>1, <1>2

(* The ranks of the members of a set of positions are their numbers, in    *)
(* order.                                                                  *)
LEMMA RankType ==
  ASSUME NEW S \in SUBSET Nat, IsFiniteSet(S), NEW i \in Nat
  PROVE  /\ Cardinality(S) \in Nat
         /\ Rank(S, i) \in 0 .. Cardinality(S)
         /\ i \in S => Rank(S, i) \in 1 .. Cardinality(S)
<1> DEFINE Upto == {j \in S : j <= i}
<1>1. IsFiniteSet(Upto) /\ Cardinality(S) \in Nat /\ Cardinality(Upto) \in Nat
      /\ Cardinality(Upto) <= Cardinality(S)
  BY FinitePart
<1>2. i \in S => Upto # {}
  OBVIOUS
<1>3. i \in S => Cardinality(Upto) # 0
  BY <1>1, <1>2, FS_EmptySet
<1>4. Rank(S, i) = Cardinality(Upto)
  BY DEF Rank
<1> HIDE DEF Upto
<1> QED  BY <1>1, <1>3, <1>4

LEMMA RankGrows ==
  ASSUME NEW S \in SUBSET Nat, IsFiniteSet(S), NEW i \in S, NEW j \in S, i < j
  PROVE  Rank(S, i) < Rank(S, j)
<1> DEFINE A == {q \in S : q <= i}
           B == {q \in S : q <= j}
<1>1. IsFiniteSet(B)
  BY FinitePart
<1>2. A \subseteq B /\ A # B
  <2>1. A \subseteq B
    <3> SUFFICES ASSUME NEW q \in A  PROVE q \in B
      OBVIOUS
    <3>1. q \in Nat /\ i \in Nat /\ j \in Nat /\ q \in S /\ q <= i
      OBVIOUS
    <3> QED  BY <3>1
  <2>2. j \in B /\ j \notin A
    OBVIOUS
  <2> QED  BY <2>1, <2>2
<1>3. Rank(S, i) = Cardinality(A) /\ Rank(S, j) = Cardinality(B)
  BY DEF Rank
<1> HIDE DEF A, B
<1> QED  BY <1>1, <1>2, <1>3, FinitePart

LEMMA RankDiffers ==
  ASSUME NEW S \in SUBSET Nat, IsFiniteSet(S), NEW i \in S, NEW j \in S, i # j
  PROVE  Rank(S, i) # Rank(S, j)
<1>1. Rank(S, i) \in Nat /\ Rank(S, j) \in Nat
  BY RankType
<1>2. i < j \/ j < i
  OBVIOUS
<1>3. CASE i < j
  <2>1. Rank(S, i) < Rank(S, j)
    BY <1>3, RankGrows
  <2> QED  BY <1>1, <2>1
<1>4. CASE j < i
  <2>1. Rank(S, j) < Rank(S, i)
    BY <1>4, RankGrows
  <2> QED  BY <1>1, <2>1
<1> QED  BY <1>2, <1>3, <1>4

(* So the k-th member exists, for every k up to their number ...           *)
LEMMA KthIs ==
  ASSUME NEW S \in SUBSET Nat, IsFiniteSet(S), NEW k \in 1 .. Cardinality(S)
  PROVE  Kth(S, k) \in S /\ Rank(S, Kth(S, k)) = k
<1> DEFINE N == 1 .. Cardinality(S)
           f == [i \in S |-> Rank(S, i)]
<1>1. Cardinality(S) \in Nat
  BY FS_CardinalityType
<1>2. IsFiniteSet(N) /\ Cardinality(N) = Cardinality(S)
  BY <1>1, FS_Interval
<1>3. \A i \in S : Rank(S, i) \in N
  BY <1>1, RankType
<1>4. \A i, j \in S : i # j => Rank(S, i) # Rank(S, j)
  BY RankDiffers
<1> HIDE DEF N
<1>5. f \in Injection(S, N)
  BY <1>3, <1>4 DEF Injection, IsInjective
<1> HIDE DEF f
<1>6. f \in Surjection(S, N)
  BY <1>1, <1>2, <1>5, FS_Injection
<1> USE DEF f
<1>7. PICK i \in S : f[i] = k
  BY <1>6 DEF Surjection, N
<1>8. Rank(S, i) = k
  BY <1>7
<1> QED  BY <1>8 DEF Kth

(* ... and it is the only one of its rank.                                 *)
LEMMA KthOfRank ==
  ASSUME NEW S \in SUBSET Nat, IsFiniteSet(S), NEW i \in S
  PROVE  Kth(S, Rank(S, i)) = i
<1>1. Rank(S, i) \in 1 .. Cardinality(S)
  BY RankType
<1> DEFINE j == Kth(S, Rank(S, i))
<1>2. j \in S /\ Rank(S, j) = Rank(S, i)
  BY <1>1, KthIs
<1> HIDE DEF j
<1>3. i = j
  BY <1>2, RankDiffers
<1> QED  BY <1>3 DEF j

(* A set of positions with a member has a first one.                       *)
LEMMA FirstPosition ==
  ASSUME NEW S \in SUBSET Nat, IsFiniteSet(S), S # {}
  PROVE  \E i \in S : \A j \in S : i <= j
<1>1. Cardinality(S) \in Nat /\ Cardinality(S) # 0
  BY FS_EmptySet, FS_CardinalityType
<1> DEFINE i == Kth(S, 1)
<1>2. i \in S /\ Rank(S, i) = 1
  BY <1>1, KthIs
<1> HIDE DEF i
<1>3. ASSUME NEW j \in S, ~(i <= j)  PROVE FALSE
  <2>1. j < i
    BY <1>2, <1>3
  <2>2. Rank(S, j) < Rank(S, i)
    BY <1>2, <2>1, RankGrows
  <2>3. Rank(S, j) \in 1 .. Cardinality(S)
    BY RankType
  <2> QED  BY <1>1, <1>2, <2>2, <2>3
<1> QED  BY <1>2, <1>3
-----------------------------------------------------------------------------
(* The messages made of a history.                                         *)

LEMMA Positions ==
  ASSUME NEW evts \in Seq(EventSet)
  PROVE  /\ Spoken(evts) \subseteq DOMAIN evts /\ Starts(evts) \subseteq Spoken(evts)
         /\ DOMAIN evts = 1 .. Len(evts) /\ Len(evts) \in Nat
         /\ Spoken(evts) \in SUBSET Nat /\ IsFiniteSet(Spoken(evts))
         /\ Starts(evts) \in SUBSET Nat /\ IsFiniteSet(Starts(evts))
         /\ \A i \in Spoken(evts) : RoleOf(evts[i]) \in {"user", "assistant"}
<1>1. DOMAIN evts = 1 .. Len(evts) /\ Len(evts) \in Nat
  OBVIOUS
<1>2. Spoken(evts) \subseteq DOMAIN evts /\ Starts(evts) \subseteq Spoken(evts)
  BY DEF Spoken, Starts
<1>3. \A i \in Spoken(evts) : RoleOf(evts[i]) \in {"user", "assistant"}
  BY DEF Spoken, RoleOf
<1> QED  BY <1>1, <1>2, <1>3, FinitePositions

(* Whatever is said is part of a message.                                  *)
LEMMA InAMessage ==
  ASSUME NEW evts \in Seq(EventSet), NEW i \in Spoken(evts)
  PROVE  Rank(Starts(evts), i) \in 1 .. Cardinality(Starts(evts))
<1> DEFINE S == Starts(evts)
           Upto == {j \in S : j <= i}
<1>1. PICK f \in Spoken(evts) : \A j \in Spoken(evts) : f <= j
  BY Positions, FirstPosition
<1>2. f \in S
  <2>1. \A j \in Spoken(evts) : j \in Nat /\ ~(j < f)
    BY <1>1, Positions
  <2> QED  BY <2>1 DEF Starts
<1>3. f \in Upto
  BY <1>1, <1>2
<1>4. S \in SUBSET Nat /\ IsFiniteSet(S) /\ i \in Nat
  BY Positions
<1>5. Rank(S, i) \in 0 .. Cardinality(S) /\ Cardinality(S) \in Nat
  BY <1>4, RankType
<1>6. IsFiniteSet(Upto) /\ Upto # {} /\ Rank(S, i) = Cardinality(Upto)
  BY <1>3, <1>4, FinitePart DEF Rank
<1>7. Rank(S, i) # 0
  BY <1>6, FS_EmptySet
<1> QED  BY <1>5, <1>7

(* The events picked at some positions are the ones that are there.        *)
LEMMA Picked ==
  ASSUME NEW evts \in Seq(EventSet), NEW S, S \subseteq DOMAIN evts
  PROVE  /\ Pick(evts, S) \in Seq(EventSet)
         /\ Len(Pick(evts, S)) = Cardinality(S)
         /\ {Pick(evts, S)[k] : k \in DOMAIN Pick(evts, S)} = {evts[i] : i \in S}
<1>1. IsFiniteSet(S) /\ S \in SUBSET Nat /\ Cardinality(S) \in Nat
  BY FinitePositions, Positions
<1>2. \A k \in 1 .. Cardinality(S) : Kth(S, k) \in S
  BY <1>1, KthIs
<1>3. \A i \in S : Rank(S, i) \in 1 .. Cardinality(S) /\ Kth(S, Rank(S, i)) = i
  BY <1>1, RankType, KthOfRank
<1>4. \A i \in S : evts[i] \in EventSet
  OBVIOUS
<1> DEFINE p == Pick(evts, S)
<1>5. p = [k \in 1 .. Cardinality(S) |-> evts[Kth(S, k)]]
  BY DEF Pick
<1> HIDE DEF p
<1>6. p \in [1 .. Cardinality(S) -> EventSet]
  BY <1>2, <1>4, <1>5
<1>7. p \in Seq(EventSet) /\ Len(p) = Cardinality(S) /\ DOMAIN p = 1 .. Cardinality(S)
  BY <1>1, <1>6
<1>8. \A k \in DOMAIN p : \E i \in S : p[k] = evts[i]
  BY <1>2, <1>5, <1>7
<1>9. \A i \in S : \E k \in DOMAIN p : p[k] = evts[i]
  BY <1>3, <1>5, <1>7
<1>10. {p[k] : k \in DOMAIN p} = {evts[i] : i \in S}
  BY <1>8, <1>9
<1> QED  BY <1>7, <1>10 DEF p

LEMMA MessagesOf ==
  ASSUME NEW evts \in Seq(EventSet)
  PROVE  /\ EventsToMessages(evts) \in Seq(MessageSet)
         /\ Len(EventsToMessages(evts)) = Cardinality(Starts(evts))
         /\ \A k \in 1 .. Cardinality(Starts(evts)) :
              LET c == EventsToMessages(evts)[k].content IN
              /\ c \in Seq(EventSet)
              /\ {c[n] : n \in DOMAIN c} = {evts[i] : i \in Blocks(evts, k)}
<1> DEFINE N == Cardinality(Starts(evts))
           M(k) == Message(RoleOf(evts[Kth(Starts(evts), k)]), Pick(evts, Blocks(evts, k)))
<1>1. N \in Nat
  BY Positions, FS_CardinalityType
<1>2. ASSUME NEW k \in 1 .. N
      PROVE  /\ M(k) \in MessageSet
             /\ M(k).content \in Seq(EventSet)
             /\ {M(k).content[n] : n \in DOMAIN M(k).content} = {evts[i] : i \in Blocks(evts, k)}
  <2>1. Kth(Starts(evts), k) \in Starts(evts)
    BY Positions, KthIs
  <2>2. RoleOf(evts[Kth(Starts(evts), k)]) \in {"user", "assistant"}
    BY <2>1, Positions
  <2>3. Blocks(evts, k) \subseteq DOMAIN evts
    BY Positions DEF Blocks
  <2>4. Pick(evts, Blocks(evts, k)) \in Seq(EventSet)
    BY <2>3, Picked
  <2>5. {Pick(evts, Blocks(evts, k))[n] : n \in DOMAIN Pick(evts, Blocks(evts, k))}
           = {evts[i] : i \in Blocks(evts, k)}
    BY <2>3, Picked
  <2>6. M(k).content = Pick(evts, Blocks(evts, k))
    BY DEF Message
  <2>7. M(k) \in MessageSet
    BY <2>2, <2>4 DEF Message, MessageSet
  <2> QED  BY <2>4, <2>5, <2>6, <2>7
<1>3. EventsToMessages(evts) = [k \in 1 .. N |-> M(k)]
  BY DEF EventsToMessages
<1> HIDE DEF M, N
<1>4. EventsToMessages(evts) \in Seq(MessageSet) /\ Len(EventsToMessages(evts)) = N
      /\ \A k \in 1 .. N : EventsToMessages(evts)[k] = M(k)
  BY <1>1, <1>2, <1>3
<1>5. ASSUME NEW k \in 1 .. N
      PROVE  LET c == EventsToMessages(evts)[k].content IN
              /\ c \in Seq(EventSet)
              /\ {c[n] : n \in DOMAIN c} = {evts[i] : i \in Blocks(evts, k)}
  BY <1>2, <1>4
<1> QED  BY <1>4, <1>5 DEF N

(* The tool calls, or results, of a message are those at its positions.    *)
LEMMA RefsOf ==
  ASSUME NEW evts \in Seq(EventSet), NEW k \in 1 .. Cardinality(Starts(evts)), NEW t
  PROVE  Refs(EventsToMessages(evts)[k], t)
           = {evts[i].ref : i \in {j \in Blocks(evts, k) : evts[j].type = t}}
<1> DEFINE c == EventsToMessages(evts)[k].content
           B == Blocks(evts, k)
<1>1. {c[n] : n \in DOMAIN c} = {evts[i] : i \in B}
  BY MessagesOf
<1>2. Refs(EventsToMessages(evts)[k], t) = {c[i].ref : i \in {j \in DOMAIN c : c[j].type = t}}
  BY DEF Refs
<1> HIDE DEF c, B
<1>3. \A n \in DOMAIN c : \E i \in B : c[n] = evts[i]
  BY <1>1
<1>4. \A i \in B : \E n \in DOMAIN c : c[n] = evts[i]
  BY <1>1
<1>5. {c[i].ref : i \in {j \in DOMAIN c : c[j].type = t}}
        = {evts[i].ref : i \in {j \in B : evts[j].type = t}}
  BY <1>3, <1>4
<1> QED  BY <1>2, <1>5 DEF B

-----------------------------------------------------------------------------
(* Tool calls and their results, in a history and in its messages.         *)

(* The j-th event answers the i-th: the results of its round begin between *)
(* them, and nothing else is said that would come between call and result. *)
Answers(evts, i, j) ==
  /\ i < j
  /\ evts[i].ref = evts[j].ref
  /\ \E p \in 1 .. Len(evts) :
       /\ i < p /\ p <= j /\ RoleOf(evts[p]) = "user"
       /\ \A q \in 1 .. Len(evts) : i <= q /\ q < p => RoleOf(evts[q]) \in {"assistant", "nobody"}
       /\ \A q \in 1 .. Len(evts) : p <= q /\ q <= j => RoleOf(evts[q]) \in {"user", "nobody"}

(* Every call is answered, and nothing else is.                            *)
PairedEvents(evts) ==
  /\ \A i \in DOMAIN evts : evts[i].type = "agent.tool_use" =>
       \E j \in DOMAIN evts : evts[j].type = "agent.tool_result" /\ Answers(evts, i, j)
  /\ \A j \in DOMAIN evts : evts[j].type = "agent.tool_result" =>
       \E i \in DOMAIN evts : evts[i].type = "agent.tool_use" /\ Answers(evts, i, j)

(* A message begins where the one before has said the last of its part.    *)
LEMMA StartsAre ==
  ASSUME NEW evts \in Seq(EventSet), NEW i \in 1 .. Len(evts), RoleOf(evts[i]) # "nobody"
  PROVE  i \in Starts(evts) <=>
           ~\E j \in 1 .. Len(evts) :
              /\ RoleOf(evts[j]) # "nobody" /\ j < i
              /\ \A k \in 1 .. Len(evts) :
                   j <= k /\ k < i => RoleOf(evts[k]) \in {RoleOf(evts[i]), "nobody"}
<1>1. DOMAIN evts = 1 .. Len(evts) /\ Len(evts) \in Nat /\ i \in Nat
  OBVIOUS
<1>2. \A j \in 1 .. Len(evts) : \A k : k \in j .. i - 1 <=> k \in 1 .. Len(evts) /\ j <= k /\ k < i
  BY <1>1
<1> QED  BY <1>1, <1>2 DEF Starts, Spoken

(* A result is part of the message after the one its call is part of.      *)
LEMMA AnswerIsNext ==
  ASSUME NEW evts \in Seq(EventSet), NEW i \in 1 .. Len(evts), NEW j \in 1 .. Len(evts),
         evts[i].type = "agent.tool_use", evts[j].type = "agent.tool_result",
         Answers(evts, i, j)
  PROVE  /\ i \in Spoken(evts) /\ j \in Spoken(evts)
         /\ Rank(Starts(evts), j) = Rank(Starts(evts), i) + 1
<1> DEFINE S == Starts(evts)
           A == {q \in S : q <= i}
           B == {q \in S : q <= j}
<1> HIDE DEF S, A, B
<1>1. RoleOf(evts[i]) = "assistant" /\ RoleOf(evts[j]) = "user"
  BY DEF RoleOf
<1>2. i \in Spoken(evts) /\ j \in Spoken(evts)
  BY <1>1, Positions DEF Spoken
<1>3. PICK p \in 1 .. Len(evts) :
       /\ i < p /\ p <= j /\ RoleOf(evts[p]) = "user"
       /\ \A q \in 1 .. Len(evts) : i <= q /\ q < p => RoleOf(evts[q]) \in {"assistant", "nobody"}
       /\ \A q \in 1 .. Len(evts) : p <= q /\ q <= j => RoleOf(evts[q]) \in {"user", "nobody"}
  BY DEF Answers
<1>4. Len(evts) \in Nat
  BY Positions
<1>5. p \in S
  <2> SUFFICES ASSUME NEW q \in 1 .. Len(evts), RoleOf(evts[q]) # "nobody", q < p,
                      \A k \in 1 .. Len(evts) :
                         q <= k /\ k < p => RoleOf(evts[k]) \in {"user", "nobody"}
               PROVE  FALSE
    BY <1>3, StartsAre DEF S
  <2>1. CASE q <= i
    BY <1>1, <1>3, <1>4, <2>1
  <2>2. CASE i < q
    BY <1>3, <1>4, <2>2
  <2> QED  BY <1>4, <2>1, <2>2
<1>6. ASSUME NEW k \in 1 .. Len(evts), k \in S, i < k, k <= j, k # p  PROVE FALSE
  <2>1. RoleOf(evts[k]) # "nobody"
    BY <1>6, Positions DEF S, Spoken
  <2>2. ~\E q \in 1 .. Len(evts) :
           /\ RoleOf(evts[q]) # "nobody" /\ q < k
           /\ \A r \in 1 .. Len(evts) :
                q <= r /\ r < k => RoleOf(evts[r]) \in {RoleOf(evts[k]), "nobody"}
    BY <1>6, <2>1, StartsAre DEF S
  <2>3. CASE k < p
    <3>1. RoleOf(evts[k]) = "assistant"
      BY <1>3, <1>4, <1>6, <2>1, <2>3
    <3>2. \A r \in 1 .. Len(evts) : i <= r /\ r < k => RoleOf(evts[r]) \in {"assistant", "nobody"}
      BY <1>3, <1>4, <1>6, <2>3
    <3> QED  BY <1>1, <1>6, <2>2, <3>1, <3>2
  <2>4. CASE p < k
    <3>1. RoleOf(evts[k]) = "user"
      BY <1>3, <1>4, <1>6, <2>1, <2>4
    <3>2. \A r \in 1 .. Len(evts) : p <= r /\ r < k => RoleOf(evts[r]) \in {"user", "nobody"}
      BY <1>3, <1>4, <1>6, <2>4
    <3> QED  BY <1>3, <2>2, <2>4, <3>1, <3>2
  <2> QED  BY <1>4, <1>6, <2>3, <2>4
<1>7. S \in SUBSET Nat /\ IsFiniteSet(S) /\ S \subseteq 1 .. Len(evts)
  BY Positions DEF S
<1> USE DEF A, B
<1>8. B = A \cup {p} /\ p \notin A
  <2>1. ASSUME NEW q \in B  PROVE q \in A \cup {p}
    <3>1. q \in S /\ q <= j /\ q \in 1 .. Len(evts)
      BY <1>7
    <3>2. q <= i \/ q = p
      BY <1>4, <1>6, <3>1
    <3> QED  BY <3>1, <3>2
  <2>2. ASSUME NEW q \in A  PROVE q \in B
    <3>1. q \in S /\ q <= i /\ q \in 1 .. Len(evts)
      BY <1>7
    <3>2. q <= j
      BY <1>3, <1>4, <3>1
    <3> QED  BY <3>1, <3>2
  <2>3. p \in B /\ p \notin A
    BY <1>3, <1>4, <1>5
  <2> QED  BY <2>1, <2>2, <2>3
<1>9. Rank(S, i) = Cardinality(A) /\ Rank(S, j) = Cardinality(B) /\ IsFiniteSet(A)
  BY <1>7, FinitePart DEF Rank
<1> HIDE DEF A, B
<1>10. Cardinality(B) = Cardinality(A) + 1
  BY <1>8, <1>9, FS_AddElement
<1> QED  BY <1>2, <1>9, <1>10 DEF S

(* So the messages of a history in which every call is answered are ones   *)
(* the Messages API accepts.                                               *)
LEMMA HistoryPaired ==
  ASSUME NEW evts \in Seq(EventSet), PairedEvents(evts)
  PROVE  Paired(EventsToMessages(evts))
<1> DEFINE ms == EventsToMessages(evts)
           N == Cardinality(Starts(evts))
           At(k, t) == {j \in Blocks(evts, k) : evts[j].type = t}
<1>1. Len(ms) = N /\ N \in Nat
  BY MessagesOf, Positions, FS_CardinalityType
<1>2. \A k \in 1 .. N : \A t : Refs(ms[k], t) = {evts[i].ref : i \in At(k, t)}
  BY RefsOf
<1>3. \A k : \A i \in Blocks(evts, k) :
         i \in Spoken(evts) /\ i \in DOMAIN evts /\ Rank(Starts(evts), i) = k
  BY Positions DEF Blocks
<1> HIDE DEF ms
<1>4. ASSUME NEW k \in 1 .. N, NEW i \in At(k, "agent.tool_use")
      PROVE  k + 1 \in 1 .. N /\ \E j \in At(k + 1, "agent.tool_result") : evts[j].ref = evts[i].ref
  <2>1. i \in DOMAIN evts /\ evts[i].type = "agent.tool_use" /\ Rank(Starts(evts), i) = k
    BY <1>3
  <2>2. PICK j \in DOMAIN evts : evts[j].type = "agent.tool_result" /\ Answers(evts, i, j)
    BY <2>1 DEF PairedEvents
  <2>3. j \in Spoken(evts) /\ Rank(Starts(evts), j) = k + 1
    BY <2>1, <2>2, Positions, AnswerIsNext
  <2>4. k + 1 \in 1 .. N
    BY <2>3, InAMessage
  <2>5. j \in At(k + 1, "agent.tool_result") /\ evts[j].ref = evts[i].ref
    BY <2>2, <2>3 DEF Blocks, Answers
  <2> QED  BY <2>4, <2>5
<1>5. ASSUME NEW k \in 1 .. N, NEW j \in At(k, "agent.tool_result")
      PROVE  k - 1 \in 1 .. N /\ \E i \in At(k - 1, "agent.tool_use") : evts[i].ref = evts[j].ref
  <2>1. j \in DOMAIN evts /\ evts[j].type = "agent.tool_result" /\ Rank(Starts(evts), j) = k
    BY <1>3
  <2>2. PICK i \in DOMAIN evts : evts[i].type = "agent.tool_use" /\ Answers(evts, i, j)
    BY <2>1 DEF PairedEvents
  <2>3. i \in Spoken(evts) /\ k = Rank(Starts(evts), i) + 1
    BY <2>1, <2>2, Positions, AnswerIsNext
  <2>4. Rank(Starts(evts), i) \in 1 .. N
    BY <2>3, InAMessage
  <2>5. k - 1 = Rank(Starts(evts), i)
    BY <1>1, <2>3, <2>4
  <2>6. i \in At(k - 1, "agent.tool_use") /\ evts[i].ref = evts[j].ref
    BY <2>2, <2>3, <2>5 DEF Blocks, Answers
  <2> QED  BY <2>4, <2>5, <2>6
<1> HIDE DEF At
<1> SUFFICES ASSUME NEW k \in 0 .. N
             PROVE  (IF k = 0 THEN {} ELSE Refs(ms[k], "agent.tool_use"))
                      = (IF k = N THEN {} ELSE Refs(ms[k + 1], "agent.tool_result"))
  BY <1>1 DEF Paired, ms
<1>6. CASE k # 0 /\ k # N
  <2>1. k \in 1 .. N /\ k + 1 \in 1 .. N /\ (k + 1) - 1 = k
    BY <1>1, <1>6
  <2>2. \A i \in At(k, "agent.tool_use") :
          \E j \in At(k + 1, "agent.tool_result") : evts[j].ref = evts[i].ref
    BY <1>4, <2>1
  <2>3. \A j \in At(k + 1, "agent.tool_result") :
          \E i \in At(k, "agent.tool_use") : evts[i].ref = evts[j].ref
    BY <1>5, <2>1
  <2>4. {evts[i].ref : i \in At(k, "agent.tool_use")}
          = {evts[j].ref : j \in At(k + 1, "agent.tool_result")}
    BY <2>2, <2>3
  <2> QED  BY <1>2, <1>6, <2>1, <2>4
<1>7. CASE k # 0 /\ k = N
  <2>1. k \in 1 .. N /\ k + 1 \notin 1 .. N
    BY <1>1, <1>7
  <2>2. At(k, "agent.tool_use") = {}
    BY <1>4, <2>1
  <2>3. Refs(ms[k], "agent.tool_use") = {}
    BY <1>2, <2>1, <2>2
  <2> QED  BY <1>1, <1>7, <2>3
<1>8. CASE k = 0 /\ k # N
  <2>1. 1 \in 1 .. N /\ k + 1 = 1 /\ 1 - 1 \notin 1 .. N
    BY <1>1, <1>8
  <2>2. At(1, "agent.tool_result") = {}
    BY <1>5, <2>1
  <2> QED  BY <1>2, <1>8, <2>1, <2>2
<1> QED  BY <1>6, <1>7, <1>8

-----------------------------------------------------------------------------
(* Compression.                                                            *)

(* What is kept of an event whose content may be cleared.                  *)
SameEvents(a, b) ==
  /\ a \in Seq(EventSet) /\ b \in Seq(EventSet) /\ Len(a) = Len(b)
  /\ \A i \in 1 .. Len(a) : a[i].type = b[i].type /\ a[i].ref = b[i].ref

LEMMA ThinKeeps ==
  ASSUME NEW evts \in Seq(EventSet), NEW keep
  PROVE  /\ SameEvents(evts, ThinEvents(evts, keep))
         /\ \A i \in 1 .. Len(evts) :
              evts[i].type # "agent.tool_result" => ThinEvents(evts, keep)[i] = evts[i]
<1> DEFINE results == {i \in DOMAIN evts : evts[i].type = "agent.tool_result"}
           old == results \ Latest(results, keep)
           f == [i \in DOMAIN evts |->
                   IF i \in old THEN [evts[i] EXCEPT !.cleared = TRUE] ELSE evts[i]]
<1>1. ThinEvents(evts, keep) = f
  BY DEF ThinEvents
<1>2. \A i \in old : i \in DOMAIN evts /\ evts[i].type = "agent.tool_result"
  OBVIOUS
<1> HIDE DEF old
<1>3. DOMAIN evts = 1 .. Len(evts) /\ Len(evts) \in Nat
  OBVIOUS
<1>4. \A i \in 1 .. Len(evts) :
        /\ f[i] \in EventSet /\ f[i].type = evts[i].type /\ f[i].ref = evts[i].ref
        /\ evts[i].type # "agent.tool_result" => f[i] = evts[i]
  <2> SUFFICES ASSUME NEW i \in 1 .. Len(evts)
               PROVE  /\ f[i] \in EventSet /\ f[i].type = evts[i].type /\ f[i].ref = evts[i].ref
                      /\ evts[i].type # "agent.tool_result" => f[i] = evts[i]
    OBVIOUS
  <2>1. evts[i] \in EventSet
    OBVIOUS
  <2>2. f[i] = IF i \in old THEN [evts[i] EXCEPT !.cleared = TRUE] ELSE evts[i]
    BY <1>3
  <2>3. CASE i \in old
    <3>1. f[i] = [evts[i] EXCEPT !.cleared = TRUE] /\ evts[i].type = "agent.tool_result"
      BY <1>2, <2>2, <2>3
    <3> HIDE DEF f
    <3> QED  BY <2>1, <3>1 DEF EventSet
  <2>4. CASE i \notin old
    BY <2>1, <2>2, <2>4
  <2> QED  BY <2>3, <2>4
<1>5. f \in [1 .. Len(evts) -> EventSet] /\ DOMAIN f = 1 .. Len(evts)
  BY <1>3, <1>4
<1> HIDE DEF f
<1>6. f \in Seq(EventSet) /\ Len(f) = Len(evts)
  BY <1>3, <1>5
<1> QED  BY <1>1, <1>4, <1>6 DEF SameEvents

LEMMA SamePaired ==
  ASSUME NEW a, NEW b, SameEvents(a, b), PairedEvents(a)
  PROVE  PairedEvents(b)
<1>1. DOMAIN a = 1 .. Len(a) /\ DOMAIN b = 1 .. Len(a) /\ Len(b) = Len(a) /\ Len(a) \in Nat
  BY DEF SameEvents
<1>2. \A i \in 1 .. Len(a) :
        a[i].type = b[i].type /\ a[i].ref = b[i].ref /\ RoleOf(a[i]) = RoleOf(b[i])
  BY DEF SameEvents, RoleOf
<1>3. ASSUME NEW i \in 1 .. Len(a), NEW j \in 1 .. Len(a), Answers(a, i, j)
      PROVE  Answers(b, i, j)
  BY <1>1, <1>2, <1>3 DEF Answers
<1>4. \A i, j \in 1 .. Len(a) : Answers(a, i, j) => Answers(b, i, j)
  BY <1>3
<1>5. ASSUME NEW i \in 1 .. Len(a), b[i].type = "agent.tool_use"
      PROVE  \E j \in 1 .. Len(a) : b[j].type = "agent.tool_result" /\ Answers(b, i, j)
  <2>1. PICK j \in 1 .. Len(a) : a[j].type = "agent.tool_result" /\ Answers(a, i, j)
    BY <1>1, <1>2, <1>5 DEF PairedEvents
  <2> QED  BY <1>2, <1>4, <2>1
<1>6. ASSUME NEW j \in 1 .. Len(a), b[j].type = "agent.tool_result"
      PROVE  \E i \in 1 .. Len(a) : b[i].type = "agent.tool_use" /\ Answers(b, i, j)
  <2>1. PICK i \in 1 .. Len(a) : a[i].type = "agent.tool_use" /\ Answers(a, i, j)
    BY <1>1, <1>2, <1>6 DEF PairedEvents
  <2> QED  BY <1>2, <1>4, <2>1
<1> QED  BY <1>1, <1>5, <1>6 DEF PairedEvents

(* The first page of a log that fits into it is the log.                   *)
LEMMA FirstPage ==
  ASSUME NEW evts \in Seq(EventSet)
  PROVE  /\ ListBySession(evts) \in Seq(EventSet)
         /\ Len(evts) <= Limit => ListBySession(evts) = evts
<1>1. Limit \in Nat
  BY ContextAssumption
<1>2. CASE Len(evts) <= Limit
  <2>1. ListBySession(evts) = SubSeq(evts, 1, Len(evts))
    BY <1>1, <1>2 DEF ListBySession
  <2>2. SubSeq(evts, 1, Len(evts)) = evts
    OBVIOUS
  <2> QED  BY <2>1, <2>2
<1>3. CASE ~(Len(evts) <= Limit)
  BY <1>1, <1>3 DEF ListBySession
<1> QED  BY <1>2, <1>3

LEMMA MemoryType ==
  ASSUME NEW evts \in Seq(EventSet)
  PROVE  ExtractMemory(evts) \in MemorySet
<1>1. ToSet(evts) \subseteq EventSet
  BY DEF ToSet
<1> QED  BY <1>1 DEF ExtractMemory, MemorySet

(* Compaction splits a history in two.                                     *)
LEMMA CompactSplits ==
  ASSUME NEW evts \in Seq(EventSet)
  PROVE  \E n \in 0 .. Len(evts) :
           /\ Compact(evts, KeepEvents).events = SubSeq(evts, n + 1, Len(evts))
           /\ Compact(evts, KeepEvents).memory = ExtractMemory(SubSeq(evts, 1, n))
<1> DEFINE n == IF Len(evts) < KeepEvents THEN 0 ELSE Len(evts) - KeepEvents
<1>1. n \in 0 .. Len(evts)
  BY ContextAssumption
<1> QED  BY <1>1 DEF Compact

LEMMA CompressType ==
  ASSUME NEW evts \in Seq(EventSet), NEW mem \in MemorySet, NEW weight \in Weights
  PROVE  LET res == Compress(evts, mem, weight) IN
         /\ res.events \in Seq(EventSet) /\ res.memory \in MemorySet
         /\ res.tier \in 1 .. 3
         /\ res.tier < 3 => res.events = ThinEvents(evts, KeepResults)
         /\ res.tier = 3 => /\ res.events = Compact(ThinEvents(evts, KeepResults), KeepEvents).events
                            /\ res.memory = Compact(ThinEvents(evts, KeepResults), KeepEvents).memory
<1> DEFINE th == ThinEvents(evts, KeepResults)
           co == Compact(th, KeepEvents)
<1>1. th \in Seq(EventSet)
  BY ThinKeeps DEF SameEvents
<1>2. co.events \in Seq(EventSet) /\ co.memory \in MemorySet
  <2>1. PICK n \in 0 .. Len(th) :
           /\ co.events = SubSeq(th, n + 1, Len(th))
           /\ co.memory = ExtractMemory(SubSeq(th, 1, n))
    BY <1>1, CompactSplits
  <2> HIDE DEF th
  <2>2. SubSeq(th, n + 1, Len(th)) \in Seq(EventSet) /\ SubSeq(th, 1, n) \in Seq(EventSet)
    BY <1>1
  <2> QED  BY <2>1, <2>2, MemoryType
<1>3. ExtractMemory(th) \in MemorySet
  BY <1>1, MemoryType
<1>4. Compress(evts, mem, weight)
        = CASE weight = "compact" ->
             [events |-> co.events, memory |-> co.memory, tier |-> 3]
        [] weight = "memory" /\ ~mem.known ->
             [events |-> th, memory |-> ExtractMemory(th), tier |-> 2]
        [] OTHER ->
             [events |-> th, memory |-> mem, tier |-> 1]
  BY DEF Compress
<1> HIDE DEF th, co
<1>5. CASE weight = "compact"
  <2>1. Compress(evts, mem, weight) = [events |-> co.events, memory |-> co.memory, tier |-> 3]
    BY <1>4, <1>5
  <2> QED  BY <1>2, <2>1 DEF co, th
<1>6. CASE weight # "compact" /\ weight = "memory" /\ ~mem.known
  <2>1. Compress(evts, mem, weight) = [events |-> th, memory |-> ExtractMemory(th), tier |-> 2]
    BY <1>4, <1>6
  <2> QED  BY <1>1, <1>3, <2>1 DEF th
<1>7. CASE weight # "compact" /\ ~(weight = "memory" /\ ~mem.known)
  <2>1. Compress(evts, mem, weight) = [events |-> th, memory |-> mem, tier |-> 1]
    BY <1>4, <1>7
  <2> QED  BY <1>1, <2>1 DEF th
<1> QED  BY <1>5, <1>6, <1>7

(* What is said in a history is in its messages.                           *)
LEMMA MessagesSay ==
  ASSUME NEW evts \in Seq(EventSet)
  PROVE  Said(evts) \subseteq
           UNION {ToSet(EventsToMessages(evts)[k].content) : k \in DOMAIN EventsToMessages(evts)}
<1> DEFINE ms == EventsToMessages(evts)
<1> SUFFICES ASSUME NEW e \in Said(evts)
             PROVE  \E k \in DOMAIN ms : e \in ToSet(ms[k].content)
  OBVIOUS
<1>1. PICK i \in DOMAIN evts : e = evts[i] /\ e.type \in {"user.message", "agent.message"}
  BY DEF Said, ToSet
<1>2. i \in Spoken(evts)
  BY <1>1 DEF Spoken, RoleOf
<1> DEFINE k == Rank(Starts(evts), i)
<1>3. k \in 1 .. Cardinality(Starts(evts)) /\ i \in Blocks(evts, k)
  BY <1>2, InAMessage DEF Blocks
<1> HIDE DEF k, ms
<1>4. DOMAIN ms = 1 .. Cardinality(Starts(evts))
  BY MessagesOf DEF ms
<1>5. {ms[k].content[n] : n \in DOMAIN ms[k].content} = {evts[q] : q \in Blocks(evts, k)}
  BY <1>3, MessagesOf DEF ms
<1> QED  BY <1>1, <1>3, <1>4, <1>5 DEF ToSet

(* What was said before a compression is in the memory it leaves or in the *)
(* messages made of the history it leaves.                                 *)
LEMMA CompressForgetsNothing ==
  ASSUME NEW evts \in Seq(EventSet), NEW mem \in MemorySet, NEW weight \in Weights
  PROVE  LET res == Compress(evts, mem, weight)
             ms  == EventsToMessages(res.events) IN
         Said(evts) \subseteq res.memory.covers \cup UNION {ToSet(ms[k].content) : k \in DOMAIN ms}
<1> DEFINE res == Compress(evts, mem, weight)
           th == ThinEvents(evts, KeepResults)
<1>1. SameEvents(evts, th) /\ \A i \in 1 .. Len(evts) :
              evts[i].type # "agent.tool_result" => th[i] = evts[i]
  BY ThinKeeps
<1>2. th \in Seq(EventSet) /\ Len(th) = Len(evts)
  BY <1>1 DEF SameEvents
<1>3. ASSUME NEW e \in Said(evts)
      PROVE  e.type \in {"user.message", "agent.message"} /\ \E i \in 1 .. Len(th) : e = th[i]
  <2>1. PICK i \in 1 .. Len(evts) : e = evts[i] /\ e.type \in {"user.message", "agent.message"}
    BY DEF Said, ToSet
  <2>2. th[i] = e
    BY <1>1, <2>1
  <2> QED  BY <1>2, <2>1, <2>2
<1>4. /\ res.events \in Seq(EventSet)
      /\ res.tier \in 1 .. 3
      /\ res.tier < 3 => res.events = th
      /\ res.tier = 3 => /\ res.events = Compact(th, KeepEvents).events
                         /\ res.memory = Compact(th, KeepEvents).memory
  BY CompressType
<1> DEFINE ms == EventsToMessages(res.events)
<1>5. Said(res.events) \subseteq UNION {ToSet(ms[k].content) : k \in DOMAIN ms}
  BY <1>4, MessagesSay
<1> HIDE DEF res, th, ms
<1>6. ASSUME NEW e \in Said(evts)  PROVE e \in res.memory.covers \/ e \in Said(res.events)
  <2>1. PICK i \in 1 .. Len(th) : e = th[i]
    BY <1>3
  <2>2. e.type \in {"user.message", "agent.message"}
    BY <1>3
  <2>3. CASE res.tier < 3
    BY <1>2, <1>4, <2>1, <2>2, <2>3 DEF Said, ToSet
  <2>4. CASE res.tier = 3
    <3>1. PICK n \in 0 .. Len(th) :
             /\ Compact(th, KeepEvents).events = SubSeq(th, n + 1, Len(th))
             /\ Compact(th, KeepEvents).memory = ExtractMemory(SubSeq(th, 1, n))
      BY <1>2, CompactSplits
    <3>2. Len(th) \in Nat
      BY <1>2
    <3>3. CASE i <= n
      <4>1. SubSeq(th, 1, n)[i] = e /\ i \in DOMAIN SubSeq(th, 1, n)
        BY <1>2, <2>1, <3>1, <3>2, <3>3
      <4>2. e \in ToSet(SubSeq(th, 1, n))
        BY <4>1 DEF ToSet
      <4>3. e \in ExtractMemory(SubSeq(th, 1, n)).covers
        BY <2>2, <4>2 DEF ExtractMemory
      <4> QED  BY <1>4, <2>4, <3>1, <4>3
    <3>4. CASE n < i
      <4>1. SubSeq(th, n + 1, Len(th))[i - n] = e /\ i - n \in DOMAIN SubSeq(th, n + 1, Len(th))
        BY <1>2, <2>1, <3>1, <3>2, <3>4
      <4>2. e \in ToSet(SubSeq(th, n + 1, Len(th)))
        BY <4>1 DEF ToSet
      <4> QED  BY <1>4, <2>2, <2>4, <3>1, <4>2 DEF Said
    <3> QED  BY <3>2, <3>3, <3>4
  <2> QED  BY <1>4, <2>3, <2>4
<1> QED  BY <1>5, <1>6 DEF res, ms

-----------------------------------------------------------------------------
(* The conversation of a turn.                                             *)

LEMMA MidTurnKeeps ==
  ASSUME NEW ms \in Seq(MessageSet)
  PROVE  /\ MidTurnCompress(ms) \in Seq(MessageSet)
         /\ Len(MidTurnCompress(ms)) = Len(ms)
         /\ \A k \in 1 .. Len(ms), t \in Types : Refs(MidTurnCompress(ms)[k], t) = Refs(ms[k], t)
<1> DEFINE results == {i \in DOMAIN ms : Refs(ms[i], "agent.tool_result") # {}}
           old     == results \ Latest(results, KeepRounds)
           Clear(e) == IF e.type = "agent.tool_result" THEN [e EXCEPT !.cleared = TRUE] ELSE e
           Cleared(c) == [k \in DOMAIN c |-> Clear(c[k])]
           f == [i \in DOMAIN ms |->
                   IF i \in old THEN [ms[i] EXCEPT !.content = Cleared(ms[i].content)] ELSE ms[i]]
<1>1. MidTurnCompress(ms) = f
  BY DEF MidTurnCompress
<1> HIDE DEF old
<1>2. DOMAIN ms = 1 .. Len(ms) /\ Len(ms) \in Nat
  OBVIOUS
<1>3. \A e \in EventSet : Clear(e) \in EventSet /\ Clear(e).type = e.type /\ Clear(e).ref = e.ref
  BY DEF EventSet
<1>4. ASSUME NEW i \in 1 .. Len(ms)
      PROVE  f[i] \in MessageSet /\ \A t \in Types : Refs(f[i], t) = Refs(ms[i], t)
  <2>0. ms[i] \in MessageSet
    OBVIOUS
  <2>1. ms[i] \in MessageSet /\ ms[i].content \in Seq(EventSet)
    BY <2>0 DEF MessageSet
  <2>2. f[i] = IF i \in old THEN [ms[i] EXCEPT !.content = Cleared(ms[i].content)] ELSE ms[i]
    BY <1>2
  <2>3. CASE i \in old
    <3> DEFINE c == ms[i].content
               d == Cleared(c)
    <3>1. c \in Seq(EventSet) /\ DOMAIN c = 1 .. Len(c) /\ Len(c) \in Nat
      BY <2>1
    <3> HIDE DEF Clear, c
    <3>2. DOMAIN d = DOMAIN c /\ \A k \in DOMAIN c : d[k] = Clear(c[k]) /\ c[k] \in EventSet
      BY <3>1
    <3>3. d \in Seq(EventSet)
      <4>1. d \in [1 .. Len(c) -> EventSet]
        BY <1>3, <3>1
      <4> QED  BY <3>1, <4>1
    <3>4. f[i] = [ms[i] EXCEPT !.content = d]
      BY <2>2, <2>3 DEF c
    <3> HIDE DEF f, d
    <3>5. f[i] \in MessageSet /\ f[i].content = d
      BY <2>1, <3>3, <3>4 DEF MessageSet
    <3>6. ASSUME NEW t \in Types
          PROVE  Refs(f[i], t) = Refs(ms[i], t)
      <4>1. \A k \in DOMAIN c : d[k].type = c[k].type /\ d[k].ref = c[k].ref
        BY <1>3, <3>2
      <4>2. {j \in DOMAIN d : d[j].type = t} = {j \in DOMAIN c : c[j].type = t}
        BY <3>2, <4>1
      <4>3. Refs(f[i], t) = {d[k].ref : k \in {j \in DOMAIN d : d[j].type = t}}
        BY <3>5 DEF Refs
      <4>4. Refs(ms[i], t) = {c[k].ref : k \in {j \in DOMAIN c : c[j].type = t}}
        BY DEF Refs, c
      <4> QED  BY <4>1, <4>2, <4>3, <4>4
    <3> QED  BY <3>5, <3>6
  <2>4. CASE i \notin old
    BY <2>1, <2>2, <2>4
  <2> QED  BY <2>3, <2>4
<1>5. DOMAIN f = 1 .. Len(ms)
  BY <1>2
<1> HIDE DEF f
<1>6. f \in Seq(MessageSet) /\ Len(f) = Len(ms)
  <2>1. f = [i \in 1 .. Len(ms) |-> f[i]]
    BY <1>2 DEF f
  <2>2. f \in [1 .. Len(ms) -> MessageSet]
    BY <1>4, <2>1
  <2> QED  BY <1>2, <1>5, <2>2
<1> QED  BY <1>1, <1>4, <1>6

LEMMA MidTurnPaired ==
  ASSUME NEW ms \in Seq(MessageSet), Paired(ms)
  PROVE  Paired(MidTurnCompress(ms))
<1> DEFINE f == MidTurnCompress(ms)
<1>1. Len(f) = Len(ms) /\ Len(ms) \in Nat
      /\ \A k \in 1 .. Len(ms), t \in Types : Refs(f[k], t) = Refs(ms[k], t)
  BY MidTurnKeeps
<1>2. "agent.tool_use" \in Types /\ "agent.tool_result" \in Types
  BY DEF Types
<1> HIDE DEF f
<1>3. ASSUME NEW k \in 0 .. Len(ms)
      PROVE  (IF k = 0 THEN {} ELSE Refs(f[k], "agent.tool_use"))
                = (IF k = Len(f) THEN {} ELSE Refs(f[k + 1], "agent.tool_result"))
  <2>1. (IF k = 0 THEN {} ELSE Refs(ms[k], "agent.tool_use"))
                = (IF k = Len(ms) THEN {} ELSE Refs(ms[k + 1], "agent.tool_result"))
    BY DEF Paired
  <2>2. k # 0 => Refs(f[k], "agent.tool_use") = Refs(ms[k], "agent.tool_use")
    BY <1>1, <1>2
  <2>3. k # Len(ms) => Refs(f[k + 1], "agent.tool_result") = Refs(ms[k + 1], "agent.tool_result")
    BY <1>1, <1>2
  <2> QED  BY <1>1, <2>1, <2>2, <2>3
<1> QED  BY <1>1, <1>3 DEF Paired, f

(* The client's message is put after the history.                          *)
LEMMA MessagePaired ==
  ASSUME NEW ms \in Seq(MessageSet), Paired(ms), NEW m
  PROVE  Paired(Append(ms, Message("user", <<Event("user.message", m)>>)))
<1> DEFINE new == Message("user", <<Event("user.message", m)>>)
           f == Append(ms, new)
<1>1. Refs(new, "agent.tool_use") = {} /\ Refs(new, "agent.tool_result") = {}
  BY DEF Refs, Message, Event
<1> HIDE DEF new
<1>2. Len(ms) \in Nat /\ Len(f) = Len(ms) + 1 /\ f[Len(ms) + 1] = new
      /\ \A k \in 1 .. Len(ms) : f[k] = ms[k]
  OBVIOUS
<1> HIDE DEF f
<1>3. ASSUME NEW k \in 0 .. Len(f)
      PROVE  (IF k = 0 THEN {} ELSE Refs(f[k], "agent.tool_use"))
                = (IF k = Len(f) THEN {} ELSE Refs(f[k + 1], "agent.tool_result"))
  <2>1. CASE k = Len(f)
    BY <1>1, <1>2, <2>1
  <2>2. CASE k = Len(ms)
    <3>1. (IF k = 0 THEN {} ELSE Refs(ms[k], "agent.tool_use")) = {}
      BY <1>2, <2>2 DEF Paired
    <3>2. k + 1 = Len(ms) + 1 /\ k # Len(f) /\ (k # 0 => k \in 1 .. Len(ms))
      BY <1>2, <2>2
    <3>3. f[k + 1] = new /\ (k # 0 => f[k] = ms[k])
      BY <1>2, <3>2
    <3>4. Refs(f[k + 1], "agent.tool_result") = {}
      BY <1>1, <3>3
    <3> QED  BY <3>1, <3>2, <3>3, <3>4
  <2>3. CASE k < Len(ms)
    <3>1. k \in 0 .. Len(ms) /\ k # Len(ms) /\ k + 1 \in 1 .. Len(ms)
      BY <1>2, <2>3
    <3>2. (IF k = 0 THEN {} ELSE Refs(ms[k], "agent.tool_use"))
             = Refs(ms[k + 1], "agent.tool_result")
      BY <3>1 DEF Paired
    <3> QED  BY <1>2, <2>3, <3>1, <3>2
  <2> QED  BY <1>2, <2>1, <2>2, <2>3
<1> QED  BY <1>3, <1>2 DEF Paired, f, new

(* A round adds calls and, in the next message, their results.             *)
LEMMA RoundPaired ==
  ASSUME NEW ms \in Seq(MessageSet), Paired(ms),
         NEW a \in MessageSet, NEW b \in MessageSet,
         Refs(a, "agent.tool_result") = {}, Refs(b, "agent.tool_use") = {},
         Refs(a, "agent.tool_use") = Refs(b, "agent.tool_result")
  PROVE  Paired(ms \o <<a, b>>)
<1> DEFINE f == ms \o <<a, b>>
           n == Len(ms)
<1>1. n \in Nat /\ Len(f) = n + 2 /\ f[n + 1] = a /\ f[n + 2] = b
      /\ \A k \in 1 .. n : f[k] = ms[k]
  OBVIOUS
<1>2. \A k \in 0 .. n : (IF k = 0 THEN {} ELSE Refs(ms[k], "agent.tool_use"))
             = IF k = n THEN {} ELSE Refs(ms[k + 1], "agent.tool_result")
  BY DEF Paired
<1> HIDE DEF f, n
<1>3. ASSUME NEW k \in 0 .. Len(f)
      PROVE  (IF k = 0 THEN {} ELSE Refs(f[k], "agent.tool_use"))
                = (IF k = Len(f) THEN {} ELSE Refs(f[k + 1], "agent.tool_result"))
  <2>1. CASE k = n + 2
    BY <1>1, <2>1
  <2>2. CASE k = n + 1
    <3>1. k + 1 = n + 2 /\ k # Len(f) /\ k # 0
      BY <1>1, <2>2
    <3> QED  BY <1>1, <2>2, <3>1
  <2>3. CASE k = n
    <3>1. (IF k = 0 THEN {} ELSE Refs(ms[k], "agent.tool_use")) = {}
      BY <1>1, <1>2, <2>3
    <3>2. k + 1 = n + 1 /\ k # Len(f) /\ (k # 0 => k \in 1 .. n)
      BY <1>1, <2>3
    <3>3. f[k + 1] = a /\ (k # 0 => f[k] = ms[k])
      BY <1>1, <3>2
    <3>4. Refs(f[k + 1], "agent.tool_result") = {}
      BY <3>3
    <3> QED  BY <3>1, <3>2, <3>3, <3>4
  <2>4. CASE k < n
    <3>1. k \in 0 .. n /\ k # n /\ k # Len(f) /\ k + 1 \in 1 .. n
      BY <1>1, <2>4
    <3>2. (IF k = 0 THEN {} ELSE Refs(ms[k], "agent.tool_use"))
             = Refs(ms[k + 1], "agent.tool_result")
      BY <1>2, <3>1
    <3> QED  BY <1>1, <2>4, <3>1, <3>2
  <2> QED  BY <1>1, <2>1, <2>2, <2>3, <2>4
<1> QED  BY <1>3 DEF Paired, f

-----------------------------------------------------------------------------
(* Counting events.                                                        *)

LEMMA CountType ==
  ASSUME NEW evts, NEW t, NEW n \in Nat
  PROVE  Count(evts, t, n) \in Nat
<1>1. Cardinality({i \in 1 .. n : evts[i].type = t}) \in Nat
  BY FinitePositions
<1> QED  BY <1>1 DEF Count

LEMMA CountNone ==
  ASSUME NEW evts, NEW t, NEW n \in Nat, \A i \in 1 .. n : evts[i].type # t
  PROVE  Count(evts, t, n) = 0
<1>1. {i \in 1 .. n : evts[i].type = t} = {}
  OBVIOUS
<1> QED  BY <1>1, FS_EmptySet DEF Count

LEMMA CountAll ==
  ASSUME NEW evts, NEW t, NEW n \in Nat, \A i \in 1 .. n : evts[i].type = t
  PROVE  Count(evts, t, n) = n
<1>1. {i \in 1 .. n : evts[i].type = t} = 1 .. n
  OBVIOUS
<1>2. Cardinality(1 .. n) = n
  BY FS_Interval
<1> QED  BY <1>1, <1>2 DEF Count

(* The events of a \o b are those of a and those of b.                     *)
CountsOf(c, a, b, t) ==
  /\ \A n \in 0 .. Len(a) : Count(c, t, n) = Count(a, t, n)
  /\ \A k \in 0 .. Len(b) : Count(c, t, Len(a) + k) = Count(a, t, Len(a)) + Count(b, t, k)

LEMMA CountSplit ==
  ASSUME NEW a \in Seq(EventSet), NEW b \in Seq(EventSet), NEW t
  PROVE  CountsOf(a \o b, a, b, t)
<1> DEFINE l == Len(a)
           c == a \o b
<1>1. l \in Nat /\ Len(b) \in Nat
      /\ \A i \in 1 .. l : c[i] = a[i]
  OBVIOUS
<1>0. ASSUME NEW i \in 1 .. Len(b)  PROVE c[l + i] = b[i]
  OBVIOUS
<1> HIDE DEF l, c
<1>2. ASSUME NEW n \in 0 .. l
      PROVE  Count(c, t, n) = Count(a, t, n)
  <2>1. {i \in 1 .. n : c[i].type = t} = {i \in 1 .. n : a[i].type = t}
    BY <1>1
  <2> QED  BY <2>1 DEF Count
<1>3. ASSUME NEW k \in 0 .. Len(b)
      PROVE  Count(c, t, l + k) = Count(a, t, l) + Count(b, t, k)
  <2> DEFINE C == {i \in 1 .. l + k : c[i].type = t}
             A == {i \in 1 .. l : a[i].type = t}
             B == {i \in 1 .. k : b[i].type = t}
             D == {i \in l + 1 .. l + k : c[i].type = t}
             f == [i \in B |-> l + i]
  <2>1. IsFiniteSet(A) /\ IsFiniteSet(B) /\ Cardinality(A) \in Nat /\ Cardinality(B) \in Nat
    BY <1>1, FinitePositions
  <2>2. \A i \in B : i \in Nat /\ l + i \in D
    <3> SUFFICES ASSUME NEW i \in 1 .. k, b[i].type = t  PROVE i \in Nat /\ l + i \in D
      OBVIOUS
    <3>1. i \in 1 .. Len(b) /\ l + i \in l + 1 .. l + k
      BY <1>1
    <3>2. c[l + i] = b[i]
      BY <1>0, <3>1
    <3> QED  BY <3>1, <3>2
  <2>3. \A i \in D : i \in Nat /\ i - l \in B /\ l + (i - l) = i
    <3> SUFFICES ASSUME NEW i \in D  PROVE i \in Nat /\ i - l \in B /\ l + (i - l) = i
      OBVIOUS
    <3>1. i \in l + 1 .. l + k /\ c[i].type = t
      OBVIOUS
    <3>0. i \in Int
      OBVIOUS
    <3>2. i \in Nat /\ i - l \in 1 .. k /\ l + (i - l) = i /\ i - l \in 1 .. Len(b)
      BY <1>1, <3>0, <3>1
    <3>3. c[l + (i - l)] = b[i - l]
      BY <1>0, <3>2
    <3> QED  BY <3>1, <3>2, <3>3
  <2>4. C = A \cup D
    <3>1. ASSUME NEW i \in C  PROVE i \in A \cup D
      <4>1. i \in 1 .. l + k /\ c[i].type = t
        OBVIOUS
      <4>2. i \in 1 .. l \/ i \in l + 1 .. l + k
        BY <1>1, <4>1
      <4> QED  BY <1>1, <4>1, <4>2
    <3>2. ASSUME NEW i \in A  PROVE i \in C
      <4>1. i \in 1 .. l /\ a[i].type = t
        OBVIOUS
      <4>2. i \in 1 .. l + k /\ c[i] = a[i]
        BY <1>1, <4>1
      <4> QED  BY <4>1, <4>2
    <3>3. ASSUME NEW i \in D  PROVE i \in C
      <4>1. i \in l + 1 .. l + k /\ c[i].type = t
        OBVIOUS
      <4>2. i \in 1 .. l + k
        BY <1>1, <4>1
      <4> QED  BY <4>1, <4>2
    <3> QED  BY <3>1, <3>2, <3>3
  <2>5. A \cap D = {}
    <3> SUFFICES ASSUME NEW i \in A, i \in D  PROVE FALSE
      OBVIOUS
    <3>1. i \in 1 .. l /\ i \in l + 1 .. l + k
      OBVIOUS
    <3> QED  BY <1>1, <3>1
  <2>6. Count(c, t, l + k) = Cardinality(C) /\ Count(a, t, l) = Cardinality(A)
        /\ Count(b, t, k) = Cardinality(B)
    BY DEF Count
  <2> HIDE DEF A, B, C, D
  <2>7. f \in Bijection(B, D)
    <3>1. f \in [B -> D]
      BY <2>2
    <3>2. \A i, j \in B : f[i] = f[j] => i = j
      BY <1>1, <2>2
    <3>3. \A i \in D : f[i - l] = i /\ i - l \in B
      BY <2>3
    <3>4. f \in Injection(B, D)
      BY <3>1, <3>2 DEF Injection, IsInjective
    <3>5. f \in Surjection(B, D)
      BY <3>1, <3>3 DEF Surjection
    <3> QED  BY <3>4, <3>5 DEF Bijection
  <2> HIDE DEF f
  <2>8. IsFiniteSet(D) /\ Cardinality(D) = Cardinality(B)
    BY <2>1, <2>7, FS_Bijection DEF ExistsBijection
  <2>9. Cardinality(C) = Cardinality(A) + Cardinality(D)
    <3>1. Cardinality(A \cup D) = Cardinality(A) + Cardinality(D) - Cardinality(A \cap D)
      BY <2>1, <2>8, FS_Union
    <3>2. Cardinality(A \cap D) = 0
      BY <2>5, FS_EmptySet
    <3> QED  BY <2>1, <2>4, <2>8, <3>1, <3>2
  <2> QED  BY <2>6, <2>8, <2>9
<1> QED  BY <1>2, <1>3 DEF CountsOf, l, c

(* Two kinds of events alternate, and in the end d (0 or 1) is open.       *)
Alternating(evts, open, close) ==
  \A n \in 0 .. Len(evts) :
    Count(evts, open, n) - Count(evts, close, n) \in {0, 1}

Even(evts, open, close) ==
  Count(evts, open, Len(evts)) = Count(evts, close, Len(evts))

Marked(evts, open, close, d) ==
  /\ Alternating(evts, open, close)
  /\ Count(evts, open, Len(evts)) - Count(evts, close, Len(evts)) = d

LEMMA MarkedOpen ==
  ASSUME NEW evts \in Seq(EventSet), NEW open, NEW close, NEW e \in EventSet,
         Marked(evts, open, close, 0), e.type = open, open # close
  PROVE  Marked(evts \o <<e>>, open, close, 1)
<1> DEFINE b == <<e>>
<1>1. b \in Seq(EventSet) /\ Len(b) = 1 /\ b[1] = e /\ Len(evts) \in Nat
      /\ Len(evts \o b) = Len(evts) + 1
  OBVIOUS
<1>2. Count(b, open, 1) = 1 /\ Count(b, close, 1) = 0
  <2>1. \A i \in 1 .. 1 : b[i].type = open
    BY <1>1
  <2> QED  BY <2>1, CountAll, CountNone
<1> HIDE DEF b
<1>c. \A t : CountsOf(evts \o b, evts, b, t)
  BY <1>1, CountSplit
<1>3. \A t : \A n \in 0 .. Len(evts) : Count(evts \o b, t, n) = Count(evts, t, n)
  BY <1>c DEF CountsOf
<1>4. \A t : Count(evts \o b, t, Len(evts) + 1) = Count(evts, t, Len(evts)) + Count(b, t, 1)
  BY <1>1, <1>c DEF CountsOf
<1>5. Count(evts, open, Len(evts)) \in Nat /\ Count(evts, close, Len(evts)) \in Nat
  BY <1>1, CountType
<1>6. Count(evts \o b, open, Len(evts) + 1) - Count(evts \o b, close, Len(evts) + 1) = 1
  BY <1>2, <1>4, <1>5 DEF Marked
<1>7. ASSUME NEW n \in 0 .. Len(evts \o b)
      PROVE  Count(evts \o b, open, n) - Count(evts \o b, close, n) \in {0, 1}
  <2>1. n \in 0 .. Len(evts) \/ n = Len(evts) + 1
    BY <1>1
  <2> QED  BY <1>3, <1>6, <2>1 DEF Marked, Alternating
<1> QED  BY <1>1, <1>6, <1>7 DEF Marked, Alternating, b

LEMMA MarkedClose ==
  ASSUME NEW evts \in Seq(EventSet), NEW open, NEW close, NEW e \in EventSet,
         Marked(evts, open, close, 1), e.type = close, open # close
  PROVE  Marked(evts \o <<e>>, open, close, 0)
<1> DEFINE b == <<e>>
<1>1. b \in Seq(EventSet) /\ Len(b) = 1 /\ b[1] = e /\ Len(evts) \in Nat
      /\ Len(evts \o b) = Len(evts) + 1
  OBVIOUS
<1>2. Count(b, open, 1) = 0 /\ Count(b, close, 1) = 1
  <2>1. \A i \in 1 .. 1 : b[i].type = close
    BY <1>1
  <2> QED  BY <2>1, CountAll, CountNone
<1> HIDE DEF b
<1>c. \A t : CountsOf(evts \o b, evts, b, t)
  BY <1>1, CountSplit
<1>3. \A t : \A n \in 0 .. Len(evts) : Count(evts \o b, t, n) = Count(evts, t, n)
  BY <1>c DEF CountsOf
<1>4. \A t : Count(evts \o b, t, Len(evts) + 1) = Count(evts, t, Len(evts)) + Count(b, t, 1)
  BY <1>1, <1>c DEF CountsOf
<1>5. Count(evts, open, Len(evts)) \in Nat /\ Count(evts, close, Len(evts)) \in Nat
  BY <1>1, CountType
<1>6. Count(evts \o b, open, Len(evts) + 1) - Count(evts \o b, close, Len(evts) + 1) = 0
  BY <1>2, <1>4, <1>5 DEF Marked
<1>7. ASSUME NEW n \in 0 .. Len(evts \o b)
      PROVE  Count(evts \o b, open, n) - Count(evts \o b, close, n) \in {0, 1}
  <2>1. n \in 0 .. Len(evts) \/ n = Len(evts) + 1
    BY <1>1
  <2> QED  BY <1>3, <1>6, <2>1 DEF Marked, Alternating
<1> QED  BY <1>1, <1>6, <1>7 DEF Marked, Alternating, b

(* Events of other kinds are no matter, after the marked ones or among     *)
(* them.                                                                   *)
Plain(evts, open, close) == \A i \in 1 .. Len(evts) : evts[i].type \notin {open, close}

LEMMA MarkedAmong ==
  ASSUME NEW a \in Seq(EventSet), NEW p \in Seq(EventSet), NEW b \in Seq(EventSet),
         NEW open, NEW close, NEW d,
         Marked(a \o b, open, close, d), Plain(p, open, close)
  PROVE  Marked((a \o p) \o b, open, close, d)
<1> DEFINE old == a \o b
           ap  == a \o p
           new == ap \o b
           l == Len(a)
           m == Len(p)
<1>1. /\ ap \in Seq(EventSet)
      /\ l \in Nat /\ m \in Nat /\ Len(b) \in Nat
      /\ Len(ap) = l + m /\ Len(old) = l + Len(b) /\ Len(new) = (l + m) + Len(b)
  OBVIOUS
<1>2. \A k \in 0 .. m : Count(p, open, k) = 0 /\ Count(p, close, k) = 0
  <2> SUFFICES ASSUME NEW k \in 0 .. m  PROVE Count(p, open, k) = 0 /\ Count(p, close, k) = 0
    OBVIOUS
  <2>1. \A i \in 1 .. k : p[i].type # open /\ p[i].type # close
    BY <1>1 DEF Plain
  <2> QED  BY <1>1, <2>1, CountNone
<1>c. \A t : CountsOf(old, a, b, t) /\ CountsOf(ap, a, p, t) /\ CountsOf(new, ap, b, t)
  BY <1>1, CountSplit
<1>3. \A t \in {open, close} : \A n \in 0 .. l : Count(ap, t, n) = Count(old, t, n)
  <2> SUFFICES ASSUME NEW t \in {open, close}, NEW n \in 0 .. l
               PROVE  Count(ap, t, n) = Count(old, t, n)
    OBVIOUS
  <2>1. Count(ap, t, n) = Count(a, t, n)
    BY <1>c DEF CountsOf
  <2>2. Count(old, t, n) = Count(a, t, n)
    BY <1>c DEF CountsOf
  <2> QED  BY <2>1, <2>2
<1>4. \A t \in {open, close} : \A k \in 0 .. m : Count(ap, t, l + k) = Count(old, t, l)
  <2> SUFFICES ASSUME NEW t \in {open, close}, NEW k \in 0 .. m
               PROVE  Count(ap, t, l + k) = Count(old, t, l)
    OBVIOUS
  <2>1. Count(ap, t, l + k) = Count(a, t, l) + Count(p, t, k)
    BY <1>c DEF CountsOf
  <2>2. l \in 0 .. l /\ Count(a, t, l) \in Nat
    BY <1>1, CountType
  <2>3. Count(old, t, l) = Count(a, t, l)
    BY <2>2, <1>c DEF CountsOf
  <2> QED  BY <1>2, <2>1, <2>2, <2>3
<1>5. \A t \in {open, close} : \A k \in 0 .. Len(b) :
        Count(new, t, (l + m) + k) = Count(old, t, l + k)
  <2> SUFFICES ASSUME NEW t \in {open, close}, NEW k \in 0 .. Len(b)
               PROVE  Count(new, t, (l + m) + k) = Count(old, t, l + k)
    OBVIOUS
  <2>1. Count(new, t, (l + m) + k) = Count(ap, t, l + m) + Count(b, t, k)
    BY <1>1, <1>c DEF CountsOf
  <2>2. Count(old, t, l + k) = Count(a, t, l) + Count(b, t, k)
    BY <1>c DEF CountsOf
  <2>3. Count(ap, t, l + m) = Count(old, t, l)
    BY <1>1, <1>4
  <2>4. Count(old, t, l) = Count(a, t, l)
    BY <1>1, <1>c DEF CountsOf
  <2> QED  BY <2>1, <2>2, <2>3, <2>4
<1>6. \A t \in {open, close} : \A n \in 0 .. l + m : Count(new, t, n) = Count(ap, t, n)
  BY <1>1, <1>c DEF CountsOf
<1> HIDE DEF old, ap, new, l, m
<1>7. ASSUME NEW n \in 0 .. Len(new)
      PROVE  \E k \in 0 .. Len(old) : \A t \in {open, close} : Count(new, t, n) = Count(old, t, k)
  <2>1. CASE n <= l
    <3>1. n \in 0 .. l /\ n \in 0 .. l + m /\ n \in 0 .. Len(old)
      BY <1>1, <2>1
    <3> QED  BY <1>3, <1>6, <3>1
  <2>2. CASE l < n /\ n <= l + m
    <3>1. n - l \in 0 .. m /\ l + (n - l) = n /\ n \in 0 .. l + m /\ l \in 0 .. Len(old)
      BY <1>1, <2>2
    <3>2. \A t \in {open, close} : Count(ap, t, l + (n - l)) = Count(old, t, l)
      BY <1>4, <3>1
    <3> QED  BY <1>6, <3>1, <3>2
  <2>3. CASE l + m < n
    <3>1. n - (l + m) \in 0 .. Len(b) /\ (l + m) + (n - (l + m)) = n
          /\ l + (n - (l + m)) \in 0 .. Len(old)
      BY <1>1, <2>3
    <3>2. \A t \in {open, close} :
            Count(new, t, (l + m) + (n - (l + m))) = Count(old, t, l + (n - (l + m)))
      BY <1>5, <3>1
    <3> QED  BY <3>1, <3>2
  <2> QED  BY <1>1, <2>1, <2>2, <2>3
<1>8. Alternating(old, open, close)
      /\ Count(old, open, Len(old)) - Count(old, close, Len(old)) = d
  BY DEF Marked, old
<1>9. Alternating(new, open, close)
  <2> SUFFICES ASSUME NEW n \in 0 .. Len(new)
               PROVE  Count(new, open, n) - Count(new, close, n) \in {0, 1}
    BY DEF Alternating
  <2>1. PICK k \in 0 .. Len(old) : \A t \in {open, close} : Count(new, t, n) = Count(old, t, k)
    BY <1>7
  <2>2. Count(new, open, n) = Count(old, open, k) /\ Count(new, close, n) = Count(old, close, k)
    BY <2>1
  <2> QED  BY <1>8, <2>2 DEF Alternating
<1>10. \A t \in {open, close} : Count(new, t, Len(new)) = Count(old, t, Len(old))
  BY <1>1, <1>5
<1> QED  BY <1>8, <1>9, <1>10 DEF Marked, new, ap

LEMMA MarkedAfter ==
  ASSUME NEW a \in Seq(EventSet), NEW p \in Seq(EventSet), NEW open, NEW close, NEW d,
         Marked(a, open, close, d), Plain(p, open, close)
  PROVE  Marked(a \o p, open, close, d)
<1> DEFINE e == << >>
<1>1. e \in Seq(EventSet) /\ a \o e = a /\ (a \o p) \o e = a \o p
  BY ConcatEmptySeq, ConcatProperties
<1> HIDE DEF e
<1>2. Marked((a \o p) \o e, open, close, d)
  BY <1>1, MarkedAmong
<1> QED  BY <1>1, <1>2

(* What holds of the events to come holds of the log.                      *)
LEMMA AlternatingPrefix ==
  ASSUME NEW a \in Seq(EventSet), NEW b \in Seq(EventSet), NEW open, NEW close,
         Alternating(a \o b, open, close)
  PROVE  Alternating(a, open, close)
<1>1. Len(a) \in Nat /\ Len(a \o b) = Len(a) + Len(b) /\ Len(b) \in Nat
  OBVIOUS
<1>2. \A n \in 0 .. Len(a) : n \in 0 .. Len(a \o b)
  BY <1>1
<1>3. \A t : CountsOf(a \o b, a, b, t)
  BY CountSplit
<1>4. \A t : \A n \in 0 .. Len(a) : Count(a \o b, t, n) = Count(a, t, n)
  BY <1>3 DEF CountsOf
<1> QED  BY <1>2, <1>4 DEF Alternating

LEMMA EvenJoin ==
  ASSUME NEW a \in Seq(EventSet), NEW b \in Seq(EventSet), NEW open, NEW close,
         Even(a, open, close), Even(b, open, close)
  PROVE  Even(a \o b, open, close)
<1>1. Len(b) \in 0 .. Len(b) /\ Len(a \o b) = Len(a) + Len(b)
  OBVIOUS
<1>2. \A t : Count(a \o b, t, Len(a) + Len(b)) = Count(a, t, Len(a)) + Count(b, t, Len(b))
  <2>1. \A t : CountsOf(a \o b, a, b, t)
    BY CountSplit
  <2> QED  BY <1>1, <2>1 DEF CountsOf
<1> QED  BY <1>1, <1>2 DEF Even

LEMMA EvenAmong ==
  ASSUME NEW a \in Seq(EventSet), NEW p \in Seq(EventSet), NEW b \in Seq(EventSet),
         NEW open, NEW close, Even(a \o b, open, close), Plain(p, open, close)
  PROVE  Even((a \o p) \o b, open, close)
<1>1. /\ a \o p \in Seq(EventSet) /\ Len(a) \in Nat /\ Len(p) \in Nat /\ Len(b) \in Nat
      /\ Len(p) \in 0 .. Len(p) /\ Len(b) \in 0 .. Len(b)
      /\ Len(a \o b) = Len(a) + Len(b) /\ Len(a \o p) = Len(a) + Len(p)
      /\ Len((a \o p) \o b) = Len(a \o p) + Len(b)
  OBVIOUS
<1>2. Count(p, open, Len(p)) = 0 /\ Count(p, close, Len(p)) = 0
  BY <1>1, CountNone DEF Plain
<1>3. \A t : /\ Count(a \o b, t, Len(a) + Len(b)) = Count(a, t, Len(a)) + Count(b, t, Len(b))
             /\ Count(a \o p, t, Len(a) + Len(p)) = Count(a, t, Len(a)) + Count(p, t, Len(p))
             /\ Count((a \o p) \o b, t, Len(a \o p) + Len(b))
                  = Count(a \o p, t, Len(a \o p)) + Count(b, t, Len(b))
  <2>1. \A t : CountsOf(a \o b, a, b, t) /\ CountsOf(a \o p, a, p, t)
               /\ CountsOf((a \o p) \o b, a \o p, b, t)
    BY <1>1, CountSplit
  <2> QED  BY <1>1, <2>1 DEF CountsOf
<1>4. \A t : Count(a, t, Len(a)) \in Nat /\ Count(b, t, Len(b)) \in Nat
  BY <1>1, CountType
<1> QED  BY <1>1, <1>2, <1>3, <1>4 DEF Even

LEMMA EvenPlain ==
  ASSUME NEW p \in Seq(EventSet), NEW open, NEW close, Plain(p, open, close)
  PROVE  Even(p, open, close)
<1>1. Len(p) \in Nat
  OBVIOUS
<1> QED  BY <1>1, CountNone DEF Plain, Even

-----------------------------------------------------------------------------
(* Two histories with all their calls answered make one.                   *)
LEMMA PairedJoin ==
  ASSUME NEW a \in Seq(EventSet), NEW b \in Seq(EventSet), PairedEvents(a), PairedEvents(b)
  PROVE  PairedEvents(a \o b)
<1> DEFINE c == a \o b
           l == Len(a)
<1>1. /\ l \in Nat /\ Len(b) \in Nat /\ c \in Seq(EventSet) /\ Len(c) = l + Len(b)
      /\ DOMAIN a = 1 .. l /\ DOMAIN b = 1 .. Len(b) /\ DOMAIN c = 1 .. Len(c)
  OBVIOUS
<1>2. ASSUME NEW i \in 1 .. l  PROVE i \in 1 .. Len(c) /\ c[i] = a[i]
  OBVIOUS
<1>3. ASSUME NEW i \in 1 .. Len(b)  PROVE l + i \in 1 .. Len(c) /\ c[l + i] = b[i]
  OBVIOUS
<1> HIDE DEF c, l
<1>4. ASSUME NEW i \in 1 .. l, NEW j \in 1 .. l, Answers(a, i, j)  PROVE Answers(c, i, j)
  <2>1. PICK p \in 1 .. l :
       /\ i < p /\ p <= j /\ RoleOf(a[p]) = "user"
       /\ \A q \in 1 .. l : i <= q /\ q < p => RoleOf(a[q]) \in {"assistant", "nobody"}
       /\ \A q \in 1 .. l : p <= q /\ q <= j => RoleOf(a[q]) \in {"user", "nobody"}
    BY <1>4 DEF Answers, l
  <2>2. \A q \in 1 .. Len(c) : q <= j => q \in 1 .. l /\ c[q] = a[q]
    BY <1>1, <1>2
  <2>3. /\ p \in 1 .. Len(c) /\ RoleOf(c[p]) = "user"
        /\ \A q \in 1 .. Len(c) : i <= q /\ q < p => RoleOf(c[q]) \in {"assistant", "nobody"}
        /\ \A q \in 1 .. Len(c) : p <= q /\ q <= j => RoleOf(c[q]) \in {"user", "nobody"}
    BY <1>1, <1>2, <2>1, <2>2
  <2>4. i < j /\ c[i].ref = c[j].ref
    BY <1>2, <1>4 DEF Answers
  <2> QED  BY <2>1, <2>3, <2>4 DEF Answers
<1>5. ASSUME NEW i \in 1 .. Len(b), NEW j \in 1 .. Len(b), Answers(b, i, j)
      PROVE  Answers(c, l + i, l + j)
  <2>1. PICK p \in 1 .. Len(b) :
       /\ i < p /\ p <= j /\ RoleOf(b[p]) = "user"
       /\ \A q \in 1 .. Len(b) : i <= q /\ q < p => RoleOf(b[q]) \in {"assistant", "nobody"}
       /\ \A q \in 1 .. Len(b) : p <= q /\ q <= j => RoleOf(b[q]) \in {"user", "nobody"}
    BY <1>5 DEF Answers
  <2>2. ASSUME NEW q \in 1 .. Len(c), l + i <= q
        PROVE  q - l \in 1 .. Len(b) /\ l + (q - l) = q /\ c[q] = b[q - l]
    <3>1. q - l \in 1 .. Len(b) /\ l + (q - l) = q
      BY <1>1, <2>2
    <3>2. c[l + (q - l)] = b[q - l]
      BY <1>3, <3>1
    <3> QED  BY <3>1, <3>2
  <2>3. l + p \in 1 .. Len(c) /\ RoleOf(c[l + p]) = "user" /\ l + i < l + p /\ l + p <= l + j
    BY <1>1, <1>3, <2>1
  <2>4. ASSUME NEW q \in 1 .. Len(c), l + i <= q, q < l + p
        PROVE  RoleOf(c[q]) \in {"assistant", "nobody"}
    <3>1. q - l \in 1 .. Len(b) /\ c[q] = b[q - l]
      BY <2>2, <2>4
    <3>2. i <= q - l /\ q - l < p
      BY <1>1, <2>4
    <3> QED  BY <2>1, <3>1, <3>2
  <2>5. ASSUME NEW q \in 1 .. Len(c), l + p <= q, q <= l + j
        PROVE  RoleOf(c[q]) \in {"user", "nobody"}
    <3>0. l + i <= q
      BY <1>1, <2>3, <2>5
    <3>1. q - l \in 1 .. Len(b) /\ c[q] = b[q - l]
      BY <2>2, <3>0
    <3>2. p <= q - l /\ q - l <= j
      BY <1>1, <2>5
    <3> QED  BY <2>1, <3>1, <3>2
  <2>6. i < j /\ b[i].ref = b[j].ref
    BY <1>5 DEF Answers
  <2>7. l + i < l + j /\ c[l + i].ref = c[l + j].ref
    BY <1>1, <1>3, <2>6
  <2> QED  BY <2>3, <2>4, <2>5, <2>7 DEF Answers
<1>6. \A i \in 1 .. Len(c) : i \in 1 .. l \/ \E k \in 1 .. Len(b) : i = l + k
  <2> SUFFICES ASSUME NEW i \in 1 .. Len(c), i \notin 1 .. l
               PROVE  \E k \in 1 .. Len(b) : i = l + k
    OBVIOUS
  <2>1. i - l \in 1 .. Len(b) /\ i = l + (i - l)
    BY <1>1
  <2> QED  BY <2>1
<1>7. ASSUME NEW i \in 1 .. Len(c), c[i].type = "agent.tool_use"
      PROVE  \E j \in 1 .. Len(c) : c[j].type = "agent.tool_result" /\ Answers(c, i, j)
  <2>1. CASE i \in 1 .. l
    <3>1. PICK j \in 1 .. l : a[j].type = "agent.tool_result" /\ Answers(a, i, j)
      BY <1>1, <1>2, <1>7, <2>1 DEF PairedEvents
    <3> QED  BY <1>2, <1>4, <2>1, <3>1
  <2>2. ASSUME NEW k \in 1 .. Len(b), i = l + k
        PROVE  \E j \in 1 .. Len(c) : c[j].type = "agent.tool_result" /\ Answers(c, i, j)
    <3>1. PICK j \in 1 .. Len(b) : b[j].type = "agent.tool_result" /\ Answers(b, k, j)
      BY <1>1, <1>3, <1>7, <2>2 DEF PairedEvents
    <3>2. Answers(c, i, l + j)
      BY <1>5, <2>2, <3>1
    <3>3. l + j \in 1 .. Len(c) /\ c[l + j].type = "agent.tool_result"
      BY <1>3, <3>1
    <3> QED  BY <3>2, <3>3
  <2> QED  BY <1>6, <2>1, <2>2
<1>8. ASSUME NEW j \in 1 .. Len(c), c[j].type = "agent.tool_result"
      PROVE  \E i \in 1 .. Len(c) : c[i].type = "agent.tool_use" /\ Answers(c, i, j)
  <2>1. CASE j \in 1 .. l
    <3>1. PICK i \in 1 .. l : a[i].type = "agent.tool_use" /\ Answers(a, i, j)
      BY <1>1, <1>2, <1>8, <2>1 DEF PairedEvents
    <3> QED  BY <1>2, <1>4, <2>1, <3>1
  <2>2. ASSUME NEW k \in 1 .. Len(b), j = l + k
        PROVE  \E i \in 1 .. Len(c) : c[i].type = "agent.tool_use" /\ Answers(c, i, j)
    <3>1. PICK i \in 1 .. Len(b) : b[i].type = "agent.tool_use" /\ Answers(b, i, k)
      BY <1>1, <1>3, <1>8, <2>2 DEF PairedEvents
    <3>2. Answers(c, l + i, j)
      BY <1>5, <2>2, <3>1
    <3>3. l + i \in 1 .. Len(c) /\ c[l + i].type = "agent.tool_use"
      BY <1>3, <3>1
    <3> QED  BY <3>2, <3>3
  <2> QED  BY <1>6, <2>1, <2>2
<1> QED  BY <1>1, <1>7, <1>8 DEF PairedEvents, c

LEMMA PairedPlain ==
  ASSUME NEW p \in Seq(EventSet), Plain(p, "agent.tool_use", "agent.tool_result")
  PROVE  PairedEvents(p)
<1>1. DOMAIN p = 1 .. Len(p)
  OBVIOUS
<1> QED  BY <1>1 DEF PairedEvents, Plain

-----------------------------------------------------------------------------
(* What a batch of reports adds to the log.                                *)

LEMMA EventType ==
  ASSUME NEW t \in Types, NEW r \in Nat
  PROVE  /\ Event(t, r) \in EventSet /\ Event(t, r).type = t /\ Event(t, r).ref = r
         /\ ~Event(t, r).cleared
BY DEF Event, EventSet

LEMMA OneEvent ==
  ASSUME NEW e \in EventSet
  PROVE  <<e>> \in Seq(EventSet) /\ Len(<<e>>) = 1 /\ <<e>>[1] = e
OBVIOUS

(* How many turns and requests are open, and that every call is answered.  *)
MarksOf(evts, st) ==
  /\ Marked(evts, "session.status_running", "session.status_idle",
            IF st \in {"round", "request"} THEN 1 ELSE 0)
  /\ Marked(evts, "span.model_request_start", "span.model_request_end",
            IF st = "request" THEN 1 ELSE 0)
  /\ Even(evts, "agent.tool_use", "agent.tool_result")

(* Reports that begin or end no turn and no request.                       *)
Inner(evts) ==
  /\ Plain(evts, "session.status_running", "session.status_idle")
  /\ Plain(evts, "span.model_request_start", "span.model_request_end")

NoCalls(evts) == Plain(evts, "agent.tool_use", "agent.tool_result")

LEMMA OnePlain ==
  ASSUME NEW e \in EventSet, NEW open, NEW close, e.type \notin {open, close}
  PROVE  Plain(<<e>>, open, close)
BY DEF Plain

LEMMA InnerMarks ==
  ASSUME NEW evts \in Seq(EventSet), NEW st, MarksOf(evts, st), NEW p \in Seq(EventSet),
         Inner(p), Even(p, "agent.tool_use", "agent.tool_result")
  PROVE  MarksOf(evts \o p, st)
BY MarkedAfter, EvenJoin DEF MarksOf, Inner

LEMMA AmongMarks ==
  ASSUME NEW a \in Seq(EventSet), NEW b \in Seq(EventSet), NEW st, MarksOf(a \o b, st),
         NEW e \in EventSet, e.type \in {"user.message", "runtime.error"}
  PROVE  MarksOf((a \o <<e>>) \o b, st)
<1>1. <<e>> \in Seq(EventSet) /\ Inner(<<e>>) /\ NoCalls(<<e>>)
  BY OneEvent, OnePlain DEF Inner, NoCalls
<1> QED  BY <1>1, MarkedAmong, EvenAmong DEF MarksOf, Inner, NoCalls

LEMMA StartMarks ==
  ASSUME NEW evts \in Seq(EventSet), MarksOf(evts, "off"),
         NEW e \in EventSet, e.type = "session.status_running"
  PROVE  MarksOf(evts \o <<e>>, "round")
<1>1. <<e>> \in Seq(EventSet)
  BY OneEvent
<1>2. Marked(evts \o <<e>>, "session.status_running", "session.status_idle", 1)
  BY MarkedOpen DEF MarksOf
<1>3. Marked(evts \o <<e>>, "span.model_request_start", "span.model_request_end", 0)
  BY <1>1, OnePlain, MarkedAfter DEF MarksOf
<1>4. Even(evts \o <<e>>, "agent.tool_use", "agent.tool_result")
  BY <1>1, OnePlain, EvenPlain, EvenJoin DEF MarksOf
<1> QED  BY <1>2, <1>3, <1>4 DEF MarksOf

LEMMA RequestMarks ==
  ASSUME NEW evts \in Seq(EventSet), MarksOf(evts, "round"),
         NEW e \in EventSet, e.type = "span.model_request_start"
  PROVE  MarksOf(evts \o <<e>>, "request")
<1>1. <<e>> \in Seq(EventSet)
  BY OneEvent
<1>2. Marked(evts \o <<e>>, "session.status_running", "session.status_idle", 1)
  BY <1>1, OnePlain, MarkedAfter DEF MarksOf
<1>3. Marked(evts \o <<e>>, "span.model_request_start", "span.model_request_end", 1)
  BY MarkedOpen DEF MarksOf
<1>4. Even(evts \o <<e>>, "agent.tool_use", "agent.tool_result")
  BY <1>1, OnePlain, EvenPlain, EvenJoin DEF MarksOf
<1> QED  BY <1>2, <1>3, <1>4 DEF MarksOf

LEMMA ReplyMarks ==
  ASSUME NEW evts \in Seq(EventSet), MarksOf(evts, "request"),
         NEW e \in EventSet, e.type = "span.model_request_end"
  PROVE  MarksOf(evts \o <<e>>, "round")
<1>1. <<e>> \in Seq(EventSet)
  BY OneEvent
<1>2. Marked(evts \o <<e>>, "session.status_running", "session.status_idle", 1)
  BY <1>1, OnePlain, MarkedAfter DEF MarksOf
<1>3. Marked(evts \o <<e>>, "span.model_request_start", "span.model_request_end", 0)
  BY MarkedClose DEF MarksOf
<1>4. Even(evts \o <<e>>, "agent.tool_use", "agent.tool_result")
  BY <1>1, OnePlain, EvenPlain, EvenJoin DEF MarksOf
<1> QED  BY <1>2, <1>3, <1>4 DEF MarksOf

LEMMA IdleMarks ==
  ASSUME NEW evts \in Seq(EventSet), MarksOf(evts, "round"),
         NEW e \in EventSet, e.type = "session.status_idle"
  PROVE  MarksOf(evts \o <<e>>, "end")
<1>1. <<e>> \in Seq(EventSet)
  BY OneEvent
<1>2. Marked(evts \o <<e>>, "session.status_running", "session.status_idle", 0)
  BY MarkedClose DEF MarksOf
<1>3. Marked(evts \o <<e>>, "span.model_request_start", "span.model_request_end", 0)
  BY <1>1, OnePlain, MarkedAfter DEF MarksOf
<1>4. Even(evts \o <<e>>, "agent.tool_use", "agent.tool_result")
  BY <1>1, OnePlain, EvenPlain, EvenJoin DEF MarksOf
<1> QED  BY <1>2, <1>3, <1>4 DEF MarksOf

(* Three batches in a row.                                                 *)
LEMMA Regroup ==
  \A a, b, d \in Seq(EventSet) : (a \o b) \o d = a \o (b \o d)
BY ConcatAssociative

(* The batch of a failed or a last request ...                             *)
LEMMA LastBatch ==
  ASSUME NEW evts \in Seq(EventSet), MarksOf(evts, "request"),
         NEW e \in EventSet, e.type = "span.model_request_end",
         NEW p \in Seq(EventSet), Inner(p), NoCalls(p),
         NEW f \in EventSet, f.type = "session.status_idle"
  PROVE  /\ MarksOf(evts \o ((<<e>> \o p) \o <<f>>), "end")
         /\ (<<e>> \o p) \o <<f>> \in Seq(EventSet)
         /\ NoCalls((<<e>> \o p) \o <<f>>)
<1>1. <<e>> \in Seq(EventSet) /\ <<f>> \in Seq(EventSet)
      /\ evts \o <<e>> \in Seq(EventSet) /\ <<e>> \o p \in Seq(EventSet)
      /\ (evts \o <<e>>) \o p \in Seq(EventSet)
  BY OneEvent, ConcatProperties
<1>2. MarksOf(evts \o <<e>>, "round")
  BY ReplyMarks
<1>3. MarksOf((evts \o <<e>>) \o p, "round")
  <2>1. Even(p, "agent.tool_use", "agent.tool_result")
    BY EvenPlain DEF NoCalls
  <2> QED  BY <1>1, <1>2, <2>1, InnerMarks, Zenon
<1>4. MarksOf(((evts \o <<e>>) \o p) \o <<f>>, "end")
  BY <1>1, <1>3, IdleMarks
<1>5. ((evts \o <<e>>) \o p) \o <<f>> = evts \o ((<<e>> \o p) \o <<f>>)
  <2>1. (evts \o <<e>>) \o p = evts \o (<<e>> \o p)
    BY <1>1, Regroup, SMTT(40)
  <2>2. (evts \o (<<e>> \o p)) \o <<f>> = evts \o ((<<e>> \o p) \o <<f>>)
    BY <1>1, ConcatAssociative
  <2> QED  BY <2>1, <2>2
<1>6. NoCalls((<<e>> \o p) \o <<f>>)
  BY <1>1 DEF NoCalls, Plain
<1> QED  BY <1>1, <1>4, <1>5, <1>6, ConcatProperties

(* ... and that of a request whose answer asks for tools.                  *)
LEMMA ToolBatch ==
  ASSUME NEW evts \in Seq(EventSet), MarksOf(evts, "request"),
         NEW e \in EventSet, e.type = "span.model_request_end",
         NEW p \in Seq(EventSet), Inner(p), NoCalls(p),
         NEW c \in Seq(EventSet), NEW r \in Seq(EventSet), Inner(c \o r),
         Even(c \o r, "agent.tool_use", "agent.tool_result"), PairedEvents(c \o r)
  PROVE  /\ MarksOf(evts \o (((<<e>> \o p) \o c) \o r), "round")
         /\ ((<<e>> \o p) \o c) \o r \in Seq(EventSet)
         /\ PairedEvents(((<<e>> \o p) \o c) \o r)
<1>1. <<e>> \in Seq(EventSet) /\ c \o r \in Seq(EventSet)
      /\ evts \o <<e>> \in Seq(EventSet) /\ <<e>> \o p \in Seq(EventSet)
      /\ (evts \o <<e>>) \o p \in Seq(EventSet)
  BY OneEvent, ConcatProperties
<1>2. MarksOf(evts \o <<e>>, "round")
  BY ReplyMarks
<1>3. MarksOf((evts \o <<e>>) \o p, "round")
  <2>1. Even(p, "agent.tool_use", "agent.tool_result")
    BY EvenPlain DEF NoCalls
  <2> QED  BY <1>1, <1>2, <2>1, InnerMarks, Zenon
<1>4. MarksOf(((evts \o <<e>>) \o p) \o (c \o r), "round")
  BY <1>1, <1>3, InnerMarks
<1>5. ((<<e>> \o p) \o c) \o r = (<<e>> \o p) \o (c \o r)
  <2> DEFINE x == <<e>> \o p
  <2>1. x \in Seq(EventSet)
    BY <1>1
  <2> HIDE DEF x
  <2>2. (x \o c) \o r = x \o (c \o r)
    BY <2>1, Regroup, SMTT(40)
  <2> QED  BY <2>2 DEF x
<1>6. ((evts \o <<e>>) \o p) \o (c \o r) = evts \o ((<<e>> \o p) \o (c \o r))
  <2> DEFINE x == <<e>> \o p
             y == c \o r
  <2>1. (evts \o <<e>>) \o p = evts \o x
    BY <1>1, Regroup, SMTT(40)
  <2>2. x \in Seq(EventSet) /\ y \in Seq(EventSet)
    BY <1>1
  <2> HIDE DEF x, y
  <2>3. (evts \o x) \o y = evts \o (x \o y)
    BY <2>2, Regroup, SMTT(40)
  <2>4. ((evts \o <<e>>) \o p) \o y = evts \o (x \o y)
    BY <2>1, <2>3, Zenon
  <2> QED  BY <2>4 DEF x, y
<1>7. NoCalls(<<e>> \o p)
  BY <1>1 DEF NoCalls, Plain
<1>8. PairedEvents((<<e>> \o p) \o (c \o r))
  BY <1>1, <1>7, PairedPlain, PairedJoin DEF NoCalls
<1> QED  BY <1>1, <1>4, <1>5, <1>6, <1>8, ConcatProperties

(* What the model may answer.                                              *)
LEMMA ResponseType ==
  ASSUME calls \in Nat, NEW resp \in Responses
  PROVE  /\ resp.text \in Seq(EventSet) /\ Inner(resp.text) /\ NoCalls(resp.text)
         /\ \A i \in DOMAIN resp.text : ~resp.text[i].cleared
         /\ resp.calls \in Seq(EventSet) /\ Len(resp.calls) \in 0 .. MaxTools
         /\ \A i \in 1 .. Len(resp.calls) :
              resp.calls[i].type = "agent.tool_use" /\ ~resp.calls[i].cleared
<1>1. PICK t \in {<<>>, <<Event("agent.message", calls)>>}, n \in 0 .. MaxTools :
        resp = [text |-> t, calls |-> [i \in 1 .. n |-> Event("agent.tool_use", calls + i)]]
  BY DEF Responses
<1> DEFINE c == [i \in 1 .. n |-> Event("agent.tool_use", calls + i)]
           e == Event("agent.message", calls)
<1>2. MaxTools \in Nat /\ n \in Nat
  BY LoopAssumption
<1>3. e \in EventSet /\ e.type = "agent.message" /\ ~e.cleared
  BY EventType DEF Types
<1>4. \A i \in 1 .. n : Event("agent.tool_use", calls + i) \in EventSet
        /\ Event("agent.tool_use", calls + i).type = "agent.tool_use"
        /\ ~Event("agent.tool_use", calls + i).cleared
  BY <1>2, EventType DEF Types
<1>5. c \in Seq(EventSet) /\ Len(c) = n /\ \A i \in 1 .. n : c[i] = Event("agent.tool_use", calls + i)
  BY <1>2, <1>4
<1>6. resp.text = t /\ resp.calls = c
  BY <1>1
<1> HIDE DEF c, e
<1>7. t \in Seq(EventSet) /\ Inner(t) /\ NoCalls(t) /\ \A i \in DOMAIN t : ~t[i].cleared
  <2>1. CASE t = <<>>
    BY <2>1 DEF Inner, NoCalls, Plain
  <2>2. CASE t = <<e>>
    BY <1>3, <2>2, OneEvent, OnePlain DEF Inner, NoCalls
  <2> QED  BY <2>1, <2>2 DEF e
<1> QED  BY <1>2, <1>4, <1>5, <1>6, <1>7

LEMMA ResultsType ==
  ASSUME NEW uses \in Seq(EventSet)
  PROVE  /\ ResultsOf(uses) \in Seq(EventSet) /\ Len(ResultsOf(uses)) = Len(uses)
         /\ \A i \in 1 .. Len(uses) :
              /\ ResultsOf(uses)[i].type = "agent.tool_result"
              /\ ResultsOf(uses)[i].ref = uses[i].ref
              /\ ~ResultsOf(uses)[i].cleared
<1>1. Len(uses) \in Nat /\ DOMAIN uses = 1 .. Len(uses)
  OBVIOUS
<1>2. \A i \in 1 .. Len(uses) : uses[i].ref \in Nat
  <2>1. \A i \in 1 .. Len(uses) : uses[i] \in EventSet
    OBVIOUS
  <2> QED  BY <2>1 DEF EventSet
<1>3. \A i \in 1 .. Len(uses) :
        /\ Event("agent.tool_result", uses[i].ref) \in EventSet
        /\ Event("agent.tool_result", uses[i].ref).type = "agent.tool_result"
        /\ Event("agent.tool_result", uses[i].ref).ref = uses[i].ref
        /\ ~Event("agent.tool_result", uses[i].ref).cleared
  BY <1>2, EventType DEF Types
<1>4. ResultsOf(uses) = [i \in 1 .. Len(uses) |-> Event("agent.tool_result", uses[i].ref)]
  BY <1>1 DEF ResultsOf
<1>5. ResultsOf(uses) \in [1 .. Len(uses) -> EventSet]
  BY <1>3, <1>4
<1>6. ResultsOf(uses) \in Seq(EventSet) /\ Len(ResultsOf(uses)) = Len(uses)
  BY <1>1, <1>5
<1> QED  BY <1>3, <1>4, <1>6

(* The calls of a round and then their results: every call is answered.    *)
LEMMA RoundEvents ==
  ASSUME NEW uses \in Seq(EventSet), \A i \in 1 .. Len(uses) : uses[i].type = "agent.tool_use"
  PROVE  LET c == uses \o ResultsOf(uses) IN
         /\ Inner(c) /\ Even(c, "agent.tool_use", "agent.tool_result") /\ PairedEvents(c)
<1> DEFINE r == ResultsOf(uses)
           n == Len(uses)
           c == uses \o r
<1>1. r \in Seq(EventSet) /\ Len(r) = n /\ n \in Nat
      /\ \A i \in 1 .. n : r[i].type = "agent.tool_result" /\ r[i].ref = uses[i].ref
  BY ResultsType
<1> HIDE DEF r
<1>2. c \in Seq(EventSet) /\ Len(c) = n + n /\ DOMAIN c = 1 .. (n + n)
      /\ \A i \in 1 .. n : c[i] = uses[i]
  BY <1>1
<1>3. ASSUME NEW i \in 1 .. n  PROVE c[n + i] = r[i]
  BY <1>1
<1>4. CountsOf(c, uses, r, "agent.tool_use") /\ CountsOf(c, uses, r, "agent.tool_result")
  BY <1>1, CountSplit
<1>5. Count(uses, "agent.tool_use", n) = n /\ Count(uses, "agent.tool_result", n) = 0
  BY <1>1, CountAll, CountNone
<1>6. Count(r, "agent.tool_use", n) = 0 /\ Count(r, "agent.tool_result", n) = n
  BY <1>1, CountAll, CountNone
<1> HIDE DEF c, n
<1>7. Even(c, "agent.tool_use", "agent.tool_result")
  <2>1. n \in 0 .. Len(r) /\ Len(uses) = n
    BY <1>1 DEF n
  <2>2. Count(c, "agent.tool_use", n + n) = n + 0 /\ Count(c, "agent.tool_result", n + n) = 0 + n
    BY <1>4, <1>5, <1>6, <2>1 DEF CountsOf
  <2> QED  BY <1>1, <1>2, <2>2 DEF Even
<1>8. ASSUME NEW i \in 1 .. n + n
      PROVE  \/ i \in 1 .. n /\ c[i].type = "agent.tool_use" /\ RoleOf(c[i]) = "assistant"
             \/ /\ i > n /\ i - n \in 1 .. n /\ n + (i - n) = i
                /\ c[i].type = "agent.tool_result" /\ RoleOf(c[i]) = "user"
  <2>1. CASE i <= n
    <3>1. i \in 1 .. n /\ c[i].type = "agent.tool_use"
      BY <1>1, <1>2, <2>1 DEF n
    <3> QED  BY <3>1 DEF RoleOf
  <2>2. CASE i > n
    <3>1. i - n \in 1 .. n /\ n + (i - n) = i
      BY <1>1, <2>2
    <3>2. c[n + (i - n)] = r[i - n]
      BY <1>3, <3>1
    <3>3. c[i].type = "agent.tool_result"
      BY <1>1, <3>1, <3>2
    <3> QED  BY <2>2, <3>1, <3>3 DEF RoleOf
  <2> QED  BY <1>1, <2>1, <2>2
<1>9. Inner(c)
  BY <1>2, <1>8 DEF Inner, Plain
<1>10. ASSUME NEW i \in 1 .. n
       PROVE  Answers(c, i, n + i)
  <2>1. i < n + i /\ n + i \in 1 .. n + n /\ i < n + 1 /\ n + 1 <= n + i /\ n + 1 \in 1 .. n + n
    BY <1>1
  <2>2. c[i].ref = c[n + i].ref
    BY <1>1, <1>2, <1>3
  <2>3. RoleOf(c[n + 1]) = "user"
    BY <1>1, <1>8, <2>1
  <2>4. \A q \in 1 .. n + n : i <= q /\ q < n + 1 => RoleOf(c[q]) \in {"assistant", "nobody"}
    BY <1>1, <1>8
  <2>5. \A q \in 1 .. n + n : n + 1 <= q /\ q <= n + i => RoleOf(c[q]) \in {"user", "nobody"}
    BY <1>1, <1>8
  <2> QED  BY <1>2, <2>1, <2>2, <2>3, <2>4, <2>5 DEF Answers
<1>11. PairedEvents(c)
  <2>1. ASSUME NEW i \in 1 .. n + n, c[i].type = "agent.tool_use"
        PROVE  \E j \in 1 .. n + n : c[j].type = "agent.tool_result" /\ Answers(c, i, j)
    <3>1. i \in 1 .. n
      BY <1>8, <2>1
    <3>2. n + i \in 1 .. n + n /\ n + i > n
      BY <1>1, <3>1
    <3>3. c[n + i].type = "agent.tool_result"
      BY <1>1, <1>8, <3>2
    <3> QED  BY <1>10, <3>1, <3>2, <3>3
  <2>2. ASSUME NEW j \in 1 .. n + n, c[j].type = "agent.tool_result"
        PROVE  \E i \in 1 .. n + n : c[i].type = "agent.tool_use" /\ Answers(c, i, j)
    <3>1. j - n \in 1 .. n /\ n + (j - n) = j
      BY <1>8, <2>2
    <3>2. Answers(c, j - n, n + (j - n))
      BY <1>10, <3>1
    <3>3. j - n \in 1 .. n + n /\ c[j - n].type = "agent.tool_use"
      BY <1>1, <1>8, <3>1
    <3> QED  BY <3>1, <3>2, <3>3
  <2> QED  BY <1>2, <2>1, <2>2 DEF PairedEvents
<1> QED  BY <1>7, <1>9, <1>11 DEF c, r

-----------------------------------------------------------------------------
(* The inductive invariant: with what the outbox holds, the events that    *)
(* were made tell each turn as a whole; there are no more calls than the   *)
(* turns begun, and the rounds of the present one, have made.              *)
Over == {m \in Msgs : run[m] = "over"}

PerTurn == MaxRounds * MaxTools

Shape ==
  /\ step = "off" => /\ outbox = <<>>
                     /\ calls <= Cardinality(Over) * PerTurn
  /\ step # "off" => /\ Cardinality(Over) >= 1
                     /\ calls <= (Cardinality(Over) - 1) * PerTurn + round * MaxTools
  /\ step = "request" => round < MaxRounds
  /\ \A i \in DOMAIN outbox : ~outbox[i].cleared
  /\ \A i \in DOMAIN made : ~made[i].cleared

Inv ==
  /\ TypeOK
  /\ Shape
  /\ MarksOf(made \o outbox, step)

LEMMA Constants ==
  /\ Limit \in Nat /\ KeepResults \in Nat /\ KeepEvents \in Nat
  /\ MaxRounds \in Nat /\ MaxTools \in Nat /\ KeepRounds \in Nat /\ MaxMessages \in Nat
  /\ MaxAstray \in Nat
BY ContextAssumption, LoopAssumption, ConversationAssumption

LEMMA Product ==
  /\ \A x, y \in Nat : x * y \in Nat
  /\ \A x, y, z \in Nat : x <= y => x * z <= y * z
  /\ \A x, z \in Nat : (x + 1) * z = x * z + z
  /\ \A x, z \in Nat : x >= 1 => x * z = (x - 1) * z + z
<1>1. \A x, y \in Nat : x * y \in Nat
  OBVIOUS
<1>2. \A x, y, z \in Nat : x <= y => x * z <= y * z
  OBVIOUS
<1>3. \A x, z \in Nat : (x + 1) * z = x * z + z
  OBVIOUS
<1>4. \A x, z \in Nat : x >= 1 => x * z = (x - 1) * z + z
  OBVIOUS
<1> QED  BY <1>1, <1>2, <1>3, <1>4

LEMMA OverCount ==
  /\ IsFiniteSet(Over)
  /\ Cardinality(Over) \in 0 .. MaxMessages
<1>1. IsFiniteSet(Msgs) /\ Cardinality(Msgs) = MaxMessages
  BY Constants, FS_Interval DEF Msgs
<1>2. Over \subseteq Msgs
  BY DEF Over
<1> QED  BY <1>1, <1>2, FinitePart

(* No turn makes more calls than its rounds have room for.                 *)
LEMMA CallsFit ==
  ASSUME NEW c \in Nat, NEW o \in 0 .. MaxMessages, NEW r \in 0 .. MaxRounds,
         \/ c <= o * PerTurn
         \/ o >= 1 /\ c <= (o - 1) * PerTurn + r * MaxTools
  PROVE  c <= o * PerTurn /\ c \in 0 .. MaxMessages * (MaxRounds * MaxTools)
<1> DEFINE P == PerTurn
<1>1. P \in Nat /\ P = MaxRounds * MaxTools
  BY Constants, Product DEF PerTurn
<1>2. r * MaxTools <= P /\ r * MaxTools \in Nat
  BY Constants, Product DEF PerTurn
<1> HIDE DEF P
<1>3. o * P <= MaxMessages * P /\ o * P \in Nat /\ MaxMessages * P \in Nat
  BY <1>1, Constants, Product
<1>4. o >= 1 => o * P = (o - 1) * P + P /\ (o - 1) * P \in Nat
  BY <1>1, Constants, Product
<1>5. c <= o * P
  <2>1. CASE c <= o * PerTurn
    BY <2>1 DEF P
  <2>2. CASE o >= 1 /\ c <= (o - 1) * PerTurn + r * MaxTools
    <3>1. c <= (o - 1) * P + r * MaxTools
      BY <2>2 DEF P
    <3> QED  BY <1>1, <1>2, <1>4, <2>2, <3>1
  <2> QED  BY <2>1, <2>2
<1>6. c <= MaxMessages * P
  BY <1>3, <1>5
<1>7. MaxMessages * P = MaxMessages * (MaxRounds * MaxTools)
  BY <1>1
<1> QED  BY <1>3, <1>5, <1>6, <1>7 DEF P

(* A call of Run that goes on, and one that is over.                       *)
LEMMA RunGoesOn ==
  ASSUME TypeOK, NEW m \in Msgs, run[m] # "over", NEW v, v # "over",
         v \in {"new", "load", "fetch", "persist", "forward", "over"},
         run' = [run EXCEPT ![m] = v]
  PROVE  /\ Over' = Over
         /\ run' \in [Msgs -> {"new", "load", "fetch", "persist", "forward", "over"}]
BY DEF TypeOK, Over

LEMMA RunIsOver ==
  ASSUME TypeOK, NEW m \in Msgs, run[m] # "over", run' = [run EXCEPT ![m] = "over"]
  PROVE  /\ Cardinality(Over)' = Cardinality(Over) + 1
         /\ run' \in [Msgs -> {"new", "load", "fetch", "persist", "forward", "over"}]
<1>1. Over' = Over \cup {m} /\ m \notin Over
  BY DEF TypeOK, Over
<1>2. Cardinality(Over \cup {m}) = Cardinality(Over) + 1
  BY <1>1, OverCount, FS_AddElement
<1>3. run' \in [Msgs -> {"new", "load", "fetch", "persist", "forward", "over"}]
  BY DEF TypeOK
<1> QED  BY <1>1, <1>2, <1>3

(* What is stored beside the loop's reports is a message or the refusal of *)
(* one.                                                                    *)
LEMMA StoreKeeps ==
  ASSUME TypeOK, Shape, MarksOf(made \o outbox, step),
         NEW t \in {"user.message", "runtime.error"}, NEW r \in Nat, Store(Event(t, r))
  PROVE  /\ log' = log \o <<Event(t, r)>> /\ astray' = astray
         /\ log' \in Seq(EventSet) /\ \A i \in DOMAIN log' : ~log'[i].cleared
         /\ made' \in Seq(EventSet) /\ \A i \in DOMAIN made' : ~made'[i].cleared
         /\ MarksOf(made' \o outbox, step)
<1> DEFINE e == Event(t, r)
<1>1. e \in EventSet /\ ~e.cleared /\ e.type = t
  BY EventType DEF Types
<1> HIDE DEF e
<1>2. /\ log \in Seq(EventSet) /\ made \in Seq(EventSet) /\ outbox \in Seq(EventSet)
      /\ \A i \in DOMAIN log : ~log[i].cleared
      /\ \A i \in DOMAIN made : ~made[i].cleared
  BY DEF TypeOK, Shape
<1>3. log' = Append(log, e) /\ made' = Append(made, e) /\ astray' = astray
  BY DEF Store, e
<1>4. log' = log \o <<e>> /\ made' = made \o <<e>>
  BY <1>1, <1>2, <1>3, AppendIsConcat
<1>5. log' \in Seq(EventSet) /\ \A i \in DOMAIN log' : ~log'[i].cleared
  BY <1>1, <1>2, <1>3
<1>6. made' \in Seq(EventSet) /\ \A i \in DOMAIN made' : ~made'[i].cleared
  BY <1>1, <1>2, <1>3
<1>7. MarksOf((made \o <<e>>) \o outbox, step)
  BY <1>1, <1>2, AmongMarks
<1> QED  BY <1>3, <1>4, <1>5, <1>6, <1>7 DEF e

-----------------------------------------------------------------------------
(* Each step keeps it.                                                     *)
LEMMA InvInit == Init => Inv
<1> SUFFICES ASSUME Init  PROVE Inv
  OBVIOUS
<1>1. NoMemory \in MemorySet /\ NoPayload \in PayloadSet
  BY DEF NoMemory, NoPayload, MemorySet, PayloadSet
<1>2. Over = {}
  BY DEF Init, Over
<1>3. Cardinality(Over) = 0 /\ 0 * PerTurn = 0 /\ MaxMessages * (MaxRounds * MaxTools) \in Nat
  BY <1>2, FS_EmptySet, Constants, Product DEF PerTurn
<1>4. TypeOK
  <2>1. /\ log = <<>> /\ made = <<>> /\ astray = 0 /\ step = "off" /\ round = 0 /\ messages = <<>> /\ outbox = <<>> /\ calls = 0
        /\ run = [m \in Msgs |-> "new"] /\ payload = [m \in Msgs |-> NoPayload]
        /\ memory = NoMemory /\ whole = FALSE
    BY DEF Init, LoopInit
  <2>2. <<>> \in Seq(EventSet) /\ <<>> \in Seq(MessageSet) /\ \A i \in DOMAIN <<>> : ~<<>>[i].cleared
    OBVIOUS
  <2>3. calls \in 0 .. MaxMessages * (MaxRounds * MaxTools)
    BY <1>3, <2>1
  <2>4. round \in 0 .. MaxRounds /\ astray \in 0 .. MaxAstray
    BY <2>1, Constants
  <2> QED  BY <1>1, <2>1, <2>2, <2>3, <2>4 DEF TypeOK
<1>5. Shape
  BY <1>3 DEF Init, LoopInit, Shape
<1>6. made \o outbox = <<>>
  BY DEF Init, LoopInit
<1>7. \A t : Count(<<>>, t, 0) = 0
  BY CountNone
<1>8. MarksOf(<<>>, "off")
  BY <1>7 DEF MarksOf, Marked, Alternating, Even
<1> QED  BY <1>4, <1>5, <1>6, <1>8 DEF Inv, Init, LoopInit

LEMMA SendInv ==
  ASSUME Inv, NEW m \in Msgs, Send(m)
  PROVE  Inv'
<1>1. /\ TypeOK /\ Shape /\ MarksOf(made \o outbox, step)
      /\ run[m] = "new" /\ Store(Event("user.message", m))
      /\ run' = [run EXCEPT ![m] = "load"]
      /\ UNCHANGED <<step, round, messages, outbox, calls, payload, memory, whole>>
  BY DEF Inv, Send, loopVars, logVars
<1>2. m \in Nat
  BY Constants DEF Msgs
<1>3. Over' = Over /\ run' \in [Msgs -> {"new", "load", "fetch", "persist", "forward", "over"}]
  BY <1>1, RunGoesOn
<1>4. /\ log' \in Seq(EventSet) /\ \A i \in DOMAIN log' : ~log'[i].cleared
      /\ made' \in Seq(EventSet) /\ \A i \in DOMAIN made' : ~made'[i].cleared
      /\ MarksOf(made' \o outbox, step) /\ astray' = astray
  BY <1>1, <1>2, StoreKeeps
<1>5. TypeOK'
  BY <1>1, <1>3, <1>4 DEF TypeOK
<1>6. Shape'
  BY <1>1, <1>3, <1>4 DEF Shape
<1> QED  BY <1>1, <1>4, <1>5, <1>6 DEF Inv

LEMMA LoadInv ==
  ASSUME Inv, NEW m \in Msgs, LoadMemory(m)
  PROVE  Inv'
<1>1. /\ TypeOK /\ Shape /\ MarksOf(made \o outbox, step)
      /\ run[m] = "load" /\ run' = [run EXCEPT ![m] = "fetch"]
      /\ payload' = [payload EXCEPT ![m].memory = memory]
      /\ UNCHANGED <<log, made, astray, step, round, messages, outbox, calls, memory, whole>>
  BY DEF Inv, LoadMemory, loopVars, logVars
<1>2. Over' = Over /\ run' \in [Msgs -> {"new", "load", "fetch", "persist", "forward", "over"}]
  BY <1>1, RunGoesOn
<1>3. payload' \in [Msgs -> PayloadSet]
  BY <1>1 DEF TypeOK, PayloadSet
<1>4. TypeOK'
  BY <1>1, <1>2, <1>3 DEF TypeOK
<1>5. Shape'
  BY <1>1, <1>2 DEF Shape
<1> QED  BY <1>1, <1>4, <1>5 DEF Inv

LEMMA FetchInv ==
  ASSUME Inv, NEW m \in Msgs, FetchEvents(m)
  PROVE  Inv'
<1>1. /\ TypeOK /\ Shape /\ MarksOf(made \o outbox, step) /\ run[m] = "fetch"
      /\ UNCHANGED <<log, made, astray, step, round, messages, outbox, calls, memory, whole>>
  BY DEF Inv, FetchEvents, loopVars, logVars
<1>2. PICK weight \in Weights :
        LET res == Compress(ListBySession(log), payload[m].memory, weight) IN
        /\ payload' = [payload EXCEPT ![m] =
                         [messages |-> EventsToMessages(res.events),
                          memory   |-> res.memory,
                          whole    |-> res.tier < 3 /\ Len(log) <= Limit /\ astray = 0]]
        /\ run' = [run EXCEPT ![m] = IF res.tier >= 2 THEN "persist" ELSE "forward"]
  BY DEF FetchEvents
<1> DEFINE res == Compress(ListBySession(log), payload[m].memory, weight)
           next == IF res.tier >= 2 THEN "persist" ELSE "forward"
           new == [messages |-> EventsToMessages(res.events),
                   memory   |-> res.memory,
                   whole    |-> res.tier < 3 /\ Len(log) <= Limit /\ astray = 0]
<1>3. payload[m].memory \in MemorySet /\ ListBySession(log) \in Seq(EventSet)
  BY <1>1, FirstPage DEF TypeOK, PayloadSet
<1>4. res.events \in Seq(EventSet) /\ res.memory \in MemorySet
  BY <1>3, CompressType
<1>5. EventsToMessages(res.events) \in Seq(MessageSet)
  BY <1>4, MessagesOf
<1>6. next # "over" /\ next \in {"new", "load", "fetch", "persist", "forward", "over"}
  OBVIOUS
<1>7. run' = [run EXCEPT ![m] = next] /\ payload' = [payload EXCEPT ![m] = new]
  BY <1>2
<1>8. new \in PayloadSet
  BY <1>4, <1>5 DEF PayloadSet
<1> HIDE DEF res, next, new
<1>9. Over' = Over /\ run' \in [Msgs -> {"new", "load", "fetch", "persist", "forward", "over"}]
  BY <1>1, <1>6, <1>7, RunGoesOn
<1>10. payload' \in [Msgs -> PayloadSet]
  BY <1>1, <1>7, <1>8 DEF TypeOK
<1>11. TypeOK'
  BY <1>1, <1>9, <1>10 DEF TypeOK
<1>12. Shape'
  BY <1>1, <1>9 DEF Shape
<1> QED  BY <1>1, <1>11, <1>12 DEF Inv

LEMMA PersistInv ==
  ASSUME Inv, NEW m \in Msgs, PersistMemory(m)
  PROVE  Inv'
<1>1. /\ TypeOK /\ Shape /\ MarksOf(made \o outbox, step)
      /\ run[m] = "persist" /\ run' = [run EXCEPT ![m] = "forward"]
      /\ memory' = payload[m].memory
      /\ UNCHANGED <<log, made, astray, step, round, messages, outbox, calls, payload, whole>>
  BY DEF Inv, PersistMemory, loopVars, logVars
<1>2. Over' = Over /\ run' \in [Msgs -> {"new", "load", "fetch", "persist", "forward", "over"}]
  BY <1>1, RunGoesOn
<1>3. memory' \in MemorySet
  BY <1>1 DEF TypeOK, PayloadSet
<1>4. TypeOK'
  BY <1>1, <1>2, <1>3 DEF TypeOK
<1>5. Shape'
  BY <1>1, <1>2 DEF Shape
<1> QED  BY <1>1, <1>4, <1>5 DEF Inv

(* The message that a turn is given is one more message.                   *)
LEMMA GivenMessages ==
  ASSUME TypeOK, NEW m \in Msgs
  PROVE  Append(payload[m].messages, Message("user", <<Event("user.message", m)>>)) \in Seq(MessageSet)
<1>1. m \in Nat /\ payload[m].messages \in Seq(MessageSet)
  BY Constants DEF Msgs, TypeOK, PayloadSet
<1>2. <<Event("user.message", m)>> \in Seq(EventSet)
  BY <1>1, EventType, OneEvent DEF Types
<1>3. Message("user", <<Event("user.message", m)>>) \in MessageSet
  BY <1>2 DEF Message, MessageSet
<1> QED  BY <1>1, <1>3

LEMMA ForwardInv ==
  ASSUME Inv, NEW m \in Msgs, Forward(m)
  PROVE  Inv'
<1>1. /\ TypeOK /\ Shape /\ MarksOf(made \o outbox, step)
      /\ run[m] = "forward" /\ run' = [run EXCEPT ![m] = "over"]
      /\ payload' = [payload EXCEPT ![m] = NoPayload]
      /\ UNCHANGED memory
  BY DEF Inv, Forward
<1>2. /\ Cardinality(Over)' = Cardinality(Over) + 1
      /\ run' \in [Msgs -> {"new", "load", "fetch", "persist", "forward", "over"}]
  BY <1>1, RunIsOver
<1>3. Cardinality(Over) \in Nat /\ Cardinality(Over)' \in 0 .. MaxMessages
  <2>1. Cardinality(Over) \in Nat /\ IsFiniteSet(Over)
    BY OverCount
  <2>2. Msgs' = Msgs /\ MaxMessages' = MaxMessages
    BY DEF Msgs
  <2>3. IsFiniteSet(Msgs) /\ Cardinality(Msgs) = MaxMessages
    BY Constants, FS_Interval DEF Msgs
  <2>4. Over' \subseteq Msgs
    BY DEF Over
  <2> QED  BY <2>1, <2>3, <2>4, FinitePart
<1>4. payload' \in [Msgs -> PayloadSet]
  <2>1. NoPayload \in PayloadSet
    BY DEF NoMemory, NoPayload, MemorySet, PayloadSet
  <2> QED  BY <1>1, <2>1 DEF TypeOK
<1>5. /\ calls \in Nat /\ PerTurn \in Nat /\ round \in 0 .. MaxRounds
      /\ made \in Seq(EventSet) /\ outbox \in Seq(EventSet)
  BY <1>1, Constants, Product DEF TypeOK, PerTurn
<1>6. CASE /\ StartTurn(Append(payload[m].messages,
                                Message("user", <<Event("user.message", m)>>)))
           /\ whole' = payload[m].whole
           /\ UNCHANGED logVars
  <2>1. /\ step = "off" /\ step' = "round" /\ round' = 0 /\ calls' = calls
        /\ UNCHANGED <<log, made, astray>>
        /\ messages' = Append(payload[m].messages, Message("user", <<Event("user.message", m)>>))
        /\ outbox' = <<Event("session.status_running", 0)>> /\ whole' = payload[m].whole
    BY <1>6 DEF StartTurn, logVars
  <2>2. Event("session.status_running", 0) \in EventSet
        /\ Event("session.status_running", 0).type = "session.status_running"
        /\ ~Event("session.status_running", 0).cleared
    BY EventType DEF Types
  <2>3. messages' \in Seq(MessageSet)
    BY <1>1, <2>1, GivenMessages
  <2>4. outbox = <<>> /\ calls <= Cardinality(Over) * PerTurn
    BY <1>1, <2>1 DEF Shape
  <2>5. calls' <= Cardinality(Over)' * PerTurn /\ calls' \in 0 .. MaxMessages * (MaxRounds * MaxTools)
        /\ Cardinality(Over)' >= 1 /\ calls' <= (Cardinality(Over)' - 1) * PerTurn + round' * MaxTools
    <3>1. (Cardinality(Over)' - 1) * PerTurn = Cardinality(Over) * PerTurn
      <4>1. Cardinality(Over)' - 1 = Cardinality(Over)
        BY <1>2, <1>3
      <4> QED  BY <4>1
    <3>2. round' * MaxTools = 0
      BY <2>1, Constants
    <3>3. Cardinality(Over) * PerTurn \in Nat
      BY <1>3, <1>5, Product
    <3>4. Cardinality(Over)' >= 1 /\ calls' <= (Cardinality(Over)' - 1) * PerTurn + round' * MaxTools
      BY <1>2, <1>3, <1>5, <2>1, <2>4, <3>1, <3>2, <3>3
    <3>5. calls' \in Nat /\ round' \in 0 .. MaxRounds
      BY <1>5, <2>1, Constants
    <3> QED  BY <1>3, <3>4, <3>5, CallsFit
  <2>6. TypeOK'
    BY <1>1, <1>2, <1>4, <2>1, <2>2, <2>3, <2>5, OneEvent, Constants DEF TypeOK, PayloadSet
  <2>7. Shape'
    BY <1>1, <2>1, <2>2, <2>5, OneEvent DEF Shape
  <2>8. made \o outbox = made
    BY <1>5, <2>4, ConcatEmptySeq
  <2>9. MarksOf(made \o outbox', "round")
    BY <1>1, <1>5, <2>1, <2>2, <2>8, StartMarks
  <2> QED  BY <2>1, <2>6, <2>7, <2>9 DEF Inv
<1>7. CASE /\ step # "off"
           /\ Store(Event("runtime.error", m))
           /\ UNCHANGED <<loopVars, whole>>
  <2>1. UNCHANGED <<step, round, messages, outbox, calls, whole>>
    BY <1>7 DEF loopVars
  <2>2. m \in Nat
    BY Constants DEF Msgs
  <2>3. /\ log' \in Seq(EventSet) /\ \A i \in DOMAIN log' : ~log'[i].cleared
        /\ made' \in Seq(EventSet) /\ \A i \in DOMAIN made' : ~made'[i].cleared
        /\ MarksOf(made' \o outbox, step) /\ astray' = astray
    BY <1>1, <1>7, <2>2, StoreKeeps
  <2>4. TypeOK'
    BY <1>1, <1>2, <1>4, <2>1, <2>3 DEF TypeOK
  <2>5. Cardinality(Over)' >= 1 /\ calls' <= (Cardinality(Over)' - 1) * PerTurn + round' * MaxTools
    <3>1. Cardinality(Over) >= 1 /\ calls <= (Cardinality(Over) - 1) * PerTurn + round * MaxTools
      BY <1>1, <1>7 DEF Shape
    <3>2. calls <= Cardinality(Over) * PerTurn
      BY <1>5, <3>1, CallsFit, OverCount
    <3>3. Cardinality(Over)' - 1 = Cardinality(Over)
      BY <1>2, <1>3
    <3>4. (Cardinality(Over)' - 1) * PerTurn = Cardinality(Over) * PerTurn
      BY <3>3
    <3>5. round * MaxTools \in Nat /\ Cardinality(Over) * PerTurn \in Nat
      BY <1>3, <1>5, Constants, Product
    <3> QED  BY <1>2, <1>3, <1>5, <2>1, <3>2, <3>4, <3>5, SMTT(40)
  <2>6. Shape'
    BY <1>1, <1>7, <2>1, <2>3, <2>5 DEF Shape
  <2> QED  BY <2>1, <2>3, <2>4, <2>6 DEF Inv
<1> QED  BY <1>6, <1>7 DEF Forward

(* The first report of the outbox, and the ones after it.                  *)
LEMMA FirstReport ==
  ASSUME TypeOK, Shape, outbox # <<>>
  PROVE  /\ Head(outbox) \in EventSet /\ ~Head(outbox).cleared
         /\ Tail(outbox) \in Seq(EventSet)
         /\ \A i \in DOMAIN Tail(outbox) : ~Tail(outbox)[i].cleared
         /\ \A evts \in Seq(EventSet) : Append(evts, Head(outbox)) \o Tail(outbox) = evts \o outbox
<1>1. outbox \in Seq(EventSet) /\ \A i \in DOMAIN outbox : ~outbox[i].cleared
  BY DEF TypeOK, Shape
<1>2. Len(outbox) \in Nat /\ Len(outbox) # 0 /\ Head(outbox) = outbox[1] /\ 1 \in DOMAIN outbox
  BY <1>1
<1>3. Tail(outbox) \in Seq(EventSet) /\ Len(Tail(outbox)) = Len(outbox) - 1
      /\ \A i \in 1 .. Len(Tail(outbox)) : Tail(outbox)[i] = outbox[i + 1] /\ i + 1 \in DOMAIN outbox
  BY <1>1, <1>2
<1>4. Head(outbox) \in EventSet /\ ~Head(outbox).cleared
      /\ \A i \in DOMAIN Tail(outbox) : ~Tail(outbox)[i].cleared
  BY <1>1, <1>2, <1>3
<1>5. ASSUME NEW evts \in Seq(EventSet)
      PROVE  Append(evts, Head(outbox)) \o Tail(outbox) = evts \o outbox
  <2>1. Append(evts, Head(outbox)) = evts \o <<Head(outbox)>>
    BY <1>4, AppendIsConcat
  <2>2. <<Head(outbox)>> \o Tail(outbox) = outbox
    BY <1>1, <1>2
  <2>3. (evts \o <<Head(outbox)>>) \o Tail(outbox) = evts \o (<<Head(outbox)>> \o Tail(outbox))
    BY <1>3, <1>4, OneEvent, ConcatAssociative
  <2> QED  BY <2>1, <2>2, <2>3
<1> QED  BY <1>3, <1>4, <1>5

(* A report is made, whether it is stored or not.                          *)
LEMMA MadeInv ==
  ASSUME Inv, outbox # <<>>, made' = Append(made, Head(outbox)), outbox' = Tail(outbox),
         UNCHANGED <<step, round, messages, calls, run, payload, memory, whole>>,
         \/ log' = Append(log, Head(outbox)) /\ astray' = astray
         \/ log' = log /\ astray' \in 0 .. MaxAstray
  PROVE  Inv'
<1>1. /\ TypeOK /\ Shape /\ MarksOf(made \o outbox, step)
      /\ log \in Seq(EventSet) /\ \A i \in DOMAIN log : ~log[i].cleared
      /\ made \in Seq(EventSet) /\ \A i \in DOMAIN made : ~made[i].cleared
  BY DEF Inv, TypeOK, Shape
<1>2. /\ Head(outbox) \in EventSet /\ ~Head(outbox).cleared
      /\ outbox' \in Seq(EventSet) /\ \A i \in DOMAIN outbox' : ~outbox'[i].cleared
      /\ made' \o outbox' = made \o outbox
  BY <1>1, FirstReport
<1> DEFINE e == Head(outbox)
<1>3. log' \in Seq(EventSet) /\ \A i \in DOMAIN log' : ~log'[i].cleared
  <2>1. log' = Append(log, e) \/ log' = log
    OBVIOUS
  <2>2. e \in EventSet /\ ~e.cleared
    BY <1>2
  <2> HIDE DEF e
  <2>3. CASE log' = log
    BY <1>1, <2>3
  <2>4. CASE log' = Append(log, e)
    BY <1>1, <2>2, <2>4
  <2> QED  BY <2>1, <2>3, <2>4
<1>4. made' \in Seq(EventSet) /\ \A i \in DOMAIN made' : ~made'[i].cleared
  <2>1. made' = Append(made, e)
    OBVIOUS
  <2>2. e \in EventSet /\ ~e.cleared
    BY <1>2
  <2> HIDE DEF e
  <2> QED  BY <1>1, <2>1, <2>2
<1>5. Over' = Over
  BY DEF Over
<1>6. TypeOK'
  BY <1>1, <1>2, <1>3, <1>4 DEF TypeOK
<1>7. Shape'
  BY <1>1, <1>2, <1>4, <1>5 DEF Shape
<1> QED  BY <1>1, <1>2, <1>6, <1>7 DEF Inv

LEMMA ReportInv ==
  ASSUME Inv, Report \/ ReportLost, UNCHANGED clientVars
  PROVE  Inv'
<1>1. UNCHANGED <<run, payload, memory, whole>>
  BY DEF clientVars
<1>2. CASE Report
  BY <1>1, <1>2, MadeInv DEF Report, Store
<1>3. CASE ReportLost
  <2>1. astray' \in 0 .. MaxAstray
    BY <1>3, Constants DEF Inv, TypeOK, ReportLost
  <2> QED  BY <1>1, <1>3, <2>1, MadeInv DEF ReportLost
<1> QED  BY <1>2, <1>3

LEMMA LateInv ==
  ASSUME Inv, StoreLate, UNCHANGED clientVars
  PROVE  Inv'
<1>1. /\ TypeOK /\ Shape /\ MarksOf(made \o outbox, step)
      /\ log \in Seq(EventSet) /\ \A i \in DOMAIN log : ~log[i].cleared
      /\ made \in Seq(EventSet) /\ \A i \in DOMAIN made : ~made[i].cleared
      /\ UNCHANGED <<made, step, round, messages, outbox, calls, run, payload, memory, whole>>
  BY DEF Inv, TypeOK, Shape, StoreLate, loopVars, clientVars
<1>2. PICK e \in Attempted : log' = Append(log, e)
  BY DEF StoreLate
<1>3. e \in EventSet /\ ~e.cleared
  <2>1. CASE \E i \in DOMAIN made : e = made[i]
    BY <1>1, <2>1
  <2>2. CASE outbox # <<>> /\ e = Head(outbox)
    BY <1>1, <2>2, FirstReport
  <2> QED  BY <2>1, <2>2 DEF Attempted
<1>4. log' \in Seq(EventSet) /\ \A i \in DOMAIN log' : ~log'[i].cleared
  BY <1>1, <1>2, <1>3
<1>5. astray' \in 0 .. MaxAstray
  BY <1>1, Constants DEF TypeOK, StoreLate
<1>6. Over' = Over
  BY <1>1 DEF Over
<1>7. TypeOK'
  BY <1>1, <1>4, <1>5 DEF TypeOK
<1>8. Shape'
  BY <1>1, <1>6 DEF Shape
<1> QED  BY <1>1, <1>7, <1>8 DEF Inv

(* The steps of the loop decide a batch when the outbox is empty: the      *)
(* events made are what they were, and the batch comes after them.         *)
LEMMA BatchInv ==
  ASSUME Inv, outbox = <<>>, step # "off", UNCHANGED <<log, made, astray>>, UNCHANGED clientVars,
         step' \in {"off", "round", "request", "end"}, round' \in 0 .. MaxRounds,
         messages' \in Seq(MessageSet), outbox' \in Seq(EventSet), calls' \in Nat,
         \A i \in DOMAIN outbox' : ~outbox'[i].cleared,
         step' = "off" => outbox' = <<>>, step' = "request" => round' < MaxRounds,
         calls' <= (Cardinality(Over) - 1) * PerTurn + round' * MaxTools,
         MarksOf(made, step) => MarksOf(made \o outbox', step')
  PROVE  Inv'
<1>1. /\ TypeOK /\ Shape /\ MarksOf(made \o outbox, step)
      /\ UNCHANGED <<run, payload, memory, whole>>
  BY DEF Inv, clientVars
<1>2. made \in Seq(EventSet) /\ made \o outbox = made
  BY <1>1, ConcatEmptySeq DEF TypeOK
<1>3. Over' = Over
  BY <1>1 DEF Over
<1>4. Cardinality(Over) \in 0 .. MaxMessages /\ Cardinality(Over) >= 1
  BY <1>1, OverCount DEF Shape
<1>5. calls' <= Cardinality(Over) * PerTurn /\ calls' \in 0 .. MaxMessages * (MaxRounds * MaxTools)
  BY <1>4, CallsFit
<1>6. TypeOK'
  BY <1>1, <1>5 DEF TypeOK
<1>7. Shape'
  BY <1>1, <1>3, <1>4, <1>5 DEF Shape
<1> QED  BY <1>1, <1>2, <1>6, <1>7 DEF Inv

(* A batch of one.                                                         *)
LEMMA OneReport ==
  ASSUME NEW t \in Types
  PROVE  /\ Event(t, 0) \in EventSet /\ Event(t, 0).type = t
         /\ <<Event(t, 0)>> \in Seq(EventSet)
         /\ \A i \in DOMAIN <<Event(t, 0)>> : ~<<Event(t, 0)>>[i].cleared
<1>1. Event(t, 0) \in EventSet /\ Event(t, 0).type = t /\ ~Event(t, 0).cleared
  BY EventType
<1> DEFINE e == Event(t, 0)
<1> HIDE DEF e
<1>2. e \in EventSet /\ ~e.cleared
  BY <1>1 DEF e
<1>3. <<e>> \in Seq(EventSet) /\ \A i \in DOMAIN <<e>> : ~<<e>>[i].cleared
  BY <1>2
<1> QED  BY <1>1, <1>3 DEF e

LEMMA BeginInv ==
  ASSUME Inv, BeginRound, UNCHANGED clientVars
  PROVE  Inv'
<1>1. /\ TypeOK /\ Shape /\ step = "round" /\ outbox = <<>>
      /\ UNCHANGED <<log, made, astray, round, calls>>
  BY DEF Inv, BeginRound, logVars
<1>2. made \in Seq(EventSet) /\ messages \in Seq(MessageSet) /\ calls \in Nat /\ round \in 0 .. MaxRounds
      /\ calls <= (Cardinality(Over) - 1) * PerTurn + round * MaxTools
  BY <1>1, Constants, Product DEF TypeOK, Shape
<1>3. CASE /\ round < MaxRounds
           /\ messages' \in {messages, MidTurnCompress(messages)}
           /\ outbox' = <<Event("span.model_request_start", 0)>>
           /\ step' = "request"
  <2>1. messages' \in Seq(MessageSet)
    BY <1>2, <1>3, MidTurnKeeps
  <2>2. Event("span.model_request_start", 0) \in EventSet
        /\ Event("span.model_request_start", 0).type = "span.model_request_start"
        /\ outbox' \in Seq(EventSet) /\ \A i \in DOMAIN outbox' : ~outbox'[i].cleared
    BY <1>3, OneReport DEF Types
  <2>3. MarksOf(made, step) => MarksOf(made \o outbox', step')
    BY <1>1, <1>2, <1>3, <2>2, RequestMarks
  <2> QED  BY <1>1, <1>2, <1>3, <2>1, <2>2, <2>3, BatchInv
<1>4. CASE /\ round = MaxRounds
           /\ outbox' = <<Event("session.status_idle", 0)>>
           /\ step' = "end"
           /\ UNCHANGED messages
  <2>1. Event("session.status_idle", 0) \in EventSet
        /\ Event("session.status_idle", 0).type = "session.status_idle"
        /\ outbox' \in Seq(EventSet) /\ \A i \in DOMAIN outbox' : ~outbox'[i].cleared
    BY <1>4, OneReport DEF Types
  <2>2. MarksOf(made, step) => MarksOf(made \o outbox', step')
    BY <1>1, <1>2, <1>4, <2>1, IdleMarks
  <2> QED  BY <1>1, <1>2, <1>4, <2>1, <2>2, BatchInv
<1> QED  BY <1>3, <1>4 DEF BeginRound

LEMMA OpenRequest ==
  ASSUME Inv, step = "request", outbox = <<>>
  PROVE  MarksOf(made, "request")
<1>1. made \in Seq(EventSet) /\ made \o outbox = made
  BY ConcatEmptySeq DEF Inv, TypeOK
<1> QED  BY <1>1 DEF Inv

(* A batch of an end, some reports, and an idle one.                       *)
LEMMA LastReports ==
  ASSUME NEW p \in Seq(EventSet), Inner(p), NoCalls(p), \A i \in DOMAIN p : ~p[i].cleared,
         made \in Seq(EventSet), MarksOf(made, "request")
  PROVE  LET b == (<<Event("span.model_request_end", 0)>> \o p) \o <<Event("session.status_idle", 0)>> IN
         /\ b \in Seq(EventSet) /\ MarksOf(made \o b, "end") /\ NoCalls(b)
         /\ \A i \in DOMAIN b : ~b[i].cleared
<1> DEFINE e == Event("span.model_request_end", 0)
           f == Event("session.status_idle", 0)
           b == (<<e>> \o p) \o <<f>>
<1>1. e \in EventSet /\ e.type = "span.model_request_end" /\ ~e.cleared
      /\ f \in EventSet /\ f.type = "session.status_idle" /\ ~f.cleared
  BY EventType DEF Types
<1> HIDE DEF e, f
<1>2. b \in Seq(EventSet) /\ MarksOf(made \o b, "end") /\ NoCalls(b)
  BY <1>1, LastBatch
<1>3. \A i \in DOMAIN b : ~b[i].cleared
  BY <1>1
<1> QED  BY <1>2, <1>3 DEF e, f

LEMMA FailsInv ==
  ASSUME Inv, RequestFails, UNCHANGED clientVars
  PROVE  Inv'
<1>1. /\ TypeOK /\ Shape /\ step = "request" /\ outbox = <<>> /\ step' = "end"
      /\ outbox' = <<Event("span.model_request_end", 0), Event("session.error", 0),
                     Event("session.status_idle", 0)>>
      /\ UNCHANGED <<log, made, astray, round, messages, calls>>
  BY DEF Inv, RequestFails, logVars
<1>2. made \in Seq(EventSet) /\ messages \in Seq(MessageSet) /\ calls \in Nat /\ round \in 0 .. MaxRounds
      /\ calls <= (Cardinality(Over) - 1) * PerTurn + round * MaxTools
  BY <1>1, Constants, Product DEF TypeOK, Shape
<1> DEFINE p == <<Event("session.error", 0)>>
<1>3. p \in Seq(EventSet) /\ Inner(p) /\ NoCalls(p) /\ \A i \in DOMAIN p : ~p[i].cleared
  BY OneReport, OnePlain DEF Types, Inner, NoCalls
<1>4. outbox' = (<<Event("span.model_request_end", 0)>> \o p) \o <<Event("session.status_idle", 0)>>
  BY <1>1
<1> HIDE DEF p
<1>5. outbox' \in Seq(EventSet) /\ (\A i \in DOMAIN outbox' : ~outbox'[i].cleared)
      /\ (MarksOf(made, "request") => MarksOf(made \o outbox', "end"))
  <2>1. MarksOf(made, "request")
    BY <1>1, <1>2, OpenRequest
  <2> QED  BY <1>2, <1>3, <1>4, <2>1, LastReports
<1> QED  BY <1>1, <1>2, <1>5, BatchInv

LEMMA FinalInv ==
  ASSUME Inv, step = "request", outbox = <<>>, NEW resp \in Responses, FinalAnswer(resp),
         UNCHANGED <<log, made, astray>>, UNCHANGED clientVars
  PROVE  Inv'
<1>1. /\ TypeOK /\ Shape /\ step' = "end"
      /\ messages' = Append(messages, Message("assistant", resp.text))
      /\ outbox' = (<<Event("span.model_request_end", 0)>> \o resp.text)
                     \o <<Event("session.status_idle", 0)>>
      /\ UNCHANGED <<round, calls>>
  BY DEF Inv, FinalAnswer
<1>2. made \in Seq(EventSet) /\ messages \in Seq(MessageSet) /\ calls \in Nat /\ round \in 0 .. MaxRounds
      /\ calls <= (Cardinality(Over) - 1) * PerTurn + round * MaxTools
  BY <1>1, Constants, Product DEF TypeOK, Shape
<1>3. resp.text \in Seq(EventSet) /\ Inner(resp.text) /\ NoCalls(resp.text)
      /\ \A i \in DOMAIN resp.text : ~resp.text[i].cleared
  BY <1>2, ResponseType
<1>4. outbox' \in Seq(EventSet) /\ (\A i \in DOMAIN outbox' : ~outbox'[i].cleared)
      /\ (MarksOf(made, "request") => MarksOf(made \o outbox', "end"))
  <2>1. MarksOf(made, "request")
    BY <1>1, <1>2, OpenRequest
  <2> QED  BY <1>1, <1>2, <1>3, <2>1, LastReports
<1>5. messages' \in Seq(MessageSet)
  <2>1. Message("assistant", resp.text) \in MessageSet
    BY <1>3 DEF Message, MessageSet
  <2> QED  BY <1>1, <1>2, <2>1
<1> QED  BY <1>1, <1>2, <1>4, <1>5, BatchInv

(* The batch of a round of tools, and the two messages it makes.           *)
LEMMA ToolReports ==
  ASSUME calls \in Nat, NEW resp \in Responses, made \in Seq(EventSet), MarksOf(made, "request")
  PROVE  LET b == ((<<Event("span.model_request_end", 0)>> \o resp.text) \o resp.calls)
                     \o ResultsOf(resp.calls) IN
         /\ b \in Seq(EventSet) /\ MarksOf(made \o b, "round") /\ PairedEvents(b)
         /\ \A i \in DOMAIN b : ~b[i].cleared
<1> DEFINE e == Event("span.model_request_end", 0)
           t == resp.text
           c == resp.calls
           r == ResultsOf(c)
           b == ((<<e>> \o t) \o c) \o r
<1>1. e \in EventSet /\ e.type = "span.model_request_end" /\ ~e.cleared
  BY EventType DEF Types
<1>2. /\ t \in Seq(EventSet) /\ Inner(t) /\ NoCalls(t) /\ (\A i \in DOMAIN t : ~t[i].cleared)
      /\ c \in Seq(EventSet) /\ \A i \in 1 .. Len(c) : c[i].type = "agent.tool_use" /\ ~c[i].cleared
  BY ResponseType
<1>3. r \in Seq(EventSet) /\ Len(r) = Len(c) /\ \A i \in 1 .. Len(c) : ~r[i].cleared
  BY <1>2, ResultsType
<1>4. Inner(c \o r) /\ Even(c \o r, "agent.tool_use", "agent.tool_result") /\ PairedEvents(c \o r)
  BY <1>2, RoundEvents
<1> HIDE DEF e, t, c, r
<1>5. b \in Seq(EventSet) /\ MarksOf(made \o b, "round") /\ PairedEvents(b)
  BY <1>1, <1>2, <1>3, <1>4, ToolBatch
<1>6. \A i \in DOMAIN b : ~b[i].cleared
  <2>1. <<e>> \o t \in Seq(EventSet) /\ \A i \in DOMAIN (<<e>> \o t) : ~(<<e>> \o t)[i].cleared
    BY <1>1, <1>2
  <2> DEFINE x == <<e>> \o t
  <2> HIDE DEF x
  <2>2. x \o c \in Seq(EventSet) /\ \A i \in DOMAIN (x \o c) : ~(x \o c)[i].cleared
    BY <1>2, <2>1 DEF x
  <2> DEFINE y == x \o c
  <2> HIDE DEF y
  <2>3. \A i \in DOMAIN (y \o r) : ~(y \o r)[i].cleared
    BY <1>3, <2>2 DEF y
  <2> QED  BY <2>3 DEF x, y
<1> QED  BY <1>5, <1>6 DEF e, t, c, r

LEMMA ToolMessages ==
  ASSUME calls \in Nat, NEW resp \in Responses
  PROVE  LET a == Message("assistant", resp.text \o resp.calls)
             b == Message("user", ResultsOf(resp.calls)) IN
         /\ a \in MessageSet /\ b \in MessageSet
         /\ Refs(a, "agent.tool_result") = {} /\ Refs(b, "agent.tool_use") = {}
         /\ Refs(a, "agent.tool_use") = Refs(b, "agent.tool_result")
<1> DEFINE t == resp.text
           c == resp.calls
           r == ResultsOf(c)
           d == t \o c
           a == Message("assistant", d)
           b == Message("user", r)
<1>1. /\ t \in Seq(EventSet) /\ NoCalls(t)
      /\ c \in Seq(EventSet) /\ \A i \in 1 .. Len(c) : c[i].type = "agent.tool_use"
  BY ResponseType
<1>2. /\ r \in Seq(EventSet) /\ Len(r) = Len(c)
      /\ \A i \in 1 .. Len(c) : r[i].type = "agent.tool_result" /\ r[i].ref = c[i].ref
  BY <1>1, ResultsType
<1> HIDE DEF t, c, r
<1>3. d \in Seq(EventSet) /\ Len(d) = Len(t) + Len(c) /\ Len(t) \in Nat /\ Len(c) \in Nat
      /\ DOMAIN d = 1 .. (Len(t) + Len(c)) /\ DOMAIN r = 1 .. Len(c)
      /\ \A i \in 1 .. Len(t) : d[i] = t[i]
  BY <1>1, <1>2
<1>4. ASSUME NEW i \in 1 .. Len(c)  PROVE d[Len(t) + i] = c[i]
  BY <1>1
<1> HIDE DEF d
<1>5. a \in MessageSet /\ b \in MessageSet
  BY <1>2, <1>3 DEF Message, MessageSet
<1>6. /\ \A ty : Refs(a, ty) = {d[i].ref : i \in {j \in DOMAIN d : d[j].type = ty}}
      /\ \A ty : Refs(b, ty) = {r[i].ref : i \in {j \in DOMAIN r : r[j].type = ty}}
  BY DEF Refs, Message
<1>7. \A i \in 1 .. Len(t) : t[i].type \notin {"agent.tool_use", "agent.tool_result"}
  BY <1>1 DEF NoCalls, Plain
<1>8. ASSUME NEW i \in DOMAIN d
      PROVE  \/ d[i].type \notin {"agent.tool_use", "agent.tool_result"}
             \/ /\ i - Len(t) \in 1 .. Len(c) /\ d[i] = c[i - Len(t)]
                /\ d[i].type = "agent.tool_use"
  <2>1. CASE i <= Len(t)
    BY <1>3, <1>7, <2>1
  <2>2. CASE i > Len(t)
    <3>1. i - Len(t) \in 1 .. Len(c) /\ Len(t) + (i - Len(t)) = i
      BY <1>3, <2>2
    <3>2. d[Len(t) + (i - Len(t))] = c[i - Len(t)]
      BY <1>4, <3>1
    <3> QED  BY <1>1, <3>1, <3>2
  <2> QED  BY <1>3, <2>1, <2>2
<1>9. Refs(a, "agent.tool_result") = {}
  BY <1>6, <1>8
<1>10. Refs(b, "agent.tool_use") = {}
  BY <1>2, <1>3, <1>6
<1>11. Refs(a, "agent.tool_use") = Refs(b, "agent.tool_result")
  <2>1. \A i \in {j \in DOMAIN d : d[j].type = "agent.tool_use"} :
          \E k \in {j \in DOMAIN r : r[j].type = "agent.tool_result"} : r[k].ref = d[i].ref
    <3> SUFFICES ASSUME NEW i \in DOMAIN d, d[i].type = "agent.tool_use"
                 PROVE  \E k \in DOMAIN r : r[k].type = "agent.tool_result" /\ r[k].ref = d[i].ref
      OBVIOUS
    <3>1. i - Len(t) \in 1 .. Len(c) /\ d[i] = c[i - Len(t)]
      BY <1>8
    <3> QED  BY <1>2, <1>3, <3>1
  <2>2. \A k \in {j \in DOMAIN r : r[j].type = "agent.tool_result"} :
          \E i \in {j \in DOMAIN d : d[j].type = "agent.tool_use"} : r[k].ref = d[i].ref
    <3> SUFFICES ASSUME NEW k \in DOMAIN r
                 PROVE  \E i \in DOMAIN d : d[i].type = "agent.tool_use" /\ r[k].ref = d[i].ref
      OBVIOUS
    <3>1. k \in 1 .. Len(c) /\ Len(t) + k \in DOMAIN d
      BY <1>3
    <3>2. d[Len(t) + k] = c[k]
      BY <1>4, <3>1
    <3> QED  BY <1>1, <1>2, <3>1, <3>2
  <2>3. {d[i].ref : i \in {j \in DOMAIN d : d[j].type = "agent.tool_use"}}
          = {r[k].ref : k \in {j \in DOMAIN r : r[j].type = "agent.tool_result"}}
    BY <2>1, <2>2
  <2> QED  BY <1>6, <2>3
<1> QED  BY <1>5, <1>9, <1>10, <1>11 DEF t, c, r, d

LEMMA ToolsInv ==
  ASSUME Inv, step = "request", outbox = <<>>, NEW resp \in Responses, UseTools(resp),
         UNCHANGED <<log, made, astray>>, UNCHANGED clientVars
  PROVE  Inv'
<1>1. /\ TypeOK /\ Shape /\ step' = "round" /\ round' = round + 1
      /\ messages' = messages \o <<Message("assistant", resp.text \o resp.calls),
                                   Message("user", ResultsOf(resp.calls))>>
      /\ outbox' = ((<<Event("span.model_request_end", 0)>> \o resp.text) \o resp.calls)
                     \o ResultsOf(resp.calls)
      /\ calls' = calls + Len(resp.calls)
  BY DEF Inv, UseTools
<1>2. made \in Seq(EventSet) /\ messages \in Seq(MessageSet) /\ calls \in Nat
      /\ round \in 0 .. MaxRounds /\ round < MaxRounds
      /\ calls <= (Cardinality(Over) - 1) * PerTurn + round * MaxTools
      /\ Cardinality(Over) >= 1 /\ Cardinality(Over) \in Nat
  BY <1>1, Constants, Product, OverCount DEF TypeOK, Shape
<1>3. outbox' \in Seq(EventSet) /\ (\A i \in DOMAIN outbox' : ~outbox'[i].cleared)
      /\ (MarksOf(made, "request") => MarksOf(made \o outbox', "round"))
  <2>1. MarksOf(made, "request")
    BY <1>1, <1>2, OpenRequest
  <2> QED  BY <1>1, <1>2, <2>1, ToolReports
<1>4. messages' \in Seq(MessageSet)
  <2> DEFINE a == Message("assistant", resp.text \o resp.calls)
             b == Message("user", ResultsOf(resp.calls))
  <2>1. a \in MessageSet /\ b \in MessageSet
    BY <1>2, ToolMessages
  <2> HIDE DEF a, b
  <2>2. messages \o <<a, b>> \in Seq(MessageSet)
    BY <1>2, <2>1
  <2> QED  BY <1>1, <2>2 DEF a, b
<1>5. Len(resp.calls) \in 0 .. MaxTools
  BY <1>2, ResponseType
<1>6. round' \in 0 .. MaxRounds /\ calls' \in Nat
      /\ calls' <= (Cardinality(Over) - 1) * PerTurn + round' * MaxTools
  <2>1. round' * MaxTools = round * MaxTools + MaxTools /\ round * MaxTools \in Nat
    BY <1>1, <1>2, Constants, Product
  <2>2. (Cardinality(Over) - 1) * PerTurn \in Nat
    BY <1>2, Constants, Product DEF PerTurn
  <2>3. round' \in 0 .. MaxRounds
    BY <1>1, <1>2, Constants
  <2> DEFINE before == (Cardinality(Over) - 1) * PerTurn
             now    == round * MaxTools
  <2>4. before \in Nat /\ now \in Nat /\ MaxTools \in Nat /\ calls <= before + now
        /\ calls' = calls + Len(resp.calls) /\ round' * MaxTools = now + MaxTools
    BY <1>1, <1>2, <2>1, <2>2, Constants
  <2> HIDE DEF before, now
  <2>5. calls' \in Nat /\ calls' <= before + (now + MaxTools)
    BY <1>2, <1>5, <2>4
  <2> QED  BY <2>3, <2>4, <2>5 DEF before
<1> QED  BY <1>1, <1>2, <1>3, <1>4, <1>6, BatchInv

LEMMA FinishInv ==
  ASSUME Inv, Finish, UNCHANGED clientVars
  PROVE  Inv'
<1>1. /\ TypeOK /\ Shape /\ MarksOf(made \o outbox, step)
      /\ step = "end" /\ outbox = <<>> /\ step' = "off" /\ messages' = <<>> /\ round' = 0
      /\ UNCHANGED <<log, made, astray, outbox, calls, run, payload, memory, whole>>
  BY DEF Inv, Finish, clientVars, logVars
<1>2. calls \in Nat /\ round \in 0 .. MaxRounds /\ Cardinality(Over) \in 0 .. MaxMessages
      /\ Cardinality(Over) >= 1 /\ calls <= (Cardinality(Over) - 1) * PerTurn + round * MaxTools
  BY <1>1, OverCount, Constants, Product DEF TypeOK, Shape
<1>3. calls <= Cardinality(Over) * PerTurn
  BY <1>2, CallsFit
<1>4. Over' = Over
  BY <1>1 DEF Over
<1>5. TypeOK'
  BY <1>1, Constants DEF TypeOK
<1>6. Shape'
  BY <1>1, <1>3, <1>4 DEF Shape
<1>7. MarksOf(made \o outbox, "off")
  BY <1>1 DEF MarksOf
<1> QED  BY <1>1, <1>5, <1>6, <1>7 DEF Inv

LEMMA InvStep == Inv /\ [Next]_vars => Inv'
<1> SUFFICES ASSUME Inv, [Next]_vars  PROVE Inv'
  OBVIOUS
<1>1. ASSUME NEW m \in Msgs, Send(m)  PROVE Inv'
  BY <1>1, SendInv
<1>2. ASSUME NEW m \in Msgs, RunStep(m)  PROVE Inv'
  BY <1>2, LoadInv, FetchInv, PersistInv, ForwardInv DEF RunStep
<1>3. ASSUME LoopStep, UNCHANGED clientVars  PROVE Inv'
  <2>1. CASE Respond
    BY <1>3, <2>1, FinalInv, ToolsInv DEF Respond, logVars
  <2> QED  BY <1>3, <2>1, ReportInv, BeginInv, FailsInv, FinishInv DEF LoopStep
<1>4. ASSUME StoreLate, UNCHANGED clientVars  PROVE Inv'
  BY <1>4, LateInv
<1>5. CASE UNCHANGED vars
  BY <1>5 DEF vars, logVars, loopVars, clientVars, Inv, TypeOK, Shape, Over
<1> QED  BY <1>1, <1>2, <1>3, <1>4, <1>5 DEF Next

(* What the loop has reported, stored or not, followed by the reports      *)
(* still under way, tells the turns up to the step of the loop (loop.go),  *)
(* and the tool calls made stay within the rounds of the turns that have   *)
(* begun.                                                                  *)
THEOREM Invariant == Spec => []Inv
<1>1. Init => Inv
  BY InvInit
<1>2. Inv /\ [Next]_vars => Inv'
  BY InvStep
<1> QED  BY <1>1, <1>2, PTL DEF Spec

(* The types of a conversation, and that a turn makes no more tool calls   *)
(* than its rounds have room for.                                          *)
THEOREM TypeCorrect == Spec => []TypeOK
<1>1. Inv => TypeOK
  BY DEF Inv
<1> QED  BY <1>1, Invariant, PTL

-----------------------------------------------------------------------------
(* The log and what was made: each report that goes astray puts the one    *)
(* out against the other by one event.                                     *)
NearTo(a, b, d, open, close) ==
  /\ \A n \in 0 .. Len(a) : \E k \in 0 .. Len(b) :
       Lead(a, open, close, n) - Lead(b, open, close, k) \in - d .. d
  /\ Lead(a, open, close, Len(a)) - Lead(b, open, close, Len(b)) \in - d .. d

Near == \A open, close \in Types : NearTo(log, made, astray, open, close)

LEMMA LeadType ==
  ASSUME NEW evts, NEW open, NEW close, NEW n \in Nat
  PROVE  Lead(evts, open, close, n) \in Int
<1>1. Count(evts, open, n) \in Nat /\ Count(evts, close, n) \in Nat
  BY CountType
<1> QED  BY <1>1 DEF Lead

(* One more event changes a lead by one at most, at the end and there only.*)
Adds(e, open, close) ==
  (IF e.type = open THEN 1 ELSE 0) - (IF e.type = close THEN 1 ELSE 0)

OneMore(c, evts, e, open, close) ==
  /\ Len(c) = Len(evts) + 1 /\ Len(evts) \in Nat
  /\ \A n \in 0 .. Len(evts) : Lead(c, open, close, n) = Lead(evts, open, close, n)
  /\ Lead(c, open, close, Len(evts) + 1) = Lead(evts, open, close, Len(evts)) + Adds(e, open, close)
  /\ Adds(e, open, close) \in -1 .. 1

LEMMA LeadGrows ==
  ASSUME NEW evts \in Seq(EventSet), NEW e \in EventSet, NEW open, NEW close
  PROVE  OneMore(Append(evts, e), evts, e, open, close)
<1> DEFINE b == <<e>>
           c == Append(evts, e)
<1>1. b \in Seq(EventSet) /\ Len(b) = 1 /\ b[1] = e
  BY OneEvent
<1>2. c = evts \o b /\ Len(c) = Len(evts) + 1 /\ Len(evts) \in Nat
  BY AppendIsConcat
<1> HIDE DEF b, c
<1>3. \A t : CountsOf(c, evts, b, t)
  BY <1>1, <1>2, CountSplit
<1>4. \A t : \A n \in 0 .. Len(evts) : Count(c, t, n) = Count(evts, t, n)
  BY <1>3 DEF CountsOf
<1>5. \A t : Count(c, t, Len(evts) + 1) = Count(evts, t, Len(evts)) + Count(b, t, 1)
  BY <1>1, <1>3 DEF CountsOf
<1>6. ASSUME NEW t  PROVE Count(b, t, 1) = IF e.type = t THEN 1 ELSE 0
  <2>1. CASE e.type = t
    <3>1. \A i \in 1 .. 1 : b[i].type = t
      BY <1>1, <2>1
    <3> QED  BY <2>1, <3>1, CountAll
  <2>2. CASE e.type # t
    <3>1. \A i \in 1 .. 1 : b[i].type # t
      BY <1>1, <2>2
    <3> QED  BY <2>2, <3>1, CountNone
  <2> QED  BY <2>1, <2>2
<1>7. Count(evts, open, Len(evts)) \in Nat /\ Count(evts, close, Len(evts)) \in Nat
  BY <1>2, CountType
<1>8. Lead(c, open, close, Len(evts) + 1) = Lead(evts, open, close, Len(evts)) + Adds(e, open, close)
  <2>1. Count(c, open, Len(evts) + 1) = Count(evts, open, Len(evts)) + IF e.type = open THEN 1 ELSE 0
    BY <1>5, <1>6
  <2>2. Count(c, close, Len(evts) + 1) = Count(evts, close, Len(evts)) + IF e.type = close THEN 1 ELSE 0
    BY <1>5, <1>6
  <2> QED  BY <1>7, <2>1, <2>2 DEF Lead, Adds
<1>9. \A n \in 0 .. Len(evts) : Lead(c, open, close, n) = Lead(evts, open, close, n)
  BY <1>4 DEF Lead
<1>10. Adds(e, open, close) \in -1 .. 1
  BY DEF Adds
<1> QED  BY <1>2, <1>8, <1>9, <1>10 DEF c, OneMore

LEMMA NearInit == Init => Near
<1> SUFFICES ASSUME Init, NEW open \in Types, NEW close \in Types
             PROVE  NearTo(log, made, astray, open, close)
  BY DEF Near
<1>1. log = <<>> /\ made = <<>> /\ astray = 0 /\ Len(<<>>) = 0
  BY DEF Init
<1>2. Lead(<<>>, open, close, 0) \in Int
  BY LeadType
<1>3. Lead(<<>>, open, close, 0) - Lead(<<>>, open, close, 0) = 0
  BY <1>2
<1>4. \A n \in 0 .. 0 : n = 0
  OBVIOUS
<1> QED  BY <1>1, <1>3, <1>4 DEF NearTo

(* An event is stored as it is made ...                                    *)
LEMMA NearBoth ==
  ASSUME NEW a, NEW b, NEW d \in Nat, NEW c, NEW f, NEW e, NEW open, NEW close,
         OneMore(c, a, e, open, close), OneMore(f, b, e, open, close),
         NearTo(a, b, d, open, close)
  PROVE  NearTo(c, f, d, open, close)
<1> DEFINE A(n) == Lead(a, open, close, n)
           B(k) == Lead(b, open, close, k)
           C(n) == Lead(c, open, close, n)
           F(k) == Lead(f, open, close, k)
<1>1. /\ Len(c) = Len(a) + 1 /\ Len(a) \in Nat /\ \A n \in 0 .. Len(a) : C(n) = A(n)
      /\ C(Len(a) + 1) = A(Len(a)) + Adds(e, open, close) /\ Adds(e, open, close) \in -1 .. 1
  BY DEF OneMore
<1>2. /\ Len(f) = Len(b) + 1 /\ Len(b) \in Nat /\ \A k \in 0 .. Len(b) : F(k) = B(k)
      /\ F(Len(b) + 1) = B(Len(b)) + Adds(e, open, close)
  BY DEF OneMore
<1>3. /\ \A n \in 0 .. Len(a) : \E k \in 0 .. Len(b) : A(n) - B(k) \in - d .. d
      /\ A(Len(a)) - B(Len(b)) \in - d .. d
  BY DEF NearTo
<1>4. A(Len(a)) \in Int /\ B(Len(b)) \in Int
  BY <1>1, <1>2, LeadType
<1> HIDE DEF A, B, C, F
<1>5. C(Len(c)) - F(Len(f)) \in - d .. d
  <2> DEFINE x == A(Len(a))
             y == B(Len(b))
             z == Adds(e, open, close)
  <2>1. x \in Int /\ y \in Int /\ x - y \in - d .. d /\ z \in -1 .. 1
    BY <1>1, <1>3, <1>4
  <2>2. C(Len(c)) = x + z /\ F(Len(f)) = y + z
    BY <1>1, <1>2
  <2> HIDE DEF x, y, z
  <2>3. (x + z) - (y + z) \in - d .. d
    BY <2>1
  <2> QED  BY <2>2, <2>3
<1>6. ASSUME NEW n \in 0 .. Len(c)
      PROVE  \E k \in 0 .. Len(f) : C(n) - F(k) \in - d .. d
  <2>1. CASE n = Len(c)
    <3>1. Len(f) \in 0 .. Len(f)
      BY <1>2
    <3> QED  BY <1>5, <2>1, <3>1
  <2>2. CASE n # Len(c)
    <3>1. n \in 0 .. Len(a) /\ C(n) = A(n)
      BY <1>1, <2>2
    <3>2. PICK k \in 0 .. Len(b) : A(n) - B(k) \in - d .. d
      BY <1>3, <3>1
    <3>3. k \in 0 .. Len(f) /\ F(k) = B(k)
      BY <1>2
    <3> QED  BY <3>1, <3>2, <3>3
  <2> QED  BY <2>1, <2>2
<1> QED  BY <1>5, <1>6 DEF NearTo, C, F

(* ... is made and not stored ...                                          *)
LEMMA NearLost ==
  ASSUME NEW a, NEW b, NEW d \in Nat, NEW f, NEW e, NEW open, NEW close,
         Len(a) \in Nat, OneMore(f, b, e, open, close), NearTo(a, b, d, open, close)
  PROVE  NearTo(a, f, d + 1, open, close)
<1> DEFINE A(n) == Lead(a, open, close, n)
           B(k) == Lead(b, open, close, k)
           F(k) == Lead(f, open, close, k)
<1>1. /\ Len(f) = Len(b) + 1 /\ Len(b) \in Nat /\ \A k \in 0 .. Len(b) : F(k) = B(k)
      /\ F(Len(b) + 1) = B(Len(b)) + Adds(e, open, close) /\ Adds(e, open, close) \in -1 .. 1
  BY DEF OneMore
<1>2. /\ \A n \in 0 .. Len(a) : \E k \in 0 .. Len(b) : A(n) - B(k) \in - d .. d
      /\ A(Len(a)) - B(Len(b)) \in - d .. d
  BY DEF NearTo
<1>3. \A n \in Nat : A(n) \in Int /\ B(n) \in Int
  BY LeadType
<1> HIDE DEF A, B, F
<1>4. A(Len(a)) - F(Len(f)) \in - (d + 1) .. d + 1
  <2> DEFINE x == A(Len(a))
             y == B(Len(b))
             z == Adds(e, open, close)
  <2>1. x \in Int /\ y \in Int /\ x - y \in - d .. d /\ z \in -1 .. 1
    BY <1>1, <1>2, <1>3
  <2>2. F(Len(f)) = y + z
    BY <1>1
  <2> HIDE DEF x, y, z
  <2>3. x - (y + z) \in - (d + 1) .. d + 1
    BY <2>1
  <2> QED  BY <2>2, <2>3 DEF x
<1>5. ASSUME NEW n \in 0 .. Len(a)
      PROVE  \E k \in 0 .. Len(f) : A(n) - F(k) \in - (d + 1) .. d + 1
  <2>1. PICK k \in 0 .. Len(b) : A(n) - B(k) \in - d .. d
    BY <1>2
  <2>2. k \in 0 .. Len(f) /\ F(k) = B(k)
    BY <1>1
  <2>3. A(n) \in Int /\ B(k) \in Int
    BY <1>1, <1>3
  <2>4. A(n) - F(k) \in - (d + 1) .. d + 1
    BY <2>1, <2>2, <2>3
  <2> QED  BY <2>2, <2>4
<1> QED  BY <1>4, <1>5 DEF NearTo, A, F

(* ... or stored once more.                                                *)
LEMMA NearLate ==
  ASSUME NEW a, NEW b, NEW d \in Nat, NEW c, NEW e, NEW open, NEW close,
         Len(b) \in Nat, OneMore(c, a, e, open, close), NearTo(a, b, d, open, close)
  PROVE  NearTo(c, b, d + 1, open, close)
<1> DEFINE A(n) == Lead(a, open, close, n)
           B(k) == Lead(b, open, close, k)
           C(n) == Lead(c, open, close, n)
<1>1. /\ Len(c) = Len(a) + 1 /\ Len(a) \in Nat /\ \A n \in 0 .. Len(a) : C(n) = A(n)
      /\ C(Len(a) + 1) = A(Len(a)) + Adds(e, open, close) /\ Adds(e, open, close) \in -1 .. 1
  BY DEF OneMore
<1>2. /\ \A n \in 0 .. Len(a) : \E k \in 0 .. Len(b) : A(n) - B(k) \in - d .. d
      /\ A(Len(a)) - B(Len(b)) \in - d .. d
  BY DEF NearTo
<1>3. \A n \in Nat : A(n) \in Int /\ B(n) \in Int
  BY LeadType
<1> HIDE DEF A, B, C
<1>4. C(Len(c)) - B(Len(b)) \in - (d + 1) .. d + 1
  <2> DEFINE x == A(Len(a))
             y == B(Len(b))
             z == Adds(e, open, close)
  <2>1. x \in Int /\ y \in Int /\ x - y \in - d .. d /\ z \in -1 .. 1
    BY <1>1, <1>2, <1>3
  <2>2. C(Len(c)) = x + z
    BY <1>1
  <2> HIDE DEF x, y, z
  <2>3. (x + z) - y \in - (d + 1) .. d + 1
    BY <2>1
  <2> QED  BY <2>2, <2>3 DEF y
<1>5. ASSUME NEW n \in 0 .. Len(c)
      PROVE  \E k \in 0 .. Len(b) : C(n) - B(k) \in - (d + 1) .. d + 1
  <2>1. CASE n = Len(c)
    <3>1. Len(b) \in 0 .. Len(b)
      OBVIOUS
    <3> QED  BY <1>4, <2>1, <3>1
  <2>2. CASE n # Len(c)
    <3>1. n \in 0 .. Len(a) /\ C(n) = A(n)
      BY <1>1, <2>2
    <3>2. PICK k \in 0 .. Len(b) : A(n) - B(k) \in - d .. d
      BY <1>2, <3>1
    <3>3. A(n) \in Int /\ B(k) \in Int
      BY <1>1, <1>3, <3>1
    <3>4. C(n) - B(k) \in - (d + 1) .. d + 1
      BY <3>1, <3>2, <3>3
    <3> QED  BY <3>4
  <2> QED  BY <2>1, <2>2
<1> QED  BY <1>4, <1>5 DEF NearTo, B, C

LEMMA NearStep == TypeOK /\ TypeOK' /\ Near /\ [Next]_vars => Near'
<1> SUFFICES ASSUME TypeOK, TypeOK', Near, [Next]_vars  PROVE Near'
  OBVIOUS
<1>1. CASE UNCHANGED logVars
  BY <1>1 DEF logVars, Near
<1>2. \A e, evts : evts \in Seq(EventSet) /\ Append(evts, e) \in Seq(EventSet) => e \in EventSet
  <2> SUFFICES ASSUME NEW e, NEW evts \in Seq(EventSet), Append(evts, e) \in Seq(EventSet)
               PROVE  e \in EventSet
    OBVIOUS
  <2> DEFINE c == Append(evts, e)
  <2>1. Len(evts) \in Nat /\ Len(c) = Len(evts) + 1 /\ c[Len(evts) + 1] = e
    OBVIOUS
  <2>2. Len(evts) + 1 \in 1 .. Len(c) /\ c \in Seq(EventSet)
    BY <2>1
  <2> HIDE DEF c
  <2>3. c[Len(evts) + 1] \in EventSet
    BY <2>2
  <2> QED  BY <2>1, <2>3
<1>3. /\ log \in Seq(EventSet) /\ log' \in Seq(EventSet)
      /\ made \in Seq(EventSet) /\ made' \in Seq(EventSet)
      /\ astray \in Nat /\ Len(log) \in Nat /\ Len(made) \in Nat
  BY Constants DEF TypeOK
<1>4. ASSUME NEW e, Store(e)  PROVE Near'
  <2>1. log' = Append(log, e) /\ made' = Append(made, e) /\ astray' = astray
    BY <1>4 DEF Store
  <2>2. e \in EventSet
    BY <1>2, <1>3, <2>1
  <2>3. \A open, close \in Types :
          OneMore(log', log, e, open, close) /\ OneMore(made', made, e, open, close)
    BY <1>3, <2>1, <2>2, LeadGrows, Zenon
  <2> QED  BY <1>3, <2>1, <2>3, NearBoth DEF Near
<1>5. CASE ReportLost
  <2> DEFINE e == Head(outbox)
  <2>1. log' = log /\ made' = Append(made, e) /\ astray' = astray + 1
    BY <1>5 DEF ReportLost
  <2> HIDE DEF e
  <2>2. e \in EventSet
    BY <1>2, <1>3, <2>1
  <2>3. \A open, close \in Types : OneMore(made', made, e, open, close)
    BY <1>3, <2>1, <2>2, LeadGrows, Zenon
  <2> QED  BY <1>3, <2>1, <2>3, NearLost DEF Near
<1>6. CASE StoreLate
  <2>1. PICK e \in Attempted : log' = Append(log, e) /\ made' = made /\ astray' = astray + 1
    BY <1>6 DEF StoreLate
  <2>2. e \in EventSet
    BY <1>2, <1>3, <2>1
  <2>3. \A open, close \in Types : OneMore(log', log, e, open, close)
    BY <1>3, <2>1, <2>2, LeadGrows, Zenon
  <2> QED  BY <1>3, <2>1, <2>3, NearLate DEF Near
<1>7. ASSUME NEW m \in Msgs, Send(m) \/ RunStep(m)  PROVE Near'
  BY <1>1, <1>4, <1>7 DEF Send, RunStep, LoadMemory, FetchEvents, PersistMemory, Forward
<1>8. CASE LoopStep
  BY <1>1, <1>4, <1>5, <1>8 DEF LoopStep, Report, BeginRound, RequestFails, Respond, Finish
<1>9. CASE UNCHANGED vars
  BY <1>1, <1>9 DEF vars
<1> QED  BY <1>6, <1>7, <1>8, <1>9 DEF Next

(* The log is never further from one that has every report once than by    *)
(* one event for each report that is missing in it or in it once too often *)
(* (reporter.go, and IngestEvents of internal_handler.go).                 *)
THEOREM LogIsNear == Spec => []Near
<1>1. TypeOK /\ TypeOK' /\ Near /\ [Next]_vars => Near'
  BY NearStep
<1> QED  BY <1>1, NearInit, TypeCorrect, PTL DEF Spec

(* The log tells each turn as a whole, whatever is sent when, and whether  *)
(* the turns end in an answer, an error or the maximum of rounds; and a    *)
(* report that is lost, repeated or late puts it out by one event only.    *)
THEOREM TurnsAreTold == Spec => []LogTellsTurns
<1>1. Inv /\ Near => LogTellsTurns
  <2> SUFFICES ASSUME Inv, Near  PROVE LogTellsTurns
    OBVIOUS
  <2>1. /\ log \in Seq(EventSet) /\ made \in Seq(EventSet) /\ outbox \in Seq(EventSet)
        /\ astray \in Nat /\ Len(log) \in Nat /\ Len(made) \in Nat
        /\ MarksOf(made \o outbox, step)
        /\ step = "off" => outbox = <<>>
    BY Constants DEF Inv, TypeOK, Shape
  <2>2. ASSUME NEW open \in Types, NEW close \in Types, Alternating(made, open, close)
        PROVE  Alternates(log, open, close, astray)
    <3> SUFFICES ASSUME NEW n \in 0 .. Len(log)
                 PROVE  Lead(log, open, close, n) \in - astray .. astray + 1
      BY DEF Alternates
    <3>1. PICK k \in 0 .. Len(made) :
            Lead(log, open, close, n) - Lead(made, open, close, k) \in - astray .. astray
      BY DEF Near, NearTo
    <3>2. Lead(log, open, close, n) \in Int /\ n \in Nat
      BY <2>1, LeadType
    <3>3. Lead(made, open, close, k) \in {0, 1}
      BY <2>2 DEF Alternating, Lead
    <3> QED  BY <2>1, <3>1, <3>2, <3>3
  <2>3. ASSUME NEW open \in Types, NEW close \in Types,
               Count(made, open, Len(made)) = Count(made, close, Len(made))
        PROVE  Balanced(log, open, close, astray)
    <3>1. Lead(log, open, close, Len(log)) \in Int
      BY <2>1, LeadType
    <3>2. Lead(made, open, close, Len(made)) = 0
      <4>1. Count(made, open, Len(made)) \in Nat
        BY <2>1, CountType
      <4> QED  BY <2>3, <4>1 DEF Lead
    <3>3. Lead(log, open, close, Len(log)) - Lead(made, open, close, Len(made)) \in - astray .. astray
      BY DEF Near, NearTo
    <3> QED  BY <2>1, <3>1, <3>2, <3>3 DEF Balanced
  <2>4. /\ Alternating(made, "session.status_running", "session.status_idle")
        /\ Alternating(made, "span.model_request_start", "span.model_request_end")
    BY <2>1, AlternatingPrefix DEF MarksOf, Marked
  <2>5. ASSUME step = "off"
        PROVE  \A p \in {<<"session.status_running", "session.status_idle">>,
                         <<"span.model_request_start", "span.model_request_end">>,
                         <<"agent.tool_use", "agent.tool_result">>} :
                 Count(made, p[1], Len(made)) = Count(made, p[2], Len(made))
    <3>1. made \o outbox = made
      BY <2>1, <2>5, ConcatEmptySeq
    <3>2. \A t : Count(made, t, Len(made)) \in Nat
      BY <2>1, CountType
    <3>3. /\ Count(made, "session.status_running", Len(made))
               = Count(made, "session.status_idle", Len(made))
          /\ Count(made, "span.model_request_start", Len(made))
               = Count(made, "span.model_request_end", Len(made))
          /\ Count(made, "agent.tool_use", Len(made)) = Count(made, "agent.tool_result", Len(made))
      BY <2>1, <2>5, <3>1, <3>2 DEF MarksOf, Marked, Even
    <3> QED  BY <3>3
  <2>6. {"session.status_running", "session.status_idle", "span.model_request_start",
         "span.model_request_end", "agent.tool_use", "agent.tool_result"} \subseteq Types
    BY DEF Types
  <2>7. /\ Alternates(log, "session.status_running", "session.status_idle", astray)
        /\ Alternates(log, "span.model_request_start", "span.model_request_end", astray)
    BY <2>2, <2>4, <2>6
  <2>8. ASSUME step = "off"
        PROVE  /\ Balanced(log, "session.status_running", "session.status_idle", astray)
               /\ Balanced(log, "span.model_request_start", "span.model_request_end", astray)
               /\ Balanced(log, "agent.tool_use", "agent.tool_result", astray)
    BY <2>3, <2>5, <2>6, <2>8
  <2> QED  BY <2>7, <2>8 DEF LogTellsTurns
<1> QED  BY <1>1, Invariant, LogIsNear, PTL

-----------------------------------------------------------------------------
(* The conversation of the turn in progress: the message it was given, and *)
(* two more for each of its rounds.                                        *)
Talk ==
  step \in {"round", "request"} =>
    /\ 2 * round + 1 <= Len(messages)
    /\ Paired(ThisTurn)

(* The messages from a place on.                                           *)
LEMMA Ending ==
  ASSUME NEW ms \in Seq(MessageSet), NEW n \in 1 .. Len(ms)
  PROVE  /\ SubSeq(ms, n, Len(ms)) \in Seq(MessageSet)
         /\ Len(SubSeq(ms, n, Len(ms))) = Len(ms) - n + 1
         /\ \A k \in 1 .. Len(ms) - n + 1 : SubSeq(ms, n, Len(ms))[k] = ms[n + k - 1]
OBVIOUS

(* Whether messages are paired is a matter of their calls and results.     *)
LEMMA SameRefsPaired ==
  ASSUME NEW a \in Seq(MessageSet), NEW b \in Seq(MessageSet), Len(a) = Len(b),
         \A k \in 1 .. Len(a), t \in Types : Refs(b[k], t) = Refs(a[k], t),
         Paired(a)
  PROVE  Paired(b)
<1>1. "agent.tool_use" \in Types /\ "agent.tool_result" \in Types
  BY DEF Types
<1>2. ASSUME NEW k \in 0 .. Len(b)
      PROVE  (IF k = 0 THEN {} ELSE Refs(b[k], "agent.tool_use"))
                = (IF k = Len(b) THEN {} ELSE Refs(b[k + 1], "agent.tool_result"))
  <2>1. Len(b) \in Nat /\ k \in 0 .. Len(a)
    OBVIOUS
  <2>2. (IF k = 0 THEN {} ELSE Refs(a[k], "agent.tool_use"))
                = (IF k = Len(a) THEN {} ELSE Refs(a[k + 1], "agent.tool_result"))
    BY <2>1 DEF Paired
  <2>3. k # 0 => Refs(b[k], "agent.tool_use") = Refs(a[k], "agent.tool_use")
    BY <1>1, <2>1
  <2>4. k # Len(a) => Refs(b[k + 1], "agent.tool_result") = Refs(a[k + 1], "agent.tool_result")
    <3> SUFFICES ASSUME k # Len(a)
                 PROVE  Refs(b[k + 1], "agent.tool_result") = Refs(a[k + 1], "agent.tool_result")
      OBVIOUS
    <3>1. k + 1 \in 1 .. Len(a)
      BY <2>1
    <3> QED  BY <1>1, <3>1
  <2> QED  BY <2>2, <2>3, <2>4
<1> QED  BY <1>2 DEF Paired

LEMMA BeginTalk ==
  ASSUME TypeOK, Talk, BeginRound
  PROVE  Talk'
<1>1. messages \in Seq(MessageSet) /\ round \in Nat /\ round' = round /\ step = "round"
  BY Constants DEF TypeOK, BeginRound
<1>2. CASE messages' = messages
  BY <1>1, <1>2 DEF Talk, ThisTurn
<1>3. CASE messages' = MidTurnCompress(messages)
  <2> DEFINE c == MidTurnCompress(messages)
             n == Len(messages) - 2 * round
  <2>1. /\ c \in Seq(MessageSet) /\ Len(c) = Len(messages)
        /\ \A k \in 1 .. Len(messages), t \in Types : Refs(c[k], t) = Refs(messages[k], t)
    BY <1>1, MidTurnKeeps
  <2>2. 2 * round + 1 <= Len(messages) /\ Paired(SubSeq(messages, n, Len(messages)))
    BY <1>1 DEF Talk, ThisTurn
  <2>3. n \in 1 .. Len(messages) /\ Len(messages) \in Nat
    BY <1>1, <2>2
  <2> HIDE DEF c, n
  <2> DEFINE a == SubSeq(messages, n, Len(messages))
             b == SubSeq(c, n, Len(c))
  <2>4. /\ a \in Seq(MessageSet) /\ Len(a) = Len(messages) - n + 1
        /\ \A k \in 1 .. Len(messages) - n + 1 : a[k] = messages[n + k - 1]
    BY <1>1, <2>3, Ending
  <2>5. /\ b \in Seq(MessageSet) /\ Len(b) = Len(messages) - n + 1
        /\ \A k \in 1 .. Len(messages) - n + 1 : b[k] = c[n + k - 1]
    BY <2>1, <2>3, Ending
  <2> HIDE DEF a, b
  <2>6. ASSUME NEW k \in 1 .. Len(a), NEW t \in Types  PROVE Refs(b[k], t) = Refs(a[k], t)
    <3>1. k \in 1 .. Len(messages) - n + 1 /\ n + k - 1 \in 1 .. Len(messages)
      BY <2>3, <2>4
    <3> QED  BY <2>1, <2>4, <2>5, <3>1
  <2>7. Paired(b)
    BY <2>2, <2>4, <2>5, <2>6, SameRefsPaired DEF a
  <2>8. messages' = c /\ ThisTurn' = b
    BY <1>1, <1>3, <2>1 DEF c, b, n, ThisTurn
  <2> QED  BY <1>1, <2>1, <2>2, <2>7, <2>8 DEF Talk
<1> QED  BY <1>2, <1>3 DEF BeginRound

LEMMA ToolsTalk ==
  ASSUME TypeOK, Talk, step = "request", NEW resp \in Responses, UseTools(resp)
  PROVE  Talk'
<1> DEFINE a == Message("assistant", resp.text \o resp.calls)
           b == Message("user", ResultsOf(resp.calls))
           n == Len(messages) - 2 * round
           t == SubSeq(messages, n, Len(messages))
<1>1. messages' = messages \o <<a, b>> /\ round' = round + 1
  BY DEF UseTools
<1>2. messages \in Seq(MessageSet) /\ Len(messages) \in Nat /\ round \in Nat /\ calls \in Nat
  BY Constants, Product DEF TypeOK
<1>3. /\ a \in MessageSet /\ b \in MessageSet
      /\ Refs(a, "agent.tool_result") = {} /\ Refs(b, "agent.tool_use") = {}
      /\ Refs(a, "agent.tool_use") = Refs(b, "agent.tool_result")
  BY <1>2, ToolMessages
<1>4. 2 * round + 1 <= Len(messages) /\ Paired(t)
  BY DEF Talk, ThisTurn
<1>5. n \in 1 .. Len(messages) /\ n = Len(messages) - 2 * round
  BY <1>2, <1>4
<1> HIDE DEF a, b, n
<1>6. /\ messages' \in Seq(MessageSet) /\ Len(messages') = Len(messages) + 2
      /\ messages'[Len(messages) + 1] = a /\ messages'[Len(messages) + 2] = b
      /\ \A k \in 1 .. Len(messages) : messages'[k] = messages[k]
  BY <1>1, <1>2, <1>3
<1>7. /\ t \in Seq(MessageSet) /\ Len(t) = Len(messages) - n + 1
      /\ \A k \in 1 .. Len(messages) - n + 1 : t[k] = messages[n + k - 1]
  BY <1>2, <1>5, Ending
<1> HIDE DEF t
<1>8. Paired(t \o <<a, b>>)
  BY <1>3, <1>4, <1>7, RoundPaired
<1>9. ThisTurn' = t \o <<a, b>>
  <2> DEFINE u == SubSeq(messages', n, Len(messages'))
             v == t \o <<a, b>>
  <2>1. ThisTurn' = u
    <3>1. Len(messages') - 2 * round' = n
      BY <1>1, <1>2, <1>5, <1>6
    <3> QED  BY <3>1 DEF ThisTurn
  <2>2. n \in 1 .. Len(messages')
    BY <1>2, <1>5, <1>6
  <2>3. /\ u \in Seq(MessageSet) /\ Len(u) = Len(messages) - n + 3
        /\ \A k \in 1 .. Len(messages) - n + 3 : u[k] = messages'[n + k - 1]
    <3>1. Len(messages') - n + 1 = Len(messages) - n + 3
      BY <1>2, <1>5, <1>6
    <3> QED  BY <1>6, <2>2, <3>1, Ending
  <2>4. /\ v \in Seq(MessageSet) /\ Len(v) = Len(t) + 2
        /\ v[Len(t) + 1] = a /\ v[Len(t) + 2] = b
        /\ \A k \in 1 .. Len(t) : v[k] = t[k]
    BY <1>3, <1>7
  <2> HIDE DEF u, v
  <2>5. ASSUME NEW k \in 1 .. Len(u)  PROVE u[k] = v[k]
    <3>1. u[k] = messages'[n + k - 1] /\ k \in Nat
      BY <2>3
    <3>2. CASE k <= Len(messages) - n + 1
      <4>1. n + k - 1 \in 1 .. Len(messages) /\ k \in 1 .. Len(t)
        BY <1>2, <1>5, <1>7, <3>1, <3>2
      <4> QED  BY <1>6, <1>7, <2>4, <3>1, <3>2, <4>1
    <3>3. CASE k = Len(messages) - n + 2
      <4>1. n + k - 1 = Len(messages) + 1 /\ k = Len(t) + 1
        BY <1>2, <1>5, <1>7, <3>3
      <4> QED  BY <1>6, <2>4, <3>1, <4>1
    <3>4. CASE k = Len(messages) - n + 3
      <4>1. n + k - 1 = Len(messages) + 2 /\ k = Len(t) + 2
        BY <1>2, <1>5, <1>7, <3>4
      <4> QED  BY <1>6, <2>4, <3>1, <4>1
    <3> QED  BY <1>2, <1>5, <2>3, <3>1, <3>2, <3>3, <3>4
  <2>6. Len(u) = Len(v) /\ Len(u) \in Nat
    BY <1>2, <1>5, <1>7, <2>3, <2>4
  <2>7. u = v
    BY <2>3, <2>4, <2>5, <2>6, SeqEqual
  <2> QED  BY <2>1, <2>7 DEF v
<1>10. 2 * round' + 1 <= Len(messages')
  BY <1>1, <1>2, <1>4, <1>6
<1> QED  BY <1>8, <1>9, <1>10 DEF Talk

LEMMA ForwardTalk ==
  ASSUME TypeOK, Talk, NEW m \in Msgs, Forward(m)
  PROVE  Talk'
<1> DEFINE new == Message("user", <<Event("user.message", m)>>)
<1>1. CASE StartTurn(Append(payload[m].messages, new))
  <2>1. round' = 0 /\ messages' = Append(payload[m].messages, new)
    BY <1>1 DEF StartTurn
  <2>2. payload[m].messages \in Seq(MessageSet) /\ messages' \in Seq(MessageSet)
    BY <2>1, GivenMessages DEF TypeOK, PayloadSet
  <2>3. <<>> \in Seq(MessageSet) /\ Paired(<<>>)
    BY DEF Paired
  <2>4. Paired(Append(<<>>, new))
    BY <2>3, MessagePaired
  <2> HIDE DEF new
  <2>5. Len(messages') = Len(payload[m].messages) + 1 /\ Len(payload[m].messages) \in Nat
        /\ messages'[Len(messages')] = new
    BY <2>1, <2>2
  <2> DEFINE n == Len(messages')
             t == SubSeq(messages', n, n)
  <2>6. n \in 1 .. n /\ n - n + 1 = 1 /\ n + 1 - 1 = n
    BY <2>5
  <2>7. t \in Seq(MessageSet) /\ Len(t) = 1 /\ t[1] = messages'[n]
    BY <2>2, <2>6, Ending
  <2> HIDE DEF t
  <2>8. t = Append(<<>>, new)
    BY <2>5, <2>7
  <2>9. n - 2 * round' = n /\ 2 * round' + 1 <= n
    BY <2>1, <2>5
  <2> QED  BY <2>4, <2>8, <2>9 DEF Talk, ThisTurn, t
<1>2. CASE UNCHANGED loopVars
  BY <1>2 DEF loopVars, Talk, ThisTurn
<1> QED  BY <1>1, <1>2 DEF Forward

LEMMA TalkStep == TypeOK /\ Talk /\ [Next]_vars => Talk'
<1> SUFFICES ASSUME TypeOK, Talk, [Next]_vars  PROVE Talk'
  OBVIOUS
<1>1. CASE UNCHANGED <<step, round, messages>>
  BY <1>1 DEF Talk, ThisTurn
<1>2. CASE step' \notin {"round", "request"}
  BY <1>2 DEF Talk
<1>3. ASSUME NEW m \in Msgs, Send(m) \/ RunStep(m)  PROVE Talk'
  BY <1>1, <1>3, ForwardTalk DEF Send, RunStep, LoadMemory, FetchEvents, PersistMemory, loopVars
<1>4. CASE LoopStep
  <2>1. CASE Respond
    BY <1>2, <2>1, ToolsTalk DEF Respond, FinalAnswer
  <2> QED  BY <1>1, <1>2, <1>4, <2>1, BeginTalk
           DEF LoopStep, Report, ReportLost, RequestFails, Finish
<1>5. CASE StoreLate \/ UNCHANGED vars
  BY <1>1, <1>5 DEF StoreLate, vars, loopVars
<1> QED  BY <1>3, <1>4, <1>5 DEF Next

(* What a turn has added to its conversation is paired, whatever client it *)
(* is, whatever history it was given and whatever becomes of its reports   *)
(* (runToolRound and midTurnCompress of loop.go).                          *)
THEOREM TurnsArePaired == Spec => [](step = "request" => Paired(ThisTurn))
<1>1. Init => Talk
  BY DEF Init, LoopInit, Talk
<1>2. TypeOK /\ Talk /\ [Next]_vars => Talk'
  BY TalkStep
<1>3. Talk => (step = "request" => Paired(ThisTurn))
  BY DEF Talk
<1> QED  BY <1>1, <1>2, <1>3, TypeCorrect, PTL DEF Spec

-----------------------------------------------------------------------------
(* A polite client's conversations.  As long as every report is stored     *)
(* once, no turn is in progress and nothing waits to be reported while one *)
(* of its messages is on its way, so that the page a payload is built from *)
(* holds whole rounds only: each call is answered in it, and so it is in   *)
(* the messages made of it and of what the turn adds to them, whatever     *)
(* becomes of later reports.                                               *)
InFlight(m) == run[m] \notin {"new", "over"}

Quiet ==
  /\ \A m \in Msgs : InFlight(m) =>
       /\ step \in {"off", "end"} /\ outbox = <<>>
       /\ \A k \in Msgs : InFlight(k) => k = m
  /\ PairedEvents(log \o outbox)

Pairs ==
  /\ astray = 0 => Quiet
  /\ \A m \in Msgs : payload[m].whole => Paired(payload[m].messages)
  /\ whole /\ step \in {"round", "request"} => Paired(messages)

(* The log after one more event that is no call and no result.             *)
LEMMA PairedStore ==
  ASSUME NEW evts \in Seq(EventSet), PairedEvents(evts),
         NEW e \in EventSet, e.type \notin {"agent.tool_use", "agent.tool_result"}
  PROVE  PairedEvents(evts \o <<e>>)
<1>1. <<e>> \in Seq(EventSet) /\ PairedEvents(<<e>>)
  BY OneEvent, OnePlain, PairedPlain
<1> QED  BY <1>1, PairedJoin

LEMMA NothingAfter ==
  ASSUME TypeOK
  PROVE  log \in Seq(EventSet) /\ (outbox = <<>> => log \o outbox = log)
BY ConcatEmptySeq DEF TypeOK

LEMMA PairsInit == Init => Pairs
<1> SUFFICES ASSUME Init  PROVE Pairs
  OBVIOUS
<1>1. log \o outbox = <<>>
  BY DEF Init, LoopInit
<1>2. PairedEvents(<<>>)
  BY DEF PairedEvents
<1>3. Quiet
  BY <1>1, <1>2 DEF Init, Quiet, InFlight
<1> QED  BY <1>3 DEF Init, LoopInit, NoPayload, Pairs

LEMMA SendPairs ==
  ASSUME Polite, Inv, Pairs, NEW m \in Msgs, Send(m)
  PROVE  Pairs'
<1>1. /\ TypeOK /\ Shape /\ MarksOf(made \o outbox, step) /\ Store(Event("user.message", m))
      /\ run' = [run EXCEPT ![m] = "load"] /\ astray' = astray
      /\ UNCHANGED <<step, messages, outbox, payload, whole>>
  BY DEF Inv, Send, Store, loopVars
<1>2. ASSUME astray = 0  PROVE Quiet'
  <2>1. Settled
    BY <1>2 DEF Send, Misled
  <2>2. step \in {"off", "end"} /\ outbox = <<>> /\ \A k \in Msgs : ~InFlight(k)
    BY <2>1 DEF Settled, InFlight
  <2>3. \A k \in Msgs : InFlight(k)' => k = m
    <3>1. \A k \in Msgs : k # m => run'[k] = run[k]
      BY <1>1 DEF TypeOK
    <3> QED  BY <2>2, <3>1 DEF InFlight
  <2>4. m \in Nat
    BY Constants DEF Msgs
  <2>5. log' = log \o <<Event("user.message", m)>> /\ log' \in Seq(EventSet)
    BY <1>1, <2>4, StoreKeeps
  <2>6. Event("user.message", m) \in EventSet /\ Event("user.message", m).type = "user.message"
    BY <2>4, EventType DEF Types
  <2>7. PairedEvents(log) /\ log \in Seq(EventSet)
    BY <1>1, <1>2, <2>2, NothingAfter DEF Pairs, Quiet
  <2>8. PairedEvents(log')
    BY <2>5, <2>6, <2>7, PairedStore
  <2>9. log' \o outbox' = log'
    BY <1>1, <2>2, <2>5, ConcatEmptySeq
  <2> QED  BY <1>1, <2>2, <2>3, <2>8, <2>9 DEF Quiet
<1> QED  BY <1>1, <1>2 DEF Pairs

(* A call of Run that goes on.                                             *)
LEMMA GoesOnQuiet ==
  ASSUME TypeOK, Quiet, NEW m \in Msgs, InFlight(m), NEW v, run' = [run EXCEPT ![m] = v],
         UNCHANGED <<log, step, outbox>>
  PROVE  Quiet'
<1>1. \A k \in Msgs : InFlight(k)' => InFlight(k)
  <2>1. \A k \in Msgs : k # m => run'[k] = run[k]
    BY DEF TypeOK
  <2> QED  BY <2>1 DEF InFlight
<1> QED  BY <1>1 DEF Quiet

LEMMA LoadPairs ==
  ASSUME Inv, Pairs, NEW m \in Msgs, LoadMemory(m)
  PROVE  Pairs'
<1>1. /\ TypeOK /\ run[m] = "load" /\ run' = [run EXCEPT ![m] = "fetch"]
      /\ payload' = [payload EXCEPT ![m].memory = memory]
      /\ UNCHANGED <<log, astray, step, messages, outbox, whole>>
  BY DEF Inv, LoadMemory, loopVars, logVars
<1>2. astray' = 0 => Quiet'
  BY <1>1, GoesOnQuiet DEF Pairs, InFlight
<1>3. \A k \in Msgs : payload'[k].whole = payload[k].whole /\ payload'[k].messages = payload[k].messages
  BY <1>1 DEF TypeOK, PayloadSet
<1> QED  BY <1>1, <1>2, <1>3 DEF Pairs

LEMMA PersistPairs ==
  ASSUME Inv, Pairs, NEW m \in Msgs, PersistMemory(m)
  PROVE  Pairs'
<1>1. /\ TypeOK /\ run[m] = "persist" /\ run' = [run EXCEPT ![m] = "forward"]
      /\ UNCHANGED <<log, astray, step, messages, outbox, payload, whole>>
  BY DEF Inv, PersistMemory, loopVars, logVars
<1>2. astray' = 0 => Quiet'
  BY <1>1, GoesOnQuiet DEF Pairs, InFlight
<1> QED  BY <1>1, <1>2 DEF Pairs

LEMMA FetchPairs ==
  ASSUME Inv, Pairs, NEW m \in Msgs, FetchEvents(m)
  PROVE  Pairs'
<1>1. /\ TypeOK /\ run[m] = "fetch"
      /\ UNCHANGED <<log, astray, step, messages, outbox, whole>>
  BY DEF Inv, FetchEvents, loopVars, logVars
<1>2. PICK weight \in Weights :
        LET res == Compress(ListBySession(log), payload[m].memory, weight) IN
        /\ payload' = [payload EXCEPT ![m] =
                         [messages |-> EventsToMessages(res.events),
                          memory   |-> res.memory,
                          whole    |-> res.tier < 3 /\ Len(log) <= Limit /\ astray = 0]]
        /\ run' = [run EXCEPT ![m] = IF res.tier >= 2 THEN "persist" ELSE "forward"]
  BY DEF FetchEvents
<1> DEFINE res == Compress(ListBySession(log), payload[m].memory, weight)
           new == [messages |-> EventsToMessages(res.events),
                   memory   |-> res.memory,
                   whole    |-> res.tier < 3 /\ Len(log) <= Limit /\ astray = 0]
<1>3. InFlight(m)
  BY <1>1 DEF InFlight
<1>4. astray' = 0 => Quiet'
  BY <1>1, <1>2, <1>3, GoesOnQuiet DEF Pairs
<1>5. log \in Seq(EventSet) /\ payload[m].memory \in MemorySet
  BY <1>1 DEF TypeOK, PayloadSet
<1>6. ASSUME new.whole  PROVE Paired(new.messages)
  <2>1. res.tier < 3 /\ ListBySession(log) = log /\ astray = 0
    BY <1>5, <1>6, FirstPage
  <2>2. PairedEvents(log)
    BY <1>1, <1>3, <2>1, NothingAfter DEF Pairs, Quiet
  <2>3. res.events = ThinEvents(log, KeepResults)
    BY <1>5, <2>1, CompressType
  <2>4. SameEvents(log, ThinEvents(log, KeepResults))
    BY <1>5, ThinKeeps
  <2>5. PairedEvents(res.events) /\ res.events \in Seq(EventSet)
    BY <1>5, <2>2, <2>3, <2>4, SamePaired DEF SameEvents
  <2> HIDE DEF res
  <2>6. Paired(EventsToMessages(res.events))
    BY <2>5, HistoryPaired
  <2> QED  BY <2>6
<1>7. payload' = [payload EXCEPT ![m] = new]
  BY <1>2
<1> HIDE DEF new
<1>8. \A k \in Msgs : payload'[k].whole => Paired(payload'[k].messages)
  <2> SUFFICES ASSUME NEW k \in Msgs, payload'[k].whole  PROVE Paired(payload'[k].messages)
    OBVIOUS
  <2>1. CASE k = m
    <3>1. payload'[k] = new
      BY <1>1, <1>7, <2>1 DEF TypeOK
    <3> QED  BY <1>6, <3>1
  <2>2. CASE k # m
    <3>1. payload'[k] = payload[k]
      BY <1>1, <1>7, <2>2 DEF TypeOK
    <3> QED  BY <3>1 DEF Pairs
  <2> QED  BY <2>1, <2>2
<1> QED  BY <1>1, <1>4, <1>8 DEF Pairs

LEMMA ForwardPairs ==
  ASSUME Inv, Pairs, NEW m \in Msgs, Forward(m)
  PROVE  Pairs'
<1>1. /\ TypeOK /\ Shape /\ MarksOf(made \o outbox, step)
      /\ run[m] = "forward" /\ run' = [run EXCEPT ![m] = "over"]
      /\ payload' = [payload EXCEPT ![m] = NoPayload]
  BY DEF Inv, Forward
<1>2. \A k \in Msgs : payload'[k].whole => Paired(payload'[k].messages)
  <2> SUFFICES ASSUME NEW k \in Msgs, payload'[k].whole  PROVE Paired(payload'[k].messages)
    OBVIOUS
  <2>1. k # m /\ payload'[k] = payload[k]
    BY <1>1 DEF TypeOK, NoPayload
  <2> QED  BY <2>1 DEF Pairs
<1>3. ASSUME Quiet
      PROVE  /\ outbox = <<>> /\ step \in {"off", "end"}
             /\ \A k \in Msgs : ~InFlight(k)'
             /\ PairedEvents(log) /\ log \in Seq(EventSet)
  <2>1. InFlight(m)
    BY <1>1 DEF InFlight
  <2>2. outbox = <<>> /\ step \in {"off", "end"} /\ \A k \in Msgs : InFlight(k) => k = m
    BY <1>3, <2>1 DEF Quiet
  <2>3. \A k \in Msgs : ~InFlight(k)'
    BY <1>1, <2>2 DEF TypeOK, InFlight
  <2>4. PairedEvents(log) /\ log \in Seq(EventSet)
    BY <1>1, <1>3, <2>2, NothingAfter DEF Quiet
  <2> QED  BY <2>2, <2>3, <2>4
<1>4. CASE /\ StartTurn(Append(payload[m].messages,
                                Message("user", <<Event("user.message", m)>>)))
           /\ whole' = payload[m].whole
           /\ UNCHANGED logVars
  <2>1. /\ step' = "round" /\ log' = log /\ astray' = astray
        /\ messages' = Append(payload[m].messages, Message("user", <<Event("user.message", m)>>))
        /\ outbox' = <<Event("session.status_running", 0)>> /\ whole' = payload[m].whole
    BY <1>4 DEF StartTurn, logVars
  <2>2. Event("session.status_running", 0) \in EventSet
        /\ Event("session.status_running", 0).type = "session.status_running"
    BY EventType DEF Types
  <2>3. ASSUME Quiet  PROVE Quiet'
    <3>1. PairedEvents(log \o outbox')
      BY <1>3, <2>1, <2>2, <2>3, PairedStore
    <3> QED  BY <1>3, <2>1, <2>3, <3>1 DEF Quiet
  <2>4. payload[m].messages \in Seq(MessageSet)
    BY <1>1 DEF TypeOK, PayloadSet
  <2>5. whole' => Paired(messages')
    BY <2>1, <2>4, MessagePaired DEF Pairs
  <2> QED  BY <1>2, <2>1, <2>3, <2>5 DEF Pairs
<1>5. CASE /\ step # "off"
           /\ Store(Event("runtime.error", m))
           /\ UNCHANGED <<loopVars, whole>>
  <2>1. UNCHANGED <<step, messages, outbox, whole>>
    BY <1>5 DEF loopVars
  <2>2. m \in Nat
    BY Constants DEF Msgs
  <2>3. log' = log \o <<Event("runtime.error", m)>> /\ log' \in Seq(EventSet) /\ astray' = astray
    BY <1>1, <1>5, <2>2, StoreKeeps
  <2>4. Event("runtime.error", m) \in EventSet /\ Event("runtime.error", m).type = "runtime.error"
    BY <2>2, EventType DEF Types
  <2>5. ASSUME Quiet  PROVE Quiet'
    <3>1. PairedEvents(log')
      BY <1>3, <2>3, <2>4, <2>5, PairedStore
    <3>2. log' \o outbox' = log'
      BY <1>3, <2>1, <2>3, <2>5, ConcatEmptySeq
    <3> QED  BY <1>3, <2>5, <3>1, <3>2 DEF Quiet
  <2> QED  BY <1>2, <2>1, <2>3, <2>5 DEF Pairs
<1> QED  BY <1>4, <1>5 DEF Forward

(* While the loop is at work no message is on its way.                     *)
LEMMA BatchPairs ==
  ASSUME Inv, Pairs, outbox = <<>>, step \in {"round", "request"},
         UNCHANGED <<log, made, astray>>, UNCHANGED clientVars,
         outbox' \in Seq(EventSet), PairedEvents(outbox'),
         whole /\ step' \in {"round", "request"} => Paired(messages')
  PROVE  Pairs'
<1>1. TypeOK /\ UNCHANGED <<run, payload, whole>>
  BY DEF Inv, clientVars
<1>2. ASSUME Quiet  PROVE Quiet'
  <2>1. \A k \in Msgs : ~InFlight(k)'
    BY <1>1, <1>2 DEF Quiet, InFlight
  <2>2. PairedEvents(log \o outbox')
    BY <1>1, <1>2, NothingAfter, PairedJoin DEF Quiet
  <2> QED  BY <2>1, <2>2 DEF Quiet
<1> QED  BY <1>1, <1>2 DEF Pairs

LEMMA ReportPairs ==
  ASSUME Inv, Pairs, Report, UNCHANGED clientVars
  PROVE  Pairs'
<1>1. /\ TypeOK /\ Shape /\ outbox # <<>> /\ log \in Seq(EventSet)
      /\ log' = Append(log, Head(outbox)) /\ outbox' = Tail(outbox) /\ astray' = astray
      /\ UNCHANGED <<step, messages, run, payload, whole>>
  BY DEF Inv, TypeOK, Report, Store, clientVars
<1>2. log' \o outbox' = log \o outbox
  BY <1>1, FirstReport
<1>3. ASSUME Quiet  PROVE Quiet'
  <2>1. \A k \in Msgs : ~InFlight(k)'
    BY <1>1, <1>3 DEF Quiet, InFlight
  <2> QED  BY <1>2, <1>3, <2>1 DEF Quiet
<1> QED  BY <1>1, <1>3 DEF Pairs

(* When a report goes astray, only what was built before is of interest.   *)
LEMMA AstrayPairs ==
  ASSUME Inv, Pairs, ReportLost \/ StoreLate, UNCHANGED clientVars
  PROVE  Pairs'
<1>1. astray' # 0 /\ UNCHANGED <<step, messages, payload, whole>>
  BY Constants DEF Inv, TypeOK, ReportLost, StoreLate, loopVars, clientVars
<1> QED  BY <1>1 DEF Pairs

LEMMA BeginPairs ==
  ASSUME Inv, Pairs, BeginRound, UNCHANGED clientVars
  PROVE  Pairs'
<1>1. /\ step = "round" /\ outbox = <<>> /\ UNCHANGED <<log, made, astray>>
      /\ messages \in Seq(MessageSet)
  BY DEF Inv, TypeOK, BeginRound, logVars
<1>2. \/ /\ messages' \in {messages, MidTurnCompress(messages)}
         /\ outbox' = <<Event("span.model_request_start", 0)>>
      \/ /\ messages' = messages
         /\ outbox' = <<Event("session.status_idle", 0)>>
  BY DEF BeginRound
<1>3. whole => Paired(messages')
  BY <1>1, <1>2, MidTurnPaired DEF Pairs
<1>4. outbox' \in Seq(EventSet) /\ PairedEvents(outbox')
  <2>1. \A t \in {"span.model_request_start", "session.status_idle"} :
          Event(t, 0) \in EventSet /\ Event(t, 0).type = t
    BY EventType DEF Types
  <2>2. PICK t \in {"span.model_request_start", "session.status_idle"} : outbox' = <<Event(t, 0)>>
    BY <1>2
  <2>3. Event(t, 0) \in EventSet
        /\ Event(t, 0).type \notin {"agent.tool_use", "agent.tool_result"}
    BY <2>1
  <2> QED  BY <2>2, <2>3, OneEvent, OnePlain, PairedPlain
<1> QED  BY <1>1, <1>3, <1>4, BatchPairs

LEMMA FailsPairs ==
  ASSUME Inv, Pairs, RequestFails, UNCHANGED clientVars
  PROVE  Pairs'
<1>1. /\ step = "request" /\ outbox = <<>> /\ step' = "end" /\ UNCHANGED <<log, made, astray>>
      /\ outbox' = <<Event("span.model_request_end", 0), Event("session.error", 0),
                     Event("session.status_idle", 0)>>
  BY DEF RequestFails, logVars
<1>2. \A t \in {"span.model_request_end", "session.error", "session.status_idle"} :
        Event(t, 0) \in EventSet /\ Event(t, 0).type = t
  BY EventType DEF Types
<1>3. outbox' \in Seq(EventSet) /\ NoCalls(outbox')
  BY <1>1, <1>2 DEF NoCalls, Plain
<1>4. PairedEvents(outbox')
  BY <1>3, PairedPlain DEF NoCalls
<1> QED  BY <1>1, <1>3, <1>4, BatchPairs

LEMMA FinalPairs ==
  ASSUME Inv, Pairs, step = "request", outbox = <<>>, NEW resp \in Responses, FinalAnswer(resp),
         UNCHANGED <<log, made, astray>>, UNCHANGED clientVars
  PROVE  Pairs'
<1>1. /\ step' = "end"
      /\ outbox' = (<<Event("span.model_request_end", 0)>> \o resp.text)
                     \o <<Event("session.status_idle", 0)>>
  BY DEF FinalAnswer
<1>2. made \in Seq(EventSet) /\ calls \in Nat
  BY Constants, Product DEF Inv, TypeOK
<1>3. resp.text \in Seq(EventSet) /\ Inner(resp.text) /\ NoCalls(resp.text)
      /\ \A i \in DOMAIN resp.text : ~resp.text[i].cleared
  BY <1>2, ResponseType
<1>4. MarksOf(made, "request")
  BY OpenRequest
<1>5. outbox' \in Seq(EventSet) /\ NoCalls(outbox')
  BY <1>1, <1>2, <1>3, <1>4, LastReports
<1>6. PairedEvents(outbox')
  BY <1>5, PairedPlain DEF NoCalls
<1> QED  BY <1>1, <1>5, <1>6, BatchPairs

LEMMA ToolsPairs ==
  ASSUME Inv, Pairs, step = "request", outbox = <<>>, NEW resp \in Responses, UseTools(resp),
         UNCHANGED <<log, made, astray>>, UNCHANGED clientVars
  PROVE  Pairs'
<1> DEFINE a == Message("assistant", resp.text \o resp.calls)
           b == Message("user", ResultsOf(resp.calls))
<1>1. /\ messages' = messages \o <<a, b>>
      /\ outbox' = ((<<Event("span.model_request_end", 0)>> \o resp.text) \o resp.calls)
                     \o ResultsOf(resp.calls)
  BY DEF UseTools
<1>2. made \in Seq(EventSet) /\ messages \in Seq(MessageSet) /\ calls \in Nat
  BY Constants, Product DEF Inv, TypeOK
<1>3. MarksOf(made, "request")
  BY OpenRequest
<1>4. outbox' \in Seq(EventSet) /\ PairedEvents(outbox')
  BY <1>1, <1>2, <1>3, ToolReports
<1>5. /\ a \in MessageSet /\ b \in MessageSet
      /\ Refs(a, "agent.tool_result") = {} /\ Refs(b, "agent.tool_use") = {}
      /\ Refs(a, "agent.tool_use") = Refs(b, "agent.tool_result")
  BY <1>2, ToolMessages
<1> HIDE DEF a, b
<1>6. whole => Paired(messages')
  BY <1>1, <1>2, <1>5, RoundPaired DEF Pairs
<1> QED  BY <1>4, <1>6, BatchPairs

LEMMA FinishPairs ==
  ASSUME Inv, Pairs, Finish, UNCHANGED clientVars
  PROVE  Pairs'
<1>1. /\ step = "end" /\ step' = "off"
      /\ UNCHANGED <<log, astray, outbox, run, payload, whole>>
  BY DEF Finish, clientVars, logVars
<1>2. Quiet => Quiet'
  BY <1>1 DEF Quiet, InFlight
<1> QED  BY <1>1, <1>2 DEF Pairs

LEMMA PairsStep ==
  ASSUME Polite
  PROVE  Inv /\ Pairs /\ [Next]_vars => Pairs'
<1> SUFFICES ASSUME Inv, Pairs, [Next]_vars  PROVE Pairs'
  OBVIOUS
<1>1. ASSUME NEW m \in Msgs, Send(m)  PROVE Pairs'
  BY <1>1, SendPairs
<1>2. ASSUME NEW m \in Msgs, RunStep(m)  PROVE Pairs'
  BY <1>2, LoadPairs, FetchPairs, PersistPairs, ForwardPairs DEF RunStep
<1>3. ASSUME LoopStep, UNCHANGED clientVars  PROVE Pairs'
  <2>1. CASE Respond
    BY <1>3, <2>1, FinalPairs, ToolsPairs DEF Respond, logVars
  <2> QED  BY <1>3, <2>1, ReportPairs, AstrayPairs, BeginPairs, FailsPairs, FinishPairs DEF LoopStep
<1>4. ASSUME StoreLate, UNCHANGED clientVars  PROVE Pairs'
  BY <1>4, AstrayPairs
<1>5. CASE UNCHANGED vars
  BY <1>5 DEF vars, logVars, loopVars, clientVars, Pairs, Quiet, InFlight
<1> QED  BY <1>1, <1>2, <1>3, <1>4, <1>5 DEF Next

(* What a polite client's turns put to the model is a conversation the     *)
(* Messages API accepts, each tool call answered by the next message, if   *)
(* the turn was given a whole history: not compacted, of one page, and     *)
(* with every report in it once.  What the turn has added is paired in any *)
(* case (buildForwardPayload, EventsToMessages and midTurnCompress         *)
(* together).                                                              *)
THEOREM RequestsArePaired ==
  ASSUME Polite
  PROVE  Spec => []WellPaired
<1>1. Init => Pairs
  BY PairsInit
<1>2. Inv /\ Pairs /\ [Next]_vars => Pairs'
  BY PairsStep
<1>3. Pairs /\ (step = "request" => Paired(ThisTurn)) => WellPaired
  BY DEF Pairs, WellPaired
<1> QED  BY <1>1, <1>2, <1>3, Invariant, TurnsArePaired, PTL DEF Spec

(* Building a payload forgets nothing of a log that fits into a page.      *)
LEMMA FetchTells ==
  ASSUME TypeOK, NEW m \in Msgs, FetchEvents(m), Len(log) <= Limit
  PROVE  Said(log) \subseteq Told(payload'[m])
<1>1. PICK weight \in Weights :
        LET res == Compress(ListBySession(log), payload[m].memory, weight) IN
        payload' = [payload EXCEPT ![m] =
                         [messages |-> EventsToMessages(res.events),
                          memory   |-> res.memory,
                          whole    |-> res.tier < 3 /\ Len(log) <= Limit /\ astray = 0]]
  BY DEF FetchEvents
<1> DEFINE res == Compress(log, payload[m].memory, weight)
           ms  == EventsToMessages(res.events)
<1>2. log \in Seq(EventSet) /\ payload[m].memory \in MemorySet /\ payload \in [Msgs -> PayloadSet]
  BY DEF TypeOK, PayloadSet
<1>3. ListBySession(log) = log
  BY <1>2, FirstPage
<1>4. Said(log) \subseteq res.memory.covers \cup UNION {ToSet(ms[k].content) : k \in DOMAIN ms}
  BY <1>2, CompressForgetsNothing
<1>5. payload' = [payload EXCEPT ![m] = [messages |-> ms, memory |-> res.memory,
                                         whole    |-> res.tier < 3 /\ Len(log) <= Limit /\ astray = 0]]
  BY <1>1, <1>3
<1> HIDE DEF res, ms
<1>6. payload'[m].memory = res.memory /\ payload'[m].messages = ms
  BY <1>2, <1>5
<1> QED  BY <1>4, <1>6 DEF Told

(* Nothing said is forgotten, at whatever tier the history is compressed   *)
(* and whatever the memory was before (Compressor.Compress).               *)
THEOREM NothingIsForgotten == Spec => NothingForgotten
<1> DEFINE A == \A m \in Msgs :
                  (run[m] = "fetch" /\ run'[m] # "fetch" /\ Len(log) <= Limit)
                    => Said(log) \subseteq Told(payload'[m])
<1>1. Inv /\ [Next]_vars => [A]_vars
  <2> SUFFICES ASSUME TypeOK, Next, NEW m \in Msgs, run[m] = "fetch", run'[m] # "fetch",
                      Len(log) <= Limit
               PROVE  Said(log) \subseteq Told(payload'[m])
    BY DEF Inv
  <2>1. FetchEvents(m)
    <3>1. ASSUME NEW k \in Msgs, Send(k)  PROVE FALSE
      BY <3>1 DEF Send, TypeOK
    <3>2. ASSUME NEW k \in Msgs, RunStep(k)  PROVE FetchEvents(m)
      <4>1. k = m
        BY <3>2 DEF RunStep, LoadMemory, FetchEvents, PersistMemory, Forward, TypeOK
      <4>2. ~LoadMemory(m) /\ ~PersistMemory(m) /\ ~Forward(m)
        BY DEF LoadMemory, PersistMemory, Forward
      <4> QED  BY <3>2, <4>1, <4>2 DEF RunStep
    <3>3. CASE UNCHANGED clientVars
      BY <3>3 DEF clientVars
    <3> QED  BY <3>1, <3>2, <3>3 DEF Next
  <2> QED  BY <2>1, FetchTells
<1> QED  BY <1>1, Invariant, PTL DEF Spec, NothingForgotten
=============================================================================
