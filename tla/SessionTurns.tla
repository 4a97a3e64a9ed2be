---------------------------- MODULE SessionTurns ----------------------------
(***************************************************************************)
(* What the control plane promises about the messages of a session, with   *)
(* no container, lock or status in sight: a message is executed at most    *)
(* once, a session executes at most one message at a time, and a message   *)
(* that is over (executed, refused or lost) stays over.                    *)
(***************************************************************************)
CONSTANTS Sessions, Runs, SessionOf

VARIABLE fate    \* fate[r]: what has become of message r

Fates == {"waiting", "executing", "over"}

Init == fate = [r \in Runs |-> "waiting"]

(* A message's turn begins: no other message of the session is executing.  *)
Begin(r) ==
  /\ fate[r] = "waiting"
  /\ \A q \in Runs : SessionOf[q] = SessionOf[r] => fate[q] # "executing"
  /\ fate' = [fate EXCEPT ![r] = "executing"]

(* Messages end together when the process that served them does.           *)
Conclude(S) ==
  /\ \A r \in S : fate[r] # "over"
  /\ fate' = [r \in Runs |-> IF r \in S THEN "over" ELSE fate[r]]

Next ==
  \/ \E r \in Runs : Begin(r)
  \/ \E S \in SUBSET Runs : Conclude(S)

Spec == Init /\ [][Next]_fate
=============================================================================
