--------------------------- MODULE MCOrchestrator ---------------------------
EXTENDS Orchestrator, TLC
CONSTANTS s1, s2, m1, m2, m3
OneSession == [r \in Runs |-> s1]
TwoSessions == [r \in Runs |-> IF r = m3 THEN s2 ELSE s1]
Symmetric == Permutations(Runs)
=============================================================================
