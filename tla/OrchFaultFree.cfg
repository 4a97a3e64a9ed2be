SPECIFICATION FairSpec
CONSTANTS
  s1 = s1
  s2 = s2
  m1 = m1
  m2 = m2
  m3 = m3
  NoRun = NoRun
  Sessions = {s1}
  Runs = {m1, m2, m3}
  SessionOf <- OneSession
  Faults = {}
  Polite = FALSE
CHECK_DEADLOCK FALSE
INVARIANTS RunningIsTrue
PROPERTIES EveryMessageAnswered
