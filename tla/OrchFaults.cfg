SPECIFICATION Spec
CONSTANTS
  s1 = s1
  s2 = s2
  m1 = m1
  m2 = m2
  m3 = m3
  NoRun = NoRun
  Sessions = {s1}
  Runs = {m1, m2}
  SessionOf <- OneSession
  Faults = {"container_exit", "engine_error", "engine_timeout", "forward_timeout",
            "report_lost", "heartbeat_lost", "server_crash"}
  Polite = FALSE
CHECK_DEADLOCK FALSE
SYMMETRY Symmetric
INVARIANTS TypeOK ExclusiveTurns IInv
PROPERTIES RegisterReplacesNothing TurnsSpec
