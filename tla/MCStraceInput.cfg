\* Calls split by strace, processes that vanish, tracing that starts late, and lines taken for others.
CONSTANTS
  p1 = p1
  p2 = p2
  p3 = p3
  Pids = {p1, p2}
  MaxCalls = 4
  Attach = TRUE
  Kills = TRUE
  ReusePids = FALSE
  Words = TRUE
  Spaced = FALSE
  NoLine = NoLine
  Idle = Idle
  Gone = Gone
SPECIFICATION Spec
INVARIANTS TypeOK ListIsDone NoMixedCall NothingStale
CHECK_DEADLOCK FALSE
