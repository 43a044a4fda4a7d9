\* A trace of overlap-free calls recorded from the start, with processes that end and pipes.
CONSTANTS
  p1 = p1
  p2 = p2
  p3 = p3
  Pids = {p1, p2}
  Root = p1
  Fds = {5, 6}
  RealFds = {7, 8, 9, 10}
  MaxGens = 3
  MaxParents = 3
  Absent = Absent
  Null = Null
  Nil = Nil
  Virtual = Virtual
  Closed = Closed
  Files = {"a", "b"}
  Ignored = "ignored"
  Unknown = "unknown"
  Failed = Failed
  FixMissing = TRUE
  MinusOne = FALSE
  DupSelf = FALSE
  OpenMayFail = FALSE
  CloseMayFail = FALSE
  Ops = {"open", "close", "dup", "thread", "fork", "socket", "read","pipe"}
  MaxUsage = 3
  Idle = Idle
  Unborn = Unborn
  Dead = Dead
  InOrder = TRUE
  Exits = TRUE
  ReusePids = FALSE
SPECIFICATION TracedSpec
INVARIANTS SameFile NothingInvented
CHECK_DEADLOCK FALSE
