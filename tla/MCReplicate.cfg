\* Any trace, with failed clones, calls on fd -1 and opens that fail.
CONSTANTS
  p1 = p1
  p2 = p2
  p3 = p3
  Pids = {p1, p2}
  Root = p1
  Fds = {5, 6}
  RealFds = {5, 6}
  MaxGens = 3
  MaxParents = 3
  Absent = Absent
  Null = Null
  Nil = Nil
  Virtual = Virtual
  Closed = Closed
  Files = {"a"}
  Ignored = "ignored"
  Unknown = "unknown"
  Failed = Failed
  FixMissing = TRUE
  MinusOne = TRUE
  DupSelf = FALSE
  OpenMayFail = TRUE
  CloseMayFail = FALSE
  Ops = {"open", "close", "thread", "fork", "dup", "pipe", "socket", "read", "sendfile"}
  MaxUsage = 3
SPECIFICATION Spec
INVARIANTS TypeOK NoUseAfterFree ParentFdsCoverItems MappedFdsAreOpen UsageCoversUsers
PROPERTY OneTableChanges
CHECK_DEADLOCK FALSE
