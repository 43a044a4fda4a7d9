\* Threads only: the counts are exact and nothing dies.
CONSTANTS
  p1 = p1
  p2 = p2
  p3 = p3
  Pids = {p1, p2, p3}
  Root = p1
  Fds = {5, 6}
  RealFds = {5, 6, 7}
  MaxGens = 3
  MaxParents = 3
  Absent = Absent
  Null = Null
  Nil = Nil
  Virtual = Virtual
  Closed = Closed
  Files = {"a"}
  Ignored = "ignored"
  Unknown = "unknown"
  Failed = Failed
  FixMissing = TRUE
  MinusOne = FALSE
  DupSelf = FALSE
  OpenMayFail = TRUE
  CloseMayFail = FALSE
  Ops = {"open", "close", "dup", "thread", "socket", "read", "write", "pread", "pwrite", "lseek", "llseek", "sendfile"}
  MaxUsage = 3
SPECIFICATION Spec
INVARIANTS NeverDies UsageExact
CHECK_DEADLOCK FALSE
