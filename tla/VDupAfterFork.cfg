\* A legal trace meets the assertion of insert_parent_fd.
CONSTANTS
  p1 = p1
  p2 = p2
  p3 = p3
  Pids = {p1, p2}
  Root = p1
  Fds = {5, 6}
  RealFds = {5, 6}
  MaxGens = 3
  MaxParents = 3
  Absent = Absent
  Null = Null
  Nil = Nil
  Virtual = Virtual
  Closed = Closed
  Files = {"a"}
  Ignored = "ignored"
  Unknown = "unknown"
  Failed = Failed
  FixMissing = TRUE
  MinusOne = FALSE
  DupSelf = FALSE
  OpenMayFail = FALSE
  CloseMayFail = FALSE
  Ops = {"open", "fork", "dup", "close"}
  MaxUsage = 3
SPECIFICATION Spec
INVARIANTS InsertNeverAsserts
CHECK_DEADLOCK FALSE
