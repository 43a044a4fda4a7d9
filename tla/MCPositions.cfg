\* Two processes, two descriptors, one file and sockets.
CONSTANTS
  p1 = p1
  p2 = p2
  Tables = {p1, p2}
  First = p1
  Fds = {5, 6}
  Files = {"a"}
  Other = "other"
  d1 = d1
  d2 = d2
  d3 = d3
  d4 = d4
  Descs = {d1, d2, d3, d4}
  None = None
  MaxPos = 1
  MaxCount = 1
  MaxSkewed = 1
SPECIFICATION Spec
INVARIANTS TypeOK 
PROPERTY TransfersExact
SYMMETRY SymDescs
CHECK_DEADLOCK FALSE
