CONSTANTS
  Traces <- MCTraces
  Scales <- MCScales
  SLACK = 2
  WRAP = 8
  DUR_WRAP = 8
  Delays = {1, 2}
  CallTimes = {0, 3, 10}
  CAP = 24
SPECIFICATION FairSpec
INVARIANT TypeOK
PROPERTIES NeverEarly WaitsOnlyIfEarly ShortTraceEnds
CHECK_DEADLOCK FALSE
