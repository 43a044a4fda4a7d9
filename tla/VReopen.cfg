\* The user tries a file that is not there, and then another one.
CONSTANTS
  Files <- AllFiles
  NULL = NULL
  MaxDicts = 3
  MaxOpens = 4
  MaxHeld = 2
  MaxListed = 3
  Opened <- WithMissing
  Clients = {"ioprofiler"}
SPECIFICATION AppSpec
INVARIANTS ProfilerSurvives
CHECK_DEADLOCK FALSE
