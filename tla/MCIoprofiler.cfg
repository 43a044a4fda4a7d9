\* ioprofiler with traces that can be read, and any script.
CONSTANTS
  Files <- AllFiles
  NULL = NULL
  MaxDicts = 3
  MaxOpens = 4
  MaxHeld = 2
  MaxListed = 3
  Opened <- Sound
  Clients = {"ioprofiler", "script"}
SPECIFICATION AppSpec
INVARIANTS TypeOK DictsOfMaps ProfilerHoldsDicts
PROPERTY Viewer
CHECK_DEADLOCK FALSE
