\* Calls that name files, on every pair of small file systems, and the names
\* they are looked up under.
CONSTANTS
  Paths <- Tree
  Top = "/"
  Parent <- Dir
  Above <- Up
  Directories = {"d", "d/e"}
  Denied = TRUE
  Ops <- AllCalls
  Cwd <- Home
  Parts <- SomeParts
  MaxParts = 4
  Spelling <- Spelled
SPECIFICATION Spec
INVARIANTS TypeOK TrieFollowsDisk AlarmExact ReportExact KnownIsFound
CHECK_DEADLOCK FALSE
