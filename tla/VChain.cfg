\* A call that failed on a file of the disk, and the call that then made it.
CONSTANTS
  Paths <- Tree
  Top = "/"
  Parent <- Dir
  Above <- Up
  Directories = {"d", "d/e"}
  Denied = FALSE
  Ops = {"stat", "mkdir"}
  Cwd <- Home
  Parts <- SomeParts
  MaxParts = 1
  Spelling <- Spelled
SPECIFICATION ChainSpec
INVARIANT NoChain
CHECK_DEADLOCK FALSE
