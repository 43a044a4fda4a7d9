CONSTANTS
  Lists <- AllLists
  MAX_STRING <- MCMaxString
  DamagedPlaces <- Damaged
  DamagedBytes <- Becomes
SPECIFICATION FairSpec
INVARIANTS TypeOK LoadedAsSaved CutIsNoticed RoundTrip
PROPERTY LoadEnds
CHECK_DEADLOCK FALSE
