\* The documented promise of the arm64 mask.
CONSTANTS
  LastField = 1
  FirstBuilds <- MCFirstBuilds
  Insertions <- MCInsertions
  MaxUpdates = 1
  MaxWindowUnits = 4
SPECIFICATION SiggenSpec
INVARIANT RelinkedCodeIsFound
CHECK_DEADLOCK FALSE
