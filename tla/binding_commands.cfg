\* Two contributors, a reviewer and the generator on one symbol; extraction,
\* pulse surface and pulse siggen; and the evaluations.
CONSTANTS
  Symbols = {"A::B"}
  Signatures = {"int()", "void()"}
  Contributors = {"alice", "bob"}
  Pairs = {1, 2}
  LastAddress = 1
  Stems = {"A__B"}
  StemOf <- OneFile
  MaxChanges = 3
  LastSymbol = 3
  FileOf <- FileOfSymbol
  TargetPairs = {1, 2}
  MaxEditions = 2
  MaxExtractions = 2
  SurfaceManifests <- MCSurfaceManifests
  SurfaceCatalogs <- MCSurfaceCatalogs
  MaxSurfaceChanges = 2
  LastField = 1
  FirstBuilds <- MCFirstBuilds
  Insertions <- MCInsertions
  MaxUpdates = 1
  MaxWindowUnits = 4
INIT MCInit
NEXT MCNext
INVARIANTS BindingsTypeOK VerifiedMeansChecked ExtractionIsFaithful HeadersFitTogether
           SteadyCodeIsFound DerivedAddressesAreTrue TextsAreChecked
CHECK_DEADLOCK FALSE
