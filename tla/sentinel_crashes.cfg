\* Processes that die anywhere, on a disk that may fail.
CONSTANTS
  ModA = ModA
  ModB = ModB
  None = None
  Mod <- MCMod
  Records <- MCRecords
  DiskMayFail = TRUE
SPECIFICATION Spec
INVARIANTS RecoversFromTheCulprit
PROPERTIES ChargesTheLastActive
