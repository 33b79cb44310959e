\* Installs and uninstalls that fail and die anywhere, with a game update.
CONSTANTS
  MaxRelease = 2
  DiskMayFail = TRUE
SPECIFICATION Spec
INVARIANTS InstallerTypeOK EveryFileIsOwnOrRecorded RecordsTheGameOnly PatchedFindsItsDylib
PROPERTIES KeepsAnUndoLog
