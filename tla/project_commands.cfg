\* Builds, publications, submissions and uploads that fail or are killed; the
\* menu; the doctor; the patch of an executable and the package of a mod.
CONSTANTS
  MaxIdLength = 2
  TagCount = 2
  Manifests <- MCManifests
  MaxEdits = 2
  MaxSummary = 1
  MaxUploads = 1
  MaxText = 2
  CommandSize = 2
  PatchJobs <- MCPatchJobs
  PackageJobs <- MCPackageJobs
SPECIFICATION ProjectSpec
INVARIANTS ProjectTypeOK PackagesAreValid SubmissionsAreComplete MenuIsWellBehaved
           DoctorIsHonest PatchesAndPackagesAreSound
CHECK_DEADLOCK FALSE
