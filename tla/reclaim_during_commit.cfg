SPECIFICATION Spec
CONSTANTS
  Assets <- TwoAssets
  Sources <- OneSource
  Contents <- OneContent
  Requests <- AllManifests
  Size <- UnitSize
  Quota = 0
  MaxUploads = 2
  FaultKinds <- NoFaults
  MaxFaults = 0
  PeriodicReconcile = FALSE
  NoRequest = NoRequest
INVARIANT ReferencedBlobsStored
CHECK_DEADLOCK FALSE
