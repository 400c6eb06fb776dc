SPECIFICATION FairSpec
CONSTANTS
  Assets <- OneAsset
  Sources <- OneSource
  Contents <- OneContent
  Requests <- AllManifests
  Size <- UnitSize
  Quota = 0
  MaxUploads = 2
  FaultKinds <- AllFaults
  MaxFaults = 1
  PeriodicReconcile = TRUE
  NoRequest = NoRequest
PROPERTIES CommitsSettle LitterIsCollected
CHECK_DEADLOCK FALSE
