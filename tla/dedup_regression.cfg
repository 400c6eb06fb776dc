SPECIFICATION Spec
CONSTANTS
  Assets <- OneAsset
  Sources <- OneSource
  Contents <- TwoContents
  Requests <- AllManifests
  Size <- UnitSize
  Quota = 0
  MaxUploads = 2
  FaultKinds <- NoFaults
  MaxFaults = 0
  PeriodicReconcile = FALSE
  NoRequest = NoRequest
PROPERTY VersionNeverRegresses
CHECK_DEADLOCK FALSE
