SPECIFICATION HSpec
CONSTANTS
  Assets <- OneAsset
  Sources <- OneSource
  c1 = c1
  c2 = c2
  large = large
  Contents <- ThreeVersions
  Requests <- AllManifests
  Size <- LargeIsTwo
  Quota = 2
  MaxUploads = 2
  FaultKinds <- AllFaults
  MaxFaults = 2
  PeriodicReconcile = FALSE
  NoRequest = NoRequest
INVARIANTS ShownIsNewest QuotaRespected
INVARIANTS BytesSurviveRestarts RestartsStayRecoverable UnknownOnlyAfterIncident
PROPERTIES ReceiptFinal ImplementsArchive
CHECK_DEADLOCK FALSE
SYMMETRY VersionSymmetry
