SPECIFICATION Spec
CONSTANTS
  Assets <- TwoAssets
  Sources <- OneSource
  Contents <- TwoContents
  Requests <- EditedAndShared
  Size <- UnitSize
  Quota = 0
  MaxUploads = 2
  FaultKinds <- Interruptions
  MaxFaults = 1
  PeriodicReconcile = FALSE
  NoRequest = NoRequest
INVARIANTS TypeOK BlobReferencesHold DoctorRefusesOnlyReplaced
CHECK_DEADLOCK FALSE
