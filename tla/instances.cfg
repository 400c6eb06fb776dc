SPECIFICATION Spec
CONSTANTS
  Instances <- OneInstance
  Paths <- AllPaths
  Within <- BelowBlobs
  DefaultPath <- DefaultPaths
  Clients = {phone1, phone2}
  Requests = {request1, request2}
  MaxCodes = 3
  MaxTokens = 2
  MaxUploads = 2
  MaxKeys = 2
  None = None
INVARIANTS InstancesTypeOK KeysOfThisPairing PairedByItsCode BlobsUnderPath
PROPERTIES TokenKept EndedStaysEnded
CHECK_DEADLOCK FALSE
