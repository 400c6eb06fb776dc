SPECIFICATION Spec
CONSTANTS
  Accounts = {"a", "b"}
  Uploads = {"u1", "u2"}
  Parts = {0, 1}
  PartsOf <- TwoAndOne
  Owner <- OneEach
  Calls = {call1, call2, call3}
  Semaphores = {s1, s2, s3}
  GlobalLimit = 2
  AccountLimit = 1
  None = None
SYMMETRY Interchangeable
INVARIANTS PartReceiveTypeOK ReceivedStored PartFilesWhole AccountLimited
PROPERTY ImplementsLedger
CHECK_DEADLOCK FALSE
