SPECIFICATION FairSpec
CONSTANTS
  Attempts = 3
  Rereads = 2
  Tries = 2
  Forms = {"returned", "raised"}
  MaxCalls = 2
  MaxFaults = 3
  MaxResets = 1
INVARIANTS
  UploadsBounded
  WholeUpload
  UnlockIsReal
  QuietAfterFault
  DeadBusIsFatal
  Reconfirmed
  UnlockKept
PROPERTIES
  CallEnds
CHECK_DEADLOCK FALSE
