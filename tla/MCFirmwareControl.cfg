SPECIFICATION Spec
CONSTANTS
  Baked <- BakedOpen
  Requests <- SomeRequests
  MaxFaults = 2
INVARIANTS
  ArmIsReal
  NothingElse
  EncryptionLast
