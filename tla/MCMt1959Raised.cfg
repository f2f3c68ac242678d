SPECIFICATION Spec
CONSTANTS
  Attempts = 3
  Rereads = 2
  Tries = 2
  Forms = {"returned", "raised"}
  MaxCalls = 1
  MaxFaults = 3
  MaxResets = 1
INVARIANTS
  UnlockNotDiscarded
CHECK_DEADLOCK FALSE
