SPECIFICATION Spec
CONSTANTS
  Attempts = 3
  Rereads = 2
  Tries = 2
  Forms = {"returned"}
  MaxCalls = 1
  MaxFaults = 3
  MaxResets = 1
INVARIANTS
  AlwaysReconfirmed
CHECK_DEADLOCK FALSE
