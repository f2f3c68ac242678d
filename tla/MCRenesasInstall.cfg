SPECIFICATION Spec
CONSTANTS
  MaxCalls = 3
  MaxFaults = 2
  MaxResets = 1
INVARIANTS
  HookIntact
  StopIsFatal
  AllOrNothing
PROPERTIES
  FilledDetached
  HangIsAnnounced
  ResidentHookKept
  ContractHolds
CHECK_DEADLOCK FALSE
