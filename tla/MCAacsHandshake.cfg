SPECIFICATION Spec
CONSTANTS
  A0 = A0
  A1 = A1
  None = None
  Agids <- TwoAgids
  MaxCerts = 4
  MaxFaults = 1
INVARIANTS
  AgidReleased
  NotStarved
  WedgeGuard
  VidIsVouched
  DeadBusIsFatal
CHECK_DEADLOCK FALSE
