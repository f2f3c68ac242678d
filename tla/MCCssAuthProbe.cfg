SPECIFICATION Spec
CONSTANTS
  A0 = A0
  A1 = A1
  A2 = A2
  A3 = A3
  None = None
  Agids <- FourAgids
  MaxCalls = 2
  MaxFaults = 2
  MaxEjects = 1
INVARIANTS
  OnlyDeadBusIsErr
CHECK_DEADLOCK FALSE
