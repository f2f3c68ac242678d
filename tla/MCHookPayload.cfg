SPECIFICATION FairSpec
CONSTANTS
  Waits = 2
  MaxCommands = 3
  MaxMoves = 1
CHECK_DEADLOCK FALSE
INVARIANTS
  CallbackReturned
  ResidentBytesKept
PROPERTIES
  ReaderUndisturbed
  SwitchHolds
  CommandEnds
