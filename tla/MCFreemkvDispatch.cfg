SPECIFICATION Spec
CONSTANTS
  Catalogs <- MCCatalogs
  News <- MCNews
  Products <- MCProducts
  Four = "f1"
  SpeedBytes <- MCSpeedBytes
  Versions <- MCVersions
  MaxCalls = 2
  MaxFaults = 1
  MaxEvents = 1
CHECK_DEADLOCK FALSE
INVARIANTS
  Recognised
  LdReached
  UnlockIsReal
  BackendFits
PROPERTIES
  NoBlindLoad
  BindingStable
