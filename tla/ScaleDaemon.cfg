SPECIFICATION DaemonFairSpec
CONSTANTS
  Ports = {COM3}
  Brands = {Rhino}
  Unset = Unset
  DefaultPort = COM3
  DefaultBrand = Rhino
  NoPort = NoPort
  Handlers = {h1}
  ChanCap = 1
  TestReadings = 1
  Faults <- SomeFaults
INVARIANTS
  QuitAfterCancel
  LogClosedLast
  PortHasReader
PROPERTIES
  StopReturns
  FailureReleases
  ImplementsReader
  ImplementsLifecycle
CHECK_DEADLOCK FALSE
