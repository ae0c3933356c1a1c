SPECIFICATION FairSpec
CONSTANTS
  Ports = {COM3, COM4}
  Brands = {Rhino, Other}
  Unset = Unset
  DefaultPort = COM3
  DefaultBrand = Rhino
  NoPort = NoPort
  Handlers = {h1, h2}
  ChanCap = 1
  TestReadings = 2
  Faults <- AllFaults
INVARIANTS
  TypeOK
  NoHandleOverwritten
  HandleMatchesSnapshot
  SwapEffective
  ReadHoldsLock
  PortReleased
PROPERTIES
  ImplementsLink
  ShutdownTerminates
  HandlerReturns
  SwapApplied
CHECK_DEADLOCK FALSE
