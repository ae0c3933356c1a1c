SPECIFICATION FairSpec
CONSTANTS
  Ports = {COM3, COM4}
  Brands = {Rhino}
  Unset = Unset
  DefaultPort = COM3
  DefaultBrand = Rhino
  NoPort = NoPort
  Handlers = {h1}
  ChanCap = 1
  TestReadings = 2
  Faults <- AllFaults
PROPERTY RetryProceeds
CHECK_DEADLOCK FALSE
