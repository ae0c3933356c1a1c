SPECIFICATION Spec
CONSTANTS
  Conns = {c1, c2}
  Kinds = {"weight", "error"}
  ChanCap = 1
  MaxWrites = 2
PROPERTY ActivityMeansWeight
CHECK_DEADLOCK FALSE
