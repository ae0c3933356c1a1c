SPECIFICATION Spec
CONSTANTS
  Conns = {c1, c2}
  Kinds = {"weight"}
  ChanCap = 1
  MaxWrites = 2
PROPERTY AmbienteFirst
CHECK_DEADLOCK FALSE
