SPECIFICATION FairSpec
CONSTANTS
  Conns = {c1, c2}
  Kinds = {"weight"}
  ChanCap = 1
  MaxWrites = 2
INVARIANTS
  TypeOK
  ConnectedIsRegistered
  NoGhostClients
PROPERTIES
  LeavesForCause
  DeadClientRemoved
  HandlerEnds
CHECK_DEADLOCK FALSE
