SPECIFICATION Spec
CONSTANTS
  MaxLines = 4
  LineSize <- FourLines
  BufSize = 5
  MaxLogSize = 7
  FlushLines = 2
  RotateLines = 3
  Flushers = {f1, f2}
  Main = Main
  Handles = {a, b, c}
  Nil = Nil
  Stdout = Stdout
  Faults <- AllFaults
SYMMETRY Symmetric
INVARIANTS
  TypeOK
  OneRewriter
  NothingLoggedMeanwhile
  InOrder
  LoggingAlive
  RestartBounds
  TailOfWindow
PROPERTIES
  ImplementsJournal
CHECK_DEADLOCK FALSE
