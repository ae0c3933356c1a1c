SPECIFICATION Spec
CONSTANTS
  MaxLines = 4
  LineSize <- FourLines
  BufSize = 5
  MaxLogSize = 7
  FlushLines = 2
  RotateLines = 3
  Flushers = {f1, f2}
  Main = Main
  Handles = {a, b, c}
  Nil = Nil
  Stdout = Stdout
  Faults = {}
INVARIANT TailIsWhole
CHECK_DEADLOCK FALSE
