SPECIFICATION Spec
CONSTANTS
  Addrs = {a1, a2}
  maxPerMin = 2
  Minute = 3
  MaxTime = 8
  MaxServed = 6
CONSTRAINT Bounded
SYMMETRY AddrSymmetry
INVARIANTS
  TypeOK
  WindowBounded
  RefusedForCause
