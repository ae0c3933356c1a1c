SPECIFICATION FairSpec
CONSTANTS
  Tokens = {t1, t2}
  Visits = {v1, v2}
  Sources = {s1}
  SessionDuration = 2
  LockoutDuration = 2
  MaxLoginAttempts = 2
  Enabled = TRUE
INVARIANTS
  SessionKept
  NoLoginWhileLocked
PROPERTIES
  LockoutOnlyAges
  SessionsCollected
  ImplementsLease
CHECK_DEADLOCK FALSE
