CONSTANTS
  a = a
  b = b
  Threads = {a, b}
  Nobody = Nobody
  Attempts = 3
  MaxFaults = 4
  MaxExpiry = 1
  MaxCalls = 2
SPECIFICATION FairSpec
INVARIANT TypeOK
INVARIANT LockHeldByAuth
INVARIANT FreshRound
PROPERTY CallsReturn
CHECK_DEADLOCK FALSE
