SPECIFICATION Spec
CONSTANTS
  MethodOf <- TwoModems
  NEntries = 2
  ConnectTime = 2
  BetweenTime = 1
  ExtendTime = 2
  MaxElapsed = 3
  MaxKeys = 3
  LookupTimes = {0}
  IdleTimeout = FALSE
INVARIANTS DialerAsserts
CHECK_DEADLOCK FALSE
