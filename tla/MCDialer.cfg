SPECIFICATION Spec
CONSTANTS
  MethodOf <- Mixed
  NEntries = 3
  ConnectTime = 2
  BetweenTime = 1
  ExtendTime = 2
  MaxElapsed = 3
  MaxKeys = 5
  LookupTimes = {0, 1, 2}
  IdleTimeout = TRUE
INVARIANTS DialerInv DialerHasEntry OnlineHasLine
PROPERTIES EveryTaggedTried
CHECK_DEADLOCK FALSE
