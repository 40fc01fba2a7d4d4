SPECIFICATION Spec
CONSTANTS
  MethodOf <- Hosts
  NEntries = 2
  ConnectTime = 2
  BetweenTime = 1
  ExtendTime = 2
  MaxElapsed = 3
  MaxKeys = 1
  LookupTimes = {0, 3}
  IdleTimeout = FALSE
PROPERTIES EveryTaggedTried
CHECK_DEADLOCK FALSE
