SPECIFICATION Spec
CONSTANTS
  NBlocks = 2
  SeqMod = 2
  SumLen = 2
  CrcLen = 3
  LongLen = 5
  TailShort = TRUE
  NoiseKinds = {"one"}
  MaxFaults = 1
  DiskFaults = FALSE
  TimeoutMax = 2
  RelaxFactor = 2
  ErrorsMax = 3
  FirstMax = 1
  Setups <- CrcSetups
  UserAborts = FALSE
  PromptLine = FALSE
INVARIANT PrefixDelivered
CHECK_DEADLOCK FALSE
