SPECIFICATION Spec
CONSTANTS
  NBlocks = 2
  SeqMod = 2
  SumLen = 2
  CrcLen = 3
  LongLen = 5
  TailShort = TRUE
  NoiseKinds = {}
  MaxFaults = 0
  DiskFaults = FALSE
  TimeoutMax = 2
  RelaxFactor = 2
  ErrorsMax = 3
  FirstMax = 1
  Setups <- GSetups
  UserAborts = FALSE
  PromptLine = TRUE
INVARIANT NoAssertFails
CHECK_DEADLOCK FALSE
