SPECIFICATION Spec
CONSTANTS
  NBlocks = 5
  SeqMod = 2
  SumLen = 2
  CrcLen = 3
  LongLen = 5
  TailShort = FALSE
  NoiseKinds = {}
  MaxFaults = 0
  DiskFaults = FALSE
  TimeoutMax = 2
  RelaxFactor = 2
  ErrorsMax = 3
  FirstMax = 1
  Setups <- PromptSetups
  UserAborts = FALSE
  PromptLine = TRUE
PROPERTIES Succeeds
CHECK_DEADLOCK FALSE
