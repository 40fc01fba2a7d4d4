SPECIFICATION Spec
CONSTANTS
  NBlocks = 2
  SeqMod = 3
  SumLen = 2
  CrcLen = 3
  LongLen = 5
  TailShort = TRUE
  NoiseKinds = {"hdr"}
  MaxFaults = 1
  DiskFaults = TRUE
  TimeoutMax = 2
  RelaxFactor = 2
  ErrorsMax = 2
  FirstMax = 1
  Setups <- FaultSetups
  UserAborts = TRUE
  PromptLine = FALSE
INVARIANTS GoodBlocksInOrder RetriesBounded
PROPERTIES Termination
CHECK_DEADLOCK FALSE
