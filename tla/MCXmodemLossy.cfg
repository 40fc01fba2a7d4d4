SPECIFICATION Spec
CONSTANTS
  NBlocks = 2
  SeqMod = 2
  SumLen = 2
  CrcLen = 3
  LongLen = 4
  TailShort = TRUE
  NoiseKinds = {"both"}
  MaxFaults = 1
  DiskFaults = FALSE
  TimeoutMax = 2
  RelaxFactor = 2
  ErrorsMax = 3
  FirstMax = 1
  Setups <- StopAndWaitSetups
  UserAborts = FALSE
  PromptLine = FALSE
INVARIANTS SafeInv PrefixDelivered SuccessIsReal
PROPERTIES Termination RefinesFileTransfer
CHECK_DEADLOCK FALSE
