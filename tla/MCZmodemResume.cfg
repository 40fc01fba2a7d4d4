SPECIFICATION ZSpec
CONSTANTS
  NFiles = 2
  Size <- TwoFiles
  NoiseKinds = {"bad", "type", "noise", "cut"}
  MaxFaults = 1
  BlockMax = 2
  BlockMin = 1
  DownAfter = 1
  GiveUpAfter = 2
  UpAfter = 1
  WindowReliable = 2
  WindowUnreliable = 1
  ZTimeoutMax = 3
  ZErrorsMax = 4
  ZSetups <- ResumeSetups
  ZPromptLine = TRUE
INVARIANTS DoneIsGood
CHECK_DEADLOCK FALSE
