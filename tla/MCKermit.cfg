SPECIFICATION KSpec
CONSTANTS
  NFiles = 2
  Size <- TwoFiles
  SeqMod = 8
  Window = 3
  NoiseKinds = {"bad", "len", "noise", "cut"}
  MaxFaults = 2
  KTimeoutMax = 4
  KSetups <- AllKSetups
  KPromptLine = TRUE
INVARIANTS KTypeOK KContent KWhole KNoCrash TimeoutFindsPacket
PROPERTIES KTermination KSucceeds
CHECK_DEADLOCK FALSE
