SPECIFICATION TSpec
CONSTANTS
  TChars <- Chars
  TSetups <- AllTSetups
  MaxBlocks = 2
INVARIANTS TTypeOK TClean TNoGap
PROPERTIES TSettles TArrives TCloses
CHECK_DEADLOCK FALSE
