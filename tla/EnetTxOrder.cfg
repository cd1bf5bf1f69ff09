\* The ring of the code, filled more than twice.
CONSTANTS
  TX_SIZE = 5
  MaxTxFrames = 12
SPECIFICATION TxOrderFairSpec
INVARIANTS
  NoLostKick
PROPERTIES
  IsFifo
  EveryFrameIsSent
CHECK_DEADLOCK FALSE
