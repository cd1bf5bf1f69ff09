\* Does reception always restart?  Damaged frames may arrive.
CONSTANTS
  RX_SIZE = 5
  PBUF_POOL_SIZE = 2
  MaxHeld = 0
  RxErrors <- DamagedFrames
  Callbacks <- NoCallback
SPECIFICATION FairSpec
PROPERTY
  ReceptionRestarts
CHECK_DEADLOCK FALSE
