\* The ring of the code, with damaged frames and a pool that can run dry;
\* frames enough to go around the ring twice.
CONSTANTS
  RX_SIZE = 5
  PBUF_POOL_SIZE = 2
  MaxHeld = 2
  MaxFrames = 10
  RxErrors <- DamagedFrames
  Callbacks <- CallbackInstalled
SPECIFICATION OrderFairSpec
INVARIANTS
  PbufsConserved
  NoLostRearm
  FullRingIsServed
  NoFrameLost
PROPERTIES
  IsQueue
  EveryFrameIsRead
CHECK_DEADLOCK FALSE
